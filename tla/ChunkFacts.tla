----------------------------- MODULE ChunkFacts -----------------------------
(***************************************************************************)
(* Theorems about the chunk: what the encodings do to every number, and    *)
(* that lundump.c reads back, whole and unchanged, whatever the generator  *)
(* writes.                                                                 *)
(***************************************************************************)
EXTENDS Chunk, CodeGenPrototypes

----------------------------------------------------------------------------
(* The encodings.                                                          *)

(* writeLuaInteger never passes a negative number to writeVarInt, whose    *)
(* loop would not end, and loadInteger undoes it.                          *)
THEOREM IntegersSurvive ==
  \A n \in Int : coded(n) \in Nat /\ decoded(coded(n)) = n
<1> SUFFICES ASSUME NEW n \in Int
             PROVE  coded(n) \in Nat /\ decoded(coded(n)) = n
  OBVIOUS
<1>1. CASE n >= 0
  <2>1. coded(n) = 2 * n  BY <1>1 DEF coded
  <2>2. (2 * n) % 2 = 0 /\ (2 * n) \div 2 = n  BY <1>1
  <2> QED  BY <1>1, <2>1, <2>2 DEF decoded
<1>2. CASE n < 0
  <2> DEFINE m == -n - 1
  <2>1. m \in Nat /\ n = -m - 1  BY <1>2
  <2>2. coded(n) = 2 * m + 1  BY <1>2 DEF coded
  <2>3. (2 * m + 1) % 2 = 1 /\ (2 * m + 1) \div 2 = m  BY <2>1
  <2>4. decoded(2 * m + 1) = -m - 1  BY <2>1, <2>3 DEF decoded
  <2> QED  BY <2>1, <2>2, <2>4
<1> QED  BY <1>1, <1>2

(* writeAlign and loadAlign, with the alignment of an instruction: the     *)
(* padding leads to the next multiple of 4, from any position.             *)
THEOREM PaddingAligns ==
  \A at \in Nat :
    /\ Padding(at, 4) \in 0..3
    /\ (at + Padding(at, 4)) % 4 = 0
BY DEF Padding

(* A function defined by recursion exists if what step gives for x only    *)
(* depends on arguments that are smaller than x.                           *)
Local(D, V, mu, step) ==
  \A x \in D : \A g, h \in [D -> V] :
    (\A y \in D : mu[y] < mu[x] => g[y] = h[y]) => step[<<x, g>>] = step[<<x, h>>]
Solves(f, D, step) == \A x \in D : f[x] = step[<<x, f>>]

LEMMA Recursion ==
  ASSUME NEW D, NEW V, NEW v0 \in V, NEW mu \in [D -> Nat],
         NEW step \in [D \X [D -> V] -> V], Local(D, V, mu, step)
  PROVE  \E f \in [D -> V] : Solves(f, D, step)
<1>0. \A x \in D : \A g, h \in [D -> V] :
        (\A y \in D : mu[y] < mu[x] => g[y] = h[y]) => step[<<x, g>>] = step[<<x, h>>]
  BY Zenon DEF Local
<1> DEFINE Upto(f, n) == \A x \in D : mu[x] < n => f[x] = step[<<x, f>>]
<1>1. ASSUME NEW n \in Nat, NEW f \in [D -> V], Upto(f, n)
      PROVE  \E g \in [D -> V] : Upto(g, n + 1)
  <2> DEFINE g == [x \in D |-> step[<<x, f>>]]
  <2>1. g \in [D -> V] /\ \A x \in D : g[x] = step[<<x, f>>]
    OBVIOUS
  <2>2. \A x \in D : mu[x] < n => g[x] = f[x]
    BY <1>1, <2>1
  <2> HIDE DEF g
  <2>3. ASSUME NEW x \in D, mu[x] < n + 1 PROVE g[x] = step[<<x, g>>]
    <3>1. \A y \in D : mu[y] < mu[x] => f[y] = g[y]
      <4> TAKE y \in D
      <4> HAVE mu[y] < mu[x]
      <4>1. mu[y] < n
        BY <2>3
      <4> QED
        BY <2>2, <4>1
    <3>2. step[<<x, f>>] = step[<<x, g>>]
      BY <1>0, <1>1, <2>1, <3>1, Zenon
    <3> QED
      BY <2>1, <3>2
  <2> QED
    BY <2>1, <2>3
<1>2. ASSUME NEW n \in Nat PROVE \E f \in [D -> V] : Upto(f, n)
  <2> DEFINE S == {m \in Nat : ~\E f \in [D -> V] : Upto(f, m)}
  <2>1. CASE S = {}
    BY <2>1
  <2>2. CASE S # {}
    <3>1. PICK m \in S : \A k \in S : m <= k
      BY <2>2, LeastNat
    <3>2. CASE m = 0
      <4>1. [x \in D |-> v0] \in [D -> V] /\ Upto([x \in D |-> v0], 0)
        OBVIOUS
      <4> QED
        BY <3>1, <3>2, <4>1
    <3>3. CASE m # 0
      <4> HIDE DEF Upto
      <4>1. m - 1 \in Nat /\ (m - 1) + 1 = m
        BY <3>1, <3>3
      <4>2. \E f \in [D -> V] : Upto(f, m - 1)
        <5>1. CASE m - 1 \in S
          BY <3>1, <4>1, <5>1
        <5> QED
          BY <4>1, <5>1
      <4>3. \E f \in [D -> V] : Upto(f, m)
        BY <1>1, <4>1, <4>2
      <4> QED
        BY <3>1, <4>3
    <3> QED
      BY <3>2, <3>3
  <2> QED
    BY <2>1, <2>2
<1>3. ASSUME NEW f \in [D -> V], NEW g \in [D -> V], NEW n \in Nat, NEW k \in Nat,
             Upto(f, n), Upto(g, k), NEW z \in D, mu[z] < n, mu[z] < k
      PROVE  f[z] = g[z]
  <2> DEFINE S == {i \in Nat : \E x \in D : mu[x] = i /\ i < n /\ i < k /\ f[x] # g[x]}
  <2>1. CASE S = {}
    BY <1>3, <2>1
  <2>2. CASE S # {}
    <3>1. PICK i \in S : \A j \in S : i <= j
      BY <2>2, LeastNat
    <3>2. PICK x \in D : mu[x] = i /\ i < n /\ i < k /\ f[x] # g[x]
      BY <3>1
    <3>3. \A y \in D : mu[y] < mu[x] => f[y] = g[y]
      <4> TAKE y \in D
      <4> HAVE mu[y] < mu[x]
      <4>1. mu[y] < n /\ mu[y] < k /\ mu[y] \in Nat /\ ~(i <= mu[y])
        BY <3>2
      <4> QED
        BY <3>1, <4>1
    <3>4. step[<<x, f>>] = step[<<x, g>>]
      BY <1>0, <3>3, Zenon
    <3>5. f[x] = step[<<x, f>>] /\ g[x] = step[<<x, g>>]
      BY <1>3, <3>2
    <3> QED
      BY <3>2, <3>4, <3>5
  <2> QED
    BY <2>1, <2>2
<1> DEFINE pick(n) == CHOOSE f \in [D -> V] : Upto(f, n)
           F == [x \in D |-> pick(mu[x] + 1)[x]]
<1> HIDE DEF Upto
<1>4. \A n \in Nat : pick(n) \in [D -> V] /\ Upto(pick(n), n)
  BY <1>2
<1> HIDE DEF pick
<1>5. \A x \in D : mu[x] + 1 \in Nat /\ pick(mu[x] + 1) \in [D -> V]
  BY <1>4
<1>6. F \in [D -> V] /\ \A x \in D : F[x] = pick(mu[x] + 1)[x]
  BY <1>5
<1> HIDE DEF F
<1>7. ASSUME NEW x \in D PROVE F[x] = step[<<x, F>>]
  <2> DEFINE h == pick(mu[x] + 1)
  <2>1. h \in [D -> V] /\ Upto(h, mu[x] + 1) /\ F[x] = h[x]
    BY <1>4, <1>5, <1>6
  <2>2. ASSUME NEW y \in D, mu[y] < mu[x] PROVE h[y] = F[y]
    <3>1. /\ mu[y] + 1 \in Nat /\ mu[x] + 1 \in Nat
          /\ mu[y] < mu[x] + 1 /\ mu[y] < mu[y] + 1
      BY <2>2
    <3>2. pick(mu[y] + 1) \in [D -> V] /\ Upto(pick(mu[y] + 1), mu[y] + 1)
      BY <1>4, <3>1
    <3> HIDE DEF h
    <3>3. h[y] = pick(mu[y] + 1)[y]
      BY <1>3, <2>1, <3>1, <3>2
    <3> QED
      BY <1>6, <3>3
  <2>3. step[<<x, h>>] = step[<<x, F>>]
    <3> HIDE DEF h
    <3> QED
      BY <1>0, <1>6, <2>1, <2>2, Zenon
  <2>4. h[x] = step[<<x, h>>]
    <3>1. mu[x] < mu[x] + 1
      OBVIOUS
    <3> HIDE DEF h
    <3> QED
      BY <2>1, <3>1 DEF Upto
  <2> QED
    BY <2>1, <2>3, <2>4
<1> QED
  BY <1>6, <1>7, Zenon DEF Solves

----------------------------------------------------------------------------
(* The bytes of a chunk, and numbers in it.                                *)

ByteSet == ({"byte"} \X Nat) \cup ({"code"} \X Instruction \X Nat)
             \cup ({"flt"} \X (Int \X Int) \X Nat) \cup ({"chr"} \X Names \X Nat)
             \cup ({"header"} \X {"lua"} \X Nat)

LEMMA SeqFunction ==
  ASSUME NEW S, NEW s \in Seq(S)
  PROVE  s \in [1..Len(s) -> S] /\ Len(s) \in Nat /\ \A j \in 1..Len(s) : s[j] \in S
  OBVIOUS

LEMMA GroupsStep ==
  /\ Groups \in [Nat -> Seq(0..127)]
  /\ \A n \in Nat : Groups[n] = IF n < 128 THEN <<n>> ELSE Append(Groups[n \div 128], n % 128)
<1> DEFINE V == Seq(0..127)
           next(f, n) == IF n < 128 THEN <<n>> ELSE Append(f[n \div 128], n % 128)
           mu == [n \in Nat |-> n]
           step == [nf \in Nat \X [Nat -> V] |-> next(nf[2], nf[1])]
           P(g) == g = [n \in Nat |-> IF n < 128 THEN <<n>> ELSE Append(g[n \div 128], n % 128)]
<1>1. \A n \in Nat : n >= 128 => n \div 128 \in Nat /\ n \div 128 < n /\ n % 128 \in 0..127
  OBVIOUS
<1>2. ASSUME NEW f \in [Nat -> V], NEW n \in Nat PROVE next(f, n) \in V
  <2>1. CASE n < 128
    <3>1. n \in 0..127
      BY <2>1
    <3> QED
      BY <2>1, <3>1
  <2>2. CASE ~(n < 128)
    <3>1. n \div 128 \in Nat /\ n % 128 \in 0..127
      BY <1>1, <2>2
    <3>2. f[n \div 128] \in Seq(0..127)
      BY <3>1
    <3>3. Append(f[n \div 128], n % 128) \in Seq(0..127)
      BY <3>1, <3>2, AppendFacts
    <3> QED
      BY <2>2, <3>3
  <2> QED
    BY <2>1, <2>2
<1>3. /\ step \in [Nat \X [Nat -> V] -> V]
      /\ \A f \in [Nat -> V], n \in Nat : step[<<n, f>>] = next(f, n)
  <2> HIDE DEF next, V
  <2> QED
    BY <1>2
<1>4. ASSUME NEW n \in Nat, NEW g \in [Nat -> V], NEW h \in [Nat -> V],
             \A y \in Nat : y < n => g[y] = h[y]
      PROVE  next(g, n) = next(h, n)
  <2>1. CASE n < 128
    BY <2>1
  <2>2. CASE ~(n < 128)
    <3>1. n \div 128 \in Nat /\ n \div 128 < n
      BY <1>1, <2>2
    <3>2. g[n \div 128] = h[n \div 128]
      BY <1>4, <3>1
    <3> QED
      BY <2>2, <3>2
  <2> QED
    BY <2>1, <2>2
<1>6. <<>> \in V /\ mu \in [Nat -> Nat] /\ \A n \in Nat : mu[n] = n
  OBVIOUS
<1>5. Local(Nat, V, mu, step)
  <2> HIDE DEF next, V, step, mu
  <2>1. \A n \in Nat : \A g, h \in [Nat -> V] :
          (\A y \in Nat : y < n => g[y] = h[y]) => step[<<n, g>>] = step[<<n, h>>]
    BY <1>3, <1>4
  <2> QED
    BY <1>6, <2>1 DEF Local
<1> HIDE DEF V, step, mu
<1>7. \E f \in [Nat -> V] : Solves(f, Nat, step)
  BY <1>3, <1>5, <1>6, Recursion
<1>8. PICK f \in [Nat -> V] : \A n \in Nat : f[n] = next(f, n)
  <2> HIDE DEF next
  <2> QED
    BY <1>3, <1>7 DEF Solves
<1>9. f = [n \in Nat |-> f[n]] /\ P(f)
  BY <1>8
<1>10. Groups = CHOOSE g : P(g)
  BY Zenon DEF Groups
<1>11. P(Groups)
  <2> HIDE DEF P
  <2> QED
    BY <1>9, <1>10, Zenon
<1>12. \A n \in Nat : Groups[n] = next(Groups, n)
  BY <1>11
<1>13. \A n \in Nat : Groups[n] = f[n]
  <2> DEFINE S == {n \in Nat : Groups[n] # f[n]}
  <2>1. CASE S = {}
    BY <2>1
  <2>2. CASE S # {}
    <3>1. PICK n \in S : \A k \in S : n <= k
      BY <2>2, LeastNat
    <3>2. CASE n < 128
      BY <1>8, <1>12, <3>1, <3>2
    <3>3. CASE ~(n < 128)
      <4>1. n \in Nat /\ n \div 128 \in Nat /\ n \div 128 < n
        BY <1>1, <3>1, <3>3
      <4>2. ~(n <= n \div 128)
        BY <4>1
      <4>3. n \div 128 \notin S
        BY <3>1, <4>2
      <4>4. Groups[n \div 128] = f[n \div 128]
        BY <4>1, <4>3
      <4>5. next(Groups, n) = next(f, n)
        BY <3>3, <4>4
      <4> HIDE DEF next
      <4>6. Groups[n] = f[n]
        BY <1>8, <1>12, <4>1, <4>5
      <4> QED
        BY <3>1, <4>6
    <3> QED
      BY <3>2, <3>3
  <2> QED
    BY <2>1, <2>2
<1>14. Groups = [n \in Nat |-> Groups[n]]
  BY <1>11
<1>15. Groups \in [Nat -> V]
  BY <1>8, <1>13, <1>14
<1> QED
  BY <1>12, <1>15 DEF V

LEMMA VarIntFacts ==
  ASSUME NEW n \in Nat
  PROVE  /\ VarInt(n) \in Seq(ByteSet)
         /\ Len(VarInt(n)) = Len(Groups[n]) /\ Len(Groups[n]) \in Nat /\ Len(Groups[n]) >= 1
         /\ \A j \in 1..Len(VarInt(n)) :
              VarInt(n)[j] = Byte(IF j < Len(Groups[n]) THEN Groups[n][j] + 128 ELSE Groups[n][j])
         /\ \A j \in 1..Len(VarInt(n)) : VarInt(n)[j][1] = "byte"
<1> DEFINE g == Groups[n]
           b(j) == Byte(IF j < Len(g) THEN g[j] + 128 ELSE g[j])
<1>1. g \in Seq(0..127) /\ Len(g) \in Nat /\ Len(g) >= 1
  <2>1. g \in Seq(0..127)
    BY GroupsStep
  <2>2. CASE n < 128
    <3>1. Groups[n] = <<n>>
      BY <2>2, GroupsStep, Zenon
    <3>2. Len(<<n>>) = 1
      OBVIOUS
    <3>3. Len(g) = 1
      BY <3>1, <3>2, Zenon
    <3> HIDE DEF g
    <3> QED
      BY <2>1, <3>3
  <2>3. CASE ~(n < 128)
    <3>1. n \div 128 \in Nat /\ n % 128 \in 0..127
      BY <2>3
    <3>2. Groups[n \div 128] \in Seq(0..127) /\ g = Append(Groups[n \div 128], n % 128)
      BY <2>3, <3>1, GroupsStep
    <3>3. Len(g) = Len(Groups[n \div 128]) + 1 /\ Len(Groups[n \div 128]) \in Nat
      BY <3>1, <3>2, AppendFacts
    <3> QED
      BY <2>1, <3>3
  <2> QED
    BY <2>1, <2>2, <2>3
<1>2. VarInt(n) = [j \in 1..Len(g) |-> b(j)]
  BY DEF VarInt
<1> HIDE DEF g
<1>3. ASSUME NEW j \in 1..Len(g) PROVE b(j) \in ByteSet /\ b(j)[1] = "byte"
  <2>1. g[j] \in 0..127
    BY <1>1, SeqFunction
  <2> QED
    <3>1. \A x \in 0..127 : x \in Nat /\ x + 128 \in Nat
      OBVIOUS
    <3> QED
      BY <2>1, <3>1 DEF Byte, ByteSet
<1> HIDE DEF b
<1>4. VarInt(n) \in Seq(ByteSet) /\ Len(VarInt(n)) = Len(g)
  BY <1>1, <1>2, <1>3
<1>5. \A j \in 1..Len(VarInt(n)) : VarInt(n)[j] = b(j) /\ VarInt(n)[j][1] = "byte"
  BY <1>2, <1>3, <1>4
<1> QED
  BY <1>1, <1>4, <1>5 DEF b, g

LEMMA VarIntZero == VarInt(0) = <<Byte(0)>>
<1>1. Groups[0] = <<0>>
  BY GroupsStep
<1>2. VarInt(0) = [j \in 1..1 |-> Byte(IF j < 1 THEN <<0>>[j] + 128 ELSE <<0>>[j])]
  BY <1>1 DEF VarInt
<1>3. VarInt(0) = [j \in 1..1 |-> Byte(0)]
  BY <1>2
<1> QED
  BY <1>3

BufferType == buffer \in Seq(ByteSet)
Reads == [ok : BOOLEAN, val : Nat, at : Nat]

LEMMA LoadByteFacts ==
  ASSUME BufferType, NEW o \in Nat
  PROVE  /\ loadByte(o) \in Reads
         /\ loadByte(o).ok => o < Len(buffer)
         /\ Len(buffer) \in Nat
<1>1. Len(buffer) \in Nat
  BY DEF BufferType
<1>2. CASE o < Len(buffer) /\ buffer[o + 1][1] = "byte"
  <2>1. buffer[o + 1] \in ByteSet
    BY <1>1, <1>2 DEF BufferType
  <2>2. buffer[o + 1][2] \in Nat
    BY <1>2, <2>1 DEF ByteSet
  <2>3. loadByte(o) = [ok |-> TRUE, val |-> buffer[o + 1][2], at |-> o + 1]
    BY <1>2 DEF loadByte
  <2> QED
    BY <1>1, <1>2, <2>2, <2>3 DEF Reads
<1>3. CASE ~(o < Len(buffer) /\ buffer[o + 1][1] = "byte")
  <2>1. loadByte(o) = [ok |-> FALSE, val |-> 0, at |-> o]
    BY <1>3 DEF loadByte
  <2> QED
    BY <1>1, <2>1 DEF Reads
<1> QED
  BY <1>2, <1>3

(* One round of loadVarint's loop, with f for what the rest of it gives.   *)
Round(f, x, o) ==
  LET b == loadByte(o)
  IN IF ~b.ok THEN b
     ELSE IF b.val < 128 THEN [ok |-> TRUE, val |-> 128 * x + b.val, at |-> b.at]
     ELSE f[<<128 * x + b.val - 128, o + 1>>]

LEMMA LoadVarintStep ==
  ASSUME BufferType, NEW x \in Nat, NEW o \in Nat
  PROVE  loadVarint[<<x, o>>] = Round(loadVarint, x, o)
<1> DEFINE D == Nat \X Nat
           left(i) == IF i < Len(buffer) THEN Len(buffer) - i ELSE 0
           mu == [d \in D |-> left(d[2])]
           step == [df \in D \X [D -> Reads] |-> Round(df[2], df[1][1], df[1][2])]
           P(f) == f = [d \in D |-> Round(f, d[1], d[2])]
<1>1. ASSUME NEW f \in [D -> Reads], NEW y \in Nat, NEW i \in Nat
      PROVE  Round(f, y, i) \in Reads
  <2> DEFINE b == loadByte(i)
  <2>1. b \in Reads
    BY LoadByteFacts
  <2> HIDE DEF b
  <2>2. b.val \in Nat
    BY <2>1 DEF Reads
  <2>3. [ok |-> TRUE, val |-> 128 * y + b.val, at |-> b.at] \in Reads
    BY <2>1, <2>2 DEF Reads
  <2>4. b.val >= 128 => f[<<128 * y + b.val - 128, i + 1>>] \in Reads
    <3> HAVE b.val >= 128
    <3>1. 128 * y + b.val - 128 \in Nat /\ i + 1 \in Nat
      BY <2>2
    <3> QED
      BY <3>1
  <2>5. Round(f, y, i) = IF ~b.ok THEN b
                         ELSE IF b.val < 128 THEN [ok |-> TRUE, val |-> 128 * y + b.val, at |-> b.at]
                         ELSE f[<<128 * y + b.val - 128, i + 1>>]
    BY DEF Round, b
  <2> QED
    BY <2>1, <2>2, <2>3, <2>4, <2>5
<1>2. ASSUME NEW f \in [D -> Reads], NEW g \in [D -> Reads], NEW y \in Nat, NEW i \in Nat,
             \A d \in D : left(d[2]) < left(i) => f[d] = g[d]
      PROVE  Round(f, y, i) = Round(g, y, i)
  <2> DEFINE b == loadByte(i)
  <2>1. b \in Reads /\ (b.ok => i < Len(buffer)) /\ Len(buffer) \in Nat
    BY LoadByteFacts
  <2> HIDE DEF b
  <2>2. ASSUME b.ok, b.val >= 128
        PROVE  f[<<128 * y + b.val - 128, i + 1>>] = g[<<128 * y + b.val - 128, i + 1>>]
    <3> DEFINE d == <<128 * y + b.val - 128, i + 1>>
    <3>1. 128 * y + b.val - 128 \in Nat /\ i + 1 \in Nat
      BY <2>1, <2>2 DEF Reads
    <3>2. d \in D /\ d[2] = i + 1
      BY <3>1
    <3>3. left(i + 1) < left(i)
      BY <2>1, <2>2
    <3> HIDE DEF left
    <3>4. f[d] = g[d]
      BY <1>2, <3>2, <3>3
    <3> QED
      BY <3>4
  <2>3. \A h : Round(h, y, i) = IF ~b.ok THEN b
                         ELSE IF b.val < 128 THEN [ok |-> TRUE, val |-> 128 * y + b.val, at |-> b.at]
                         ELSE h[<<128 * y + b.val - 128, i + 1>>]
    BY DEF Round, b
  <2>4. b.val \in Nat
    BY <2>1 DEF Reads
  <2>5. CASE b.ok /\ b.val >= 128
    BY <2>2, <2>3, <2>4, <2>5
  <2>6. CASE ~(b.ok /\ b.val >= 128)
    <3> HIDE DEF b
    <3>1. CASE ~b.ok
      BY <2>3, <3>1
    <3>2. CASE b.ok /\ b.val < 128
      BY <2>3, <3>2
    <3> QED
      BY <2>4, <2>6, <3>1, <3>2
  <2> QED
    BY <2>5, <2>6
<1>3. \A d \in D : d[1] \in Nat /\ d[2] \in Nat /\ d = <<d[1], d[2]>>
  OBVIOUS
<1>4. \A i \in Nat : left(i) \in Nat
  BY DEF BufferType
<1>5. mu \in [D -> Nat] /\ \A d \in D : mu[d] = left(d[2])
  <2> HIDE DEF left
  <2> QED
    BY <1>3, <1>4
<1>6. /\ step \in [D \X [D -> Reads] -> Reads]
      /\ \A d \in D, f \in [D -> Reads] : step[<<d, f>>] = Round(f, d[1], d[2])
  BY <1>1, <1>3
<1>7. Local(D, Reads, mu, step)
  <2> HIDE DEF left, mu, step
  <2>1. \A d \in D : \A f, g \in [D -> Reads] :
          (\A e \in D : left(e[2]) < left(d[2]) => f[e] = g[e])
             => Round(f, d[1], d[2]) = Round(g, d[1], d[2])
    BY <1>2, <1>3
  <2> HIDE DEF D
  <2>2. ASSUME NEW d \in D, NEW f \in [D -> Reads], NEW g \in [D -> Reads],
               \A e \in D : mu[e] < mu[d] => f[e] = g[e]
        PROVE  step[<<d, f>>] = step[<<d, g>>]
    <3>1. \A e \in D : left(e[2]) < left(d[2]) => f[e] = g[e]
      BY <1>5, <2>2
    <3>2. Round(f, d[1], d[2]) = Round(g, d[1], d[2])
      BY <2>1, <3>1, Zenon
    <3> QED
      BY <1>6, <3>2
  <2> QED
    BY <2>2, Zenon DEF Local
<1>8. [ok |-> FALSE, val |-> 0, at |-> 0] \in Reads
  BY DEF Reads
<1>9. \E f \in [D -> Reads] : Solves(f, D, step)
  <2> HIDE DEF D, mu, step
  <2> QED
    BY <1>5, <1>6, <1>7, <1>8, Recursion
<1>10. PICK f \in [D -> Reads] : \A d \in D : f[d] = Round(f, d[1], d[2])
  <2> HIDE DEF D, step
  <2> QED
    BY <1>6, <1>9 DEF Solves
<1>11. P(f)
  <2> HIDE DEF D
  <2> QED
    BY <1>10
<1>12. loadVarint = CHOOSE h : P(h)
  BY DEF loadVarint, Round
<1>13. P(loadVarint)
  <2> HIDE DEF P
  <2> QED
    BY <1>11, <1>12, Zenon
<1>14. <<x, o>> \in D
  OBVIOUS
<1> QED
  BY <1>13, <1>14

(* s is in b from offset o on.                                             *)
Holds(b, o, s) == o + Len(s) <= Len(b) /\ \A k \in 1..Len(s) : b[o + k] = s[k]

LEMMA HoldsLast ==
  ASSUME NEW S, NEW b \in Seq(S), NEW s \in Seq(S)
  PROVE  /\ Holds(b \o s, Len(b), s)
         /\ b \o s \in Seq(S) /\ Len(b \o s) = Len(b) + Len(s) /\ Len(b) \in Nat /\ Len(s) \in Nat
  BY ConcatFacts DEF Holds

LEMMA HoldsStays ==
  ASSUME NEW S, NEW b \in Seq(S), NEW c \in Seq(S), NEW o \in Nat, NEW s \in Seq(S), Holds(b, o, s)
  PROVE  Holds(b \o c, o, s)
<1>1. /\ Len(b \o c) = Len(b) + Len(c) /\ Len(b) \in Nat /\ Len(c) \in Nat /\ Len(s) \in Nat
      /\ \A n \in 1..Len(b) : (b \o c)[n] = b[n]
  BY ConcatFacts
<1>2. o + Len(s) <= Len(b) /\ \A k \in 1..Len(s) : b[o + k] = s[k]
  BY DEF Holds
<1>3. \A k \in 1..Len(s) : o + k \in 1..Len(b)
  BY <1>1, <1>2
<1> QED
  BY <1>1, <1>2, <1>3 DEF Holds

LEMMA HoldsParts ==
  ASSUME NEW S, NEW b \in Seq(S), NEW o \in Nat, NEW s \in Seq(S), NEW t \in Seq(S), Holds(b, o, s \o t)
  PROVE  /\ Holds(b, o, s) /\ Holds(b, o + Len(s), t) /\ o + Len(s) \in Nat
         /\ Len(s \o t) = Len(s) + Len(t)
<1>1. /\ Len(s \o t) = Len(s) + Len(t) /\ Len(s) \in Nat /\ Len(t) \in Nat /\ Len(b) \in Nat
      /\ \A n \in 1..Len(s) : (s \o t)[n] = s[n]
      /\ \A n \in 1..Len(t) : (s \o t)[Len(s) + n] = t[n]
  BY ConcatFacts
<1>2. o + Len(s \o t) <= Len(b) /\ \A k \in 1..Len(s \o t) : b[o + k] = (s \o t)[k]
  BY DEF Holds
<1>3. Holds(b, o, s)
  <2>1. \A k \in 1..Len(s) : k \in 1..Len(s \o t)
    BY <1>1
  <2> QED
    BY <1>1, <1>2, <2>1 DEF Holds
<1>4. Holds(b, o + Len(s), t)
  <2>1. \A k \in 1..Len(t) : Len(s) + k \in 1..Len(s \o t) /\ (o + Len(s)) + k = o + (Len(s) + k)
    BY <1>1
  <2>2. \A k \in 1..Len(t) : b[(o + Len(s)) + k] = t[k]
    BY <1>1, <1>2, <2>1
  <2> QED
    BY <1>1, <1>2, <2>2 DEF Holds
<1> QED
  BY <1>1, <1>3, <1>4

(* What a read gives: n, and the offset after it.                          *)
Gives(r, n, at) == r.ok /\ r.val = n /\ r.at = at

LEMMA ByteRead ==
  ASSUME BufferType, NEW o \in Nat, NEW n \in Nat, o + 1 <= Len(buffer), buffer[o + 1] = Byte(n)
  PROVE  Gives(loadByte(o), n, o + 1)
<1>1. Len(buffer) \in Nat
  BY DEF BufferType
<1>2. o < Len(buffer) /\ buffer[o + 1][1] = "byte" /\ buffer[o + 1][2] = n
  BY <1>1 DEF Byte
<1> QED
  BY <1>2 DEF loadByte, Gives

LEMMA RoundRead ==
  ASSUME BufferType, NEW x \in Nat, NEW o \in Nat, NEW n \in Nat,
         o + 1 <= Len(buffer), buffer[o + 1] = Byte(n)
  PROVE  /\ n < 128 => Gives(loadVarint[<<x, o>>], 128 * x + n, o + 1)
         /\ \A y \in Nat : n = y + 128 => loadVarint[<<x, o>>] = loadVarint[<<128 * x + y, o + 1>>]
<1> DEFINE b == loadByte(o)
<1>1. b.ok /\ b.val = n /\ b.at = o + 1
  BY ByteRead DEF Gives
<1>2. loadVarint[<<x, o>>] = Round(loadVarint, x, o)
  BY LoadVarintStep
<1>3. Round(loadVarint, x, o) =
        IF ~b.ok THEN b
        ELSE IF b.val < 128 THEN [ok |-> TRUE, val |-> 128 * x + b.val, at |-> b.at]
        ELSE loadVarint[<<128 * x + b.val - 128, o + 1>>]
  BY DEF Round
<1> HIDE DEF b
<1>4. ASSUME n < 128 PROVE Gives(loadVarint[<<x, o>>], 128 * x + n, o + 1)
  <2>1. loadVarint[<<x, o>>] = [ok |-> TRUE, val |-> 128 * x + n, at |-> o + 1]
    BY <1>1, <1>2, <1>3, <1>4
  <2> QED
    BY <2>1 DEF Gives
<1>5. ASSUME NEW y \in Nat, n = y + 128
      PROVE  loadVarint[<<x, o>>] = loadVarint[<<128 * x + y, o + 1>>]
  <2>1. 128 * x + n - 128 = 128 * x + y /\ ~(n < 128)
    BY <1>5
  <2>2. loadVarint[<<x, o>>] = loadVarint[<<128 * x + n - 128, o + 1>>]
    BY <1>1, <1>2, <1>3, <2>1
  <2> QED
    BY <2>1, <2>2
<1> QED
  BY <1>4, <1>5

(* The groups of n, each with bit 8 set, are read as n.                    *)
GroupsAt(n, o) ==
  \A k \in 1..Len(Groups[n]) : o + k <= Len(buffer) /\ buffer[o + k] = Byte(Groups[n][k] + 128)

LEMMA GroupsRead ==
  ASSUME BufferType, NEW n \in Nat, NEW o \in Nat, GroupsAt(n, o)
  PROVE  loadVarint[<<0, o>>] = loadVarint[<<n, o + Len(Groups[n])>>]
<1> DEFINE Good(m) == loadVarint[<<0, o>>] = loadVarint[<<m, o + Len(Groups[m])>>]
           S == {m \in Nat : GroupsAt(m, o) /\ ~Good(m)}
<1>1. CASE S = {}
  BY <1>1
<1>2. CASE S # {}
  <2>1. PICK m \in S : \A k \in S : m <= k
    BY <1>2, LeastNat
  <2>2. m \in Nat /\ GroupsAt(m, o) /\ ~Good(m)
    BY <2>1
  <2>3. CASE m < 128
    <3>1. Groups[m] = <<m>>
      BY <2>2, <2>3, GroupsStep
    <3>2. o + 1 <= Len(buffer) /\ buffer[o + 1] = Byte(m + 128)
      BY <2>2, <3>1 DEF GroupsAt
    <3>3. m + 128 \in Nat /\ 128 * 0 + m = m /\ 0 \in Nat
      BY <2>2
    <3>4. loadVarint[<<0, o>>] = loadVarint[<<128 * 0 + m, o + 1>>]
      <4> DEFINE k == m + 128
      <4>1. k \in Nat /\ k = m + 128 /\ buffer[o + 1] = Byte(k)
        BY <3>2, <3>3
      <4> HIDE DEF k
      <4> QED
        BY <2>2, <3>2, <3>3, <4>1, RoundRead
    <3>5. Len(Groups[m]) = 1
      BY <3>1
    <3> QED
      BY <2>2, <3>5, <3>3, <3>4
  <2>4. CASE ~(m < 128)
    <3> DEFINE q == m \div 128
               r == m % 128
               g == Groups[q]
               e == Len(g)
    <3>1. q \in Nat /\ q < m /\ r \in 0..127 /\ r \in Nat /\ m = 128 * q + r
      BY <2>2, <2>4
    <3>2. Groups[m] = Append(g, r)
      BY <2>2, <2>4, GroupsStep
    <3>3. g \in Seq(0..127) /\ e \in Nat
      BY <3>1, VarIntFacts, GroupsStep
    <3> HIDE DEF q, r, g
    <3>4. Len(Groups[m]) = e + 1 /\ (\A k \in 1..e : Groups[m][k] = g[k]) /\ Groups[m][e + 1] = r
      BY <3>1, <3>2, <3>3, AppendFacts
    <3> HIDE DEF e
    <3>5. \A k \in 1..e : o + k <= Len(buffer) /\ buffer[o + k] = Byte(g[k] + 128)
      <4> TAKE k \in 1..e
      <4>1. k \in 1..Len(Groups[m]) /\ Groups[m][k] = g[k]
        BY <3>3, <3>4
      <4> QED
        BY <2>2, <4>1 DEF GroupsAt
    <3>6. o + (e + 1) <= Len(buffer) /\ buffer[o + (e + 1)] = Byte(r + 128)
      <4>1. e + 1 \in 1..Len(Groups[m])
        BY <3>3, <3>4
      <4> QED
        BY <2>2, <3>4, <4>1 DEF GroupsAt
    <3>7. GroupsAt(q, o)
      BY <3>5 DEF GroupsAt, g, e
    <3>8. loadVarint[<<0, o>>] = loadVarint[<<q, o + e>>]
      <4>1. q \notin S
        <5> HIDE DEF S, Good
        <5>1. q \in S => m <= q
          BY <2>1
        <5>2. ~(m <= q)
          BY <2>2, <3>1
        <5> QED
          BY <5>1, <5>2
      <4>2. Good(q)
        BY <3>1, <3>7, <4>1
      <4> QED
        BY <4>2 DEF g, e
    <3>9. loadVarint[<<q, o + e>>] = loadVarint[<<m, o + (e + 1)>>]
      <4>1. o + e \in Nat /\ r + 128 \in Nat /\ o + (e + 1) = (o + e) + 1
        BY <3>1, <3>3
      <4> DEFINE p == o + e
      <4> HIDE DEF p
      <4>2. p \in Nat /\ p + 1 <= Len(buffer) /\ buffer[p + 1] = Byte(r + 128)
        BY <3>6, <4>1 DEF p
      <4>3. loadVarint[<<q, p>>] = loadVarint[<<128 * q + r, p + 1>>]
        BY ONLY <3>1, <4>1, <4>2, RoundRead, BufferType
      <4> QED
        BY <3>1, <4>1, <4>3 DEF p
    <3> QED
      BY <2>2, <3>4, <3>8, <3>9
  <2> QED
    BY <2>3, <2>4
<1> QED
  BY <1>1, <1>2

(* loadInt reads what writeVarInt writes.                                  *)
LEMMA IntRead ==
  ASSUME BufferType, NEW n \in Nat, NEW o \in Nat, Holds(buffer, o, VarInt(n))
  PROVE  /\ Gives(loadInt(o), n, o + Len(VarInt(n)))
         /\ o + Len(VarInt(n)) \in Nat /\ o + Len(VarInt(n)) <= Len(buffer)
<1> DEFINE g == Groups[n]
           e == Len(g)
           b(j) == Byte(IF j < e THEN g[j] + 128 ELSE g[j])
<1>1. /\ Len(VarInt(n)) = e /\ e \in Nat /\ e >= 1
      /\ \A j \in 1..e : VarInt(n)[j] = b(j)
  BY VarIntFacts
<1>2. /\ o + e <= Len(buffer)
      /\ \A k \in 1..e : buffer[o + k] = b(k)
  BY <1>1 DEF Holds
<1>3. Len(buffer) \in Nat
  BY DEF BufferType
<1> SUFFICES Gives(loadVarint[<<0, o>>], n, o + e)
  BY <1>1, <1>2 DEF loadInt
<1>4. CASE n < 128
  <2>1. g = <<n>>
    BY <1>4, GroupsStep
  <2>2. e = 1
    BY <2>1
  <2>3. buffer[o + 1] = Byte(n) /\ o + 1 <= Len(buffer)
    BY <1>2, <2>1, <2>2
  <2>4. Gives(loadVarint[<<0, o>>], 128 * 0 + n, o + 1)
    BY ONLY <1>4, <2>3, RoundRead, BufferType, n \in Nat, o \in Nat
  <2>5. 128 * 0 + n = n
    OBVIOUS
  <2> QED
    BY <2>2, <2>4, <2>5
<1>5. CASE ~(n < 128)
  <2> DEFINE q == n \div 128
             r == n % 128
             d == Len(Groups[q])
  <2>1. q \in Nat /\ r \in Nat /\ r < 128 /\ n = 128 * q + r
    BY <1>5
  <2>2. g = Append(Groups[q], r)
    BY <1>5, GroupsStep
  <2>3. Groups[q] \in Seq(0..127) /\ d \in Nat
    <3>1. q \in Nat
      BY <2>1
    <3> HIDE DEF q
    <3>2. Groups[q] \in Seq(0..127)
      BY <3>1, GroupsStep
    <3>3. Len(Groups[q]) \in Nat
      BY <3>1, VarIntFacts, Zenon
    <3> QED
      BY <3>2, <3>3
  <2> HIDE DEF q, r, g
  <2>4. e = d + 1 /\ (\A k \in 1..d : g[k] = Groups[q][k]) /\ g[d + 1] = r
    BY <2>1, <2>2, <2>3, AppendFacts
  <2> HIDE DEF d, e
  <2>5. \A k \in 1..d : o + k <= Len(buffer) /\ buffer[o + k] = Byte(Groups[q][k] + 128)
    <3> TAKE k \in 1..d
    <3>1. k \in 1..e /\ k < e /\ g[k] = Groups[q][k] /\ o + k <= o + e
      BY <2>3, <2>4
    <3>2. buffer[o + k] = Byte(Groups[q][k] + 128)
      BY <1>2, <3>1
    <3>3. o + k <= Len(buffer)
      BY <1>2, <1>3, <2>3, <2>4
    <3> QED
      BY <3>2, <3>3
  <2>6. o + (d + 1) <= Len(buffer) /\ buffer[o + (d + 1)] = Byte(r)
    <3>1. d + 1 \in 1..e /\ ~(d + 1 < e)
      BY <2>3, <2>4
    <3> QED
      BY <1>2, <2>4, <3>1
  <2>7. loadVarint[<<0, o>>] = loadVarint[<<q, o + d>>]
    BY <2>1, <2>5, GroupsRead DEF GroupsAt, d
  <2> DEFINE p == o + d
  <2>8. p \in Nat /\ o + (d + 1) = p + 1
    BY <2>3
  <2> HIDE DEF p
  <2>9. Gives(loadVarint[<<q, p>>], 128 * q + r, p + 1)
    BY <2>1, <2>6, <2>8, RoundRead
  <2>10. p + 1 = o + e
    BY <2>4, <2>8
  <2> QED
    BY <2>1, <2>7, <2>9, <2>10 DEF p
<1> QED
  BY <1>4, <1>5

----------------------------------------------------------------------------
(* The pieces a chunk is put together from.                                *)

(* Bytes none of which is one of an instruction.                           *)
CodeFree(s) == s \in Seq(ByteSet) /\ \A k \in 1..Len(s) : s[k][1] # "code"

LEMMA PlainConcat ==
  ASSUME NEW s, NEW t, CodeFree(s), CodeFree(t)
  PROVE  CodeFree(s \o t)
<1>1. s \in Seq(ByteSet) /\ t \in Seq(ByteSet)
  BY DEF CodeFree
<1>2. /\ s \o t \in Seq(ByteSet) /\ Len(s \o t) = Len(s) + Len(t)
      /\ Len(s) \in Nat /\ Len(t) \in Nat
      /\ \A n \in 1..Len(s) : (s \o t)[n] = s[n]
      /\ \A n \in 1..Len(t) : (s \o t)[Len(s) + n] = t[n]
  BY <1>1, ConcatFacts
<1>3. ASSUME NEW k \in 1..Len(s \o t) PROVE (s \o t)[k][1] # "code"
  <2>1. CASE k <= Len(s)
    <3>1. k \in 1..Len(s)
      BY <1>2, <2>1
    <3> QED
      BY <1>2, <3>1 DEF CodeFree
  <2>2. CASE ~(k <= Len(s))
    <3> DEFINE n == k - Len(s)
    <3>1. n \in 1..Len(t) /\ k = Len(s) + n
      BY <1>2, <2>2
    <3> HIDE DEF n
    <3> QED
      BY <1>2, <3>1 DEF CodeFree
  <2> QED
    BY <2>1, <2>2
<1> QED
  BY <1>2, <1>3 DEF CodeFree

LEMMA PlainByte ==
  ASSUME NEW n \in Nat
  PROVE  CodeFree(<<Byte(n)>>) /\ Byte(n) \in ByteSet /\ Len(<<Byte(n)>>) = 1
<1>1. Byte(n) \in ByteSet /\ Byte(n)[1] = "byte"
  BY DEF Byte, ByteSet
<1> DEFINE x == Byte(n)
<1> HIDE DEF x
<1>2. <<x>> \in Seq(ByteSet) /\ Len(<<x>>) = 1 /\ \A k \in 1..1 : <<x>>[k] = x
  BY <1>1 DEF x
<1>3. x[1] # "code"
  BY <1>1 DEF x
<1> QED
  BY <1>1, <1>2, <1>3 DEF CodeFree, x

LEMMA PlainVarInt ==
  ASSUME NEW n \in Nat
  PROVE  CodeFree(VarInt(n)) /\ Len(VarInt(n)) \in Nat
<1>1. \A j \in 1..Len(VarInt(n)) : VarInt(n)[j][1] = "byte"
  BY VarIntFacts
<1>2. VarInt(n) \in Seq(ByteSet) /\ Len(VarInt(n)) \in Nat
  BY VarIntFacts
<1> QED
  BY <1>1, <1>2 DEF CodeFree

LEMMA PlainZeros ==
  ASSUME NEW n \in Nat
  PROVE  CodeFree(Zeros(n)) /\ Len(Zeros(n)) = n
<1>1. Byte(0) \in ByteSet /\ Byte(0)[1] = "byte"
  BY DEF Byte, ByteSet
<1> DEFINE x == Byte(0)
<1> HIDE DEF x
<1>2. [j \in 1..n |-> x] \in Seq(ByteSet) /\ Len([j \in 1..n |-> x]) = n
  BY <1>1 DEF x
<1>3. \A k \in 1..n : [j \in 1..n |-> x][k] = x
  OBVIOUS
<1> QED
  BY <1>1, <1>2, <1>3 DEF CodeFree, Zeros, x

LEMMA PlainPart ==
  ASSUME NEW what \in {"header", "flt", "chr"}, NEW x, NEW n \in Nat,
         \A j \in Nat : <<what, x, j>> \in ByteSet
  PROVE  CodeFree(Part(what, x, n)) /\ Len(Part(what, x, n)) = n
<1> DEFINE y(j) == <<what, x, j>>
<1>1. \A j \in 1..n : y(j) \in ByteSet /\ y(j)[1] # "code"
  OBVIOUS
<1> HIDE DEF y
<1>2. [j \in 1..n |-> y(j)] \in Seq(ByteSet) /\ Len([j \in 1..n |-> y(j)]) = n
  BY <1>1
<1>3. \A k \in 1..n : [j \in 1..n |-> y(j)][k] = y(k)
  OBVIOUS
<1>4. CodeFree([j \in 1..n |-> y(j)])
  BY <1>1, <1>2, <1>3 DEF CodeFree
<1> QED
  BY <1>2, <1>4 DEF Part, y

LEMMA CodeFacts ==
  ASSUME NEW code \in Seq(Instruction)
  PROVE  /\ CodeBytes(code) \in Seq(ByteSet) /\ Len(CodeBytes(code)) = 4 * Len(code)
         /\ Len(code) \in Nat
         /\ \A j \in 1..4 * Len(code) :
              CodeBytes(code)[j] = <<"code", code[(j + 3) \div 4], 1 + ((j + 3) % 4)>>
<1> DEFINE n == Len(code)
           y(j) == <<"code", code[(j + 3) \div 4], 1 + ((j + 3) % 4)>>
<1>1. n \in Nat /\ 4 * n \in Nat
  OBVIOUS
<1>2. ASSUME NEW j \in 1..4 * n PROVE y(j) \in ByteSet
  <2>1. (j + 3) \div 4 \in 1..n /\ (j + 3) % 4 \in Nat
    BY <1>1
  <2>2. code[(j + 3) \div 4] \in Instruction
    BY <2>1, SeqFunction
  <2> QED
    BY <2>1, <2>2 DEF ByteSet
<1>3. CodeBytes(code) = [j \in 1..4 * n |-> y(j)]
  BY DEF CodeBytes
<1> HIDE DEF y, n
<1>4. [j \in 1..4 * n |-> y(j)] \in Seq(ByteSet) /\ Len([j \in 1..4 * n |-> y(j)]) = 4 * n
  BY <1>1, <1>2
<1>5. \A k \in 1..4 * n : [j \in 1..4 * n |-> y(j)][k] = y(k)
  OBVIOUS
<1> QED
  BY <1>1, <1>3, <1>4, <1>5 DEF y, n

----------------------------------------------------------------------------
(* What the generator hands over.                                          *)

OutcomeRight ==
  outcome # "generating" =>
    (outcome = "chunk" <=> \A i \in 1..Len(protos) : Writes(protos[i]))
Made == Types /\ Forest /\ OutcomeRight /\ outcome # "generating"

LEMMA MadeFacts ==
  ASSUME Made, NEW p \in 1..Len(protos)
  PROVE  /\ Len(protos) \in Nat \ {0}
         /\ protos[p].code \in Seq(Instruction) /\ Len(protos[p].code) \in Nat
         /\ protos[p].constants \in Seq(Constant) /\ Len(protos[p].constants) \in Nat
         /\ protos[p].functions \in Seq(FunctionProto) /\ Len(protos[p].functions) \in Nat
         /\ protos[p].maxStack + STACK_EXTRA \in Nat
         /\ \A j \in 1..Len(protos[p].functions) :
              /\ protos[p].functions[j].proto \in 1..p-1
              /\ protos[p].functions[j].numParams \in Nat
<1>1. protos \in Seq(Proto)
  BY DEF Made, Types, ProtosType
<1>2. protos[p] \in Proto /\ Len(protos) \in Nat /\ Len(protos) # 0
  BY <1>1
<1>3. /\ protos[p].code \in Seq(Instruction) /\ protos[p].constants \in Seq(Constant)
      /\ protos[p].functions \in Seq(FunctionProto) /\ protos[p].maxStack \in Nat
  BY <1>2 DEF Proto
<1>4. ASSUME NEW j \in 1..Len(protos[p].functions)
      PROVE  /\ protos[p].functions[j].proto \in 1..p-1
             /\ protos[p].functions[j].numParams \in Nat
  <2>1. protos[p].functions[j] \in FunctionProto
    BY <1>3, SeqFunction
  <2>2. Finishes(p) \subseteq 1..p-1
    BY DEF Made, Forest, FinishedLists
  <2>3. protos[p].functions[j].proto \in Finishes(p)
    BY DEF Finishes, Children
  <2> QED
    BY <2>1, <2>2, <2>3 DEF FunctionProto
<1>5. /\ Len(protos[p].code) \in Nat /\ Len(protos[p].constants) \in Nat
      /\ Len(protos[p].functions) \in Nat
  BY <1>3
<1>6. protos[p].maxStack + STACK_EXTRA \in Nat
  BY <1>3 DEF STACK_EXTRA
<1> QED
  BY <1>2, <1>3, <1>4, <1>5, <1>6

(* The tasks of the writer.                                                *)
MainTask == FunctionTask(Len(protos), 0, 1)
EndTask(p) == [t |-> "end", p |-> p]
Rests(s, k, c) == Len(s) = Len(k) - c /\ \A i \in 1..Len(k)-c : s[i] = k[c + i]

TreeTasks ==
  {x \in [t : {"function"}, p : 1..Len(protos), numParams : Nat, vararg : {0, 1}] :
     \/ x = MainTask
     \/ /\ x.p < Len(protos) /\ x.vararg = 0
        /\ \E q \in 1..Len(protos) : \E j \in 1..Len(protos[q].functions) : x = ChildTask(q, j)}
ConstantTasks ==
  {x \in [t : {"constants"}, p : 1..Len(protos), left : Seq(Constant)] :
     \E c \in 0..Len(protos[x.p].constants) : Rests(x.left, protos[x.p].constants, c)}
EndTasks == [t : {"end"}, p : 1..Len(protos)]
Tasks == TreeTasks \cup ConstantTasks \cup EndTasks

LEMMA TreeTaskFacts ==
  ASSUME Made
  PROVE  /\ MainTask \in TreeTasks
         /\ \A q \in 1..Len(protos) : \A j \in 1..Len(protos[q].functions) :
              /\ ChildTask(q, j) \in TreeTasks
              /\ ChildTask(q, j).p = protos[q].functions[j].proto
              /\ ChildTask(q, j).numParams = protos[q].functions[j].numParams
         /\ \A x \in TreeTasks :
              /\ x.t = "function" /\ x.p \in 1..Len(protos) /\ x.numParams \in Nat
              /\ x.vararg = IF x.p = Len(protos) THEN 1 ELSE 0
<1>0. Len(protos) \in Nat \ {0}
  <2>1. protos \in Seq(Proto) /\ Len(protos) > 0
    BY DEF Made, Types, ProtosType, Forest, MainIsRoot
  <2> QED
    BY <2>1
<1>1. /\ MainTask.p = Len(protos) /\ MainTask.vararg = 1 /\ MainTask.numParams = 0
      /\ MainTask \in TreeTasks
  BY <1>0 DEF MainTask, FunctionTask, TreeTasks
<1>2. ASSUME NEW q \in 1..Len(protos), NEW j \in 1..Len(protos[q].functions)
      PROVE  /\ ChildTask(q, j) \in TreeTasks
             /\ ChildTask(q, j).p = protos[q].functions[j].proto
             /\ ChildTask(q, j).numParams = protos[q].functions[j].numParams
  <2> DEFINE c == protos[q].functions[j]
             x == ChildTask(q, j)
  <2>1. c.proto \in 1..q-1 /\ c.numParams \in Nat
    BY MadeFacts
  <2>2. c.proto \in 1..Len(protos) /\ c.proto < Len(protos)
    BY <1>0, <2>1
  <2>3. x = [t |-> "function", p |-> c.proto, numParams |-> c.numParams, vararg |-> 0]
    BY DEF ChildTask, FunctionTask
  <2> HIDE DEF c
  <2>4. /\ x \in [t : {"function"}, p : 1..Len(protos), numParams : Nat, vararg : {0, 1}]
        /\ x.p = c.proto /\ x.numParams = c.numParams /\ x.vararg = 0
    BY <2>1, <2>2, <2>3
  <2> QED
    BY <2>2, <2>4 DEF TreeTasks, c
<1>3. ASSUME NEW x \in TreeTasks
      PROVE  /\ x.t = "function" /\ x.p \in 1..Len(protos) /\ x.numParams \in Nat
             /\ x.vararg = IF x.p = Len(protos) THEN 1 ELSE 0
  <2>1. /\ x.t = "function" /\ x.p \in 1..Len(protos) /\ x.numParams \in Nat
        /\ x = MainTask \/ (x.p < Len(protos) /\ x.vararg = 0)
    BY DEF TreeTasks
  <2> QED
    BY <1>0, <1>1, <2>1
<1> QED
  BY <1>1, <1>2, <1>3

LEMMA ConstantTaskFacts ==
  ASSUME Made
  PROVE  /\ \A x \in ConstantTasks :
              /\ x.t = "constants" /\ x.p \in 1..Len(protos) /\ x.left \in Seq(Constant)
              /\ \E c \in 0..Len(protos[x.p].constants) : Rests(x.left, protos[x.p].constants, c)
         /\ \A x \in EndTasks : x.t = "end" /\ x.p \in 1..Len(protos)
         /\ \A p \in 1..Len(protos) : EndTask(p) \in EndTasks
  BY DEF ConstantTasks, EndTasks, EndTask

----------------------------------------------------------------------------
(* What lundump.c reads of the pieces.                                     *)

(* A block of things read as they are.                                     *)
LEMMA BlockRead ==
  ASSUME BufferType, NEW o \in Nat, NEW n \in Nat, NEW s,
         s = [j \in 1..n |-> s[j]], Holds(buffer, o, s), Len(s) = n
  PROVE  SubSeq(buffer, o + 1, o + n) = s /\ o + n <= Len(buffer)
<1>1. Len(buffer) \in Nat /\ o + n <= Len(buffer) /\ \A k \in 1..n : buffer[o + k] = s[k]
  BY DEF BufferType, Holds
<1>2. SubSeq(buffer, o + 1, o + n) = [i \in 1..n |-> buffer[o + i]]
  <2>1. buffer \in Seq(ByteSet)
    BY DEF BufferType
  <2>2. /\ SubSeq(buffer, o + 1, o + n) \in Seq(ByteSet)
        /\ Len(SubSeq(buffer, o + 1, o + n)) = n
        /\ \A i \in 1..n : SubSeq(buffer, o + 1, o + n)[i] = buffer[o + i]
    <3> DEFINE m == o + 1
               l == o + n
    <3>1. m \in Int /\ l \in Int /\ \A i \in m..l : buffer[i] \in ByteSet
      BY <1>1, <2>1
    <3> HIDE DEF m, l
    <3>2. /\ SubSeq(buffer, m, l) \in Seq(ByteSet)
          /\ Len(SubSeq(buffer, m, l)) = IF m <= l THEN l - m + 1 ELSE 0
          /\ \A i \in 1..l - m + 1 : SubSeq(buffer, m, l)[i] = buffer[m + i - 1]
      BY <3>1, SubSeqProperties
    <3>3. l - m + 1 = n /\ \A i \in 1..n : m + i - 1 = o + i
      BY DEF m, l
    <3>4. Len(SubSeq(buffer, m, l)) = n
      BY <3>1, <3>2, <3>3
    <3>5. ASSUME NEW i \in 1..n PROVE SubSeq(buffer, m, l)[i] = buffer[o + i]
      <4>1. SubSeq(buffer, m, l)[i] = buffer[m + i - 1]
        BY <3>2, <3>3
      <4> QED
        BY <3>3, <4>1
    <3> QED
      BY <3>2, <3>4, <3>5 DEF m, l
  <2> DEFINE sub == SubSeq(buffer, o + 1, o + n)
  <2> HIDE DEF sub
  <2>3. sub \in Seq(ByteSet) /\ Len(sub) = n /\ \A i \in 1..n : sub[i] = buffer[o + i]
    BY <2>2 DEF sub
  <2>4. sub = [i \in 1..n |-> sub[i]]
    BY <2>3
  <2>5. sub = [i \in 1..n |-> buffer[o + i]]
    BY <2>3, <2>4
  <2> QED
    BY <2>5 DEF sub
<1>3. [i \in 1..n |-> buffer[o + i]] = [i \in 1..n |-> s[i]]
  BY <1>1
<1> QED
  BY <1>1, <1>2, <1>3

LEMMA PartRead ==
  ASSUME BufferType, NEW o \in Nat, NEW n \in Nat \ {0}, NEW what, NEW x,
         o + n <= Len(buffer), \A k \in 1..n : buffer[o + k] = <<what, x, k>>
  PROVE  IsPart(what, o, n) /\ buffer[o + 1][2] = x
<1> DEFINE s == Part(what, x, n)
<1>1. s = [j \in 1..n |-> <<what, x, j>>]
  BY DEF Part
<1>2. s = [j \in 1..n |-> s[j]] /\ Len(s) = n /\ \A j \in 1..n : s[j] = <<what, x, j>>
  BY <1>1
<1> HIDE DEF s
<1>3. Holds(buffer, o, s)
  BY <1>2 DEF Holds
<1>4. SubSeq(buffer, o + 1, o + n) = s
  BY <1>2, <1>3, BlockRead
<1>5. buffer[o + 1] = <<what, x, 1>>
  OBVIOUS
<1>6. buffer[o + 1][1] = what /\ buffer[o + 1][2] = x
  BY <1>5
<1> QED
  BY <1>4, <1>6 DEF IsPart, s

LEMMA ZerosRead ==
  ASSUME BufferType, NEW o \in Nat, NEW n \in Nat, Holds(buffer, o, Zeros(n))
  PROVE  IsZero(o, n)
<1> DEFINE s == Zeros(n)
<1>1. s = [j \in 1..n |-> Byte(0)]
  BY DEF Zeros
<1>2. s = [j \in 1..n |-> s[j]] /\ Len(s) = n
  BY <1>1
<1> HIDE DEF s
<1>3. SubSeq(buffer, o + 1, o + n) = s /\ o + n <= Len(buffer)
  BY <1>2, BlockRead DEF s
<1> QED
  BY <1>3 DEF IsZero, s

LEMMA OneByte ==
  ASSUME BufferType, NEW o \in Nat, NEW n \in Nat, Holds(buffer, o, <<Byte(n)>>)
  PROVE  Gives(loadByte(o), n, o + 1) /\ o + 1 <= Len(buffer)
<1>1. Len(<<Byte(n)>>) = 1 /\ <<Byte(n)>>[1] = Byte(n)
  OBVIOUS
<1>2. o + 1 <= Len(buffer) /\ buffer[o + 1] = Byte(n)
  BY <1>1 DEF Holds
<1> QED
  BY <1>2, ByteRead

LEMMA ThreeBytes ==
  ASSUME BufferType, NEW o \in Nat, NEW x \in Nat, NEW y \in Nat, NEW z \in Nat,
         Holds(buffer, o, <<Byte(x), Byte(y), Byte(z)>>)
  PROVE  /\ Gives(loadByte(o), x, o + 1) /\ Gives(loadByte(o + 1), y, o + 2)
         /\ Gives(loadByte(o + 2), z, o + 3)
<1> DEFINE s == <<Byte(x), Byte(y), Byte(z)>>
<1>1. Len(s) = 3 /\ s[1] = Byte(x) /\ s[2] = Byte(y) /\ s[3] = Byte(z)
  OBVIOUS
<1> HIDE DEF s
<1>2. o + 3 <= Len(buffer) /\ \A k \in 1..3 : buffer[o + k] = s[k]
  BY <1>1 DEF Holds, s
<1>3. buffer[o + 1] = Byte(x) /\ buffer[o + 2] = Byte(y) /\ buffer[o + 3] = Byte(z)
  BY <1>1, <1>2
<1>4. Len(buffer) \in Nat
  BY DEF BufferType
<1>5. Gives(loadByte(o), x, o + 1)
  BY <1>2, <1>3, <1>4, ByteRead
<1>6. Gives(loadByte(o + 1), y, o + 2)
  <2>1. (o + 1) + 1 = o + 2 /\ o + 1 \in Nat /\ (o + 1) + 1 <= Len(buffer)
    BY <1>2, <1>4
  <2> QED
    BY <1>3, <2>1, ByteRead
<1>7. Gives(loadByte(o + 2), z, o + 3)
  <2>1. (o + 2) + 1 = o + 3 /\ o + 2 \in Nat /\ (o + 2) + 1 <= Len(buffer)
    BY <1>2, <1>4
  <2> QED
    BY <1>3, <2>1, ByteRead
<1> QED
  BY <1>5, <1>6, <1>7

LEMMA ThreeBytesPlain ==
  ASSUME NEW x \in Nat, NEW y \in Nat, NEW z \in Nat
  PROVE  CodeFree(<<Byte(x), Byte(y), Byte(z)>>) /\ Len(<<Byte(x), Byte(y), Byte(z)>>) = 3
<1>1. /\ Byte(x) \in ByteSet /\ Byte(y) \in ByteSet /\ Byte(z) \in ByteSet
      /\ Byte(x)[1] # "code" /\ Byte(y)[1] # "code" /\ Byte(z)[1] # "code"
  BY DEF Byte, ByteSet
<1> DEFINE a == Byte(x)
           b == Byte(y)
           c == Byte(z)
<1> HIDE DEF a, b, c
<1>2. /\ a \in ByteSet /\ b \in ByteSet /\ c \in ByteSet
      /\ a[1] # "code" /\ b[1] # "code" /\ c[1] # "code"
  BY <1>1 DEF a, b, c
<1>3. <<a, b, c>> \in Seq(ByteSet) /\ Len(<<a, b, c>>) = 3
  BY <1>2
<1>4. \A k \in 1..3 : <<a, b, c>>[k] = a \/ <<a, b, c>>[k] = b \/ <<a, b, c>>[k] = c
  OBVIOUS
<1>5. CodeFree(<<a, b, c>>)
  BY <1>2, <1>3, <1>4 DEF CodeFree
<1> QED
  BY <1>3, <1>5 DEF a, b, c

Bytes(s) == s \in Seq(ByteSet)

LEMMA BytesParts ==
  ASSUME BufferType, NEW o \in Nat, NEW s, NEW t, Bytes(s), Bytes(t), Holds(buffer, o, s \o t)
  PROVE  /\ Holds(buffer, o, s) /\ Holds(buffer, o + Len(s), t)
         /\ o + Len(s) \in Nat /\ Len(s) \in Nat /\ Len(t) \in Nat
         /\ Len(s \o t) = Len(s) + Len(t) /\ Bytes(s \o t)
<1>1. s \in Seq(ByteSet) /\ t \in Seq(ByteSet) /\ buffer \in Seq(ByteSet)
  BY DEF BufferType, Bytes
<1>2. /\ Holds(buffer, o, s) /\ Holds(buffer, o + Len(s), t) /\ o + Len(s) \in Nat
      /\ Len(s \o t) = Len(s) + Len(t)
  BY <1>1, HoldsParts
<1>3. s \o t \in Seq(ByteSet) /\ Len(s) \in Nat /\ Len(t) \in Nat
  BY <1>1
<1> QED
  BY <1>2, <1>3 DEF Bytes

LEMMA BytesConcat ==
  ASSUME NEW s, NEW t, Bytes(s), Bytes(t)
  PROVE  Bytes(s \o t) /\ Len(s \o t) = Len(s) + Len(t) /\ Len(s) \in Nat /\ Len(t) \in Nat
  BY ConcatFacts DEF Bytes

(* The head of a function: two empty numbers, three bytes, and the length  *)
(* of its code.                                                            *)
LEMMA ZeroRead ==
  ASSUME BufferType, NEW o \in Nat, Holds(buffer, o, VarInt(0))
  PROVE  Gives(loadInt(o), 0, o + 1) /\ o + 1 <= Len(buffer)
<1>1. Len(VarInt(0)) = 1
  BY VarIntZero
<1>2. Gives(loadInt(o), 0, o + Len(VarInt(0))) /\ o + Len(VarInt(0)) <= Len(buffer)
  BY IntRead
<1> QED
  BY <1>1, <1>2

LEMMA HeadPlain ==
  ASSUME Made, NEW t \in TreeTasks
  PROVE  CodeFree(FunctionHead(t)) /\ Len(FunctionHead(t)) \in Nat
<1> DEFINE f == protos[t.p]
           b == <<Byte(t.numParams), Byte(t.vararg), Byte(f.maxStack + STACK_EXTRA)>>
           v == VarInt(0)
           w == VarInt(Len(f.code))
<1>1. /\ t.p \in 1..Len(protos) /\ t.numParams \in Nat /\ t.vararg \in Nat
      /\ f.maxStack + STACK_EXTRA \in Nat /\ Len(f.code) \in Nat
  BY TreeTaskFacts, MadeFacts
<1>2. CodeFree(b) /\ CodeFree(v) /\ CodeFree(w)
  BY <1>1, ThreeBytesPlain, PlainVarInt
<1>3. FunctionHead(t) = ((v \o v) \o b) \o w
  BY DEF FunctionHead
<1> HIDE DEF b, v, w
<1>4. CodeFree(((v \o v) \o b) \o w)
  BY <1>2, PlainConcat
<1>5. \A s : CodeFree(s) => Len(s) \in Nat
  BY DEF CodeFree
<1> QED
  BY <1>3, <1>4, <1>5

LEMMA HeadRead ==
  ASSUME BufferType, Made, NEW t \in TreeTasks, NEW o \in Nat, Holds(buffer, o, FunctionHead(t))
  PROVE  /\ Gives(loadInt(o), 0, o + 1) /\ Gives(loadInt(o + 1), 0, o + 2)
         /\ Gives(loadByte(o + 2), t.numParams, o + 3)
         /\ Gives(loadByte(o + 3), t.vararg, o + 4)
         /\ Gives(loadByte(o + 4), protos[t.p].maxStack + STACK_EXTRA, o + 5)
         /\ Gives(loadInt(o + 5), Len(protos[t.p].code), o + Len(FunctionHead(t)))
<1> DEFINE f == protos[t.p]
           b == <<Byte(t.numParams), Byte(t.vararg), Byte(f.maxStack + STACK_EXTRA)>>
           v == VarInt(0)
           w == VarInt(Len(f.code))
<1>1. /\ t.p \in 1..Len(protos) /\ t.numParams \in Nat /\ t.vararg \in Nat
      /\ f.maxStack + STACK_EXTRA \in Nat /\ Len(f.code) \in Nat
  BY TreeTaskFacts, MadeFacts
<1>2. Bytes(b) /\ Bytes(v) /\ Bytes(w) /\ Len(b) = 3 /\ Len(v) = 1
  BY <1>1, ThreeBytesPlain, PlainVarInt, VarIntZero DEF CodeFree, Bytes
<1> DEFINE v2 == v \o v
           v3 == v2 \o b
<1>3. FunctionHead(t) = v3 \o w
  BY DEF FunctionHead
<1> HIDE DEF b, v, w
<1>4. Bytes(v2) /\ Len(v2) = 2
  <2>1. Bytes(v2) /\ Len(v2) = Len(v) + Len(v)
    BY <1>2, BytesConcat, Zenon
  <2> QED
    BY <1>2, <2>1
<1> HIDE DEF v2
<1>5. Bytes(v3) /\ Len(v3) = 5
  <2>1. Bytes(v3) /\ Len(v3) = Len(v2) + Len(b)
    BY <1>2, <1>4, BytesConcat, Zenon
  <2> QED
    BY <1>2, <1>4, <2>1
<1> HIDE DEF v3
<1>6. /\ Holds(buffer, o, v3) /\ Holds(buffer, o + Len(v3), w)
      /\ Len(FunctionHead(t)) = Len(v3) + Len(w) /\ Len(w) \in Nat
  <2>1. Holds(buffer, o, v3 \o w)
    BY <1>3
  <2>2. Holds(buffer, o, v3) /\ Holds(buffer, o + Len(v3), w)
    BY <1>2, <1>5, <2>1, BytesParts, Zenon
  <2>3. Len(v3 \o w) = Len(v3) + Len(w) /\ Len(w) \in Nat
    BY <1>2, <1>5, BytesConcat, Zenon
  <2> QED
    BY <1>3, <2>2, <2>3
<1>7. Holds(buffer, o, v2) /\ Holds(buffer, o + Len(v2), b)
  BY <1>2, <1>4, <1>6, BytesParts DEF v3
<1>8. Holds(buffer, o, v) /\ Holds(buffer, o + Len(v), v)
  BY <1>2, <1>7, BytesParts DEF v2
<1>9. Len(w) \in Nat /\ Len(FunctionHead(t)) = 5 + Len(w)
  BY <1>5, <1>6
<1>10. /\ Holds(buffer, o, v) /\ Holds(buffer, o + 1, v) /\ Holds(buffer, o + 2, b)
       /\ Holds(buffer, o + 5, w) /\ Len(FunctionHead(t)) = 5 + Len(w)
  BY <1>2, <1>4, <1>5, <1>6, <1>7, <1>8, <1>9
<1>11. Gives(loadInt(o), 0, o + 1)
  BY <1>10, ZeroRead DEF v
<1>12. Gives(loadInt(o + 1), 0, o + 2)
  <2>1. o + 1 \in Nat /\ (o + 1) + 1 = o + 2
    OBVIOUS
  <2> QED
    BY <1>10, <2>1, ZeroRead DEF v
<1>13. /\ Gives(loadByte(o + 2), t.numParams, o + 3) /\ Gives(loadByte(o + 3), t.vararg, o + 4)
       /\ Gives(loadByte(o + 4), f.maxStack + STACK_EXTRA, o + 5)
  <2> DEFINE q == o + 2
  <2>1. /\ q \in Nat /\ q + 1 = o + 3 /\ q + 2 = o + 4 /\ q + 3 = o + 5
        /\ Holds(buffer, q, b)
    BY <1>10
  <2> HIDE DEF q
  <2>2. /\ Gives(loadByte(q), t.numParams, q + 1) /\ Gives(loadByte(q + 1), t.vararg, q + 2)
        /\ Gives(loadByte(q + 2), f.maxStack + STACK_EXTRA, q + 3)
    BY <1>1, <2>1, ThreeBytes DEF b
  <2> QED
    BY <2>1, <2>2 DEF q
<1>14. Gives(loadInt(o + 5), Len(f.code), o + Len(FunctionHead(t)))
  <2> DEFINE q == o + 5
  <2>1. q \in Nat /\ Holds(buffer, q, w) /\ o + Len(FunctionHead(t)) = q + Len(w)
    BY <1>9, <1>10
  <2> HIDE DEF q
  <2>2. Gives(loadInt(q), Len(f.code), q + Len(w))
    BY <1>1, <2>1, IntRead DEF w
  <2> QED
    BY <2>1, <2>2 DEF q
<1> QED
  BY <1>11, <1>12, <1>13, <1>14

(* Where the code of a function starts, when its head is at o.             *)
CodeStart(t, o) ==
  LET h == o + Len(FunctionHead(t)) IN h + Padding(h, 4)

(* The pieces of a function up to its constants, and where they are.       *)
LEMMA FunctionParts ==
  ASSUME Made, NEW t \in TreeTasks, NEW o \in Nat
  PROVE  LET head == FunctionHead(t)
             zeros == Zeros(Padding(o + Len(head), 4))
             code == CodeBytes(protos[t.p].code)
             count == VarInt(Len(protos[t.p].constants))
         IN /\ FunctionBytes(t, o) = ((head \o zeros) \o code) \o count
            /\ Bytes(head) /\ Bytes(zeros) /\ Bytes(code) /\ Bytes(count)
            /\ Bytes(head \o zeros) /\ Bytes((head \o zeros) \o code) /\ Bytes(FunctionBytes(t, o))
            /\ CodeStart(t, o) \in Nat /\ CodeStart(t, o) % 4 = 0
            /\ o + Len(head \o zeros) = CodeStart(t, o)
            /\ Len((head \o zeros) \o code) = Len(head \o zeros) + Len(code)
            /\ Len(FunctionBytes(t, o)) = Len((head \o zeros) \o code) + Len(count)
            /\ Len(head) \in Nat /\ Len(zeros) \in Nat /\ Len(code) = 4 * Len(protos[t.p].code)
            /\ Len(count) \in Nat /\ Len(FunctionBytes(t, o)) \in Nat
            /\ o + Len(FunctionBytes(t, o))
                 = (CodeStart(t, o) + 4 * Len(protos[t.p].code)) + Len(count)
<1> DEFINE head == FunctionHead(t)
           h == o + Len(head)
           zeros == Zeros(Padding(h, 4))
           code == CodeBytes(protos[t.p].code)
           count == VarInt(Len(protos[t.p].constants))
           s == head \o zeros
           u == s \o code
           all == u \o count
<1>1. t.p \in 1..Len(protos)
  BY TreeTaskFacts
<1>2. /\ protos[t.p].code \in Seq(Instruction) /\ Len(protos[t.p].code) \in Nat
      /\ Len(protos[t.p].constants) \in Nat
  BY <1>1, MadeFacts
<1>3. Bytes(head) /\ Len(head) \in Nat
  BY HeadPlain DEF CodeFree, Bytes
<1>4. /\ Padding(h, 4) \in Nat /\ (h + Padding(h, 4)) % 4 = 0 /\ h \in Nat
  <2>1. h \in Nat
    BY <1>3
  <2> HIDE DEF h
  <2> QED
    BY <2>1, PaddingAligns
<1>5. Bytes(zeros) /\ Len(zeros) = Padding(h, 4)
  BY <1>4, PlainZeros DEF CodeFree, Bytes
<1>6. Bytes(code) /\ Len(code) = 4 * Len(protos[t.p].code)
  BY <1>2, CodeFacts DEF Bytes
<1>7. Bytes(count) /\ Len(count) \in Nat
  BY <1>2, PlainVarInt DEF CodeFree, Bytes
<1>8. FunctionBytes(t, o) = all
  BY DEF FunctionBytes
<1>9. CodeStart(t, o) = h + Padding(h, 4)
  BY DEF CodeStart
<1> HIDE DEF head, zeros, code, count
<1>10. Bytes(s) /\ Len(s) = Len(head) + Len(zeros)
  BY <1>3, <1>5, BytesConcat, Zenon
<1> HIDE DEF s
<1>11. Bytes(u) /\ Len(u) = Len(s) + Len(code)
  BY <1>6, <1>10, BytesConcat, Zenon
<1> HIDE DEF u
<1>12. Bytes(all) /\ Len(all) = Len(u) + Len(count)
  BY <1>7, <1>11, BytesConcat, Zenon
<1> HIDE DEF all
<1>13. CodeStart(t, o) \in Nat /\ CodeStart(t, o) % 4 = 0
  BY <1>4, <1>9
<1>14. o + Len(s) = CodeStart(t, o)
  BY <1>3, <1>4, <1>5, <1>9, <1>10
<1>15. Len(s) \in Nat /\ Len(u) \in Nat /\ Len(all) \in Nat /\ Len(zeros) \in Nat
  BY <1>2, <1>3, <1>4, <1>5, <1>6, <1>7, <1>10, <1>11, <1>12
<1>16. o + Len(all) = (CodeStart(t, o) + 4 * Len(protos[t.p].code)) + Len(count)
  <2> DEFINE c == Len(protos[t.p].code)
             a == Len(all)
             b == Len(s)
             d == Len(count)
             e == Len(u)
             g == CodeStart(t, o)
  <2>1. a = e + d /\ e = b + 4 * c /\ o + b = g
    BY <1>6, <1>11, <1>12, <1>14
  <2>2. a \in Nat /\ b \in Nat /\ c \in Nat /\ d \in Nat /\ e \in Nat /\ g \in Nat
    BY <1>2, <1>7, <1>13, <1>15
  <2> HIDE DEF a, b, c, d, e, g
  <2>3. o + a = (g + 4 * c) + d
    BY <2>1, <2>2
  <2> QED
    BY <2>3 DEF a, c, d, g
<1> QED
  BY <1>3, <1>5, <1>6, <1>7, <1>8, <1>10, <1>11, <1>12, <1>13, <1>14, <1>15, <1>16
     DEF head, zeros, code, count, s, u, all

LEMMA CodeRead ==
  ASSUME BufferType, NEW code \in Seq(Instruction), NEW o \in Nat, Holds(buffer, o, CodeBytes(code))
  PROVE  \A j \in 0..Len(code)-1 :
           IsPart("code", o + 4 * j, 4) /\ buffer[(o + 4 * j) + 1][2] = code[j + 1]
<1> DEFINE s == CodeBytes(code)
           n == Len(code)
<1>1. /\ Len(s) = 4 * n /\ n \in Nat
      /\ \A j \in 1..4 * n : s[j] = <<"code", code[(j + 3) \div 4], 1 + ((j + 3) % 4)>>
  BY CodeFacts
<1>2. o + 4 * n <= Len(buffer) /\ \A k \in 1..4 * n : buffer[o + k] = s[k]
  BY <1>1 DEF Holds
<1> HIDE DEF s, n
<1>3. ASSUME NEW j \in 0..n-1
      PROVE  IsPart("code", o + 4 * j, 4) /\ buffer[(o + 4 * j) + 1][2] = code[j + 1]
  <2> DEFINE q == o + 4 * j
  <2>1. q \in Nat /\ q + 4 <= Len(buffer)
    <3>1. Len(buffer) \in Nat
      BY DEF BufferType
    <3> QED
      BY <1>1, <1>2, <3>1
  <2>2. ASSUME NEW k \in 1..4 PROVE buffer[q + k] = <<"code", code[j + 1], k>>
    <3> DEFINE i == 4 * j + k
    <3>1. i \in 1..4 * n /\ q + k = o + i
      BY <1>1
    <3>2. (i + 3) \div 4 = j + 1 /\ 1 + ((i + 3) % 4) = k
      <4>1. k = 1 \/ k = 2 \/ k = 3 \/ k = 4
        OBVIOUS
      <4> QED
        BY <4>1
    <3> HIDE DEF i, q
    <3> QED
      BY <1>1, <1>2, <3>1, <3>2
  <2> HIDE DEF q
  <2> DEFINE x == code[j + 1]
             m == 4
  <2>3. m \in Nat \ {0} /\ q + m <= Len(buffer) /\ \A k \in 1..m : buffer[q + k] = <<"code", x, k>>
    BY <2>1, <2>2
  <2> HIDE DEF x, m
  <2>4. IsPart("code", q, m) /\ buffer[q + 1][2] = x
    BY <2>1, <2>3, PartRead, Zenon
  <2> QED
    BY <2>4 DEF q, x, m
<1> QED
  BY <1>3 DEF n

LEMMA FunctionRead ==
  ASSUME BufferType, Made, NEW t \in TreeTasks, NEW o \in Nat, Holds(buffer, o, FunctionBytes(t, o))
  PROVE  /\ Holds(buffer, o, FunctionHead(t))
         /\ CodeStart(t, o) \in Nat /\ CodeStart(t, o) <= Len(buffer)
         /\ \A j \in 0..Len(protos[t.p].code)-1 :
              /\ IsPart("code", CodeStart(t, o) + 4 * j, 4)
              /\ buffer[(CodeStart(t, o) + 4 * j) + 1][2] = protos[t.p].code[j + 1]
         /\ Gives(loadInt(CodeStart(t, o) + 4 * Len(protos[t.p].code)),
                  Len(protos[t.p].constants), o + Len(FunctionBytes(t, o)))
<1> DEFINE head == FunctionHead(t)
           zeros == Zeros(Padding(o + Len(head), 4))
           code == CodeBytes(protos[t.p].code)
           count == VarInt(Len(protos[t.p].constants))
           s == head \o zeros
           u == s \o code
           g == CodeStart(t, o)
           n == Len(protos[t.p].code)
<1>1. /\ FunctionBytes(t, o) = u \o count
      /\ Bytes(head) /\ Bytes(zeros) /\ Bytes(code) /\ Bytes(count) /\ Bytes(s) /\ Bytes(u)
      /\ g \in Nat /\ o + Len(s) = g /\ Len(u) = Len(s) + Len(code)
      /\ Len(code) = 4 * n /\ o + Len(FunctionBytes(t, o)) = (g + 4 * n) + Len(count)
      /\ Len(s) \in Nat
  <2>1. \A x : Bytes(x) => Len(x) \in Nat
    BY DEF Bytes
  <2> QED
    BY <2>1, FunctionParts
<1>2. /\ protos[t.p].code \in Seq(Instruction) /\ n \in Nat
      /\ Len(protos[t.p].constants) \in Nat
  BY TreeTaskFacts, MadeFacts
<1> HIDE DEF head, zeros, code, count, g, n
<1>3. Holds(buffer, o, u) /\ Holds(buffer, o + Len(u), count)
  <2> HIDE DEF u
  <2> QED
    BY <1>1, BytesParts, Zenon
<1>4. Holds(buffer, o, s) /\ Holds(buffer, o + Len(s), code)
  <2> HIDE DEF s
  <2> QED
    BY <1>1, <1>3, BytesParts, Zenon DEF u
<1>5. Holds(buffer, o, head)
  BY <1>1, <1>4, BytesParts, Zenon DEF s
<1> HIDE DEF s, u
<1>6. o + Len(u) = g + 4 * n
  BY <1>1, <1>2
<1>7. Holds(buffer, g, code) /\ Holds(buffer, g + 4 * n, count)
  BY <1>1, <1>3, <1>4, <1>6
<1>8. \A j \in 0..n-1 : IsPart("code", g + 4 * j, 4)
                          /\ buffer[(g + 4 * j) + 1][2] = protos[t.p].code[j + 1]
  BY <1>1, <1>2, <1>7, CodeRead DEF code, n
<1>9. g <= Len(buffer)
  <2>1. g + Len(code) <= Len(buffer) /\ Len(buffer) \in Nat
    BY <1>7 DEF Holds, BufferType
  <2> QED
    BY <1>1, <1>2, <2>1
<1>10. Gives(loadInt(g + 4 * n), Len(protos[t.p].constants), o + Len(FunctionBytes(t, o)))
  <2> DEFINE q == g + 4 * n
  <2>1. q \in Nat /\ Holds(buffer, q, count) /\ o + Len(FunctionBytes(t, o)) = q + Len(count)
    BY <1>1, <1>2, <1>7
  <2> HIDE DEF q
  <2>2. Gives(loadInt(q), Len(protos[t.p].constants), q + Len(count))
    BY <1>2, <2>1, IntRead DEF count
  <2> QED
    BY <2>1, <2>2 DEF q
<1> QED
  BY <1>1, <1>5, <1>8, <1>9, <1>10 DEF head, g, n

(* A constant's bytes.                                                     *)
LEMMA ConstantKinds ==
  ASSUME NEW k \in Constant
  PROVE  \/ k.kind = "int" /\ k.int \in Int /\ k = intConstant(k.int)
            /\ ConstantBytes(k) = <<Byte(3)>> \o VarInt(coded(k.int))
         \/ k.kind = "flt" /\ k.num \in Int /\ k.den \in Nat \ {0} /\ k = fltConstant(k.num, k.den)
            /\ ConstantBytes(k) = <<Byte(19)>> \o Part("flt", <<k.num, k.den>>, 8)
         \/ k.kind = "str" /\ k.str \in Names /\ k = strConstant(k.str)
            /\ ConstantBytes(k) = ((<<Byte(4)>> \o VarInt(NameLength[k.str] + 1))
                                     \o Part("chr", k.str, NameLength[k.str])) \o <<Byte(0)>>
<1>1. CASE k \in [kind : {"int"}, int : Int]
  <2>1. k.kind = "int" /\ k.int \in Int /\ k = intConstant(k.int)
    BY <1>1 DEF intConstant
  <2> QED
    BY <2>1, Zenon DEF ConstantBytes
<1>2. CASE k \in [kind : {"flt"}, num : Int, den : Nat \ {0}]
  <2>1. k.kind = "flt" /\ k.num \in Int /\ k.den \in Nat \ {0} /\ k = fltConstant(k.num, k.den)
    BY <1>2 DEF fltConstant
  <2>2. "flt" # "int"
    OBVIOUS
  <2> QED
    BY <2>1, <2>2, Zenon DEF ConstantBytes
<1>3. CASE k \in [kind : {"str"}, str : Names]
  <2>1. k.kind = "str" /\ k.str \in Names /\ k = strConstant(k.str)
    BY <1>3 DEF strConstant
  <2>2. "str" # "int" /\ "str" # "flt"
    OBVIOUS
  <2> QED
    BY <2>1, <2>2, Zenon DEF ConstantBytes
<1> QED
  BY <1>1, <1>2, <1>3 DEF Constant

LEMMA FloatPart ==
  ASSUME NEW a \in Int, NEW b \in Nat \ {0}
  PROVE  CodeFree(Part("flt", <<a, b>>, 8)) /\ Len(Part("flt", <<a, b>>, 8)) = 8
<1> DEFINE x == <<a, b>>
           n == 8
<1>1. \A j \in Nat : <<"flt", x, j>> \in ByteSet
  BY DEF ByteSet
<1>2. n \in Nat
  OBVIOUS
<1> HIDE DEF x, n
<1>3. CodeFree(Part("flt", x, n)) /\ Len(Part("flt", x, n)) = n
  BY <1>1, <1>2, PlainPart
<1> QED
  BY <1>3 DEF x, n

LEMMA NamePart ==
  ASSUME NEW a \in Names
  PROVE  /\ CodeFree(Part("chr", a, NameLength[a])) /\ Len(Part("chr", a, NameLength[a])) = NameLength[a]
         /\ NameLength[a] \in Nat \ {0}
<1> DEFINE n == NameLength[a]
<1>1. \A j \in Nat : <<"chr", a, j>> \in ByteSet
  BY DEF ByteSet
<1>2. n \in Nat \ {0}
  BY NameLengthAssumption
<1> HIDE DEF n
<1>3. CodeFree(Part("chr", a, n)) /\ Len(Part("chr", a, n)) = n
  BY <1>1, <1>2, PlainPart
<1> QED
  BY <1>2, <1>3 DEF n

LEMMA ConstantPlain ==
  ASSUME NEW k \in Constant
  PROVE  CodeFree(ConstantBytes(k))
<1>1. CASE k.kind = "int"
  <2>1. k.int \in Int /\ ConstantBytes(k) = <<Byte(3)>> \o VarInt(coded(k.int))
    BY <1>1, ConstantKinds
  <2>2. CodeFree(<<Byte(3)>>) /\ CodeFree(VarInt(coded(k.int)))
    BY <2>1, PlainByte, PlainVarInt, IntegersSurvive
  <2> QED
    BY <2>1, <2>2, PlainConcat
<1>2. CASE k.kind = "flt"
  <2>1. /\ k.num \in Int /\ k.den \in Nat \ {0}
        /\ ConstantBytes(k) = <<Byte(19)>> \o Part("flt", <<k.num, k.den>>, 8)
    BY <1>2, ConstantKinds
  <2>2. CodeFree(<<Byte(19)>>) /\ CodeFree(Part("flt", <<k.num, k.den>>, 8))
    BY <2>1, PlainByte, FloatPart
  <2> QED
    BY <2>1, <2>2, PlainConcat
<1>3. CASE k.kind = "str"
  <2> DEFINE x == <<Byte(4)>>
             y == VarInt(NameLength[k.str] + 1)
             z == Part("chr", k.str, NameLength[k.str])
             w == <<Byte(0)>>
  <2>1. k.str \in Names /\ ConstantBytes(k) = ((x \o y) \o z) \o w
    BY <1>3, ConstantKinds
  <2>2. NameLength[k.str] + 1 \in Nat
    BY <2>1, NamePart
  <2>3. CodeFree(x) /\ CodeFree(y) /\ CodeFree(z) /\ CodeFree(w)
    BY <2>1, <2>2, PlainByte, PlainVarInt, NamePart
  <2> HIDE DEF x, y, z, w
  <2>4. CodeFree(((x \o y) \o z) \o w)
    BY <2>3, PlainConcat
  <2> QED
    BY <2>1, <2>4
<1> QED
  BY <1>1, <1>2, <1>3, ConstantKinds

LEMMA IntConstantRead ==
  ASSUME BufferType, NEW o \in Nat, NEW k \in Constant, k.kind = "int",
         Holds(buffer, o, ConstantBytes(k))
  PROVE  /\ Gives(loadByte(o), 3, o + 1)
         /\ Gives(loadInt(o + 1), coded(k.int), o + Len(ConstantBytes(k)))
         /\ k = intConstant(decoded(coded(k.int)))
<1> DEFINE x == <<Byte(3)>>
           y == VarInt(coded(k.int))
           three == 3
<1>1. k.int \in Int /\ k = intConstant(k.int) /\ ConstantBytes(k) = x \o y
  BY ConstantKinds
<1>2. coded(k.int) \in Nat /\ decoded(coded(k.int)) = k.int
  BY <1>1, IntegersSurvive
<1>3. Bytes(x) /\ Bytes(y) /\ Len(x) = 1 /\ three \in Nat /\ Len(y) \in Nat
  BY <1>2, PlainByte, PlainVarInt DEF CodeFree, Bytes
<1>4. x = <<Byte(three)>>
  OBVIOUS
<1> HIDE DEF x, y, three
<1>5. Holds(buffer, o, x \o y)
  BY <1>1
<1>6. Holds(buffer, o, x) /\ Holds(buffer, o + Len(x), y)
  BY <1>3, <1>5, BytesParts, Zenon
<1>7. Len(x \o y) = Len(x) + Len(y)
  BY <1>3, BytesConcat, Zenon
<1>8. Gives(loadByte(o), three, o + 1)
  BY <1>3, <1>4, <1>6, OneByte
<1> DEFINE q == o + 1
<1>9. q \in Nat /\ Holds(buffer, q, y) /\ o + Len(ConstantBytes(k)) = q + Len(y)
  BY <1>1, <1>3, <1>6, <1>7
<1> HIDE DEF q
<1>10. Gives(loadInt(q), coded(k.int), q + Len(y))
  BY <1>2, <1>9, IntRead DEF y
<1>11. k = intConstant(decoded(coded(k.int)))
  BY <1>1, <1>2
<1> QED
  BY <1>8, <1>9, <1>10, <1>11 DEF q, three

LEMMA FloatConstantRead ==
  ASSUME BufferType, NEW o \in Nat, NEW k \in Constant, k.kind = "flt",
         Holds(buffer, o, ConstantBytes(k))
  PROVE  /\ Gives(loadByte(o), 19, o + 1)
         /\ IsPart("flt", o + 1, 8) /\ o + Len(ConstantBytes(k)) = o + 9
         /\ k = fltConstant(buffer[o + 2][2][1], buffer[o + 2][2][2])
<1> DEFINE x == <<Byte(19)>>
           z == <<k.num, k.den>>
           y == Part("flt", z, 8)
           m == 19
<1>1. /\ k.num \in Int /\ k.den \in Nat \ {0} /\ k = fltConstant(k.num, k.den)
      /\ ConstantBytes(k) = x \o y
  BY ConstantKinds
<1>2. m \in Nat /\ x = <<Byte(m)>>
  OBVIOUS
<1>3. Bytes(x) /\ Bytes(y) /\ Len(x) = 1 /\ Len(y) = 8
  BY <1>1, <1>2, PlainByte, FloatPart DEF CodeFree, Bytes
<1>4. \A j \in 1..8 : y[j] = <<"flt", z, j>>
  BY DEF Part
<1> HIDE DEF x, y, m
<1>5. Holds(buffer, o, x \o y)
  BY <1>1
<1>6. Holds(buffer, o, x) /\ Holds(buffer, o + Len(x), y)
  BY <1>3, <1>5, BytesParts, Zenon
<1>7. Len(x \o y) = Len(x) + Len(y)
  BY <1>3, BytesConcat, Zenon
<1>8. Gives(loadByte(o), m, o + 1)
  BY <1>2, <1>6, OneByte
<1>9. o + Len(ConstantBytes(k)) = o + 9
  BY <1>1, <1>3, <1>7
<1> DEFINE q == o + 1
           w == "flt"
           n == 8
<1>10. q \in Nat /\ Holds(buffer, q, y) /\ q + 1 = o + 2
  BY <1>3, <1>6
<1> HIDE DEF q, z
<1>11. n \in Nat \ {0} /\ q + n <= Len(buffer) /\ \A j \in 1..n : buffer[q + j] = <<w, z, j>>
  <2>1. n \in Nat \ {0} /\ Len(y) = n /\ \A j \in 1..n : y[j] = <<w, z, j>>
    BY <1>3, <1>4
  <2>2. q + Len(y) <= Len(buffer) /\ \A j \in 1..Len(y) : buffer[q + j] = y[j]
    BY <1>10 DEF Holds
  <2> HIDE DEF n, w
  <2> QED
    BY <2>1, <2>2
<1> HIDE DEF n, w
<1>12. IsPart(w, q, n) /\ buffer[q + 1][2] = z
  BY <1>10, <1>11, PartRead, Zenon
<1>13. k = fltConstant(buffer[q + 1][2][1], buffer[q + 1][2][2])
  <2>1. z[1] = k.num /\ z[2] = k.den
    BY DEF z
  <2> QED
    BY <1>1, <1>12, <2>1
<1> QED
  BY <1>8, <1>9, <1>10, <1>12, <1>13 DEF q, w, n, m

LEMMA StringConstantRead ==
  ASSUME BufferType, NEW o \in Nat, NEW k \in Constant, k.kind = "str",
         Holds(buffer, o, ConstantBytes(k))
  PROVE  \E q \in Nat, n \in Nat \ {0} :
           /\ Gives(loadByte(o), 4, o + 1) /\ Gives(loadInt(o + 1), n + 1, q)
           /\ IsPart("chr", q, n) /\ IsZero(q + n, 1) /\ o + Len(ConstantBytes(k)) = q + (n + 1)
           /\ k = strConstant(buffer[q + 1][2])
<1> DEFINE n == NameLength[k.str]
           x == <<Byte(4)>>
           y == VarInt(n + 1)
           z == Part("chr", k.str, n)
           w == <<Byte(0)>>
           xy == x \o y
           xyz == xy \o z
           m == 4
<1>1. k.str \in Names /\ k = strConstant(k.str) /\ ConstantBytes(k) = xyz \o w
  BY ConstantKinds
<1>2. n \in Nat \ {0} /\ n + 1 \in Nat /\ m \in Nat /\ x = <<Byte(m)>>
  BY <1>1, NamePart
<1>3. /\ Bytes(x) /\ Bytes(y) /\ Bytes(z) /\ Bytes(w)
      /\ Len(x) = 1 /\ Len(y) \in Nat /\ Len(z) = n /\ Len(w) = 1
  BY <1>1, <1>2, PlainByte, PlainVarInt, NamePart DEF CodeFree, Bytes
<1>4. \A j \in 1..n : z[j] = <<"chr", k.str, j>>
  BY DEF Part
<1>5. w = Zeros(1)
  BY DEF Zeros
<1> HIDE DEF x, y, z, w, m
<1>6. Bytes(xy) /\ Len(xy) = Len(x) + Len(y)
  BY <1>3, BytesConcat, Zenon
<1> HIDE DEF xy
<1>7. Bytes(xyz) /\ Len(xyz) = Len(xy) + Len(z)
  BY <1>3, <1>6, BytesConcat, Zenon
<1> HIDE DEF xyz
<1>8. Holds(buffer, o, xyz \o w) /\ Len(xyz \o w) = Len(xyz) + Len(w)
  BY <1>1, <1>3, <1>7, BytesConcat
<1>9. Holds(buffer, o, xyz) /\ Holds(buffer, o + Len(xyz), w)
  BY <1>3, <1>7, <1>8, BytesParts, Zenon
<1>10. Holds(buffer, o, xy) /\ Holds(buffer, o + Len(xy), z)
  BY <1>3, <1>6, <1>9, BytesParts, Zenon DEF xyz
<1>11. Holds(buffer, o, x) /\ Holds(buffer, o + Len(x), y)
  BY <1>3, <1>10, BytesParts, Zenon DEF xy
<1> HIDE DEF n
<1>12. Gives(loadByte(o), m, o + 1)
  BY <1>2, <1>11, OneByte
<1> DEFINE i == o + 1
           q == i + Len(y)
<1>13. i \in Nat /\ Holds(buffer, i, y)
  BY <1>3, <1>11
<1>14. q \in Nat /\ Holds(buffer, q, z) /\ Holds(buffer, q + n, w) /\ q + n \in Nat
       /\ o + Len(ConstantBytes(k)) = q + (n + 1)
  BY <1>1, <1>2, <1>3, <1>6, <1>7, <1>8, <1>9, <1>10
<1> HIDE DEF i
<1>15. Gives(loadInt(i), n + 1, q)
  BY <1>2, <1>13, IntRead DEF y
<1> HIDE DEF q
<1>16. IsPart("chr", q, n) /\ buffer[q + 1][2] = k.str
  <2> DEFINE v == "chr"
             s == k.str
  <2>1. q + n <= Len(buffer) /\ \A j \in 1..n : buffer[q + j] = <<v, s, j>>
    BY <1>2, <1>3, <1>4, <1>14 DEF Holds
  <2> HIDE DEF v, s
  <2>2. IsPart(v, q, n) /\ buffer[q + 1][2] = s
    BY <1>2, <1>14, <2>1, PartRead, Zenon
  <2> QED
    BY <2>2 DEF v, s
<1>17. IsZero(q + n, 1)
  <2> DEFINE one == 1
  <2>1. one \in Nat /\ Holds(buffer, q + n, Zeros(one))
    BY <1>5, <1>14
  <2> HIDE DEF one
  <2>2. IsZero(q + n, one)
    BY <1>14, <2>1, ZerosRead
  <2> QED
    BY <2>2 DEF one
<1>18. k = strConstant(buffer[q + 1][2])
  BY <1>1, <1>16
<1> QED
  BY <1>2, <1>12, <1>14, <1>15, <1>16, <1>17, <1>18 DEF i, m

(* The upvalue, and the number of functions.                               *)
LEMMA UpvaluesRead ==
  ASSUME Made, NEW p \in 1..Len(protos)
  PROVE  /\ CodeFree(UpvalueBytes(p)) /\ Len(UpvalueBytes(p)) \in Nat
         /\ BufferType =>
              \A o \in Nat : Holds(buffer, o, UpvalueBytes(p)) =>
                \E x \in Nat :
                  /\ Gives(loadInt(o), 1, o + 1) /\ Gives(loadByte(o + 1), x, o + 2)
                  /\ Gives(loadByte(o + 2), 0, o + 3) /\ Gives(loadByte(o + 3), 0, o + 4)
                  /\ Gives(loadInt(o + 4), Len(protos[p].functions), o + Len(UpvalueBytes(p)))
<1> DEFINE x == IF p = Len(protos) THEN 1 ELSE 0
           one == 1
           nil == 0
           v == VarInt(one)
           b == <<Byte(x), Byte(nil), Byte(nil)>>
           n == Len(protos[p].functions)
           w == VarInt(n)
           vb == v \o b
<1>1. x \in Nat /\ one \in Nat /\ n \in Nat /\ nil \in Nat
  BY MadeFacts
<1>2. UpvalueBytes(p) = vb \o w
  BY DEF UpvalueBytes
<1>3. Len(v) = 1
  <2>1. Groups[one] = <<one>>
    BY GroupsStep
  <2>2. Len(Groups[one]) = 1
    BY <2>1
  <2> HIDE DEF one
  <2> QED
    BY <1>1, <2>2, VarIntFacts
<1> HIDE DEF x, one, n, nil
<1>4. CodeFree(v) /\ CodeFree(b) /\ CodeFree(w) /\ Len(b) = 3
  BY <1>1, PlainVarInt, ThreeBytesPlain
<1>5. Bytes(v) /\ Bytes(b) /\ Bytes(w) /\ Len(w) \in Nat
  BY <1>1, <1>4, PlainVarInt DEF CodeFree, Bytes
<1> HIDE DEF v, b, w
<1>6. CodeFree(vb \o w)
  BY <1>4, PlainConcat
<1>7. Bytes(vb) /\ Len(vb) = Len(v) + Len(b)
  BY <1>5, BytesConcat, Zenon
<1> HIDE DEF vb
<1>8. Len(vb \o w) = Len(vb) + Len(w)
  BY <1>5, <1>7, BytesConcat, Zenon
<1>9. Len(UpvalueBytes(p)) = 4 + Len(w)
  BY <1>2, <1>3, <1>4, <1>7, <1>8
<1>10. ASSUME BufferType, NEW o \in Nat, Holds(buffer, o, UpvalueBytes(p))
       PROVE  /\ Gives(loadInt(o), one, o + 1) /\ Gives(loadByte(o + 1), x, o + 2)
              /\ Gives(loadByte(o + 2), nil, o + 3) /\ Gives(loadByte(o + 3), nil, o + 4)
              /\ Gives(loadInt(o + 4), n, o + Len(UpvalueBytes(p)))
  <2>1. Holds(buffer, o, vb) /\ Holds(buffer, o + Len(vb), w)
    BY <1>2, <1>5, <1>7, <1>10, BytesParts, Zenon
  <2>2. Holds(buffer, o, v) /\ Holds(buffer, o + Len(v), b)
    BY <1>5, <1>10, <2>1, BytesParts, Zenon DEF vb
  <2>3. Holds(buffer, o + 1, b) /\ Holds(buffer, o + 4, w)
    BY <1>3, <1>4, <1>7, <2>1, <2>2
  <2>4. Gives(loadInt(o), one, o + Len(v))
    BY <1>1, <1>10, <2>2, IntRead DEF v
  <2> DEFINE q == o + 1
             r == o + 4
  <2>5. q \in Nat /\ r \in Nat /\ q + 1 = o + 2 /\ q + 2 = o + 3 /\ q + 3 = o + 4
    OBVIOUS
  <2>6. Holds(buffer, q, b) /\ Holds(buffer, r, w) /\ r + Len(w) = o + Len(UpvalueBytes(p))
    BY <1>5, <1>9, <2>3
  <2> HIDE DEF q, r
  <2>7. /\ Gives(loadByte(q), x, q + 1) /\ Gives(loadByte(q + 1), nil, q + 2)
        /\ Gives(loadByte(q + 2), nil, q + 3)
    BY <1>1, <1>10, <2>5, <2>6, ThreeBytes DEF b
  <2>8. Gives(loadInt(r), n, r + Len(w))
    BY <1>1, <1>10, <2>5, <2>6, IntRead DEF w
  <2>9. Gives(loadInt(o), one, o + 1)
    BY <1>3, <2>4
  <2> QED
    BY <2>5, <2>6, <2>7, <2>8, <2>9 DEF q, r
<1> QED
  BY <1>1, <1>2, <1>5, <1>6, <1>9, <1>10 DEF one, nil, n

(* The end of a function: six empty numbers.                               *)
LEMMA EndRead ==
  /\ CodeFree(NoSource \o NoDebug) /\ Len(NoSource \o NoDebug) = 6
  /\ BufferType =>
       \A o \in Nat : Holds(buffer, o, NoSource \o NoDebug) =>
         \A j \in 0..5 : Gives(loadInt(o + j), 0, (o + j) + 1)
<1> DEFINE v == VarInt(0)
           s == NoSource \o NoDebug
<1>1. CodeFree(v) /\ v = <<Byte(0)>>
  BY PlainVarInt, VarIntZero
<1>2. s = (v \o v) \o (((v \o v) \o v) \o v)
  BY DEF NoSource, NoDebug
<1>3. CodeFree(s)
  <2> HIDE DEF v
  <2>1. CodeFree((v \o v) \o (((v \o v) \o v) \o v))
    BY <1>1, PlainConcat
  <2> QED
    BY <1>2, <2>1
<1> DEFINE z == Byte(0)
<1> HIDE DEF v, s
<1>4. v = <<z>>
  BY <1>1
<1> HIDE DEF z
<1>5. v \in Seq({z}) /\ Len(v) = 1
  BY <1>4
<1> DEFINE v2 == v \o v
           v3 == v2 \o v
           v4 == v3 \o v
<1>6. v2 \in Seq({z}) /\ Len(v2) = Len(v) + Len(v)
  BY <1>5, ConcatFacts, Zenon
<1> HIDE DEF v2
<1>7. v3 \in Seq({z}) /\ Len(v3) = Len(v2) + Len(v)
  BY <1>5, <1>6, ConcatFacts, Zenon
<1> HIDE DEF v3
<1>8. v4 \in Seq({z}) /\ Len(v4) = Len(v3) + Len(v)
  BY <1>5, <1>7, ConcatFacts, Zenon
<1> HIDE DEF v4
<1>9. s \in Seq({z}) /\ Len(s) = Len(v2) + Len(v4)
  <2>1. s = v2 \o v4
    BY <1>2 DEF v2, v3, v4
  <2> QED
    BY <1>6, <1>8, <2>1, ConcatFacts, Zenon
<1>10. Len(s) = 6 /\ \A j \in 1..6 : s[j] = z
  <2>1. Len(s) = 6
    BY <1>5, <1>6, <1>7, <1>8, <1>9
  <2>2. \A j \in 1..Len(s) : s[j] \in {z}
    BY <1>9, SeqFunction
  <2> QED
    BY <2>1, <2>2
<1>11. ASSUME BufferType, NEW o \in Nat, Holds(buffer, o, s), NEW j \in 0..5
       PROVE  Gives(loadInt(o + j), 0, (o + j) + 1)
  <2> DEFINE q == o + j
  <2>1. Len(buffer) \in Nat /\ o + 6 <= Len(buffer) /\ \A k \in 1..6 : buffer[o + k] = z
    BY <1>10, <1>11 DEF Holds, BufferType
  <2>2. j + 1 \in 1..6 /\ o + (j + 1) = q + 1 /\ q \in Nat
    OBVIOUS
  <2>3. q + 1 <= Len(buffer) /\ buffer[q + 1] = z
    BY <2>1, <2>2
  <2> HIDE DEF q
  <2>4. Holds(buffer, q, <<z>>)
    <3>1. Len(<<z>>) = 1 /\ \A k \in 1..1 : k = 1 /\ <<z>>[k] = z
      OBVIOUS
    <3> QED
      BY <2>3, <3>1 DEF Holds
  <2>5. Gives(loadInt(q), 0, q + 1)
    BY <1>4, <1>11, <2>2, <2>4, ZeroRead DEF v
  <2> QED
    BY <2>5 DEF q
<1> QED
  BY <1>3, <1>10, <1>11 DEF s

LEMMA AppendPlain ==
  ASSUME NEW h, CodeFree(h), NEW b \in ByteSet, b[1] # "code", NEW s, s = Append(h, b)
  PROVE  /\ CodeFree(s) /\ Len(s) = Len(h) + 1 /\ Len(h) \in Nat
         /\ (\A k \in 1..Len(h) : s[k] = h[k]) /\ s[Len(h) + 1] = b
<1>1. h \in Seq(ByteSet) /\ Len(h) \in Nat /\ \A k \in 1..Len(h) : h[k][1] # "code"
  BY DEF CodeFree
<1>2. /\ s \in Seq(ByteSet) /\ Len(s) = Len(h) + 1
      /\ (\A n \in 1..Len(h) : s[n] = h[n]) /\ s[Len(h) + 1] = b
  BY <1>1, AppendFacts
<1>3. ASSUME NEW k \in 1..Len(s) PROVE s[k][1] # "code"
  <2>1. k \in 1..Len(h) \/ k = Len(h) + 1
    BY <1>1, <1>2
  <2> QED
    BY <1>1, <1>2, <2>1
<1> QED
  BY <1>1, <1>2, <1>3 DEF CodeFree

LEMMA HeaderRead ==
  /\ CodeFree(Append(Header, Byte(1))) /\ Len(Append(Header, Byte(1))) = 41
  /\ BufferType /\ Holds(buffer, 0, Append(Header, Byte(1))) =>
       Len(buffer) > 40 /\ SubSeq(buffer, 1, 40) = Header /\ buffer[41] = Byte(1)
<1> DEFINE h == Part("header", "lua", 40)
           b == Byte(1)
<1>1. CodeFree(h) /\ Len(h) = 40
  <2> DEFINE n == 40
  <2>1. n \in Nat /\ \A j \in Nat : <<"header", "lua", j>> \in ByteSet
    BY DEF ByteSet
  <2> HIDE DEF n
  <2>2. CodeFree(Part("header", "lua", n)) /\ Len(Part("header", "lua", n)) = n
    BY <2>1, PlainPart
  <2> QED
    BY <2>2 DEF n
<1>2. b \in ByteSet /\ CodeFree(<<b>>)
  BY PlainByte
<1>3. \A j \in 1..40 : h[j] = <<"header", "lua", j>>
  BY DEF Part
<1>4. h = [j \in 1..40 |-> h[j]]
  BY DEF Part
<1>5. Header = h
  BY DEF Header
<1> DEFINE s == Append(h, b)
<1>6. b[1] # "code"
  BY DEF b, Byte
<1> HIDE DEF h, b
<1> SUFFICES /\ CodeFree(s) /\ Len(s) = 41
             /\ BufferType /\ Holds(buffer, 0, s) =>
                  Len(buffer) > 40 /\ SubSeq(buffer, 1, 40) = h /\ buffer[41] = b
  BY <1>5 DEF b
<1> HIDE DEF s
<1>7. s = Append(h, b)
  BY DEF s
<1>8. /\ CodeFree(s) /\ Len(s) = Len(h) + 1
      /\ (\A k \in 1..Len(h) : s[k] = h[k]) /\ s[Len(h) + 1] = b
  <2>1. CodeFree(h)
    BY <1>1
  <2>2. b \in ByteSet
    BY <1>2
  <2>3. CodeFree(s)
    BY <2>1, <2>2, <1>6, <1>7, AppendPlain, Zenon
  <2>4. Len(s) = Len(h) + 1
    BY <2>1, <2>2, <1>6, <1>7, AppendPlain, Zenon
  <2>5. ASSUME NEW k \in 1..Len(h) PROVE s[k] = h[k]
    BY <2>1, <2>2, <1>6, <1>7, AppendPlain
  <2>6. s[Len(h) + 1] = b
    BY <2>1, <2>2, <1>6, <1>7, AppendPlain
  <2> QED
    BY <2>3, <2>4, <2>5, <2>6
<1>9. Len(s) = 41 /\ (\A k \in 1..40 : s[k] = h[k]) /\ s[41] = b
  BY <1>1, <1>8
<1>10. ASSUME BufferType, Holds(buffer, 0, s)
       PROVE  Len(buffer) > 40 /\ SubSeq(buffer, 1, 40) = h /\ buffer[41] = b
  <2>1. Len(buffer) \in Nat /\ 41 <= Len(buffer) /\ \A k \in 1..41 : buffer[k] = s[k]
    <3>1. 0 + 41 <= Len(buffer) /\ \A k \in 1..41 : buffer[0 + k] = s[k]
      BY <1>9, <1>10 DEF Holds
    <3>2. \A k \in 1..41 : 0 + k = k
      OBVIOUS
    <3>3. Len(buffer) \in Nat
      BY <1>10 DEF BufferType
    <3> QED
      BY <3>1, <3>2, <3>3
  <2>2. buffer[41] = b /\ \A k \in 1..40 : buffer[0 + k] = h[k]
    <3>1. ASSUME NEW k \in 1..40 PROVE buffer[0 + k] = h[k]
      <4>1. 0 + k = k /\ k \in 1..41
        OBVIOUS
      <4>2. buffer[k] = s[k] /\ s[k] = h[k]
        BY <1>9, <2>1, <4>1
      <4> QED
        BY <4>1, <4>2
    <3>2. 41 \in 1..41
      OBVIOUS
    <3> QED
      BY <1>9, <2>1, <3>1, <3>2
  <2> DEFINE n == 40
             nil == 0
  <2>3. Holds(buffer, nil, h) /\ nil \in Nat /\ n \in Nat /\ Len(h) = n /\ h = [j \in 1..n |-> h[j]]
        /\ nil + 1 = 1 /\ nil + n = 40
    BY <1>1, <1>4, <2>1, <2>2 DEF Holds
  <2> HIDE DEF n, nil
  <2>4. SubSeq(buffer, nil + 1, nil + n) = h
    BY <1>10, <2>3, BlockRead, Zenon
  <2>5. SubSeq(buffer, 1, 40) = h
    BY <2>3, <2>4
  <2>6. Len(buffer) > 40
    BY <2>1
  <2> QED
    BY <2>2, <2>5, <2>6
<1> QED
  BY <1>8, <1>9, <1>10

----------------------------------------------------------------------------
(* Alignment.                                                              *)

(* Where s is put at offset at, each instruction starts at a multiple of 4 *)
AlignedAt(s, at) ==
  \A k \in 1..Len(s) : s[k][1] = "code" /\ s[k][3] = 1 => ((at + k) - 1) % 4 = 0

LEMMA PlainAligned ==
  ASSUME NEW s, NEW at, CodeFree(s)
  PROVE  AlignedAt(s, at) /\ Bytes(s)
  BY DEF CodeFree, AlignedAt, Bytes

LEMMA ConcatAligned ==
  ASSUME NEW s, NEW u, NEW at \in Nat, Bytes(s), Bytes(u), AlignedAt(s, at), AlignedAt(u, at + Len(s))
  PROVE  AlignedAt(s \o u, at)
<1>1. s \in Seq(ByteSet) /\ u \in Seq(ByteSet)
  BY DEF Bytes
<1>2. /\ Len(s \o u) = Len(s) + Len(u) /\ Len(s) \in Nat /\ Len(u) \in Nat
      /\ \A n \in 1..Len(s) : (s \o u)[n] = s[n]
      /\ \A n \in 1..Len(u) : (s \o u)[Len(s) + n] = u[n]
  BY <1>1, ConcatFacts
<1> DEFINE w == s \o u
<1> HIDE DEF w
<1>3. ASSUME NEW k \in 1..Len(w), w[k][1] = "code", w[k][3] = 1 PROVE ((at + k) - 1) % 4 = 0
  <2>1. CASE k <= Len(s)
    <3>1. k \in 1..Len(s) /\ w[k] = s[k]
      BY <1>2, <2>1 DEF w
    <3> QED
      BY <1>3, <3>1 DEF AlignedAt
  <2>2. CASE ~(k <= Len(s))
    <3> DEFINE n == k - Len(s)
    <3>1. n \in 1..Len(u) /\ k = Len(s) + n
      BY <1>2, <2>2 DEF w
    <3> HIDE DEF n
    <3>2. w[k] = u[n]
      BY <1>2, <3>1 DEF w
    <3>3. (((at + Len(s)) + n) - 1) % 4 = 0
      BY <1>3, <3>1, <3>2 DEF AlignedAt
    <3>4. (at + Len(s)) + n = at + k
      BY <1>2, <3>1
    <3> QED
      BY <3>3, <3>4
  <2> QED
    BY <2>1, <2>2
<1> QED
  BY <1>3 DEF AlignedAt, w

LEMMA CodeAligned ==
  ASSUME NEW code \in Seq(Instruction), NEW at \in Nat, at % 4 = 0
  PROVE  AlignedAt(CodeBytes(code), at)
<1> DEFINE s == CodeBytes(code)
<1>1. /\ Len(s) = 4 * Len(code) /\ Len(code) \in Nat
      /\ \A j \in 1..4 * Len(code) : s[j] = <<"code", code[(j + 3) \div 4], 1 + ((j + 3) % 4)>>
  BY CodeFacts
<1> HIDE DEF s
<1>2. ASSUME NEW j \in 1..Len(s), s[j][3] = 1 PROVE ((at + j) - 1) % 4 = 0
  <2>1. s[j][3] = 1 + ((j + 3) % 4)
    BY <1>1
  <2>2. (j + 3) % 4 = 0
    BY <1>1, <1>2, <2>1
  <2>3. j \in Nat
    BY <1>1
  <2> QED
    BY <2>2, <2>3
<1> QED
  BY <1>2 DEF AlignedAt, s

LEMMA FunctionAligned ==
  ASSUME Made, NEW t \in TreeTasks, NEW o \in Nat
  PROVE  AlignedAt(FunctionBytes(t, o), o)
<1> DEFINE head == FunctionHead(t)
           zeros == Zeros(Padding(o + Len(head), 4))
           code == CodeBytes(protos[t.p].code)
           count == VarInt(Len(protos[t.p].constants))
           s == head \o zeros
           u == s \o code
           g == CodeStart(t, o)
<1>1. /\ FunctionBytes(t, o) = u \o count
      /\ Bytes(head) /\ Bytes(zeros) /\ Bytes(code) /\ Bytes(count) /\ Bytes(s) /\ Bytes(u)
      /\ g \in Nat /\ g % 4 = 0 /\ o + Len(s) = g
  BY FunctionParts
<1>2. /\ protos[t.p].code \in Seq(Instruction)
      /\ Len(protos[t.p].constants) \in Nat
  BY TreeTaskFacts, MadeFacts
<1>3. CodeFree(head) /\ CodeFree(count)
  BY <1>2, HeadPlain, PlainVarInt
<1>4. Padding(o + Len(head), 4) \in Nat
  <2> DEFINE h == o + Len(head)
  <2>1. h \in Nat
    BY HeadPlain
  <2> HIDE DEF h
  <2>2. Padding(h, 4) \in Nat
    BY <2>1, PaddingAligns
  <2> QED
    BY <2>2 DEF h
<1>5. CodeFree(zeros)
  BY <1>4, PlainZeros
<1>6. AlignedAt(code, g)
  BY <1>1, <1>2, CodeAligned
<1> HIDE DEF head, zeros, code, count, g
<1>7. AlignedAt(s, o)
  BY <1>3, <1>5, PlainConcat, PlainAligned
<1> HIDE DEF s
<1>8. AlignedAt(u, o)
  BY <1>1, <1>6, <1>7, ConcatAligned
<1> HIDE DEF u
<1>9. AlignedAt(count, o + Len(u))
  BY <1>3, PlainAligned
<1>10. AlignedAt(u \o count, o)
  BY <1>1, <1>8, <1>9, ConcatAligned
<1> QED
  BY <1>1, <1>10

----------------------------------------------------------------------------
(* The writer: what one call of it writes and leaves to do, and the log of  *)
(* the calls it has made, which says where everything in the chunk is.      *)

(* What the writer's next task writes at an offset, what it leaves to do,  *)
(* and whether it can write it.                                            *)
Output(task, at) ==
  IF task.t = "function" THEN FunctionBytes(task, at)
  ELSE IF task.t = "end" THEN NoSource \o NoDebug
  ELSE IF task.left # <<>> THEN ConstantBytes(Head(task.left))
  ELSE UpvalueBytes(task.p)
ConstantsTask(p, left) == [t |-> "constants", p |-> p, left |-> left]
TasksAfter(task) ==
  IF task.t = "function" THEN <<ConstantsTask(task.p, protos[task.p].constants)>>
  ELSE IF task.t = "end" THEN <<>>
  ELSE IF task.left # <<>> THEN <<ConstantsTask(task.p, Tail(task.left))>>
  ELSE Append(FunctionTasks(task.p), EndTask(task.p))
Writable(task) ==
  /\ task.t = "function" =>
       FitsByte(task.numParams) /\ FitsByte(protos[task.p].maxStack + STACK_EXTRA)
  /\ task.t = "constants" =>
       (task.left # <<>> /\ Head(task.left).kind = "int" => WritesInt(Head(task.left).int))

LEMMA SameOutput ==
  ASSUME protos' = protos, NEW t, NEW o
  PROVE  Output(t, o)' = Output(t, o) /\ TasksAfter(t)' = TasksAfter(t) /\ (Writable(t)' <=> Writable(t))
<1>1. FunctionBytes(t, o)' = FunctionBytes(t, o)
  BY Zenon DEF FunctionBytes, FunctionHead
<1>2. UpvalueBytes(t.p)' = UpvalueBytes(t.p)
  BY Zenon DEF UpvalueBytes
<1>3. TasksAfter(t)' = TasksAfter(t)
  BY Zenon DEF TasksAfter, ConstantsTask, FunctionTasks, ChildTask
<1>4. Writable(t)' <=> Writable(t)
  BY Zenon DEF Writable
<1> QED
  BY <1>1, <1>2, <1>3, <1>4, Zenon DEF Output

TaskList(w) == w \in Seq(Tasks)

LEMMA TaskListFacts ==
  ASSUME NEW w, TaskList(w)
  PROVE  /\ Len(w) \in Nat
         /\ \A k \in 1..Len(w) : w[k] \in Tasks
         /\ w # <<>> => /\ Head(w) \in Tasks /\ Head(w) = w[1] /\ TaskList(Tail(w))
                        /\ Len(w) > 0 /\ Len(Tail(w)) = Len(w) - 1
                        /\ \A k \in 1..Len(Tail(w)) : Tail(w)[k] = w[k + 1]
<1> DEFINE TS == Tasks
<1>1. w \in Seq(TS)
  BY DEF TaskList
<1> HIDE DEF TS
<1>2. Len(w) \in Nat /\ \A k \in 1..Len(w) : w[k] \in TS
  BY <1>1, SeqFunction
<1>3. CASE w # <<>>
  <2>1. /\ Head(w) \in TS /\ Head(w) = w[1] /\ Tail(w) \in Seq(TS)
        /\ Len(Tail(w)) = Len(w) - 1
        /\ \A k \in 1..Len(Tail(w)) : Tail(w)[k] = w[k + 1]
    BY <1>1, <1>3, TailFacts
  <2>2. Len(w) > 0
    BY <1>1, <1>3
  <2> QED
    BY <1>2, <2>1, <2>2 DEF TS, TaskList
<1> QED
  BY <1>2, <1>3 DEF TS

LEMMA TaskListConcat ==
  ASSUME NEW v, NEW w, TaskList(v), TaskList(w)
  PROVE  /\ TaskList(v \o w) /\ Len(v \o w) = Len(v) + Len(w)
         /\ \A k \in 1..Len(v) : (v \o w)[k] = v[k]
         /\ \A k \in 1..Len(w) : (v \o w)[Len(v) + k] = w[k]
         /\ v = <<>> => v \o w = w
         /\ Len(v) = 1 => /\ v \o w # <<>> /\ Head(v \o w) = v[1] /\ Tail(v \o w) = w
<1> DEFINE TS == Tasks
<1>1. v \in Seq(TS) /\ w \in Seq(TS)
  BY DEF TaskList
<1> HIDE DEF TS
<1>2. /\ v \o w \in Seq(TS) /\ Len(v \o w) = Len(v) + Len(w)
      /\ \A k \in 1..Len(v) : (v \o w)[k] = v[k]
      /\ \A k \in 1..Len(w) : (v \o w)[Len(v) + k] = w[k]
  BY <1>1, ConcatFacts
<1>3. v = <<>> => v \o w = w
  BY <1>1
<1>4. ASSUME Len(v) = 1 PROVE v \o w # <<>> /\ Head(v \o w) = v[1] /\ Tail(v \o w) = w
  <2> DEFINE u == v \o w
  <2>1. u \in Seq(TS) /\ Len(u) = 1 + Len(w) /\ u[1] = v[1]
        /\ (\A k \in 1..Len(w) : u[1 + k] = w[k]) /\ Len(w) \in Nat
    BY <1>1, <1>2, <1>4
  <2> HIDE DEF u
  <2>2. u # <<>>
    BY <2>1
  <2>3. /\ Head(u) = u[1] /\ Tail(u) \in Seq(TS) /\ Len(Tail(u)) = Len(u) - 1
        /\ \A k \in 1..Len(Tail(u)) : Tail(u)[k] = u[k + 1]
    BY <2>1, <2>2, TailFacts
  <2>4. Len(Tail(u)) = Len(w) /\ \A k \in 1..Len(w) : Tail(u)[k] = w[k]
    BY <2>1, <2>3
  <2> DEFINE x == Tail(u)
  <2>5. x \in Seq(TS) /\ Len(x) = Len(w) /\ \A k \in 1..Len(w) : x[k] = w[k]
    BY <2>3, <2>4
  <2> HIDE DEF x
  <2>6. x = w
    BY <1>1, <2>5
  <2> QED
    BY <2>1, <2>2, <2>3, <2>6 DEF u, x
<1> QED
  BY <1>2, <1>3, <1>4 DEF TS, TaskList

(* A list of one task.                                                     *)
LEMMA OneTask ==
  ASSUME NEW x \in Tasks
  PROVE  TaskList(<<x>>) /\ Len(<<x>>) = 1 /\ <<x>>[1] = x
<1> DEFINE TS == Tasks
<1>1. x \in TS
  OBVIOUS
<1> HIDE DEF TS
<1>2. <<x>> \in Seq(TS)
  BY <1>1
<1> QED
  BY <1>2 DEF TS, TaskList

LEMMA OutputFacts ==
  ASSUME Made, NEW x \in Tasks, NEW at \in Nat
  PROVE  Bytes(Output(x, at)) /\ Len(Output(x, at)) \in Nat /\ AlignedAt(Output(x, at), at)
<1>0. Bytes(Output(x, at)) /\ AlignedAt(Output(x, at), at)
  <2>1. CASE x \in TreeTasks
    <3>1. Output(x, at) = FunctionBytes(x, at)
      BY <2>1, TreeTaskFacts, Zenon DEF Output
    <3> QED
      BY <2>1, <3>1, FunctionParts, FunctionAligned
  <2>2. CASE x \in EndTasks
    <3>1. x.t = "end"
      BY <2>2, ConstantTaskFacts
    <3>2. Output(x, at) = NoSource \o NoDebug
      BY <3>1 DEF Output
    <3> QED
      BY <3>2, EndRead, PlainAligned, Zenon
  <2>3. CASE x \in ConstantTasks
    <3>1. x.t = "constants" /\ x.p \in 1..Len(protos) /\ x.left \in Seq(Constant)
      BY <2>3, ConstantTaskFacts
    <3>2. CASE x.left # <<>>
      <4>1. Head(x.left) \in Constant
        BY <3>1, <3>2, TailFacts
      <4>2. Output(x, at) = ConstantBytes(Head(x.left))
        BY <3>1, <3>2 DEF Output
      <4> QED
        BY <4>1, <4>2, ConstantPlain, PlainAligned, Zenon
    <3>3. CASE x.left = <<>>
      <4>1. Output(x, at) = UpvalueBytes(x.p)
        BY <3>1, <3>3 DEF Output
      <4>2. CodeFree(UpvalueBytes(x.p))
        BY <3>1, UpvaluesRead
      <4> QED
        BY <4>1, <4>2, PlainAligned, Zenon
    <3> QED
      BY <3>2, <3>3
  <2> QED
    BY <2>1, <2>2, <2>3 DEF Tasks
<1> QED
  BY <1>0, SeqFunction DEF Bytes

(* The functions of p after the first c, and its end.                      *)
Rest(p, c) ==
  [j \in 1..(Len(protos[p].functions) - c) + 1 |->
     IF j <= Len(protos[p].functions) - c THEN ChildTask(p, c + j) ELSE EndTask(p)]

LEMMA RestFacts ==
  ASSUME Made, NEW p \in 1..Len(protos), NEW c \in 0..Len(protos[p].functions)
  PROVE  /\ TaskList(Rest(p, c))
         /\ Len(Rest(p, c)) = (Len(protos[p].functions) - c) + 1
         /\ \A j \in 1..Len(protos[p].functions) - c : Rest(p, c)[j] = ChildTask(p, c + j)
         /\ Rest(p, c)[(Len(protos[p].functions) - c) + 1] = EndTask(p)
<1> DEFINE m == Len(protos[p].functions)
           child(j) == ChildTask(p, j)
           end == EndTask(p)
           r == [j \in 1..(m - c) + 1 |-> IF j <= m - c THEN child(c + j) ELSE end]
           TS == Tasks
<1>1. m \in Nat
  BY MadeFacts
<1>2. c \in 0..m
  OBVIOUS
<1>3. \A j \in 1..m : child(j) \in TS
  BY TreeTaskFacts DEF Tasks
<1>4. end \in TS
  BY ConstantTaskFacts DEF Tasks
<1>5. r = Rest(p, c)
  BY Zenon DEF Rest
<1> HIDE DEF m, child, end, TS
<1>6. \A j \in 1..m-c : c + j \in 1..m
  BY <1>1, <1>2
<1>7. r \in [1..(m - c) + 1 -> TS] /\ (m - c) + 1 \in Nat
  <2>1. \A j \in 1..(m - c) + 1 : (IF j <= m - c THEN child(c + j) ELSE end) \in TS
    <3> TAKE j \in 1..(m - c) + 1
    <3>1. CASE j <= m - c
      <4>1. c + j \in 1..m
        BY <1>1, <1>2, <3>1
      <4> QED
        BY <1>3, <3>1, <4>1
    <3>2. CASE ~(j <= m - c)
      BY <1>4, <3>2
    <3> QED
      BY <3>1, <3>2
  <2> QED
    BY <1>1, <1>2, <2>1
<1>8. r \in Seq(TS) /\ Len(r) = (m - c) + 1
  <2> DEFINE n == (m - c) + 1
             g == r
  <2>1. n \in Nat /\ g \in [1..n -> TS]
    BY <1>7
  <2> HIDE DEF n, g
  <2>2. g \in Seq(TS) /\ Len(g) = n
    BY <2>1
  <2> QED
    BY <2>2 DEF n, g
<1>9. (\A j \in 1..m-c : r[j] = child(c + j)) /\ r[(m - c) + 1] = end
  BY <1>1, <1>2
<1> HIDE DEF r
<1>10. TaskList(r) /\ Len(r) = (m - c) + 1
       /\ (\A j \in 1..m-c : r[j] = child(c + j)) /\ r[(m - c) + 1] = end
  BY <1>8, <1>9 DEF TS, TaskList
<1> QED
  BY <1>5, <1>10 DEF m, child, end

(* Lists of tasks are equal if their tasks are.                            *)
LEMMA TaskListEqual ==
  ASSUME NEW v, NEW w, TaskList(v), TaskList(w), Len(v) = Len(w), \A k \in 1..Len(v) : v[k] = w[k]
  PROVE  v = w
<1> DEFINE TS == Tasks
<1>1. v \in Seq(TS) /\ w \in Seq(TS)
  BY DEF TaskList
<1> HIDE DEF TS
<1> QED
  BY <1>1

LEMMA RestSteps ==
  ASSUME Made, NEW p \in 1..Len(protos)
  PROVE  /\ Append(FunctionTasks(p), EndTask(p)) = Rest(p, 0)
         /\ Rest(p, Len(protos[p].functions)) = <<EndTask(p)>>
         /\ \A c \in 0..Len(protos[p].functions)-1 : Rest(p, c) = <<ChildTask(p, c + 1)>> \o Rest(p, c + 1)
<1> DEFINE m == Len(protos[p].functions)
<1>1. m \in Nat
  BY MadeFacts
<1>2. ASSUME NEW c \in 0..m
      PROVE  /\ TaskList(Rest(p, c)) /\ Len(Rest(p, c)) = (m - c) + 1
             /\ \A j \in 1..m-c : Rest(p, c)[j] = ChildTask(p, c + j)
             /\ Rest(p, c)[(m - c) + 1] = EndTask(p)
  BY RestFacts
<1>3. EndTask(p) \in Tasks /\ \A j \in 1..m : ChildTask(p, j) \in Tasks
  BY TreeTaskFacts, ConstantTaskFacts DEF Tasks
<1> HIDE DEF m
<1>4. Append(FunctionTasks(p), EndTask(p)) = Rest(p, 0)
  <2> DEFINE f == FunctionTasks(p)
             TS == Tasks
             e == EndTask(p)
  <2>1. f = [j \in 1..m |-> ChildTask(p, j)]
    BY Zenon DEF FunctionTasks, m
  <2>2. f \in Seq(TS) /\ Len(f) = m /\ (\A j \in 1..m : f[j] = ChildTask(p, j)) /\ e \in TS
    <3> HIDE DEF f, TS
    <3>1. \A j \in 1..m : ChildTask(p, j) \in TS
      BY <1>3 DEF TS
    <3>2. f \in [1..m -> TS]
      BY <2>1, <3>1
    <3>3. f \in Seq(TS) /\ Len(f) = m
      BY <1>1, <3>2
    <3> QED
      BY <1>3, <2>1, <3>3 DEF TS
  <2> HIDE DEF f, TS, e
  <2> DEFINE a == Append(f, e)
  <2>3. a \in Seq(TS) /\ Len(a) = m + 1 /\ (\A j \in 1..m : a[j] = f[j]) /\ a[m + 1] = e
    BY <2>2, AppendFacts
  <2> HIDE DEF a
  <2> DEFINE r == Rest(p, 0)
  <2>4. 0 \in 0..m /\ m - 0 = m
    BY <1>1
  <2>5. TaskList(r) /\ Len(r) = m + 1 /\ (\A j \in 1..m : r[j] = ChildTask(p, 0 + j)) /\ r[m + 1] = e
    BY <1>2, <2>4 DEF e
  <2> HIDE DEF r
  <2>6. \A j \in 1..m : 0 + j = j
    BY <1>1
  <2>7. \A j \in 1..Len(a) : a[j] = r[j]
    <3> TAKE j \in 1..Len(a)
    <3>1. j \in 1..m \/ j = m + 1
      BY <1>1, <2>3
    <3> QED
      BY <2>2, <2>3, <2>5, <2>6, <3>1
  <2>8. TaskList(a)
    BY <2>3 DEF TS, TaskList
  <2>9. a = r
    BY <2>3, <2>5, <2>7, <2>8, TaskListEqual
  <2> QED
    BY <2>9 DEF a, f, e, r
<1>5. Rest(p, m) = <<EndTask(p)>>
  <2>1. m \in 0..m /\ (m - m) + 1 = 1
    BY <1>1
  <2>2. TaskList(Rest(p, m)) /\ Len(Rest(p, m)) = 1 /\ Rest(p, m)[1] = EndTask(p)
    BY <1>2, <2>1
  <2>3. TaskList(<<EndTask(p)>>) /\ Len(<<EndTask(p)>>) = 1 /\ <<EndTask(p)>>[1] = EndTask(p)
    BY <1>3, OneTask
  <2>4. \A k \in 1..Len(Rest(p, m)) : Rest(p, m)[k] = <<EndTask(p)>>[k]
    BY <2>2, <2>3
  <2> QED
    BY <2>2, <2>3, <2>4, TaskListEqual
<1>6. ASSUME NEW c \in 0..m-1 PROVE Rest(p, c) = <<ChildTask(p, c + 1)>> \o Rest(p, c + 1)
  <2> DEFINE x == ChildTask(p, c + 1)
             v == <<x>>
             r == Rest(p, c)
             q == Rest(p, c + 1)
             u == v \o q
  <2>1. c \in 0..m /\ c + 1 \in 0..m /\ c + 1 \in 1..m /\ c \in Nat /\ (m - (c + 1)) + 1 = m - c
    BY <1>1
  <2>2. TaskList(r) /\ Len(r) = (m - c) + 1 /\ (\A j \in 1..m-c : r[j] = ChildTask(p, c + j))
        /\ r[(m - c) + 1] = EndTask(p)
    BY <1>2, <2>1
  <2>3. TaskList(q) /\ Len(q) = m - c
        /\ (\A j \in 1..m-(c+1) : q[j] = ChildTask(p, (c + 1) + j)) /\ q[m - c] = EndTask(p)
    BY <1>2, <2>1
  <2>4. TaskList(v) /\ Len(v) = 1 /\ v[1] = x
    BY <1>3, <2>1, OneTask
  <2> HIDE DEF x, v, r, q
  <2>5. TaskList(u) /\ Len(u) = Len(v) + Len(q) /\ (\A k \in 1..Len(v) : u[k] = v[k])
        /\ \A k \in 1..Len(q) : u[Len(v) + k] = q[k]
    <3>1. TaskList(v) /\ TaskList(q)
      BY <2>3, <2>4
    <3>2. /\ TaskList(v \o q) /\ Len(v \o q) = Len(v) + Len(q)
          /\ \A k \in 1..Len(v) : (v \o q)[k] = v[k]
          /\ \A k \in 1..Len(q) : (v \o q)[Len(v) + k] = q[k]
      BY <3>1, TaskListConcat, SMTT(30)
    <3> QED
      BY ONLY <3>2 DEF u
  <2> HIDE DEF u
  <2>6. ASSUME NEW k \in 1..Len(r) PROVE r[k] = u[k]
    <3>0. k \in Nat /\ k >= 1
      OBVIOUS
    <3>1. CASE k = 1
      <4>1. 1 \in 1..m-c /\ 1 \in 1..Len(v)
        BY <1>1, <2>4
      <4>2. r[1] = x
        BY <2>2, <4>1 DEF x
      <4>3. u[1] = x
        BY <2>4, <2>5, <4>1
      <4> QED
        BY <3>1, <4>2, <4>3
    <3>2. CASE k > 1 /\ k <= m - c
      <4> DEFINE j == k - 1
      <4>1. j \in 1..m-(c+1) /\ j \in 1..Len(q) /\ Len(v) + j = k /\ k \in 1..m-c
        BY <1>1, <2>1, <2>3, <2>4, <3>0, <3>2
      <4>2. (c + 1) + j = c + k
        BY <2>1, <3>0
      <4> HIDE DEF j
      <4>3. r[k] = ChildTask(p, c + k)
        BY <2>2, <4>1
      <4>4. u[k] = q[j]
        BY <2>5, <4>1
      <4>5. q[j] = ChildTask(p, (c + 1) + j)
        BY <2>3, <4>1
      <4> QED
        BY <4>2, <4>3, <4>4, <4>5
    <3>3. CASE k > 1 /\ k > m - c
      <4> DEFINE j == k - 1
      <4>1. j = m - c /\ j \in 1..Len(q) /\ Len(v) + j = k /\ k = (m - c) + 1
        BY <1>1, <2>1, <2>2, <2>3, <2>4, <3>0, <3>3
      <4> HIDE DEF j
      <4>2. u[k] = q[j]
        BY <2>5, <4>1
      <4> QED
        BY <2>2, <2>3, <4>1, <4>2
    <3> QED
      BY <3>0, <3>1, <3>2, <3>3, <1>1, <2>1
  <2>7. Len(u) = Len(r)
    BY <1>1, <2>1, <2>2, <2>3, <2>4, <2>5
  <2>8. r = u
    BY <2>2, <2>5, <2>6, <2>7, TaskListEqual
  <2> QED
    BY <2>8 DEF u, v, x, r, q
<1> QED
  BY <1>4, <1>5, <1>6 DEF m

LEMMA RestsFacts ==
  ASSUME NEW k \in Seq(Constant)
  PROVE  /\ Rests(k, k, 0)
         /\ \A s \in Seq(Constant) : \A c \in 0..Len(k) : Rests(s, k, c) =>
              /\ s = <<>> => c = Len(k)
              /\ s # <<>> => /\ c + 1 \in 1..Len(k) /\ Head(s) = k[c + 1]
                             /\ Tail(s) \in Seq(Constant) /\ Rests(Tail(s), k, c + 1)
<1> DEFINE C == Constant
<1>0. k \in Seq(C) /\ Len(k) \in Nat
  OBVIOUS
<1> HIDE DEF C
<1>1. Rests(k, k, 0)
  BY <1>0 DEF Rests
<1>2. ASSUME NEW s \in Seq(C), NEW c \in 0..Len(k), Rests(s, k, c)
      PROVE  /\ s = <<>> => c = Len(k)
             /\ s # <<>> => /\ c + 1 \in 1..Len(k) /\ Head(s) = k[c + 1]
                            /\ Tail(s) \in Seq(C) /\ Rests(Tail(s), k, c + 1)
  <2>1. Len(s) = Len(k) - c /\ (\A i \in 1..Len(k)-c : s[i] = k[c + i]) /\ c \in Nat /\ c <= Len(k)
    BY <1>0, <1>2 DEF Rests
  <2>2. ASSUME s = <<>> PROVE c = Len(k)
    BY <1>0, <2>1, <2>2
  <2>3. ASSUME s # <<>>
        PROVE  /\ c + 1 \in 1..Len(k) /\ Head(s) = k[c + 1]
               /\ Tail(s) \in Seq(C) /\ Rests(Tail(s), k, c + 1)
    <3>1. /\ Head(s) = s[1] /\ Tail(s) \in Seq(C) /\ Len(Tail(s)) = Len(s) - 1
          /\ \A n \in 1..Len(Tail(s)) : Tail(s)[n] = s[n + 1]
      BY <2>3, TailFacts
    <3>2. Len(s) > 0
      BY <2>3
    <3> DEFINE u == Tail(s)
    <3>3. Len(u) = Len(s) - 1 /\ \A n \in 1..Len(u) : u[n] = s[n + 1]
      BY <3>1
    <3> HIDE DEF u
    <3>4. Len(u) = Len(k) - (c + 1)
      BY <1>0, <2>1, <3>3
    <3>5. ASSUME NEW i \in 1..Len(k)-(c+1) PROVE u[i] = k[(c + 1) + i]
      <4>1. i + 1 \in 1..Len(k)-c /\ i \in 1..Len(u) /\ c + (i + 1) = (c + 1) + i
        BY <1>0, <2>1, <3>4
      <4>2. u[i] = s[i + 1] /\ s[i + 1] = k[c + (i + 1)]
        BY <2>1, <3>3, <4>1
      <4> QED
        BY <4>1, <4>2
    <3>6. Rests(u, k, c + 1)
      BY <3>4, <3>5 DEF Rests
    <3>7. c + 1 \in 1..Len(k) /\ Head(s) = k[c + 1]
      BY <1>0, <2>1, <3>1, <3>2
    <3> QED
      BY <3>1, <3>6, <3>7 DEF u
  <2> QED
    BY <2>2, <2>3
<1> QED
  BY <1>1, <1>2 DEF C

LEMMA ConstantsTaskIn ==
  ASSUME Made, NEW p \in 1..Len(protos), NEW left \in Seq(Constant),
         NEW c \in 0..Len(protos[p].constants), Rests(left, protos[p].constants, c)
  PROVE  ConstantsTask(p, left) \in ConstantTasks
<1> DEFINE x == ConstantsTask(p, left)
<1>1. x \in [t : {"constants"}, p : 1..Len(protos), left : Seq(Constant)] /\ x.p = p /\ x.left = left
  BY Zenon DEF ConstantsTask
<1> HIDE DEF x
<1>2. \E d \in 0..Len(protos[x.p].constants) : Rests(x.left, protos[x.p].constants, d)
  BY <1>1
<1>3. x \in ConstantTasks
  BY <1>1, <1>2, Zenon DEF ConstantTasks
<1> QED
  BY <1>3 DEF x

LEMMA AfterFacts ==
  ASSUME Made, NEW x \in Tasks
  PROVE  TaskList(TasksAfter(x))
<1>1. CASE x \in TreeTasks
  <2>1. x.p \in 1..Len(protos) /\ TasksAfter(x) = <<ConstantsTask(x.p, protos[x.p].constants)>>
    BY <1>1, TreeTaskFacts, Zenon DEF TasksAfter
  <2>2. protos[x.p].constants \in Seq(Constant) /\ Len(protos[x.p].constants) \in Nat
    BY <2>1, MadeFacts
  <2>3. ConstantsTask(x.p, protos[x.p].constants) \in ConstantTasks
    <3>1. 0 \in 0..Len(protos[x.p].constants)
      BY <2>2
    <3> QED
      BY <2>1, <2>2, <3>1, RestsFacts, ConstantsTaskIn
  <2> QED
    BY <2>1, <2>3, OneTask DEF Tasks
<1>2. CASE x \in EndTasks
  <2>1. x.t = "end"
    BY <1>2, ConstantTaskFacts
  <2>2. TasksAfter(x) = <<>>
    BY <2>1 DEF TasksAfter
  <2> QED
    BY <2>2 DEF TaskList
<1>3. CASE x \in ConstantTasks
  <2>1. x.t = "constants" /\ x.p \in 1..Len(protos) /\ x.left \in Seq(Constant)
        /\ \E c \in 0..Len(protos[x.p].constants) : Rests(x.left, protos[x.p].constants, c)
    BY <1>3, ConstantTaskFacts
  <2>2. PICK c \in 0..Len(protos[x.p].constants) : Rests(x.left, protos[x.p].constants, c)
    BY <2>1
  <2>3. protos[x.p].constants \in Seq(Constant) /\ Len(protos[x.p].constants) \in Nat
        /\ Len(protos[x.p].functions) \in Nat
    BY <2>1, MadeFacts
  <2>4. CASE x.left # <<>>
    <3>1. c + 1 \in 1..Len(protos[x.p].constants) /\ Tail(x.left) \in Seq(Constant)
          /\ Rests(Tail(x.left), protos[x.p].constants, c + 1)
      BY <2>1, <2>2, <2>3, <2>4, RestsFacts
    <3>2. c + 1 \in 0..Len(protos[x.p].constants)
      BY <2>3, <3>1
    <3>3. ConstantsTask(x.p, Tail(x.left)) \in Tasks
      BY <2>1, <3>1, <3>2, ConstantsTaskIn DEF Tasks
    <3>4. TasksAfter(x) = <<ConstantsTask(x.p, Tail(x.left))>>
      BY <2>1, <2>4 DEF TasksAfter
    <3> QED
      BY <3>3, <3>4, OneTask
  <2>5. CASE x.left = <<>>
    <3>1. TasksAfter(x) = Append(FunctionTasks(x.p), EndTask(x.p))
      BY <2>1, <2>5 DEF TasksAfter
    <3>2. TasksAfter(x) = Rest(x.p, 0)
      BY <2>1, <3>1, RestSteps
    <3>3. 0 \in 0..Len(protos[x.p].functions)
      BY <2>3
    <3> QED
      BY <2>1, <3>2, <3>3, RestFacts
  <2> QED
    BY <2>4, <2>5
<1> QED
  BY <1>1, <1>2, <1>3 DEF Tasks

LEMMA TaskKinds ==
  ASSUME Made, NEW x \in Tasks
  PROVE  /\ x.t = "function" <=> x \in TreeTasks
         /\ x.t = "constants" <=> x \in ConstantTasks
         /\ x.t = "end" <=> x \in EndTasks
         /\ x.t \in {"function", "constants", "end"}
  BY TreeTaskFacts, ConstantTaskFacts DEF Tasks

LEMMA ConstantsTaskNext ==
  ASSUME Made, NEW x \in ConstantTasks
  PROVE  [x EXCEPT !.left = Tail(@)] = ConstantsTask(x.p, Tail(x.left))
<1>1. x \in [t : {"constants"}, p : 1..Len(protos), left : Seq(Constant)]
  BY Zenon DEF ConstantTasks
<1> DEFINE P == 1..Len(protos)
           S == Seq(Constant)
           z == Tail(x.left)
<1>2. x \in [t : {"constants"}, p : P, left : S]
  BY <1>1
<1> HIDE DEF P, S, z
<1>3. [x EXCEPT !.left = z] = [t |-> "constants", p |-> x.p, left |-> z]
  BY <1>2
<1> QED
  BY <1>3 DEF z, ConstantsTask

LEMMA WriteStep ==
  ASSUME Made, TaskList(writing), phase = "writing", writing # <<>>, WriteNext
  PROVE  /\ UNCHANGED <<vars, offset, loading, loaded>>
         /\ \/ /\ phase' = "exception" /\ UNCHANGED <<buffer, writing>>
               /\ ~Writable(Head(writing))
            \/ /\ phase' = "writing" /\ Writable(Head(writing))
               /\ buffer' = buffer \o Output(Head(writing), Len(buffer))
               /\ writing' = TasksAfter(Head(writing)) \o Tail(writing)
<1> DEFINE x == Head(writing)
<1>1. x \in Tasks
  BY TaskListFacts
<1>2. /\ x.t = "function" <=> x \in TreeTasks
      /\ x.t = "constants" <=> x \in ConstantTasks
      /\ x.t = "end" <=> x \in EndTasks
  BY <1>1, TaskKinds
<1>3. CASE WriteFunction
  <2>1. x.t = "function" /\ UNCHANGED <<vars, offset, loading, loaded>>
    BY <1>3 DEF WriteFunction, Writing, SameReader
  <2>2. CASE ~FitsByte(x.numParams) \/ ~FitsByte(protos[x.p].maxStack + STACK_EXTRA)
    <3>1. phase' = "exception" /\ UNCHANGED <<buffer, writing>>
      BY <1>3, <2>2, Zenon DEF WriteFunction, Throw
    <3>2. ~Writable(x)
      BY <2>1, <2>2 DEF Writable
    <3> QED
      BY <2>1, <3>1, <3>2
  <2>3. CASE FitsByte(x.numParams) /\ FitsByte(protos[x.p].maxStack + STACK_EXTRA)
    <3>1. /\ Write(FunctionBytes(x, Len(buffer))) /\ UNCHANGED phase
          /\ ThenWrite(<<[t |-> "constants", p |-> x.p, left |-> protos[x.p].constants]>>)
      BY <1>3, <2>3, Zenon DEF WriteFunction
    <3>2. Writable(x) /\ Output(x, Len(buffer)) = FunctionBytes(x, Len(buffer))
          /\ TasksAfter(x) = <<[t |-> "constants", p |-> x.p, left |-> protos[x.p].constants]>>
      BY <2>1, <2>3, Zenon DEF Writable, Output, TasksAfter, ConstantsTask
    <3> QED
      BY <2>1, <3>1, <3>2 DEF Write, ThenWrite
  <2> QED
    BY <2>2, <2>3
<1>4. CASE WriteConstant
  <2>1. x.t = "constants" /\ x.left # <<>> /\ UNCHANGED <<vars, offset, loading, loaded>>
    BY <1>4 DEF WriteConstant, Writing, SameReader
  <2> DEFINE k == Head(x.left)
  <2>2. CASE k.kind = "int" /\ ~WritesInt(k.int)
    <3>1. phase' = "exception" /\ UNCHANGED <<buffer, writing>>
      BY <1>4, <2>2, Zenon DEF WriteConstant, Throw
    <3>2. ~Writable(x)
      BY <2>1, <2>2 DEF Writable
    <3> QED
      BY <2>1, <3>1, <3>2
  <2>3. CASE k.kind # "int" \/ WritesInt(k.int)
    <3>1. /\ Write(ConstantBytes(k)) /\ UNCHANGED phase
          /\ ThenWrite(<<[x EXCEPT !.left = Tail(@)]>>)
      BY <1>4, <2>3, Zenon DEF WriteConstant
    <3>2. Writable(x) /\ Output(x, Len(buffer)) = ConstantBytes(k)
      BY <2>1, <2>3 DEF Writable, Output
    <3>3. TasksAfter(x) = <<ConstantsTask(x.p, Tail(x.left))>>
      BY <2>1 DEF TasksAfter
    <3>4. [x EXCEPT !.left = Tail(@)] = ConstantsTask(x.p, Tail(x.left))
      BY <1>2, <2>1, ConstantsTaskNext
    <3> HIDE DEF x, k
    <3>5. writing' = TasksAfter(x) \o Tail(writing) /\ buffer' = buffer \o Output(x, Len(buffer))
      BY <3>1, <3>2, <3>3, <3>4, Zenon DEF Write, ThenWrite
    <3> QED
      BY <2>1, <3>1, <3>2, <3>5 DEF x
  <2> QED
    BY <2>2, <2>3
<1>5. CASE WriteUpvalues
  <2>1. x.t = "constants" /\ x.left = <<>> /\ UNCHANGED <<vars, offset, loading, loaded, phase>>
    BY <1>5 DEF WriteUpvalues, Writing, SameReader
  <2>2. /\ Write(UpvalueBytes(x.p))
        /\ ThenWrite(Append(FunctionTasks(x.p), EndTask(x.p)))
    BY <1>5, Zenon DEF WriteUpvalues, EndTask
  <2>3. Writable(x) /\ Output(x, Len(buffer)) = UpvalueBytes(x.p)
        /\ TasksAfter(x) = Append(FunctionTasks(x.p), EndTask(x.p))
    BY <2>1 DEF Writable, Output, TasksAfter
  <2> HIDE DEF x
  <2>4. writing' = TasksAfter(x) \o Tail(writing) /\ buffer' = buffer \o Output(x, Len(buffer))
    BY <2>2, <2>3, Zenon DEF Write, ThenWrite
  <2> QED
    BY <2>1, <2>3, <2>4 DEF x
<1>6. CASE WriteEnd
  <2>1. x.t = "end" /\ UNCHANGED <<vars, offset, loading, loaded, phase>>
    BY <1>6 DEF WriteEnd, Writing, SameReader
  <2>2. Write(NoSource \o NoDebug) /\ ThenWrite(<<>>)
    BY <1>6, Zenon DEF WriteEnd
  <2>3. Writable(x) /\ Output(x, Len(buffer)) = NoSource \o NoDebug /\ TasksAfter(x) = <<>>
    BY <2>1 DEF Writable, Output, TasksAfter
  <2> HIDE DEF x
  <2>4. writing' = TasksAfter(x) \o Tail(writing) /\ buffer' = buffer \o Output(x, Len(buffer))
    BY <2>2, <2>3, Zenon DEF Write, ThenWrite
  <2> QED
    BY <2>1, <2>3, <2>4 DEF x
<1>7. ~WriteHeader /\ ~HandOver
  BY DEF WriteHeader, HandOver
<1> QED
  BY <1>3, <1>4, <1>5, <1>6, <1>7 DEF WriteNext

LEMMA SameTasks ==
  ASSUME protos' = protos
  PROVE  Tasks' = Tasks /\ MainTask' = MainTask /\ TreeTasks' = TreeTasks
<1>1. MainTask' = MainTask
  BY Zenon DEF MainTask
<1>2. \A q, j : ChildTask(q, j)' = ChildTask(q, j)
  BY Zenon DEF ChildTask
<1>3. TreeTasks' = TreeTasks
  BY <1>1, <1>2, Zenon DEF TreeTasks
<1>4. ConstantTasks' = ConstantTasks
  BY Zenon DEF ConstantTasks
<1>5. EndTasks' = EndTasks
  BY Zenon DEF EndTasks
<1> QED
  BY <1>1, <1>3, <1>4, <1>5, Zenon DEF Tasks

LEMMA SameMade ==
  ASSUME Made, UNCHANGED vars
  PROVE  Made'
<1>1. Types' /\ Forest'
  BY NextTypes, NextForest DEF Made
<1>2. OutcomeRight' /\ outcome' # "generating"
  <2>1. protos' = protos /\ outcome' = outcome
    BY DEF vars
  <2> QED
    BY <2>1, Zenon DEF Made, OutcomeRight
<1> QED
  BY <1>1, <1>2 DEF Made

(* What the writer has done: the tasks it had at each call, and the offset *)
(* at which it wrote the first of them.                                    *)
Goes(v, a, w, b) ==
  /\ v # <<>> /\ Writable(Head(v))
  /\ w = TasksAfter(Head(v)) \o Tail(v)
  /\ b = a + Len(Output(Head(v), a))
Handled(x, n, W) ==
  \/ \E j \in 1..n-1 : W[j] # <<>> /\ Head(W[j]) = x
  \/ \E k \in 1..Len(W[n]) : W[n][k] = x
LogSteps(n, W, A) ==
  \A i \in 1..n-1 : Goes(W[i], A[i], W[i + 1], A[i + 1])
LogHeld(n, W, A, b) ==
  \A i \in 1..n-1 : Holds(b, A[i], Output(Head(W[i]), A[i]))
LogTypes(n, W, A) ==
  /\ n \in Nat \ {0}
  /\ \A i \in 1..n : TaskList(W[i]) /\ A[i] \in Nat /\ A[i] >= 41
LogHandled(n, W) ==
  \A i \in 1..n : \A k \in 1..Len(W[i]) : Handled(W[i][k], n, W)
LogIn(n, W, A, b) ==
  /\ LogTypes(n, W, A) /\ LogSteps(n, W, A) /\ LogHeld(n, W, A, b) /\ LogHandled(n, W)
  /\ W[1] = <<MainTask>> /\ A[1] = 41 /\ A[n] = Len(b)
Log(n, W, A) == LogIn(n, W, A, buffer) /\ W[n] = writing

LEMMA SameLog ==
  ASSUME protos' = protos, NEW n, NEW W, NEW A
  PROVE  Log(n, W, A)' <=> LogIn(n, W, A, buffer') /\ W[n] = writing'
<1>1. \A t, o : Output(t, o)' = Output(t, o) /\ TasksAfter(t)' = TasksAfter(t) /\ (Writable(t)' <=> Writable(t))
  BY SameOutput
<1>2. LogTypes(n, W, A)' <=> LogTypes(n, W, A)
  BY SameTasks, Zenon DEF LogTypes, TaskList
<1>3. LogSteps(n, W, A)' <=> LogSteps(n, W, A)
  BY <1>1, Zenon DEF LogSteps, Goes
<1>4. LogHeld(n, W, A, buffer)' <=> LogHeld(n, W, A, buffer')
  BY <1>1, Zenon DEF LogHeld
<1>5. LogHandled(n, W)' <=> LogHandled(n, W)
  BY Zenon DEF LogHandled, Handled
<1>6. MainTask' = MainTask
  BY SameTasks
<1> QED
  BY <1>2, <1>3, <1>4, <1>5, <1>6, Zenon DEF Log, LogIn

Longer(n, c, w) == \E V, B : LogIn(n + 1, V, B, c) /\ V[n + 1] = w
WrittenOn(n, b, c, w) ==
  /\ Bytes(c) /\ (AlignedAt(b, 0) => AlignedAt(c, 0))
  /\ \A h : Bytes(h) /\ Holds(b, 0, h) => Holds(c, 0, h)
  /\ Longer(n, c, w)

LEMMA LogGrows ==
  ASSUME Made, NEW b, Bytes(b), NEW n, NEW W, NEW A, LogIn(n, W, A, b), W[n] # <<>>,
         Writable(Head(W[n])), NEW w, NEW c, c = b \o Output(Head(W[n]), Len(b)),
         w = TasksAfter(Head(W[n])) \o Tail(W[n])
  PROVE  WrittenOn(n, b, c, w)
<1> DEFINE x == Head(W[n])
           o == Len(b)
           s == Output(x, o)
           v == TasksAfter(x)
           t == Tail(W[n])
           V == [i \in 1..n+1 |-> IF i = n + 1 THEN w ELSE W[i]]
           B == [i \in 1..n+1 |-> IF i = n + 1 THEN Len(c) ELSE A[i]]
<1>1. /\ n \in Nat /\ n >= 1 /\ n \in 1..n
      /\ \A i \in 1..n : TaskList(W[i]) /\ A[i] \in Nat /\ A[i] >= 41
      /\ A[n] = o /\ o \in Nat
  BY DEF LogIn, LogTypes
<1>2. /\ x \in Tasks /\ x = W[n][1] /\ TaskList(t) /\ Len(W[n]) > 0 /\ Len(W[n]) \in Nat
      /\ Len(t) = Len(W[n]) - 1
      /\ \A k \in 1..Len(t) : t[k] = W[n][k + 1]
  BY <1>1, TaskListFacts
<1>3. Bytes(s) /\ Len(s) \in Nat /\ AlignedAt(s, o)
  BY <1>1, <1>2, OutputFacts
<1>4. TaskList(v)
  BY <1>2, AfterFacts
<1> HIDE DEF s, v, t, o
<1>5. w = v \o t /\ c = b \o s
  BY DEF v, t, s, o
<1>6. /\ TaskList(w) /\ Len(w) = Len(v) + Len(t)
      /\ \A k \in 1..Len(t) : w[Len(v) + k] = t[k]
  <2>1. TaskList(v \o t) /\ Len(v \o t) = Len(v) + Len(t)
    BY <1>2, <1>4, TaskListConcat, Zenon
  <2>2. ASSUME NEW k \in 1..Len(t) PROVE (v \o t)[Len(v) + k] = t[k]
    BY <1>2, <1>4, TaskListConcat
  <2> QED
    BY <1>5, <2>1, <2>2
<1>7. Bytes(c) /\ Len(c) = o + Len(s) /\ Holds(c, o, s)
  <2>1. Bytes(b \o s) /\ Len(b \o s) = Len(b) + Len(s)
    BY <1>3, BytesConcat, Zenon
  <2>2. Holds(b \o s, Len(b), s)
    BY <1>3, HoldsLast DEF Bytes
  <2> QED
    BY <1>5, <2>1, <2>2 DEF o
<1>8. AlignedAt(b, 0) => AlignedAt(c, 0)
  <2> SUFFICES ASSUME AlignedAt(b, 0) PROVE AlignedAt(c, 0)
    OBVIOUS
  <2>1. 0 + Len(b) = o
    BY <1>1 DEF o
  <2>2. AlignedAt(s, 0 + Len(b))
    BY <1>3, <2>1
  <2>3. AlignedAt(b \o s, 0)
    BY <1>3, <2>2, ConcatAligned
  <2> QED
    BY <1>5, <2>3
<1>9. \A h, a : a \in Nat /\ Bytes(h) /\ Holds(b, a, h) => Holds(c, a, h)
  BY <1>3, <1>5, HoldsStays DEF Bytes
<1>10. /\ \A i \in 1..n : V[i] = W[i] /\ B[i] = A[i]
       /\ V[n + 1] = w /\ B[n + 1] = Len(c)
  <2>1. \A i \in 1..n+1 : V[i] = IF i = n + 1 THEN w ELSE W[i]
    BY Zenon
  <2>2. \A i \in 1..n+1 : B[i] = IF i = n + 1 THEN Len(c) ELSE A[i]
    BY Zenon
  <2> HIDE DEF V, B
  <2>3. n + 1 \in 1..n+1 /\ \A i \in 1..n : i \in 1..n+1 /\ i # n + 1
    BY <1>1
  <2> QED
    BY <2>1, <2>2, <2>3, Zenon
<1> HIDE DEF V, B, x
<1>11. LogTypes(n + 1, V, B)
  <2> SUFFICES ASSUME NEW i \in 1..n+1 PROVE TaskList(V[i]) /\ B[i] \in Nat /\ B[i] >= 41
    BY <1>1 DEF LogTypes
  <2>1. CASE i \in 1..n
    BY <1>1, <1>10, <2>1
  <2>2. CASE i = n + 1
    <3>1. o >= 41
      BY <1>1
    <3> DEFINE l == Len(c)
    <3>2. l = o + Len(s)
      BY <1>7
    <3> HIDE DEF l
    <3>3. l \in Nat /\ l >= 41
      BY <1>1, <1>3, <3>1, <3>2
    <3>4. B[i] = l /\ V[i] = w
      BY <1>10, <2>2, Zenon DEF l
    <3> QED
      BY <1>6, <3>3, <3>4, Zenon
  <2> QED
    BY <1>1, <2>1, <2>2
<1>12. LogSteps(n + 1, V, B)
  <2> SUFFICES ASSUME NEW i \in 1..n PROVE Goes(V[i], B[i], V[i + 1], B[i + 1])
    BY <1>1 DEF LogSteps
  <2>1. CASE i \in 1..n-1
    <3>1. Goes(W[i], A[i], W[i + 1], A[i + 1])
      BY <2>1 DEF LogIn, LogSteps
    <3>2. i + 1 \in 1..n /\ i \in 1..n
      BY <1>1, <2>1
    <3> QED
      BY <1>10, <3>1, <3>2
  <2>2. CASE i = n
    <3>1. Goes(W[n], o, w, Len(c))
      BY <1>7 DEF Goes, x, s
    <3> QED
      BY <1>1, <1>10, <2>2, <3>1
  <2> QED
    BY <1>1, <2>1, <2>2
<1>13. LogHeld(n + 1, V, B, c)
  <2> SUFFICES ASSUME NEW i \in 1..n PROVE Holds(c, B[i], Output(Head(V[i]), B[i]))
    BY <1>1 DEF LogHeld
  <2>1. CASE i \in 1..n-1
    <3>1. Holds(b, A[i], Output(Head(W[i]), A[i])) /\ W[i] # <<>>
      BY <2>1 DEF LogIn, LogSteps, LogHeld, Goes
    <3>2. Head(W[i]) \in Tasks /\ A[i] \in Nat
      BY <1>1, <3>1, TaskListFacts
    <3>3. Bytes(Output(Head(W[i]), A[i]))
      BY <3>2, OutputFacts
    <3>4. Holds(c, A[i], Output(Head(W[i]), A[i]))
      BY <1>9, <3>1, <3>2, <3>3
    <3> QED
      BY <1>10, <3>4
  <2>2. CASE i = n
    BY <1>1, <1>7, <1>10, <2>2 DEF x, s
  <2> QED
    BY <1>1, <2>1, <2>2
<1>14. LogHandled(n + 1, V)
  <2>1. ASSUME NEW y, Handled(y, n, W) PROVE Handled(y, n + 1, V)
    <3>1. CASE \E j \in 1..n-1 : W[j] # <<>> /\ Head(W[j]) = y
      <4>1. PICK j \in 1..n-1 : W[j] # <<>> /\ Head(W[j]) = y
        BY <3>1
      <4>2. j \in 1..(n+1)-1 /\ j \in 1..n
        BY <1>1
      <4> QED
        BY <1>10, <4>1, <4>2 DEF Handled
    <3>2. CASE \E k \in 1..Len(W[n]) : W[n][k] = y
      <4>1. PICK k \in 1..Len(W[n]) : W[n][k] = y
        BY <3>2
      <4>2. CASE k = 1
        <5>1. n \in 1..(n+1)-1 /\ V[n] # <<>> /\ Head(V[n]) = y
          BY <1>1, <1>2, <1>10, <4>1, <4>2 DEF x
        <5> QED
          BY <5>1 DEF Handled
      <4>3. CASE k # 1
        <5> DEFINE m == k - 1
        <5>1. m \in 1..Len(t) /\ k = m + 1 /\ Len(v) + m \in 1..Len(w)
          <6>1. Len(v) \in Nat
            BY <1>4, TaskListFacts
          <6> DEFINE lt == Len(t)
                     lw == Len(w)
                     lv == Len(v)
                     ln == Len(W[n])
          <6>2. lt = ln - 1 /\ lw = lv + lt /\ lv \in Nat /\ ln \in Nat /\ k \in 1..ln
            BY <1>2, <1>6, <6>1, Zenon
          <6> HIDE DEF lt, lw, lv, ln
          <6>3. m \in 1..lt /\ k = m + 1 /\ lv + m \in 1..lw
            BY <4>3, <6>2
          <6> QED
            BY <6>3 DEF lt, lw, lv
        <5> HIDE DEF m
        <5>2. w[Len(v) + m] = y
          BY <1>2, <1>6, <4>1, <5>1
        <5>3. \E q \in 1..Len(w) : w[q] = y
          BY <5>1, <5>2
        <5> QED
          BY <1>10, <5>3 DEF Handled
      <4> QED
        BY <4>2, <4>3
    <3> QED
      BY <2>1, <3>1, <3>2 DEF Handled
  <2>2. ASSUME NEW i \in 1..n+1, NEW k \in 1..Len(V[i]) PROVE Handled(V[i][k], n + 1, V)
    <3>1. CASE i \in 1..n
      <4>1. Handled(W[i][k], n, W)
        BY <1>10, <3>1 DEF LogIn, LogHandled
      <4> QED
        BY <1>10, <2>1, <3>1, <4>1
    <3>2. CASE i = n + 1
      BY <1>10, <3>2 DEF Handled
    <3> QED
      BY <1>1, <3>1, <3>2
  <2> QED
    BY <2>2 DEF LogHandled
<1>15. LogIn(n + 1, V, B, c) /\ V[n + 1] = w
  <2>1. 1 \in 1..n
    BY <1>1
  <2> QED
    BY <1>10, <1>11, <1>12, <1>13, <1>14, <2>1 DEF LogIn
<1>16. Longer(n, c, w)
  BY <1>15, Zenon DEF Longer
<1>17. \A h : Bytes(h) /\ Holds(b, 0, h) => Holds(c, 0, h)
  BY <1>9
<1> QED
  BY <1>7, <1>8, <1>16, <1>17, Zenon DEF WrittenOn

LEMMA LogStarts ==
  ASSUME Made
  PROVE  \E W, A : LogIn(1, W, A, Append(Header, Byte(1))) /\ W[1] = <<MainTask>>
<1> DEFINE w == <<MainTask>>
           b == Append(Header, Byte(1))
           W == [i \in {1} |-> w]
           A == [i \in {1} |-> 41]
<1>1. TaskList(w) /\ Len(w) = 1 /\ w[1] = MainTask
  BY TreeTaskFacts, OneTask DEF Tasks
<1>2. Len(b) = 41
  BY HeaderRead
<1> HIDE DEF w, b
<1>3. W[1] = w /\ A[1] = 41
  OBVIOUS
<1> HIDE DEF W, A
<1>4. LogTypes(1, W, A) /\ LogSteps(1, W, A) /\ LogHeld(1, W, A, b)
  BY <1>1, <1>3 DEF LogTypes, LogSteps, LogHeld
<1>5. LogHandled(1, W)
  BY DEF LogHandled, Handled
<1>6. LogIn(1, W, A, b) /\ W[1] = <<MainTask>>
  BY <1>2, <1>3, <1>4, <1>5 DEF LogIn, w
<1> QED
  BY <1>6, Zenon DEF b

LEMMA OutcomeMeans ==
  ASSUME Made
  PROVE  /\ outcome \in {"chunk", "exception"}
         /\ (\A i \in 1..Len(protos) : Writes(protos[i])) => outcome = "chunk"
         /\ (\E i \in 1..Len(protos) : ~Writes(protos[i])) => outcome = "exception"
<1>1. outcome \in {"chunk", "exception"}
  BY DEF Made, Types, OutcomeType
<1> QED
  BY <1>1 DEF Made, OutcomeRight

LEMMA Unwritable ==
  ASSUME Made, NEW x \in Tasks, ~Writable(x)
  PROVE  outcome = "exception"
<1>1. CASE x \in TreeTasks
  <2>1. x.t = "function" /\ x.p \in 1..Len(protos)
    BY <1>1, TreeTaskFacts
  <2>2. CASE ~FitsByte(protos[x.p].maxStack + STACK_EXTRA)
    <3>1. ~Writes(protos[x.p])
      BY <2>2 DEF Writes, FitsByte
    <3> QED
      BY <2>1, <3>1, OutcomeMeans
  <2>3. CASE ~FitsByte(x.numParams)
    <3>1. x # MainTask
      BY <2>3, SizeAssumption DEF MainTask, FunctionTask, FitsByte
    <3>2. PICK q \in 1..Len(protos) : \E j \in 1..Len(protos[q].functions) : x = ChildTask(q, j)
      BY <1>1, <3>1, Zenon DEF TreeTasks
    <3>3. PICK j \in 1..Len(protos[q].functions) : x = ChildTask(q, j)
      BY <3>2
    <3>4. x.numParams = protos[q].functions[j].numParams
      BY <3>3, TreeTaskFacts
    <3>5. ~Writes(protos[q])
      BY <2>3, <3>4 DEF Writes, FitsByte
    <3> QED
      BY <3>5, OutcomeMeans
  <2> QED
    BY <2>1, <2>2, <2>3 DEF Writable
<1>2. CASE x \in EndTasks
  <2>1. x.t = "end"
    BY <1>2, ConstantTaskFacts
  <2> QED
    BY <2>1 DEF Writable
<1>3. CASE x \in ConstantTasks
  <2>1. x.t = "constants" /\ x.p \in 1..Len(protos) /\ x.left \in Seq(Constant)
        /\ \E c \in 0..Len(protos[x.p].constants) : Rests(x.left, protos[x.p].constants, c)
    BY <1>3, ConstantTaskFacts
  <2>2. PICK c \in 0..Len(protos[x.p].constants) : Rests(x.left, protos[x.p].constants, c)
    BY <2>1
  <2>3. protos[x.p].constants \in Seq(Constant)
    BY <2>1, MadeFacts
  <2>4. x.left # <<>> /\ Head(x.left).kind = "int" /\ ~WritesInt(Head(x.left).int)
    BY <2>1 DEF Writable
  <2>5. c + 1 \in 1..Len(protos[x.p].constants) /\ Head(x.left) = protos[x.p].constants[c + 1]
    BY <2>1, <2>2, <2>3, <2>4, RestsFacts
  <2>6. ~Writes(protos[x.p])
    BY <2>4, <2>5 DEF Writes
  <2> QED
    BY <2>1, <2>6, OutcomeMeans
<1> QED
  BY <1>1, <1>2, <1>3 DEF Tasks

Begun(x, n, W) == \E j \in 1..n-1 : W[j] # <<>> /\ Head(W[j]) = x

(* When nothing is left to do, what a task left to do has been done.       *)
LEMMA BegunGoesOn ==
  ASSUME Made, NEW b, NEW n, NEW W, NEW A, LogIn(n, W, A, b), W[n] = <<>>
  PROVE  /\ Begun(MainTask, n, W)
         /\ \A x : Begun(x, n, W) =>
              /\ x \in Tasks /\ Writable(x) /\ TaskList(TasksAfter(x))
              /\ \A k \in 1..Len(TasksAfter(x)) : Begun(TasksAfter(x)[k], n, W)
<1>1. n \in Nat /\ n >= 1 /\ \A i \in 1..n : TaskList(W[i])
  BY DEF LogIn, LogTypes
<1>2. ASSUME NEW i \in 1..n, NEW k \in 1..Len(W[i]) PROVE Begun(W[i][k], n, W)
  <2>1. Handled(W[i][k], n, W)
    BY DEF LogIn, LogHandled
  <2>2. ~\E q \in 1..Len(W[n]) : W[n][q] = W[i][k]
    OBVIOUS
  <2> QED
    BY <2>1, <2>2, Zenon DEF Handled, Begun
<1>3. Begun(MainTask, n, W)
  <2>1. W[1] = <<MainTask>> /\ 1 \in 1..n
    BY <1>1 DEF LogIn
  <2>2. 1 \in 1..Len(W[1]) /\ W[1][1] = MainTask
    BY <2>1
  <2>3. Begun(W[1][1], n, W)
    BY <1>2, <2>1, <2>2
  <2> QED
    BY <2>2, <2>3
<1>4. ASSUME NEW x, Begun(x, n, W)
      PROVE  /\ x \in Tasks /\ Writable(x) /\ TaskList(TasksAfter(x))
             /\ \A k \in 1..Len(TasksAfter(x)) : Begun(TasksAfter(x)[k], n, W)
  <2>1. PICK j \in 1..n-1 : W[j] # <<>> /\ Head(W[j]) = x
    BY <1>4 DEF Begun
  <2>2. j \in 1..n /\ j + 1 \in 1..n
    BY <1>1
  <2>3. x \in Tasks /\ TaskList(Tail(W[j]))
    BY <1>1, <2>1, <2>2, TaskListFacts
  <2>4. Writable(x) /\ W[j + 1] = TasksAfter(x) \o Tail(W[j])
    BY <2>1 DEF LogIn, LogSteps, Goes
  <2>5. TaskList(TasksAfter(x))
    BY <2>3, AfterFacts
  <2> DEFINE v == TasksAfter(x)
             t == Tail(W[j])
  <2>6. TaskList(v) /\ TaskList(t) /\ W[j + 1] = v \o t
    BY <2>3, <2>4, <2>5
  <2> HIDE DEF v, t
  <2>7. Len(v \o t) = Len(v) + Len(t) /\ Len(v) \in Nat /\ Len(t) \in Nat
    BY <2>6, TaskListConcat, TaskListFacts, Zenon
  <2>8. ASSUME NEW k \in 1..Len(v) PROVE Begun(v[k], n, W)
    <3>1. (v \o t)[k] = v[k]
      BY <2>6, TaskListConcat
    <3>2. k \in 1..Len(v \o t)
      BY <2>7
    <3>3. Begun(W[j + 1][k], n, W)
      BY <1>2, <2>2, <2>6, <3>2
    <3> QED
      BY <2>6, <3>1, <3>3
  <2> QED
    BY <2>3, <2>4, <2>5, <2>8 DEF v
<1> QED
  BY <1>3, <1>4

(* A function written is written whole, and so are its functions.          *)
LEMMA FunctionWritten ==
  ASSUME Made, NEW b, NEW n, NEW W, NEW A, LogIn(n, W, A, b), W[n] = <<>>,
         NEW x \in TreeTasks, Begun(x, n, W)
  PROVE  /\ FitsByte(protos[x.p].maxStack + STACK_EXTRA) /\ FitsByte(x.numParams)
         /\ \A i \in 1..Len(protos[x.p].constants) :
              protos[x.p].constants[i].kind = "int" => WritesInt(protos[x.p].constants[i].int)
         /\ \A j \in 1..Len(protos[x.p].functions) : Begun(ChildTask(x.p, j), n, W)
<1> DEFINE p == x.p
           K == protos[p].constants
           fs == protos[p].functions
           task(left) == ConstantsTask(p, left)
           Comes(c) == \E left \in Seq(Constant) : Rests(left, K, c) /\ Begun(task(left), n, W)
<1>1. x.t = "function" /\ p \in 1..Len(protos)
  BY TreeTaskFacts
<1>2. K \in Seq(Constant) /\ Len(K) \in Nat /\ Len(fs) \in Nat
  BY <1>1, MadeFacts
<1>3. \A y : Begun(y, n, W) =>
              /\ y \in Tasks /\ Writable(y) /\ TaskList(TasksAfter(y))
              /\ \A k \in 1..Len(TasksAfter(y)) : Begun(TasksAfter(y)[k], n, W)
  BY BegunGoesOn
<1>4. FitsByte(protos[p].maxStack + STACK_EXTRA) /\ FitsByte(x.numParams)
  <2>1. Writable(x)
    BY <1>3
  <2> QED
    BY <1>1, <2>1 DEF Writable
<1>5. Comes(0)
  <2>1. TasksAfter(x) = <<task(K)>>
    BY <1>1 DEF TasksAfter
  <2> HIDE DEF K, task
  <2>2. 1 \in 1..Len(TasksAfter(x)) /\ TasksAfter(x)[1] = task(K)
    BY <2>1
  <2>3. Begun(task(K), n, W)
    BY <1>3, <2>2
  <2>4. Rests(K, K, 0)
    BY <1>2, RestsFacts
  <2> QED
    BY <1>2, <2>3, <2>4
<1>6. ASSUME NEW left \in Seq(Constant), Begun(task(left), n, W)
      PROVE  /\ left # <<>> => /\ Head(left).kind = "int" => WritesInt(Head(left).int)
                               /\ Begun(task(Tail(left)), n, W)
             /\ left = <<>> => \A j \in 1..Len(fs) : Begun(ChildTask(p, j), n, W)
  <2> DEFINE y == task(left)
  <2>1. y.t = "constants" /\ y.p = p /\ y.left = left
    BY DEF ConstantsTask
  <2> HIDE DEF y
  <2>2. Writable(y) /\ \A k \in 1..Len(TasksAfter(y)) : Begun(TasksAfter(y)[k], n, W)
    BY <1>3, <1>6 DEF y
  <2>3. ASSUME left # <<>>
        PROVE  /\ Head(left).kind = "int" => WritesInt(Head(left).int)
               /\ Begun(task(Tail(left)), n, W)
    <3>1. TasksAfter(y) = <<task(Tail(left))>>
      BY <2>1, <2>3 DEF TasksAfter
    <3> DEFINE z == task(Tail(left))
    <3> HIDE DEF z
    <3>2. TasksAfter(y) = <<z>>
      BY <3>1 DEF z
    <3>3. 1 \in 1..Len(TasksAfter(y)) /\ TasksAfter(y)[1] = z
      BY <3>2
    <3>4. Begun(z, n, W)
      BY <2>2, <3>3
    <3>5. Head(left).kind = "int" => WritesInt(Head(left).int)
      BY <2>1, <2>2, <2>3 DEF Writable
    <3> QED
      BY <3>4, <3>5 DEF z
  <2>4. ASSUME left = <<>>, NEW j \in 1..Len(fs) PROVE Begun(ChildTask(p, j), n, W)
    <3>1. TasksAfter(y) = Append(FunctionTasks(p), EndTask(p))
      BY <2>1, <2>4 DEF TasksAfter
    <3>2. TasksAfter(y) = Rest(p, 0)
      BY <1>1, <3>1, RestSteps
    <3>3. 0 \in 0..Len(fs) /\ j \in 1..Len(fs) - 0 /\ 0 + j = j
      BY <1>2
    <3>4. Len(Rest(p, 0)) = (Len(fs) - 0) + 1
          /\ \A i \in 1..Len(fs) - 0 : Rest(p, 0)[i] = ChildTask(p, 0 + i)
      BY <1>1, <3>3, RestFacts
    <3>5. Rest(p, 0)[j] = ChildTask(p, j) /\ j \in 1..Len(Rest(p, 0))
      BY <1>2, <3>3, <3>4
    <3> QED
      BY <2>2, <3>2, <3>5
  <2> QED
    BY <2>3, <2>4
<1> HIDE DEF K, fs, task
<1>7. ASSUME NEW c \in Nat, c < Len(K), Comes(c)
      PROVE  /\ K[c + 1].kind = "int" => WritesInt(K[c + 1].int)
             /\ Comes(c + 1)
  <2>1. PICK left \in Seq(Constant) : Rests(left, K, c) /\ Begun(task(left), n, W)
    BY <1>7
  <2>2. c \in 0..Len(K) /\ c # Len(K)
    BY <1>2, <1>7
  <2>3. left # <<>> /\ Head(left) = K[c + 1] /\ Tail(left) \in Seq(Constant)
        /\ Rests(Tail(left), K, c + 1)
    BY <1>2, <2>1, <2>2, RestsFacts
  <2>4. (Head(left).kind = "int" => WritesInt(Head(left).int)) /\ Begun(task(Tail(left)), n, W)
    BY <1>6, <2>1, <2>3
  <2> QED
    BY <2>3, <2>4
<1>8. ASSUME NEW c \in Nat, c <= Len(K) PROVE Comes(c)
  <2> DEFINE S == {m \in Nat : m <= Len(K) /\ ~Comes(m)}
  <2>1. CASE S = {}
    BY <1>8, <2>1
  <2>2. CASE S # {}
    <3>1. PICK m \in S : \A k \in S : m <= k
      BY <2>2, LeastNat
    <3>2. m # 0
      BY <1>5, <3>1
    <3>3. m - 1 \in Nat /\ m - 1 < Len(K) /\ m - 1 \notin S /\ (m - 1) + 1 = m
      BY <1>2, <3>1, <3>2
    <3>4. Comes(m - 1)
      BY <1>2, <3>3
    <3> HIDE DEF Comes
    <3>5. Comes(m)
      BY <1>7, <3>3, <3>4
    <3> QED
      BY <3>1, <3>5
  <2> QED
    BY <2>1, <2>2
<1>9. ASSUME NEW i \in 1..Len(K), K[i].kind = "int" PROVE WritesInt(K[i].int)
  <2> DEFINE c == i - 1
  <2>1. c \in Nat /\ c < Len(K) /\ c <= Len(K) /\ c + 1 = i
    BY <1>2
  <2> HIDE DEF c, Comes
  <2>2. Comes(c)
    BY <1>8, <2>1
  <2> QED
    BY <1>7, <1>9, <2>1, <2>2
<1>10. ASSUME NEW j \in 1..Len(fs) PROVE Begun(ChildTask(p, j), n, W)
  <2> DEFINE c == Len(K)
  <2>1. c \in Nat /\ c <= Len(K) /\ c \in 0..Len(K)
    BY <1>2
  <2>2. Comes(c)
    BY <1>8, <2>1
  <2>3. PICK left \in Seq(Constant) : Rests(left, K, c) /\ Begun(task(left), n, W)
    BY <2>2
  <2>4. left = <<>>
    <3>1. Len(left) = Len(K) - c
      BY <2>3 DEF Rests
    <3>2. Len(left) = 0
      BY <1>2, <3>1
    <3> QED
      BY <3>2
  <2> QED
    BY <1>6, <2>3, <2>4
<1> QED
  BY <1>4, <1>9, <1>10 DEF K, fs

(* A chunk that is written to its end is one the code generator can write. *)
LEMMA AllWritten ==
  ASSUME Made, NEW b, NEW n, NEW W, NEW A, LogIn(n, W, A, b), W[n] = <<>>
  PROVE  outcome = "chunk"
<1> DEFINE N == Len(protos)
           Wrote(p) == \E x \in TreeTasks : x.p = p /\ Begun(x, n, W)
<1>0. N \in Nat \ {0}
  BY MadeFacts DEF Made, Forest, MainIsRoot
<1>1. Wrote(N)
  <2>1. MainTask \in TreeTasks /\ Begun(MainTask, n, W)
    BY TreeTaskFacts, BegunGoesOn
  <2>2. MainTask.p = N
    BY DEF MainTask, FunctionTask
  <2> QED
    BY <2>1, <2>2
<1>2. ASSUME NEW x \in TreeTasks, Begun(x, n, W)
      PROVE  /\ FitsByte(protos[x.p].maxStack + STACK_EXTRA) /\ FitsByte(x.numParams)
             /\ \A i \in 1..Len(protos[x.p].constants) :
                  protos[x.p].constants[i].kind = "int" => WritesInt(protos[x.p].constants[i].int)
             /\ \A j \in 1..Len(protos[x.p].functions) : Begun(ChildTask(x.p, j), n, W)
  BY <1>2, FunctionWritten
<1>3. ASSUME NEW g \in 1..N, g # N PROVE \E q \in 1..N : q > g /\ (Wrote(q) => Wrote(g))
  <2>1. MainIsRoot /\ FinishedLists
    BY DEF Made, Forest
  <2>2. g \in 1..N-1
    BY <1>0, <1>3
  <2>3. PICK q \in 1..N : g \in Finishes(q)
    BY <2>1, <2>2 DEF MainIsRoot
  <2>4. g \in 1..q-1
    BY <2>1, <2>3 DEF FinishedLists
  <2>5. q > g
    BY <1>0, <2>4
  <2>6. PICK j \in 1..Len(protos[q].functions) : protos[q].functions[j].proto = g
    BY <2>3 DEF Finishes, Children
  <2>7. ASSUME Wrote(q) PROVE Wrote(g)
    <3>1. PICK x \in TreeTasks : x.p = q /\ Begun(x, n, W)
      BY <2>7
    <3>2. Begun(ChildTask(q, j), n, W)
      BY <1>2, <3>1
    <3>3. ChildTask(q, j) \in TreeTasks /\ ChildTask(q, j).p = g
      BY <2>6, TreeTaskFacts
    <3> QED
      BY <3>2, <3>3
  <2> QED
    BY <2>5, <2>7
<1> HIDE DEF Wrote, N
<1>4. ASSUME NEW p \in 1..N PROVE Wrote(p)
  <2> DEFINE U == {u \in Nat : u \in 1..N /\ ~Wrote(u)}
  <2>1. CASE U = {}
    BY <2>1
  <2>2. CASE U # {}
    <3>1. U \in SUBSET Nat /\ \A u \in U : u <= N
      BY <1>0
    <3>2. PICK g \in U : \A u \in U : u <= g
      BY <1>0, <2>2, <3>1, GreatestNat
    <3>3. g \in 1..N /\ ~Wrote(g) /\ g # N
      BY <1>1, <3>2
    <3>4. PICK q \in 1..N : q > g /\ (Wrote(q) => Wrote(g))
      BY <1>3, <3>3
    <3>5. q \in U
      BY <1>0, <3>3, <3>4
    <3> QED
      BY <1>0, <3>2, <3>4, <3>5
  <2> QED
    BY <2>1, <2>2
<1>5. ASSUME NEW p \in 1..N PROVE Writes(protos[p])
  <2>1. PICK x \in TreeTasks : x.p = p /\ Begun(x, n, W)
    BY <1>4 DEF Wrote
  <2>2. /\ FitsByte(protos[p].maxStack + STACK_EXTRA)
        /\ \A i \in 1..Len(protos[p].constants) :
             protos[p].constants[i].kind = "int" => WritesInt(protos[p].constants[i].int)
        /\ \A j \in 1..Len(protos[p].functions) : Begun(ChildTask(p, j), n, W)
    BY <1>2, <2>1
  <2>3. ASSUME NEW j \in 1..Len(protos[p].functions)
        PROVE  protos[p].functions[j].numParams < ArgSize
    <3>1. ChildTask(p, j) \in TreeTasks /\ ChildTask(p, j).numParams = protos[p].functions[j].numParams
      BY TreeTaskFacts DEF N
    <3>2. FitsByte(ChildTask(p, j).numParams)
      BY <1>2, <2>2, <3>1
    <3> QED
      BY <3>1, <3>2 DEF FitsByte
  <2> QED
    BY <2>2, <2>3 DEF Writes, FitsByte
<1> QED
  BY <1>5, OutcomeMeans DEF N

(* A loadable function, given its functions.                               *)
FunctionsFrom(f, p) ==
  [j \in 1..Len(protos[p].functions) |->
     f[<<protos[p].functions[j].proto, protos[p].functions[j].numParams>>]]
LoadedAs(f, p, n) ==
  [numParams |-> n, vararg |-> IF p = Len(protos) THEN 1 ELSE 0,
   maxStack |-> protos[p].maxStack + STACK_EXTRA, code |-> protos[p].code,
   constants |-> protos[p].constants, functions |-> FunctionsFrom(f, p)]

LEMMA LoadableStep ==
  ASSUME Made
  PROVE  \A p \in 1..Len(protos), n \in Nat : Loadable[<<p, n>>] = LoadedAs(Loadable, p, n)
<1> DEFINE N == Len(protos)
           D == (1..N) \X Nat
           Good(f, k) == \A p \in 1..N, n \in Nat : p <= k => f[<<p, n>>] = LoadedAs(f, p, n)
           P(g) == g = [pn \in D |-> LoadedAs(g, pn[1], pn[2])]
           Agree(f, g, p) == \A q \in 1..N, n \in Nat : q < p => f[<<q, n>>] = g[<<q, n>>]
<1>0. N \in Nat
  BY MadeFacts DEF Made, Forest, MainIsRoot
<1>1. ASSUME NEW p \in 1..N, NEW f, NEW g, Agree(f, g, p)
      PROVE  \A n : LoadedAs(f, p, n) = LoadedAs(g, p, n)
  <2>1. \A j \in 1..Len(protos[p].functions) :
          protos[p].functions[j].proto \in 1..p-1 /\ protos[p].functions[j].numParams \in Nat
    BY MadeFacts
  <2>2. \A j \in 1..Len(protos[p].functions) :
          f[<<protos[p].functions[j].proto, protos[p].functions[j].numParams>>]
            = g[<<protos[p].functions[j].proto, protos[p].functions[j].numParams>>]
    <3> TAKE j \in 1..Len(protos[p].functions)
    <3>1. protos[p].functions[j].proto \in 1..N /\ protos[p].functions[j].proto < p
          /\ protos[p].functions[j].numParams \in Nat
      BY <1>0, <2>1
    <3> QED
      BY <1>1, <3>1
  <2>3. FunctionsFrom(f, p) = FunctionsFrom(g, p)
    BY <2>2 DEF FunctionsFrom
  <2> QED
    BY <2>3, Zenon DEF LoadedAs
<1>2. \E f : Good(f, 0)
  BY <1>0
<1>3. ASSUME NEW k \in Nat, NEW f, Good(f, k) PROVE \E g : Good(g, k + 1)
  <2> DEFINE g == [pn \in D |-> LoadedAs(f, pn[1], pn[2])]
  <2>1. \A p \in 1..N, n \in Nat : g[<<p, n>>] = LoadedAs(f, p, n)
    <3> TAKE p \in 1..N, n \in Nat
    <3>1. <<p, n>> \in D /\ <<p, n>>[1] = p /\ <<p, n>>[2] = n
      OBVIOUS
    <3> HIDE DEF D
    <3>2. g[<<p, n>>] = LoadedAs(f, <<p, n>>[1], <<p, n>>[2])
      BY <3>1, Zenon
    <3> QED
      BY <3>1, <3>2
  <2> HIDE DEF g
  <2>2. \A p \in 1..N, n \in Nat : p <= k => g[<<p, n>>] = f[<<p, n>>]
    BY <1>3, <2>1, Zenon
  <2>3. ASSUME NEW p \in 1..N, NEW n \in Nat, p <= k + 1 PROVE g[<<p, n>>] = LoadedAs(g, p, n)
    <3>1. \A q \in 1..N, m \in Nat : q < p => f[<<q, m>>] = g[<<q, m>>]
      <4> TAKE q \in 1..N, m \in Nat
      <4> HAVE q < p
      <4>1. q <= k
        BY <1>0, <2>3
      <4>2. g[<<q, m>>] = f[<<q, m>>]
        BY <2>2, <4>1, Zenon
      <4> QED
        BY <4>2
    <3>2. LoadedAs(f, p, n) = LoadedAs(g, p, n)
      <4>1. Agree(f, g, p)
        BY <3>1
      <4>2. p \in 1..N
        OBVIOUS
      <4> HIDE DEF Agree, N
      <4>3. \A m : LoadedAs(f, p, m) = LoadedAs(g, p, m)
        BY <1>1, <4>1, <4>2, Zenon
      <4> QED
        BY <4>3, Zenon
    <3> QED
      BY <2>1, <3>2, Zenon
  <2> QED
    BY <2>3
<1>4. \E f : Good(f, N)
  <2> DEFINE S == {k \in Nat : ~\E f : Good(f, k)}
  <2> HIDE DEF Good
  <2>1. CASE S = {}
    BY <1>0, <2>1
  <2>2. CASE S # {}
    <3>1. PICK m \in S : \A k \in S : m <= k
      BY <2>2, LeastNat
    <3>2. m # 0
      BY <1>2, <3>1
    <3>3. m - 1 \in Nat /\ m - 1 \notin S /\ (m - 1) + 1 = m
      BY <3>1, <3>2
    <3>4. PICK f : Good(f, m - 1)
      BY <3>3
    <3>5. \E g : Good(g, (m - 1) + 1)
      BY <1>3, <3>3, <3>4
    <3> QED
      BY <3>1, <3>3, <3>5
  <2> QED
    BY <2>1, <2>2
<1>5. PICK f : Good(f, N)
  BY <1>4, Zenon
<1>6. \E h : P(h)
  <2> DEFINE h == [pn \in D |-> LoadedAs(f, pn[1], pn[2])]
  <2>1. \A p \in 1..N, n \in Nat : h[<<p, n>>] = f[<<p, n>>]
    <3> TAKE p \in 1..N, n \in Nat
    <3>1. <<p, n>> \in D /\ <<p, n>>[1] = p /\ <<p, n>>[2] = n /\ p <= N
      BY <1>0
    <3> HIDE DEF D
    <3>2. h[<<p, n>>] = LoadedAs(f, <<p, n>>[1], <<p, n>>[2])
      BY <3>1, Zenon
    <3>3. h[<<p, n>>] = LoadedAs(f, p, n)
      BY <3>1, <3>2
    <3> QED
      BY <1>5, <3>1, <3>3, Zenon
  <2>2. \A pn \in D : LoadedAs(f, pn[1], pn[2]) = LoadedAs(h, pn[1], pn[2])
    <3> HIDE DEF h
    <3> TAKE pn \in D
    <3>1. pn[1] \in 1..N
      OBVIOUS
    <3> DEFINE p == pn[1]
    <3>2. Agree(f, h, p)
      BY <2>1
    <3> HIDE DEF D, Agree, p
    <3>3. \A n : LoadedAs(f, p, n) = LoadedAs(h, p, n)
      BY <1>1, <3>1, <3>2, Zenon DEF p
    <3> QED
      BY <3>3 DEF p
  <2>3. h = [pn \in D |-> LoadedAs(h, pn[1], pn[2])]
    <3> DEFINE hh == h
               F(pn) == LoadedAs(f, pn[1], pn[2])
               G(pn) == LoadedAs(hh, pn[1], pn[2])
    <3>1. hh = [pn \in D |-> F(pn)] /\ \A pn \in D : F(pn) = G(pn)
      BY <2>2, Zenon
    <3> HIDE DEF hh, F, G, D
    <3>2. hh = [pn \in D |-> G(pn)]
      BY <3>1
    <3> QED
      BY <3>2, Zenon DEF hh, G
  <2> QED
    BY <2>3, Zenon
<1>7. Loadable = CHOOSE h : P(h)
  BY Zenon DEF Loadable, LoadedAs, FunctionsFrom
<1>8. P(Loadable)
  <2> HIDE DEF P
  <2> QED
    BY <1>6, <1>7, Zenon
<1>9. ASSUME NEW p \in 1..N, NEW n \in Nat PROVE Loadable[<<p, n>>] = LoadedAs(Loadable, p, n)
  <2>1. <<p, n>> \in D /\ <<p, n>>[1] = p /\ <<p, n>>[2] = n
    OBVIOUS
  <2> DEFINE L == Loadable
  <2>2. L = [pn \in D |-> LoadedAs(L, pn[1], pn[2])]
    BY <1>8
  <2> HIDE DEF D, L
  <2>3. L[<<p, n>>] = LoadedAs(L, <<p, n>>[1], <<p, n>>[2])
    BY <2>1, <2>2, Zenon
  <2> QED
    BY <2>1, <2>3 DEF L
<1> QED
  BY <1>9

----------------------------------------------------------------------------
(* The reader, which follows that log: how far it is in each of the         *)
(* functions it is in, and what it has of them.                             *)

First(g, c) == [j \in 1..c |-> g[j]]

LEMMA FirstFacts ==
  ASSUME NEW n \in Nat, NEW g, g = First(g, n)
  PROVE  /\ First(g, 0) = <<>>
         /\ \A c \in 0..n-1 : Append(First(g, c), g[c + 1]) = First(g, c + 1)
<1> DEFINE S == {g[j] : j \in 1..n}
<1>1. g \in [1..n -> S]
  <2>1. \A j \in 1..n : g[j] \in S
    OBVIOUS
  <2> HIDE DEF S
  <2>2. [j \in 1..n |-> g[j]] \in [1..n -> S]
    BY <2>1
  <2> QED
    BY <2>2, Zenon DEF First
<1> HIDE DEF S
<1>2. First(g, 0) = <<>>
  BY DEF First
<1>3. ASSUME NEW c \in 0..n-1 PROVE Append(First(g, c), g[c + 1]) = First(g, c + 1)
  <2>1. [j \in 1..c |-> g[j]] \in [1..c -> S]
    BY <1>1
  <2>2. First(g, c) \in Seq(S) /\ Len(First(g, c)) = c /\ \A j \in 1..c : First(g, c)[j] = g[j]
    BY <1>1, <2>1 DEF First
  <2>3. [j \in 1..c+1 |-> g[j]] \in [1..c+1 -> S]
    BY <1>1
  <2>4. /\ First(g, c + 1) \in Seq(S) /\ Len(First(g, c + 1)) = c + 1
        /\ \A j \in 1..c+1 : First(g, c + 1)[j] = g[j]
    BY <1>1, <2>3 DEF First
  <2>5. g[c + 1] \in S
    BY <1>1
  <2> DEFINE u == Append(First(g, c), g[c + 1])
             v == First(g, c + 1)
  <2>6. /\ u \in Seq(S) /\ Len(u) = c + 1
        /\ \A j \in 1..c : u[j] = g[j]
        /\ u[c + 1] = g[c + 1]
    BY <2>2, <2>5, AppendFacts
  <2> HIDE DEF u
  <2>7. v \in Seq(S) /\ Len(v) = c + 1 /\ \A j \in 1..c+1 : v[j] = g[j]
    BY <2>4
  <2> HIDE DEF v
  <2>8. \A j \in 1..c+1 : j \in 1..c \/ j = c + 1
    OBVIOUS
  <2>9. u = v
    BY <2>6, <2>7, <2>8
  <2> QED
    BY <2>9 DEF u, v
<1> QED
  BY <1>2, <1>3

LEMMA FirstAll ==
  ASSUME NEW S, NEW s \in Seq(S)
  PROVE  s = First(s, Len(s))
  BY DEF First

(* The functions the reader is in: d of them.                              *)
Levelled(s, d) == d \in Nat /\ s = [k \in 1..d |-> s[k]]

Tops(u, s, d, x) == u[d + 1] = x /\ \A k \in 1..d : u[k] = s[k]

LEMMA LevelledFacts ==
  ASSUME NEW s, NEW d, NEW x, Levelled(s, d), NEW u, u = Append(s, x)
  PROVE  /\ Len(s) = d /\ (s = <<>> <=> d = 0)
         /\ Levelled(u, d + 1) /\ Tops(u, s, d, x)
<1> DEFINE S == {s[k] : k \in 1..d} \cup {x}
<1>1. d \in Nat /\ s \in [1..d -> S]
  <2>1. \A k \in 1..d : s[k] \in S
    OBVIOUS
  <2> HIDE DEF S
  <2>2. [k \in 1..d |-> s[k]] \in [1..d -> S]
    BY <2>1
  <2> QED
    BY <2>2, Zenon DEF Levelled
<1>2. x \in S
  OBVIOUS
<1> HIDE DEF S
<1>3. s \in Seq(S) /\ Len(s) = d
  BY <1>1
<1>4. s = <<>> <=> d = 0
  BY <1>3
<1>5. /\ u \in Seq(S) /\ Len(u) = d + 1 /\ u[d + 1] = x
      /\ \A k \in 1..d : u[k] = s[k]
  BY <1>2, <1>3, AppendFacts
<1>6. Levelled(u, d + 1)
  BY <1>1, <1>5 DEF Levelled
<1> QED
  BY <1>1, <1>3, <1>4, <1>5, <1>6 DEF Tops

Puts(u, s, d, x) == u[d] = x /\ \A k \in 1..d-1 : u[k] = s[k]

LEMMA LevelledInner ==
  ASSUME NEW s, NEW d, NEW x, NEW u, Levelled(s, d), d > 0, u = [s EXCEPT ![d] = x]
  PROVE  Levelled(u, d) /\ Puts(u, s, d, x)
<1>1. d \in Nat /\ d \in 1..d /\ s = [k \in 1..d |-> s[k]]
  BY DEF Levelled
<1>2. u = [k \in 1..d |-> IF k = d THEN x ELSE s[k]]
  BY <1>1
<1>3. (\A k \in 1..d : u[k] = IF k = d THEN x ELSE s[k]) /\ u = [k \in 1..d |-> u[k]]
  BY <1>2
<1> QED
  BY <1>1, <1>3 DEF Levelled, Puts

(* u is s without its last two, and then x.                                *)
Popped(u, s, d, e, x) == d > 1 /\ e = d - 1 /\ u = Append(SubSeq(s, 1, d - 2), x)

LEMMA LevelledOuter ==
  ASSUME NEW s, NEW d, NEW x, NEW u, NEW e, Levelled(s, d), Popped(u, s, d, e, x)
  PROVE  Levelled(u, e) /\ Puts(u, s, e, x)
<1> DEFINE v == SubSeq(s, 1, d - 2)
           S == {s[k] : k \in 1..d}
           n == d - 2
<1> USE DEF Popped
<1>1. d \in Nat /\ s \in [1..d -> S]
  <2>1. \A k \in 1..d : s[k] \in S
    OBVIOUS
  <2> HIDE DEF S
  <2>2. [k \in 1..d |-> s[k]] \in [1..d -> S]
    BY <2>1
  <2> QED
    BY <2>2, Zenon DEF Levelled
<1> HIDE DEF S
<1>2. s \in Seq(S) /\ Len(s) = d /\ n \in Nat /\ n <= d
  BY <1>1
<1>3. v = [k \in 1..n |-> s[k]]
  <2> HIDE DEF n
  <2>1. SubSeq(s, 1, n) = [k \in 1..n |-> s[k]]
    BY <1>2, SubSeqProperties
  <2> QED
    BY <2>1 DEF n
<1> HIDE DEF v, n
<1>4. \A k \in 1..n : v[k] = s[k]
  BY <1>3
<1>5. Levelled(v, n)
  BY <1>2, <1>3, <1>4 DEF Levelled
<1>7. u = Append(v, x) /\ n + 1 = d - 1
  BY <1>1 DEF v, n
<1>6. Levelled(u, n + 1) /\ Tops(u, v, n, x)
  BY <1>5, <1>7, LevelledFacts, Zenon
<1> QED
  <2>1. u[n + 1] = x /\ \A k \in 1..n : u[k] = s[k]
    BY <1>4, <1>6 DEF Tops
  <2>2. e = n + 1 /\ n = e - 1
    BY <1>1, <1>7 DEF n
  <2> QED
    BY <1>6, <2>1, <2>2 DEF Puts

(* What the reader knows of a function: its head, its first c constants,   *)
(* its first c functions.                                                  *)
KnownOf(x, ks, fs) ==
  [numParams |-> x.numParams, vararg |-> x.vararg,
   maxStack |-> protos[x.p].maxStack + STACK_EXTRA, code |-> protos[x.p].code,
   constants |-> ks, functions |-> fs]
WithConstants(x, c) ==
  [stage |-> "constants", left |-> Len(protos[x.p].constants) - c,
   f |-> KnownOf(x, First(protos[x.p].constants, c), <<>>)]
Partly(x, c) ==
  [stage |-> "protos", left |-> Len(protos[x.p].functions) - c,
   f |-> KnownOf(x, protos[x.p].constants, First(FunctionsFrom(Loadable, x.p), c))]

(* Where the reader is, given the task w and the ones after it, b.         *)
AtFunction(f, w, x, b) == f = NewFunction /\ w = <<x>> \o b
AtConstants(f, w, x, b) ==
  \E c \in 0..Len(protos[x.p].constants) : \E left \in Seq(Constant) :
    /\ Rests(left, protos[x.p].constants, c)
    /\ f = WithConstants(x, c) /\ w = <<ConstantsTask(x.p, left)>> \o b
AtProtos(f, w, x, b) ==
  \E c \in 0..Len(protos[x.p].functions) : f = Partly(x, c) /\ w = Rest(x.p, c) \o b
Inner(f, w, x, b) == AtFunction(f, w, x, b) \/ AtConstants(f, w, x, b) \/ AtProtos(f, w, x, b)

(* The functions it is in: X[k] the task of the k-th, Q[k] how many of its *)
(* functions are read, B[k] the tasks after it.                            *)
Outer(l, k, X, Q, B) ==
  /\ Q[k] \in 0..Len(protos[X[k].p].functions)-1
  /\ l[k] = Partly(X[k], Q[k])
  /\ X[k + 1] = ChildTask(X[k].p, Q[k] + 1)
  /\ B[k + 1] = Rest(X[k].p, Q[k] + 1) \o B[k]
Levels(l, d, X, Q, B) ==
  /\ Levelled(l, d) /\ d > 0
  /\ X[1] = MainTask /\ B[1] = <<>>
  /\ \A k \in 1..d : X[k] \in TreeTasks /\ TaskList(B[k])
  /\ \A k \in 1..d-1 : Outer(l, k, X, Q, B)
Amid(n, W, A, o, l) ==
  \E i \in 1..n : \E d, X, Q, B :
    o = A[i] /\ Levels(l, d, X, Q, B) /\ Inner(l[d], W[i], X[d], B[d])
ReadSoFar(n, W, A, o, l) == (o = 0 /\ l = <<>>) \/ Amid(n, W, A, o, l)

LEMMA SameReading ==
  ASSUME protos' = protos, NEW n, NEW W, NEW A
  PROVE  /\ ReadSoFar(n, W, A, offset, loading)' <=> ReadSoFar(n, W, A, offset', loading')
         /\ Loadable' = Loadable
<1>1. Loadable' = Loadable
  BY SMT DEF Loadable
<1>2. \A f, p : FunctionsFrom(f, p)' = FunctionsFrom(f, p)
  BY Zenon DEF FunctionsFrom
<1>3. \A x, k, f : KnownOf(x, k, f)' = KnownOf(x, k, f)
  BY Zenon DEF KnownOf
<1>4. \A x, c : Partly(x, c)' = Partly(x, c)
  <2> TAKE x, c
  <2>1. FunctionsFrom(Loadable, x.p)' = FunctionsFrom(Loadable, x.p)
    BY <1>1, Zenon DEF FunctionsFrom
  <2> QED
    BY <1>3, <2>1, Zenon DEF Partly, KnownOf, First
<1>5. \A x, c : WithConstants(x, c)' = WithConstants(x, c)
  BY Zenon DEF WithConstants, KnownOf, First
<1>6. \A p, c : Rest(p, c)' = Rest(p, c)
  BY Zenon DEF Rest, ChildTask
<1>7. \A p, j : ChildTask(p, j)' = ChildTask(p, j)
  BY Zenon DEF ChildTask
<1>8. \A f, w, x, b : Inner(f, w, x, b)' <=> Inner(f, w, x, b)
  <2>1. \A f, w, x, b : AtFunction(f, w, x, b)' <=> AtFunction(f, w, x, b)
    BY Zenon DEF AtFunction, NewFunction
  <2>2. \A f, w, x, b : AtConstants(f, w, x, b)' <=> AtConstants(f, w, x, b)
    BY <1>5, Zenon DEF AtConstants, ConstantsTask
  <2>3. \A f, w, x, b : AtProtos(f, w, x, b)' <=> AtProtos(f, w, x, b)
    BY <1>4, <1>6, Zenon DEF AtProtos
  <2> QED
    BY <2>1, <2>2, <2>3, Zenon DEF Inner
<1>9. \A l, k, X, Q, B : Outer(l, k, X, Q, B)' <=> Outer(l, k, X, Q, B)
  <2> TAKE l, k, X, Q, B
  <2>1. Partly(X[k], Q[k])' = Partly(X[k], Q[k])
    BY <1>4, Zenon
  <2>2. Rest(X[k].p, Q[k] + 1)' = Rest(X[k].p, Q[k] + 1)
    BY <1>6, Zenon
  <2>3. ChildTask(X[k].p, Q[k] + 1)' = ChildTask(X[k].p, Q[k] + 1)
    BY <1>7, Zenon
  <2> QED
    BY <2>1, <2>2, <2>3, Zenon DEF Outer
<1>10. \A l, d, X, Q, B : Levels(l, d, X, Q, B)' <=> Levels(l, d, X, Q, B)
  <2> TAKE l, d, X, Q, B
  <2>1. \A k \in 1..d-1 : Outer(l, k, X, Q, B)' <=> Outer(l, k, X, Q, B)
    BY <1>9, Zenon
  <2>2. \A k \in 1..d : (X[k] \in TreeTasks /\ TaskList(B[k]))' <=> X[k] \in TreeTasks /\ TaskList(B[k])
    BY SameTasks, Zenon DEF TaskList
  <2>3. MainTask' = MainTask
    BY SameTasks
  <2> QED
    BY <2>1, <2>2, <2>3, Zenon DEF Levels
<1>11. Amid(n, W, A, offset, loading)' <=> Amid(n, W, A, offset', loading')
  BY <1>8, <1>10, Zenon DEF Amid
<1> QED
  BY <1>1, <1>11, Zenon DEF ReadSoFar

(* The reader is where the writer was before the i-th of its calls.        *)
Stands(n, W, A, i, d, X, Q, B) ==
  /\ LogIn(n, W, A, buffer) /\ W[n] = <<>> /\ i \in 1..n /\ offset = A[i]
  /\ Levels(loading, d, X, Q, B) /\ Inner(loading[d], W[i], X[d], B[d])

(* What the task at i has written, and where it leads.                     *)
Went(n, W, A, i, y, b, o) ==
  /\ i \in 1..n-1 /\ i + 1 \in 1..n /\ o \in Nat /\ o = A[i]
  /\ Holds(buffer, o, Output(y, o))
  /\ W[i + 1] = TasksAfter(y) \o b /\ A[i + 1] = o + Len(Output(y, o))

LEMMA TaskThere ==
  ASSUME Made, NEW n, NEW W, NEW A, NEW i, NEW y, NEW b, NEW o,
         LogIn(n, W, A, buffer), W[n] = <<>>, i \in 1..n,
         y \in Tasks, TaskList(b), W[i] = <<y>> \o b, o = A[i]
  PROVE  Went(n, W, A, i, y, b, o)
<1>1. n \in Nat /\ A[i] \in Nat
  BY DEF LogIn, LogTypes
<1>2. TaskList(<<y>>) /\ Len(<<y>>) = 1 /\ <<y>>[1] = y
  BY OneTask
<1> DEFINE v == <<y>>
<1>3. TaskList(v) /\ Len(v) = 1 /\ v[1] = y
  BY <1>2
<1> HIDE DEF v
<1>4. v \o b # <<>> /\ Head(v \o b) = v[1] /\ Tail(v \o b) = b
  BY <1>3, TaskListConcat, Zenon
<1>5. W[i] # <<>> /\ Head(W[i]) = y /\ Tail(W[i]) = b
  BY <1>3, <1>4, Zenon DEF v
<1>6. i \in 1..n-1 /\ i + 1 \in 1..n
  BY <1>1, <1>5
<1>7. Goes(W[i], A[i], W[i + 1], A[i + 1]) /\ Holds(buffer, A[i], Output(Head(W[i]), A[i]))
  BY <1>6 DEF LogIn, LogSteps, LogHeld
<1> QED
  BY <1>1, <1>5, <1>6, <1>7, Zenon DEF Goes, Went

LEMMA StandsFacts ==
  ASSUME Made, NEW n, NEW W, NEW A, NEW i, NEW d, NEW X, NEW Q, NEW B, Stands(n, W, A, i, d, X, Q, B)
  PROVE  /\ Levelled(loading, d) /\ d \in Nat /\ d > 0 /\ Len(loading) = d /\ Innermost = loading[d]
         /\ loading # <<>>
         /\ X[d] \in TreeTasks /\ X[d] \in Tasks /\ X[d].p \in 1..Len(protos) /\ TaskList(B[d])
         /\ A[i] \in Nat /\ A[i] >= 41 /\ n \in Nat
<1>1. Levelled(loading, d) /\ d > 0 /\ d \in Nat
  BY DEF Stands, Levels, Levelled
<1>2. d \in 1..d
  BY <1>1
<1>3. X[d] \in TreeTasks /\ TaskList(B[d])
  BY <1>2 DEF Stands, Levels
<1>4. X[d].p \in 1..Len(protos) /\ X[d] \in Tasks
  BY <1>3, TreeTaskFacts DEF Tasks
<1>5. Len(loading) = d /\ loading # <<>>
  <2>1. Len(loading) = d /\ (loading = <<>> <=> d = 0)
    <3> DEFINE u == Append(loading, 0)
    <3>1. u = Append(loading, 0)
      OBVIOUS
    <3> HIDE DEF u
    <3> QED
      BY <1>1, <3>1, LevelledFacts, Zenon
  <2> QED
    BY <1>1, <2>1
<1>6. A[i] \in Nat /\ A[i] >= 41 /\ n \in Nat
  BY DEF Stands, LogIn, LogTypes
<1> QED
  BY <1>1, <1>3, <1>4, <1>5, <1>6 DEF Innermost

LEMMA LevelsInner ==
  ASSUME NEW l, NEW d, NEW X, NEW Q, NEW B, Levels(l, d, X, Q, B), NEW x, NEW u, u = [l EXCEPT ![d] = x]
  PROVE  Levels(u, d, X, Q, B) /\ Puts(u, l, d, x)
<1>1. Levelled(l, d) /\ d > 0
  BY DEF Levels
<1>2. Levelled(u, d) /\ u[d] = x /\ \A k \in 1..d-1 : u[k] = l[k]
  <2>1. Levelled(u, d) /\ Puts(u, l, d, x)
    BY <1>1, LevelledInner, Zenon
  <2> QED
    BY <2>1 DEF Puts
<1>3. ASSUME NEW k \in 1..d-1 PROVE Outer(u, k, X, Q, B)
  <2>1. Outer(l, k, X, Q, B)
    BY DEF Levels
  <2> QED
    BY <1>2, <2>1 DEF Outer
<1> QED
  BY <1>1, <1>2, <1>3 DEF Levels, Puts

(* The reader goes on, at the writer's next call, in the same function.    *)
LEMMA GoesOnHere ==
  ASSUME Made, NEW n, NEW W, NEW A, NEW i, NEW d, NEW X, NEW Q, NEW B, Stands(n, W, A, i, d, X, Q, B),
         i + 1 \in 1..n, NEW f, NEW o, NEW l, l = [loading EXCEPT ![d] = f], o = A[i + 1],
         Inner(f, W[i + 1], X[d], B[d])
  PROVE  Amid(n, W, A, o, l)
<1>1. Levels(loading, d, X, Q, B)
  BY DEF Stands
<1>2. Levels(l, d, X, Q, B) /\ l[d] = f
  <2>1. Levels(l, d, X, Q, B) /\ Puts(l, loading, d, f)
    BY <1>1, LevelsInner, Zenon
  <2> QED
    BY <2>1 DEF Puts
<1> DEFINE j == i + 1
<1>3. j \in 1..n /\ o = A[j] /\ Inner(l[d], W[j], X[d], B[d])
  BY <1>2
<1> HIDE DEF j
<1> QED
  BY <1>2, <1>3, Zenon DEF Amid

LEMMA StagesDiffer ==
  ASSUME NEW f, NEW w, NEW x, NEW b, Inner(f, w, x, b)
  PROVE  /\ f.stage = "function" => AtFunction(f, w, x, b)
         /\ f.stage = "constants" => AtConstants(f, w, x, b)
         /\ f.stage = "protos" => AtProtos(f, w, x, b)
<1>1. AtFunction(f, w, x, b) => f.stage = "function"
  BY DEF AtFunction, NewFunction
<1>2. AtConstants(f, w, x, b) => f.stage = "constants"
  <2> SUFFICES ASSUME AtConstants(f, w, x, b) PROVE f.stage = "constants"
    OBVIOUS
  <2>1. PICK c \in 0..Len(protos[x.p].constants) : \E left \in Seq(Constant) : f = WithConstants(x, c)
    BY Zenon DEF AtConstants
  <2> QED
    BY <2>1 DEF WithConstants
<1>3. AtProtos(f, w, x, b) => f.stage = "protos"
  <2> SUFFICES ASSUME AtProtos(f, w, x, b) PROVE f.stage = "protos"
    OBVIOUS
  <2>1. PICK c \in 0..Len(protos[x.p].functions) : f = Partly(x, c)
    BY Zenon DEF AtProtos
  <2> QED
    BY <2>1 DEF Partly
<1> QED
  BY <1>1, <1>2, <1>3 DEF Inner

LEMMA LoadFunctionStep ==
  ASSUME Made, BufferType, NEW n, NEW W, NEW A, NEW i, NEW d, NEW X, NEW Q, NEW B,
         Stands(n, W, A, i, d, X, Q, B), LoadFunction
  PROVE  UNCHANGED <<phase, loaded, vars, buffer, writing>> /\ Amid(n, W, A, offset', loading')
<1> DEFINE x == X[d]
           b == B[d]
           p == x.p
           o == offset
           K == protos[p].constants
           code == protos[p].code
<1>1. /\ Levelled(loading, d) /\ d \in Nat /\ d > 0 /\ Len(loading) = d /\ Innermost = loading[d]
      /\ x \in TreeTasks /\ x \in Tasks /\ p \in 1..Len(protos) /\ TaskList(b)
      /\ A[i] \in Nat /\ n \in Nat
  BY StandsFacts
<1>2. AtFunction(loading[d], W[i], x, b)
  <2>1. loading[d].stage = "function"
    BY <1>1 DEF LoadFunction, Loading
  <2>2. Inner(loading[d], W[i], x, b)
    BY DEF Stands
  <2> QED
    BY <2>1, <2>2, StagesDiffer
<1>3. LogIn(n, W, A, buffer) /\ W[n] = <<>> /\ i \in 1..n /\ o = A[i] /\ o \in Nat
  BY <1>1 DEF Stands
<1>4. /\ i + 1 \in 1..n /\ Holds(buffer, o, Output(x, o))
      /\ W[i + 1] = TasksAfter(x) \o b /\ A[i + 1] = o + Len(Output(x, o))
  <2>1. W[i] = <<x>> \o b
    BY <1>2 DEF AtFunction
  <2>2. Went(n, W, A, i, x, b, o)
    BY <1>1, <1>3, <2>1, TaskThere, Zenon
  <2> QED
    BY <2>2 DEF Went
<1>5. x.t = "function"
  BY <1>1, TreeTaskFacts
<1>6. Output(x, o) = FunctionBytes(x, o) /\ TasksAfter(x) = <<ConstantsTask(p, K)>>
  BY <1>5, Zenon DEF Output, TasksAfter
<1>7. /\ code \in Seq(Instruction) /\ Len(code) \in Nat /\ K \in Seq(Constant) /\ Len(K) \in Nat
  BY <1>1, MadeFacts
<1> DEFINE start0 == CodeStart(x, o)
<1>8. /\ Holds(buffer, o, FunctionHead(x))
      /\ start0 \in Nat /\ start0 <= Len(buffer)
      /\ \A j \in 0..Len(code)-1 :
           IsPart("code", start0 + 4 * j, 4) /\ buffer[(start0 + 4 * j) + 1][2] = code[j + 1]
      /\ Gives(loadInt(start0 + 4 * Len(code)), Len(K), o + Len(FunctionBytes(x, o)))
  BY <1>1, <1>3, <1>4, <1>6, FunctionRead
<1>9. /\ Gives(loadInt(o), 0, o + 1) /\ Gives(loadInt(o + 1), 0, o + 2)
      /\ Gives(loadByte(o + 2), x.numParams, o + 3)
      /\ Gives(loadByte(o + 3), x.vararg, o + 4)
      /\ Gives(loadByte(o + 4), protos[p].maxStack + STACK_EXTRA, o + 5)
      /\ Gives(loadInt(o + 5), Len(code), o + Len(FunctionHead(x)))
  BY <1>1, <1>3, <1>8, HeadRead
<1> DEFINE r1 == loadInt(o)
           r2 == loadInt(r1.at)
           r3 == loadByte(r2.at)
           r4 == loadByte(r3.at)
           r5 == loadByte(r4.at)
           r6 == loadInt(r5.at)
           len == r6.val
           start == r6.at + Padding(r6.at, 4)
           r7 == loadInt(start + 4 * len)
           new == [stage |-> "constants", left |-> r7.val,
                   f |-> [numParams |-> r3.val, vararg |-> r4.val, maxStack |-> r5.val,
                          code |-> [j \in 1..len |-> buffer[start + 4 * j - 3][2]],
                          constants |-> <<>>, functions |-> <<>>]]
<1>10. IF /\ Ok({r1, r2, r3, r4, r5, r6}) /\ start <= Len(buffer)
          /\ \A j \in 0..len-1 : IsPart("code", start + 4 * j, 4)
          /\ r7.ok
       THEN WithInnermost(new) /\ offset' = r7.at /\ UNCHANGED <<phase, loaded>>
       ELSE Fail
  BY Zenon DEF LoadFunction
<1>11. SameWriter
  BY DEF LoadFunction
<1> HIDE DEF x, b, p, o, K, code, start0
<1>12. r1.ok /\ r1.at = o + 1
  BY <1>9 DEF Gives
<1>13. r2.ok /\ r2.at = o + 2
  BY <1>9, <1>12, Zenon DEF Gives
<1>14. r3.ok /\ r3.at = o + 3 /\ r3.val = x.numParams
  BY <1>9, <1>13, Zenon DEF Gives
<1>15. r4.ok /\ r4.at = o + 4 /\ r4.val = x.vararg
  BY <1>9, <1>14, Zenon DEF Gives
<1>16. r5.ok /\ r5.at = o + 5 /\ r5.val = protos[p].maxStack + STACK_EXTRA
  BY <1>9, <1>15, Zenon DEF Gives
<1>17. r6.ok /\ r6.at = o + Len(FunctionHead(x)) /\ r6.val = Len(code)
  BY <1>9, <1>16, Zenon DEF Gives
<1>18. start = start0 /\ len = Len(code)
  BY <1>17, Zenon DEF start0, CodeStart
<1>19. r7.ok /\ r7.at = o + Len(FunctionBytes(x, o)) /\ r7.val = Len(K)
  BY <1>8, <1>18, Zenon DEF Gives
<1>20. Ok({r1, r2, r3, r4, r5, r6})
  BY <1>12, <1>13, <1>14, <1>15, <1>16, <1>17 DEF Ok
<1>21. [j \in 1..len |-> buffer[start + 4 * j - 3][2]] = code
  <2> HIDE DEF r1, r2, r3, r4, r5, r6, len, start, r7
  <2>1. ASSUME NEW j \in 1..Len(code) PROVE buffer[start + 4 * j - 3][2] = code[j]
    <3> DEFINE k == j - 1
               q == start + 4 * j - 3
    <3>1. k \in 0..Len(code)-1 /\ k + 1 = j /\ (start0 + 4 * k) + 1 = q
      <4>1. start = start0 /\ start0 \in Nat /\ Len(code) \in Nat
        BY <1>7, <1>8, <1>18
      <4> QED
        BY ONLY <4>1, j \in 1..Len(code)
    <3> HIDE DEF k, q
    <3>2. buffer[(start0 + 4 * k) + 1][2] = code[k + 1]
      BY <1>8, <3>1
    <3>3. buffer[q][2] = code[j]
      BY <3>1, <3>2
    <3> QED
      BY <3>3 DEF q
  <2>2. code = [j \in 1..Len(code) |-> code[j]]
    BY <1>7
  <2> QED
    BY <1>18, <2>1, <2>2
<1> HIDE DEF r1, r2, r3, r4, r5, r6, len, start, r7
<1>22. WithInnermost(new) /\ offset' = r7.at /\ UNCHANGED <<phase, loaded>>
  <2> HIDE DEF new
  <2>1. \A j \in 0..len-1 : IsPart("code", start + 4 * j, 4)
    BY <1>8, <1>18
  <2>2. start <= Len(buffer)
    BY <1>8, <1>18
  <2> QED
    BY <1>10, <1>19, <1>20, <2>1, <2>2, Zenon
<1>23. new = WithConstants(x, 0)
  <2>1. First(K, 0) = <<>>
    BY DEF First
  <2>2. Len(K) - 0 = Len(K)
    BY <1>7
  <2> QED
    BY <1>14, <1>15, <1>16, <1>19, <1>21, <2>1, <2>2, Zenon DEF WithConstants, KnownOf, K, code, p
<1> HIDE DEF new
<1>24. loading' = [loading EXCEPT ![d] = new]
  BY <1>1, <1>22 DEF WithInnermost
<1>25. AtConstants(new, W[i + 1], x, b)
  <2>1. 0 \in 0..Len(K) /\ Rests(K, K, 0)
    BY <1>7, RestsFacts
  <2>2. W[i + 1] = <<ConstantsTask(p, K)>> \o b
    BY <1>4, <1>6
  <2> QED
    BY <1>7, <1>23, <2>1, <2>2, Zenon DEF AtConstants, K, p
<1>26. Inner(new, W[i + 1], x, b)
  BY <1>25 DEF Inner
<1>27. offset' = A[i + 1]
  BY <1>4, <1>6, <1>19, <1>22
<1>28. Amid(n, W, A, offset', loading')
  BY <1>4, <1>24, <1>26, <1>27, GoesOnHere, Zenon DEF x, b
<1> QED
  BY <1>11, <1>22, <1>28 DEF SameWriter

WithConstant(f, k) == [f EXCEPT !.left = @ - 1, !.f.constants = Append(@, k)]
Accepts(k, at) ==
  WithInnermost(WithConstant(Innermost, k)) /\ offset' = at /\ UNCHANGED <<phase, loaded>>

LEMMA ConstantAccepted ==
  ASSUME BufferType, offset \in Nat, NEW k \in Constant, Holds(buffer, offset, ConstantBytes(k)),
         LoadConstant
  PROVE  Accepts(k, offset + Len(ConstantBytes(k)))
<1> DEFINE o == offset
           tag == loadByte(o)
           num == loadInt(o + 1)
           isInt == tag.ok /\ tag.val = 3 /\ num.ok
           isFlt == tag.ok /\ tag.val = 19 /\ IsPart("flt", o + 1, 8)
           isStr == /\ tag.ok /\ tag.val = 4 /\ num.ok
                    /\ num.val > 1 /\ IsPart("chr", num.at, num.val - 1)
                    /\ IsZero(num.at + num.val - 1, 1)
           x == buffer[o + 2][2]
           l == Len(ConstantBytes(k))
<1>1. \/ isInt /\ Accepts(intConstant(decoded(num.val)), num.at)
      \/ isFlt /\ Accepts(fltConstant(x[1], x[2]), o + 9)
      \/ isStr /\ Accepts(strConstant(buffer[num.at + 1][2]), num.at + num.val)
      \/ ~(isInt \/ isFlt \/ isStr)
  BY Zenon DEF LoadConstant, Accepts, WithConstant
<1>2. \/ k.kind = "int" \/ k.kind = "flt" \/ k.kind = "str"
  BY ConstantKinds
<1>3. CASE k.kind = "int"
  <2>1. Gives(tag, 3, o + 1) /\ Gives(num, coded(k.int), o + l) /\ k = intConstant(decoded(coded(k.int)))
    BY <1>3, IntConstantRead
  <2> HIDE DEF o, tag, num, x, l
  <2>2. tag.ok /\ tag.val = 3 /\ num.ok /\ num.val = coded(k.int) /\ num.at = o + l
    BY <2>1, Zenon DEF Gives
  <2>3. isInt /\ ~isFlt /\ ~isStr
    BY <2>2
  <2> HIDE DEF isInt, isFlt, isStr
  <2>4. Accepts(intConstant(decoded(num.val)), num.at)
    BY <1>1, <2>3
  <2>5. Accepts(k, o + l)
    BY <2>1, <2>2, <2>4
  <2> QED
    BY <2>5 DEF o, l
<1>4. CASE k.kind = "flt"
  <2>1. Gives(tag, 19, o + 1) /\ IsPart("flt", o + 1, 8) /\ o + l = o + 9
        /\ k = fltConstant(x[1], x[2])
    BY <1>4, FloatConstantRead
  <2> HIDE DEF o, tag, num, x, l
  <2>2. tag.ok /\ tag.val = 19
    BY <2>1, Zenon DEF Gives
  <2>3. ~isInt /\ isFlt /\ ~isStr
    BY <2>1, <2>2
  <2> HIDE DEF isInt, isFlt, isStr
  <2>4. Accepts(fltConstant(x[1], x[2]), o + 9)
    BY <1>1, <2>3
  <2>5. Accepts(k, o + l)
    BY <2>1, <2>4
  <2> QED
    BY <2>5 DEF o, l
<1>5. CASE k.kind = "str"
  <2>1. PICK q \in Nat, n \in Nat \ {0} :
          /\ Gives(tag, 4, o + 1) /\ Gives(num, n + 1, q)
          /\ IsPart("chr", q, n) /\ IsZero(q + n, 1) /\ o + l = q + (n + 1)
          /\ k = strConstant(buffer[q + 1][2])
    BY <1>5, StringConstantRead
  <2> HIDE DEF o, tag, num, x, l
  <2>2. tag.ok /\ tag.val = 4 /\ num.ok /\ num.val = n + 1 /\ num.at = q
    BY <2>1, Zenon DEF Gives
  <2>3. num.val > 1 /\ num.val - 1 = n /\ num.at + num.val - 1 = q + n /\ num.at + num.val = q + (n + 1)
    BY <2>2
  <2>4. ~isInt /\ ~isFlt /\ isStr
    <3>1. ~isInt /\ ~isFlt
      BY <2>2
    <3>2. isStr
      BY <2>1, <2>2, <2>3, Zenon
    <3> QED
      BY <3>1, <3>2
  <2> HIDE DEF isInt, isFlt, isStr
  <2>5. Accepts(strConstant(buffer[num.at + 1][2]), num.at + num.val)
    BY <1>1, <2>4
  <2>6. Accepts(k, o + l)
    BY <2>1, <2>2, <2>3, <2>5
  <2> QED
    BY <2>6 DEF o, l
<1> QED
  BY <1>2, <1>3, <1>4, <1>5

LEMMA OneConstantMore ==
  ASSUME NEW s, NEW d, NEW a1, NEW a2, NEW a3, NEW a4, NEW g, NEW fs, NEW k
  PROVE  WithConstant([stage |-> s, left |-> d,
                       f |-> [numParams |-> a1, vararg |-> a2, maxStack |-> a3, code |-> a4,
                              constants |-> g, functions |-> fs]], k)
           = [stage |-> s, left |-> d - 1,
              f |-> [numParams |-> a1, vararg |-> a2, maxStack |-> a3, code |-> a4,
                     constants |-> Append(g, k), functions |-> fs]]
<1> DEFINE r == [numParams |-> a1, vararg |-> a2, maxStack |-> a3, code |-> a4,
                 constants |-> g, functions |-> fs]
           f == [stage |-> s, left |-> d, f |-> r]
<1>1. [r EXCEPT !.constants = Append(g, k)]
        = [numParams |-> a1, vararg |-> a2, maxStack |-> a3, code |-> a4,
           constants |-> Append(g, k), functions |-> fs]
  OBVIOUS
<1>2. ASSUME NEW v, NEW w
      PROVE  [f EXCEPT !.left = v, !.f.constants = w]
               = [stage |-> s, left |-> v, f |-> [r EXCEPT !.constants = w]]
  <2> HIDE DEF r
  <2>1. [f EXCEPT !.left = v] = [stage |-> s, left |-> v, f |-> r]
    OBVIOUS
  <2>2. [[stage |-> s, left |-> v, f |-> r] EXCEPT !.f.constants = w]
          = [stage |-> s, left |-> v, f |-> [r EXCEPT !.constants = w]]
    OBVIOUS
  <2>3. [f EXCEPT !.left = v, !.f.constants = w] = [[f EXCEPT !.left = v] EXCEPT !.f.constants = w]
    OBVIOUS
  <2> QED
    BY <2>1, <2>2, <2>3, Zenon
<1>3. f.left = d /\ f.f = r /\ f.f.constants = g
  OBVIOUS
<1>4. WithConstant(f, k) = [stage |-> s, left |-> d - 1, f |-> [r EXCEPT !.constants = Append(g, k)]]
  <2> HIDE DEF f, r
  <2>1. WithConstant(f, k) = [f EXCEPT !.left = f.left - 1, !.f.constants = Append(f.f.constants, k)]
    BY Zenon DEF WithConstant
  <2>2. WithConstant(f, k) = [f EXCEPT !.left = d - 1, !.f.constants = Append(g, k)]
    BY <1>3, <2>1
  <2>3. [f EXCEPT !.left = d - 1, !.f.constants = Append(g, k)]
          = [stage |-> s, left |-> d - 1, f |-> [r EXCEPT !.constants = Append(g, k)]]
    BY <1>2
  <2> QED
    BY <2>2, <2>3, Zenon
<1> QED
  BY <1>1, <1>4, Zenon

LEMMA ConstantKnown ==
  ASSUME Made, NEW x, x.p \in 1..Len(protos), NEW c \in 0..Len(protos[x.p].constants)-1
  PROVE  WithConstant(WithConstants(x, c), protos[x.p].constants[c + 1]) = WithConstants(x, c + 1)
<1> DEFINE K == protos[x.p].constants
           k == K[c + 1]
           m == Len(K)
           g == First(K, c)
           h == First(K, c + 1)
<1>1. K \in Seq(Constant) /\ m \in Nat /\ c \in 0..m-1
  BY MadeFacts
<1>2. Append(g, k) = h
  <2>1. K = First(K, m)
    BY <1>1, FirstAll
  <2> HIDE DEF m
  <2>2. Append(First(K, c), K[c + 1]) = First(K, c + 1)
    BY <1>1, <2>1, FirstFacts
  <2> QED
    BY <2>2
<1>3. (m - c) - 1 = m - (c + 1)
  BY <1>1
<1> DEFINE d == m - c
           e == m - (c + 1)
<1>4. d - 1 = e
  BY <1>3
<1>5. WithConstants(x, c) = [stage |-> "constants", left |-> d, f |-> KnownOf(x, g, <<>>)]
  BY Zenon DEF WithConstants
<1>6. WithConstants(x, c + 1) = [stage |-> "constants", left |-> e, f |-> KnownOf(x, h, <<>>)]
  BY Zenon DEF WithConstants
<1> HIDE DEF K, k, m, g, h, d, e
<1>7. WithConstant([stage |-> "constants", left |-> d, f |-> KnownOf(x, g, <<>>)], k)
        = [stage |-> "constants", left |-> e, f |-> KnownOf(x, h, <<>>)]
  <2> DEFINE q == protos[x.p].maxStack + STACK_EXTRA
  <2>1. KnownOf(x, g, <<>>)
          = [numParams |-> x.numParams, vararg |-> x.vararg, maxStack |-> q, code |-> protos[x.p].code,
             constants |-> g, functions |-> <<>>]
    BY Zenon DEF KnownOf
  <2>2. KnownOf(x, h, <<>>)
          = [numParams |-> x.numParams, vararg |-> x.vararg, maxStack |-> q, code |-> protos[x.p].code,
             constants |-> Append(g, k), functions |-> <<>>]
    BY <1>2, Zenon DEF KnownOf
  <2> HIDE DEF q
  <2>3. d - 1 = e
    BY <1>4, Zenon
  <2>4. WithConstant([stage |-> "constants", left |-> d, f |-> KnownOf(x, g, <<>>)], k)
          = [stage |-> "constants", left |-> d - 1, f |-> KnownOf(x, h, <<>>)]
    <3>1. WithConstant([stage |-> "constants", left |-> d,
                        f |-> [numParams |-> x.numParams, vararg |-> x.vararg, maxStack |-> q,
                               code |-> protos[x.p].code, constants |-> g, functions |-> <<>>]], k)
            = [stage |-> "constants", left |-> d - 1,
               f |-> [numParams |-> x.numParams, vararg |-> x.vararg, maxStack |-> q,
                      code |-> protos[x.p].code, constants |-> Append(g, k), functions |-> <<>>]]
      BY OneConstantMore
    <3> QED
      BY <2>1, <2>2, <3>1, Zenon
  <2> QED
    BY <2>3, <2>4, Zenon
<1> QED
  BY <1>5, <1>6, <1>7 DEF k, K

LEMMA LoadConstantStep ==
  ASSUME Made, BufferType, NEW n, NEW W, NEW A, NEW i, NEW d, NEW X, NEW Q, NEW B,
         Stands(n, W, A, i, d, X, Q, B), LoadConstant
  PROVE  UNCHANGED <<phase, loaded, vars, buffer, writing>> /\ Amid(n, W, A, offset', loading')
<1> DEFINE x == X[d]
           b == B[d]
           p == x.p
           o == offset
           K == protos[p].constants
<1>1. /\ Levelled(loading, d) /\ d \in Nat /\ d > 0 /\ Len(loading) = d /\ Innermost = loading[d]
      /\ p \in 1..Len(protos) /\ TaskList(b) /\ A[i] \in Nat /\ n \in Nat
  BY StandsFacts
<1>2. AtConstants(loading[d], W[i], x, b)
  <2>1. loading[d].stage = "constants"
    BY <1>1 DEF LoadConstant, Loading
  <2>2. Inner(loading[d], W[i], x, b)
    BY DEF Stands
  <2> QED
    BY <2>1, <2>2, StagesDiffer
<1>3. LogIn(n, W, A, buffer) /\ W[n] = <<>> /\ i \in 1..n /\ o = A[i] /\ o \in Nat
  BY <1>1 DEF Stands
<1>4. K \in Seq(Constant) /\ Len(K) \in Nat
  BY <1>1, MadeFacts
<1>5. PICK c \in 0..Len(K), left \in Seq(Constant) :
        /\ Rests(left, K, c)
        /\ loading[d] = WithConstants(x, c) /\ W[i] = <<ConstantsTask(p, left)>> \o b
  BY <1>2 DEF AtConstants
<1>6. Len(K) - c > 0
  <2>1. loading[d].left > 0
    BY <1>1 DEF LoadConstant
  <2>2. loading[d].left = Len(K) - c
    BY <1>5 DEF WithConstants
  <2> QED
    BY <2>1, <2>2
<1>7. left # <<>>
  <2>1. Len(left) = Len(K) - c
    BY <1>5 DEF Rests
  <2> QED
    BY <1>4, <1>6, <2>1
<1> DEFINE k == K[c + 1]
           y == ConstantsTask(p, left)
<1>8. /\ c + 1 \in 1..Len(K) /\ Head(left) = k /\ Tail(left) \in Seq(Constant)
      /\ Rests(Tail(left), K, c + 1) /\ k \in Constant
  <2>1. /\ c + 1 \in 1..Len(K) /\ Head(left) = k /\ Tail(left) \in Seq(Constant)
        /\ Rests(Tail(left), K, c + 1)
    BY <1>4, <1>5, <1>7, RestsFacts
  <2> QED
    BY <1>4, <2>1
<1>9. y \in Tasks /\ y.t = "constants" /\ y.p = p /\ y.left = left
  <2>1. y \in ConstantTasks
    BY <1>1, <1>5, ConstantsTaskIn
  <2> QED
    BY <2>1 DEF ConstantsTask, Tasks
<1> HIDE DEF y
<1>10. Output(y, o) = ConstantBytes(k) /\ TasksAfter(y) = <<ConstantsTask(p, Tail(left))>>
  <2>1. y.t # "function" /\ y.t # "end"
    BY <1>9
  <2> QED
    BY <1>7, <1>8, <1>9, <2>1, Zenon DEF Output, TasksAfter
<1>11. /\ i + 1 \in 1..n /\ Holds(buffer, o, Output(y, o))
       /\ W[i + 1] = TasksAfter(y) \o b /\ A[i + 1] = o + Len(Output(y, o))
  <2>1. W[i] = <<y>> \o b
    BY <1>5 DEF y
  <2>2. Went(n, W, A, i, y, b, o)
    BY <1>1, <1>3, <1>9, <2>1, TaskThere, Zenon
  <2> QED
    BY <2>2 DEF Went
<1>12. Accepts(k, o + Len(ConstantBytes(k)))
  <2> HIDE DEF k
  <2>1. Holds(buffer, offset, ConstantBytes(k))
    BY <1>10, <1>11
  <2> QED
    BY <1>3, <1>8, <2>1, ConstantAccepted
<1>13. WithConstant(loading[d], k) = WithConstants(x, c + 1)
  <2>1. c \in 0..Len(K)-1
    BY <1>4, <1>8
  <2> QED
    BY <1>1, <1>5, <2>1, ConstantKnown
<1> DEFINE new == WithConstants(x, c + 1)
<1>14. loading' = [loading EXCEPT ![d] = new] /\ offset' = A[i + 1] /\ UNCHANGED <<phase, loaded>>
  <2> HIDE DEF k, new
  <2>1. WithInnermost(new)
    BY <1>1, <1>12, <1>13 DEF Accepts, new
  <2> QED
    BY <1>1, <1>10, <1>11, <1>12, <2>1 DEF Accepts, WithInnermost
<1>15. Inner(new, W[i + 1], x, b)
  <2>1. c + 1 \in 0..Len(K)
    BY <1>8
  <2>2. W[i + 1] = <<ConstantsTask(p, Tail(left))>> \o b
    BY <1>10, <1>11
  <2>3. AtConstants(new, W[i + 1], x, b)
    BY <1>8, <2>1, <2>2, Zenon DEF AtConstants
  <2> QED
    BY <2>3 DEF Inner
<1> HIDE DEF new
<1>16. Amid(n, W, A, offset', loading')
  BY <1>11, <1>14, <1>15, GoesOnHere, Zenon DEF x, b
<1>17. SameWriter
  BY DEF LoadConstant
<1> QED
  BY <1>14, <1>16, <1>17 DEF SameWriter

WithProtos(f, e) == [f EXCEPT !.stage = "protos", !.left = e]

LEMMA ProtosNext ==
  ASSUME NEW s, NEW d, NEW f, NEW e, NEW g, g = [stage |-> s, left |-> d, f |-> f]
  PROVE  WithProtos(g, e) = [stage |-> "protos", left |-> e, f |-> f]
<1>1. [g EXCEPT !.stage = "protos"] = [stage |-> "protos", left |-> d, f |-> f]
  OBVIOUS
<1>2. [[stage |-> "protos", left |-> d, f |-> f] EXCEPT !.left = e] = [stage |-> "protos", left |-> e, f |-> f]
  OBVIOUS
<1>3. [g EXCEPT !.stage = "protos", !.left = e] = [[g EXCEPT !.stage = "protos"] EXCEPT !.left = e]
  OBVIOUS
<1> QED
  BY <1>1, <1>2, <1>3, Zenon DEF WithProtos

LEMMA LoadUpvaluesStep ==
  ASSUME Made, BufferType, NEW n, NEW W, NEW A, NEW i, NEW d, NEW X, NEW Q, NEW B,
         Stands(n, W, A, i, d, X, Q, B), LoadUpvalues
  PROVE  UNCHANGED <<phase, loaded, vars, buffer, writing>> /\ Amid(n, W, A, offset', loading')
<1> DEFINE x == X[d]
           b == B[d]
           p == x.p
           o == offset
           K == protos[p].constants
           fs == protos[p].functions
<1>1. /\ Levelled(loading, d) /\ d \in Nat /\ d > 0 /\ Len(loading) = d /\ Innermost = loading[d]
      /\ p \in 1..Len(protos) /\ TaskList(b) /\ A[i] \in Nat /\ n \in Nat
  BY StandsFacts
<1>2. AtConstants(loading[d], W[i], x, b)
  <2>1. loading[d].stage = "constants"
    BY <1>1 DEF LoadUpvalues, Loading
  <2>2. Inner(loading[d], W[i], x, b)
    BY DEF Stands
  <2> QED
    BY <2>1, <2>2, StagesDiffer
<1>3. LogIn(n, W, A, buffer) /\ W[n] = <<>> /\ i \in 1..n /\ o = A[i] /\ o \in Nat
  BY <1>1 DEF Stands
<1>4. K \in Seq(Constant) /\ Len(K) \in Nat /\ Len(fs) \in Nat
  BY <1>1, MadeFacts
<1>5. PICK c \in 0..Len(K), left \in Seq(Constant) :
        /\ Rests(left, K, c)
        /\ loading[d] = WithConstants(x, c) /\ W[i] = <<ConstantsTask(p, left)>> \o b
  BY <1>2 DEF AtConstants
<1>6. c = Len(K)
  <2>1. loading[d].left = 0
    BY <1>1 DEF LoadUpvalues
  <2>2. loading[d].left = Len(K) - c
    BY <1>5 DEF WithConstants
  <2> QED
    BY <1>4, <2>1, <2>2
<1>7. left = <<>>
  <2>1. Len(left) = Len(K) - c
    BY <1>5 DEF Rests
  <2> QED
    BY <1>4, <1>6, <2>1
<1> DEFINE y == ConstantsTask(p, left)
<1>8. y \in Tasks /\ y.t = "constants" /\ y.p = p /\ y.left = left
  <2>1. y \in ConstantTasks
    BY <1>1, <1>5, ConstantsTaskIn
  <2> QED
    BY <2>1 DEF ConstantsTask, Tasks
<1> HIDE DEF y
<1>9. Output(y, o) = UpvalueBytes(p) /\ TasksAfter(y) = Append(FunctionTasks(p), EndTask(p))
  <2>1. y.t # "function" /\ y.t # "end"
    BY <1>8
  <2> QED
    BY <1>7, <1>8, <2>1, Zenon DEF Output, TasksAfter
<1>10. Append(FunctionTasks(p), EndTask(p)) = Rest(p, 0)
  BY <1>1, RestSteps
<1>11. /\ i + 1 \in 1..n /\ Holds(buffer, o, Output(y, o))
       /\ W[i + 1] = TasksAfter(y) \o b /\ A[i + 1] = o + Len(Output(y, o))
  <2>1. W[i] = <<y>> \o b
    BY <1>5 DEF y
  <2>2. Went(n, W, A, i, y, b, o)
    BY <1>1, <1>3, <1>8, <2>1, TaskThere, Zenon
  <2> QED
    BY <2>2 DEF Went
<1> DEFINE r1 == loadInt(o)
           r2 == loadByte(r1.at)
           r3 == loadByte(r2.at)
           r4 == loadByte(r3.at)
           r5 == loadInt(r4.at)
<1>12. PICK u \in Nat :
         /\ Gives(loadInt(o), 1, o + 1) /\ Gives(loadByte(o + 1), u, o + 2)
         /\ Gives(loadByte(o + 2), 0, o + 3) /\ Gives(loadByte(o + 3), 0, o + 4)
         /\ Gives(loadInt(o + 4), Len(fs), o + Len(UpvalueBytes(p)))
  <2>1. Holds(buffer, o, UpvalueBytes(p))
    BY <1>9, <1>11
  <2> QED
    BY <1>1, <1>3, <2>1, UpvaluesRead, Zenon
<1>13. IF Ok({r1, r2, r3, r4, r5}) /\ r1.val = 1
       THEN /\ WithInnermost([Innermost EXCEPT !.stage = "protos", !.left = r5.val])
            /\ offset' = r5.at /\ UNCHANGED <<phase, loaded>>
       ELSE Fail
  BY Zenon DEF LoadUpvalues
<1>14. SameWriter
  BY DEF LoadUpvalues
<1> HIDE DEF x, b, p, o, K, fs
<1>15. r1.ok /\ r1.at = o + 1 /\ r1.val = 1
  BY <1>12, Zenon DEF Gives
<1>16. r2.ok /\ r2.at = o + 2
  BY <1>12, <1>15, Zenon DEF Gives
<1>17. r3.ok /\ r3.at = o + 3
  BY <1>12, <1>16, Zenon DEF Gives
<1>18. r4.ok /\ r4.at = o + 4
  BY <1>12, <1>17, Zenon DEF Gives
<1>19. r5.ok /\ r5.at = o + Len(UpvalueBytes(p)) /\ r5.val = Len(fs)
  BY <1>12, <1>18, Zenon DEF Gives
<1>20. Ok({r1, r2, r3, r4, r5})
  BY <1>15, <1>16, <1>17, <1>18, <1>19 DEF Ok
<1> HIDE DEF r1, r2, r3, r4, r5
<1>21. /\ WithInnermost(WithProtos(loading[d], Len(fs)))
       /\ offset' = A[i + 1] /\ UNCHANGED <<phase, loaded>>
  BY <1>1, <1>9, <1>11, <1>13, <1>15, <1>19, <1>20 DEF WithProtos
<1> DEFINE new == Partly(x, 0)
<1>22. WithProtos(loading[d], Len(fs)) = new
  <2> DEFINE f == KnownOf(x, K, <<>>)
  <2>1. First(K, Len(K)) = K
    BY <1>4, FirstAll
  <2>2. loading[d] = [stage |-> "constants", left |-> Len(K) - c, f |-> f]
    BY <1>5, <1>6, <2>1, Zenon DEF WithConstants, K, p
  <2>3. First(FunctionsFrom(Loadable, x.p), 0) = <<>>
    BY DEF First
  <2>4. Len(fs) - 0 = Len(fs)
    BY <1>4
  <2>5. new = [stage |-> "protos", left |-> Len(fs), f |-> f]
    BY <2>3, <2>4, Zenon DEF Partly, fs, K, p
  <2> HIDE DEF f, new
  <2>6. WithProtos(loading[d], Len(fs)) = [stage |-> "protos", left |-> Len(fs), f |-> f]
    BY <2>2, ProtosNext
  <2> QED
    BY <2>5, <2>6, Zenon
<1> HIDE DEF new
<1>23. loading' = [loading EXCEPT ![d] = new]
  BY <1>1, <1>21, <1>22 DEF WithInnermost
<1>24. Inner(new, W[i + 1], x, b)
  <2>1. 0 \in 0..Len(fs)
    BY <1>4
  <2>2. W[i + 1] = Rest(p, 0) \o b
    BY <1>9, <1>10, <1>11
  <2>3. AtProtos(new, W[i + 1], x, b)
    BY <2>1, <2>2, Zenon DEF AtProtos, fs, p, new
  <2> QED
    BY <2>3 DEF Inner
<1>25. Amid(n, W, A, offset', loading')
  BY <1>11, <1>21, <1>23, <1>24, GoesOnHere, Zenon DEF x, b
<1> QED
  BY <1>14, <1>21, <1>25 DEF SameWriter

LEMMA TaskListAssociates ==
  ASSUME NEW u, NEW v, NEW w, TaskList(u), TaskList(v), TaskList(w)
  PROVE  (u \o v) \o w = u \o (v \o w)
  BY DEF TaskList

(* The levels of u end in f, which is called for y with b to follow.       *)
Deepest(u, e, f, y, b) ==
  \E Y, R, C : Levels(u, e, Y, R, C) /\ u[e] = f /\ Y[e] = y /\ C[e] = b

LEMMA LevelsAppend ==
  ASSUME Made, NEW l, NEW d, NEW X, NEW Q, NEW B, Levels(l, d, X, Q, B),
         NEW c \in 0..Len(protos[X[d].p].functions)-1, l[d] = Partly(X[d], c),
         NEW f, NEW u, u = Append(l, f)
  PROVE  Deepest(u, d + 1, f, ChildTask(X[d].p, c + 1), Rest(X[d].p, c + 1) \o B[d])
<1> DEFINE p == X[d].p
           y == ChildTask(p, c + 1)
           r == Rest(p, c + 1) \o B[d]
           Y == [k \in 1..d+1 |-> IF k = d + 1 THEN y ELSE X[k]]
           R == [k \in 1..d+1 |-> IF k = d THEN c ELSE Q[k]]
           C == [k \in 1..d+1 |-> IF k = d + 1 THEN r ELSE B[k]]
<1>1. /\ Levelled(l, d) /\ d \in Nat /\ d > 0 /\ X[1] = MainTask /\ B[1] = <<>>
      /\ \A k \in 1..d : X[k] \in TreeTasks /\ TaskList(B[k])
      /\ \A k \in 1..d-1 : Outer(l, k, X, Q, B)
  BY DEF Levels, Levelled
<1>2. p \in 1..Len(protos)
  BY <1>1, TreeTaskFacts
<1>3. Len(protos[p].functions) \in Nat
  BY <1>2, MadeFacts
<1>4. y \in TreeTasks
  <2>1. c + 1 \in 1..Len(protos[p].functions)
    BY <1>3
  <2> QED
    BY <1>2, <2>1, TreeTaskFacts
<1>5. TaskList(r)
  <2>1. c + 1 \in 0..Len(protos[p].functions)
    BY <1>3
  <2>2. TaskList(Rest(p, c + 1))
    BY <1>2, <2>1, RestFacts
  <2>3. TaskList(B[d])
    BY <1>1
  <2> QED
    BY <2>2, <2>3, TaskListConcat
<1> HIDE DEF p, y, r
<1>6. /\ \A k \in 1..d : Y[k] = X[k] /\ C[k] = B[k]
      /\ \A k \in 1..d-1 : R[k] = Q[k]
      /\ Y[d + 1] = y /\ C[d + 1] = r /\ R[d] = c
  BY <1>1
<1> HIDE DEF Y, R, C
<1>7. /\ Levelled(u, d + 1) /\ u[d + 1] = f /\ \A k \in 1..d : u[k] = l[k]
  <2>1. Levelled(u, d + 1) /\ Tops(u, l, d, f)
    BY <1>1, LevelledFacts, Zenon
  <2> QED
    BY <2>1 DEF Tops
<1>8. ASSUME NEW k \in 1..d PROVE Outer(u, k, Y, R, C)
  <2>1. CASE k = d
    <3>1. R[k] \in 0..Len(protos[Y[k].p].functions)-1
      BY <1>1, <1>6, <2>1 DEF p
    <3>2. u[k] = Partly(Y[k], R[k])
      BY <1>1, <1>6, <1>7, <2>1
    <3>3. Y[k + 1] = ChildTask(Y[k].p, R[k] + 1)
      BY <1>1, <1>6, <2>1 DEF y, p
    <3>4. C[k + 1] = Rest(Y[k].p, R[k] + 1) \o C[k]
      BY <1>1, <1>6, <2>1 DEF r, p
    <3> QED
      BY <3>1, <3>2, <3>3, <3>4, Zenon DEF Outer
  <2>2. CASE k # d
    <3>1. k \in 1..d-1 /\ k + 1 \in 1..d
      BY <1>1, <2>2
    <3>2. Outer(l, k, X, Q, B)
      BY <1>1, <3>1
    <3>3. u[k] = l[k] /\ Y[k] = X[k] /\ Y[k + 1] = X[k + 1] /\ R[k] = Q[k] /\ C[k] = B[k] /\ C[k + 1] = B[k + 1]
      BY <1>6, <1>7, <3>1
    <3> QED
      BY <3>2, <3>3, Zenon DEF Outer
  <2> QED
    BY <2>1, <2>2
<1>9. Levels(u, d + 1, Y, R, C)
  <2>1. Y[1] = MainTask /\ C[1] = <<>>
    BY <1>1, <1>6
  <2>2. ASSUME NEW k \in 1..d+1 PROVE Y[k] \in TreeTasks /\ TaskList(C[k])
    BY <1>1, <1>4, <1>5, <1>6
  <2>3. d + 1 > 0 /\ (d + 1) - 1 = d
    BY <1>1
  <2>4. \A k \in 1..(d + 1)-1 : Outer(u, k, Y, R, C)
    BY <1>8, <2>3
  <2> QED
    BY <1>7, <2>1, <2>2, <2>3, <2>4, Zenon DEF Levels
<1> QED
  <2>1. /\ u[d + 1] = f /\ Y[d + 1] = ChildTask(X[d].p, c + 1)
        /\ C[d + 1] = Rest(X[d].p, c + 1) \o B[d]
    BY <1>6, <1>7 DEF y, r, p
  <2> QED
    BY <1>9, <2>1, Zenon DEF Deepest

LEMMA LoadProtoStep ==
  ASSUME Made, BufferType, NEW n, NEW W, NEW A, NEW i, NEW d, NEW X, NEW Q, NEW B,
         Stands(n, W, A, i, d, X, Q, B), LoadProto
  PROVE  UNCHANGED <<phase, loaded, vars, buffer, writing>> /\ Amid(n, W, A, offset', loading')
<1> DEFINE x == X[d]
           b == B[d]
           p == x.p
           m == Len(protos[p].functions)
<1>1. /\ Levelled(loading, d) /\ d \in Nat /\ d > 0 /\ Len(loading) = d /\ Innermost = loading[d]
      /\ p \in 1..Len(protos) /\ TaskList(b) /\ A[i] \in Nat /\ n \in Nat
  BY StandsFacts
<1>2. AtProtos(loading[d], W[i], x, b)
  <2>1. loading[d].stage = "protos"
    BY <1>1 DEF LoadProto, Loading
  <2>2. Inner(loading[d], W[i], x, b)
    BY DEF Stands
  <2> QED
    BY <2>1, <2>2, StagesDiffer
<1>3. m \in Nat
  BY <1>1, MadeFacts
<1>4. PICK c \in 0..m : loading[d] = Partly(x, c) /\ W[i] = Rest(p, c) \o b
  BY <1>2 DEF AtProtos
<1>5. c \in 0..m-1
  <2>1. loading[d].left > 0
    BY <1>1 DEF LoadProto
  <2>2. loading[d].left = m - c
    BY <1>4 DEF Partly
  <2> QED
    BY <1>3, <2>1, <2>2
<1> DEFINE y == ChildTask(p, c + 1)
           r == Rest(p, c + 1)
<1>6. Rest(p, c) = <<y>> \o r /\ y \in TreeTasks /\ TaskList(r)
  <2>1. c + 1 \in 1..m /\ c + 1 \in 0..m
    BY <1>3, <1>5
  <2> QED
    BY <1>1, <1>5, <2>1, RestSteps, RestFacts, TreeTaskFacts
<1>7. W[i] = <<y>> \o (r \o b)
  <2> DEFINE s == <<y>>
  <2>1. TaskList(s)
    BY <1>6, OneTask DEF Tasks
  <2> HIDE DEF y, r, b, s
  <2>2. (s \o r) \o b = s \o (r \o b)
    <3>1. TaskList(s) /\ TaskList(r) /\ TaskList(b)
      BY <1>1, <1>6, <2>1
    <3> QED
      BY <3>1 DEF TaskList
  <2> QED
    BY <1>4, <1>6, <2>2 DEF s
<1>8. loading' = Append(loading, NewFunction) /\ UNCHANGED <<phase, offset, loaded>> /\ SameWriter
  BY DEF LoadProto
<1>9. Levels(loading, d, X, Q, B) /\ i \in 1..n /\ offset = A[i]
  BY DEF Stands
<1>10. PICK Y, R, C :
         /\ Levels(loading', d + 1, Y, R, C) /\ loading'[d + 1] = NewFunction
         /\ Y[d + 1] = y /\ C[d + 1] = r \o b
  <2>1. Deepest(loading', d + 1, NewFunction, y, r \o b)
    BY <1>4, <1>5, <1>8, <1>9, LevelsAppend, Zenon
  <2> QED
    BY <2>1 DEF Deepest
<1> HIDE DEF y, r, b
<1>11. AtFunction(loading'[d + 1], W[i], Y[d + 1], C[d + 1])
  BY <1>7, <1>10, Zenon DEF AtFunction
<1>12. Amid(n, W, A, offset', loading')
  <2> DEFINE e == d + 1
  <2>1. Inner(loading'[e], W[i], Y[e], C[e]) /\ Levels(loading', e, Y, R, C)
    BY <1>10, <1>11, Zenon DEF Inner
  <2> HIDE DEF e
  <2>2. offset' = A[i]
    BY <1>8, <1>9
  <2> QED
    BY <1>9, <2>1, <2>2, Zenon DEF Amid
<1> QED
  BY <1>8, <1>12 DEF SameWriter

WithFunction(f, g) == [f EXCEPT !.left = @ - 1, !.f.functions = Append(@, g)]

LEMMA OneFunctionMore ==
  ASSUME NEW s, NEW d, NEW a1, NEW a2, NEW a3, NEW a4, NEW ks, NEW fs, NEW g
  PROVE  WithFunction([stage |-> s, left |-> d,
                       f |-> [numParams |-> a1, vararg |-> a2, maxStack |-> a3, code |-> a4,
                              constants |-> ks, functions |-> fs]], g)
           = [stage |-> s, left |-> d - 1,
              f |-> [numParams |-> a1, vararg |-> a2, maxStack |-> a3, code |-> a4,
                     constants |-> ks, functions |-> Append(fs, g)]]
<1> DEFINE r == [numParams |-> a1, vararg |-> a2, maxStack |-> a3, code |-> a4,
                 constants |-> ks, functions |-> fs]
           f == [stage |-> s, left |-> d, f |-> r]
<1>1. [r EXCEPT !.functions = Append(fs, g)]
        = [numParams |-> a1, vararg |-> a2, maxStack |-> a3, code |-> a4,
           constants |-> ks, functions |-> Append(fs, g)]
  OBVIOUS
<1>2. ASSUME NEW v, NEW w
      PROVE  [f EXCEPT !.left = v, !.f.functions = w]
               = [stage |-> s, left |-> v, f |-> [r EXCEPT !.functions = w]]
  <2> HIDE DEF r
  <2>1. [f EXCEPT !.left = v] = [stage |-> s, left |-> v, f |-> r]
    OBVIOUS
  <2>2. [[stage |-> s, left |-> v, f |-> r] EXCEPT !.f.functions = w]
          = [stage |-> s, left |-> v, f |-> [r EXCEPT !.functions = w]]
    OBVIOUS
  <2>3. [f EXCEPT !.left = v, !.f.functions = w] = [[f EXCEPT !.left = v] EXCEPT !.f.functions = w]
    OBVIOUS
  <2> QED
    BY <2>1, <2>2, <2>3, Zenon
<1>3. f.left = d /\ f.f = r /\ f.f.functions = fs
  OBVIOUS
<1>4. WithFunction(f, g) = [stage |-> s, left |-> d - 1, f |-> [r EXCEPT !.functions = Append(fs, g)]]
  <2> HIDE DEF f, r
  <2>1. WithFunction(f, g) = [f EXCEPT !.left = f.left - 1, !.f.functions = Append(f.f.functions, g)]
    BY Zenon DEF WithFunction
  <2>2. WithFunction(f, g) = [f EXCEPT !.left = d - 1, !.f.functions = Append(fs, g)]
    BY <1>3, <2>1
  <2>3. [f EXCEPT !.left = d - 1, !.f.functions = Append(fs, g)]
          = [stage |-> s, left |-> d - 1, f |-> [r EXCEPT !.functions = Append(fs, g)]]
    BY <1>2
  <2> QED
    BY <2>2, <2>3, Zenon
<1> QED
  BY <1>1, <1>4, Zenon

LEMMA PartlyNext ==
  ASSUME Made, NEW x, x.p \in 1..Len(protos), NEW c \in 0..Len(protos[x.p].functions)-1,
         NEW y, y = ChildTask(x.p, c + 1)
  PROVE  WithFunction(Partly(x, c), Loadable[<<y.p, y.numParams>>]) = Partly(x, c + 1)
<1> DEFINE F == FunctionsFrom(Loadable, x.p)
           fs == protos[x.p].functions
           m == Len(fs)
           g == Loadable[<<y.p, y.numParams>>]
           F0 == First(F, c)
           F1 == First(F, c + 1)
           d == m - c
           e == m - (c + 1)
           q == protos[x.p].maxStack + STACK_EXTRA
           K == protos[x.p].constants
<1>1. m \in Nat /\ c \in 0..m-1
  BY MadeFacts
<1>2. y.p = fs[c + 1].proto /\ y.numParams = fs[c + 1].numParams
  BY DEF ChildTask, FunctionTask
<1>3. F = [j \in 1..m |-> Loadable[<<fs[j].proto, fs[j].numParams>>]]
  BY Zenon DEF FunctionsFrom
<1>4. F[c + 1] = g
  <2> HIDE DEF m, fs, F
  <2> QED
    BY <1>1, <1>2, <1>3
<1>5. F = First(F, m)
  <2> HIDE DEF m, fs
  <2>1. F = [j \in 1..m |-> F[j]]
    <3> HIDE DEF F
    <3> QED
      BY <1>3
  <2> QED
    BY <2>1, Zenon DEF First
<1>6. Append(F0, g) = F1
  <2> HIDE DEF m, F, g
  <2>1. Append(First(F, c), F[c + 1]) = First(F, c + 1)
    BY <1>1, <1>5, FirstFacts
  <2> QED
    BY <1>4, <2>1
<1>7. d - 1 = e
  BY <1>1
<1>8. Partly(x, c) = [stage |-> "protos", left |-> d, f |-> KnownOf(x, K, F0)]
  BY Zenon DEF Partly
<1>9. Partly(x, c + 1) = [stage |-> "protos", left |-> e, f |-> KnownOf(x, K, F1)]
  BY Zenon DEF Partly
<1> HIDE DEF F, fs, m, g, F0, F1, d, e, q, K
<1>10. WithFunction([stage |-> "protos", left |-> d, f |-> KnownOf(x, K, F0)], g)
         = [stage |-> "protos", left |-> d - 1, f |-> KnownOf(x, K, F1)]
  <2>1. KnownOf(x, K, F0)
          = [numParams |-> x.numParams, vararg |-> x.vararg, maxStack |-> q, code |-> protos[x.p].code,
             constants |-> K, functions |-> F0]
    BY Zenon DEF KnownOf, q
  <2>2. KnownOf(x, K, F1)
          = [numParams |-> x.numParams, vararg |-> x.vararg, maxStack |-> q, code |-> protos[x.p].code,
             constants |-> K, functions |-> Append(F0, g)]
    BY <1>6, Zenon DEF KnownOf, q
  <2>3. WithFunction([stage |-> "protos", left |-> d,
                      f |-> [numParams |-> x.numParams, vararg |-> x.vararg, maxStack |-> q,
                             code |-> protos[x.p].code, constants |-> K, functions |-> F0]], g)
          = [stage |-> "protos", left |-> d - 1,
             f |-> [numParams |-> x.numParams, vararg |-> x.vararg, maxStack |-> q,
                    code |-> protos[x.p].code, constants |-> K, functions |-> Append(F0, g)]]
    BY OneFunctionMore
  <2> QED
    BY <2>1, <2>2, <2>3, Zenon
<1>11. WithFunction(Partly(x, c), g) = Partly(x, c + 1)
  BY <1>7, <1>8, <1>9, <1>10, Zenon
<1> QED
  BY <1>11 DEF g

LEMMA WholeFunction ==
  ASSUME Made, NEW x \in TreeTasks, NEW m, m = Len(protos[x.p].functions)
  PROVE  Partly(x, m).f = Loadable[<<x.p, x.numParams>>]
<1> DEFINE p == x.p
           F == FunctionsFrom(Loadable, p)
           fs == protos[p].functions
<1>1. p \in 1..Len(protos) /\ x.numParams \in Nat /\ x.vararg = IF p = Len(protos) THEN 1 ELSE 0
  BY TreeTaskFacts
<1>2. Loadable[<<p, x.numParams>>] = LoadedAs(Loadable, p, x.numParams)
  BY <1>1, LoadableStep
<1>3. F = [j \in 1..m |-> Loadable[<<fs[j].proto, fs[j].numParams>>]]
  BY Zenon DEF FunctionsFrom
<1>4. First(F, m) = F
  <2>1. F = [j \in 1..m |-> F[j]]
    <3> HIDE DEF F, fs
    <3> QED
      BY <1>3
  <2> QED
    BY <2>1, Zenon DEF First
<1>5. Partly(x, m).f = KnownOf(x, protos[p].constants, F)
  <2>1. Partly(x, m).f = KnownOf(x, protos[p].constants, First(F, m))
    BY DEF Partly
  <2> QED
    BY <1>4, <2>1, Zenon
<1> HIDE DEF F
<1>6. KnownOf(x, protos[p].constants, F) = LoadedAs(Loadable, p, x.numParams)
  BY <1>1, Zenon DEF KnownOf, LoadedAs, F
<1> QED
  BY <1>2, <1>5, <1>6, Zenon DEF p

LEMMA LevelsOuter ==
  ASSUME NEW l, NEW d, NEW X, NEW Q, NEW B, Levels(l, d, X, Q, B),
         NEW e, NEW f, NEW u, Popped(u, l, d, e, f)
  PROVE  Levels(u, e, X, Q, B) /\ Puts(u, l, e, f)
<1>1. /\ Levelled(l, d) /\ d \in Nat /\ X[1] = MainTask /\ B[1] = <<>>
      /\ \A k \in 1..d : X[k] \in TreeTasks /\ TaskList(B[k])
      /\ \A k \in 1..d-1 : Outer(l, k, X, Q, B)
  BY DEF Levels, Levelled
<1>2. Levelled(u, e) /\ Puts(u, l, e, f)
  BY <1>1, LevelledOuter, Zenon
<1>3. e > 0 /\ e \in Nat
  BY <1>1 DEF Popped
<1>4. ASSUME NEW k \in 1..e-1 PROVE Outer(u, k, X, Q, B)
  <2>1. u[k] = l[k]
    BY <1>2 DEF Puts
  <2>2. Outer(l, k, X, Q, B)
    <3>1. k \in 1..d-1
      BY <1>1 DEF Popped
    <3> QED
      BY <1>1, <3>1
  <2> QED
    BY <2>1, <2>2, Zenon DEF Outer
<1>5. \A k \in 1..e : X[k] \in TreeTasks /\ TaskList(B[k])
  BY <1>1 DEF Popped
<1>6. Levels(u, e, X, Q, B)
  BY <1>1, <1>2, <1>3, <1>4, <1>5, Zenon DEF Levels
<1> QED
  BY <1>2, <1>6

LEMMA LoadEndStep ==
  ASSUME Made, BufferType, NEW n, NEW W, NEW A, NEW i, NEW d, NEW X, NEW Q, NEW B,
         Stands(n, W, A, i, d, X, Q, B), LoadEnd
  PROVE  /\ UNCHANGED <<vars, buffer, writing>>
         /\ \/ UNCHANGED <<phase, loaded>> /\ Amid(n, W, A, offset', loading')
            \/ /\ phase' = "loaded" /\ loaded' = Loadable[<<Len(protos), 0>>]
               /\ offset' = Len(buffer)
<1> DEFINE x == X[d]
           b == B[d]
           p == x.p
           o == offset
           m == Len(protos[p].functions)
           y == EndTask(p)
<1>1. /\ Levelled(loading, d) /\ d \in Nat /\ d > 0 /\ Len(loading) = d /\ Innermost = loading[d]
      /\ x \in TreeTasks /\ p \in 1..Len(protos) /\ TaskList(b) /\ A[i] \in Nat /\ n \in Nat
  BY StandsFacts
<1>2. AtProtos(loading[d], W[i], x, b)
  <2>1. loading[d].stage = "protos"
    BY <1>1 DEF LoadEnd, Loading
  <2>2. Inner(loading[d], W[i], x, b)
    BY DEF Stands
  <2> QED
    BY <2>1, <2>2, StagesDiffer
<1>3. LogIn(n, W, A, buffer) /\ W[n] = <<>> /\ i \in 1..n /\ o = A[i] /\ o \in Nat
  BY <1>1 DEF Stands
<1>4. m \in Nat
  BY <1>1, MadeFacts
<1>5. loading[d] = Partly(x, m) /\ W[i] = <<y>> \o b
  <2>1. PICK c \in 0..m : loading[d] = Partly(x, c) /\ W[i] = Rest(p, c) \o b
    BY <1>2 DEF AtProtos
  <2>2. c = m
    <3>1. loading[d].left = 0
      BY <1>1 DEF LoadEnd
    <3>2. loading[d].left = m - c
      BY <2>1 DEF Partly
    <3> QED
      BY <1>4, <3>1, <3>2
  <2>3. Rest(p, m) = <<y>>
    BY <1>1, RestSteps
  <2> QED
    BY <2>1, <2>2, <2>3
<1>6. y \in Tasks /\ y.t = "end"
  BY <1>1, ConstantTaskFacts DEF Tasks
<1>7. Output(y, o) = NoSource \o NoDebug /\ TasksAfter(y) = <<>>
  <2>1. y.t # "function"
    BY <1>6
  <2> QED
    BY <1>6, <2>1, Zenon DEF Output, TasksAfter
<1>8. /\ i \in 1..n-1 /\ i + 1 \in 1..n /\ Holds(buffer, o, Output(y, o))
      /\ W[i + 1] = TasksAfter(y) \o b /\ A[i + 1] = o + Len(Output(y, o))
  <2> HIDE DEF y
  <2>1. Went(n, W, A, i, y, b, o)
    BY <1>1, <1>3, <1>5, <1>6, TaskThere, Zenon
  <2> QED
    BY <2>1 DEF Went
<1>9. W[i + 1] = b
  <2>1. W[i + 1] = <<>> \o b
    BY <1>7, <1>8
  <2> QED
    BY <1>1, <2>1 DEF TaskList
<1> DEFINE r1 == loadInt(o)
           r2 == loadInt(r1.at)
           r3 == loadInt(r2.at)
           r4 == loadInt(r3.at)
           r5 == loadInt(r4.at)
           r6 == loadInt(r5.at)
           R == {r1, r2, r3, r4, r5, r6}
           up == loading[Len(loading) - 1]
<1>10. \A j \in 0..5 : Gives(loadInt(o + j), 0, (o + j) + 1)
  <2>1. Holds(buffer, o, NoSource \o NoDebug)
    BY <1>7, <1>8
  <2> QED
    BY <1>3, <2>1, EndRead, Zenon
<1>11. IF Ok(R) /\ \A r \in R : r.val = 0
       THEN /\ offset' = r6.at
            /\ IF Len(loading) = 1
               THEN /\ loaded' = Innermost.f /\ loading' = <<>> /\ phase' = "loaded"
               ELSE /\ loading' = Append(SubSeq(loading, 1, Len(loading) - 2),
                                         WithFunction(up, Innermost.f))
                    /\ UNCHANGED <<phase, loaded>>
       ELSE Fail
  BY Zenon DEF LoadEnd, WithFunction
<1>12. SameWriter
  BY DEF LoadEnd
<1>13. Len(NoSource \o NoDebug) = 6
  BY EndRead
<1> HIDE DEF x, b, p, o, m, y
<1>14. /\ Gives(loadInt(o), 0, o + 1) /\ Gives(loadInt(o + 1), 0, o + 2)
       /\ Gives(loadInt(o + 2), 0, o + 3) /\ Gives(loadInt(o + 3), 0, o + 4)
       /\ Gives(loadInt(o + 4), 0, o + 5) /\ Gives(loadInt(o + 5), 0, o + 6)
  BY <1>3, <1>10
<1>15. r1.ok /\ r1.at = o + 1 /\ r1.val = 0
  BY <1>14, Zenon DEF Gives
<1>16. r2.ok /\ r2.at = o + 2 /\ r2.val = 0
  BY <1>14, <1>15, Zenon DEF Gives
<1>17. r3.ok /\ r3.at = o + 3 /\ r3.val = 0
  BY <1>14, <1>16, Zenon DEF Gives
<1>18. r4.ok /\ r4.at = o + 4 /\ r4.val = 0
  BY <1>14, <1>17, Zenon DEF Gives
<1>19. r5.ok /\ r5.at = o + 5 /\ r5.val = 0
  BY <1>14, <1>18, Zenon DEF Gives
<1>20. r6.ok /\ r6.at = o + 6 /\ r6.val = 0
  BY <1>14, <1>19, Zenon DEF Gives
<1> HIDE DEF r1, r2, r3, r4, r5, r6
<1>21. Ok(R) /\ \A r \in R : r.val = 0
  BY <1>15, <1>16, <1>17, <1>18, <1>19, <1>20 DEF Ok
<1> HIDE DEF R
<1>22. offset' = A[i + 1]
  BY <1>7, <1>8, <1>11, <1>13, <1>20, <1>21
<1> DEFINE g == Loadable[<<x.p, x.numParams>>]
<1>23. Innermost.f = g
  <2>1. Partly(x, m).f = g
    BY <1>1, WholeFunction DEF m, p
  <2> HIDE DEF g
  <2> QED
    BY <1>1, <1>5, <2>1
<1>24. Levels(loading, d, X, Q, B)
  BY DEF Stands
<1>25. CASE d = 1
  <2>1. x = MainTask /\ b = <<>>
    BY <1>24, <1>25 DEF Levels, x, b
  <2>2. i + 1 = n
    <3>1. SUFFICES ASSUME i + 1 # n PROVE FALSE
      OBVIOUS
    <3>2. i + 1 \in 1..n-1
      BY <1>1, <1>8, <3>1
    <3>3. W[i + 1] # <<>>
      BY <1>3, <3>2 DEF LogIn, LogSteps, Goes
    <3> QED
      BY <1>9, <2>1, <3>3
  <2>3. offset' = Len(buffer)
    BY <1>3, <1>22, <2>2 DEF LogIn
  <2>4. g = Loadable[<<Len(protos), 0>>]
    BY <2>1 DEF MainTask, FunctionTask
  <2> HIDE DEF g
  <2>5. loaded' = Loadable[<<Len(protos), 0>>] /\ phase' = "loaded"
    BY <1>1, <1>11, <1>21, <1>23, <1>25, <2>4
  <2> QED
    BY <1>12, <2>3, <2>5 DEF SameWriter
<1>26. CASE d # 1
  <2> DEFINE e == d - 1
             c == Q[e] + 1
             new == Partly(X[e], c)
  <2>1. d > 1 /\ e \in 1..d-1 /\ e \in 1..d /\ e + 1 = d /\ e \in Nat
    BY <1>1, <1>26
  <2>2. Outer(loading, e, X, Q, B) /\ X[e] \in TreeTasks /\ TaskList(B[e])
    BY <1>24, <2>1 DEF Levels
  <2> DEFINE k == Len(protos[X[e].p].functions)
  <2>3. /\ Q[e] \in 0..k-1 /\ loading[e] = Partly(X[e], Q[e])
        /\ x = ChildTask(X[e].p, Q[e] + 1) /\ b = Rest(X[e].p, Q[e] + 1) \o B[e]
    BY <2>1, <2>2 DEF Outer, x, b
  <2>4. X[e].p \in 1..Len(protos)
    BY <2>2, TreeTaskFacts
  <2>5. k \in Nat
    BY <2>4, MadeFacts
  <2>6. WithFunction(loading[e], g) = new
    <3>1. WithFunction(Partly(X[e], Q[e]), Loadable[<<x.p, x.numParams>>]) = Partly(X[e], Q[e] + 1)
      BY <2>3, <2>4, PartlyNext
    <3> QED
      BY <2>3, <3>1
  <2> HIDE DEF g
  <2>7. loading' = Append(SubSeq(loading, 1, d - 2), new) /\ UNCHANGED <<phase, loaded>>
    BY <1>1, <1>11, <1>21, <1>23, <1>26, <2>6
  <2> HIDE DEF new
  <2>8. Levels(loading', e, X, Q, B) /\ loading'[e] = new
    <3>1. Popped(loading', loading, d, e, new)
      BY <2>1, <2>7 DEF Popped
    <3> HIDE DEF e
    <3>2. Levels(loading', e, X, Q, B) /\ Puts(loading', loading, e, new)
      BY <1>24, <3>1, LevelsOuter, Zenon
    <3> QED
      BY <3>2 DEF Puts
  <2>9. Inner(new, W[i + 1], X[e], B[e])
    <3>1. c \in 0..k
      BY <2>3, <2>5
    <3>2. W[i + 1] = Rest(X[e].p, c) \o B[e]
      BY <1>9, <2>3
    <3> HIDE DEF c
    <3>3. AtProtos(new, W[i + 1], X[e], B[e])
      BY <3>1, <3>2, Zenon DEF AtProtos, new
    <3> QED
      BY <3>3 DEF Inner
  <2>10. Amid(n, W, A, offset', loading')
    <3> DEFINE j == i + 1
    <3>1. j \in 1..n /\ offset' = A[j] /\ Inner(loading'[e], W[j], X[e], B[e])
      BY <1>8, <1>22, <2>8, <2>9
    <3> HIDE DEF j, e
    <3> QED
      BY <2>8, <3>1, Zenon DEF Amid
  <2> QED
    BY <1>12, <2>7, <2>10 DEF SameWriter
<1> QED
  BY <1>25, <1>26

----------------------------------------------------------------------------
(* The whole: one invariant for the phases of a chunk.                      *)

LEMMA NextOutcome ==
  ASSUME Next
  PROVE  /\ outcome = "generating"
         /\ OutcomeRight => OutcomeRight'
<1>1. CASE Working
  BY <1>1, WorkingLeaves DEF OutcomeRight
<1>2. CASE FuncDecl
  BY <1>2 DEF FuncDecl, AtStmt, At, OutcomeRight
<1>3. CASE EndFunction
  BY <1>3 DEF EndFunction, OutcomeRight
<1>4. CASE EndMain
  <2>1. outcome = "generating"
    BY <1>4 DEF EndMain
  <2>2. outcome' = "chunk" <=> \A i \in 1..Len(protos') : Writes(protos'[i])
    <3>1. outcome' = IF \A i \in 1..Len(protos') : Writes(protos'[i]) THEN "chunk" ELSE "exception"
      BY <1>4, Zenon DEF EndMain
    <3> HIDE DEF Writes
    <3> QED
      BY <3>1
  <2>3. \A i \in 1..Len(protos') : Writes(protos'[i]) <=> Writes(protos[i])'
    BY Zenon DEF Writes
  <2>4. OutcomeRight' <=> (outcome' # "generating" =>
           (outcome' = "chunk" <=> \A i \in 1..Len(protos') : Writes(protos[i])'))
    BY Zenon DEF OutcomeRight
  <2> QED
    BY <2>1, <2>2, <2>3, <2>4, Zenon
<1> QED
  BY <1>1, <1>2, <1>3, <1>4 DEF Next, Working

(* The header is read, and with it the main function begins.               *)
LEMMA CheckHeaderStep ==
  ASSUME Made, BufferType, Holds(buffer, 0, Append(Header, Byte(1))),
         NEW n, NEW W, NEW A, LogIn(n, W, A, buffer), W[n] = <<>>, checkHeader
  PROVE  UNCHANGED <<phase, loaded, vars, buffer, writing>> /\ Amid(n, W, A, offset', loading')
<1>1. Len(buffer) > 40 /\ SubSeq(buffer, 1, 40) = Header /\ buffer[41] = Byte(1)
  BY HeaderRead
<1>2. offset' = 41 /\ loading' = <<NewFunction>> /\ UNCHANGED <<phase, loaded>> /\ SameWriter
  BY <1>1, Zenon DEF checkHeader
<1>3. n \in Nat \ {0} /\ A[1] = 41 /\ W[1] = <<MainTask>>
  BY DEF LogIn, LogTypes
<1> DEFINE X == [k \in {1} |-> MainTask]
           B == [k \in {1} |-> <<>>]
           l == <<NewFunction>>
<1>4. X[1] = MainTask /\ B[1] = <<>>
  OBVIOUS
<1>5. MainTask \in TreeTasks /\ TaskList(<<>>)
  BY TreeTaskFacts DEF TaskList
<1>6. Levelled(l, 1) /\ l[1] = NewFunction
  BY DEF Levelled
<1>7. <<MainTask>> = <<MainTask>> \o <<>>
  <2>1. TaskList(<<MainTask>>)
    BY <1>5, OneTask DEF Tasks
  <2> HIDE DEF MainTask
  <2> QED
    BY <2>1 DEF TaskList
<1> HIDE DEF X, B, l
<1>8. Levels(l, 1, X, X, B)
  <2>1. \A k \in 1..1 : X[k] \in TreeTasks /\ TaskList(B[k])
    BY <1>4, <1>5
  <2>2. \A k \in 1..1-1 : Outer(l, k, X, X, B)
    OBVIOUS
  <2>3. 1 > 0
    OBVIOUS
  <2> QED
    BY <1>4, <1>6, <2>1, <2>2, <2>3, Zenon DEF Levels
<1>9. Inner(l[1], W[1], X[1], B[1])
  <2>1. AtFunction(l[1], W[1], X[1], B[1])
    BY <1>3, <1>4, <1>6, <1>7, Zenon DEF AtFunction
  <2> QED
    BY <2>1 DEF Inner
<1>10. Amid(n, W, A, offset', loading')
  <2>1. 1 \in 1..n /\ offset' = A[1] /\ loading' = l
    BY <1>2, <1>3 DEF l
  <2>2. Amid(n, W, A, offset', l)
    BY <1>8, <1>9, <2>1, Zenon DEF Amid
  <2> QED
    BY <2>1, <2>2
<1> QED
  BY <1>2, <1>10 DEF SameWriter

(* Where the reader is after a step, or what it has when it is done.       *)
LEMMA LoadStep ==
  ASSUME Made, BufferType, Holds(buffer, 0, Append(Header, Byte(1))),
         NEW n, NEW W, NEW A, LogIn(n, W, A, buffer), W[n] = <<>>,
         ReadSoFar(n, W, A, offset, loading), LoadNext
  PROVE  /\ UNCHANGED <<vars, buffer, writing>>
         /\ \/ UNCHANGED <<phase, loaded>> /\ ReadSoFar(n, W, A, offset', loading')
            \/ /\ phase' = "loaded" /\ loaded' = Loadable[<<Len(protos), 0>>]
               /\ offset' = Len(buffer)
<1>1. CASE checkHeader
  BY <1>1, CheckHeaderStep DEF ReadSoFar
<1>2. CASE LoadFunction \/ LoadConstant \/ LoadUpvalues \/ LoadProto \/ LoadEnd
  <2>1. loading # <<>>
    BY <1>2 DEF LoadFunction, LoadConstant, LoadUpvalues, LoadProto, LoadEnd, Loading
  <2>2. PICK i \in 1..n : \E d, X, Q, B :
          offset = A[i] /\ Levels(loading, d, X, Q, B) /\ Inner(loading[d], W[i], X[d], B[d])
    BY <2>1, Zenon DEF ReadSoFar, Amid
  <2>3. PICK d, X, Q, B :
          offset = A[i] /\ Levels(loading, d, X, Q, B) /\ Inner(loading[d], W[i], X[d], B[d])
    BY <2>2, Zenon
  <2>4. Stands(n, W, A, i, d, X, Q, B)
    BY <2>2, <2>3, Zenon DEF Stands
  <2>5. CASE LoadFunction
    BY <2>4, <2>5, LoadFunctionStep DEF ReadSoFar
  <2>6. CASE LoadConstant
    BY <2>4, <2>6, LoadConstantStep DEF ReadSoFar
  <2>7. CASE LoadUpvalues
    BY <2>4, <2>7, LoadUpvaluesStep DEF ReadSoFar
  <2>8. CASE LoadProto
    BY <2>4, <2>8, LoadProtoStep DEF ReadSoFar
  <2>9. CASE LoadEnd
    BY <2>4, <2>9, LoadEndStep DEF ReadSoFar
  <2> QED
    BY <1>2, <2>5, <2>6, <2>7, <2>8, <2>9
<1> QED
  BY <1>1, <1>2 DEF LoadNext

(* What a chunk is from its header on, and what there is in each phase.    *)
HeaderBytes == Append(Header, Byte(1))
Started == Made /\ BufferType /\ AlignedAt(buffer, 0) /\ Holds(buffer, 0, HeaderBytes)
Unread == offset = 0 /\ loading = <<>> /\ loaded = Nothing

GeneratingPhase == phase = "generating" /\ buffer = <<>> /\ writing = <<>> /\ Unread
WritingPhase == phase = "writing" /\ Started /\ Unread /\ \E n, W, A : Log(n, W, A)
ExceptionPhase == phase = "exception" /\ Started /\ loaded = Nothing /\ outcome = "exception"
LoadingPhase ==
  /\ phase = "loading" /\ Started /\ loaded = Nothing /\ outcome = "chunk" /\ writing = <<>>
  /\ \E n, W, A : Log(n, W, A) /\ ReadSoFar(n, W, A, offset, loading)
LoadedPhase ==
  /\ phase = "loaded" /\ Started /\ offset = Len(buffer) /\ outcome = "chunk"
  /\ loaded = Loadable[<<Len(protos), 0>>]
InPhase == GeneratingPhase \/ WritingPhase \/ ExceptionPhase \/ LoadingPhase \/ LoadedPhase
ChunkInv == Types /\ Forest /\ OutcomeRight /\ InPhase

LEMMA SameStarted ==
  ASSUME Started, UNCHANGED <<vars, buffer>>
  PROVE  Started'
<1>1. Made'
  BY SameMade DEF Started
<1>2. buffer' = buffer
  OBVIOUS
<1>3. (BufferType /\ AlignedAt(buffer, 0) /\ Holds(buffer, 0, HeaderBytes))'
  BY <1>2, Zenon DEF Started, BufferType, AlignedAt, Holds, HeaderBytes, Header, Byte, Part, ByteSet
<1> QED
  BY <1>1, <1>3 DEF Started

LEMMA SameLogged ==
  ASSUME UNCHANGED vars, NEW n, NEW W, NEW A
  PROVE  /\ Log(n, W, A)' <=> LogIn(n, W, A, buffer') /\ W[n] = writing'
         /\ ReadSoFar(n, W, A, offset, loading)' <=> ReadSoFar(n, W, A, offset', loading')
         /\ Loadable' = Loadable /\ protos' = protos /\ outcome' = outcome
<1>1. protos' = protos /\ outcome' = outcome
  BY DEF vars
<1> QED
  BY <1>1, SameLog, SameReading

(* One step of the generator.                                              *)
LEMMA GenerateKeeps ==
  ASSUME ChunkInv, GenerateChunk
  PROVE  ChunkInv'
<1>1. Next /\ UNCHANGED chunkVars
  BY DEF GenerateChunk
<1>2. outcome = "generating" /\ OutcomeRight'
  BY <1>1, NextOutcome DEF ChunkInv
<1>3. Types' /\ Forest'
  BY <1>1, NextTypes, NextForest DEF ChunkInv
<1>4. GeneratingPhase
  BY <1>2 DEF ChunkInv, InPhase, WritingPhase, ExceptionPhase, LoadingPhase, LoadedPhase, Started, Made
<1>5. GeneratingPhase'
  BY <1>1, <1>4 DEF GeneratingPhase, chunkVars, Unread, Nothing
<1> QED
  BY <1>2, <1>3, <1>5 DEF ChunkInv, InPhase

(* The steps that leave the generator as it is keep what it promised.      *)
LEMMA RestOfChunkKeeps ==
  ASSUME ChunkInv, UNCHANGED vars, InPhase'
  PROVE  ChunkInv'
<1>1. Types' /\ Forest'
  BY NextTypes, NextForest DEF ChunkInv
<1>2. OutcomeRight'
  <2>1. protos' = protos /\ outcome' = outcome
    BY DEF vars
  <2> QED
    BY <2>1, Zenon DEF ChunkInv, OutcomeRight
<1> QED
  BY <1>1, <1>2 DEF ChunkInv

LEMMA WriteHeaderKeeps ==
  ASSUME ChunkInv, WriteHeader
  PROVE  ChunkInv'
<1>1. /\ phase = "generating" /\ outcome # "generating" /\ phase' = "writing"
      /\ buffer' = buffer \o HeaderBytes /\ writing' = <<MainTask>>
      /\ UNCHANGED <<vars, offset, loading, loaded>>
  BY DEF WriteHeader, Write, SameReader, HeaderBytes, MainTask
<1>2. GeneratingPhase
  BY <1>1 DEF ChunkInv, InPhase, WritingPhase, ExceptionPhase, LoadingPhase, LoadedPhase
<1>3. Made /\ Made'
  BY <1>1, SameMade DEF ChunkInv, Made
<1>4. CodeFree(HeaderBytes) /\ AlignedAt(HeaderBytes, 0) /\ Bytes(HeaderBytes)
  BY HeaderRead, PlainAligned DEF HeaderBytes
<1>5. buffer' = HeaderBytes
  <2>1. buffer' = <<>> \o HeaderBytes
    BY <1>1, <1>2 DEF GeneratingPhase
  <2> QED
    BY <1>4, <2>1 DEF Bytes
<1>6. Started'
  <2>1. HeaderBytes' = HeaderBytes
    BY Zenon DEF HeaderBytes, Header, Byte, Part
  <2>2. AlignedAt(buffer, 0)' <=> AlignedAt(buffer', 0)
    BY Zenon DEF AlignedAt
  <2>3. BufferType' <=> Bytes(buffer')
    BY Zenon DEF BufferType, Bytes, ByteSet
  <2>4. Holds(buffer, 0, HeaderBytes)' <=> Holds(buffer', 0, HeaderBytes)
    BY <2>1, Zenon DEF Holds
  <2>5. Holds(HeaderBytes, 0, HeaderBytes)
    BY <1>4 DEF Bytes, Holds
  <2>6. Holds(buffer', 0, HeaderBytes) /\ AlignedAt(buffer', 0) /\ Bytes(buffer')
    BY <1>4, <1>5, <2>5, Zenon
  <2> QED
    BY <1>3, <2>2, <2>3, <2>4, <2>6, Zenon DEF Started
<1>7. \E n, W, A : Log(n, W, A)'
  <2>1. PICK W, A : LogIn(1, W, A, Append(Header, Byte(1))) /\ W[1] = <<MainTask>>
    BY <1>3, LogStarts
  <2>2. LogIn(1, W, A, buffer') /\ W[1] = writing'
    BY <1>1, <1>5, <2>1 DEF HeaderBytes
  <2>3. Log(1, W, A)'
    BY <1>1, <2>2, SameLogged
  <2> QED
    BY <2>3
<1>8. WritingPhase'
  BY <1>1, <1>2, <1>6, <1>7 DEF WritingPhase, GeneratingPhase, Unread, Nothing
<1> QED
  BY <1>1, <1>8, RestOfChunkKeeps DEF InPhase

(* One call of the writer: it writes, or throws at what no chunk can hold. *)
LEMMA WriterKeeps ==
  ASSUME ChunkInv, WritingPhase, writing # <<>>, WriteNext
  PROVE  ChunkInv'
<1>1. Started /\ Made /\ Unread /\ phase = "writing"
  BY DEF WritingPhase, Started
<1>2. PICK n, W, A : Log(n, W, A)
  BY DEF WritingPhase
<1>3. LogIn(n, W, A, buffer) /\ W[n] = writing /\ W[n] # <<>> /\ TaskList(writing)
  BY <1>2 DEF Log, LogIn, LogTypes
<1> DEFINE x == Head(writing)
<1>4. /\ UNCHANGED <<vars, offset, loading, loaded>>
      /\ \/ phase' = "exception" /\ UNCHANGED <<buffer, writing>> /\ ~Writable(x)
         \/ /\ phase' = "writing" /\ Writable(x)
            /\ buffer' = buffer \o Output(x, Len(buffer))
            /\ writing' = TasksAfter(x) \o Tail(writing)
  BY <1>1, <1>3, WriteStep
<1>5. CASE phase' = "exception" /\ UNCHANGED <<buffer, writing>> /\ ~Writable(x)
  <2>1. outcome = "exception"
    <3>1. x \in Tasks
      BY <1>3, TaskListFacts
    <3> QED
      BY <1>1, <1>5, <3>1, Unwritable
  <2>2. outcome' = "exception" /\ loaded' = Nothing
    BY <1>1, <1>4, <2>1 DEF vars, Unread
  <2>3. Started'
    BY <1>1, <1>4, <1>5, SameStarted
  <2>4. ExceptionPhase'
    BY <1>5, <2>2, <2>3 DEF ExceptionPhase, Nothing
  <2> QED
    BY <1>4, <2>4, RestOfChunkKeeps DEF InPhase
<1>6. CASE /\ phase' = "writing" /\ Writable(x)
           /\ buffer' = buffer \o Output(x, Len(buffer))
           /\ writing' = TasksAfter(x) \o Tail(writing)
  <2>1. Bytes(buffer)
    BY <1>1 DEF Started, BufferType, Bytes
  <2> DEFINE c == buffer \o Output(x, Len(buffer))
             w == TasksAfter(x) \o Tail(writing)
             b == buffer
  <2> HIDE DEF c, w, b
  <2>2. WrittenOn(n, b, c, w)
    <3>1. Made /\ Bytes(b) /\ LogIn(n, W, A, b) /\ W[n] # <<>>
      BY <1>1, <1>3, <2>1 DEF b
    <3>2. Writable(Head(W[n])) /\ c = b \o Output(Head(W[n]), Len(b))
          /\ w = TasksAfter(Head(W[n])) \o Tail(W[n])
      BY <1>3, <1>6 DEF b, c, w
    <3> HIDE DEF x
    <3> QED
      BY <3>1, <3>2, LogGrows, Zenon
  <2>3. Started'
    <3>1. AlignedAt(b, 0) /\ Holds(b, 0, HeaderBytes)
      BY <1>1 DEF Started, b
    <3>2. Bytes(HeaderBytes)
      BY HeaderRead, PlainAligned DEF HeaderBytes
    <3>3. Bytes(c) /\ AlignedAt(c, 0) /\ Holds(c, 0, HeaderBytes)
      BY <2>2, <3>1, <3>2 DEF WrittenOn
    <3>4. buffer' = c
      BY <1>6 DEF c
    <3>5. HeaderBytes' = HeaderBytes
      BY Zenon DEF HeaderBytes, Header, Byte, Part
    <3>6. /\ AlignedAt(buffer, 0)' <=> AlignedAt(buffer', 0)
          /\ BufferType' <=> Bytes(buffer')
          /\ Holds(buffer, 0, HeaderBytes)' <=> Holds(buffer', 0, HeaderBytes)
      BY <3>5, Zenon DEF AlignedAt, BufferType, Bytes, ByteSet, Holds
    <3>7. Made'
      BY <1>1, <1>4, SameMade
    <3> QED
      BY <3>3, <3>4, <3>6, <3>7, Zenon DEF Started
  <2>4. \E k, V, C : Log(k, V, C)'
    <3>1. PICK V, C : LogIn(n + 1, V, C, c) /\ V[n + 1] = w
      BY <2>2 DEF WrittenOn, Longer
    <3> DEFINE k == n + 1
    <3>2. LogIn(k, V, C, c) /\ V[k] = w
      BY <3>1
    <3> HIDE DEF k
    <3>3. buffer' = c /\ writing' = w
      BY <1>6 DEF c, w
    <3>4. Log(k, V, C)'
      BY <1>4, <3>2, <3>3, SameLogged
    <3> QED
      BY <3>4
  <2>5. WritingPhase'
    BY <1>1, <1>4, <1>6, <2>3, <2>4 DEF WritingPhase, Unread, Nothing
  <2> QED
    BY <1>4, <2>5, RestOfChunkKeeps DEF InPhase
<1> QED
  BY <1>4, <1>5, <1>6

LEMMA HandOverKeeps ==
  ASSUME ChunkInv, WritingPhase, HandOver
  PROVE  ChunkInv'
<1>1. Started /\ Made /\ Unread
  BY DEF WritingPhase, Started
<1>2. phase' = "loading" /\ writing = <<>> /\ UNCHANGED <<vars, buffer, writing, offset, loading, loaded>>
  BY DEF HandOver, SameReader
<1>3. PICK n, W, A : Log(n, W, A)
  BY DEF WritingPhase
<1>4. LogIn(n, W, A, buffer) /\ W[n] = writing
  BY <1>3 DEF Log
<1>5. outcome = "chunk"
  BY <1>1, <1>2, <1>4, AllWritten
<1>6. Started'
  BY <1>1, <1>2, SameStarted
<1>7. (Log(n, W, A) /\ ReadSoFar(n, W, A, offset, loading))'
  <2>1. LogIn(n, W, A, buffer') /\ W[n] = writing'
    BY <1>2, <1>4
  <2>2. ReadSoFar(n, W, A, offset', loading')
    BY <1>1, <1>2 DEF ReadSoFar, Unread
  <2> QED
    BY <1>2, <2>1, <2>2, SameLogged
<1>8. LoadingPhase'
  BY <1>1, <1>2, <1>5, <1>6, <1>7 DEF LoadingPhase, Unread, Nothing, vars
<1> QED
  BY <1>2, <1>8, RestOfChunkKeeps DEF InPhase

(* One step of lundump.c.                                                  *)
LEMMA ReaderKeeps ==
  ASSUME ChunkInv, LoadingPhase, LoadNext
  PROVE  ChunkInv'
<1>1. Started /\ Made /\ BufferType /\ Holds(buffer, 0, Append(Header, Byte(1)))
  BY DEF LoadingPhase, Started, HeaderBytes
<1>2. phase = "loading" /\ loaded = Nothing /\ outcome = "chunk" /\ writing = <<>>
  BY DEF LoadingPhase
<1>3. PICK n, W, A : Log(n, W, A) /\ ReadSoFar(n, W, A, offset, loading)
  BY DEF LoadingPhase
<1>4. LogIn(n, W, A, buffer) /\ W[n] = writing /\ W[n] = <<>>
  BY <1>2, <1>3 DEF Log
<1>5. /\ UNCHANGED <<vars, buffer, writing>>
      /\ \/ UNCHANGED <<phase, loaded>> /\ ReadSoFar(n, W, A, offset', loading')
         \/ /\ phase' = "loaded" /\ loaded' = Loadable[<<Len(protos), 0>>]
            /\ offset' = Len(buffer)
  BY <1>1, <1>3, <1>4, LoadStep
<1>6. Started' /\ outcome' = "chunk"
  BY <1>1, <1>2, <1>5, SameStarted DEF vars
<1>7. CASE UNCHANGED <<phase, loaded>> /\ ReadSoFar(n, W, A, offset', loading')
  <2>1. (Log(n, W, A) /\ ReadSoFar(n, W, A, offset, loading))'
    BY <1>4, <1>5, <1>7, SameLogged
  <2>2. LoadingPhase'
    BY <1>2, <1>5, <1>6, <1>7, <2>1 DEF LoadingPhase, Nothing
  <2> QED
    BY <1>5, <2>2, RestOfChunkKeeps DEF InPhase
<1>8. CASE /\ phase' = "loaded" /\ loaded' = Loadable[<<Len(protos), 0>>]
           /\ offset' = Len(buffer)
  <2>1. Loadable' = Loadable /\ protos' = protos
    BY <1>5, SameLogged
  <2>2. loaded' = Loadable'[<<Len(protos'), 0>>] /\ offset' = Len(buffer')
    BY <1>5, <1>8, <2>1
  <2>3. LoadedPhase'
    BY <1>6, <1>8, <2>2, Zenon DEF LoadedPhase
  <2> QED
    BY <1>5, <2>3, RestOfChunkKeeps DEF InPhase
<1> QED
  BY <1>5, <1>7, <1>8

LEMMA WriteNextKeeps ==
  ASSUME ChunkInv, WriteNext
  PROVE  ChunkInv'
<1>1. CASE WriteHeader
  BY <1>1, WriteHeaderKeeps
<1>2. CASE ~WriteHeader
  <2>1. phase = "writing"
    BY <1>2 DEF WriteNext, WriteFunction, WriteConstant, WriteUpvalues, WriteEnd, HandOver, Writing
  <2>2. WritingPhase
    BY <2>1 DEF ChunkInv, InPhase, GeneratingPhase, ExceptionPhase, LoadingPhase, LoadedPhase
  <2>3. CASE writing # <<>>
    BY <2>2, <2>3, WriterKeeps
  <2>4. CASE writing = <<>>
    <3>1. HandOver
      BY <1>2, <2>4 DEF WriteNext, WriteFunction, WriteConstant, WriteUpvalues, WriteEnd, Writing
    <3> QED
      BY <2>2, <3>1, HandOverKeeps
  <2> QED
    BY <2>3, <2>4
<1> QED
  BY <1>1, <1>2

LEMMA LoadNextKeeps ==
  ASSUME ChunkInv, LoadNext
  PROVE  ChunkInv'
<1>1. phase = "loading"
  BY DEF LoadNext, checkHeader, LoadFunction, LoadConstant, LoadUpvalues, LoadProto, LoadEnd, Loading
<1>2. LoadingPhase
  BY <1>1 DEF ChunkInv, InPhase, GeneratingPhase, ExceptionPhase, WritingPhase, LoadedPhase
<1> QED
  BY <1>2, ReaderKeeps

LEMMA StutterKeeps ==
  ASSUME ChunkInv, UNCHANGED <<vars, chunkVars>>
  PROVE  ChunkInv'
<1>1. UNCHANGED <<vars, buffer, writing, phase, offset, loading, loaded>> /\ outcome' = outcome
  BY DEF chunkVars, vars
<1>2. CASE GeneratingPhase
  BY <1>1, <1>2, RestOfChunkKeeps DEF InPhase, GeneratingPhase, Unread, Nothing
<1>3. CASE WritingPhase
  <2>1. PICK n, W, A : Log(n, W, A)
    BY <1>3 DEF WritingPhase
  <2>2. Log(n, W, A)'
    BY <1>1, <2>1, SameLogged DEF Log
  <2>3. Started'
    BY <1>1, <1>3, SameStarted DEF WritingPhase
  <2>4. WritingPhase'
    BY <1>1, <1>3, <2>2, <2>3 DEF WritingPhase, Unread, Nothing
  <2> QED
    BY <1>1, <2>4, RestOfChunkKeeps DEF InPhase
<1>4. CASE ExceptionPhase
  <2>1. Started'
    BY <1>1, <1>4, SameStarted DEF ExceptionPhase
  <2>2. ExceptionPhase'
    BY <1>1, <1>4, <2>1 DEF ExceptionPhase, Nothing
  <2> QED
    BY <1>1, <2>2, RestOfChunkKeeps DEF InPhase
<1>5. CASE LoadingPhase
  <2>1. PICK n, W, A : Log(n, W, A) /\ ReadSoFar(n, W, A, offset, loading)
    BY <1>5 DEF LoadingPhase
  <2>2. (Log(n, W, A) /\ ReadSoFar(n, W, A, offset, loading))'
    BY <1>1, <2>1, SameLogged DEF Log
  <2>3. Started'
    BY <1>1, <1>5, SameStarted DEF LoadingPhase
  <2>4. LoadingPhase'
    BY <1>1, <1>5, <2>2, <2>3 DEF LoadingPhase, Nothing
  <2> QED
    BY <1>1, <2>4, RestOfChunkKeeps DEF InPhase
<1>6. CASE LoadedPhase
  <2>1. Started'
    BY <1>1, <1>6, SameStarted DEF LoadedPhase
  <2>2. Loadable' = Loadable /\ protos' = protos
    BY <1>1, SameLogged
  <2>3. loaded' = Loadable'[<<Len(protos'), 0>>] /\ offset' = Len(buffer')
    BY <1>1, <1>6, <2>2 DEF LoadedPhase
  <2>4. phase' = "loaded" /\ outcome' = "chunk"
    BY <1>1, <1>6 DEF LoadedPhase
  <2>5. LoadedPhase'
    BY <2>1, <2>3, <2>4, Zenon DEF LoadedPhase
  <2> QED
    BY <1>1, <2>5, RestOfChunkKeeps DEF InPhase
<1> QED
  BY <1>2, <1>3, <1>4, <1>5, <1>6 DEF ChunkInv, InPhase

LEMMA ChunkInvInit == ChunkInit => ChunkInv
<1> SUFFICES ASSUME ChunkInit PROVE ChunkInv
  OBVIOUS
<1>1. Types /\ Forest
  BY InitTypes, InitForest DEF ChunkInit
<1>2. OutcomeRight
  BY DEF ChunkInit, Init, OutcomeRight
<1>3. GeneratingPhase
  BY DEF ChunkInit, GeneratingPhase, Unread
<1> QED
  BY <1>1, <1>2, <1>3 DEF ChunkInv, InPhase

LEMMA ChunkInvNext == ChunkInv /\ [ChunkNext]_<<vars, chunkVars>> => ChunkInv'
  BY GenerateKeeps, WriteNextKeeps, LoadNextKeeps, StutterKeeps DEF ChunkNext

LEMMA ChunkInvAlways == ChunkSpec => []ChunkInv
  BY ChunkInvInit, ChunkInvNext, PTL DEF ChunkSpec

(* lundump.c reads to its end every chunk that CodeGenerator.generate       *)
(* writes, whatever the program, and refuses none; and writeAlign has put   *)
(* every instruction at a multiple of 4.                                    *)
THEOREM EveryChunkRead == ChunkSpec => []EverythingRead
<1>1. ChunkInv => EverythingRead
  <2> SUFFICES ASSUME ChunkInv PROVE EverythingRead
    OBVIOUS
  <2>1. phase # "error" /\ (phase = "loaded" => offset = Len(buffer))
    BY DEF ChunkInv, InPhase, GeneratingPhase, WritingPhase, ExceptionPhase, LoadingPhase, LoadedPhase
  <2>2. \A o \in 1..Len(buffer) : buffer[o][1] = "code" /\ buffer[o][3] = 1 => (o - 1) % 4 = 0
    <3>1. CASE buffer = <<>>
      BY <3>1
    <3>2. CASE buffer # <<>>
      <4>1. AlignedAt(buffer, 0)
        BY <3>2 DEF ChunkInv, InPhase, GeneratingPhase, WritingPhase, ExceptionPhase, LoadingPhase,
                    LoadedPhase, Started
      <4>2. ASSUME NEW o \in 1..Len(buffer), buffer[o][1] = "code", buffer[o][3] = 1
            PROVE  (o - 1) % 4 = 0
        <5>1. ((0 + o) - 1) % 4 = 0
          BY <4>1, <4>2 DEF AlignedAt
        <5>2. (0 + o) - 1 = o - 1
          OBVIOUS
        <5> QED
          BY <5>1, <5>2
      <4> QED
        BY <4>2
    <3> QED
      BY <3>1, <3>2
  <2> QED
    BY <2>1, <2>2, Zenon DEF EverythingRead
<1> QED
  BY <1>1, ChunkInvAlways, PTL

(* What is sent once the generator is done is something.                   *)
SentRight == ChunkInv /\ (outcome = "chunk" => Sent # Nothing)

LEMMA ChunkIsSomething == ChunkInv => SentRight
<1> SUFFICES ASSUME ChunkInv, outcome = "chunk" PROVE Sent # Nothing
  BY DEF SentRight
<1>1. Made
  BY DEF ChunkInv, Made
<1>2. Loadable[<<Len(protos), 0>>] = LoadedAs(Loadable, Len(protos), 0)
  <2>1. Len(protos) \in 1..Len(protos)
    BY <1>1, TreeTaskFacts DEF MainTask, FunctionTask
  <2> QED
    BY <1>1, <2>1, LoadableStep
<1>3. LoadedAs(Loadable, Len(protos), 0) # <<>>
  BY DEF LoadedAs
<1> QED
  BY <1>2, <1>3 DEF Sent, Nothing

LEMMA LoadedOnlyAtEnd ==
  /\ ChunkInv /\ phase # "loaded" => loaded = Nothing
  /\ ChunkInv /\ phase = "loaded" => outcome = "chunk" /\ loaded = Sent
  BY DEF ChunkInv, InPhase, GeneratingPhase, WritingPhase, ExceptionPhase, LoadingPhase, LoadedPhase,
         Unread, Sent

LEMMA NextTransfers ==
  SentRight /\ SentRight' /\ [ChunkNext]_<<vars, chunkVars>> => [T!Send \/ T!Receive]_<<Sent, loaded>>
<1> SUFFICES ASSUME SentRight, SentRight', [ChunkNext]_<<vars, chunkVars>>
             PROVE  T!Send \/ T!Receive \/ UNCHANGED <<Sent, loaded>>
  OBVIOUS
<1>1. CASE GenerateChunk
  <2>1. outcome = "generating" /\ loaded' = loaded
    BY <1>1, NextOutcome DEF GenerateChunk, chunkVars
  <2>2. Sent = Nothing
    BY <2>1 DEF Sent
  <2>3. CASE outcome' = "chunk"
    <3>1. Sent' # Nothing
      BY <2>3 DEF SentRight, Nothing
    <3>2. T!Send
      BY <2>1, <2>2, <3>1 DEF T!Send, Sent
    <3> QED
      BY <3>2
  <2>4. CASE outcome' # "chunk"
    BY <2>1, <2>2, <2>4 DEF Sent, Nothing
  <2> QED
    BY <2>3, <2>4
<1>2. CASE WriteNext \/ LoadNext
  <2>1. phase # "loaded" /\ UNCHANGED vars
    BY <1>2 DEF WriteNext, WriteHeader, WriteFunction, WriteConstant, WriteUpvalues, WriteEnd, HandOver,
                Writing, SameReader, LoadNext, checkHeader, LoadFunction, LoadConstant, LoadUpvalues,
                LoadProto, LoadEnd, Loading, SameWriter
  <2>2. outcome' = outcome /\ Sent' = Sent
    <3>1. Loadable' = Loadable /\ protos' = protos /\ outcome' = outcome
      BY <2>1, SameLogged
    <3>2. Nothing' = Nothing
      BY DEF Nothing
    <3> QED
      BY <3>1, <3>2, Zenon DEF Sent
  <2>3. loaded = Nothing
    BY <2>1, LoadedOnlyAtEnd DEF SentRight
  <2>4. CASE phase' = "loaded"
    <3>1. outcome' = "chunk" /\ loaded' = Sent'
      BY <2>4 DEF SentRight, ChunkInv, InPhase, GeneratingPhase, WritingPhase, ExceptionPhase,
                  LoadingPhase, LoadedPhase, Sent
    <3>2. Sent # Nothing
      BY <2>2, <3>1 DEF SentRight
    <3>3. T!Receive
      BY <2>2, <2>3, <3>1, <3>2 DEF T!Receive, Sent
    <3> QED
      BY <3>3
  <2>5. CASE phase' # "loaded"
    <3>1. loaded' = Nothing
      BY <2>5 DEF SentRight, ChunkInv, InPhase, GeneratingPhase, WritingPhase, ExceptionPhase,
                  LoadingPhase, LoadedPhase, Unread, Nothing
    <3> QED
      BY <2>2, <2>3, <3>1
  <2> QED
    BY <2>4, <2>5
<1>3. CASE UNCHANGED <<vars, chunkVars>>
  <2>1. Loadable' = Loadable /\ protos' = protos /\ outcome' = outcome /\ loaded' = loaded
    BY <1>3, SameLogged DEF chunkVars
  <2>2. Nothing' = Nothing
    BY DEF Nothing
  <2> QED
    BY <2>1, <2>2, Zenon DEF Sent
<1> QED
  BY <1>1, <1>2, <1>3 DEF ChunkNext

(* The chunk carries its functions from the compiler to the virtual         *)
(* machine: what lundump.c returns is the tree CodeGenerator was given,     *)
(* whole and unchanged, once and only when generate returned a chunk.       *)
THEOREM ChunkTransfers == ChunkSpec => T!Safety
<1>1. ChunkInit => T!Init
  BY DEF ChunkInit, Init, T!Init, Sent, Nothing
<1>2. [](SentRight) /\ [][ChunkNext]_<<vars, chunkVars>> => [][T!Send \/ T!Receive]_<<Sent, loaded>>
  BY NextTransfers, PTL
<1>3. ChunkSpec => []SentRight
  BY ChunkIsSomething, ChunkInvAlways, PTL
<1>4. ChunkSpec => T!Init /\ [][T!Send \/ T!Receive]_<<Sent, loaded>>
  BY <1>1, <1>2, <1>3, PTL DEF ChunkSpec
<1> QED
  BY <1>4, Zenon DEF T!Safety, Sent
=============================================================================
