----------------------------- MODULE FrontendFacts -----------------------------
(***************************************************************************)
(* What the lexer and the parser do for every text over every alphabet,    *)
(* every list of tokens and every number.                                  *)
(*                                                                         *)
(* The lexer: the text before place is cut into the longest lexemes, and   *)
(* their tokens are given (LexInv).  TypeFacts says by its bytes which     *)
(* part of a text is a lexeme; then one lemma for each kind of lexeme says *)
(* that what the code reads is the longest one there, and one for each     *)
(* branch of nextToken that it keeps the invariant.                        *)
(*                                                                         *)
(* The parser: it gives an outcome only with its last call (Ended).        *)
(***************************************************************************)
EXTENDS Frontend, TLAPS, FiniteSetTheorems, WellFoundedInduction

(* The provers here cannot use an induction theorem that takes an operator *)
(* as a parameter; a least element of a set of numbers does instead.       *)
LEMMA LeastNat ==
  ASSUME NEW T \in SUBSET Nat, T # {}
  PROVE  \E x \in T : \A y \in T : x <= y
<1> DEFINE R == OpToRel(<, Nat)
<1>1. \E x \in T : \A y \in T : ~(<<y, x>> \in R)
  <2>1. IsWellFoundedOn(R, Nat)
    BY NatLessThanWellFounded
  <2> HIDE DEF R
  <2> QED
    BY <2>1, WFMin
<1>2. \A x, y \in Nat : y < x => <<y, x>> \in R
  BY DEF OpToRel
<1>3. \A x, y \in T : ~(<<y, x>> \in R) => x <= y
  <2>1. \A x, y \in Nat : x <= y \/ y < x
    OBVIOUS
  <2> HIDE DEF R
  <2> QED
    BY <1>2, <2>1
<1> HIDE DEF R
<1> QED
  BY <1>1, <1>3, Zenon


----------------------------------------------------------------------------
(* Places of a text.                                                       *)

TextOK == source \in Seq(STRING)

LEMMA ByteFacts ==
  ASSUME TextOK, NEW p \in Nat
  PROVE  /\ Len(source) \in Nat
         /\ p < Len(source) => byte(p) = source[p+1] /\ byte(p) \in STRING
         /\ p >= Len(source) => byte(p) = "NUL"
BY DEF TextOK, byte

LEMMA SubSeqFacts ==
  ASSUME NEW S, NEW s \in Seq(S), NEW i \in Nat, NEW j \in Nat, i <= j, j <= Len(s)
  PROVE  /\ SubSeq(s, i+1, j) \in Seq(S)
         /\ Len(SubSeq(s, i+1, j)) = j - i
         /\ \A k \in 1..j-i : SubSeq(s, i+1, j)[k] = s[i+k]
<1>1. i+1 \in 1..Len(s)+1 /\ j \in i..Len(s)
  OBVIOUS
<1>2. SubSeq(s, i+1, j) = [k \in 1..j-i |-> s[i+k]]
  OBVIOUS
<1>3. \A k \in 1..j-i : s[i+k] \in S
  <2> TAKE k \in 1..j-i
  <2>1. i+k \in 1..Len(s)
    OBVIOUS
  <2> QED
    BY <2>1
<1> DEFINE t == [k \in 1..j-i |-> s[i+k]]
<1>4. t \in Seq(S) /\ Len(t) = j - i
  <2>1. j - i \in Nat
    BY <1>1
  <2>2. t \in [1..j-i -> S]
    BY <1>3
  <2> HIDE DEF t
  <2> QED
    BY <2>1, <2>2
<1> QED
  BY <1>2, <1>4

LEMMA TextFacts ==
  ASSUME TextOK, NEW p \in 0..Len(source), NEW q \in p..Len(source)
  PROVE  /\ Len(Text(p, q)) = q - p
         /\ Text(p, q) \in Seq(STRING)
         /\ \A j \in 1..q-p : Text(p, q)[j] = byte(p + j - 1)
<1>1. Len(source) \in Nat
  BY DEF TextOK
<1>2. p \in Nat /\ q \in Nat /\ p <= q /\ q <= Len(source)
  BY <1>1
<1>3. \A j \in 1..q-p : source[p+j] = byte(p+j-1)
  <2> TAKE j \in 1..q-p
  <2>1. p + j - 1 < Len(source) /\ p + j - 1 + 1 = p + j
    BY <1>1, <1>2
  <2> QED
    BY <2>1 DEF byte
<1>4. /\ SubSeq(source, p+1, q) \in Seq(STRING)
      /\ Len(SubSeq(source, p+1, q)) = q - p
      /\ \A k \in 1..q-p : SubSeq(source, p+1, q)[k] = source[p+k]
  BY <1>2, SubSeqFacts, Zenon DEF TextOK
<1> QED
  BY <1>3, <1>4 DEF Text

LEMMA AfterFacts ==
  ASSUME TextOK, NEW p \in 0..Len(source), NEW set, "NUL" \notin set
  PROVE  /\ After(p, set) \in p..Len(source)
         /\ byte(After(p, set)) \notin set
         /\ \A r \in p..After(p, set)-1 : byte(r) \in set
<1>1. Len(source) \in Nat
  BY DEF TextOK
<1> DEFINE Ends == {q \in p..Len(source) : byte(q) \notin set}
<1>2. Len(source) \in Ends
  BY <1>1 DEF byte
<1>3. Ends \in SUBSET Nat /\ Ends # {}
  BY <1>1, <1>2
<1>4. PICK q \in Ends : \A r \in Ends : q <= r
  <2> HIDE DEF Ends
  <2> QED
    BY <1>3, LeastNat
<1>5. \A r \in p..q-1 : byte(r) \in set
  BY <1>1, <1>4
<1>6. q \in p..Len(source) /\ byte(q) \notin set
  BY <1>4
<1> QED
  BY <1>5, <1>6 DEF After

LEMMA BeforeFacts ==
  ASSUME TextOK, NEW p \in 0..Len(source), NEW set, "NUL" \in set
  PROVE  /\ Before(p, set) \in p..Len(source)
         /\ byte(Before(p, set)) \in set
         /\ \A r \in p..Before(p, set)-1 : byte(r) \notin set
<1>1. Len(source) \in Nat
  BY DEF TextOK
<1> DEFINE Ends == {q \in p..Len(source) : byte(q) \in set}
<1>2. Len(source) \in Ends
  BY <1>1 DEF byte
<1>3. Ends \in SUBSET Nat /\ Ends # {}
  BY <1>1, <1>2
<1>4. PICK q \in Ends : \A r \in Ends : q <= r
  <2> HIDE DEF Ends
  <2> QED
    BY <1>3, LeastNat
<1>5. \A r \in p..q-1 : byte(r) \notin set
  BY <1>1, <1>4
<1>6. q \in p..Len(source) /\ byte(q) \in set
  BY <1>4
<1> QED
  BY <1>5, <1>6 DEF Before

----------------------------------------------------------------------------
(* Lexemes, by the bytes they are made of.                                 *)

Within(p, q, set) == \A r \in p..q-1 : byte(r) \in set
IsBlank(p, q) == q = p+1 /\ byte(p) \in Blanks \cup {"LF"}
IsComment(p, q) == q >= p+2 /\ byte(p) = "/" /\ byte(p+1) = "/" /\ \A r \in p..q-1 : byte(r) # "LF"
OneDot(p, q) == \A r, d \in p..q-1 : byte(r) = "." /\ byte(d) = "." => r = d
IsNumber(p, q) == byte(p) \in Digits /\ Within(p, q, Digits \cup {"."}) /\ OneDot(p, q)
IsName(p, q) == byte(p) \in Letters /\ Within(p, q, Letters \cup Digits)
IsOperator(p, q) == q = p+1 /\ byte(p) \in DOMAIN Operators
IsEquals(p, q) == q = p+2 /\ byte(p) \in DOMAIN Equals /\ byte(p+1) = "="

LEMMA Alphabet ==
  /\ \A b \in Digits : b \notin Letters /\ b \notin Blanks \cup {"LF", "NUL", "/", "."} \cup DOMAIN Operators \cup DOMAIN Equals
  /\ \A b \in Letters : b \notin Digits /\ b \notin Blanks \cup {"LF", "NUL", "/", "."} \cup DOMAIN Operators \cup DOMAIN Equals
  /\ \A b \in Blanks \cup {"LF"} : b \notin {"NUL", "/", "."} \cup DOMAIN Operators \cup DOMAIN Equals
  /\ {"NUL", "."} \cap (DOMAIN Operators \cup DOMAIN Equals) = {} /\ "/" \notin DOMAIN Equals
  /\ \A b \in DOMAIN Operators : Operators[b] \notin {"", "none"}
  /\ \A b \in DOMAIN Equals : Equals[b] \notin {"", "none"}
  /\ \A s : lookupKeyword(s) \notin {"", "none"}
BY AlphabetAssumption, KeywordsAssumption DEF Others, Blanks, Operators, Equals, lookupKeyword

LEMMA TypeFacts ==
  ASSUME TextOK, NEW p \in 0..Len(source), NEW q \in p+1..Len(source)
  PROVE  /\ IsBlank(p, q) => Type(Text(p, q)) = ""
         /\ IsComment(p, q) => Type(Text(p, q)) = ""
         /\ IsNumber(p, q) => Type(Text(p, q)) = "NUMBER"
         /\ IsName(p, q) => Type(Text(p, q)) = lookupKeyword(Text(p, q))
         /\ IsOperator(p, q) => Type(Text(p, q)) = Operators[byte(p)]
         /\ IsEquals(p, q) => Type(Text(p, q)) = Equals[byte(p)]
         /\ Type(Text(p, q)) # "none" =>
              IsBlank(p, q) \/ IsComment(p, q) \/ IsNumber(p, q) \/ IsName(p, q) \/ IsOperator(p, q) \/ IsEquals(p, q)
<1> DEFINE s == Text(p, q)
<1>1. p \in Nat /\ q \in Nat /\ p < q /\ q <= Len(source) /\ Len(source) \in Nat
  BY DEF TextOK
<1>2. /\ Len(s) = q - p /\ s \in Seq(STRING)
      /\ \A j \in 1..q-p : s[j] = byte(p + j - 1)
  BY <1>1, TextFacts
<1>3. s[1] = byte(p) /\ (q >= p + 2 => s[2] = byte(p+1))
  <2>1. 1 \in 1..q-p /\ p + 1 - 1 = p
    BY <1>1
  <2>2. q >= p + 2 => 2 \in 1..q-p /\ p + 2 - 1 = p + 1
    BY <1>1
  <2> QED
    BY <1>2, <2>1, <2>2
<1>4. /\ \A j \in 1..q-p : p+j-1 \in p..q-1
      /\ \A r \in p..q-1 : r-p+1 \in 1..q-p /\ p + (r-p+1) - 1 = r
  BY <1>1
<1>5. ASSUME NEW set PROVE (\A j \in 1..q-p : s[j] \in set) <=> Within(p, q, set)
  <2>1. ASSUME \A j \in 1..q-p : s[j] \in set, NEW r \in p..q-1 PROVE byte(r) \in set
    <3>1. r-p+1 \in 1..q-p /\ s[r-p+1] = byte(r)
      BY <1>2, <1>4
    <3> QED
      BY <2>1, <3>1, Zenon
  <2>2. ASSUME Within(p, q, set), NEW j \in 1..q-p PROVE s[j] \in set
    BY <1>2, <1>4, <2>2, Zenon DEF Within
  <2> QED
    BY <2>1, <2>2, Zenon DEF Within
<1>6. (\A i, j \in 1..q-p : s[i] = "." /\ s[j] = "." => i = j) <=> OneDot(p, q)
  <2>1. ASSUME \A i, j \in 1..q-p : s[i] = "." /\ s[j] = "." => i = j, NEW r \in p..q-1, NEW d \in p..q-1,
               byte(r) = ".", byte(d) = "."
        PROVE  r = d
    <3>1. r-p+1 \in 1..q-p /\ d-p+1 \in 1..q-p /\ s[r-p+1] = "." /\ s[d-p+1] = "."
      BY <1>2, <1>4, <2>1
    <3>2. r-p+1 = d-p+1
      BY <2>1, <3>1
    <3> QED
      BY <1>1, <3>2
  <2>2. ASSUME OneDot(p, q), NEW i \in 1..q-p, NEW j \in 1..q-p, s[i] = ".", s[j] = "." PROVE i = j
    <3>1. p+i-1 \in p..q-1 /\ p+j-1 \in p..q-1 /\ byte(p+i-1) = "." /\ byte(p+j-1) = "."
      BY <1>2, <1>4, <2>2
    <3>2. p+i-1 = p+j-1
      BY <2>2, <3>1 DEF OneDot
    <3> QED
      BY <1>1, <3>2
  <2> QED
    BY <2>1, <2>2 DEF OneDot
<1>7. (\A j \in 1..q-p : s[j] \in STRING \ {"LF"}) <=> \A r \in p..q-1 : byte(r) # "LF"
  <2>1. \A j \in 1..q-p : s[j] \in STRING
    <3>1. \A j \in 1..q-p : j \in 1..Len(s)
      BY <1>2
    <3> QED
      BY <1>2, <3>1
  <2>2. (\A j \in 1..q-p : s[j] \in STRING \ {"LF"}) <=> \A j \in 1..q-p : s[j] # "LF"
    BY <2>1, Zenon
  <2>3. ASSUME \A j \in 1..q-p : s[j] # "LF", NEW r \in p..q-1 PROVE byte(r) # "LF"
    <3>1. r-p+1 \in 1..q-p /\ s[r-p+1] = byte(r)
      BY <1>2, <1>4
    <3> QED
      BY <2>3, <3>1, Zenon
  <2>4. ASSUME \A r \in p..q-1 : byte(r) # "LF", NEW j \in 1..q-p PROVE s[j] # "LF"
    <3>1. p+j-1 \in p..q-1 /\ s[j] = byte(p+j-1)
      BY <1>2, <1>4
    <3> QED
      BY <2>4, <3>1, Zenon
  <2> QED
    BY <2>2, <2>3, <2>4, Zenon
<1> DEFINE comment == Len(s) > 1 /\ s[1] = "/" /\ s[2] = "/" /\ \A j \in 1..Len(s) : s[j] \in STRING \ {"LF"}
           number == s[1] \in Digits /\ (\A j \in 1..Len(s) : s[j] \in Digits \cup {"."}) /\ (\A i, j \in 1..Len(s) : s[i] = "." /\ s[j] = "." => i = j)
           name == s[1] \in Letters /\ \A j \in 1..Len(s) : s[j] \in Letters \cup Digits
<1>8. (Len(s) = 1 <=> q = p + 1) /\ (Len(s) > 1 <=> q >= p + 2) /\ (Len(s) = 2 <=> q = p + 2)
  BY <1>1, <1>2
<1>9. (comment <=> IsComment(p, q)) /\ (number <=> IsNumber(p, q)) /\ (name <=> IsName(p, q))
  BY <1>2, <1>3, <1>5, <1>6, <1>7, <1>8 DEF IsComment, IsNumber, IsName
<1>10. Type(s) = CASE Len(s) = 1 /\ s[1] \in Blanks \cup {"LF"} -> ""
                   [] comment -> "" [] number -> "NUMBER" [] name -> lookupKeyword(s)
                   [] Len(s) = 1 /\ s[1] \in DOMAIN Operators -> Operators[s[1]]
                   [] Len(s) = 2 /\ s[1] \in DOMAIN Equals /\ s[2] = "=" -> Equals[s[1]]
                   [] OTHER -> "none"
  BY DEF Type
<1> DEFINE type == Type(s)

<1>12. /\ IsBlank(p, q) => ~IsComment(p, q) /\ ~IsNumber(p, q) /\ ~IsName(p, q) /\ ~IsOperator(p, q) /\ ~IsEquals(p, q)
       /\ IsComment(p, q) => ~IsNumber(p, q) /\ ~IsName(p, q) /\ ~IsOperator(p, q) /\ ~IsEquals(p, q)
       /\ IsNumber(p, q) => ~IsName(p, q) /\ ~IsOperator(p, q) /\ ~IsEquals(p, q)
       /\ IsName(p, q) => ~IsOperator(p, q) /\ ~IsEquals(p, q)
       /\ IsOperator(p, q) => ~IsEquals(p, q)
  <2> DEFINE b == byte(p)
  <2>1. IsBlank(p, q) => q = p+1 /\ b \in Blanks \cup {"LF"}
    BY DEF IsBlank
  <2>2. IsComment(p, q) => q >= p+2 /\ b = "/"
    BY DEF IsComment
  <2>3. (IsNumber(p, q) => b \in Digits) /\ (IsName(p, q) => b \in Letters)
    BY DEF IsNumber, IsName
  <2>4. (IsOperator(p, q) => q = p+1 /\ b \in DOMAIN Operators) /\ (IsEquals(p, q) => q = p+2 /\ b \in DOMAIN Equals)
    BY DEF IsOperator, IsEquals
  <2>5. q = p+1 => ~(q >= p+2) /\ q # p+2
    BY <1>1
  <2> HIDE DEF b
  <2> QED
    BY <2>1, <2>2, <2>3, <2>4, <2>5, Alphabet
<1>11. /\ Len(s) = 1 /\ s[1] \in Blanks \cup {"LF"} <=> IsBlank(p, q)
       /\ Len(s) = 1 /\ s[1] \in DOMAIN Operators <=> IsOperator(p, q)
       /\ Len(s) = 2 /\ s[1] \in DOMAIN Equals /\ s[2] = "=" <=> IsEquals(p, q)
  <2>1. Len(s) = 2 => s[2] = byte(p+1)
    BY <1>1, <1>3, <1>8
  <2> HIDE DEF s
  <2> QED
    BY <1>3, <1>8, <2>1, Zenon DEF IsBlank, IsOperator, IsEquals
<1> HIDE DEF s, type, comment, number, name
<1>13. /\ IsBlank(p, q) => type = ""
       /\ IsComment(p, q) => type = ""
       /\ IsNumber(p, q) => type = "NUMBER"
       /\ IsName(p, q) => type = lookupKeyword(s)
       /\ IsOperator(p, q) => type = Operators[byte(p)]
       /\ IsEquals(p, q) => type = Equals[byte(p)]
       /\ type # "none" =>
            IsBlank(p, q) \/ IsComment(p, q) \/ IsNumber(p, q) \/ IsName(p, q) \/ IsOperator(p, q) \/ IsEquals(p, q)
  <2>1. type = CASE Len(s) = 1 /\ s[1] \in Blanks \cup {"LF"} -> ""
                   [] comment -> "" [] number -> "NUMBER" [] name -> lookupKeyword(s)
                   [] Len(s) = 1 /\ s[1] \in DOMAIN Operators -> Operators[s[1]]
                   [] Len(s) = 2 /\ s[1] \in DOMAIN Equals /\ s[2] = "=" -> Equals[s[1]]
                   [] OTHER -> "none"
    BY <1>10 DEF type
  <2> QED
    BY <1>3, <1>9, <1>11, <1>12, <2>1
<1> QED
  BY <1>13, Zenon DEF s, type

NulFree == \A j \in 1..Len(source) : source[j] # "NUL"

LEMMA ByteNotNul ==
  ASSUME TextOK, NulFree, NEW p \in Nat, p < Len(source) PROVE byte(p) # "NUL"
<1>1. p+1 \in 1..Len(source)
  BY DEF TextOK
<1> QED
  BY <1>1 DEF byte, NulFree

(* A lexeme is the longest if those that begin like it are not longer.     *)
LEMMA BlankLexeme ==
  ASSUME TextOK, NEW p \in Nat, p < Len(source), byte(p) \in Blanks \cup {"LF"}
  PROVE  Longest(p, p+1) /\ Type(Text(p, p+1)) = ""
<1>1. p \in 0..Len(source) /\ p+1 \in p+1..Len(source) /\ Len(source) \in Nat
  BY DEF TextOK
<1>2. Type(Text(p, p+1)) = ""
  BY <1>1, TypeFacts DEF IsBlank
<1>3. ASSUME NEW r \in p+1+1..Len(source) PROVE Type(Text(p, r)) = "none"
  <2>1. r \in p+1..Len(source) /\ r # p+1
    BY <1>1
  <2>2. ~IsBlank(p, r)
    BY <2>1 DEF IsBlank
  <2>3. ~IsComment(p, r) /\ ~IsNumber(p, r) /\ ~IsName(p, r) /\ ~IsOperator(p, r) /\ ~IsEquals(p, r)
    BY Alphabet DEF IsComment, IsNumber, IsName, IsOperator, IsEquals
  <2> QED
    BY <1>1, <2>1, <2>2, <2>3, TypeFacts
<1> QED
  BY <1>1, <1>2, <1>3 DEF Longest

LEMMA CommentLexeme ==
  ASSUME TextOK, NulFree, NEW p \in Nat, p < Len(source), byte(p) = "/", byte(p+1) = "/"
  PROVE  LET q == Before(p, {"LF", "NUL"})
         IN /\ q \in p+2..Len(source) /\ byte(q) \in {"LF", "NUL"}
            /\ \A r \in p..q-1 : byte(r) # "LF"
            /\ Longest(p, q) /\ Type(Text(p, q)) = ""
<1> DEFINE q == Before(p, {"LF", "NUL"})
<1>1. p \in 0..Len(source) /\ Len(source) \in Nat
  BY DEF TextOK
<1>2. q \in p..Len(source) /\ byte(q) \in {"LF", "NUL"} /\ \A r \in p..q-1 : byte(r) \notin {"LF", "NUL"}
  BY <1>1, BeforeFacts
<1> HIDE DEF q
<1>3. q # p /\ q # p+1
  BY <1>2
<1>4. q \in p+2..Len(source)
  BY <1>1, <1>2, <1>3
<1>5. IsComment(p, q)
  BY <1>1, <1>2, <1>4 DEF IsComment
<1>6. Type(Text(p, q)) = ""
  <2>1. q \in p+1..Len(source)
    BY <1>1, <1>4
  <2> QED
    BY <1>1, <1>5, <2>1, TypeFacts
<1>7. ASSUME NEW r \in q+1..Len(source) PROVE Type(Text(p, r)) = "none"
  <2>1. r \in p+1..Len(source) /\ r > p+2 /\ q < Len(source) /\ q \in p..r-1 /\ q \in Nat
    BY <1>1, <1>4
  <2>2. byte(q) = "LF"
    BY <1>2, <2>1, ByteNotNul
  <2>3. ~IsComment(p, r)
    BY <2>1, <2>2 DEF IsComment
  <2>4. ~IsBlank(p, r) /\ ~IsOperator(p, r) /\ ~IsEquals(p, r)
    BY <1>1, <2>1 DEF IsBlank, IsOperator, IsEquals
  <2>5. ~IsNumber(p, r) /\ ~IsName(p, r)
    BY Alphabet DEF IsNumber, IsName
  <2> QED
    BY <1>1, <2>1, <2>3, <2>4, <2>5, TypeFacts
<1>8. Longest(p, q)
  <2>1. q \in p+1..Len(source)
    BY <1>1, <1>4
  <2>2. Type(Text(p, q)) # "none"
    BY <1>6
  <2> QED
    BY <2>1, <2>2, <1>7, Zenon DEF Longest
<1> QED
  BY <1>2, <1>4, <1>6, <1>8 DEF q

LEMMA NameLexeme ==
  ASSUME TextOK, NEW p \in Nat, p < Len(source), byte(p) \in Letters
  PROVE  LET q == After(p, Letters \cup Digits)
         IN /\ q \in p+1..Len(source) /\ \A r \in p..q-1 : byte(r) # "LF"
            /\ Longest(p, q) /\ Type(Text(p, q)) = lookupKeyword(Text(p, q))
<1> DEFINE q == After(p, Letters \cup Digits)
<1>1. p \in 0..Len(source) /\ Len(source) \in Nat
  BY DEF TextOK
<1>2. "NUL" \notin Letters \cup Digits
  BY Alphabet
<1>3. q \in p..Len(source) /\ byte(q) \notin Letters \cup Digits /\ \A r \in p..q-1 : byte(r) \in Letters \cup Digits
  BY <1>1, <1>2, AfterFacts
<1> HIDE DEF q
<1>4. q \in p+1..Len(source)
  <2>1. q # p
    BY <1>3
  <2> QED
    BY <1>1, <1>3, <2>1
<1>5. IsName(p, q)
  BY <1>3 DEF IsName, Within
<1>6. Type(Text(p, q)) = lookupKeyword(Text(p, q))
  BY <1>1, <1>4, <1>5, TypeFacts
<1>7. ASSUME NEW r \in q+1..Len(source) PROVE Type(Text(p, r)) = "none"
  <2>1. r \in p+1..Len(source) /\ r > p+1 /\ q \in p..r-1
    BY <1>1, <1>4
  <2>2. ~IsName(p, r)
    BY <1>3, <2>1 DEF IsName, Within
  <2>3. ~IsBlank(p, r) /\ ~IsOperator(p, r)
    BY <1>1, <2>1 DEF IsBlank, IsOperator
  <2>4. ~IsNumber(p, r) /\ ~IsComment(p, r) /\ ~IsEquals(p, r)
    BY Alphabet DEF IsNumber, IsComment, IsEquals
  <2> QED
    BY <1>1, <2>1, <2>2, <2>3, <2>4, TypeFacts
<1>8. Type(Text(p, q)) # "none"
  BY <1>6, Alphabet
<1>9. Longest(p, q)
  BY <1>4, <1>7, <1>8, Zenon DEF Longest
<1>10. \A r \in p..q-1 : byte(r) # "LF"
  BY <1>3, Alphabet
<1> QED
  BY <1>4, <1>6, <1>9, <1>10, Zenon DEF q

(* The digits and dots from p on; the number ends before the second dot.   *)
LEMMA NumberLexeme ==
  ASSUME TextOK, NEW p \in Nat, p < Len(source), byte(p) \in Digits
  PROVE  LET q == After(p, Digits \cup {"."})
         IN /\ q \in p+1..Len(source) /\ \A r \in p..q-1 : byte(r) # "LF"
            /\ OneDot(p, q) => Longest(p, q) /\ Type(Text(p, q)) = "NUMBER"
            /\ ~OneDot(p, q) => \E e \in p+1..q-1 : Longest(p, e) /\ Type(Text(p, e)) = "NUMBER" /\ byte(e) = "."
<1> DEFINE q == After(p, Digits \cup {"."})
<1>1. p \in 0..Len(source) /\ Len(source) \in Nat
  BY DEF TextOK
<1>2. "NUL" \notin Digits \cup {"."}
  BY Alphabet
<1>3. q \in p..Len(source) /\ byte(q) \notin Digits \cup {"."} /\ \A r \in p..q-1 : byte(r) \in Digits \cup {"."}
  BY <1>1, <1>2, AfterFacts
<1> HIDE DEF q
<1>4. q \in p+1..Len(source)
  <2>1. q # p
    BY <1>3
  <2> QED
    BY <1>1, <1>3, <2>1
<1>5. ASSUME NEW r \in p+2..Len(source), ~IsNumber(p, r) PROVE Type(Text(p, r)) = "none"
  <2>1. r \in p+1..Len(source) /\ r > p+1
    BY <1>1
  <2>2. ~IsBlank(p, r) /\ ~IsOperator(p, r)
    BY <1>1, <2>1 DEF IsBlank, IsOperator
  <2>3. ~IsName(p, r) /\ ~IsComment(p, r) /\ ~IsEquals(p, r)
    BY Alphabet DEF IsName, IsComment, IsEquals
  <2> QED
    BY <1>1, <1>5, <2>1, <2>2, <2>3, TypeFacts
<1>6. ASSUME OneDot(p, q) PROVE Longest(p, q) /\ Type(Text(p, q)) = "NUMBER"
  <2>1. IsNumber(p, q)
    BY <1>3, <1>6 DEF IsNumber, Within
  <2>2. Type(Text(p, q)) = "NUMBER"
    BY <1>1, <1>4, <2>1, TypeFacts
  <2>3. ASSUME NEW r \in q+1..Len(source) PROVE Type(Text(p, r)) = "none"
    <3>1. r \in p+2..Len(source) /\ q \in p..r-1
      BY <1>1, <1>4
    <3>2. ~IsNumber(p, r)
      BY <1>3, <3>1 DEF IsNumber, Within
    <3> QED
      BY <1>5, <3>1, <3>2
  <2>4. Type(Text(p, q)) # "none"
    BY <2>2
  <2> QED
    BY <1>4, <2>2, <2>3, <2>4, Zenon DEF Longest
<1>7. ASSUME ~OneDot(p, q)
      PROVE  \E e \in p+1..q-1 : Longest(p, e) /\ Type(Text(p, e)) = "NUMBER" /\ byte(e) = "."
  <2> DEFINE Second == {e \in p..q-1 : byte(e) = "." /\ \E d \in p..e-1 : byte(d) = "."}
  <2>1. Second # {} /\ Second \subseteq Nat
    <3>1. PICK r \in p..q-1, d \in p..q-1 : byte(r) = "." /\ byte(d) = "." /\ r # d
      BY <1>7 DEF OneDot
    <3>2. r \in p..d-1 \/ d \in p..r-1
      BY <1>1, <1>4, <3>1
    <3> QED
      BY <1>1, <3>1, <3>2
  <2>2. PICK e \in Second : \A x \in Second : e <= x
    <3> HIDE DEF Second
    <3> QED
      BY <2>1, LeastNat
  <2>3. PICK d \in p..e-1 : byte(d) = "." /\ byte(e) = "." /\ e \in p..q-1
    BY <2>2
  <2>4. e \in p+1..q-1 /\ e \in p+1..Len(source) /\ e \in Nat
    BY <1>1, <1>4, <2>3
  <2>5. OneDot(p, e)
    <3> SUFFICES ASSUME NEW x \in p..e-1, NEW y \in p..e-1, byte(x) = ".", byte(y) = ".", x < y PROVE FALSE
      BY <1>1, <2>4 DEF OneDot
    <3>1. y \in Second
      BY <1>1, <1>4, <2>4
    <3> QED
      BY <1>1, <2>2, <2>4, <3>1
  <2>6. IsNumber(p, e)
    BY <1>1, <1>3, <1>4, <2>4, <2>5 DEF IsNumber, Within
  <2>7. Type(Text(p, e)) = "NUMBER"
    BY <1>1, <2>4, <2>6, TypeFacts
  <2>8. ASSUME NEW r \in e+1..Len(source) PROVE Type(Text(p, r)) = "none"
    <3>1. r \in p+2..Len(source) /\ e \in p..r-1 /\ d \in p..r-1 /\ d # e
      BY <1>1, <2>3, <2>4
    <3>2. ~IsNumber(p, r)
      BY <2>3, <3>1 DEF IsNumber, OneDot
    <3> QED
      BY <1>5, <3>1, <3>2
  <2>9. Type(Text(p, e)) # "none"
    BY <2>7
  <2>10. Longest(p, e)
    BY <2>4, <2>8, <2>9, Zenon DEF Longest
  <2> QED
    BY <2>3, <2>4, <2>7, <2>10
<1>8. \A r \in p..q-1 : byte(r) # "LF"
  BY <1>3, Alphabet
<1> QED
  BY <1>4, <1>6, <1>7, <1>8, Zenon DEF q

(* The rest: what readOperator does where no comment begins.               *)
OtherByte(p) == byte(p) \notin Digits \cup Letters \cup Blanks \cup {"LF", "NUL"}
NoComment(p) == ~(byte(p) = "/" /\ byte(p+1) = "/")

LEMMA EqualsLexeme ==
  ASSUME TextOK, NEW p \in Nat, p < Len(source), byte(p) \in DOMAIN Equals, byte(p+1) = "="
  PROVE  p+2 \in p+1..Len(source) /\ Longest(p, p+2) /\ Type(Text(p, p+2)) = Equals[byte(p)]
<1>1. p \in 0..Len(source) /\ Len(source) \in Nat
  BY DEF TextOK
<1>2. p+1 < Len(source)
  BY <1>1, ByteFacts
<1>3. p+2 \in p+1..Len(source)
  BY <1>1, <1>2
<1>4. Type(Text(p, p+2)) = Equals[byte(p)]
  BY <1>1, <1>3, TypeFacts DEF IsEquals
<1>5. ASSUME NEW r \in p+2+1..Len(source) PROVE Type(Text(p, r)) = "none"
  <2>1. r \in p+1..Len(source) /\ r > p+2
    BY <1>1
  <2>2. ~IsBlank(p, r) /\ ~IsOperator(p, r) /\ ~IsEquals(p, r)
    BY <1>1, <2>1 DEF IsBlank, IsOperator, IsEquals
  <2>3. ~IsNumber(p, r) /\ ~IsName(p, r) /\ ~IsComment(p, r)
    BY Alphabet DEF IsNumber, IsName, IsComment
  <2> QED
    BY <1>1, <2>1, <2>2, <2>3, TypeFacts
<1>6. Type(Text(p, p+2)) # "none"
  BY <1>4, Alphabet
<1>7. Longest(p, p+2)
  BY <1>3, <1>5, <1>6, Zenon DEF Longest
<1> QED
  BY <1>3, <1>4, <1>7

LEMMA OtherTypes ==
  ASSUME TextOK, NEW p \in Nat, p < Len(source), OtherByte(p), NoComment(p), ~(byte(p) \in DOMAIN Equals /\ byte(p+1) = "="),
         NEW r \in p+1..Len(source)
  PROVE  ~IsOperator(p, r) => Type(Text(p, r)) = "none"
<1>1. p \in 0..Len(source)
  BY DEF TextOK
<1>2. ~IsBlank(p, r) /\ ~IsNumber(p, r) /\ ~IsName(p, r) /\ ~IsComment(p, r) /\ ~IsEquals(p, r)
  BY DEF OtherByte, NoComment, IsBlank, IsNumber, IsName, IsComment, IsEquals
<1> QED
  BY <1>1, <1>2, TypeFacts

LEMMA OperatorLexeme ==
  ASSUME TextOK, NEW p \in Nat, p < Len(source), OtherByte(p), NoComment(p), ~(byte(p) \in DOMAIN Equals /\ byte(p+1) = "="),
         byte(p) \in DOMAIN Operators
  PROVE  p+1 \in p+1..Len(source) /\ Longest(p, p+1) /\ Type(Text(p, p+1)) = Operators[byte(p)]
<1>1. p \in 0..Len(source) /\ p+1 \in p+1..Len(source) /\ Len(source) \in Nat
  BY DEF TextOK
<1>2. Type(Text(p, p+1)) = Operators[byte(p)]
  BY <1>1, TypeFacts DEF IsOperator
<1>3. ASSUME NEW r \in p+1+1..Len(source) PROVE Type(Text(p, r)) = "none"
  <2>1. r \in p+1..Len(source) /\ r # p+1
    BY <1>1
  <2> QED
    BY <2>1, OtherTypes DEF IsOperator
<1>4. Type(Text(p, p+1)) # "none"
  BY <1>2, Alphabet
<1>5. Longest(p, p+1)
  BY <1>1, <1>3, <1>4, Zenon DEF Longest
<1> QED
  BY <1>1, <1>2, <1>5

LEMMA NoLexeme ==
  ASSUME TextOK, NEW p \in Nat, p < Len(source),
         (OtherByte(p) /\ NoComment(p) /\ ~(byte(p) \in DOMAIN Equals /\ byte(p+1) = "=") /\ byte(p) \notin DOMAIN Operators)
           \/ byte(p) = "."
  PROVE  \A r \in p+1..Len(source) : Type(Text(p, r)) = "none"
<1> SUFFICES ASSUME NEW r \in p+1..Len(source) PROVE Type(Text(p, r)) = "none"
  OBVIOUS
<1>1. p \in 0..Len(source)
  BY DEF TextOK
<1>2. ~IsBlank(p, r) /\ ~IsNumber(p, r) /\ ~IsName(p, r) /\ ~IsComment(p, r) /\ ~IsEquals(p, r) /\ ~IsOperator(p, r)
  BY Alphabet DEF OtherByte, NoComment, IsBlank, IsNumber, IsName, IsComment, IsEquals, IsOperator
<1> QED
  BY <1>1, <1>2, TypeFacts

LEMMA OneEnd ==
  ASSUME TextOK, NEW p \in Nat, NEW q, Longest(p, q)
  PROVE  EndOf(p) = q /\ q \in p+1..Len(source)
<1>1. q \in p+1..Len(source)
  BY DEF Longest
<1>2. ASSUME NEW r \in p+1..Len(source), Longest(p, r) PROVE r = q
  <2>1. r \in q+1..Len(source) \/ q \in r+1..Len(source) \/ r = q
    BY <1>1 DEF TextOK
  <2> QED
    BY <1>2, <2>1 DEF Longest
<1> QED
  BY <1>1, <1>2 DEF EndOf

----------------------------------------------------------------------------
(* Lines, and the places where a text is cut.                              *)

LEMMA FeedsFinite ==
  ASSUME NEW p \in Nat
  PROVE  IsFiniteSet({j \in 1..p : source[j] = "LF"}) /\ LineOf(p) \in Nat
<1>1. IsFiniteSet(1..p) /\ {j \in 1..p : source[j] = "LF"} \in SUBSET (1..p)
  BY FS_Interval
<1>2. IsFiniteSet({j \in 1..p : source[j] = "LF"})
  BY <1>1, FS_Subset
<1>3. Cardinality({j \in 1..p : source[j] = "LF"}) \in Nat
  BY <1>2, FS_CardinalityType
<1> QED
  BY <1>2, <1>3 DEF LineOf

LEMMA SameLine ==
  ASSUME TextOK, NEW p \in Nat, NEW q \in p..Len(source), \A r \in p..q-1 : byte(r) # "LF"
  PROVE  LineOf(q) = LineOf(p)
<1>1. Len(source) \in Nat /\ q \in Nat
  BY DEF TextOK
<1>2. \A j \in 1..q : source[j] = "LF" => j \in 1..p
  <2> SUFFICES ASSUME NEW j \in 1..q, j > p PROVE source[j] # "LF"
    BY <1>1
  <2>1. j-1 \in p..q-1 /\ j-1 < Len(source) /\ j-1+1 = j
    BY <1>1
  <2> QED
    BY <2>1 DEF byte
<1>3. \A j \in 1..p : j \in 1..q
  BY <1>1
<1>4. {j \in 1..q : source[j] = "LF"} = {j \in 1..p : source[j] = "LF"}
  BY <1>2, <1>3, Zenon
<1> QED
  BY <1>4 DEF LineOf

LEMMA NextLine ==
  ASSUME TextOK, NEW p \in Nat, p < Len(source), byte(p) = "LF"
  PROVE  LineOf(p+1) = LineOf(p) + 1
<1> DEFINE feeds == {j \in 1..p : source[j] = "LF"}
<1>1. source[p+1] = "LF"
  BY DEF byte
<1>2. {j \in 1..p+1 : source[j] = "LF"} = feeds \cup {p+1}
  BY <1>1
<1>3. IsFiniteSet(feeds) /\ p+1 \notin feeds
  BY FeedsFinite
<1> HIDE DEF feeds
<1>4. Cardinality(feeds \cup {p+1}) = Cardinality(feeds) + 1
  BY <1>3, FS_AddElement
<1>5. Cardinality(feeds) \in Nat
  BY <1>3, FS_CardinalityType
<1>6. LineOf(p+1) = 1 + Cardinality(feeds \cup {p+1})
  BY <1>2, Zenon DEF LineOf
<1>7. LineOf(p) = 1 + Cardinality(feeds)
  BY Zenon DEF LineOf, feeds
<1> QED
  BY <1>4, <1>5, <1>6, <1>7

LEMMA CutMore ==
  ASSUME TextOK, NEW p \in Nat, NEW q, NEW C, Cut(C, p), Longest(p, q)
  PROVE  /\ Cut(C \cup {q}, q)
         /\ Type(Text(p, q)) = "" => Given(C \cup {q}, q) = Given(C, p)
         /\ Type(Text(p, q)) # "" => Given(C \cup {q}, q) = Given(C, p) \cup {p}
<1>1. q \in p+1..Len(source) /\ q > p /\ q \in Nat /\ EndOf(p) = q /\ Len(source) \in Nat
  BY OneEnd DEF TextOK
<1>2. C \subseteq 0..p /\ 0 \in C /\ p \in C /\ \A x \in C \ {p} : \E y \in C : Longest(x, y) /\ \A r \in C : r <= x \/ y <= r
  BY DEF Cut
<1>3. C \cup {q} \subseteq 0..q /\ {0, q} \subseteq C \cup {q} /\ q \notin C
  BY <1>1, <1>2
<1>4. ASSUME NEW x \in (C \cup {q}) \ {q}
      PROVE  \E y \in C \cup {q} : Longest(x, y) /\ \A r \in C \cup {q} : r <= x \/ y <= r
  <2>1. CASE x = p
    <3>1. \A r \in C \cup {q} : r <= x \/ q <= r
      BY <1>1, <1>2, <2>1
    <3> QED
      BY <2>1, <3>1
  <2>2. CASE x # p
    <3>1. PICK y \in C : Longest(x, y) /\ \A r \in C : r <= x \/ y <= r
      BY <1>2, <1>4, <2>2
    <3>2. y <= q
      BY <1>1, <1>2
    <3> QED
      BY <3>1, <3>2
  <2> QED
    BY <2>1, <2>2
<1>5. Cut(C \cup {q}, q)
  BY <1>3, <1>4, Zenon DEF Cut
<1>6. (C \cup {q}) \ {q} = (C \ {p}) \cup {p}
  BY <1>2, <1>3
<1>7. Given(C \cup {q}, q) = Given(C, p) \cup {x \in {p} : Type(Text(x, EndOf(x))) # ""}
  BY <1>6, Zenon DEF Given
<1> QED
  BY <1>1, <1>5, <1>7

LEMMA CutBlanks ==
  ASSUME TextOK, NEW p \in Nat, NEW w \in p..Len(source), \A r \in p..w-1 : byte(r) \in Blanks, NEW C, Cut(C, p)
  PROVE  Cut(C \cup p..w, w) /\ Given(C \cup p..w, w) = Given(C, p)
<1>1. Len(source) \in Nat /\ w \in Nat /\ p <= w
  BY DEF TextOK
<1>2. C \subseteq 0..p /\ 0 \in C /\ p \in C /\ \A x \in C \ {p} : \E y \in C : Longest(x, y) /\ \A r \in C : r <= x \/ y <= r
  BY DEF Cut
<1>3. ASSUME NEW x \in p..w-1 PROVE Longest(x, x+1) /\ Type(Text(x, EndOf(x))) = ""
  <2>1. x \in Nat /\ x < Len(source) /\ byte(x) \in Blanks
    BY <1>1
  <2>2. Longest(x, x+1) /\ Type(Text(x, x+1)) = ""
    BY <2>1, BlankLexeme
  <2>3. EndOf(x) = x+1
    BY <2>1, <2>2, OneEnd
  <2> QED
    BY <2>2, <2>3
<1> DEFINE D == C \cup p..w
<1>4. D \subseteq 0..w /\ {0, w} \subseteq D
  BY <1>1, <1>2
<1>5. \A x \in D \ {w} : (x \in C \ {p} /\ x < p) \/ x \in p..w-1
  BY <1>1, <1>2
<1>6. ASSUME NEW x \in D \ {w} PROVE \E y \in D : Longest(x, y) /\ \A r \in D : r <= x \/ y <= r
  <2>1. CASE x \in C \ {p}
    <3>1. PICK y \in C : Longest(x, y) /\ \A r \in C : r <= x \/ y <= r
      BY <1>2, <2>1
    <3>2. \A r \in p..w : y <= r
      BY <1>1, <1>2
    <3> QED
      BY <3>1, <3>2
  <2>2. CASE x \in p..w-1
    <3>1. x+1 \in D /\ \A r \in D : r <= x \/ x+1 <= r
      BY <1>1, <1>2, <2>2
    <3> QED
      BY <1>3, <2>2, <3>1
  <2> QED
    BY <1>5, <2>1, <2>2
<1>7. Cut(D, w)
  BY <1>4, <1>6, Zenon DEF Cut
<1>8. \A x \in C \ {p} : x \in D \ {w}
  BY <1>1, <1>2
<1>9. Given(D, w) = Given(C, p)
  <2>1. ASSUME NEW x \in D \ {w}, Type(Text(x, EndOf(x))) # "" PROVE x \in C \ {p}
    BY <1>3, <1>5, <2>1
  <2> HIDE DEF D
  <2> QED
    BY <1>8, <2>1 DEF Given
<1> QED
  BY <1>7, <1>9

LEMMA GivenFacts ==
  ASSUME NEW p \in Nat, NEW C, Cut(C, p)
  PROVE  IsFiniteSet(Given(C, p)) /\ Given(C, p) \subseteq 0..p-1 /\ p \notin Given(C, p)
<1>1. Given(C, p) \subseteq 0..p-1
  <2> SUFFICES ASSUME NEW x \in Given(C, p) PROVE x \in 0..p-1
    OBVIOUS
  <2>1. x \in C /\ x # p
    BY DEF Given
  <2>2. x \in 0..p
    BY <2>1 DEF Cut
  <2> QED
    BY <2>1, <2>2
<1>2. IsFiniteSet(0..p-1) /\ Given(C, p) \in SUBSET (0..p-1)
  BY <1>1, FS_Interval
<1>3. IsFiniteSet(Given(C, p))
  BY <1>2, FS_Subset
<1> QED
  BY <1>1, <1>3

LEMMA RankMore ==
  ASSUME NEW p \in Nat, NEW P, IsFiniteSet(P), P \subseteq 0..p-1
  PROVE  /\ Cardinality(P) \in Nat
         /\ Cardinality(P \cup {p}) = Cardinality(P) + 1
         /\ Rank(p, P \cup {p}) = Cardinality(P) + 1
         /\ \A x \in P : Rank(x, P \cup {p}) = Rank(x, P) /\ Rank(x, P) \in 1..Cardinality(P)
<1>1. p \notin P
  OBVIOUS
<1>2. Cardinality(P \cup {p}) = Cardinality(P) + 1 /\ Cardinality(P) \in Nat
  BY <1>1, FS_AddElement, FS_CardinalityType
<1>3. {r \in P \cup {p} : r <= p} = P \cup {p}
  <2>1. \A r \in P \cup {p} : r <= p
    OBVIOUS
  <2> QED
    BY <2>1, Zenon
<1>4. ASSUME NEW x \in P PROVE Rank(x, P \cup {p}) = Rank(x, P) /\ Rank(x, P) \in 1..Cardinality(P)
  <2> DEFINE R == {r \in P : r <= x}
  <2>1. {r \in P \cup {p} : r <= x} = R
    BY <1>4
  <2>2. R \in SUBSET P /\ x \in R
    BY <1>4
  <2> HIDE DEF R
  <2>3. IsFiniteSet(R) /\ Cardinality(R) <= Cardinality(P)
    BY <2>2, FS_Subset
  <2>4. Cardinality(R) \in Nat /\ Cardinality(R) # 0
    BY <2>2, <2>3, FS_CardinalityType, FS_EmptySet
  <2>5. Rank(x, P) = Cardinality(R) /\ Rank(x, P \cup {p}) = Cardinality(R)
    BY <2>1, Zenon DEF Rank, R
  <2>6. Cardinality(R) \in 1..Cardinality(P)
    BY <1>2, <2>3, <2>4
  <2> QED
    BY <2>5, <2>6, Zenon
<1>5. Rank(p, P \cup {p}) = Cardinality(P \cup {p})
  BY <1>3, Zenon DEF Rank
<1> QED
  BY <1>2, <1>4, <1>5

LEMMA GivesMore ==
  ASSUME NEW p \in Nat, NEW P, IsFiniteSet(P), P \subseteq 0..p-1, NEW S, NEW ts \in Seq(S), NEW x \in S, GivesAll(P, ts)
  PROVE  /\ Gives(P \cup {p}, ts)
         /\ x = TokenAt(p) => GivesAll(P \cup {p}, Append(ts, x))
<1> DEFINE n == Cardinality(P)
           Q == P \cup {p}
<1>1. n \in Nat /\ Cardinality(Q) = n + 1 /\ Rank(p, Q) = n + 1 /\ \A y \in P : Rank(y, Q) = Rank(y, P) /\ Rank(y, P) \in 1..n
  BY RankMore
<1>2. Len(ts) = n /\ \A y \in P : Rank(y, P) <= Len(ts) => ts[Rank(y, P)] = TokenAt(y)
  BY DEF GivesAll, Gives
<1> HIDE DEF n
<1>3. \A y \in P : Rank(y, Q) \in 1..n /\ ts[Rank(y, Q)] = TokenAt(y)
  <2> TAKE y \in P
  <2>1. Rank(y, Q) = Rank(y, P) /\ Rank(y, P) \in 1..n
    BY <1>1, Zenon
  <2>2. Rank(y, P) <= Len(ts)
    BY <1>1, <1>2, <2>1
  <2> QED
    BY <1>2, <2>1, <2>2, Zenon
<1>4. \A y \in Q : y = p \/ y \in P
  OBVIOUS
<1> HIDE DEF Q
<1>5. Gives(Q, ts)
  <2>1. ~(Rank(p, Q) <= Len(ts)) /\ Len(ts) <= Cardinality(Q)
    BY <1>1, <1>2
  <2> QED
    BY <1>3, <1>4, <2>1, Zenon DEF Gives
<1>6. ASSUME x = TokenAt(p) PROVE GivesAll(Q, Append(ts, x))
  <2> DEFINE us == Append(ts, x)
  <2>1. Len(us) = n + 1 /\ us[n+1] = x /\ \A k \in 1..n : us[k] = ts[k]
    BY <1>1, <1>2
  <2> HIDE DEF us
  <2>2. \A y \in P : us[Rank(y, Q)] = TokenAt(y)
    BY <1>3, <2>1, Zenon
  <2>3. us[Rank(p, Q)] = TokenAt(p)
    BY <1>1, <1>6, <2>1, Zenon
  <2>4. Len(us) = Cardinality(Q) /\ Len(us) <= Cardinality(Q)
    BY <1>1, <2>1
  <2>5. GivesAll(Q, us)
    BY <1>4, <2>2, <2>3, <2>4, Zenon DEF GivesAll, Gives
  <2> QED
    BY <2>5 DEF us
<1> QED
  BY <1>5, <1>6 DEF Q

----------------------------------------------------------------------------
(* The steps of the lexer.                                                 *)

LEMMA SameText ==
  ASSUME source' = source
  PROVE  /\ \A p : byte(p)' = byte(p) /\ LineOf(p)' = LineOf(p)
         /\ \A p, q : Text(p, q)' = Text(p, q)
         /\ \A C, e : Cut(C, e)' <=> Cut(C, e)
         /\ \A C, e : Given(C, e)' = Given(C, e)
         /\ \A P, ts : (Gives(P, ts)' <=> Gives(P, ts)) /\ (GivesAll(P, ts)' <=> GivesAll(P, ts))
<1>1. \A p : byte(p)' = byte(p)
  BY DEF byte
<1>2. \A p : LineOf(p)' = LineOf(p)
  BY DEF LineOf
<1>3. \A p, q : Text(p, q)' = Text(p, q)
  BY DEF Text
<1>4. \A p, q : Longest(p, q)' <=> Longest(p, q)
  BY <1>3 DEF Longest
<1>5. \A p : EndOf(p)' = EndOf(p)
  BY <1>4 DEF EndOf
<1>6. \A C, e : Cut(C, e)' <=> Cut(C, e)
  BY <1>4, Zenon DEF Cut
<1>7. \A p : Text(p, EndOf(p))' = Text(p, EndOf(p))
  BY <1>3, <1>5
<1>70. \A s, t : s = t => Type(s) = Type(t)
  BY Zenon
<1>71. \A p : Type(Text(p, EndOf(p)))' = Type(Text(p, EndOf(p)))
  <2> TAKE p
  <2>1. Type(Text(p, EndOf(p)))' = Type(Text(p, EndOf(p))')
    OBVIOUS
  <2> QED
    BY <1>7, <1>70, <2>1, Zenon
<1>8. ASSUME NEW C, NEW e PROVE Given(C, e)' = Given(C, e)
  <2>1. Given(C, e)' = {p \in C \ {e} : Type(Text(p, EndOf(p)))' # ""}
    BY DEF Given
  <2> QED
    BY <1>71, <2>1, Zenon DEF Given
<1>9. \A p : TokenAt(p)' = TokenAt(p)
  BY <1>2, <1>7, Zenon DEF TokenAt
<1>10. \A P, ts : Gives(P, ts)' <=> Gives(P, ts)
  BY <1>9, Zenon DEF Gives
<1>11. \A P, ts : GivesAll(P, ts)' <=> GivesAll(P, ts)
  BY <1>10, Zenon DEF GivesAll
<1> QED
  BY <1>1, <1>2, <1>3, <1>6, <1>8, <1>10, <1>11, Zenon

(* The invariant: the text up to place is cut into lexemes, and theirs are *)
(* the tokens.                                                             *)
LexToken == [t : {Type(s) : s \in Seq(STRING)} \cup {"EOF"}, text : Seq(STRING), line : Nat]
ReadTo(e, ts) == \E C : Cut(C, e) /\ GivesAll(Given(C, e), ts)
LexInv ==
  /\ TextOK /\ place \in 0..Len(source) /\ line = LineOf(place)
  /\ lexemes \in Seq(LexToken)
  /\ NulFree /\ reading = "reading" => ReadTo(place, lexemes)
  /\ NulFree => ReadLongest

(* Where a token begins.                                                   *)
Start == IF byte(place) = "NUL" THEN place ELSE skipComment(skipWhitespace(place))

LEMMA StartFacts ==
  ASSUME LexInv, reading = "reading"
  PROVE  /\ Start \in 0..Len(source) /\ line = LineOf(Start) /\ line \in Nat
         /\ NoComment(Start) /\ byte(Start) \notin Blanks
         /\ NulFree => ReadTo(Start, lexemes)
<1>1. TextOK /\ place \in Nat /\ place \in 0..Len(source) /\ Len(source) \in Nat /\ line = LineOf(place)
  BY DEF LexInv, TextOK
<1>2. line \in Nat
  BY <1>1, FeedsFinite
<1>3. CASE byte(place) = "NUL"
  <2>1. Start = place /\ NoComment(place) /\ byte(place) \notin Blanks
    BY <1>3, Alphabet DEF Start, NoComment
  <2> QED
    BY <1>1, <1>2, <2>1 DEF LexInv
<1>4. CASE byte(place) # "NUL"
  <2> DEFINE w == skipWhitespace(place)
             p == skipComment(w)
  <2>1. w \in place..Len(source) /\ byte(w) \notin Blanks /\ \A r \in place..w-1 : byte(r) \in Blanks
    BY <1>1, AfterFacts, Alphabet DEF skipWhitespace
  <2>2. w \in Nat
    BY <1>1, <2>1
  <2>3. LineOf(w) = line
    <3>1. \A r \in place..w-1 : byte(r) # "LF"
      BY <2>1 DEF Blanks
    <3> QED
      BY <1>1, <2>1, <3>1, SameLine
  <2>4. NulFree => \E C : Cut(C, w) /\ GivesAll(Given(C, w), lexemes)
    <3> SUFFICES ASSUME NulFree PROVE \E C : Cut(C, w) /\ GivesAll(Given(C, w), lexemes)
      OBVIOUS
    <3>1. PICK C : Cut(C, place) /\ GivesAll(Given(C, place), lexemes)
      BY DEF LexInv, ReadTo
    <3> HIDE DEF w
    <3>2. Cut(C \cup place..w, w) /\ Given(C \cup place..w, w) = Given(C, place)
      BY <1>1, <2>1, <3>1, CutBlanks
    <3> QED
      BY <3>1, <3>2
  <2>5. Start = p
    BY <1>4 DEF Start
  <2> HIDE DEF w, p
  <2>6. CASE NoComment(w)
    <3>1. p = w
      BY <2>6 DEF p, skipComment, NoComment
    <3> QED
      BY <1>1, <1>2, <2>1, <2>2, <2>3, <2>4, <2>5, <2>6, <3>1 DEF ReadTo
  <2>7. CASE ~NoComment(w)
    <3>1. byte(w) = "/" /\ byte(w+1) = "/" /\ p = Before(w, {"LF", "NUL"})
      BY <2>7 DEF p, skipComment, NoComment
    <3>2. p \in w..Len(source) /\ byte(p) \in {"LF", "NUL"} /\ \A r \in w..p-1 : byte(r) \notin {"LF", "NUL"}
      BY <1>1, <2>1, <2>2, <3>1, BeforeFacts
    <3>3. NoComment(p) /\ byte(p) \notin Blanks /\ p \in 0..Len(source)
      <4>1. p \in 0..Len(source)
        BY <1>1, <2>2, <3>2
      <4>2. byte(p) # "/" /\ byte(p) \notin Blanks
        BY <3>2 DEF Blanks
      <4> QED
        BY <4>1, <4>2 DEF NoComment
    <3>4. LineOf(p) = line
      BY <1>1, <2>2, <2>3, <3>2, SameLine
    <3>5. NulFree => ReadTo(p, lexemes)
      <4> SUFFICES ASSUME NulFree PROVE ReadTo(p, lexemes)
        OBVIOUS
      <4>1. w < Len(source)
        BY <1>1, <2>1, <2>2, <3>1, ByteFacts
      <4>2. Longest(w, p) /\ Type(Text(w, p)) = ""
        BY <1>1, <2>2, <3>1, <4>1, CommentLexeme
      <4>3. PICK C : Cut(C, w) /\ GivesAll(Given(C, w), lexemes)
        BY <2>4
      <4>4. Cut(C \cup {p}, p) /\ Given(C \cup {p}, p) = Given(C, w)
        BY <1>1, <2>2, <4>2, <4>3, CutMore
      <4> QED
        BY <4>3, <4>4 DEF ReadTo
    <3> QED
      BY <1>2, <2>5, <3>3, <3>4, <3>5
  <2> QED
    BY <2>6, <2>7
<1> QED
  BY <1>3, <1>4

LEMMA DotCount ==
  ASSUME NEW p \in Nat, NEW q \in Nat
  PROVE  Cardinality({r \in p..q-1 : byte(r) = "."}) > 1 <=> ~OneDot(p, q)
<1> DEFINE D == {r \in p..q-1 : byte(r) = "."}
<1>1. IsFiniteSet(D)
  <2>1. IsFiniteSet(p..q-1) /\ D \in SUBSET (p..q-1)
    BY FS_Interval
  <2> HIDE DEF D
  <2> QED
    BY <2>1, FS_Subset
<1>2. OneDot(p, q) <=> \A r, d \in D : r = d
  BY DEF OneDot
<1> HIDE DEF D
<1>3. CASE \A r, d \in D : r = d
  <2>1. CASE D = {}
    BY <1>2, <1>3, <2>1, FS_EmptySet DEF D
  <2>2. CASE D # {}
    <3>1. PICK r \in D : D = {r}
      BY <1>3, <2>2
    <3>2. Cardinality(D) = 1
      BY <3>1, FS_Singleton
    <3> QED
      BY <1>2, <1>3, <3>2 DEF D
  <2> QED
    BY <2>1, <2>2
<1>4. CASE ~(\A r, d \in D : r = d)
  <2>1. PICK r, d \in D : r # d
    BY <1>4
  <2>2. Cardinality({r}) = 1 /\ IsFiniteSet({r}) /\ d \notin {r}
    BY <2>1, FS_Singleton
  <2>3. Cardinality({r} \cup {d}) = 2
    BY <2>2, FS_AddElement
  <2>4. {r} \cup {d} \in SUBSET D
    BY <2>1
  <2>5. Cardinality({r} \cup {d}) <= Cardinality(D) /\ Cardinality(D) \in Nat
    BY <1>1, <2>4, FS_Subset, FS_CardinalityType
  <2>6. Cardinality(D) > 1
    BY <2>3, <2>5
  <2> QED
    BY <1>2, <1>4, <2>6 DEF D
<1> QED
  BY <1>3, <1>4

LEMMA AppendType ==
  ASSUME NEW T, NEW s \in Seq(T), NEW x \in T
  PROVE  Append(s, x) \in Seq(T) /\ Len(Append(s, x)) = Len(s) + 1
OBVIOUS

(* What stands at p, where no blank or comment does.                       *)
ReadsAt(p) ==
  /\ TextOK /\ lexemes \in Seq(LexToken) /\ source' = source /\ reading = "reading"
  /\ p \in Nat /\ line = LineOf(p) /\ (NulFree => ReadTo(p, lexemes))
IsLexeme(p, q, type) ==
  /\ Longest(p, q) /\ Type(Text(p, q)) = type /\ type # "" /\ LineOf(q) = LineOf(p)

(* The next token is the one of the lexeme that begins at p.               *)
LEMMA GiveKeeps ==
  ASSUME NEW p, NEW q, NEW type, ReadsAt(p), IsLexeme(p, q, type), Give(type, p, q)
  PROVE  LexInv'
<1>0. p \in Nat /\ TextOK /\ Len(source) \in Nat
  BY DEF ReadsAt, TextOK
<1>1. line \in Nat /\ line = LineOf(p) /\ source' = source
  BY <1>0, FeedsFinite, Zenon DEF ReadsAt
<1>2. Longest(p, q) /\ Type(Text(p, q)) = type /\ Type(Text(p, q)) # "" /\ LineOf(q) = line
  BY DEF IsLexeme, ReadsAt
<1>3. /\ place' = q /\ lexemes' = Append(lexemes, Token(type, p, q))
      /\ line' = line /\ reading' = "reading"
  BY DEF Give, ReadsAt
<1>4. lexemes \in Seq(LexToken)
  BY DEF ReadsAt
<1>5. q \in p+1..Len(source) /\ EndOf(p) = q
  BY <1>0, <1>2, OneEnd
<1>6. p \in 0..Len(source) /\ q \in 0..Len(source) /\ q \in p..Len(source)
  BY <1>0, <1>5
<1>8. Token(type, p, q) = TokenAt(p)
  BY <1>1, <1>2, <1>5, Zenon DEF Token, TokenAt
<1>9. Token(type, p, q) \in LexToken
  <2>1. Text(p, q) \in Seq(STRING)
    BY <1>0, <1>6, TextFacts
  <2>2. Type(Text(p, q)) \in {Type(s) : s \in Seq(STRING)}
    BY <2>1
  <2> QED
    BY <1>1, <1>2, <2>1, <2>2 DEF Token, LexToken
<1>10. NulFree => ReadTo(q, Append(lexemes, TokenAt(p)))
  <2> SUFFICES ASSUME NulFree PROVE ReadTo(q, Append(lexemes, TokenAt(p)))
    OBVIOUS
  <2>1. PICK C : Cut(C, p) /\ GivesAll(Given(C, p), lexemes)
    BY DEF ReadTo, ReadsAt
  <2>2. Cut(C \cup {q}, q) /\ Given(C \cup {q}, q) = Given(C, p) \cup {p}
    BY <1>0, <1>2, <2>1, CutMore
  <2>3. IsFiniteSet(Given(C, p)) /\ Given(C, p) \subseteq 0..p-1
    BY <1>1, <1>0, <2>1, GivenFacts
  <2> DEFINE P == Given(C, p)
             x == TokenAt(p)
  <2>4. IsFiniteSet(P) /\ P \subseteq 0..p-1 /\ GivesAll(P, lexemes) /\ x \in LexToken /\ x = TokenAt(p)
    BY <1>8, <1>9, <2>1, <2>3
  <2> HIDE DEF P, x
  <2>5. GivesAll(P \cup {p}, Append(lexemes, x))
    BY <1>0, <1>4, <2>4, GivesMore, Zenon
  <2> QED
    BY <2>2, <2>4, <2>5 DEF ReadTo, P
<1>11. TextOK' /\ (NulFree' <=> NulFree) /\ (place \in 0..Len(source))' /\ (line = LineOf(place))'
  <2>1. LineOf(q)' = LineOf(q)
    BY <1>1, SameText
  <2>2. LineOf(place)' = LineOf(q)'
    BY <1>3, Zenon DEF LineOf
  <2> QED
    BY <1>0, <1>1, <1>2, <1>3, <1>6, <2>1, <2>2 DEF TextOK, NulFree
<1>12. (NulFree /\ reading = "reading" => ReadTo(place, lexemes))'
  <2> SUFFICES ASSUME NulFree PROVE ReadTo(place, lexemes)'
    BY <1>11
  <2>1. PICK C : Cut(C, q) /\ GivesAll(Given(C, q), Append(lexemes, TokenAt(p)))
    BY <1>10 DEF ReadTo
  <2> QED
    BY <1>1, <1>3, <1>8, <2>1, SameText DEF ReadTo
<1>13. ReadLongest'
  BY <1>3 DEF ReadLongest
<1>14. lexemes' \in Seq(LexToken)
  BY <1>3, <1>4, <1>9, AppendType, Zenon
<1>15. LexToken' = LexToken
  OBVIOUS
<1> QED
  BY <1>11, <1>12, <1>13, <1>14, <1>15 DEF LexInv

(* The end of a line is passed over.                                       *)
LEMMA FeedKeeps ==
  ASSUME NEW p, ReadsAt(p), byte(p) = "LF", line' = line + 1, place' = p + 1, UNCHANGED <<lexemes, badLine, reading>>
  PROVE  LexInv'
<1>0. p \in Nat /\ TextOK /\ Len(source) \in Nat
  BY DEF ReadsAt, TextOK
<1>1. line \in Nat /\ line = LineOf(p) /\ source' = source /\ lexemes' \in Seq(LexToken) /\ reading' = "reading"
  BY <1>0, FeedsFinite DEF ReadsAt
<1>2. p < Len(source)
  BY <1>0, ByteFacts
<1>3. Longest(p, p+1) /\ Type(Text(p, p+1)) = ""
  BY <1>0, <1>2, BlankLexeme
<1>4. LineOf(p+1) = line + 1
  BY <1>0, <1>1, <1>2, NextLine
<1>5. TextOK' /\ (NulFree' <=> NulFree) /\ (place \in 0..Len(source))' /\ (line = LineOf(place))'
  <2>1. LineOf(p+1)' = LineOf(p+1)
    BY <1>1, SameText
  <2>2. LineOf(place)' = LineOf(p+1)'
    BY Zenon DEF LineOf
  <2>3. p+1 \in 0..Len(source)
    BY <1>0, <1>2
  <2> QED
    BY <1>0, <1>1, <1>4, <2>1, <2>2, <2>3 DEF TextOK, NulFree
<1>6. (NulFree /\ reading = "reading" => ReadTo(place, lexemes))'
  <2> SUFFICES ASSUME NulFree PROVE ReadTo(place, lexemes)'
    BY <1>5
  <2>1. PICK C : Cut(C, p) /\ GivesAll(Given(C, p), lexemes)
    BY DEF ReadTo, ReadsAt
  <2>2. Cut(C \cup {p+1}, p+1) /\ Given(C \cup {p+1}, p+1) = Given(C, p)
    BY <1>0, <1>3, <2>1, CutMore
  <2> DEFINE e == p+1
             D == C \cup {p+1}
  <2>3. place' = e /\ lexemes' = lexemes /\ Cut(D, e) /\ GivesAll(Given(D, e), lexemes)
    BY <2>1, <2>2
  <2> HIDE DEF e, D
  <2> QED
    BY <1>1, <2>3, SameText DEF ReadTo
<1>7. ReadLongest'
  BY <1>1 DEF ReadLongest
<1>8. LexToken' = LexToken
  OBVIOUS
<1> QED
  BY <1>1, <1>5, <1>6, <1>7, <1>8 DEF LexInv

(* The token of the end of the text.                                       *)
EndToken(p) == [t |-> "EOF", text |-> <<>>, line |-> LineOf(p)]

LEMMA EndKeeps ==
  ASSUME NEW p, ReadsAt(p), p <= Len(source), byte(p) = "NUL",
         lexemes' = Append(lexemes, EndToken(p)), reading' = "done", place' = p, UNCHANGED <<line, badLine>>
  PROVE  LexInv'
<1>0. p \in Nat /\ TextOK /\ Len(source) \in Nat /\ p \in 0..Len(source)
  BY DEF ReadsAt, TextOK
<1>1. line \in Nat /\ line = LineOf(p) /\ source' = source /\ lexemes \in Seq(LexToken)
  BY <1>0, FeedsFinite DEF ReadsAt
<1>2. EndToken(p) \in LexToken
  <2>1. <<>> \in Seq(STRING)
    OBVIOUS
  <2> QED
    BY <1>1, <2>1 DEF EndToken, LexToken
<1>3. lexemes' \in Seq(LexToken) /\ Len(lexemes') = Len(lexemes) + 1
  BY <1>1, <1>2, AppendType, Zenon
<1>4. TextOK' /\ (NulFree' <=> NulFree) /\ (place \in 0..Len(source))' /\ (line = LineOf(place))'
  <2>1. LineOf(p)' = LineOf(p)
    BY <1>1, SameText
  <2>2. LineOf(place)' = LineOf(p)'
    BY Zenon DEF LineOf
  <2> QED
    BY <1>0, <1>1, <2>1, <2>2 DEF TextOK, NulFree
<1>5. NulFree => ReadLongest'
  <2> SUFFICES ASSUME NulFree PROVE ReadLongest'
    OBVIOUS
  <2>1. p = Len(source)
    BY <1>0, ByteNotNul
  <2>2. PICK C : Cut(C, p) /\ GivesAll(Given(C, p), lexemes)
    BY DEF ReadTo, ReadsAt
  <2>3. C \in SUBSET (0..p)
    BY <2>2 DEF Cut
  <2>4. SubSeq(lexemes', 1, Len(lexemes') - 1) = lexemes
    <3> DEFINE T == LexToken
               x == EndToken(p)
    <3>1. lexemes \in Seq(T) /\ x \in T /\ lexemes' = Append(lexemes, x)
      BY <1>1, <1>2
    <3> HIDE DEF T, x
    <3> QED
      BY <3>1
  <2>5. EndToken(p)' = EndToken(p)
    <3>1. LineOf(p)' = LineOf(p)
      BY <1>1, SameText
    <3> QED
      BY <3>1, Zenon DEF EndToken
  <2>6. Cut(C, p)' /\ GivesAll(Given(C, p), lexemes)
    BY <1>1, <2>2, SameText
  <2> DEFINE n == Len(source)
  <2>7. ReadLongest' = ((reading' = "done" =>
          \E D \in SUBSET (0..n') :
            Cut(D, n)' /\ \E ts \in {SubSeq(lexemes', 1, Len(lexemes') - 1)} :
                           GivesAll(Given(D, n), ts)' /\ lexemes' = Append(ts, EndToken(n)'))
       /\ (reading' = "failed" =>
          \E e \in 0..n' : \E D \in SUBSET (0..e) :
            /\ Cut(D, e)' /\ Gives(Given(D, e), lexemes)'
            /\ \A q \in e+1..n' : Type(Text(e, q))' = "none"
            /\ e < n' /\ badLine' = LineOf(e)'))
    BY DEF ReadLongest, EndToken
  <2>8. n' = p
    BY <1>1, <2>1
  <2>9. ASSUME NEW ts, ts = lexemes PROVE GivesAll(Given(C, n), ts)' /\ lexemes' = Append(ts, EndToken(n)')
    <3>1. Given(C, n)' = Given(C, p) /\ EndToken(n)' = EndToken(p)
      BY <1>1, <2>5, <2>8, SameText, Zenon
    <3>2. GivesAll(Given(C, p), ts)
      BY <2>2, <2>9
    <3>3. GivesAll(Given(C, n), ts)'
      BY <1>1, <3>1, <3>2, SameText, Zenon
    <3> QED
      BY <2>9, <3>1, <3>3
  <2>10. Cut(C, n)' /\ C \in SUBSET (0..n')
    BY <2>3, <2>6, <2>8, Zenon
  <2> HIDE DEF n
  <2> QED
    BY <2>4, <2>7, <2>9, <2>10, Zenon
<1>6. LexToken' = LexToken
  OBVIOUS
<1> QED
  BY <1>3, <1>4, <1>5, <1>6 DEF LexInv

(* Nothing at e is a lexeme: the lexer stops at q, on the same line.       *)
Stops(p, e, q) ==
  /\ e \in 0..Len(source) /\ e < Len(source) /\ q \in 0..Len(source)
  /\ LineOf(e) = LineOf(p) /\ LineOf(q) = LineOf(p)
  /\ NulFree => \E C : Cut(C, e) /\ Gives(Given(C, e), lexemes)
  /\ \A r \in e+1..Len(source) : Type(Text(e, r)) = "none"

LEMMA RefuseKeeps ==
  ASSUME NEW p, NEW e, NEW q, ReadsAt(p), Stops(p, e, q), Refuse(q)
  PROVE  LexInv'
<1>0. p \in Nat /\ TextOK /\ Len(source) \in Nat
  BY DEF ReadsAt, TextOK
<1>1. line \in Nat /\ line = LineOf(p) /\ source' = source /\ lexemes' \in Seq(LexToken)
  BY <1>0, FeedsFinite DEF ReadsAt, Refuse
<1>2. place' = q /\ badLine' = line /\ reading' = "failed" /\ line' = line /\ lexemes' = lexemes
  BY DEF Refuse
<1>3. /\ e \in 0..Len(source) /\ e < Len(source) /\ q \in 0..Len(source) /\ LineOf(e) = line /\ LineOf(q) = line
      /\ \A r \in e+1..Len(source) : Type(Text(e, r)) = "none"
  BY <1>1 DEF Stops
<1>4. TextOK' /\ (NulFree' <=> NulFree) /\ (place \in 0..Len(source))' /\ (line = LineOf(place))'
  <2>1. LineOf(q)' = LineOf(q)
    BY <1>1, SameText
  <2>2. LineOf(place)' = LineOf(q)'
    BY <1>2, Zenon DEF LineOf
  <2>3. source \in Seq(STRING) => source' \in Seq(STRING)
    BY <1>1
  <2>4. TextOK'
    BY <1>0, <2>3 DEF TextOK
  <2>5. NulFree' <=> NulFree
    BY <1>1 DEF NulFree
  <2>6. (place \in 0..Len(source))'
    BY <1>1, <1>2, <1>3
  <2> QED
    BY <1>1, <1>2, <1>3, <2>1, <2>2, <2>4, <2>5, <2>6, Zenon
<1>5. NulFree => ReadLongest'
  <2> SUFFICES ASSUME NulFree PROVE ReadLongest'
    OBVIOUS
  <2>1. PICK C : Cut(C, e) /\ Gives(Given(C, e), lexemes)
    BY DEF Stops
  <2>2. C \in SUBSET (0..e)
    BY <2>1 DEF Cut
  <2>3. Cut(C, e)' /\ Given(C, e)' = Given(C, e) /\ LineOf(e)' = line
    BY <1>1, <1>3, <2>1, SameText
  <2>4. Gives(Given(C, e), lexemes)'
    BY <1>1, <1>2, <2>1, <2>3, SameText, Zenon
  <2> DEFINE n == Len(source)
  <2>5. n' = n
    BY <1>1
  <2>6. \A r \in e+1..n' : Type(Text(e, r))' = "none"
    <3>1. \A r \in e+1..n' : r \in e+1..Len(source)
      BY <2>5
    <3>2. \A r : Text(e, r)' = Text(e, r)
      BY <1>1, SameText, Zenon
    <3>3. \A r : Type(Text(e, r))' = Type(Text(e, r)')
      OBVIOUS
    <3>4. \A s, t : s = t => Type(s) = Type(t)
      BY Zenon
    <3> QED
      BY <1>3, <3>1, <3>2, <3>3, <3>4, Zenon
  <2>7. e \in 0..n' /\ e < n' /\ badLine' = LineOf(e)'
    BY <1>2, <1>3, <2>3, <2>5
  <2>8. ReadLongest' = ((reading' = "done" =>
          \E D \in SUBSET (0..n') :
            Cut(D, n)' /\ \E ts \in {SubSeq(lexemes', 1, Len(lexemes') - 1)} :
                           GivesAll(Given(D, n), ts)' /\ lexemes' = Append(ts, EndToken(n)'))
       /\ (reading' = "failed" =>
          \E x \in 0..n' : \E D \in SUBSET (0..x) :
            /\ Cut(D, x)' /\ Gives(Given(D, x), lexemes)'
            /\ \A r \in x+1..n' : Type(Text(x, r))' = "none"
            /\ x < n' /\ badLine' = LineOf(x)'))
    BY DEF ReadLongest, EndToken
  <2>9. reading' # "done"
    BY <1>2
  <2> HIDE DEF n
  <2> QED
    BY <2>2, <2>3, <2>4, <2>6, <2>7, <2>8, <2>9, Zenon
<1>6. LexToken' = LexToken
  OBVIOUS
<1> QED
  BY <1>1, <1>2, <1>4, <1>5, <1>6 DEF LexInv

LEMMA NumberKeeps ==
  ASSUME NEW p, ReadsAt(p), p < Len(source), byte(p) \in Digits, readNumber(p)
  PROVE  LexInv'
<1> DEFINE q == After(p, Digits \cup {"."})
<1>0. p \in Nat /\ TextOK /\ Len(source) \in Nat
  BY DEF ReadsAt, TextOK
<1>1. /\ q \in p+1..Len(source) /\ \A r \in p..q-1 : byte(r) # "LF"
      /\ OneDot(p, q) => Longest(p, q) /\ Type(Text(p, q)) = "NUMBER"
      /\ ~OneDot(p, q) => \E e \in p+1..q-1 : Longest(p, e) /\ Type(Text(p, e)) = "NUMBER" /\ byte(e) = "."
  BY <1>0, NumberLexeme
<1>2. IF Cardinality({r \in p..q-1 : byte(r) = "."}) > 1 THEN Refuse(q) ELSE Give("NUMBER", p, q)
  BY Zenon DEF readNumber
<1> HIDE DEF q
<1>3. q \in Nat /\ q \in p..Len(source) /\ q \in 0..Len(source)
  BY <1>0, <1>1
<1>4. IF ~OneDot(p, q) THEN Refuse(q) ELSE Give("NUMBER", p, q)
  BY <1>0, <1>2, <1>3, DotCount, Zenon
<1>5. LineOf(q) = LineOf(p)
  BY <1>0, <1>1, <1>3, SameLine
<1>6. CASE OneDot(p, q)
  <2>1. IsLexeme(p, q, "NUMBER")
    BY <1>1, <1>5, <1>6 DEF IsLexeme
  <2> QED
    BY <1>4, <1>6, <2>1, GiveKeeps
<1>7. CASE ~OneDot(p, q)
  <2>1. PICK e \in p+1..q-1 : Longest(p, e) /\ Type(Text(p, e)) = "NUMBER" /\ byte(e) = "."
    BY <1>1, <1>7
  <2>2. e \in Nat /\ e \in p..Len(source) /\ e \in 0..Len(source) /\ e < Len(source) /\ e < q
    BY <1>0, <1>1, <1>3
  <2>3. LineOf(e) = LineOf(p)
    <3>1. \A r \in p..e-1 : r \in p..q-1
      BY <1>0, <1>3, <2>2
    <3> QED
      BY <1>0, <1>1, <2>2, <3>1, SameLine
  <2>4. \A r \in e+1..Len(source) : Type(Text(e, r)) = "none"
    BY <1>0, <2>1, <2>2, NoLexeme
  <2>5. NulFree => \E C : Cut(C, e) /\ Gives(Given(C, e), lexemes)
    <3> SUFFICES ASSUME NulFree PROVE \E C : Cut(C, e) /\ Gives(Given(C, e), lexemes)
      OBVIOUS
    <3>1. PICK C : Cut(C, p) /\ GivesAll(Given(C, p), lexemes)
      BY DEF ReadTo, ReadsAt
    <3>2. Type(Text(p, e)) # ""
      BY <2>1
    <3>3. Cut(C \cup {e}, e) /\ Given(C \cup {e}, e) = Given(C, p) \cup {p}
      BY <1>0, <2>1, <3>1, <3>2, CutMore
    <3>4. IsFiniteSet(Given(C, p)) /\ Given(C, p) \subseteq 0..p-1
      BY <1>0, <3>1, GivenFacts
    <3>5. PICK x : x \in LexToken
      <4>1. [t |-> "EOF", text |-> <<>>, line |-> 0] \in LexToken
        BY DEF LexToken
      <4> QED
        BY <4>1
    <3> DEFINE P == Given(C, p)
    <3>6. IsFiniteSet(P) /\ P \subseteq 0..p-1 /\ GivesAll(P, lexemes) /\ lexemes \in Seq(LexToken)
      BY <3>1, <3>4 DEF ReadsAt
    <3> HIDE DEF P
    <3>7. Gives(P \cup {p}, lexemes)
      BY <1>0, <3>5, <3>6, GivesMore, Zenon
    <3> QED
      BY <3>3, <3>7 DEF P
  <2>6. Stops(p, e, q)
    BY <1>3, <1>5, <2>2, <2>3, <2>4, <2>5, Zenon DEF Stops
  <2> QED
    BY <1>4, <1>7, <2>6, RefuseKeeps, Zenon
<1> QED
  BY <1>6, <1>7

LEMMA NameKeeps ==
  ASSUME NEW p, ReadsAt(p), p < Len(source), byte(p) \in Letters, readIdentifier(p)
  PROVE  LexInv'
<1> DEFINE q == After(p, Letters \cup Digits)
<1>0. p \in Nat /\ TextOK /\ Len(source) \in Nat
  BY DEF ReadsAt, TextOK
<1>1. /\ q \in p+1..Len(source) /\ \A r \in p..q-1 : byte(r) # "LF"
      /\ Longest(p, q) /\ Type(Text(p, q)) = lookupKeyword(Text(p, q))
  BY <1>0, NameLexeme
<1>2. Give(lookupKeyword(Text(p, q)), p, q)
  BY Zenon DEF readIdentifier
<1> HIDE DEF q
<1>3. q \in Nat /\ q \in p..Len(source)
  BY <1>0, <1>1
<1>4. LineOf(q) = LineOf(p)
  BY <1>0, <1>1, <1>3, SameLine
<1>5. IsLexeme(p, q, lookupKeyword(Text(p, q)))
  BY <1>1, <1>4, Alphabet DEF IsLexeme
<1> QED
  BY <1>2, <1>5, GiveKeeps

LEMMA OperatorKeeps ==
  ASSUME NEW p, ReadsAt(p), p < Len(source), OtherByte(p), NoComment(p), readOperator(p)
  PROVE  LexInv'
<1>0. p \in Nat /\ TextOK /\ Len(source) \in Nat
  BY DEF ReadsAt, TextOK
<1>1. byte(p) # "LF"
  BY DEF OtherByte
<1>2. CASE byte(p) \in DOMAIN Equals /\ byte(p+1) = "="
  <2>1. p+2 \in p+1..Len(source) /\ Longest(p, p+2) /\ Type(Text(p, p+2)) = Equals[byte(p)]
    BY <1>0, <1>2, EqualsLexeme
  <2>2. \A r \in p..p+2-1 : r = p \/ r = p+1
    BY <1>0
  <2>3. LineOf(p+2) = LineOf(p)
    <3>1. \A r \in p..p+2-1 : byte(r) # "LF"
      BY <1>1, <1>2, <2>2
    <3>2. p+2 \in p..Len(source)
      BY <1>0, <2>1
    <3> QED
      BY <1>0, <3>1, <3>2, SameLine
  <2>4. Equals[byte(p)] # ""
    BY <1>2, Alphabet
  <2>5. IsLexeme(p, p+2, Equals[byte(p)])
    BY <2>1, <2>3, <2>4 DEF IsLexeme
  <2>6. Give(Equals[byte(p)], p, p+2)
    BY <1>2, Zenon DEF readOperator
  <2> QED
    BY <2>5, <2>6, GiveKeeps
<1>3. CASE ~(byte(p) \in DOMAIN Equals /\ byte(p+1) = "=") /\ byte(p) \in DOMAIN Operators
  <2>1. p+1 \in p+1..Len(source) /\ Longest(p, p+1) /\ Type(Text(p, p+1)) = Operators[byte(p)]
    BY <1>0, <1>3, OperatorLexeme
  <2>2. \A r \in p..p+1-1 : r = p
    BY <1>0
  <2>3. LineOf(p+1) = LineOf(p)
    <3>1. p+1 \in p..Len(source)
      BY <1>0, <2>1
    <3> QED
      BY <1>0, <1>1, <2>2, <3>1, SameLine
  <2>4. Operators[byte(p)] = byte(p) /\ byte(p) # ""
    BY <1>3 DEF Operators
  <2>5. IsLexeme(p, p+1, byte(p))
    BY <2>1, <2>3, <2>4 DEF IsLexeme
  <2>6. Give(byte(p), p, p+1)
    BY <1>3, Zenon DEF readOperator
  <2> QED
    BY <2>5, <2>6, GiveKeeps
<1>4. CASE ~(byte(p) \in DOMAIN Equals /\ byte(p+1) = "=") /\ byte(p) \notin DOMAIN Operators
  <2>1. \A r \in p+1..Len(source) : Type(Text(p, r)) = "none"
    BY <1>0, <1>4, NoLexeme
  <2>2. NulFree => \E C : Cut(C, p) /\ Gives(Given(C, p), lexemes)
    BY DEF ReadsAt, ReadTo, GivesAll
  <2>3. p \in 0..Len(source)
    BY <1>0
  <2>4. Stops(p, p, p)
    BY <2>1, <2>2, <2>3, Zenon DEF Stops
  <2>5. Refuse(p)
    BY <1>4, Zenon DEF readOperator
  <2> QED
    BY <2>4, <2>5, RefuseKeeps
<1> QED
  BY <1>2, <1>3, <1>4

LEMMA NextKeeps == LexInv /\ nextToken => LexInv'
<1> SUFFICES ASSUME LexInv, nextToken PROVE LexInv'
  OBVIOUS
<1> DEFINE p == Start
           b == byte(p)
<1>1. reading = "reading" /\ source' = source
  BY DEF nextToken
<1>2. /\ p \in 0..Len(source) /\ line = LineOf(p) /\ NoComment(p) /\ b \notin Blanks
      /\ NulFree => ReadTo(p, lexemes)
  BY <1>1, StartFacts
<1>3. /\ CASE b = "NUL" -> /\ lexemes' = Append(lexemes, [t |-> "EOF", text |-> <<>>, line |-> line])
                          /\ reading' = "done" /\ place' = p /\ UNCHANGED <<line, badLine>>
          [] b = "LF" -> line' = line + 1 /\ place' = p + 1 /\ UNCHANGED <<lexemes, badLine, reading>>
          [] b \in Digits -> readNumber(p)
          [] b \in Letters -> readIdentifier(p)
          [] OTHER -> readOperator(p)
  BY Zenon DEF nextToken, Start
<1>4. TextOK /\ lexemes \in Seq(LexToken) /\ Len(source) \in Nat
  BY DEF LexInv, TextOK
<1> HIDE DEF p, b
<1>5. p \in Nat /\ p <= Len(source)
  BY <1>2, <1>4
<1>6. ReadsAt(p)
  BY <1>1, <1>2, <1>4, <1>5 DEF ReadsAt
<1>7. b = byte(p)
  BY DEF b
<1>8. b # "NUL" => p < Len(source)
  BY <1>4, <1>5, <1>7, ByteFacts
<1>9. /\ "NUL" \notin Digits \cup Letters /\ "LF" \notin Digits \cup Letters
      /\ \A x \in Digits : x \notin Letters
  BY Alphabet
<1>10. CASE b = "NUL"
  <2>1. lexemes' = Append(lexemes, [t |-> "EOF", text |-> <<>>, line |-> line]) /\ reading' = "done" /\ place' = p /\ UNCHANGED <<line, badLine>>
    BY <1>3, <1>9, <1>10
  <2>2. lexemes' = Append(lexemes, EndToken(p))
    BY <1>2, <2>1 DEF EndToken
  <2> QED
    BY <1>5, <1>6, <1>7, <1>10, <2>1, <2>2, EndKeeps
<1>11. CASE b = "LF"
  <2>1. line' = line + 1 /\ place' = p + 1 /\ UNCHANGED <<lexemes, badLine, reading>>
    BY <1>3, <1>9, <1>11
  <2> QED
    BY <1>6, <1>7, <1>11, <2>1, FeedKeeps
<1>12. CASE b \in Digits
  <2>1. readNumber(p) /\ p < Len(source)
    BY <1>3, <1>8, <1>9, <1>12
  <2> QED
    BY <1>6, <1>7, <1>12, <2>1, NumberKeeps
<1>13. CASE b \in Letters
  <2>1. readIdentifier(p) /\ p < Len(source)
    BY <1>3, <1>8, <1>9, <1>13
  <2> QED
    BY <1>6, <1>7, <1>13, <2>1, NameKeeps
<1>14. CASE b \notin Digits \cup Letters \cup {"LF", "NUL"}
  <2>1. readOperator(p) /\ p < Len(source)
    BY <1>3, <1>8, <1>14
  <2>2. OtherByte(p)
    BY <1>2, <1>7, <1>14 DEF OtherByte
  <2> QED
    BY <1>2, <1>6, <2>1, <2>2, OperatorKeeps
<1> QED
  BY <1>10, <1>11, <1>12, <1>13, <1>14

LEMMA LexStutter == LexInv /\ UNCHANGED lexVars => LexInv'
<1> SUFFICES ASSUME LexInv, UNCHANGED lexVars PROVE LexInv'
  OBVIOUS
<1>1. source' = source /\ place' = place /\ line' = line /\ lexemes' = lexemes /\ badLine' = badLine /\ reading' = reading
  BY DEF lexVars
<1>2. TextOK' /\ (NulFree' <=> NulFree)
  BY <1>1 DEF TextOK, NulFree, LexInv
<1>3. (line = LineOf(place))'
  <2>1. LineOf(place)' = LineOf(place)
    BY <1>1 DEF LineOf
  <2> QED
    BY <1>1, <2>1 DEF LexInv
<1>4. (place \in 0..Len(source))' /\ (lexemes \in Seq(LexToken))'
  BY <1>1 DEF LexInv
<1>5. (NulFree /\ reading = "reading" => ReadTo(place, lexemes))'
  <2>1. ReadTo(place, lexemes) => ReadTo(place, lexemes)'
    <3> SUFFICES ASSUME ReadTo(place, lexemes) PROVE ReadTo(place, lexemes)'
      OBVIOUS
    <3>1. PICK C : Cut(C, place) /\ GivesAll(Given(C, place), lexemes)
      BY DEF ReadTo
    <3> QED
      BY <1>1, <3>1, SameText DEF ReadTo
  <2> QED
    BY <1>1, <1>2, <2>1 DEF LexInv
<1>6. (NulFree => ReadLongest)'
  <2>1. \A C, e : (Cut(C, e)' <=> Cut(C, e)) /\ Given(C, e)' = Given(C, e)
    BY <1>1, SameText, Zenon
  <2>2. \A P, ts : (Gives(P, ts)' <=> Gives(P, ts)) /\ (GivesAll(P, ts)' <=> GivesAll(P, ts))
    BY <1>1, SameText, Zenon
  <2>3. \A e : LineOf(e)' = LineOf(e)
    BY <1>1, SameText, Zenon
  <2>4. \A e, q : Type(Text(e, q))' = Type(Text(e, q))
    <3> TAKE e, q
    <3>1. Text(e, q)' = Text(e, q)
      BY <1>1, SameText, Zenon
    <3>2. \A s, t : s = t => Type(s) = Type(t)
      BY Zenon
    <3>3. Type(Text(e, q))' = Type(Text(e, q)')
      OBVIOUS
    <3> QED
      BY <3>1, <3>2, <3>3, Zenon
  <2>5. ReadLongest' <=> ReadLongest
    BY <1>1, <2>1, <2>2, <2>3, <2>4 DEF ReadLongest
  <2> QED
    BY <1>2, <2>5 DEF LexInv
<1> QED
  BY <1>2, <1>3, <1>4, <1>5, <1>6 DEF LexInv

LEMMA LexStart ==
  ASSUME source \in Seq(STRING), place = 0, line = 1, lexemes = <<>>, reading \in {"reading", "given"}
  PROVE  LexInv
<1>1. TextOK /\ place \in 0..Len(source)
  BY DEF TextOK
<1>2. line = LineOf(place)
  <2>1. {j \in 1..0 : source[j] = "LF"} = {}
    OBVIOUS
  <2>2. Cardinality({j \in 1..0 : source[j] = "LF"}) = 0
    BY <2>1, FS_EmptySet
  <2> QED
    BY <2>2 DEF LineOf
<1>3. ReadTo(place, lexemes)
  <2>1. Cut({0}, 0)
    BY DEF Cut
  <2>2. Given({0}, 0) = {}
    BY DEF Given
  <2>3. GivesAll({}, <<>>)
    BY FS_EmptySet DEF GivesAll, Gives
  <2> QED
    BY <2>1, <2>2, <2>3 DEF ReadTo
<1>4. ReadLongest
  BY DEF ReadLongest
<1> QED
  BY <1>1, <1>2, <1>3, <1>4 DEF LexInv

(* The invariant of reading: what is read so far is cut into the longest   *)
(* lexemes, and their tokens are given.                                    *)
LEMMA AlwaysLexInv == FrontSpec => []LexInv
<1>1. FrontInit => LexInv
  <2> SUFFICES ASSUME FrontInit PROVE LexInv
    OBVIOUS
  <2>1. source \in Seq(STRING)
    <3>1. source \in Sources \/ source = <<>>
      BY DEF FrontInit, LexInit
    <3>2. \A s \in Sources : s \in Seq(STRING)
      BY AlphabetAssumption, Zenon
    <3>3. <<>> \in Seq(STRING)
      OBVIOUS
    <3> QED
      BY <3>1, <3>2, <3>3, Zenon
  <2>2. place = 0 /\ line = 1 /\ lexemes = <<>> /\ reading \in {"reading", "given"}
    BY DEF FrontInit, LexInit
  <2> QED
    BY <2>1, <2>2, LexStart
<1>2. LexInv /\ [FrontNext]_<<vars, lexVars>> => LexInv'
  <2> SUFFICES ASSUME LexInv, [FrontNext]_<<vars, lexVars>> PROVE LexInv'
    OBVIOUS
  <2>1. CASE Read
    BY <2>1, NextKeeps DEF Read
  <2>2. CASE StartParser
    BY <2>2, LexStutter, Zenon DEF StartParser, lexVars
  <2>3. CASE Parse
    BY <2>3, LexStutter, Zenon DEF Parse
  <2>4. CASE UNCHANGED <<vars, lexVars>>
    BY <2>4, LexStutter, Zenon
  <2> QED
    BY <2>1, <2>2, <2>3, <2>4, Zenon DEF FrontNext
<1> QED
  BY <1>1, <1>2, PTL DEF FrontSpec

(* Every text without a NUL byte is read as its longest lexemes, each      *)
(* token on its line, or refused on the line of the first place where no   *)
(* lexeme begins (nextToken, readNumber, readIdentifier, readOperator).    *)
THEOREM LexemesAreLongest == FrontSpec => []LongestLexemes
<1>1. LexInv => LongestLexemes
  BY DEF LexInv, LongestLexemes, LineOfPlace, NulFree
<1> QED
  BY <1>1, AlwaysLexInv, PTL

----------------------------------------------------------------------------
(* The parser.                                                             *)

(* What every action leaves as it is: an error stays, and the outcome      *)
(* changes only with the last call there is, to accepted only without an   *)
(* error.                                                                  *)
Step ==
  /\ todo # <<>>
  /\ error # None => error' = error
  /\ \/ outcome' = outcome
     \/ /\ todo' = <<>>
        /\ outcome' = "accepted" => error = None /\ error' = error

LEMMA EveryStep == Next => Step
<1> SUFFICES ASSUME Next PROVE Step
  OBVIOUS
<1>1. CASE parse
  BY <1>1 DEF parse, At, Step, Then
<1>2. CASE consume
  BY <1>2 DEF consume, At, Step, Fail
<1>3. CASE parseDeclaration
  BY <1>3 DEF parseDeclaration, At, Step, Only, Stay
<1>4. CASE parseVarDecl
  BY <1>4 DEF parseVarDecl, At, Step, Only
<1>5. CASE Declare
  BY <1>5 DEF Declare, At, Step
<1>6. CASE Assign
  BY <1>6 DEF Assign, At, Step
<1>7. CASE parseFuncDecl
  BY <1>7 DEF parseFuncDecl, At, Step, Only, Stay
<1>8. CASE Params
  BY <1>8 DEF Params, At, Step, Only, Stay
<1>9. CASE ParamType
  BY <1>9 DEF ParamType, At, Step, Fail, ParamTypeOr
<1>10. CASE NextParam
  BY <1>10 DEF NextParam, At, Step, Only
<1>11. CASE ReturnType
  BY <1>11 DEF ReturnType, At, Step, Only
<1>12. CASE SetReturnType
  BY <1>12 DEF SetReturnType, At, Step
<1>13. CASE FuncEnd
  BY <1>13 DEF FuncEnd, At, Step, Only
<1>14. CASE parseStatement
  BY <1>14 DEF parseStatement, At, Step, Only
<1>15. CASE parseIfStmt
  BY <1>15 DEF parseIfStmt, At, Step, Only, Stay
<1>16. CASE ConditionIsBool
  BY <1>16 DEF ConditionIsBool, At, Step, Fail
<1>17. CASE Else
  BY <1>17 DEF Else, At, Step, Only
<1>18. CASE ElseIf
  BY <1>18 DEF ElseIf, At, Step, Only
<1>19. CASE IfEnd
  BY <1>19 DEF IfEnd, At, Step, Only
<1>20. CASE parseWhileStmt
  BY <1>20 DEF parseWhileStmt, At, Step, Only, Stay
<1>21. CASE WhileEnd
  BY <1>21 DEF WhileEnd, At, Step, Only
<1>22. CASE parseReturnStmt
  BY <1>22 DEF parseReturnStmt, At, Step, Only, Stay
<1>23. CASE ReturnEnd
  BY <1>23 DEF ReturnEnd, At, Step, Only
<1>24. CASE parseBlock
  BY <1>24 DEF parseBlock, At, Step, Only
<1>25. CASE parseExprOrAssignmentStmt
  BY <1>25 DEF parseExprOrAssignmentStmt, At, Step, Only
<1>26. CASE ExprEnd
  BY <1>26 DEF ExprEnd, At, Step, Only
<1>27. CASE parseComparison
  BY <1>27 DEF parseComparison, At, Step, Only, Stay, Level, Rest
<1>28. CASE parseAddition
  BY <1>28 DEF parseAddition, At, Step, Only, Stay, Level, Rest
<1>29. CASE parseMultiplication
  BY <1>29 DEF parseMultiplication, At, Step, Only, Stay, Level, Rest
<1>30. CASE Binary
  BY <1>30 DEF Binary, At, Step, Only
<1>31. CASE parseUnary
  BY <1>31 DEF parseUnary, At, Step, Only
<1>32. CASE Negate
  BY <1>32 DEF Negate, At, Step, Only
<1>33. CASE Literal
  BY <1>33 DEF Literal, At, Step, Then
<1>34. CASE Identifier
  BY <1>34 DEF Identifier, At, Step, Only
<1>35. CASE Args
  BY <1>35 DEF Args, At, Step, Only
<1>36. CASE CallEnd
  BY <1>36 DEF CallEnd, At, Step, Only
<1>37. CASE Parentheses
  BY <1>37 DEF Parentheses, At, Step, Only
<1>38. CASE Unexpected
  BY <1>38 DEF Unexpected, At, Step, Fail
<1> QED
  BY <1>1, <1>2, <1>3, <1>4, <1>5, <1>6, <1>7, <1>8, <1>9, <1>10, <1>11,
     <1>12, <1>13, <1>14, <1>15, <1>16, <1>17, <1>18, <1>19, <1>20, <1>21,
     <1>22, <1>23, <1>24, <1>25, <1>26, <1>27, <1>28, <1>29, <1>30, <1>31,
     <1>32, <1>33, <1>34, <1>35, <1>36, <1>37, <1>38
     DEF Next, parsePrimary

(* A parse that has an outcome has nothing left to do, and none that is    *)
(* accepted has an error.                                                  *)
Ended ==
  /\ outcome # "parsing" => todo = <<>>
  /\ outcome = "accepted" => error = None

(* The invariant: only the last call gives an outcome.                     *)
LEMMA AlwaysEnded == Spec => []Ended
<1>1. Init => Ended
  BY DEF Init, Ended
<1>2. Ended /\ [Next]_vars => Ended'
  <2> SUFFICES ASSUME Ended, [Next]_vars PROVE Ended'
    OBVIOUS
  <2>1. CASE Next
    <3>1. Step
      BY <2>1, EveryStep
    <3>2. outcome = "parsing"
      BY <3>1 DEF Step, Ended
    <3> QED
      BY <3>1, <3>2 DEF Step, Ended
  <2>2. CASE UNCHANGED vars
    BY <2>2 DEF vars, Ended
  <2> QED
    BY <2>1, <2>2
<1> QED
  BY <1>1, <1>2, PTL DEF Spec

(* The first error of a parse is the one it reports, and nothing with an   *)
(* error is accepted, whatever the tokens (the _error guards of the code). *)
THEOREM FirstErrorStays == Spec => ErrorStays
<1>1. Ended /\ [Next]_vars => [error # None => error' = error /\ outcome' # "accepted"]_vars
  <2> SUFFICES ASSUME Ended, Next, error # None
               PROVE error' = error /\ outcome' # "accepted"
    OBVIOUS
  <2>1. Step
    BY EveryStep
  <2>2. outcome # "accepted"
    BY DEF Ended
  <2> QED
    BY <2>1, <2>2 DEF Step
<1> QED
  BY <1>1, AlwaysEnded, PTL DEF Spec, ErrorStays

(* The same when the tokens come from the lexer.                           *)
LEMMA FrontEnded == FrontSpec => []Ended
<1>1. FrontInit => Ended
  BY DEF FrontInit, Init, Ended, LexInit
<1>2. Ended /\ [FrontNext]_<<vars, lexVars>> => Ended'
  <2> SUFFICES ASSUME Ended, [FrontNext]_<<vars, lexVars>> PROVE Ended'
    OBVIOUS
  <2>1. CASE Read
    BY <2>1 DEF Read, vars, Ended
  <2>2. CASE StartParser
    BY <2>2 DEF StartParser, Ended
  <2>3. CASE Parse
    <3>1. Step
      BY <2>3, EveryStep DEF Parse
    <3>2. outcome = "parsing"
      BY <3>1 DEF Step, Ended
    <3> QED
      BY <3>1, <3>2 DEF Step, Ended
  <2>4. CASE UNCHANGED <<vars, lexVars>>
    BY <2>4 DEF vars, Ended
  <2> QED
    BY <2>1, <2>2, <2>3, <2>4 DEF FrontNext
<1> QED
  BY <1>1, <1>2, PTL DEF FrontSpec

(* The error and the outcome stay too where the tokens come from a text:   *)
(* handing the tokens over starts a parse, and does not end one.           *)
THEOREM FrontErrorStays == FrontSpec => ErrorStays
<1>1. Ended /\ [FrontNext]_<<vars, lexVars>> => [error # None => error' = error /\ outcome' # "accepted"]_vars
  <2> SUFFICES ASSUME Ended, [FrontNext]_<<vars, lexVars>>, error # None, ~UNCHANGED vars
               PROVE error' = error /\ outcome' # "accepted"
    OBVIOUS
  <2>1. CASE Read
    BY <2>1 DEF Read
  <2>2. CASE StartParser
    BY <2>2 DEF StartParser
  <2>3. CASE Parse
    <3>1. Step
      BY <2>3, EveryStep DEF Parse
    <3>2. outcome # "accepted"
      BY DEF Ended
    <3> QED
      BY <3>1, <3>2 DEF Step
  <2>4. CASE UNCHANGED <<vars, lexVars>>
    BY <2>4
  <2> QED
    BY <2>1, <2>2, <2>3, <2>4 DEF FrontNext
<1> QED
  BY <1>1, FrontEnded, PTL DEF FrontSpec, ErrorStays

=============================================================================
