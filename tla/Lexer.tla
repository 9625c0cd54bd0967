------------------------------- MODULE Lexer -------------------------------
(***************************************************************************)
(* The lexer, src/src/lexer/lexer.cj: one step is one turn of the loop of  *)
(* nextToken, and tokenize calls nextToken until it gives EOF or nothing.  *)
(* A text is a sequence of characters; place is 0-based, as pos is there.  *)
(***************************************************************************)
EXTENDS Integers, Sequences, FiniteSets

CONSTANTS Sources,   \* the texts to read
          Letters, Digits, Keywords   \* Keywords: text -> token type

(* What the ranges of isAlpha and isDigit leave out, and what the lexer    *)
(* asks for by name.                                                       *)
Others == {" ", "TAB", "CR", "LF", "NUL", ".", "!", "+", "-", "*", "/", "(", ")", "{", "}", ",", ":", "=", "<", ">"}
ASSUME AlphabetAssumption ==
  /\ Sources \subseteq Seq(STRING)
  /\ Letters \cap Digits = {} /\ (Letters \cup Digits) \cap Others = {}
ASSUME KeywordsAssumption == \A text \in DOMAIN Keywords : Keywords[text] \notin {"", "none"}

VARIABLES source, place, line, lexemes, badLine, reading   \* reading: "reading", "done", "failed"

lexVars == <<source, place, line, lexemes, badLine, reading>>

Operators == [x \in {"+", "-", "*", "/", "(", ")", "{", "}", ",", ":", "=", "<", ">"} |-> x]
(* Those that "=" may follow.                                              *)
Equals == [x \in {"=", "!", "<", ">"} |->
             CASE x = "=" -> "==" [] x = "!" -> "!=" [] x = "<" -> "<=" [] x = ">" -> ">="]
Blanks == {" ", "TAB", "CR"}

byte(p) == IF p < Len(source) THEN source[p + 1] ELSE "NUL"
Text(p, q) == SubSeq(source, p + 1, q)

(* The first place from p on whose byte is not in set, or is in set.       *)
After(p, set) == CHOOSE q \in p..Len(source) :
                   byte(q) \notin set /\ \A r \in p..q-1 : byte(r) \in set
Before(p, set) == CHOOSE q \in p..Len(source) :
                    byte(q) \in set /\ \A r \in p..q-1 : byte(r) \notin set

skipWhitespace(p) == After(p, Blanks)
(* A slip: the end of the line is skipped with the comment.                *)
skipCommentLine(p) ==
  IF byte(p) = "/" /\ byte(p + 1) = "/"
  THEN LET q == Before(p, {"LF", "NUL"}) IN IF byte(q) = "LF" THEN q + 1 ELSE q
  ELSE p
skipComment(p) == IF byte(p) = "/" /\ byte(p + 1) = "/" THEN Before(p, {"LF", "NUL"}) ELSE p

Token(type, p, q) == [t |-> type, text |-> Text(p, q), line |-> line]
Give(type, p, q) == place' = q /\ lexemes' = Append(lexemes, Token(type, p, q))
                      /\ UNCHANGED <<line, badLine, reading>>
Refuse(q) == place' = q /\ badLine' = line /\ reading' = "failed" /\ UNCHANGED <<line, lexemes>>

LexInit ==
  /\ source \in Sources
  /\ place = 0 /\ line = 1 /\ lexemes = <<>> /\ badLine = 0 /\ reading = "reading"

readNumber(p) ==
  LET q == After(p, Digits \cup {"."})
      dotCount == Cardinality({r \in p..q-1 : byte(r) = "."})
  IN IF dotCount > 1 THEN Refuse(q) ELSE Give("NUMBER", p, q)

lookupKeyword(text) == IF text \in DOMAIN Keywords THEN Keywords[text] ELSE "IDENTIFIER"
(* A slip: digits end a name.                                              *)
readIdentifierLetters(p) ==
  LET q == After(p, Letters) IN Give(lookupKeyword(Text(p, q)), p, q)
readIdentifier(p) ==
  LET q == After(p, Letters \cup Digits) IN Give(lookupKeyword(Text(p, q)), p, q)

(* A slip: the error is noted, but reading goes on.                          *)
readOperatorGoesOn(p) ==
  LET b == byte(p)
  IN IF b \in DOMAIN Equals /\ byte(p + 1) = "=" THEN Give(Equals[b], p, p + 2)
     ELSE IF b \in DOMAIN Operators THEN Give(b, p, p + 1)
     ELSE place' = p /\ badLine' = line /\ UNCHANGED <<line, lexemes, reading>>
readOperator(p) ==
  LET b == byte(p)
  IN IF b \in DOMAIN Equals /\ byte(p + 1) = "=" THEN Give(Equals[b], p, p + 2)
     ELSE IF b \in DOMAIN Operators THEN Give(b, p, p + 1)
     ELSE Refuse(p)

nextToken ==
  /\ reading = "reading" /\ UNCHANGED source
  /\ LET p == IF byte(place) = "NUL" THEN place ELSE skipComment(skipWhitespace(place))
         b == byte(p)
     IN CASE b = "NUL" -> /\ lexemes' = Append(lexemes, [t |-> "EOF", text |-> <<>>, line |-> line])
                          /\ reading' = "done" /\ place' = p /\ UNCHANGED <<line, badLine>>
          [] b = "LF" -> line' = line + 1 /\ place' = p + 1 /\ UNCHANGED <<lexemes, badLine, reading>>
          [] b \in Digits -> readNumber(p)
          [] b \in Letters -> readIdentifier(p)
          [] OTHER -> readOperator(p)

LexSpec == LexInit /\ [][nextToken]_lexVars /\ WF_lexVars(nextToken)

----------------------------------------------------------------------------
(***************************************************************************)
(* The lexical rules of src/README.md 4, said another way than the lexer   *)
(* reads: which texts are lexemes, and that a text is read as the longest  *)
(* lexemes that come one after the other.                                  *)
(***************************************************************************)

(* The type of a lexeme: "" if it gives no token, "none" for other texts.  *)
Type(s) ==
  LET All(set) == \A j \in 1..Len(s) : s[j] \in set
      Once(c) == \A i, j \in 1..Len(s) : s[i] = c /\ s[j] = c => i = j
  IN CASE Len(s) = 1 /\ s[1] \in Blanks \cup {"LF"} -> ""
       [] Len(s) > 1 /\ s[1] = "/" /\ s[2] = "/" /\ All(STRING \ {"LF"}) -> ""
       [] s[1] \in Digits /\ All(Digits \cup {"."}) /\ Once(".") -> "NUMBER"
       [] s[1] \in Letters /\ All(Letters \cup Digits) -> lookupKeyword(s)
       [] Len(s) = 1 /\ s[1] \in DOMAIN Operators -> Operators[s[1]]
       [] Len(s) = 2 /\ s[1] \in DOMAIN Equals /\ s[2] = "=" -> Equals[s[1]]
       [] OTHER -> "none"

(* Of the lexemes that begin at p, the longest ends at q.                  *)
Longest(p, q) ==
  /\ q \in p+1..Len(source) /\ Type(Text(p, q)) # "none"
  /\ \A r \in q+1..Len(source) : Type(Text(p, r)) = "none"
EndOf(p) == CHOOSE q \in p+1..Len(source) : Longest(p, q)
LineOf(p) == 1 + Cardinality({j \in 1..p : source[j] = "LF"})

(* The places C cut the text, up to e, into lexemes.                       *)
Cut(C, e) ==
  /\ C \subseteq 0..e /\ {0, e} \subseteq C
  /\ \A p \in C \ {e} : \E q \in C : Longest(p, q) /\ \A r \in C : r <= p \/ q <= r
(* The places where lexemes that give tokens begin, and the tokens: the    *)
(* text between the places may give more.                                  *)
Given(C, e) == {p \in C \ {e} : Type(Text(p, EndOf(p))) # ""}
Rank(p, places) == Cardinality({r \in places : r <= p})
TokenAt(p) == [t |-> Type(Text(p, EndOf(p))), text |-> Text(p, EndOf(p)), line |-> LineOf(p)]
Gives(places, ts) ==
  /\ Len(ts) <= Cardinality(places)
  /\ \A p \in places : Rank(p, places) <= Len(ts) => ts[Rank(p, places)] = TokenAt(p)
GivesAll(places, ts) == Gives(places, ts) /\ Len(ts) = Cardinality(places)

(* The lexer reads a text as the longest lexemes, each token on its line,  *)
(* or reports the line of a place where no lexeme begins, after the tokens *)
(* before it (nextToken and what it calls).  A NUL byte ends the text.     *)
ReadLongest ==
  LET n == Len(source)
      end == [t |-> "EOF", text |-> <<>>, line |-> LineOf(n)]
  IN /\ reading = "done" =>
          \E C \in SUBSET (0..n) :
            Cut(C, n) /\ \E ts \in {SubSeq(lexemes, 1, Len(lexemes) - 1)} :
                           GivesAll(Given(C, n), ts) /\ lexemes = Append(ts, end)
     /\ reading = "failed" =>
          \E e \in 0..n : \E C \in SUBSET (0..e) :
            /\ Cut(C, e) /\ Gives(Given(C, e), lexemes)
            /\ \A q \in e+1..n : Type(Text(e, q)) = "none"
            /\ e < n /\ badLine = LineOf(e)

(* The line is the line of the place, whatever is skipped (lexer.cj 172).  *)
LineOfPlace == line = LineOf(place)

(* The whole of the source becomes tokens, "将整个源码一次性分词" (lexer.cj 285).  *)
(* Not so: a NUL byte is taken for its end.                                *)
WholeSource == reading = "done" => place = Len(source)
=============================================================================
