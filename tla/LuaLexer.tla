------------------------------ MODULE LuaLexer ------------------------------
(***************************************************************************)
(* UTF-8: luaO_utf8esc of src/luavm/src/lobject.c writes a code point, and *)
(* src/luavm/src/lutf8lib.c reads strings of bytes.  Bytes are 0..255 and  *)
(* positions of the library count from 1; in C a string ends with a zero.  *)
(***************************************************************************)
EXTENDS Integers, Sequences, FiniteSets, SequencesExt

MAXUNICODE == 1114111           \* 0x10FFFF
MAXUTF == 2147483647            \* 0x7FFFFFFF
Invalid == <<-1>>               \* NULL, or an error
InvalidPairs == <<<<0, 0>>>>

----------------------------------------------------------------------------
(* Encoding.  mfb is the largest value that fits in the first byte.        *)

RECURSIVE Continued(_, _, _)
(* Mutant: the first byte is taken to hold one bit more.                   *)
ContinuedWide(x, mfb, bytes) ==
  IF x > 2 * mfb + 1 THEN Continued(x \div 64, mfb \div 2, <<128 + (x % 64)>> \o bytes)
  ELSE <<256 - 2 * (mfb + 1) + x>> \o bytes
Continued(x, mfb, bytes) ==     \* x are the bits left, after some bytes were added
  IF x > mfb THEN Continued(x \div 64, mfb \div 2, <<128 + (x % 64)>> \o bytes)
  ELSE <<256 - 2 * (mfb + 1) + x>> \o bytes         \* (~mfb << 1) | x
luaO_utf8esc(x) == IF x < 128 THEN <<x>> ELSE Continued(x \div 64, 31, <<128 + (x % 64)>>)
utfchar(code) == IF code \in 0..MAXUTF THEN luaO_utf8esc(code) ELSE Invalid

----------------------------------------------------------------------------
(* Decoding the sequence at p: [val, next], next 0 when there is none.     *)

Byte(s, p) == IF p \in DOMAIN s THEN s[p] ELSE 0
iscont(c) == c \in 128..191
limits == <<128, 2048, 65536, 2097152, 67108864>>       \* by continuation bytes; none is an error
None == [val |-> 0, next |-> 0]
RECURSIVE Joined(_, _, _)
Joined(s, p, n) == IF n = 0 THEN 0 ELSE Joined(s, p, n - 1) * 64 + (Byte(s, p + n) % 64)
CountOnes(c) == LET zero == {n \in 0..6 : (c \div 2^(6 - n)) % 2 = 0} IN IF zero = {} THEN 7 ELSE CHOOSE n \in zero : \A m \in zero : n <= m
Strict(v) == v <= MAXUNICODE /\ v \notin 55296..57343
(* Mutant: sequences longer than they need to be are taken.                *)
LongEnoughAny(v, count) == TRUE
LongEnough(v, count) == count > 0 /\ v >= limits[count]
utf8_decode(s, p, strict) ==
  LET c == Byte(s, p)
      count == CountOnes(c)
      first == (c % 2^(6 - count)) * 64^count
      val == first + Joined(s, p, count)
  IN IF c < 128 THEN [val |-> c, next |-> p + 1]
     ELSE IF count > 5 \/ \E n \in 1..count : ~iscont(Byte(s, p + n)) THEN None
     ELSE IF ~LongEnough(val, count) \/ (strict /\ ~Strict(val)) THEN None
     ELSE [val |-> val, next |-> p + count + 1]

----------------------------------------------------------------------------
(* The functions of the library; what they return, or Invalid.             *)

u_posrelat(pos, len) == IF pos >= 0 THEN pos ELSE IF -pos > len THEN 0 ELSE len + pos + 1
RECURSIVE Lengths(_, _, _, _, _), Codes(_, _, _, _)
Lengths(s, p, last, strict, n) ==
  LET d == utf8_decode(s, p, strict)
  IN IF p > last THEN <<n>> ELSE IF d = None THEN <<-1, p>> ELSE Lengths(s, d.next, last, strict, n + 1)
utflen(s, i, j, strict) ==
  LET posi == u_posrelat(i, Len(s))
      posj == u_posrelat(j, Len(s))
  IN IF posi \notin 1..(Len(s) + 1) \/ posj > Len(s) THEN Invalid ELSE Lengths(s, posi, posj, strict, 0)
Codes(s, p, last, strict) ==
  LET d == utf8_decode(s, p, strict)
      rest == Codes(s, d.next, last, strict)
  IN IF p > last THEN <<>> ELSE IF d = None \/ rest = Invalid THEN Invalid ELSE <<d.val>> \o rest
codepoint(s, i, j, strict) ==
  LET posi == u_posrelat(i, Len(s))
      pose == u_posrelat(j, Len(s))
  IN IF posi < 1 \/ pose > Len(s) THEN Invalid ELSE Codes(s, posi, pose, strict)

RECURSIVE BackCont(_, _), Back(_, _, _), Ahead(_, _, _), LastCont(_, _)
BackCont(s, p) == IF p > 1 /\ iscont(Byte(s, p)) THEN BackCont(s, p - 1) ELSE p
Back(s, p, n) == IF n < 0 /\ p > 1 THEN Back(s, BackCont(s, p - 1), n + 1) ELSE [at |-> p, n |-> n]
LastCont(s, p) == IF iscont(Byte(s, p + 1)) THEN LastCont(s, p + 1) ELSE p
Ahead(s, p, n) == IF n > 0 /\ p <= Len(s) THEN Ahead(s, LastCont(s, p) + 1, n - 1) ELSE [at |-> p, n |-> n]
byteoffset(s, n, i) ==
  LET p == u_posrelat(i, Len(s))
      to == IF n = 0 THEN [at |-> BackCont(s, p), n |-> 0]
            ELSE IF n < 0 THEN Back(s, p, n) ELSE Ahead(s, p, n - 1)
      first == Byte(s, to.at)
  IN CASE p \notin 1..(Len(s) + 1) -> Invalid
       [] p \in 1..(Len(s) + 1) /\ n # 0 /\ iscont(Byte(s, p)) -> Invalid
       [] p \in 1..(Len(s) + 1) /\ ~(n # 0 /\ iscont(Byte(s, p))) /\ to.n # 0 -> <<>>
       [] OTHER -> IF first >= 128 /\ iscont(first) THEN Invalid
                   ELSE <<to.at, IF first >= 128 THEN LastCont(s, to.at) ELSE to.at>>

(* utf8.codes: the pairs of the iterator.                                  *)
RECURSIVE SkipCont(_, _), iter_aux(_, _, _)
SkipCont(s, p) == IF iscont(Byte(s, p)) THEN SkipCont(s, p + 1) ELSE p
iter_aux(s, n, strict) ==           \* n: where the last character started, 0 at first
  LET p == IF n < Len(s) THEN SkipCont(s, n + 1) ELSE n + 1
      d == utf8_decode(s, p, strict)
      rest == iter_aux(s, p, strict)
  IN IF p > Len(s) THEN <<>>
     ELSE IF d = None \/ iscont(Byte(s, d.next)) THEN InvalidPairs
     ELSE IF rest = InvalidPairs THEN InvalidPairs ELSE <<<<p, d.val>>>> \o rest
iter_codes(s, strict) == IF iscont(Byte(s, 1)) THEN InvalidPairs ELSE iter_aux(s, 0, strict)

----------------------------------------------------------------------------
(* A code point has one encoding, the shortest, and decoding gives it      *)
(* back: whatever is decoded is what would be encoded.                     *)

RoundTrip(code) ==
  LET s == utfchar(code)
  IN /\ Len(s) \in 1..6
     /\ utf8_decode(s, 1, FALSE) = [val |-> code, next |-> Len(s) + 1]
     /\ \A n \in 2..Len(s) : iscont(s[n]) /\ utf8_decode(SubSeq(s, 1, n - 1), 1, FALSE) = None
OnlyShortest(s) ==
  LET d == utf8_decode(s, 1, FALSE)
  IN d # None => d.val \in 0..MAXUTF /\ luaO_utf8esc(d.val) = [i \in 1..(d.next - 1) |-> Byte(s, i)]

(* The functions agree on the characters of a string: a list of code       *)
(* points whose encodings make it up, if there is one.                     *)
RECURSIVE Decoded(_, _)
Decoded(s, strict) ==
  IF s = <<>> THEN <<>>
  ELSE LET d == utf8_decode(s, 1, strict)
           rest == Decoded(SubSeq(s, d.next, Len(s)), strict)
       IN IF d = None \/ rest = Invalid THEN Invalid ELSE <<d.val>> \o rest
Starts(codes) == [n \in 1..(Len(codes) + 1) |-> 1 + FoldLeft(LAMBDA a, c : a + Len(luaO_utf8esc(c)), 0, SubSeq(codes, 1, n - 1))]
FunctionsAgree(s, strict) ==
  LET codes == Decoded(s, strict)
      starts == Starts(codes)
      n == Len(codes)
  IN IF codes = Invalid
     THEN /\ codepoint(s, 1, -1, strict) = Invalid
          /\ utflen(s, 1, -1, strict)[1] = -1
          /\ iter_codes(s, strict) = InvalidPairs
     ELSE /\ codepoint(s, 1, -1, strict) = codes
          /\ utflen(s, 1, -1, strict) = <<n>>
          /\ iter_codes(s, strict) = [k \in 1..n |-> <<starts[k], codes[k]>>]
          /\ \A k \in 1..n : /\ byteoffset(s, k, 1) = <<starts[k], starts[k + 1] - 1>>
                             /\ byteoffset(s, k - n - 1, Len(s) + 1) = byteoffset(s, k, 1)
                             /\ \A p \in starts[k]..(starts[k + 1] - 1) : byteoffset(s, 0, p) = byteoffset(s, k, 1)
          /\ byteoffset(s, n + 2, 1) = <<>> /\ byteoffset(s, -n - 1, Len(s) + 1) = <<>>

----------------------------------------------------------------------------
(***************************************************************************)
(* The scanner of Lua, src/luavm/src/llex.c, which the Cangjie side does   *)
(* not use, and string.format("%q") of lstrlib.c, which writes for it.     *)
(*                                                                         *)
(* Characters are their codes.  ls is [z, p, linenumber]: the text, where  *)
(* it is read, and the line.  What is read comes with the new ls, in a     *)
(* record [ls, token, s]; s are characters.                                *)
(***************************************************************************)

EOZ == -1
LF == 10
CR == 13
Quote == 34
Apostrophe == 39
Backslash == 92
Minus == 45
Equal == 61
Dot == 46
LeftBracket == 91
RightBracket == 93
NewlineCodes == {LF, CR}
Spaces == {9, 10, 11, 12, 13, 32}
Decimals == 48..57
HexDigits == Decimals \cup (65..70) \cup (97..102)
Alphas == (65..90) \cup (97..122) \cup {95}

Input(z) == [z |-> z, p |-> 1, linenumber |-> 1]        \* luaX_setinput
current(ls) == IF ls.p \in DOMAIN ls.z THEN ls.z[ls.p] ELSE EOZ
Past(ls) == [ls EXCEPT !.p = @ + 1]                     \* next
Read(ls, token, s) == [ls |-> ls, token |-> token, s |-> s]
lexerror(ls) == Read(ls, "error", <<>>)

(* One line for each of \n, \r, \n\r and \r\n.                             *)
(* Mutant: each character of a pair is a line.                             *)
inclinenumberEach(ls) == [Past(ls) EXCEPT !.linenumber = @ + 1]
inclinenumber(ls) ==
  LET one == Past(ls)
      pair == current(one) \in NewlineCodes /\ current(one) # current(ls)
  IN [(IF pair THEN Past(one) ELSE one) EXCEPT !.linenumber = @ + 1]

----------------------------------------------------------------------------
(* Long brackets.                                                          *)

RECURSIVE PastEquals(_), LongString(_, _, _)
PastEquals(ls) == IF current(ls) = Equal THEN PastEquals(Past(ls)) ELSE ls
skip_sep(ls) ==         \* the level + 2, 1 for one bracket, 0 for one that is not finished
  LET after == PastEquals(Past(ls))
      count == after.p - ls.p - 1
  IN [ls |-> after, sep |-> IF current(after) = current(ls) THEN count + 2 ELSE IF count = 0 THEN 1 ELSE 0]
(* Mutant: a bracket of any level closes.                                  *)
ClosesAny(close, sep) == close.sep > 1
ClosesLevel(close, sep) == close.sep = sep
LongString(ls, sep, s) ==
  LET c == current(ls)
      close == skip_sep(ls)
  IN CASE c = EOZ -> lexerror(ls)
       [] c = RightBracket /\ ClosesLevel(close, sep) -> Read(Past(close.ls), "string", s)
       [] c = RightBracket /\ ~ClosesLevel(close, sep) -> LongString(close.ls, sep, s \o SubSeq(ls.z, ls.p, close.ls.p - 1))
       [] c \in NewlineCodes -> LongString(inclinenumber(ls), sep, Append(s, LF))
       [] OTHER -> LongString(Past(ls), sep, Append(s, c))
read_long_string(ls, sep) ==            \* from the second bracket
  LET inside == Past(ls) IN LongString(IF current(inside) \in NewlineCodes THEN inclinenumber(inside) ELSE inside, sep, <<>>)

----------------------------------------------------------------------------
(* Strings between quotes, with escapes.                                   *)

luaO_hexavalue(c) == IF c \in Decimals THEN c - 48 ELSE IF c >= 97 THEN c - 87 ELSE c - 55
readhexaesc(ls) ==      \* from the "x"
  LET a == Past(ls)
      b == Past(a)
  IN IF current(a) \in HexDigits /\ current(b) \in HexDigits
     THEN Read(Past(b), "char", <<luaO_hexavalue(current(a)) * 16 + luaO_hexavalue(current(b))>>) ELSE lexerror(ls)
RECURSIVE Utf8Digits(_, _)
Utf8Digits(ls, r) ==
  IF current(ls) \notin HexDigits THEN (IF current(ls) = 125 THEN Read(Past(ls), "char", luaO_utf8esc(r)) ELSE lexerror(ls))
  ELSE IF r > 134217727 THEN lexerror(ls)           \* 0x7FFFFFFF >> 4
  ELSE Utf8Digits(Past(ls), r * 16 + luaO_hexavalue(current(ls)))
utf8esc(ls) ==          \* from the "u"
  LET open == Past(ls)
      first == Past(open)
  IN IF current(open) # 123 \/ current(first) \notin HexDigits THEN lexerror(ls)
     ELSE Utf8Digits(Past(first), luaO_hexavalue(current(first)))
RECURSIVE Decimals3(_, _, _)
Decimals3(ls, n, r) == IF n < 3 /\ current(ls) \in Decimals THEN Decimals3(Past(ls), n + 1, 10 * r + current(ls) - 48) ELSE [ls |-> ls, r |-> r]
readdecesc(ls) == LET d == Decimals3(ls, 0, 0) IN IF d.r <= 255 THEN Read(d.ls, "char", <<d.r>>) ELSE lexerror(ls)
RECURSIVE Zap(_)
Zap(ls) == IF current(ls) \notin Spaces THEN ls ELSE Zap(IF current(ls) \in NewlineCodes THEN inclinenumber(ls) ELSE Past(ls))
Letters == [c \in {97, 98, 102, 110, 114, 116, 118} |->        \* a b f n r t v
              CASE c = 97 -> 7 [] c = 98 -> 8 [] c = 102 -> 12 [] c = 110 -> 10 [] c = 114 -> 13 [] c = 116 -> 9 [] c = 118 -> 11]
Escaped(ls) ==          \* from the character after the backslash
  LET c == current(ls)
  IN CASE c \in DOMAIN Letters -> Read(Past(ls), "char", <<Letters[c]>>)
       [] c \in {Backslash, Quote, Apostrophe} -> Read(Past(ls), "char", <<c>>)
       [] c \in NewlineCodes -> Read(inclinenumber(ls), "char", <<LF>>)
       [] c = 120 -> readhexaesc(ls)
       [] c = 117 -> utf8esc(ls)
       [] c = 122 -> Read(Zap(Past(ls)), "char", <<>>)
       [] c = EOZ -> Read(ls, "char", <<>>)
       [] OTHER -> IF c \in Decimals THEN readdecesc(ls) ELSE lexerror(ls)
RECURSIVE StringRest(_, _, _)
StringRest(ls, del, s) ==
  LET c == current(ls)
      e == Escaped(Past(ls))
  IN CASE c = del -> Read(Past(ls), "string", s)
       [] c # del /\ (c = EOZ \/ c \in NewlineCodes) -> lexerror(ls)
       [] c = Backslash -> IF e.token = "error" THEN e ELSE StringRest(e.ls, del, s \o e.s)
       [] OTHER -> StringRest(Past(ls), del, Append(s, c))
read_string(ls) == StringRest(Past(ls), current(ls), <<>>)

----------------------------------------------------------------------------
(* Numerals: all that may belong to one is read, and converted after.      *)

RECURSIVE NumeralEnd(_, _)
NumeralEnd(ls, expo) ==
  LET c == current(ls)
      sign == IF current(Past(ls)) \in {Minus, 43} THEN Past(Past(ls)) ELSE Past(ls)
  IN IF c \in expo THEN NumeralEnd(sign, expo) ELSE IF c \in HexDigits \cup {Dot} THEN NumeralEnd(Past(ls), expo) ELSE ls
read_numeral(ls, from) ==
  LET hex == current(ls) = 48 /\ current(Past(ls)) \in {88, 120}
      end == NumeralEnd(IF hex THEN Past(Past(ls)) ELSE Past(ls), IF hex THEN {80, 112} ELSE {69, 101})
      touching == IF current(end) \in Alphas THEN Past(end) ELSE end
  IN Read(touching, "number", SubSeq(ls.z, from, touching.p - 1))

----------------------------------------------------------------------------
(* llex: the next token.                                                   *)

Doubled == {Equal, 60, 62, 47, 58}                  \* = < > / :
WithEqual == {60, 62, 126}                          \* < > ~
Operator(ls) ==
  LET c == current(ls)
      d == current(Past(ls))
      two == (c \in Doubled /\ d = c) \/ (c \in WithEqual /\ d = Equal)
  IN Read(IF two THEN Past(Past(ls)) ELSE Past(ls), "operator", IF two THEN <<c, d>> ELSE <<c>>)
Dots(ls) ==
  LET two == Past(ls)
      three == Past(two)
  IN CASE current(two) = Dot -> Read(IF current(three) = Dot THEN Past(three) ELSE three, "operator", IF current(three) = Dot THEN <<Dot, Dot, Dot>> ELSE <<Dot, Dot>>)
       [] current(two) \in Decimals -> read_numeral(two, ls.p)
       [] OTHER -> Read(two, "operator", <<Dot>>)
RECURSIVE LineEnd(_), NameEnd(_), llex(_)
LineEnd(ls) == IF current(ls) \in NewlineCodes \cup {EOZ} THEN ls ELSE LineEnd(Past(ls))
NameEnd(ls) == IF current(ls) \in Alphas \cup Decimals THEN NameEnd(Past(ls)) ELSE ls
Comment(ls) ==          \* after "--"
  LET bracket == skip_sep(ls)
      long == read_long_string(bracket.ls, bracket.sep)
  IN IF current(ls) # LeftBracket THEN llex(LineEnd(ls))
     ELSE IF bracket.sep < 2 THEN llex(LineEnd(bracket.ls))
     ELSE IF long.token = "error" THEN long ELSE llex(long.ls)
llex(ls) ==
  LET c == current(ls)
      bracket == skip_sep(ls)
  IN CASE c = EOZ -> Read(ls, "eos", <<>>)
       [] c \in NewlineCodes -> llex(inclinenumber(ls))
       [] c \in Spaces \ NewlineCodes -> llex(Past(ls))
       [] c = Minus -> IF current(Past(ls)) = Minus THEN Comment(Past(Past(ls))) ELSE Read(Past(ls), "operator", <<Minus>>)
       [] c = LeftBracket -> IF bracket.sep >= 2 THEN read_long_string(bracket.ls, bracket.sep)
                             ELSE IF bracket.sep = 0 THEN lexerror(ls) ELSE Read(bracket.ls, "operator", <<c>>)
       [] c \in {Quote, Apostrophe} -> read_string(ls)
       [] c = Dot -> Dots(ls)
       [] c \in Decimals -> read_numeral(ls, ls.p)
       [] c \in Alphas -> Read(NameEnd(ls), "name", SubSeq(ls.z, ls.p, NameEnd(ls).p - 1))
       [] OTHER -> Operator(ls)
(* All the tokens, the last one the end or an error.                       *)
RECURSIVE Scan(_)
Scan(ls) == LET t == llex(ls) IN IF t.token \in {"eos", "error"} THEN <<t>> ELSE <<t>> \o Scan(t.ls)
Tokens(z) == Scan(Input(z))

----------------------------------------------------------------------------
(* string.format("%q", s).                                                 *)

Controls == (0..31) \cup {127}
DigitsOf(n) == IF n >= 100 THEN <<48 + (n \div 100), 48 + ((n \div 10) % 10), 48 + (n % 10)>>
               ELSE IF n >= 10 THEN <<48 + (n \div 10), 48 + (n % 10)>> ELSE <<48 + n>>
(* Mutant: a control character is written as short as it can be.           *)
ControlShort(c, next) == <<Backslash>> \o DigitsOf(c)
Control(c, next) ==
  IF next \in Decimals THEN <<Backslash, 48 + (c \div 100), 48 + ((c \div 10) % 10), 48 + (c % 10)>> ELSE <<Backslash>> \o DigitsOf(c)
QuotedChar(s, i) ==
  CASE s[i] \in {Quote, Backslash, LF} -> <<Backslash, s[i]>>
    [] s[i] \in Controls \ {LF} -> Control(s[i], IF i < Len(s) THEN s[i + 1] ELSE 0)
    [] OTHER -> <<s[i]>>
addquoted(s) == <<Quote>> \o FlattenSeq([i \in DOMAIN s |-> QuotedChar(s, i)]) \o <<Quote>>

----------------------------------------------------------------------------
(* Whatever the string, "%q" writes a text that is read as one token, that *)
(* string.                                                                 *)
QuotedIsRead(s) == LET t == Tokens(addquoted(s)) IN Len(t) = 2 /\ t[1].token = "string" /\ t[1].s = s

(* A text is counted to have a line more than it has line ends, whatever   *)
(* they are in.                                                            *)
RECURSIVE LineEnds(_)
LineEnds(z) ==
  IF z = <<>> THEN 0
  ELSE IF Head(z) \notin NewlineCodes THEN LineEnds(Tail(z))
  ELSE 1 + LineEnds(IF Len(z) > 1 /\ z[2] \in NewlineCodes /\ z[2] # z[1] THEN Tail(Tail(z)) ELSE Tail(z))
LinesCounted(z) ==
  LET last == Last(Tokens(z)) IN last.ls.linenumber = 1 + LineEnds(SubSeq(z, 1, last.ls.p - 1))

(* Any text stands in long brackets of a level that does not close in it.  *)
Equals(n) == [i \in 1..n |-> Equal]
Bracketed(s, level) == <<LeftBracket>> \o Equals(level) \o <<LeftBracket, LF>> \o s \o <<RightBracket>> \o Equals(level) \o <<RightBracket>>
Closes(s, level) ==
  LET body == s \o <<RightBracket>>
      mark == <<RightBracket>> \o Equals(level) \o <<RightBracket>>
  IN \E i \in DOMAIN s : SubSeq(body \o Equals(level) \o <<RightBracket>>, i, i + level + 1) = mark
LongBracketsHold(s, level) ==
  (~Closes(s, level) /\ CR \notin ToSet(s)) =>
    LET t == Tokens(Bracketed(s, level)) IN Len(t) = 2 /\ t[1].token = "string" /\ t[1].s = s
=============================================================================
