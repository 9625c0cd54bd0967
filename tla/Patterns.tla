------------------------------ MODULE Patterns ------------------------------
(***************************************************************************)
(* The pattern matching of src/luavm/src/lstrlib.c: match and what it      *)
(* calls, string.find, string.match, string.gmatch and string.gsub.        *)
(*                                                                         *)
(* Strings are sequences of characters; positions count from 1, and 0 is   *)
(* the null pointer.  An outcome of match is [at, ms]: where the match     *)
(* ends, 0 when there is none, or -1 after an error, which leaves ms as it *)
(* was when it was raised.                                                 *)
(***************************************************************************)
EXTENDS Integers, Sequences, FiniteSets, SequencesExt

CONSTANTS MAXCCALLS, LUA_MAXCAPTURES

Unfinished == -1                    \* CAP_UNFINISHED
Position == -2                      \* CAP_POSITION
Repeats == {"*", "+", "-", "?"}
Specials == Repeats \cup {"^", "$", ".", "(", "[", "%"}

(* C strings end with a null character.                                    *)
CharAt(q, i) == IF i \in 1..Len(q) THEN q[i] ELSE "NUL"
End(q) == Len(q) + 1

prepstate(s, p) == [src |-> s, p |-> p, depth |-> MAXCCALLS, capture |-> <<>>]
reprepstate(ms) == [ms EXCEPT !.capture = <<>>]
Failed(ms) == [at |-> 0, ms |-> ms]
Error(ms) == [at |-> -1, ms |-> ms]

----------------------------------------------------------------------------
(* Single characters.                                                      *)

Letters == {"a", "b", "A"}
Digits == {"0", "1", "2"}
match_class(c, cl) ==
  CASE cl = "a" -> c \in Letters
    [] cl = "A" -> c \notin Letters
    [] cl = "d" -> c \in Digits
    [] cl = "D" -> c \notin Digits
    [] OTHER -> c = cl

(* Where the class at p ends, 0 when it is malformed.                      *)
RECURSIVE SetEnd(_, _)
SetEnd(p, i) ==
  IF i >= End(p) THEN 0
  ELSE LET next == IF p[i] = "%" /\ i + 1 < End(p) THEN i + 2 ELSE i + 1
       IN IF CharAt(p, next) = "]" THEN next + 1 ELSE SetEnd(p, next)
classend(p, i) ==
  CASE p[i] = "%" -> IF i + 1 = End(p) THEN 0 ELSE i + 2
    [] p[i] = "[" -> SetEnd(p, IF CharAt(p, i + 1) = "^" THEN i + 2 ELSE i + 1)
    [] OTHER -> i + 1

Order == <<"NUL", "(", ")", "-", "0", "1", "2", "A", "a", "b">>
Code(c) == IF \E i \in DOMAIN Order : Order[i] = c THEN CHOOSE i \in DOMAIN Order : Order[i] = c ELSE 0
RECURSIVE InSet(_, _, _, _)
InSet(c, p, i, ec) ==
  /\ i < ec
  /\ IF p[i] = "%" THEN match_class(c, p[i + 1]) \/ InSet(c, p, i + 2, ec)
     ELSE IF CharAt(p, i + 1) = "-" /\ i + 2 < ec
          THEN (Code(p[i]) <= Code(c) /\ Code(c) <= Code(p[i + 2])) \/ InSet(c, p, i + 3, ec)
          ELSE p[i] = c \/ InSet(c, p, i + 1, ec)
matchbracketclass(c, p, i, ec) ==
  IF CharAt(p, i + 1) = "^" THEN ~InSet(c, p, i + 2, ec) ELSE InSet(c, p, i + 1, ec)
singlematch(ms, s, i, ep) ==
  /\ s < End(ms.src)
  /\ LET c == ms.src[s]
     IN CASE ms.p[i] = "." -> TRUE
          [] ms.p[i] = "%" -> match_class(c, ms.p[i + 1])
          [] ms.p[i] = "[" -> matchbracketclass(c, ms.p, i, ep - 1)
          [] OTHER -> ms.p[i] = c

RECURSIVE Balanced(_, _, _, _, _)
Balanced(src, s, b, e, cont) ==
  IF s >= End(src) THEN 0
  ELSE IF src[s] = e THEN (IF cont = 1 THEN s + 1 ELSE Balanced(src, s + 1, b, e, cont - 1))
  ELSE Balanced(src, s + 1, b, e, IF src[s] = b THEN cont + 1 ELSE cont)
matchbalance(ms, s, i) ==
  IF CharAt(ms.src, s) # ms.p[i] THEN 0 ELSE Balanced(ms.src, s + 1, ms.p[i], ms.p[i + 1], 1)

----------------------------------------------------------------------------
(* Captures.                                                               *)

CaptureDigits == <<"1", "2">>
check_capture(ms, d) ==     \* the number of the capture %d, or 0
  LET l == SelectInSeq(CaptureDigits, LAMBDA x : x = d)
  IN IF l \in DOMAIN ms.capture /\ ms.capture[l].len # Unfinished THEN l ELSE 0
capture_to_close(ms) ==
  Max({0} \cup {l \in DOMAIN ms.capture : ms.capture[l].len = Unfinished})
match_capture(ms, s, l) ==
  LET c == ms.capture[l]
      len == IF c.len = Position THEN Len(ms.src) + 1 ELSE c.len    \* (size_t)CAP_POSITION
  IN IF End(ms.src) - s >= len /\ SubSeq(ms.src, c.init, c.init + len - 1) = SubSeq(ms.src, s, s + len - 1)
     THEN s + len ELSE 0

----------------------------------------------------------------------------
(* match: each call goes one deeper, and comes back unless it fails with   *)
(* an error.                                                               *)

RECURSIVE match(_, _, _), domatch(_, _, _), max_expand(_, _, _, _, _), min_expand(_, _, _, _), default(_, _, _, _), OnceOrNone(_, _, _), Expanded(_, _, _, _, _), Shorter(_, _, _, _)

Deeper(ms) == [ms EXCEPT !.depth = @ - 1]
Back(r) == IF r.at = -1 THEN r ELSE [r EXCEPT !.ms.depth = @ + 1]
match(ms, s, i) == IF ms.depth = 0 THEN Error(ms) ELSE Back(domatch(Deeper(ms), s, i))

RECURSIVE Matches(_, _, _, _)
Matches(ms, s, i, ep) == IF singlematch(ms, s, i, ep) THEN 1 + Matches(ms, s + 1, i, ep) ELSE 0
Expanded(res, s, i, ep, n) == IF res.at # 0 THEN res ELSE max_expand(res.ms, s, i, ep, n - 1)
max_expand(ms, s, i, ep, n) == IF n < 0 THEN Failed(ms) ELSE Expanded(match(ms, s + n, ep + 1), s, i, ep, n)
Shorter(res, s, i, ep) ==
  IF res.at = 0 /\ singlematch(res.ms, s, i, ep) THEN min_expand(res.ms, s + 1, i, ep) ELSE res
min_expand(ms, s, i, ep) == Shorter(match(ms, s, ep + 1), s, i, ep)

start_capture(ms, s, i, what) ==
  IF Len(ms.capture) >= LUA_MAXCAPTURES THEN Error(ms)
  ELSE LET res == match([ms EXCEPT !.capture = Append(@, [init |-> s, len |-> what])], s, i)
       IN IF res.at = 0 THEN [res EXCEPT !.ms.capture = Front(@)] ELSE res
(* Mutant: the capture stays closed when the match does not succeed.       *)
ReopenNot(res, l) == res
Reopen(res, l) == IF res.at = 0 THEN [res EXCEPT !.ms.capture[l].len = Unfinished] ELSE res
CloseCapture(ms, s, i, l) ==
  IF l = 0 THEN Error(ms) ELSE Reopen(match([ms EXCEPT !.capture[l].len = s - ms.capture[l].init], s, i), l)
end_capture(ms, s, i) == CloseCapture(ms, s, i, capture_to_close(ms))

Frontier(ms, s, i) ==
  LET ep == classend(ms.p, i)
      previous == IF s = 1 THEN "NUL" ELSE ms.src[s - 1]
  IN IF ep = 0 THEN Error(ms)
     ELSE IF ~matchbracketclass(previous, ms.p, i, ep - 1) /\ matchbracketclass(CharAt(ms.src, s), ms.p, i, ep - 1)
     THEN domatch(ms, s, ep) ELSE Failed(ms)
Escape(ms, s, i) ==
  LET c == CharAt(ms.p, i + 1)
      balance == matchbalance(ms, s, i + 2)
  IN CASE c = "b" -> IF i + 2 >= End(ms.p) - 1 THEN Error(ms)
                     ELSE IF balance = 0 THEN Failed(ms) ELSE domatch(ms, balance, i + 4)
       [] c = "f" -> IF CharAt(ms.p, i + 2) # "[" THEN Error(ms) ELSE Frontier(ms, s, i + 2)
       [] c \in Digits ->
            LET l == check_capture(ms, c)
                at == match_capture(ms, s, l)
            IN IF l = 0 THEN Error(ms) ELSE IF at = 0 THEN Failed(ms) ELSE domatch(ms, at, i + 2)
       [] OTHER -> default(ms, s, i, classend(ms.p, i))

OnceOrNone(once, s, ep) == IF once.at # 0 THEN once ELSE domatch(once.ms, s, ep + 1)
default(ms, s, i, ep) ==
  LET suffix == CharAt(ms.p, ep)
  IN IF ep = 0 THEN Error(ms)
     ELSE IF ~singlematch(ms, s, i, ep)
     THEN IF suffix \in {"*", "?", "-"} THEN domatch(ms, s, ep + 1) ELSE Failed(ms)
     ELSE CASE suffix = "?" -> OnceOrNone(match(ms, s + 1, ep + 1), s, ep)
            [] suffix = "+" -> max_expand(ms, s + 1, i, ep, Matches(ms, s + 1, i, ep))
            [] suffix = "*" -> max_expand(ms, s, i, ep, Matches(ms, s, i, ep))
            [] suffix = "-" -> min_expand(ms, s, i, ep)
            [] OTHER -> domatch(ms, s + 1, ep)

domatch(ms, s, i) ==
  IF i = End(ms.p) THEN [at |-> s, ms |-> ms]
  ELSE CASE ms.p[i] = "(" -> IF CharAt(ms.p, i + 1) = ")" THEN start_capture(ms, s, i + 2, Position)
                             ELSE start_capture(ms, s, i + 1, Unfinished)
         [] ms.p[i] = ")" -> end_capture(ms, s, i + 1)
         [] ms.p[i] = "$" /\ i + 1 = End(ms.p) -> IF s = End(ms.src) THEN [at |-> s, ms |-> ms] ELSE Failed(ms)
         [] ms.p[i] = "%" -> Escape(ms, s, i)
         [] OTHER -> default(ms, s, i, classend(ms.p, i))

----------------------------------------------------------------------------
(* The functions of the library.                                           *)

(* What is returned: the captures, or the whole match when there are none. *)
get_onecapture(ms, l) ==
  LET c == ms.capture[l]
  IN IF c.len = Position THEN <<"position", c.init>> ELSE SubSeq(ms.src, c.init, c.init + c.len - 1)
push_captures(ms, s, e) ==
  IF ms.capture = <<>> THEN <<SubSeq(ms.src, s, e - 1)>> ELSE [l \in DOMAIN ms.capture |-> get_onecapture(ms, l)]
Unclosed(ms) == \E l \in DOMAIN ms.capture : ms.capture[l].len = Unfinished

nospecials(p) == \A i \in DOMAIN p : p[i] \notin Specials
lmemfind(s, p, init) ==
  LET at == {i \in init..(End(s) - Len(p)) : SubSeq(s, i, i + Len(p) - 1) = p}
  IN IF at = {} THEN 0 ELSE Min(at)

Found(s, e, captures) == [at |-> s, to |-> e, captures |-> captures]
NotFound == Found(0, 0, <<>>)
Raised == Found(-1, 0, <<>>)
Wrong(res) == res.at = -1 \/ (res.at > 0 /\ Unclosed(res.ms))
RECURSIVE Search(_, _, _), Searched(_, _, _)
Searched(res, s, anchor) ==
  IF Wrong(res) THEN Raised
  ELSE IF res.at > 0 THEN Found(s, res.at, push_captures(res.ms, s, res.at))
  ELSE IF s < End(res.ms.src) /\ ~anchor THEN Search(res.ms, s + 1, anchor) ELSE NotFound
Search(ms, s, anchor) == Searched(match(reprepstate(ms), s, 1), s, anchor)
Anchored(p) == CharAt(p, 1) = "^"
Unanchor(p) == IF Anchored(p) THEN Tail(p) ELSE p
str_find_aux(s, p, init, find) ==
  IF init > End(s) THEN NotFound
  ELSE IF find /\ nospecials(p)
  THEN LET at == lmemfind(s, p, init) IN IF at = 0 THEN NotFound ELSE Found(at, at + Len(p), <<p>>)
  ELSE Search(prepstate(s, Unanchor(p)), init, Anchored(p))

(* All that the iterator of gmatch returns.                                *)
(* Mutant: it is where the match begins that must not be the last end.     *)
NewMatchFrom(res, src, lastmatch) == res.at > 0 /\ src # lastmatch
NewMatch(res, src, lastmatch) == res.at > 0 /\ res.at # lastmatch
RECURSIVE gmatch_aux(_, _, _), gmatchFrom(_, _, _)
gmatchFrom(res, src, lastmatch) ==
  IF Wrong(res) THEN <<Raised>>
  ELSE IF NewMatch(res, src, lastmatch)
  THEN <<Found(src, res.at, push_captures(res.ms, src, res.at))>> \o gmatch_aux(res.ms, res.at, res.at)
  ELSE gmatch_aux(res.ms, src + 1, lastmatch)
gmatch_aux(ms, src, lastmatch) ==
  IF src > End(ms.src) THEN <<>> ELSE gmatchFrom(match(reprepstate(ms), src, 1), src, lastmatch)
gmatch(s, p) == gmatch_aux(prepstate(s, p), 1, 0)

(* gsub: the string made, with what add_value makes of each match, at most *)
(* max times.                                                              *)
Chars(c) == IF c = <<>> THEN <<>> ELSE IF c[1] = "position" THEN <<"p">> ELSE c
RECURSIVE add_s(_, _, _)
add_s(news, whole, captures) ==
  IF news = <<>> THEN <<>>
  ELSE IF Head(news) # "%" THEN <<Head(news)>> \o add_s(Tail(news), whole, captures)
  ELSE LET d == CharAt(news, 2)
           rest == add_s(SubSeq(news, 3, Len(news)), whole, captures)
           l == SelectInSeq(CaptureDigits, LAMBDA x : x = d)
       IN CASE d = "%" -> <<"%">> \o rest
            [] d = "0" -> whole \o rest
            [] l \in DOMAIN captures -> Chars(captures[l]) \o rest
            [] OTHER -> <<"error">> \o rest
RECURSIVE gsub(_, _, _, _, _), gsubFrom(_, _, _, _, _), More(_, _, _, _, _)
(* g is [repl, max, anchor].                                               *)
More(ms, g, at, lastmatch, n) == IF g.anchor THEN SubSeq(ms.src, at, Len(ms.src)) ELSE gsub(ms, g, at, lastmatch, n)
gsubFrom(res, g, src, lastmatch, n) ==
  IF Wrong(res) THEN <<"error">>
  ELSE IF NewMatch(res, src, lastmatch)
  THEN add_s(g.repl, SubSeq(res.ms.src, src, res.at - 1), push_captures(res.ms, src, res.at)) \o More(res.ms, g, res.at, res.at, n + 1)
  ELSE IF src < End(res.ms.src) THEN <<res.ms.src[src]>> \o More(res.ms, g, src + 1, lastmatch, n)
  ELSE <<>>
gsub(ms, g, src, lastmatch, n) ==
  IF n >= g.max THEN SubSeq(ms.src, src, Len(ms.src)) ELSE gsubFrom(match(reprepstate(ms), src, 1), g, src, lastmatch, n)
str_gsub(s, p, repl, max) == gsub(prepstate(s, Unanchor(p)), [repl |-> repl, max |-> max, anchor |-> Anchored(p)], 1, 0, 0)

----------------------------------------------------------------------------
(* What a pattern means: a list of items, each with a number of repetitions*)
(* to choose.  Among all choices that fit the subject, the match is the    *)
(* best one: from the left, the items are as long as they can be, or, with *)
(* "-", as short.                                                          *)

One(set, rep) == [k |-> "one", set |-> set, rep |-> rep]
Item(k) == [k |-> k, set |-> "", rep |-> ""]
Ref(l) == [k |-> "ref", set |-> CaptureDigits[l], rep |-> ""]
FrontierOf(set) == [k |-> "frontier", set |-> set, rep |-> ""]

SetText(set) ==
  CASE set = "letter" -> <<"%", "a">>
    [] set = "not a" -> <<"[", "^", "a", "]">>
    [] set = "a or digit" -> <<"[", "a", "%", "d", "]">>
    [] set = "1 to b" -> <<"[", "1", "-", "b", "]">>
    [] OTHER -> <<set>>
Written(item) ==
  CASE item.k = "one" -> SetText(item.set) \o IF item.rep = "" THEN <<>> ELSE <<item.rep>>
    [] item.k = "open" -> <<"(">>
    [] item.k = "close" -> <<")">>
    [] item.k = "pos" -> <<"(", ")">>
    [] item.k = "ref" -> <<"%", item.set>>
    [] item.k = "balance" -> <<"%", "b", "a", "b">>
    [] item.k = "frontier" -> <<"%", "f">> \o SetText(item.set)
    [] item.k = "end" -> <<"$">>
Text(items) == FlattenSeq([i \in DOMAIN items |-> Written(items[i])])

InClass(set, c) ==
  CASE set = "." -> TRUE
    [] set = "letter" -> c \in Letters
    [] set = "not a" -> c # "a"
    [] set = "a or digit" -> c = "a" \/ c \in Digits
    [] set = "1 to b" -> c \in {"1", "2", "A", "a", "b"}
    [] OTHER -> c = set
Counts(item, s) ==
  CASE item.k # "one" -> {0}
    [] item.rep = "" -> {1}
    [] item.rep = "?" -> {0, 1}
    [] item.rep = "+" -> 1..Len(s)
    [] OTHER -> 0..Len(s)

----------------------------------------------------------------------------
(* Captures: the l-th is opened by an item, and closed by the one that     *)
(* closes the last that is open.                                           *)

Opens(items) == SelectSeq([i \in DOMAIN items |-> i], LAMBDA i : items[i].k \in {"open", "pos"})
RECURSIVE OpenBefore(_, _)
OpenBefore(items, i) ==         \* the captures open before item i, the last one first
  IF i = 1 THEN <<>>
  ELSE LET before == OpenBefore(items, i - 1)
       IN CASE items[i - 1].k = "open" -> <<i - 1>> \o before
            [] items[i - 1].k = "close" /\ before # <<>> -> Tail(before)
            [] OTHER -> before
CloseOf(items, i) == CHOOSE j \in DOMAIN items : items[j].k = "close" /\ OpenBefore(items, j) # <<>> /\ Head(OpenBefore(items, j)) = i
WellFormed(items) ==
  /\ OpenBefore(items, Len(items) + 1) = <<>>
  /\ \A i \in DOMAIN items :
       /\ items[i].k = "close" => OpenBefore(items, i) # <<>>
       /\ items[i].k = "close" => items[i - 1].k # "open"        \* which would be written "()"
       /\ items[i].k = "end" => i = Len(items)
       /\ items[i].k = "ref" =>
            \E o \in DOMAIN items : /\ o < i /\ items[o].k \in {"open", "pos"}
                                    /\ Cardinality({j \in 1..o : items[j].k \in {"open", "pos"}}) = (IF items[i].set = "1" THEN 1 ELSE 2)
                                    /\ o \notin ToSet(OpenBefore(items, i))

IsBalanced(w) ==
  LET Depth(n) == Cardinality({i \in 1..n : w[i] = "a"}) - Cardinality({i \in 1..n : w[i] = "b"})
  IN w # <<>> /\ w[1] = "a" /\ Depth(Len(w)) = 0 /\ \A n \in 1..(Len(w) - 1) : Depth(n) > 0
BalancedEnd(s, at) ==
  LET ends == {e \in at..End(s) : IsBalanced(SubSeq(s, at, e - 1))} IN IF ends = {} THEN 0 ELSE CHOOSE e \in ends : TRUE

(* The places of the items, and of the end, for a choice c of repetitions, *)
(* from at; 0 is for what does not fit.                                    *)
Fits(s, p, n, set) == p + n <= End(s) /\ \A q \in p..(p + n - 1) : InClass(set, s[q])
SameText(s, p, from, to) == p + (to - from) <= End(s) /\ SubSeq(s, p, p + (to - from) - 1) = SubSeq(s, from, to - 1)
PlaceAfter(items, s, c, ps, p, item, o) ==
  CASE p = 0 -> 0
    [] item.k = "one" -> IF Fits(s, p, c[Len(ps)], item.set) THEN p + c[Len(ps)] ELSE 0
    [] item.k = "ref" -> IF items[o].k = "open" /\ SameText(s, p, ps[o], ps[CloseOf(items, o)]) THEN p + ps[CloseOf(items, o)] - ps[o] ELSE 0
    [] item.k = "balance" -> BalancedEnd(s, p)
    [] item.k = "frontier" -> IF ~InClass(item.set, IF p = 1 THEN "NUL" ELSE s[p - 1]) /\ InClass(item.set, CharAt(s, p)) THEN p ELSE 0
    [] item.k = "end" -> IF p = End(s) THEN p ELSE 0
    [] OTHER -> p
Places(items, s, at, c) ==
  FoldLeft(LAMBDA ps, item : Append(ps, PlaceAfter(items, s, c, ps, Last(ps), item, Opens(items)[IF item.set = "1" THEN 1 ELSE 2])), <<at>>, items)
Repetitions(items, s) == {c \in [DOMAIN items -> 0..Len(s) \cup {1}] : \A i \in DOMAIN items : c[i] \in Counts(items[i], s)}
Better(items, c, d) ==
  \E i \in DOMAIN items :
    /\ \A j \in 1..(i - 1) : c[j] = d[j]
    /\ IF items[i].rep = "-" THEN c[i] < d[i] ELSE c[i] > d[i]
BestOf(items, fit) == IF fit = {} THEN <<>> ELSE CHOOSE c \in fit : \A d \in fit \ {c} : Better(items, c, d)
Best(items, s, at) == BestOf(items, {c \in Repetitions(items, s) : Last(Places(items, s, at, c)) # 0})

CaptureOf(items, s, ps, o) ==
  IF items[o].k = "pos" THEN <<"position", ps[o]>> ELSE SubSeq(s, ps[o], ps[CloseOf(items, o)] - 1)
MatchOf(items, s, at, ps, opens) ==
  Found(at, Last(ps), IF opens = <<>> THEN <<SubSeq(s, at, Last(ps) - 1)>> ELSE [l \in DOMAIN opens |-> CaptureOf(items, s, ps, opens[l])])
MatchBy(items, s, at, c) == IF items # <<>> /\ c = <<>> THEN NotFound ELSE MatchOf(items, s, at, Places(items, s, at, c), Opens(items))
Matched(items, s) == [at \in 1..End(s) |-> MatchBy(items, s, at, Best(items, s, at))]

(* The leftmost match, of what matches at each place.                      *)
Earliest(matched, starts) == IF starts = {} THEN NotFound ELSE matched[Min(starts)]
Leftmost(matched) == Earliest(matched, {at \in DOMAIN matched : matched[at] # NotFound})
(* The matches of gmatch: from the end of one the next, unless it is empty *)
(* right there.                                                            *)
RECURSIVE AllMatches(_, _, _), AllFrom(_, _)
AllFrom(matched, next) == IF next = NotFound THEN <<>> ELSE <<next>> \o AllMatches(matched, next.to, next.to)
AllMatches(matched, from, last) ==
  AllFrom(matched, Earliest(matched, {at \in from..Len(matched) : matched[at] # NotFound /\ matched[at].to # last}))
RECURSIVE Replaced(_, _, _, _)
Replaced(s, matches, from, new) ==
  IF matches = <<>> THEN SubSeq(s, from, Len(s))
  ELSE SubSeq(s, from, Head(matches).at - 1) \o new \o Replaced(s, Tail(matches), Head(matches).to, new)
=============================================================================
