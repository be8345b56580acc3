----------------------------- MODULE LuaPatterns -----------------------------
(* Pattern matching of the string library (lstrlib.c).  A text is a sequence  *)
(* of characters; a position is counted from 1, and the one after the last is *)
(* the end, where a read gives NUL.  The state ms of a match has the subject  *)
(* (src), the pattern (p), the captures opened so far and the depth left; a   *)
(* match returns [ms, s]: where it ends, or NULL, and the state it leaves.    *)
EXTENDS Integers, Sequences
LOCAL INSTANCE SequencesExt

CONSTANTS LUA_MAXCAPTURES,
          MAXCCALLS,        \* nested matches
          Order             \* the characters, in their order

NUL == "NUL"
NULL == -1
CAP_UNFINISHED == -1
CAP_POSITION == -2

At(t, i) == IF i <= Len(t) THEN t[i] ELSE NUL
src_end(ms) == Len(ms.src) + 1
p_end(ms) == Len(ms.p) + 1
uchar(c) == IF c = NUL THEN 0 ELSE CHOOSE i \in DOMAIN Order : Order[i] = c
Digit == {"0", "1", "2", "3", "4", "5", "6", "7", "8", "9"}
Lower == {"a", "b", "f"}
Upper == {"A"}

Result(ms, s) == [ms |-> ms, s |-> s]
Failed(ms) == Result(ms, NULL)
luaL_error(ms, msg) == Failed([ms EXCEPT !.err = msg])
(* A pattern that ends too soon; with OUTSIDE, the code has read beyond it.   *)
OUTSIDE == -1
Malformed(ms, ep) == luaL_error(ms, IF ep = OUTSIDE THEN "outside" ELSE "malformed pattern")

------------------------------------------------------------------------------
(* Classes of characters.                                                     *)

(* The end of a class, or 0 for a pattern that ends too soon.                 *)
(* Mutant: an escape at the end of the pattern takes a character, too.        *)
RECURSIVE LongBracket(_, _)
LongBracket(ms, p) ==
  LET q == IF At(ms.p, p) = "%" THEN p + 2 ELSE p + 1
  IN CASE p = p_end(ms) -> 0
       [] p > p_end(ms) -> OUTSIDE
       [] OTHER -> IF At(ms.p, q) = "]" THEN q + 1 ELSE LongBracket(ms, q)

RECURSIVE BracketEnd(_, _)
BracketEnd(ms, p) ==
  LET q == IF At(ms.p, p) = "%" /\ p + 1 < p_end(ms) THEN p + 2 ELSE p + 1
  IN CASE p = p_end(ms) -> 0
       [] p > p_end(ms) -> OUTSIDE
       [] OTHER -> IF At(ms.p, q) = "]" THEN q + 1 ELSE BracketEnd(ms, q)

classend(ms, p) ==
  CASE At(ms.p, p) = "%" -> IF p + 1 = p_end(ms) THEN 0 ELSE p + 2
    [] At(ms.p, p) = "[" -> BracketEnd(ms, IF At(ms.p, p + 1) = "^" THEN p + 2 ELSE p + 1)
    [] OTHER -> p + 1

match_class(c, cl) ==
  CASE cl \in {"a", "A"} -> (c \in Lower \cup Upper) = (cl = "a")
    [] cl = "d" -> c \in Digit
    [] OTHER -> cl = c

(* The set from p on, whose closing bracket is at ec.                         *)
RECURSIVE InSet(_, _, _, _)
InSet(t, c, p, ec) ==
  /\ p < ec
  /\ CASE At(t, p) = "%" -> match_class(c, At(t, p + 1)) \/ InSet(t, c, p + 2, ec)
       [] At(t, p) # "%" /\ At(t, p + 1) = "-" /\ p + 2 < ec ->
            uchar(c) \in uchar(At(t, p)) .. uchar(At(t, p + 2)) \/ InSet(t, c, p + 3, ec)
       [] OTHER -> At(t, p) = c \/ InSet(t, c, p + 1, ec)
matchbracketclass(t, c, p, ec) ==
  IF At(t, p + 1) = "^" THEN ~InSet(t, c, p + 2, ec) ELSE InSet(t, c, p + 1, ec)

singlematch(ms, s, p, ep) ==
  LET c == At(ms.src, s)
  IN /\ s < src_end(ms)
     /\ CASE At(ms.p, p) = "." -> TRUE
          [] At(ms.p, p) = "%" -> match_class(c, At(ms.p, p + 1))
          [] At(ms.p, p) = "[" -> matchbracketclass(ms.p, c, p, ep - 1)
          [] OTHER -> At(ms.p, p) = c

------------------------------------------------------------------------------
(* Matching.                                                                  *)

(* The functions of this file: Strlib(f, args) is the call of f; match calls  *)
(* itself through most of the others.                                         *)
RECURSIVE Strlib(_, _)
match(ms, s, p) == Strlib("match", <<ms, s, p>>)

(* As many as possible, then fewer and fewer.                                 *)
RECURSIVE Run(_, _, _, _)
Run(ms, s, p, ep) == IF singlematch(ms, s, p, ep) THEN 1 + Run(ms, s + 1, p, ep) ELSE 0
RECURSIVE GiveBack(_, _, _, _)
GiveBack(ms, s, i, next) ==
  LET r == match(ms, s + i, next)
  IN IF r.s # NULL \/ r.ms.err # "" THEN r
     ELSE IF i = 0 THEN Failed(r.ms) ELSE GiveBack(r.ms, s, i - 1, next)
max_expand(ms, s, p, ep) == GiveBack(ms, s, Run(ms, s, p, ep), ep + 1)

RECURSIVE min_expand(_, _, _, _)
min_expand(ms, s, p, ep) ==
  LET r == match(ms, s, ep + 1)
  IN CASE r.s # NULL \/ r.ms.err # "" -> r
       [] OTHER -> IF singlematch(r.ms, s, p, ep) THEN min_expand(r.ms, s + 1, p, ep) ELSE Failed(r.ms)

(* A capture is open while the rest is matched, and gone if that fails.       *)
start_capture(ms, s, p, what) ==
  LET r == match([ms EXCEPT !.capture = Append(@, [init |-> s, len |-> what])], s, p)
  IN IF Len(ms.capture) >= LUA_MAXCAPTURES THEN luaL_error(ms, "too many captures")
     ELSE IF r.s = NULL THEN Failed([r.ms EXCEPT !.capture = Front(@)]) ELSE r

Unfinished(ms) == {l \in DOMAIN ms.capture : ms.capture[l].len = CAP_UNFINISHED}
capture_to_close(ms) == CHOOSE l \in Unfinished(ms) : \A k \in Unfinished(ms) : k <= l

(* Mutant: a capture that was closed stays closed when the rest fails.        *)
EndForGood(ms, s, p) ==
  LET l == capture_to_close(ms)
  IN IF Unfinished(ms) = {} THEN luaL_error(ms, "invalid pattern capture")
     ELSE match([ms EXCEPT !.capture[l].len = s - ms.capture[l].init], s, p)

end_capture(ms, s, p) ==
  LET l == capture_to_close(ms)
      r == match([ms EXCEPT !.capture[l].len = s - ms.capture[l].init], s, p)
  IN IF Unfinished(ms) = {} THEN luaL_error(ms, "invalid pattern capture")
     ELSE IF r.s = NULL THEN Failed([r.ms EXCEPT !.capture[l].len = CAP_UNFINISHED]) ELSE r

(* A position capture has a negative length, which no text has.               *)
Captured(ms, l) == SubSeq(ms.src, ms.capture[l].init, ms.capture[l].init + ms.capture[l].len - 1)
match_capture(ms, s, l) ==
  CASE l \notin DOMAIN ms.capture \ Unfinished(ms) -> luaL_error(ms, "invalid capture index")
    [] OTHER -> LET len == ms.capture[l].len
                IN IF len >= 0 /\ src_end(ms) - s >= len /\ SubSeq(ms.src, s, s + len - 1) = Captured(ms, l)
                   THEN Result(ms, s + len) ELSE Failed(ms)

RECURSIVE Balanced(_, _, _, _, _)
Balanced(ms, s, b, e, cont) ==
  CASE s >= src_end(ms) -> NULL
    [] s < src_end(ms) /\ ms.src[s] = e -> IF cont = 1 THEN s + 1 ELSE Balanced(ms, s + 1, b, e, cont - 1)
    [] OTHER -> Balanced(ms, s + 1, b, e, IF ms.src[s] = b THEN cont + 1 ELSE cont)
matchbalance(ms, s, p) ==
  IF p >= p_end(ms) - 1 THEN luaL_error(ms, "missing arguments")
  ELSE IF At(ms.src, s) # ms.p[p] THEN Failed(ms)
  ELSE Result(ms, Balanced(ms, s + 1, ms.p[p], ms.p[p + 1], 1))

Frontier(ms, s, p, ep) ==
  LET previous == IF s = 1 THEN NUL ELSE ms.src[s - 1]
  IN ~matchbracketclass(ms.p, previous, p, ep - 1) /\ matchbracketclass(ms.p, At(ms.src, s), p, ep - 1)

(* The loop of match: what is at p of the pattern against what is at s.       *)
RECURSIVE MatchHere(_, _, _)
Default(ms, s, p) ==
  LET ep == classend(ms, p)
      suffix == At(ms.p, ep)
      first == match(ms, s + 1, ep + 1)
  IN CASE ep <= 0 -> Malformed(ms, ep)
       [] ep > 0 /\ ~singlematch(ms, s, p, ep) ->
            IF suffix \in {"*", "?", "-"} THEN MatchHere(ms, s, ep + 1) ELSE Failed(ms)
       [] OTHER ->
            CASE suffix = "?" -> IF first.s # NULL \/ first.ms.err # "" THEN first
                                 ELSE MatchHere(first.ms, s, ep + 1)
              [] suffix = "+" -> max_expand(ms, s + 1, p, ep)
              [] suffix = "*" -> max_expand(ms, s, p, ep)
              [] suffix = "-" -> min_expand(ms, s, p, ep)
              [] OTHER -> MatchHere(ms, s + 1, ep)

(* What follows goes on after p if the part before it matched.                *)
Then(r, p) == IF r.s = NULL THEN r ELSE MatchHere(r.ms, r.s, p)

MatchHere(ms, s, p) ==
  LET c == At(ms.p, p)
      d == At(ms.p, p + 1)
      ep == classend(ms, p + 2)
  IN CASE p = p_end(ms) -> Result(ms, s)
       [] p > p_end(ms) -> Malformed(ms, OUTSIDE)
       [] c = "(" -> IF d = ")" THEN start_capture(ms, s, p + 2, CAP_POSITION)
                     ELSE start_capture(ms, s, p + 1, CAP_UNFINISHED)
       [] c = ")" -> end_capture(ms, s, p + 1)
       [] c = "$" /\ p + 1 = p_end(ms) -> IF s = src_end(ms) THEN Result(ms, s) ELSE Failed(ms)
       [] c = "%" /\ d = "b" -> Then(matchbalance(ms, s, p + 2), p + 4)
       [] c = "%" /\ d = "f" ->
            CASE At(ms.p, p + 2) # "[" -> luaL_error(ms, "missing '['")
              [] At(ms.p, p + 2) = "[" /\ ep <= 0 -> Malformed(ms, ep)
              [] OTHER -> IF Frontier(ms, s, p + 2, ep) THEN MatchHere(ms, s, ep) ELSE Failed(ms)
       [] c = "%" /\ d \in Digit -> Then(match_capture(ms, s, uchar(d) - uchar("0")), p + 2)
       [] OTHER -> Default(ms, s, p)

do_match(ms, s, p) ==
  IF ms.matchdepth = 0 THEN luaL_error(ms, "pattern too complex")
  ELSE LET r == MatchHere([ms EXCEPT !.matchdepth = @ - 1], s, p)
       IN [r EXCEPT !.ms.matchdepth = ms.matchdepth]

------------------------------------------------------------------------------
(* The library functions.  They return values: <<"error", message>>, nil or   *)
(* the captures; a position capture is a number.                              *)
Nothing == <<"nil">>
Text(t) == <<"string", t>>
Number(n) == <<"integer", n>>
Error(msg) == <<"error", msg>>

prepstate(s, p) == [src |-> s, p |-> p, capture |-> <<>>, matchdepth |-> MAXCCALLS, err |-> ""]
reprepstate(ms) == [ms EXCEPT !.capture = <<>>]
Anchored(p) == At(p, 1) = "^"
Unanchored(p) == IF Anchored(p) THEN Tail(p) ELSE p

posrelat(pos, len) ==
  CASE pos >= 0 -> pos
    [] pos < 0 /\ -pos > len -> 0
    [] OTHER -> len + pos + 1

(* With no capture, capture 1 is the whole match.                             *)
push_onecapture(ms, i, s, e) ==
  CASE i > Len(ms.capture) -> IF i = 1 THEN Text(SubSeq(ms.src, s, e - 1)) ELSE Error("invalid capture index")
    [] i <= Len(ms.capture) /\ ms.capture[i].len = CAP_UNFINISHED -> Error("unfinished capture")
    [] i <= Len(ms.capture) /\ ms.capture[i].len = CAP_POSITION -> Number(ms.capture[i].init)
    [] OTHER -> Text(Captured(ms, i))

(* The first error is the result.                                             *)
Values(vs) ==
  LET errs == {i \in DOMAIN vs : vs[i][1] = "error"}
  IN IF errs = {} THEN <<"values", vs>> ELSE vs[CHOOSE i \in errs : \A j \in errs : i <= j]
push_captures(ms, s, e, whole) ==
  [i \in 1 .. (IF ms.capture = <<>> /\ whole THEN 1 ELSE Len(ms.capture)) |-> push_onecapture(ms, i, s, e)]

lmemfind(s, p, init) ==
  LET at == {i \in init .. Len(s) + 1 - Len(p) : SubSeq(s, i, i + Len(p) - 1) = p}
  IN IF at = {} THEN NULL ELSE CHOOSE i \in at : \A j \in at : i <= j
SPECIALS == {"^", "$", "*", "+", "?", ".", "(", "[", "%", "-"}
nospecials(p) == \A i \in DOMAIN p : p[i] \notin SPECIALS

(* The first start, from s on, where the pattern matches.                     *)
RECURSIVE Search(_, _, _)
Search(ms, s, anchor) ==
  LET r == match(reprepstate(ms), s, 1)
  IN CASE r.ms.err # "" -> [start |-> NULL, r |-> r]
       [] r.s # NULL -> [start |-> s, r |-> r]
       [] OTHER -> IF s < src_end(ms) /\ ~anchor THEN Search(r.ms, s + 1, anchor)
                   ELSE [start |-> NULL, r |-> r]

str_find_aux(s, p, pos, find, plain) ==
  LET r0 == posrelat(pos, Len(s))
      init == IF r0 < 1 THEN 1 ELSE r0
      at == lmemfind(s, p, init)
      found == Search(prepstate(s, Unanchored(p)), init, Anchored(p))
      ms == found.r.ms
      e == found.r.s
  IN CASE init > Len(s) + 1 -> Nothing
       [] init <= Len(s) + 1 /\ find /\ (plain \/ nospecials(p)) ->
            IF at = NULL THEN Nothing ELSE Values(<<Number(at), Number(at + Len(p) - 1)>>)
       [] OTHER ->
            CASE ms.err # "" -> Error(ms.err)
              [] ms.err = "" /\ found.start = NULL -> Nothing
              [] OTHER -> IF find
                          THEN Values(<<Number(found.start), Number(e - 1)>> \o push_captures(ms, 0, 0, FALSE))
                          ELSE Values(push_captures(ms, found.start, e, TRUE))

(* All the results of the iterator that gmatch returns, up to an error.       *)
RECURSIVE gmatch_aux(_, _, _)
gmatch_aux(ms, src, lastmatch) ==
  LET r == match(reprepstate(ms), src, 1)
      v == Values(push_captures(r.ms, src, r.s, TRUE))
  IN CASE src > src_end(ms) -> <<>>
       [] src <= src_end(ms) /\ r.ms.err # "" -> <<Error(r.ms.err)>>
       [] src <= src_end(ms) /\ r.ms.err = "" /\ r.s # NULL /\ r.s # lastmatch ->
            IF v[1] = "error" THEN <<v>> ELSE <<v>> \o gmatch_aux(r.ms, r.s, r.s)
       [] OTHER -> gmatch_aux(r.ms, src + 1, lastmatch)
gmatch(s, p) == gmatch_aux(prepstate(s, p), 1, NULL)

(* The replacement: a string with captures in it, or a table or function,     *)
(* which is a function of the captures; a false result keeps the match.       *)
RECURSIVE add_s(_, _, _, _)
add_s(ms, s, e, news) ==
  LET c == At(news, 2)
      v == CASE c \in Digit \ {"0"} -> push_onecapture(ms, uchar(c) - uchar("0"), s, e)
             [] c = "0" -> Text(SubSeq(ms.src, s, e - 1))
             [] c = "%" -> Text(<<"%">>)
             [] OTHER -> Error("invalid use of '%'")
      t == IF v[1] = "integer" THEN Text(<<Order[uchar("0") + v[2]]>>) ELSE v
      plain == news = <<>> \/ news[1] # "%"
      rest == add_s(ms, s, e, SubSeq(news, IF plain THEN 2 ELSE 3, Len(news)))
      head == IF plain THEN Text(<<At(news, 1)>>) ELSE t
  IN CASE news = <<>> -> Text(<<>>)
       [] news # <<>> /\ head[1] = "error" -> head
       [] OTHER -> IF rest[1] = "error" THEN rest ELSE Text(head[2] \o rest[2])

add_value(ms, s, e, repl) ==
  LET args == IF repl[1] = "table" THEN Values(<<push_onecapture(ms, 1, s, e)>>)
              ELSE Values(push_captures(ms, s, e, TRUE))
      v == repl[2][args[2]]
  IN CASE repl[1] = "string" -> add_s(ms, s, e, repl[2])
       [] repl[1] # "string" /\ args[1] = "error" -> args
       [] OTHER -> CASE v \in {Nothing, <<"boolean", FALSE>>} -> Text(SubSeq(ms.src, s, e - 1))
                     [] v[1] = "string" -> v
                     [] OTHER -> Error("invalid replacement value")

RECURSIVE Substitute(_, _, _, _, _, _, _)
Substitute(ms, src, lastmatch, repl, n, b, todo) ==
  LET r == match(reprepstate(ms), src, 1)
      v == add_value(r.ms, src, r.s, repl)
      end(at, done, text) == Values(<<Text(text \o SubSeq(ms.src, at, Len(ms.src))), Number(done)>>)
  IN CASE n >= todo.max_s -> end(src, n, b)
       [] n < todo.max_s /\ r.ms.err # "" -> Error(r.ms.err)
       [] n < todo.max_s /\ r.ms.err = "" /\ r.s # NULL /\ r.s # lastmatch ->
            CASE v[1] = "error" -> v
              [] OTHER -> IF todo.anchor THEN end(r.s, n + 1, b \o v[2])
                          ELSE Substitute(r.ms, r.s, r.s, repl, n + 1, b \o v[2], todo)
       [] OTHER -> IF src < src_end(ms) /\ ~todo.anchor
                   THEN Substitute(r.ms, src + 1, lastmatch, repl, n, Append(b, ms.src[src]), todo)
                   ELSE end(src, n, b)
str_gsub(s, p, repl, max_s) ==
  Substitute(prepstate(s, Unanchored(p)), 1, NULL, repl, 0, <<>>, [max_s |-> max_s, anchor |-> Anchored(p)])

Strlib(f, args) ==
  CASE f = "match" -> do_match(args[1], args[2], args[3])
    [] f = "str_find_aux" -> str_find_aux(args[1], args[2], args[3], args[4], args[5])
    [] f = "gmatch" -> gmatch(args[1], args[2])
    [] f = "str_gsub" -> str_gsub(args[1], args[2], args[3], args[4])
==============================================================================
