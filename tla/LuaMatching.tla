----------------------------- MODULE LuaMatching -----------------------------
(* What patterns mean (manual, section 6.4.1): a pattern is a sequence of     *)
(* items, and matches a text in some order of preference; and how the string  *)
(* functions use it.                                                          *)
EXTENDS LuaPatterns
LOCAL INSTANCE SequencesExt
LOCAL INSTANCE FiniteSetsExt

Character == ToSet(Order) \cup {NUL}

(* Items: a class with a repetition, captures, and the other items.           *)
Class(text, set) == [text |-> text, set |-> set]
Item(k, class, rep, n) == [k |-> k, class |-> class, rep |-> rep, n |-> n]
Anything == Class(<<".">>, Character)
single(class, rep) == Item("single", class, rep, 0)
open == Item("open", Anything, "", 0)
position == Item("position", Anything, "", 0)
close == Item("close", Anything, "", 0)
back(n) == Item("back", Anything, "", n)
balance(b, e) == Item("balance", Class(<<b, e>>, {}), "", 0)
frontier(class) == Item("frontier", class, "", 0)
end == Item("end", Anything, "", 0)

TextOf(i) ==
  CASE i.k = "single" -> i.class.text \o (IF i.rep = "" THEN <<>> ELSE <<i.rep>>)
    [] i.k = "open" -> <<"(">>
    [] i.k = "position" -> <<"(", ")">>
    [] i.k = "close" -> <<")">>
    [] i.k = "back" -> <<"%", Order[uchar("0") + i.n]>>
    [] i.k = "balance" -> <<"%", "b">> \o i.class.text
    [] i.k = "frontier" -> <<"%", "f">> \o i.class.text
    [] i.k = "end" -> <<"$">>
PatternText(items) == FlattenSeq([i \in DOMAIN items |-> TextOf(items[i])])

------------------------------------------------------------------------------
(* Where a balanced text that starts at s ends.                               *)
BalancedEnds(t, s, b, e) ==
  LET count(c, j) == Cardinality({i \in s .. j : t[i] = c})
      closed == {j \in s .. Len(t) : count(b, j) = count(e, j)}
  IN IF At(t, s) # b \/ closed = {} THEN {} ELSE {Min(closed) + 1}

(* The matches of items in t from s on, the preferred ones first: where they  *)
(* end, with the captures (opened and closed in the order of caps).           *)
RECURSIVE Matches(_, _, _, _)
Matches(items, t, s, caps) ==
  LET i == Head(items)
      rest(e, c) == Matches(Tail(items), t, e, c)
      run == Max({r \in 0 .. Len(t) + 1 - s : \A j \in s .. s + r - 1 : t[j] \in i.class.set})
      times(from, by) == FlattenSeq([j \in 1 .. (IF run < from THEN 0 ELSE run - from + 1) |->
                            rest(s + (IF by = "more" THEN run - j + 1 ELSE from + j - 1), caps)])
      opened == {j \in DOMAIN caps : caps[j].len = CAP_UNFINISHED}
      text(c) == SubSeq(t, c.init, c.init + c.len - 1)
      here(k) == SubSeq(t, s, s + k - 1)
  IN IF items = <<>> THEN <<[e |-> s, caps |-> caps]>>
     ELSE CASE i.k = "single" /\ i.rep = "" -> IF run > 0 THEN rest(s + 1, caps) ELSE <<>>
            [] i.k = "single" /\ i.rep = "?" -> (IF run > 0 THEN rest(s + 1, caps) ELSE <<>>) \o rest(s, caps)
            [] i.k = "single" /\ i.rep = "*" -> times(0, "more")
            [] i.k = "single" /\ i.rep = "+" -> times(1, "more")
            [] i.k = "single" /\ i.rep = "-" -> times(0, "fewer")
            [] i.k = "open" -> rest(s, Append(caps, [init |-> s, len |-> CAP_UNFINISHED]))
            [] i.k = "position" -> rest(s, Append(caps, [init |-> s, len |-> CAP_POSITION]))
            [] i.k = "close" -> rest(s, [caps EXCEPT ![Max(opened)].len = s - caps[Max(opened)].init])
            [] i.k = "back" -> IF s + caps[i.n].len <= Len(t) + 1 /\ here(caps[i.n].len) = text(caps[i.n])
                               THEN rest(s + caps[i.n].len, caps) ELSE <<>>
            [] i.k = "balance" -> LET ends == BalancedEnds(t, s, i.class.text[1], i.class.text[2])
                                  IN IF ends = {} THEN <<>> ELSE rest(Max(ends), caps)
            [] i.k = "frontier" -> IF (IF s = 1 THEN NUL ELSE t[s - 1]) \notin i.class.set /\ At(t, s) \in i.class.set
                                   THEN rest(s, caps) ELSE <<>>
            [] i.k = "end" -> IF s = Len(t) + 1 THEN rest(s, caps) ELSE <<>>

(* The captures of a match, the whole match if there are none.                *)
Captures(t, s, m, whole) ==
  LET value(c) == IF c.len = CAP_POSITION THEN Number(c.init)
                  ELSE Text(SubSeq(t, c.init, c.init + c.len - 1))
  IN IF m.caps = <<>> /\ whole THEN <<Text(SubSeq(t, s, m.e - 1))>>
     ELSE [i \in DOMAIN m.caps |-> value(m.caps[i])]

(* The first match from a start on: at the first place where there is one.    *)
Starts(items, t, init, anchor) ==
  {s \in init .. (IF anchor THEN init ELSE Len(t) + 1) : Matches(items, t, s, <<>>) # <<>>}
Found(items, t, init, anchor, find) ==
  LET s == Min(Starts(items, t, init, anchor))
      m == Head(Matches(items, t, s, <<>>))
  IN IF Starts(items, t, init, anchor) = {} THEN Nothing
     ELSE <<"values", IF find THEN <<Number(s), Number(m.e - 1)>> \o Captures(t, s, m, FALSE)
                      ELSE Captures(t, s, m, TRUE)>>

(* All matches, none of which begins before the last one ends, nor is empty   *)
(* where the last one ended.                                                  *)
RECURSIVE AllMatches(_, _, _, _, _)
AllMatches(items, t, from, last, anchor) ==
  LET starts == {s \in Starts(items, t, from, anchor) : Head(Matches(items, t, s, <<>>)).e # last}
      s == Min(starts)
      m == Head(Matches(items, t, s, <<>>))
  IN IF starts = {} THEN <<>>
     ELSE <<[s |-> s, m |-> m]>> \o (IF anchor THEN <<>> ELSE AllMatches(items, t, m.e, m.e, FALSE))
EachMatch(items, t) ==
  LET all == AllMatches(items, t, 1, 0, FALSE)
  IN [i \in DOMAIN all |-> <<"values", Captures(t, all[i].s, all[i].m, TRUE)>>]

(* The first max_s matches replaced, here by the result of a function.        *)
Replaced(items, t, anchor, fn, max_s) ==
  LET all == AllMatches(items, t, 1, 0, anchor)
      n == Min({Len(all), max_s})
      new(i) == LET v == fn[Captures(t, all[i].s, all[i].m, TRUE)]
                IN IF v[1] = "string" THEN v[2] ELSE SubSeq(t, all[i].s, all[i].m.e - 1)
      after(i) == IF i = 0 THEN 1 ELSE all[i].m.e
      part(i) == SubSeq(t, after(i - 1), all[i].s - 1) \o new(i)
  IN <<"values", <<Text(FlattenSeq([i \in 1 .. n |-> part(i)]) \o SubSeq(t, after(n), Len(t))), Number(n)>>>>
==============================================================================
