----------------------------- MODULE LuaLibraries -----------------------------
(* What the functions of the libraries promise (manual, section 6), and what  *)
(* the models of their code answer: of patterns, binary data, tables, texts   *)
(* and precompiled chunks.  A call is <<library, function, arguments>>.       *)
EXTENDS LuaMatching, LuaPack, LuaTablib, LuaText, LuaDump
LOCAL INSTANCE SequencesExt
LOCAL INSTANCE FiniteSetsExt

(* All ways to cut something off the end.                                     *)
Cut(s, from) == {SubSeq(s, 1, n) : n \in from .. Len(s) - 1}

------------------------------------------------------------------------------
(* Patterns: the items, the text and whether the pattern is anchored.         *)
PatternOf(items, anchor) == (IF anchor THEN <<"^">> ELSE <<>>) \o PatternText(items)

(* A function that replaces some matches and keeps the others.                *)
Replacing(items, text) ==
  LET caps == UNION {{Captures(text, s, m, TRUE) : m \in ToSet(Matches(items, text, s, <<>>))} : s \in 1 .. Len(text) + 1}
  IN [c \in caps |-> IF c[1][1] = "string" /\ c[1][2] # <<>> THEN Text(<<"A">>) ELSE Nothing]

OfPatterns(f, a) ==
  CASE f = "items" ->
         LET p == PatternOf(a.items, a.anchor) IN
         [find |-> Strlib("str_find_aux", <<a.text, p, 1, TRUE, FALSE>>),
          match |-> Strlib("str_find_aux", <<a.text, p, -2, FALSE, FALSE>>),
          gmatch |-> Strlib("gmatch", <<a.text, PatternText(a.items)>>),
          gsub |-> Strlib("str_gsub", <<a.text, p, <<"function", Replacing(a.items, a.text)>>, 2>>)]
    [] f = "any" -> <<Strlib("str_find_aux", <<a.text, a.pattern, 1, TRUE, FALSE>>)>> \o Strlib("gmatch", <<a.text, a.pattern>>)
    [] f = "news" -> Strlib("str_gsub", <<a.text, a.pattern, <<"string", a.news>>, 1>>)
    [] f = "plain" -> Strlib("str_find_aux", <<a.text, a.pattern, a.init, TRUE, TRUE>>)

(* The escapes of a replacement for one whole match with one capture.         *)
RECURSIVE Expanded(_, _)
Expanded(news, m) ==
  LET rest == Expanded(SubSeq(news, 3, Len(news)), m)
  IN CASE news = <<>> -> <<>>
       [] news # <<>> /\ Head(news) # "%" -> <<Head(news)>> \o Expanded(Tail(news), m)
       [] OTHER -> (IF news[2] = "%" THEN <<"%">> ELSE m) \o rest
WellFormed(news) ==
  \A k \in DOMAIN news :
    LET before == Cardinality({j \in 1 .. k - 1 : \A l \in j .. k - 1 : news[l] = "%"})
    IN (news[k] = "%" /\ before % 2 = 0) => k < Len(news) /\ news[k + 1] \in {"%", "0", "1"}

PatternAsMeant(f, a, r) ==
  CASE f = "items" ->
         LET back2 == IF Len(a.text) < 2 THEN 1 ELSE Len(a.text) - 1 IN
         /\ r.find = Found(a.items, a.text, 1, a.anchor, TRUE)
         /\ r.match = Found(a.items, a.text, back2, a.anchor, FALSE)
         /\ r.gmatch = EachMatch(a.items, a.text)
         /\ r.gsub = Replaced(a.items, a.text, a.anchor, Replacing(a.items, a.text), 2)
    [] f = "any" -> \A k \in DOMAIN r : r[k] # Error("outside")
    [] f = "news" ->
         IF WellFormed(a.news) THEN r = <<"values", <<Text(Expanded(a.news, a.text)), Number(1)>>>> ELSE r[1] = "error"
    [] f = "plain" ->
         LET from == IF a.init >= 0 THEN Max({1, a.init}) ELSE Max({1, Len(a.text) + 1 + a.init})
             at == {k \in from .. Len(a.text) + 1 : IsPrefix(a.pattern, SubSeq(a.text, k, Len(a.text)))}
         IN r = IF at = {} THEN Nothing
                ELSE <<"values", <<Number(Min(at)), Number(Min(at) + Len(a.pattern) - 1)>>>>

------------------------------------------------------------------------------
(* Binary data: the options of a format (whose first may be a setting), and   *)
(* the values.                                                                *)
OfData(f, a) ==
  LET p == str_pack(a.fmt, a.args)
      longer == Padding(MAXALIGN) \o p[2]
      outside == {0, -Len(longer) - 1, Len(longer) + 2}
  IN IF p[1] = "error" THEN [packed |-> p]
     ELSE [packed |-> p, unpacked |-> str_unpack(a.fmt, p[2], 1), size |-> str_packsize(a.fmt),
           cut |-> {<<b, str_unpack(a.fmt, b, 1)>> : b \in Cut(p[2], 0)},
           later |-> {str_unpack(a.fmt, longer, k) : k \in {MAXALIGN + 1, -Len(p[2])}},
           outside |-> {str_unpack(a.fmt, longer, k) : k \in outside}]

Setting(opt) == opt.o \in {">", "<", "!"}
SizeOf(opt) == getoption(initheader, opt).size
Kind(opt) == getoption(initheader, opt).k
(* The option after an X only says how to align.                              *)
ValueOptions(fmt) ==
  LET values == [k \in DOMAIN fmt |-> IF Takes(Kind(fmt[k])) /\ (k = 1 \/ fmt[k - 1].o # "X") THEN <<fmt[k]>> ELSE <<>>]
  IN FlattenSeq(values)

(* A value that an option can hold.                                           *)
Fits(opt, v) ==
  LET bits == NB * SizeOf(opt)
  IN CASE Kind(opt) = "Kint" -> v \in -2^(bits - 1) .. 2^(bits - 1) - 1
       [] Kind(opt) = "Kuint" -> v \in 0 .. 2^bits - 1 \/ SizeOf(opt) >= SZINT
       [] Kind(opt) = "Kchar" -> Len(v) <= SizeOf(opt)
       [] Kind(opt) = "Kstring" -> Len(v) < 2^bits
       [] Kind(opt) = "Kzstr" -> 0 \notin ToSet(v)
       [] OTHER -> TRUE
Kept(opt, v) == IF Kind(opt) = "Kchar" THEN v \o Padding(SizeOf(opt) - Len(v)) ELSE v
Aligned(fmt, b) ==
  LET last == fmt[Len(fmt)]
      align == Min({MAXALIGN, SizeOf(last)})
  IN (fmt[1].o = "!" /\ Kind(last) \in {"Kint", "Kuint", "Kfloat"}) => (Len(b) - SizeOf(last)) % align = 0

(* What unpacking data without their last bytes gives: an error; but a string *)
(* that ends with a zero may end with the data, too.                          *)
FromCut(fmt, vals, missing, n) ==
  LET last == vals[Len(vals)]
  IN IF Kind(fmt[Len(fmt)]) = "Kzstr" /\ missing <= Len(last) + 1
     THEN <<"unpacked", [vals EXCEPT ![Len(vals)] = SubSeq(last, 1, Len(last) + 1 - missing)], n - missing + 2>>
     ELSE <<"error", "data string too short">>

DataAsMeant(f, a, r) ==
  LET opts == ValueOptions(a.fmt)
      fit == \A k \in DOMAIN opts : Fits(opts[k], a.args[k])
      powers == \A k \in DOMAIN a.fmt : Kind(a.fmt[k]) = "Kchar" \/ SizeOf(a.fmt[k]) \in {0, 1, 2} \/ SizeOf(a.fmt[k]) >= MAXALIGN
      vals == [k \in DOMAIN opts |-> Kept(opts[k], a.args[k])]
      n == Len(r.packed[2])
      variable == \E k \in DOMAIN opts : Kind(opts[k]) \in {"Kstring", "Kzstr"}
  IN IF r.packed[1] = "error" THEN ~fit \/ (a.fmt[1].o = "!" /\ ~powers)
     ELSE /\ fit
          /\ r.unpacked = <<"unpacked", vals, n + 1>>
          /\ r.later = {<<"unpacked", vals, MAXALIGN + n + 1>>}
          /\ r.outside = {<<"error", "initial position out of string">>}
          /\ \A c \in r.cut : c[2] = FromCut(a.fmt, vals, n - Len(c[1]), n)
          /\ IF variable THEN r.size[1] = "error" ELSE r.size = <<"size", n>>
          /\ Aligned(a.fmt, r.packed[2])

------------------------------------------------------------------------------
(* Precompiled chunks: a function and whether its debug information is left   *)
(* out.                                                                       *)
Changed(s, k) == [s EXCEPT ![k] = (@ + 1) % BYTE]
OfChunks(f, a) ==
  LET chunk == luaU_dump(a.f, a.strip)
  IN [whole |-> f_parser(chunk), cut |-> {f_parser(z) : z \in Cut(chunk, 1)},
      changed |-> {f_parser(Changed(chunk, k)) : k \in 1 .. Len(DumpHeader)}]

RECURSIVE Stripped(_)
Stripped(f) ==
  [f EXCEPT !.source = NoString, !.lineinfo = <<>>, !.locvars = <<>>,
            !.upvalues = [k \in DOMAIN @ |-> [@[k] EXCEPT !.name = NoString]],
            !.p = [k \in DOMAIN @ |-> Stripped(@[k])]]
ChunkAsMeant(f, a, r) ==
  /\ r.whole = [err |-> "", nupvalues |-> Len(a.f.upvalues), p |-> IF a.strip THEN Stripped(a.f) ELSE a.f]
  /\ \A c \in r.cut : c = [err |-> "truncated"]
  /\ \A c \in r.changed : c.err \notin {"", "truncated"}

------------------------------------------------------------------------------
(* Tables.                                                                    *)
OfTables(f, a) ==
  CASE f = "insert" -> tinsert(a.t, a.len, a.pos, a.v)
    [] f = "remove" -> tremove(a.t, a.len, a.pos)
    [] f = "move" -> tmove(a.t, a.f, a.e, a.at, a.t2, a.same)
    [] f = "unpack" -> unpack(a.t, a.f, a.e)
    [] f = "concat" -> tconcat(a.t, a.sep, a.f, a.e)
    [] f = "pack" -> LET packed == tpack(a.args) IN <<packed, unpack(packed.t, 1, packed.n)>>

(* The values from..to, and the places they go to, as if all at once.         *)
Moved(t2, t, f, e, at) == [k \in Key |-> IF at <= k /\ k <= at + (e - f) THEN t[f + (k - at)] ELSE t2[k]]
Joined(t, sep, f, e) == FlattenSeq([k \in 1 .. (IF f <= e THEN e - f + 1 ELSE 0) |-> t[f + k - 1] \o (IF f + k - 1 < e THEN sep ELSE <<>>)])

TableAsMeant(f, a, r) ==
  CASE f = "insert" ->
         LET pos == IF a.pos = <<>> THEN a.len + 1 ELSE a.pos[1] IN
         IF pos \in 1 .. a.len + 1
         THEN r = Returns([(IF pos <= a.len THEN Moved(a.t, a.t, pos, a.len, pos + 1) ELSE a.t) EXCEPT ![pos] = a.v], <<>>)
         ELSE r[1] = "error"
    [] f = "remove" ->
         LET pos == IF a.pos = <<>> THEN a.len ELSE a.pos[1]
             rest == IF pos < a.len THEN Moved(a.t, a.t, pos + 1, a.len, pos) ELSE a.t IN
         IF pos \in 1 .. a.len + 1 \/ pos = a.len
         THEN r = Returns([rest EXCEPT ![Max({pos, a.len})] = nil], <<a.t[pos]>>)
         ELSE r[1] = "error"
    [] f = "move" ->
         IF a.f > a.e THEN r = Returns(a.t2, <<>>)
         ELSE IF a.e - a.f + 1 <= LUA_MAXINTEGER /\ a.at + (a.e - a.f) <= LUA_MAXINTEGER
         THEN r = Returns(Moved(a.t2, a.t, a.f, a.e, a.at), <<>>)
         ELSE r[1] = "error"
    [] f = "unpack" ->
         IF a.e - a.f + 1 > UNPACKMAX THEN r[1] = "error"
         ELSE r = Returns(a.t, [k \in 1 .. (IF a.f <= a.e THEN a.e - a.f + 1 ELSE 0) |-> a.t[a.f + k - 1]])
    [] f = "pack" -> r[1].n = Len(a.args) /\ r[2] = Returns(r[1].t, a.args)
    [] f = "concat" ->
         IF \E k \in a.f .. a.e : a.t[k] = nil THEN r[1] = "error"
         ELSE LET all == Joined(a.t, a.sep, a.f, a.e) IN
              r = Returns(a.t, <<all>>) \/ (r[1] = "error" /\ Len(all) > MAXBUFFER \div 2)

------------------------------------------------------------------------------
(* Texts, and texts in UTF-8.                                                 *)
OfTexts(f, a) ==
  CASE f = "sub" -> <<str_sub(a.s, a.f, a.e), str_byte(a.s, a.f, a.e)>>
    [] f = "reverse" -> str_reverse(a.s)
    [] f = "rep" -> str_rep(a.s, a.n, a.sep)
    [] f = "char" -> <<str_char(a.codes), utfchar(a.codes)>>
    [] f = "utf8" -> [len |-> utflen(a.s, 1, -1), codepoint |-> codepoint(a.s, 1, -1), codes |-> iter_codes(a.s)]
    [] f = "offset" -> byteoffset(a.s, a.n, IF a.n > 0 THEN 1 ELSE Len(a.s) + 1)
    [] f = "within" -> byteoffset(a.s, 0, a.f)

(* The encoding of a code, by the number of its bits.                         *)
Encoding(c) ==
  LET part(k) == 128 + ((c \div 64^k) % 64)
  IN CASE c < 2^7 -> <<c>>
       [] c >= 2^7 /\ c < 2^11 -> <<192 + c \div 64, part(0)>>
       [] c >= 2^11 /\ c < 2^16 -> <<224 + c \div 64^2, part(1), part(0)>>
       [] OTHER -> <<240 + c \div 64^3, part(2), part(1), part(0)>>
(* The character that begins at k, if there is one, and all from k on up to   *)
(* the first place where there is none.                                       *)
Payload(b, n) ==
  LET lead == CASE n = 1 -> 0 [] n = 2 -> 192 [] n = 3 -> 224 [] OTHER -> 240
  IN FoldLeft(LAMBDA v, b8 : (v * 64) + b8 - 128, b[1] - lead, Tail(b))
Chars(s, k) ==
  {n \in 1 .. Min({4, Len(s) + 1 - k}) :
     LET b == SubSeq(s, k, k + n - 1) IN Payload(b, n) \in 0 .. MAXUNICODE /\ Encoding(Payload(b, n)) = b}
RECURSIVE Parsed(_, _)
Parsed(s, k) ==
  LET n == CHOOSE n \in Chars(s, k) : TRUE
      rest == Parsed(s, k + n)
  IN IF Chars(s, k) = {} THEN [chars |-> <<>>, stop |-> k]
     ELSE [rest EXCEPT !.chars = <<[at |-> k, code |-> Payload(SubSeq(s, k, k + n - 1), n)]>> \o @]

TextAsMeant(f, a, r) ==
  CASE f = "sub" ->
         LET at(pos) == IF pos < 0 THEN Len(a.s) + 1 + pos ELSE pos
             inside == {k \in DOMAIN a.s : at(a.f) <= k /\ k <= at(a.e)}
             part == IF inside = {} THEN <<>> ELSE SubSeq(a.s, Min(inside), Max(inside))
         IN r = <<part, Success(part)>>
    [] f = "reverse" -> Len(r) = Len(a.s) /\ \A k \in DOMAIN r : r[k] = a.s[Len(a.s) + 1 - k]
    [] f = "rep" ->
         LET unit == a.s \o a.sep
             n == Max({a.n, 0})
             all == SubSeq(FlattenSeq([k \in 1 .. n |-> unit]), 1, n * Len(unit) - (IF n > 0 THEN Len(a.sep) ELSE 0))
         IN r = Success(all) \/ (r[1] = "error" /\ n * Len(unit) > MAXTEXT)
    [] f = "char" ->
         /\ IF \A k \in DOMAIN a.codes : a.codes[k] \in 0 .. 255 THEN r[1] = Success(a.codes) ELSE r[1][1] = "error"
         /\ IF \A k \in DOMAIN a.codes : a.codes[k] \in 0 .. MAXUNICODE
            THEN r[2] = Success(FlattenSeq([k \in DOMAIN a.codes |-> Encoding(a.codes[k])])) ELSE r[2][1] = "error"
    [] f = "utf8" ->
         LET all == Parsed(a.s, 1)
             valid == all.stop = Len(a.s) + 1
             n == Len(all.chars)
         IN /\ r.len = Success(IF valid THEN <<n>> ELSE <<"nil", all.stop>>)
            /\ IF valid THEN r.codepoint = Success([k \in 1 .. n |-> all.chars[k].code]) ELSE r.codepoint[1] = "error"
            /\ IF valid THEN r.codes = [k \in 1 .. n |-> Success(<<all.chars[k].at, all.chars[k].code>>)]
               ELSE r.codes[Len(r.codes)][1] = "error"
    [] f = "offset" ->
         LET all == Parsed(a.s, 1).chars
             k == IF a.n > 0 THEN a.n ELSE Len(all) + 1 + a.n
         IN r = Success(CASE k \in DOMAIN all -> <<all[k].at>> [] k = Len(all) + 1 -> <<Len(a.s) + 1>> [] OTHER -> <<"nil">>)
    [] f = "within" ->
         r = Success(<<Max({all.at : all \in {c \in ToSet(Parsed(a.s, 1).chars) : c.at <= a.f}})>>)

------------------------------------------------------------------------------
(* A call is answered once.                                                   *)
VARIABLES call, result

(* (Declared RECURSIVE, like AsMeant: TLC keeps one count of its evaluations  *)
(* for all calls of it.)                                                      *)
RECURSIVE Answer(_)
Answer(c) ==
  CASE c[1] = "patterns" -> OfPatterns(c[2], c[3])
    [] c[1] = "data" -> OfData(c[2], c[3])
    [] c[1] = "chunks" -> OfChunks(c[2], c[3])
    [] c[1] = "tables" -> OfTables(c[2], c[3])
    [] c[1] = "texts" -> OfTexts(c[2], c[3])
Library == Len(call) = 3 /\ result = <<>> /\ result' = <<Answer(call)>> /\ UNCHANGED call

RECURSIVE AsMeant(_, _)
AsMeant(c, r) ==
  CASE c[1] = "patterns" -> PatternAsMeant(c[2], c[3], r)
    [] c[1] = "data" -> DataAsMeant(c[2], c[3], r)
    [] c[1] = "chunks" -> ChunkAsMeant(c[2], c[3], r)
    [] c[1] = "tables" -> TableAsMeant(c[2], c[3], r)
    [] c[1] = "texts" -> TextAsMeant(c[2], c[3], r)

(* A pattern finds what its items mean, in the order of preference that the   *)
(* manual gives for the repetitions; no pattern is read beyond its end.       *)
PatternsAsMeant == (result # <<>> /\ call[1] = "patterns") => AsMeant(call, result[1])

(* What is packed can be unpacked, from any position, and what is dumped can  *)
(* be loaded, and neither when something is missing (but the zero at the end  *)
(* of a string that ends the data, see FromCut); elements move as if all at once; a text is      *)
(* valid UTF-8 for all functions or for none.                                 *)
LibrariesAsMeant == (result # <<>> /\ call[1] # "patterns") => AsMeant(call, result[1])
==============================================================================
