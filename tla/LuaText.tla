------------------------------- MODULE LuaText -------------------------------
(* The simple functions of the string library (lstrlib.c), the utf8 library   *)
(* (lutf8lib.c) and luaO_utf8esc.  A string is a sequence of bytes.           *)
EXTENDS Integers, Sequences
LOCAL INSTANCE SequencesExt
LOCAL INSTANCE FiniteSetsExt

CONSTANTS MAXTEXT           \* MAXSIZE: no string is longer

Failure(arg) == <<"error", arg>>
Success(values) == <<"ok", values>>

u_posrelat(pos, len) == CASE pos >= 0 -> pos [] -pos > len -> 0 [] OTHER -> len + pos + 1

str_sub(s, i, j) ==
  LET start == Max({u_posrelat(i, Len(s)), 1})
      end == Min({u_posrelat(j, Len(s)), Len(s)})
  IN IF start <= end THEN SubSeq(s, start, end) ELSE <<>>

(* str_byte returns the same bytes as numbers.                                *)
str_byte(s, i, j) == Success(str_sub(s, i, j))
str_reverse(s) == Reverse(s)
str_char(cs) ==
  LET bad == {k \in DOMAIN cs : cs[k] \notin 0 .. 255}
  IN IF bad = {} THEN Success(cs) ELSE Failure(Min(bad))

(* n copies of s with sep between them; too long a result is not even begun.  *)
RECURSIVE Copies(_, _, _)
Copies(s, sep, n) == IF n = 1 THEN s ELSE s \o sep \o Copies(s, sep, n - 1)
str_rep(s, n, sep) ==
  CASE n <= 0 -> Success(<<>>)
    [] n > 0 /\ Len(s) + Len(sep) > MAXTEXT \div n -> Failure(0)
    [] OTHER -> Success(Copies(s, sep, n))

------------------------------------------------------------------------------
(* UTF-8.                                                                     *)

MAXUNICODE == 1114111       \* 0x10FFFF
iscont(b) == b \in 128 .. 191
limits == <<127, 2047, 65535>>

(* The continuation bytes, last first; mfb is what fits into the first byte.  *)
RECURSIVE Continuation(_, _, _)
Continuation(x, mfb, bytes) ==
  LET rest == x \div 64
      fits == mfb \div 2
      more == <<128 + (x % 64)>> \o bytes
  IN IF rest > fits THEN Continuation(rest, fits, more)
     ELSE <<254 - 2 * fits + rest>> \o more
luaO_utf8esc(x) == IF x < 128 THEN <<x>> ELSE Continuation(x, 63, <<>>)

(* Bytes are read from position o (from 1); past the end there is a NUL.      *)
ByteAt(s, o) == IF o <= Len(s) THEN s[o] ELSE 0
(* How many continuation bytes the first byte announces.                      *)
Announced(c) == CASE c < 192 -> 0 [] c < 224 -> 1 [] c < 240 -> 2 [] c < 248 -> 3 [] OTHER -> 4
Invalid == [code |-> -1, next |-> 0]

(* Mutant: the longer forms of a character are accepted.                      *)
utf8_decodeLong(s, o) ==
  LET c == ByteAt(s, o)
      count == Announced(c)
      res == FoldLeft(LAMBDA r, k : r * 64 + (ByteAt(s, o + k) % 64), c % 2^(6 - count), [k \in 1 .. count |-> k])
  IN CASE c < 128 -> [code |-> c, next |-> o + 1]
       [] c >= 128 /\ (count \notin 1 .. 3 \/ \E k \in 1 .. count : ~iscont(ByteAt(s, o + k))) -> Invalid
       [] OTHER -> IF res > MAXUNICODE THEN Invalid ELSE [code |-> res, next |-> o + count + 1]

utf8_decode(s, o) ==
  LET c == ByteAt(s, o)
      count == Announced(c)
      res == FoldLeft(LAMBDA r, k : r * 64 + (ByteAt(s, o + k) % 64), c % 2^(6 - count), [k \in 1 .. count |-> k])
  IN CASE c < 128 -> [code |-> c, next |-> o + 1]
       [] c >= 128 /\ (count \notin 1 .. 3 \/ \E k \in 1 .. count : ~iscont(ByteAt(s, o + k))) -> Invalid
       [] OTHER -> IF res > MAXUNICODE \/ res <= limits[count] THEN Invalid
                   ELSE [code |-> res, next |-> o + count + 1]

RECURSIVE CountFrom(_, _, _, _)
CountFrom(s, posi, posj, n) ==
  IF posi > posj THEN Success(<<n>>)
  ELSE IF utf8_decode(s, posi) = Invalid THEN Success(<<"nil", posi>>)
  ELSE CountFrom(s, utf8_decode(s, posi).next, posj, n + 1)
utflen(s, i, j) ==
  LET posi == u_posrelat(i, Len(s))
      posj == u_posrelat(j, Len(s))
  IN CASE ~(1 <= posi /\ posi <= Len(s) + 1) -> Failure(2)
       [] 1 <= posi /\ posi <= Len(s) + 1 /\ posj > Len(s) -> Failure(3)
       [] OTHER -> CountFrom(s, posi, posj, 0)

RECURSIVE CodesFrom(_, _, _, _)
CodesFrom(s, pos, pose, codes) ==
  IF pos > pose THEN Success(codes)
  ELSE IF utf8_decode(s, pos) = Invalid THEN Failure(0)
  ELSE CodesFrom(s, utf8_decode(s, pos).next, pose, Append(codes, utf8_decode(s, pos).code))
codepoint(s, i, j) ==
  LET posi == u_posrelat(i, Len(s))
      pose == u_posrelat(j, Len(s))
  IN CASE posi < 1 -> Failure(2)
       [] posi >= 1 /\ pose > Len(s) -> Failure(3)
       [] OTHER -> CodesFrom(s, posi, pose, <<>>)

utfchar(codes) ==
  LET bad == {k \in DOMAIN codes : codes[k] \notin 0 .. MAXUNICODE}
  IN IF bad # {} THEN Failure(Min(bad)) ELSE Success(FlattenSeq([k \in DOMAIN codes |-> luaO_utf8esc(codes[k])]))

(* From pos (from 0), n characters back, or on.                               *)
ContAt(s, pos) == iscont(ByteAt(s, pos + 1))
StartAtOrBefore(s, pos) == Max({0} \cup {k \in 0 .. pos : ~ContAt(s, k)})
StartAfter(s, pos) == Min({k \in pos + 1 .. Len(s) + 1 : ~ContAt(s, k)})
RECURSIVE Back(_, _, _)
Back(s, n, pos) == IF n < 0 /\ pos > 0 THEN Back(s, n + 1, StartAtOrBefore(s, pos - 1)) ELSE <<n, pos>>
RECURSIVE Forth(_, _, _)
Forth(s, n, pos) == IF n > 0 /\ pos < Len(s) THEN Forth(s, n - 1, StartAfter(s, pos)) ELSE <<n, pos>>
byteoffset(s, n, i) ==
  LET posi == u_posrelat(i, Len(s)) - 1
      to == CASE n = 0 -> <<0, StartAtOrBefore(s, posi)>>
              [] n < 0 -> Back(s, n, posi)
              [] OTHER -> Forth(s, n - 1, posi)
  IN CASE ~(0 <= posi /\ posi <= Len(s)) -> Failure(3)
       [] 0 <= posi /\ posi <= Len(s) /\ n # 0 /\ ContAt(s, posi) -> Failure(0)
       [] OTHER -> Success(IF to[1] = 0 THEN <<to[2] + 1>> ELSE <<"nil">>)

(* utf8.codes: the position and the code of each character.                   *)
iter_aux(s, i) ==
  LET n == CASE i - 1 < 0 -> 0
             [] i - 1 >= 0 /\ i - 1 < Len(s) -> StartAfter(s, i - 1)
             [] OTHER -> i - 1
      d == utf8_decode(s, n + 1)
  IN CASE n >= Len(s) -> Success(<<>>)
       [] n < Len(s) /\ (d = Invalid \/ iscont(ByteAt(s, d.next))) -> Failure(0)
       [] OTHER -> Success(<<n + 1, d.code>>)
RECURSIVE CodesIn(_, _)
CodesIn(s, i) ==
  LET r == iter_aux(s, i)
  IN IF r[1] = "error" THEN <<r>> ELSE IF r[2] = <<>> THEN <<>> ELSE <<r>> \o CodesIn(s, r[2][1])
iter_codes(s) == CodesIn(s, 0)
==============================================================================
