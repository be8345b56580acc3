------------------------------- MODULE LuaPack -------------------------------
(* Binary data of the string library: string.pack, packsize and unpack        *)
(* (lstrlib.c).  A format is a sequence of options [o, n], where n is the     *)
(* number that follows the letter, or -1; a byte is a number below 2^NB.      *)
(* Values are integers of SZINT bytes, floats (their bytes, lowest first, on  *)
(* this little-endian machine) and strings (sequences of bytes).              *)
EXTENDS LuaText
LOCAL INSTANCE SequencesExt

CONSTANTS NB,           \* bits of a byte
          SZINT,        \* bytes of a lua_Integer and of a lua_Number
          SZSIZE,       \* bytes of a size_t
          SZSHORT,      \* bytes of a short
          SZCINT,       \* bytes of an int
          MAXINTSIZE,   \* bytes of the largest integer in binary data
          MAXALIGN      \* the alignment of the machine

MC == 2^NB - 1
lua_Unsigned(n) == n % 2^(NB * SZINT)
lua_Integer(u) == IF u >= 2^(NB * SZINT - 1) THEN u - 2^(NB * SZINT) ELSE u
size_t(n) == n % 2^(NB * SZSIZE)
MAXSIZE == 2^(NB * SZSIZE - 1) - 1
Padding(n) == [i \in 1 .. n |-> 0]

------------------------------------------------------------------------------
(* Options.  The header h has the settings that options change; an option     *)
(* that cannot be read leaves an error in it.                                 *)

initheader == [islittle |-> TRUE, maxalign |-> 1, err |-> ""]
Option(h, k, size) == [h |-> h, k |-> k, size |-> size]
Wrong(h, msg) == Option([h EXCEPT !.err = msg], "Knop", 0)

getnum(n, df) == IF n = -1 THEN df ELSE n
InLimit(n) == 0 < n /\ n <= MAXINTSIZE
Limited(h, k, n, df) ==
  IF InLimit(getnum(n, df)) THEN Option(h, k, getnum(n, df)) ELSE Wrong(h, "integral size out of limits")

getoption(h, opt) ==
  CASE opt.o = "b" -> Option(h, "Kint", 1)
    [] opt.o = "B" -> Option(h, "Kuint", 1)
    [] opt.o = "h" -> Option(h, "Kint", SZSHORT)
    [] opt.o = "j" -> Option(h, "Kint", SZINT)
    [] opt.o = "J" -> Option(h, "Kuint", SZINT)
    [] opt.o = "T" -> Option(h, "Kuint", SZSIZE)
    [] opt.o = "n" -> Option(h, "Kfloat", SZINT)
    [] opt.o = "i" -> Limited(h, "Kint", opt.n, SZCINT)
    [] opt.o = "I" -> Limited(h, "Kuint", opt.n, SZCINT)
    [] opt.o = "s" -> Limited(h, "Kstring", opt.n, SZSIZE)
    [] opt.o = "c" -> IF opt.n = -1 THEN Wrong(h, "missing size") ELSE Option(h, "Kchar", opt.n)
    [] opt.o = "z" -> Option(h, "Kzstr", 0)
    [] opt.o = "x" -> Option(h, "Kpadding", 1)
    [] opt.o = "X" -> Option(h, "Kpaddalign", 0)
    [] opt.o = " " -> Option(h, "Knop", 0)
    [] opt.o \in {"<", "="} -> Option([h EXCEPT !.islittle = TRUE], "Knop", 0)
    [] opt.o = ">" -> Option([h EXCEPT !.islittle = FALSE], "Knop", 0)
    [] opt.o = "!" -> IF InLimit(getnum(opt.n, MAXALIGN))
                      THEN Option([h EXCEPT !.maxalign = getnum(opt.n, MAXALIGN)], "Knop", 0)
                      ELSE Wrong(h, "integral size out of limits")
    [] OTHER -> Wrong(h, "invalid format option")

PowerOf2(n) == \E k \in 0 .. 10 : n = 2^k

(* The next option with the bytes that align it; X takes the alignment from   *)
(* the option after it, which it reads, too.                                  *)
Details(opt, isX, aligned, h, totalsize, fmt) ==
  LET align == IF aligned > h.maxalign THEN h.maxalign ELSE aligned
      free == aligned <= 1 \/ opt.k = "Kchar"
  IN [h |-> IF free \/ PowerOf2(align) \/ h.err # "" THEN h ELSE [h EXCEPT !.err = "format asks for alignment not power of 2"],
      k |-> opt.k, size |-> opt.size,
      ntoalign |-> IF free THEN 0 ELSE (align - (totalsize % align)) % align,
      fmt |-> SubSeq(fmt, IF isX THEN 3 ELSE 2, Len(fmt))]
AfterX(next) ==
  IF next.h.err = "" /\ (next.k = "Kchar" \/ next.size = 0)
  THEN [next.h EXCEPT !.err = "invalid next option for option 'X'"] ELSE next.h
WithX(opt, next, totalsize, fmt) == Details(opt, TRUE, next.size, AfterX(next), totalsize, fmt)
Option1(opt, totalsize, fmt) ==
  CASE opt.k # "Kpaddalign" -> Details(opt, FALSE, opt.size, opt.h, totalsize, fmt)
    [] opt.k = "Kpaddalign" /\ Len(fmt) = 1 ->
         WithX(opt, Wrong(opt.h, "invalid next option for option 'X'"), totalsize, fmt)
    [] OTHER -> WithX(opt, getoption(opt.h, fmt[2]), totalsize, fmt)
getdetails(h, totalsize, fmt) == Option1(getoption(h, fmt[1]), totalsize, fmt)

------------------------------------------------------------------------------
(* Packing.                                                                   *)

Ordered(bytes, islittle) == IF islittle THEN bytes ELSE Reverse(bytes)

(* The bytes of n, with the sign extended beyond those of a lua_Integer.      *)
packint(n, islittle, size, neg) ==
  Ordered([i \in 1 .. size |-> IF neg /\ i > SZINT THEN MC ELSE (n \div 2^(NB * (i - 1))) % (MC + 1)], islittle)

(* The bytes of one value, or the reason why it cannot be packed.             *)
Packed(d, v) ==
  CASE d.k = "Kint" ->
         LET lim == 2^(d.size * NB - 1)
         IN IF d.size < SZINT /\ ~(-lim <= v /\ v < lim) THEN <<"error", "integer overflow">>
            ELSE <<"bytes", packint(lua_Unsigned(v), d.h.islittle, d.size, v < 0)>>
    [] d.k = "Kuint" ->
         IF d.size < SZINT /\ ~(lua_Unsigned(v) < 2^(d.size * NB)) THEN <<"error", "unsigned overflow">>
         ELSE <<"bytes", packint(lua_Unsigned(v), d.h.islittle, d.size, FALSE)>>
    [] d.k = "Kfloat" -> <<"bytes", Ordered(v, d.h.islittle)>>
    [] d.k = "Kchar" -> IF Len(v) > d.size THEN <<"error", "string longer than given size">>
                        ELSE <<"bytes", v \o Padding(d.size - Len(v))>>
    [] d.k = "Kstring" ->
         IF d.size < SZSIZE /\ Len(v) >= 2^(d.size * NB) THEN <<"error", "string length does not fit">>
         ELSE <<"bytes", packint(Len(v), d.h.islittle, d.size, FALSE) \o v>>
    [] d.k = "Kzstr" -> IF 0 \in ToSet(v) THEN <<"error", "string contains zeros">> ELSE <<"bytes", Append(v, 0)>>
    [] d.k = "Kpadding" -> <<"bytes", <<0>>>>
    [] OTHER -> <<"bytes", <<>>>>
Takes(k) == k \notin {"Kpadding", "Kpaddalign", "Knop"}

RECURSIVE PackRest(_, _, _, _)
PackWith(d, p, args, b) ==
  IF p[1] = "error" THEN p
  ELSE PackRest(d.h, d.fmt, IF Takes(d.k) THEN Tail(args) ELSE args, b \o Padding(d.ntoalign) \o p[2])
PackNext(d, args, b) ==
  IF d.h.err # "" THEN <<"error", d.h.err>>
  ELSE PackWith(d, Packed(d, IF Takes(d.k) THEN args[1] ELSE 0), args, b)
PackRest(h, fmt, args, b) ==
  IF fmt = <<>> THEN <<"packed", b>>
  ELSE PackNext(getdetails(h, Len(b), fmt), args, b)
str_pack(fmt, args) == PackRest(initheader, fmt, args, <<>>)

RECURSIVE SizeOfRest(_, _, _)
SizeOfNext(d, totalsize) ==
  LET size == d.size + d.ntoalign
  IN CASE d.h.err # "" -> <<"error", d.h.err>>
       [] d.h.err = "" /\ totalsize > MAXSIZE - size -> <<"error", "format result too large">>
       [] d.h.err = "" /\ d.k \in {"Kstring", "Kzstr"} -> <<"error", "variable-length format">>
       [] OTHER -> SizeOfRest(d.h, d.fmt, totalsize + size)
SizeOfRest(h, fmt, totalsize) ==
  IF fmt = <<>> THEN <<"size", totalsize>>
  ELSE SizeOfNext(getdetails(h, totalsize, fmt), totalsize)
str_packsize(fmt) == SizeOfRest(initheader, fmt, 0)

------------------------------------------------------------------------------
(* Unpacking.                                                                 *)

(* Mutant: no sign extension.                                                 *)
UnpackUnsigned(bytes, size, issigned) == 
  FoldRight(LAMBDA byte, v : v * (MC + 1) + byte, SubSeq(bytes, 1, IF size <= SZINT THEN size ELSE SZINT), 0)

(* The number in the bytes (lowest first), its sign extended.                 *)
Extended(bytes, size, issigned) ==
  LET limit == IF size <= SZINT THEN size ELSE SZINT
      res == FoldRight(LAMBDA byte, v : v * (MC + 1) + byte, SubSeq(bytes, 1, limit), 0)
      mask == 2^(size * NB - 1)
  IN IF size < SZINT /\ issigned /\ res >= mask THEN lua_Unsigned(res - 2 * mask) ELSE res

unpackint(str, islittle, size, issigned) ==
  LET bytes == Ordered(str, islittle)
      res == lua_Integer(Extended(bytes, size, issigned))
      mask == IF ~issigned \/ res >= 0 THEN 0 ELSE MC
  IN IF \E i \in SZINT + 1 .. size : bytes[i] # mask
     THEN <<"error", "integer does not fit into Lua Integer">> ELSE <<"value", res>>

(* The value of an option at pos (from 0), and the bytes it takes besides its *)
(* size.  A string is as long as the number before it says; the sum is of     *)
(* size_t, and a string too long to exist is an error, too.                   *)
Zeros(data, pos) == {i \in pos + 1 .. Len(data) : data[i] = 0}
Value(r, more) == [r |-> r, more |-> more]
UnpackString(d, int, len, data, pos) ==
  CASE int[1] = "error" -> Value(int, 0)
    [] int[1] # "error" /\ size_t(pos + len + d.size) > Len(data) -> Value(<<"error", "data string too short">>, 0)
    [] OTHER -> IF len > MAXSIZE THEN Value(<<"error", "memory">>, 0)
                ELSE Value(<<"value", SubSeq(data, pos + d.size + 1, pos + d.size + len)>>, len)
Unpacked(d, data, pos) ==
  LET here == SubSeq(data, pos + 1, pos + d.size)
      int == unpackint(here, d.h.islittle, d.size, d.k = "Kint")
      zero == IF Zeros(data, pos) = {} THEN Len(data) + 1
              ELSE CHOOSE i \in Zeros(data, pos) : \A j \in Zeros(data, pos) : i <= j
  IN CASE d.k \in {"Kint", "Kuint"} -> Value(int, 0)
       [] d.k = "Kfloat" -> Value(<<"value", Ordered(here, d.h.islittle)>>, 0)
       [] d.k = "Kchar" -> Value(<<"value", here>>, 0)
       [] d.k = "Kstring" -> UnpackString(d, int, lua_Unsigned(int[2]), data, pos)
       [] d.k = "Kzstr" -> Value(<<"value", SubSeq(data, pos + 1, zero - 1)>>, zero - pos)
       [] OTHER -> Value(<<"none">>, 0)

RECURSIVE UnpackRest(_, _, _, _, _)
UnpackWith(d, u, data, end, vals) ==
  IF u.r[1] = "error" THEN u.r
  ELSE UnpackRest(d.h, d.fmt, data, end + u.more, IF Takes(d.k) THEN Append(vals, u.r[2]) ELSE vals)
UnpackNext(d, data, pos, vals) ==
  LET at == pos + d.ntoalign
  IN CASE d.h.err # "" -> <<"error", d.h.err>>
       [] d.h.err = "" /\ at + d.size > Len(data) -> <<"error", "data string too short">>
       [] OTHER -> UnpackWith(d, Unpacked(d, data, at), data, at + d.size, vals)
UnpackRest(h, fmt, data, pos, vals) ==
  IF fmt = <<>> THEN <<"unpacked", vals, pos + 1>>
  ELSE UnpackNext(getdetails(h, pos, fmt), data, pos, vals)
(* From a position on; what is before the first byte is far beyond the last   *)
(* one, in size_t.                                                            *)
str_unpack(fmt, data, init) ==
  LET pos == size_t(u_posrelat(init, Len(data)) - 1)
  IN IF pos > Len(data) THEN <<"error", "initial position out of string">>
     ELSE UnpackRest(initheader, fmt, data, pos, <<>>)
==============================================================================
