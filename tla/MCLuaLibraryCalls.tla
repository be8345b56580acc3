-------------------------- MODULE MCLuaLibraryCalls --------------------------
(* The calls of LuaLibraries that are checked.                                *)
EXTENDS LuaLibraries
LOCAL INSTANCE SequencesExt
LOCAL INSTANCE FiniteSetsExt

MCOrder == <<"$", "%", "(", ")", "*", "+", "-", ".", "0", "1", "2", "3", "4", "5", "6", "7", "8", "9",
             "?", "A", "[", "]", "^", "a", "b", "f">>
Strings(S, n) == UNION {[1 .. k -> S] : k \in 0 .. n}

------------------------------------------------------------------------------
(* Patterns: every repetition before every other one, in and after captures,  *)
(* back references, balances, frontiers and sets.                             *)
NotIn(s) == Character \ s
Classes == {Class(<<"a">>, {"a"}), Class(<<"%", "a">>, Lower \cup Upper), Class(<<"[", "^", "a", "]">>, NotIn({"a"}))}
Singles == {single(c, r) : c \in Classes, r \in {"", "*", "+", "-", "?"}}
Sets == {single(Class(x[1], x[2]), "") : x \in {
  <<<<".">>, Character>>, <<<<"%", "A">>, NotIn(Lower \cup Upper)>>, <<<<"%", "(">>, {"("}>>,
  <<<<"[", "a", "-", "b", "]">>, {"a", "b"}>>, <<<<"[", "]", "a", "]">>, {"]", "a"}>>,
  <<<<"[", "a", "-", "]">>, {"a", "-"}>>, <<<<"[", "^", "]", "%", "d", "]">>, NotIn({"]"} \cup Digit)>>,
  <<<<"[", "%", "]", "b", "-", "f", "]">>, {"]", "b", "f"}>>}}
Frontiers == {frontier(Class(<<"[", "a", "]">>, {"a"})), frontier(Class(<<"[", "^", "a", "]">>, NotIn({"a"})))}
ItemLists ==
  {<<open, s1, close, s2>> : s1 \in Singles, s2 \in {single(c, r) : c \in {Class(<<"a">>, {"a"})}, r \in {"", "*", "-", "?"}}}
  \cup {<<open, s1, position, close, s2, back(1)>> : s1 \in Singles, s2 \in {single(c, "-") : c \in Classes}}
  \cup {<<s1, f, s2>> : s1 \in {single(c, "*") : c \in Classes}, f \in Frontiers \cup {balance("a", "b")}, s2 \in {single(Anything, "-")}}
  \cup {<<s1, s2, end>> : s1 \in Singles, s2 \in {single(c, r) : c \in Classes, r \in {"+", "-"}}}
  \cup {<<>>}
Texts == Strings({"a", "b"}, 2) \cup {<<"a", "b", "1">>, <<"b", "a", "b">>, <<"b", "a", "1", "a">>, <<"a", "a", "a">>}

PatternCall(l, x, b) == <<"patterns", "items", [items |-> l, text |-> x, anchor |-> b]>>
PatternCalls ==
  {PatternCall(l, x, FALSE) : l \in ItemLists, x \in Texts}
  \cup {PatternCall(l, x, TRUE) : l \in ItemLists, x \in {<<"b", "a">>, <<"a", "a", "a">>}}
  \cup {PatternCall(<<s>>, x, FALSE) : s \in Sets, x \in {<<"]">>, <<"-">>, <<"(">>, <<"b", "a", "f">>, <<"A", "1">>}}
AnyCalls ==
  {<<"patterns", "any", [pattern |-> x, text |-> <<"a", "[">>]>> : x \in Strings({"%", "[", "]", "(", ")", "-", "f", "b", "1", "a"}, 3)}
NewsCalls ==
  {<<"patterns", "news", [pattern |-> <<"(", "a", "b", ")">>, text |-> <<"a", "b">>, news |-> x]>> : x \in Strings({"%", "0", "1", "2", "a"}, 3)}
PlainCalls ==
  {<<"patterns", "plain", [pattern |-> x, text |-> y, init |-> k]>> :
      x \in Strings({"a", "."}, 2), y \in {<<"a", ".", "a", ".">>, <<>>}, k \in -5 .. 6}

------------------------------------------------------------------------------
(* Binary data.                                                               *)
Opt(o, n) == [o |-> o, n |-> n]
Integral == {Opt(o, -1) : o \in {"b", "B", "h", "j", "J", "T", "i", "I"}} \cup {Opt(o, n) : o \in {"i", "I"}, n \in 1 .. MAXINTSIZE}
Chars3 == {<<>>, <<1>>, <<3, 2, 1>>, <<0, 1>>, <<1, 2, 3, 0>>}
Textual == {Opt("s", -1), Opt("s", 1), Opt("s", 2), Opt("z", -1), Opt("c", 2), Opt("c", 3)}
Ints == {-128, -127, -33, -9, -8, -3, -2, -1, 0, 1, 2, 3, 4, 7, 8, 15, 16, 31, 32, 127}
Settings == {<<>>, <<Opt(">", -1)>>, <<Opt("!", 4)>>}
Some(o) == CASE o \in Integral -> {-1, 1} [] o = Opt("n", -1) -> {<<1, 2, 3, 0>>} [] OTHER -> {<<>>, <<1, 2>>}
Short == {Opt("b", -1), Opt("h", -1), Opt("J", -1), Opt("i", 3), Opt("n", -1), Opt("s", 1), Opt("z", -1), Opt("c", 2)}
IntCalls ==
  {<<"data", "pack", [fmt |-> s \o <<o>>, args |-> <<v>>]>> : s \in Settings, o \in Integral, v \in Ints}
TextCalls ==
  {<<"data", "pack", [fmt |-> s \o <<o>>, args |-> <<v>>]>> : s \in Settings, o \in Textual, v \in Chars3}
PairCalls ==
  UNION {{<<"data", "pack", [fmt |-> s \o <<o[1], o[2]>>, args |-> <<v, w>>]>> : s \in Settings, v \in Some(o[1]), w \in Some(o[2])}
         : o \in Short \X Short}
PaddedCalls ==
  {<<"data", "pack", [fmt |-> s \o <<Opt("b", -1)>> \o o \o <<Opt("b", -1)>>, args |-> <<-1, 1>>]>> :
      s \in Settings, o \in {<<Opt("x", -1)>>, <<Opt(" ", -1)>>, <<Opt("X", -1), Opt("h", -1)>>, <<Opt("X", -1), Opt("j", -1)>>}}

------------------------------------------------------------------------------
(* Precompiled chunks.                                                        *)
Str(n) == <<"string", [k \in 1 .. n |-> k % BYTE]>>
Upv(n) == [instack |-> 1, idx |-> n, name |-> Str(n)]
Constants == {<<[tt |-> LUA_TNIL, v |-> 0], [tt |-> LUA_TBOOLEAN, v |-> 1], [tt |-> LUA_TNUMINT, v |-> 700], [tt |-> LUA_TNUMFLT, v |-> 40],
                [tt |-> LUA_TSHRSTR, v |-> Str(LUAI_MAXSHORTLEN)], [tt |-> LUA_TLNGSTR, v |-> Str(LUAI_MAXSHORTLEN + 1)]>>,
              <<>>} \cup {<<[tt |-> LUA_TLNGSTR, v |-> Str(n)]>> : n \in LONG - 3 .. LONG + 1} \cup {<<[tt |-> LUA_TSHRSTR, v |-> Str(0)]>>}
Proto(source, k, ups, p) ==
  [source |-> source, linedefined |-> 3, lastlinedefined |-> 40, numparams |-> 1, is_vararg |-> 0, maxstacksize |-> 2,
   code |-> <<5, 200>>, k |-> k, upvalues |-> ups, p |-> p,
   lineinfo |-> <<3, 40>>, locvars |-> <<[varname |-> Str(1), startpc |-> 0, endpc |-> 2]>>]
Protos ==
  {Proto(Str(2), k, <<Upv(1)>>, <<>>) : k \in Constants}
  \cup {Proto(Str(2), <<>>, <<Upv(1), Upv(2)>>, <<Proto(s, <<>>, <<Upv(0)>>, <<>>), Proto(s, k, <<>>, <<Proto(Str(2), <<>>, <<>>, <<>>)>>)>>) :
           s \in {Str(2), Str(LONG)}, k \in Constants}
ChunkCalls == {<<"chunks", "dump", [f |-> f, strip |-> b]>> : f \in Protos, b \in BOOLEAN}

------------------------------------------------------------------------------
(* Tables.                                                                    *)
V(k) == <<"v", k>>
Filled(n) == [k \in Key |-> IF k \in 1 .. n THEN V(k) ELSE nil]
Everywhere == [k \in Key |-> V(k)]
Other == [k \in Key |-> <<"w", k>>]
Positions == {<<>>} \cup {<<k>> : k \in Key}
InsertCalls == {<<"tables", "insert", [t |-> Filled(n), len |-> n, pos |-> p, v |-> <<"w", 0>>]>> : n \in 0 .. 4, p \in Positions}
RemoveCalls == {<<"tables", "remove", [t |-> Filled(n), len |-> n, pos |-> p]>> : n \in 0 .. 4, p \in Positions}
MoveCalls ==
  {<<"tables", "move", [t |-> Everywhere, t2 |-> IF b THEN Everywhere ELSE Other, f |-> k, e |-> l, at |-> m, same |-> b]>> :
     k, l, m \in {-8, -7, -1, 0, 1, 2, 6, 7}, b \in BOOLEAN}
UnpackCalls == {<<"tables", "unpack", [t |-> Everywhere, f |-> k, e |-> l]>> : k, l \in Key}
PackCalls == {<<"tables", "pack", [args |-> x]>> : x \in Strings({V(1), nil}, 3)}
Fields == {nil, <<>>, <<"a">>, <<"a", "b", "c">>}
ConcatCalls ==
  {<<"tables", "concat", [t |-> [at \in Key |-> IF at \in DOMAIN x THEN x[at] ELSE nil], sep |-> s, f |-> k0, e |-> Len(x)]>> :
     x \in Strings(Fields, 3), s \in {<<>>, <<"-">>}, k0 \in {0, 1, 2}}

------------------------------------------------------------------------------
(* Texts.                                                                     *)
SubCalls == {<<"texts", "sub", [s |-> [at \in 1 .. n |-> 10 * at], f |-> k, e |-> l]>> : n \in 0 .. 3, k, l \in -5 .. 5}
ReverseCalls == {<<"texts", "reverse", [s |-> [k \in 1 .. n |-> 10 * k]]>> : n \in 0 .. 4}
RepCalls == {<<"texts", "rep", [s |-> [k \in 1 .. n |-> k], sep |-> [k \in 1 .. m |-> 9], n |-> l]>> : n, m \in 0 .. 2, l \in -1 .. 7}
Codes == {0, 127, 128, 255, 256, 2047, 2048, 65535, 65536, MAXUNICODE}
CharCalls == {<<"texts", "char", [codes |-> x]>> : x \in Strings(Codes \cup {-1, MAXUNICODE + 1}, 2)}
EncodedTexts == {FlattenSeq([k \in DOMAIN x |-> Encoding(x[k])]) : x \in Strings(Codes, 2) \cup {<<65, 2048, 128, 65536>>}}
ByteTexts == Strings({65, 128, 143, 144, 159, 160, 191, 193, 194, 224, 237, 240, 244, 245, 252}, 3) \cup
             {<<a, b, c, 128>> : a \in {240, 244, 248}, b \in {128, 143, 144, 191}, c \in {65, 128, 191}}
Utf8Calls == {<<"texts", "utf8", [s |-> x]>> : x \in EncodedTexts \cup ByteTexts}
OffsetCalls == {<<"texts", "offset", [s |-> x, n |-> k]>> : x \in EncodedTexts, k \in {-3, -2, -1, 1, 2, 3, 4}}
WithinCalls == UNION {{<<"texts", "within", [s |-> x, f |-> k]>> : k \in 1 .. Len(x)} : x \in EncodedTexts}

CallInit ==
  \/ call \in PatternCalls \/ call \in AnyCalls \/ call \in NewsCalls \/ call \in PlainCalls
  \/ call \in IntCalls \/ call \in TextCalls \/ call \in PairCalls \/ call \in PaddedCalls
  \/ call \in ChunkCalls
  \/ call \in InsertCalls \/ call \in RemoveCalls \/ call \in MoveCalls
  \/ call \in UnpackCalls \/ call \in PackCalls \/ call \in ConcatCalls
  \/ call \in SubCalls \/ call \in ReverseCalls \/ call \in RepCalls \/ call \in CharCalls
  \/ call \in Utf8Calls \/ call \in OffsetCalls \/ call \in WithinCalls
==============================================================================
