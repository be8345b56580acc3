------------------------------- MODULE LuaDump -------------------------------
(* Precompiled chunks (ldump.c, lundump.c).  A chunk is a sequence of bytes,  *)
(* numbers below BYTE; an int, a size and a number take several.  A prototype *)
(* is a record with the fields of Proto; a string is a sequence of bytes, the *)
(* missing string is NoString.  An instruction is an int.                     *)
EXTENDS Integers, Sequences
LOCAL INSTANCE SequencesExt

CONSTANTS BYTE,             \* number of values of a byte
          sizeofint,        \* bytes of an int (an instruction, a size_t)
          sizeofnumber,     \* bytes of an integer or a float
          LUAI_MAXSHORTLEN

NoString == <<"NULL">>
LUA_TNIL == 0
LUA_TBOOLEAN == 1
LUA_TNUMINT == 3
LUA_TNUMFLT == 19
LUA_TSHRSTR == 4
LUA_TLNGSTR == 20
LONG == BYTE - 1            \* 0xFF: the size of the string follows

(* The bytes of a number, lowest first.                                       *)
Bytes(v, n) == [i \in 1 .. n |-> (v \div BYTE^(i - 1)) % BYTE]
NumberIn(b) == FoldRight(LAMBDA byte, v : v * BYTE + byte, b, 0)

------------------------------------------------------------------------------
(* Writing.                                                                   *)

DumpInt(x) == Bytes(x, sizeofint)
DumpInteger(x) == Bytes(x, sizeofnumber)
DumpString(s) ==
  IF s = NoString THEN <<0>>
  ELSE (IF Len(s[2]) + 1 < LONG THEN <<Len(s[2]) + 1>> ELSE <<LONG>> \o DumpInt(Len(s[2]) + 1)) \o s[2]

(* A vector: its size, then its elements.                                     *)
DumpVector(v, Dump(_)) == DumpInt(Len(v)) \o FlattenSeq([i \in DOMAIN v |-> Dump(v[i])])

DumpConstant(k) ==
  <<k.tt>> \o CASE k.tt = LUA_TNIL -> <<>>
                [] k.tt = LUA_TBOOLEAN -> <<k.v>>
                [] k.tt \in {LUA_TNUMINT, LUA_TNUMFLT} -> DumpInteger(k.v)
                [] k.tt \in {LUA_TSHRSTR, LUA_TLNGSTR} -> DumpString(k.v)
DumpUpvalue(u) == <<u.instack, u.idx>>
DumpLocvar(l) == DumpString(l.varname) \o DumpInt(l.startpc) \o DumpInt(l.endpc)
UpvalueName(u) == DumpString(u.name)

DumpDebug(f, strip) ==
  LET kept(v) == IF strip THEN <<>> ELSE v
  IN DumpVector(kept(f.lineinfo), DumpInt) \o DumpVector(kept(f.locvars), DumpLocvar)
       \o DumpVector(kept(f.upvalues), UpvalueName)

(* A function does not repeat the source of the function around it.           *)
RECURSIVE DumpFunction(_, _, _)
DumpFunction(f, psource, strip) ==
  LET inner(p) == DumpFunction(p, f.source, strip)
  IN DumpString(IF strip \/ f.source = psource THEN NoString ELSE f.source)
       \o DumpInt(f.linedefined) \o DumpInt(f.lastlinedefined)
       \o <<f.numparams, f.is_vararg, f.maxstacksize>>
       \o DumpVector(f.code, DumpInt) \o DumpVector(f.k, DumpConstant)
       \o DumpVector(f.upvalues, DumpUpvalue) \o DumpVector(f.p, inner) \o DumpDebug(f, strip)

(* The signature and other literals, the version, the format and the sizes of *)
(* the types, and two numbers that show how numbers are written.              *)
Header == [signature |-> <<27, 12>>, version |-> 5, format |-> 0, data |-> <<25, 13, 10>>,
           sizes |-> <<sizeofint, sizeofint, sizeofint, sizeofnumber, sizeofnumber>>,
           LUAC_INT |-> 3 * BYTE + 7, LUAC_NUM |-> 5 * BYTE + 2]
DumpHeader ==
  Header.signature \o <<Header.version, Header.format>> \o Header.data
    \o Header.sizes \o DumpInteger(Header.LUAC_INT) \o DumpInteger(Header.LUAC_NUM)

luaU_dump(f, strip) == DumpHeader \o <<Len(f.upvalues)>> \o DumpFunction(f, NoString, strip)

------------------------------------------------------------------------------
(* Reading.  A read takes bytes from the state S (z: what is left, err: the   *)
(* first error, source: of the function around) and returns [S, v]; after an  *)
(* error nothing more is read.                                                *)
Got(S, v) == [S |-> S, v |-> v]
error(S, why) == IF S.err = "" THEN [S EXCEPT !.err = why, !.z = <<>>] ELSE S

LoadBlock(S, n) ==
  IF S.err = "" /\ n <= Len(S.z)
  THEN Got([S EXCEPT !.z = SubSeq(S.z, n + 1, Len(S.z))], SubSeq(S.z, 1, n))
  ELSE Got(error(S, "truncated"), [i \in 1 .. n |-> 0])
As(x, v(_)) == Got(x.S, v(x.v))
LoadByte(S) == As(LoadBlock(S, 1), Head)
LoadInt(S) == As(LoadBlock(S, sizeofint), NumberIn)
LoadInteger(S) == As(LoadBlock(S, sizeofnumber), NumberIn)

Sized(size) ==
  IF size.v = 0 THEN Got(size.S, NoString)
  ELSE As(LoadBlock(size.S, size.v - 1), LAMBDA str : <<"string", str>>)
LoadString(S) ==
  LET size(b) == IF b.v = LONG THEN LoadInt(b.S) ELSE b
  IN Sized(size(LoadByte(S)))

(* Load(S, kind) reads one thing; Items several, one after the other; the     *)
(* kind <<"vector", kind>> is a size and as many things.                      *)
RECURSIVE Load(_, _)
Added(x, v) == Got(x.S, Append(v, x.v))
Items(S, kinds) == FoldLeft(LAMBDA r, kind : Added(Load(r.S, kind), r.v), Got(S, <<>>), kinds)
RECURSIVE LoadN(_, _, _)
LoadN(r, n, kind) == IF n = 0 \/ r.S.err # "" THEN r ELSE LoadN(Added(Load(r.S, kind), r.v), n - 1, kind)
LoadVector(n, kind) == LoadN(Got(n.S, <<>>), n.v, kind)
int == <<"int">>
byte == <<"byte">>
string == <<"string">>
vector(kind) == <<"vector", kind>>

(* A string constant is short or long by its length, whatever its tag says.   *)
Constant(tt, x) ==
  LET short == x.v # NoString /\ Len(x.v[2]) <= LUAI_MAXSHORTLEN
  IN Got(x.S, [tt |-> IF tt \notin {LUA_TSHRSTR, LUA_TLNGSTR} THEN tt
                      ELSE IF short THEN LUA_TSHRSTR ELSE LUA_TLNGSTR, v |-> x.v])
LoadConstant(t) ==
  Constant(t.v, CASE t.v = LUA_TNIL -> Got(t.S, 0)
                  [] t.v = LUA_TBOOLEAN -> LoadByte(t.S)
                  [] t.v \in {LUA_TNUMINT, LUA_TNUMFLT} -> LoadInteger(t.S)
                  [] OTHER -> LoadString(t.S))
LoadUpvalue(S) ==
  As(Items(S, <<byte, byte>>), LAMBDA v : [instack |-> v[1], idx |-> v[2], name |-> NoString])
LoadLocvar(S) ==
  As(Items(S, <<string, int, int>>), LAMBDA v : [varname |-> v[1], startpc |-> v[2], endpc |-> v[3]])

(* The names of the upvalues come with the debug information.                 *)
Named(upvalues, names) ==
  [i \in DOMAIN upvalues |-> IF i \in DOMAIN names THEN [upvalues[i] EXCEPT !.name = names[i]] ELSE upvalues[i]]
Function(source, v) ==
  [source |-> source, linedefined |-> v[1], lastlinedefined |-> v[2],
   numparams |-> v[3], is_vararg |-> v[4], maxstacksize |-> v[5],
   code |-> v[6], k |-> v[7], upvalues |-> Named(v[8], v[12]), p |-> v[9], lineinfo |-> v[10], locvars |-> v[11]]
LoadRest(S, source, psource) ==
  LET function(r) == Got([r.S EXCEPT !.source = psource],
                         IF r.S.err = "" THEN Function(source, r.v) ELSE r.v)
  IN function(Items([S EXCEPT !.source = source],
       <<int, int, byte, byte, byte, vector(int), vector(<<"constant">>), vector(<<"upvalue">>),
         vector(<<"function">>), vector(int), vector(<<"locvar">>), vector(string)>>))
LoadFunction(own, psource) == LoadRest(own.S, IF own.v = NoString THEN psource ELSE own.v, psource)

Load(S, kind) ==
  CASE kind = int -> LoadInt(S)
    [] kind = byte -> LoadByte(S)
    [] kind = string -> LoadString(S)
    [] kind = <<"constant">> -> LoadConstant(LoadByte(S))
    [] kind = <<"upvalue">> -> LoadUpvalue(S)
    [] kind = <<"locvar">> -> LoadLocvar(S)
    [] kind = <<"function">> -> LoadFunction(LoadString(S), S.source)
    [] OTHER -> LoadVector(LoadInt(S), kind[2])

(* One item of the header, against what it should be.                         *)
Check(S, n, expected, msg) ==
  LET checked(b) == IF b.v = expected THEN b.S ELSE error(b.S, msg)
  IN checked(LoadBlock(S, n))
checksize(S, n) == Check(S, 1, <<n>>, "size mismatch in")
checkHeader(S) ==
  LET signature == Check(S, Len(Header.signature) - 1, Tail(Header.signature), "not a")
      version == Check(signature, 1, <<Header.version>>, "version mismatch in")
      format == Check(version, 1, <<Header.format>>, "format mismatch in")
      data == Check(format, Len(Header.data), Header.data, "corrupted")
      sizes == FoldLeft(checksize, data, Header.sizes)
      endian == Check(sizes, sizeofnumber, DumpInteger(Header.LUAC_INT), "endianness mismatch in")
  IN Check(endian, sizeofnumber, DumpInteger(Header.LUAC_NUM), "float format mismatch in")

(* The closure has as many upvalues as the byte before the function says.     *)
luaU_undump(z) ==
  LET S == checkHeader([z |-> z, err |-> "", source |-> NoString])
      chunk(r) == IF r.S.err # "" THEN [err |-> r.S.err] ELSE [err |-> "", nupvalues |-> r.v[1], p |-> r.v[2]]
  IN chunk(Items(S, <<byte, <<"function">>>>))

(* The first byte tells a chunk from a text.                                  *)
f_parser(chunk) ==
  IF chunk # <<>> /\ Head(chunk) = Head(Header.signature) THEN luaU_undump(Tail(chunk)) ELSE [err |-> "text"]
==============================================================================
