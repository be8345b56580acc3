----------------------------- MODULE LuaValues -----------------------------
(* Values of Lua and the operations the code generator (constant folding) and *)
(* the virtual machine share: arithmetic, conversions, comparisons (lobject.c *)
(* and lvm.c).  A value is a tagged tuple.  Integers have NBITS bits and wrap *)
(* around.  A float is an exact rational in lowest terms, or one of the four  *)
(* floats that are none: no operation here rounds.  A table or a function is  *)
(* its address.  No value has metamethods: where the code would look for one, *)
(* the operation raises an error, written None.                               *)
EXTENDS Integers, Sequences, FiniteSets, TLC
LOCAL INSTANCE Bitwise

CONSTANTS NBITS      \* width of an integer

Nil == <<"nil">>
None == <<"none">>
Bool(b) == <<"bool", b>>
Str(s) == <<"str", s>>
Abs(n) == IF n < 0 THEN -n ELSE n

LUA_MININTEGER == -(2^(NBITS - 1))
LUA_MAXINTEGER == 2^(NBITS - 1) - 1
l_castS2U(n) == n % 2^NBITS
l_castU2S(u) == IF u > LUA_MAXINTEGER THEN u - 2^NBITS ELSE u
Integer(n) == <<"int", l_castU2S(n % 2^NBITS)>>
InRange(n) == n \in LUA_MININTEGER .. LUA_MAXINTEGER

RECURSIVE Euclid(_, _)
Euclid(a, b) == IF b = 0 THEN a ELSE Euclid(b, a % b)
Flt(p, q) ==
  LET d == Euclid(Abs(p), Abs(q))
      s == IF q < 0 THEN -1 ELSE 1
  IN <<"flt", s * (p \div d), s * (q \div d)>>
Inf == <<"flt", "inf">>
NegInf == <<"flt", "-inf">>
NaN == <<"flt", "nan">>
NegZero == <<"flt", "-0">>

ttisinteger(v) == v[1] = "int"
ttisfloat(v) == v[1] = "flt"
ttisnumber(v) == v[1] \in {"int", "flt"}
ttisstring(v) == v[1] = "str"
l_isfalse(v) == v = Nil \/ v = <<"bool", FALSE>>

------------------------------------------------------------------------------
(* Floats.                                                                    *)

Finite(f) == Len(f) = 3 \/ f = NegZero
P(f) == IF f = NegZero THEN 0 ELSE f[2]
Q(f) == IF f = NegZero THEN 1 ELSE f[3]
Signbit(f) == f \in {NegZero, NegInf} \/ (Len(f) = 3 /\ f[2] < 0)
Zero(neg) == IF neg THEN NegZero ELSE Flt(0, 1)
Infinity(neg) == IF neg THEN NegInf ELSE Inf

luai_numunm(a) ==
  CASE a = NaN -> NaN
    [] a \in {Inf, NegInf} -> Infinity(a = Inf)
    [] OTHER -> IF P(a) = 0 THEN Zero(~Signbit(a)) ELSE Flt(-P(a), Q(a))

luai_numadd(a, b) ==
  CASE NaN \in {a, b} \/ {a, b} = {Inf, NegInf} -> NaN
    [] Inf \in {a, b} -> Inf
    [] NegInf \in {a, b} -> NegInf
    [] a = NegZero /\ b = NegZero -> NegZero
    [] OTHER -> Flt(P(a) * Q(b) + P(b) * Q(a), Q(a) * Q(b))
luai_numsub(a, b) == luai_numadd(a, luai_numunm(b))

luai_nummul(a, b) ==
  LET neg == Signbit(a) # Signbit(b)
  IN CASE NaN \in {a, b} -> NaN
       [] ~Finite(a) \/ ~Finite(b) ->
            IF \E z \in {a, b} : Finite(z) /\ P(z) = 0 THEN NaN ELSE Infinity(neg)
       [] OTHER -> IF P(a) = 0 \/ P(b) = 0 THEN Zero(neg)
                   ELSE Flt(P(a) * P(b), Q(a) * Q(b))

luai_numdiv(a, b) ==
  LET neg == Signbit(a) # Signbit(b)
  IN CASE NaN \in {a, b} \/ (~Finite(a) /\ ~Finite(b)) -> NaN
       [] ~Finite(a) -> Infinity(neg)
       [] ~Finite(b) -> Zero(neg)
       [] P(b) = 0 -> IF P(a) = 0 THEN NaN ELSE Infinity(neg)
       [] OTHER -> IF P(a) = 0 THEN Zero(neg) ELSE Flt(P(a) * Q(b), Q(a) * P(b))

l_floor(f) == IF ~Finite(f) \/ P(f) = 0 THEN f
              ELSE IF P(f) \div Q(f) = 0 THEN Flt(0, 1) ELSE Flt(P(f) \div Q(f), 1)
luai_numidiv(a, b) == l_floor(luai_numdiv(a, b))

luai_numlt(a, b) ==
  CASE NaN \in {a, b} -> FALSE
    [] a = b -> FALSE
    [] a = NegInf \/ b = Inf -> TRUE
    [] a = Inf \/ b = NegInf -> FALSE
    [] OTHER -> P(a) * Q(b) < P(b) * Q(a)
luai_numeq(a, b) ==
  \/ a = b /\ a # NaN
  \/ Finite(a) /\ Finite(b) /\ P(a) = 0 /\ P(b) = 0
luai_numle(a, b) == luai_numlt(a, b) \/ luai_numeq(a, b)

(* The remainder truncates, then takes the sign of the divisor.               *)
C_fmod(a, b) ==
  CASE NaN \in {a, b} \/ ~Finite(a) -> NaN
    [] ~Finite(b) -> a
    [] P(b) = 0 -> NaN
    [] OTHER ->
         LET x == Abs(P(a)) * Q(b)
             y == Abs(P(b)) * Q(a)
             r == x % y
         IN IF r = 0 THEN Zero(Signbit(a))
            ELSE Flt(IF Signbit(a) THEN -r ELSE r, Q(a) * Q(b))
luai_nummod(a, b) ==
  LET m == C_fmod(a, b)
  IN IF luai_numlt(luai_nummul(m, b), Flt(0, 1)) THEN luai_numadd(m, b) ELSE m

(* Powers with an integral exponent, the only ones that stay rational.        *)
RECURSIVE luai_numpow(_, _)
luai_numpow(a, b) ==
  CASE P(b) = 0 -> Flt(1, 1)
    [] P(b) < 0 -> luai_numdiv(Flt(1, 1), luai_numpow(a, luai_numunm(b)))
    [] OTHER -> luai_nummul(a, luai_numpow(a, luai_numsub(b, Flt(1, 1))))

------------------------------------------------------------------------------
(* Conversions.  A string is a numeral if it is the text of an integer.       *)

cvt2num(s) == \E n \in LUA_MININTEGER .. LUA_MAXINTEGER : ToString(n) = s
luaO_str2num(s) ==
  Integer(CHOOSE n \in LUA_MININTEGER .. LUA_MAXINTEGER : ToString(n) = s)

(* The text of a float has a fraction; halves are all the model needs.        *)
luaO_tostring(v) ==
  CASE v[1] = "int" -> ToString(v[2])
    [] v = NegZero -> "-0.0"
    [] ~Finite(v) -> v[2]
    [] OTHER -> (IF v[2] < 0 THEN "-" ELSE "") \o ToString(Abs(v[2]) \div v[3])
                  \o (IF v[3] = 1 THEN ".0" ELSE IF v[3] = 2 THEN ".5" ELSE ".25")

tonumber(v) ==
  CASE ttisfloat(v) -> v
    [] ttisinteger(v) -> Flt(v[2], 1)
    [] ttisstring(v) -> IF cvt2num(v[2]) THEN Flt(luaO_str2num(v[2])[2], 1) ELSE None
    [] OTHER -> None

(* The mode: 0 accepts integral values only, 1 takes the floor, 2 the ceiling.*)
luaV_tointeger(v, mode) ==
  CASE ttisinteger(v) -> v
    [] ttisstring(v) -> IF cvt2num(v[2]) THEN luaO_str2num(v[2]) ELSE None
    [] ttisfloat(v) ->
         IF ~Finite(v) THEN None
         ELSE LET exact == P(v) % Q(v) = 0
                  f == P(v) \div Q(v) + (IF ~exact /\ mode > 1 THEN 1 ELSE 0)
              IN IF (mode = 0 /\ ~exact) \/ ~InRange(f) THEN None ELSE Integer(f)
    [] OTHER -> None

------------------------------------------------------------------------------
(* Integer arithmetic.  Division in C truncates.                              *)

CDiv(m, n) == (IF (m < 0) = (n < 0) THEN 1 ELSE -1) * (Abs(m) \div Abs(n))
CMod(m, n) == (IF m < 0 THEN -1 ELSE 1) * (Abs(m) % Abs(n))

luaV_div(m, n) ==
  CASE n = 0 -> None
    [] n = -1 -> Integer(-m)
    [] OTHER -> Integer(IF (m < 0) # (n < 0) /\ CMod(m, n) # 0
                    THEN CDiv(m, n) - 1 ELSE CDiv(m, n))
luaV_mod(m, n) ==
  CASE n = 0 -> None
    [] n = -1 -> Integer(0)
    [] OTHER -> Integer(IF CMod(m, n) # 0 /\ (m < 0) # (n < 0)
                    THEN CMod(m, n) + n ELSE CMod(m, n))

luaV_shiftl(x, y) ==
  CASE y <= -NBITS \/ y >= NBITS -> Integer(0)
    [] y < 0 -> Integer(l_castS2U(x) \div 2^(-y))
    [] OTHER -> Integer(l_castS2U(x) * 2^y)

intarith(op, m, n) ==
  CASE op = "ADD" -> Integer(m + n)
    [] op = "SUB" -> Integer(m - n)
    [] op = "MUL" -> Integer(m * n)
    [] op = "MOD" -> luaV_mod(m, n)
    [] op = "IDIV" -> luaV_div(m, n)
    [] op = "BAND" -> Integer(l_castS2U(m) & l_castS2U(n))
    [] op = "BOR" -> Integer(l_castS2U(m) | l_castS2U(n))
    [] op = "BXOR" -> Integer(l_castS2U(m) ^^ l_castS2U(n))
    [] op = "SHL" -> luaV_shiftl(m, n)
    [] op = "SHR" -> luaV_shiftl(m, -n)
    [] op = "UNM" -> Integer(-m)
    [] op = "BNOT" -> Integer(-1 - m)

numarith(op, a, b) ==
  CASE op = "ADD" -> luai_numadd(a, b)
    [] op = "SUB" -> luai_numsub(a, b)
    [] op = "MUL" -> luai_nummul(a, b)
    [] op = "DIV" -> luai_numdiv(a, b)
    [] op = "POW" -> luai_numpow(a, b)
    [] op = "IDIV" -> luai_numidiv(a, b)
    [] op = "UNM" -> luai_numunm(a)
    [] op = "MOD" -> luai_nummod(a, b)

BitOps == {"BAND", "BOR", "BXOR", "SHL", "SHR", "BNOT"}
luaO_arith(op, v1, v2) ==
  LET i1 == luaV_tointeger(v1, 0)
      i2 == luaV_tointeger(v2, 0)
      n1 == tonumber(v1)
      n2 == tonumber(v2)
  IN CASE op \in BitOps -> IF None \in {i1, i2} THEN None
                           ELSE intarith(op, i1[2], i2[2])
       [] op \notin BitOps \cup {"DIV", "POW"} /\ ttisinteger(v1) /\ ttisinteger(v2) ->
            intarith(op, v1[2], v2[2])
       [] OTHER -> IF None \in {n1, n2} THEN None ELSE numarith(op, n1, n2)

------------------------------------------------------------------------------
(* Comparisons: TRUE, FALSE, or an error where the values have no order.      *)

LTnum(l, r) ==
  IF ttisinteger(l) /\ ttisinteger(r) THEN l[2] < r[2]
  ELSE luai_numlt(tonumber(l), tonumber(r))
LEnum(l, r) ==
  IF ttisinteger(l) /\ ttisinteger(r) THEN l[2] <= r[2]
  ELSE luai_numle(tonumber(l), tonumber(r))

(* Strings in the order of the locale.                                        *)
Collation == <<"", "1", "2", "a", "b", "ab", "x", "y">>
l_strcmp(l, r) ==
  (CHOOSE i \in DOMAIN Collation : Collation[i] = l)
    - (CHOOSE i \in DOMAIN Collation : Collation[i] = r)

luaV_lessthan(l, r) ==
  CASE ttisnumber(l) /\ ttisnumber(r) -> Bool(LTnum(l, r))
    [] ttisstring(l) /\ ttisstring(r) -> Bool(l_strcmp(l[2], r[2]) < 0)
    [] OTHER -> None
luaV_lessequal(l, r) ==
  CASE ttisnumber(l) /\ ttisnumber(r) -> Bool(LEnum(l, r))
    [] ttisstring(l) /\ ttisstring(r) -> Bool(l_strcmp(l[2], r[2]) <= 0)
    [] OTHER -> None

luaV_equalobj(t1, t2) ==
  CASE t1[1] # t2[1] ->
         /\ ttisnumber(t1) /\ ttisnumber(t2)
         /\ luaV_tointeger(t1, 0) # None
         /\ luaV_tointeger(t1, 0) = luaV_tointeger(t2, 0)
    [] ttisfloat(t1) -> luai_numeq(t1, t2)
    [] OTHER -> t1 = t2

(* Concatenation runs from the right, two or more operands at a time.         *)
cvt2str(v) == ttisstring(v) \/ ttisnumber(v)
tostring(v) == IF ttisstring(v) THEN v[2] ELSE luaO_tostring(v)
luaV_concat(vals) ==
  LET total == Len(vals)
      c[n \in 1 .. total] ==
        IF n = 1 THEN vals[total]
        ELSE LET acc == c[n - 1]
                 v == vals[total - n + 1]
             IN IF acc = None \/ ~cvt2str(v) \/ ~cvt2str(acc) THEN None
                ELSE Str(tostring(v) \o tostring(acc))
  IN c[total]

(* Bounds of a loop that runs on integers: a limit that is a float is clipped *)
(* to an integer; a limit out of reach on the wrong side stops the loop.      *)
forlimit(v, step) ==
  LET i == luaV_tointeger(v, IF step < 0 THEN 2 ELSE 1)
      n == tonumber(v)
  IN CASE i # None -> [p |-> i, stopnow |-> FALSE]
       [] n = None -> [p |-> None, stopnow |-> FALSE]
       [] luai_numlt(Flt(0, 1), n) -> [p |-> Integer(LUA_MAXINTEGER), stopnow |-> step < 0]
       [] OTHER -> [p |-> Integer(LUA_MININTEGER), stopnow |-> step >= 0]
==============================================================================
