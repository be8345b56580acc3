----------------------------- MODULE LuaMeaning -----------------------------
(* What a program means, after the reference manual: an evaluator of syntax   *)
(* trees with environments of variables, written without registers, jumps or  *)
(* upvalue indices, and a printer of trees as tokens that adds parentheses by *)
(* the manual's table of precedences.  The compiler and the virtual machine   *)
(* are compared with it.                                                      *)
EXTENDS LuaValues

(* Expressions.  Names of externals and of fields are strings.                *)
num(n) == <<"num", Integer(n)>>
flt(p, q) == <<"num", Flt(p, q)>>
str(s) == <<"lit", Str(s)>>
true == <<"lit", Bool(TRUE)>>
false == <<"lit", Bool(FALSE)>>
nil == <<"lit", Nil>>
dots == <<"...">>
name(n) == <<"name", n>>
index(t, k) == <<"index", t, k>>
call(f, args) == <<"call", f, args>>
method(o, m, args) == <<"method", o, m, args>>
paren(e) == <<"paren", e>>
un(op, e) == <<"un", op, e>>
bin(op, a, b) == <<"bin", op, a, b>>
func(params, isvar, b) == <<"func", params, isvar, b>>
table(fields) == <<"table", fields>>
item(e) == <<"item", e>>
pair(k, e) == <<"pair", k, e>>

(* Statements.                                                                *)
local(names, es) == <<"local", names, es>>
assign(targets, es) == <<"assign", targets, es>>
do(b) == <<"do", b>>
while(c, b) == <<"while", c, b>>
repeat(b, c) == <<"repeat", b, c>>
if(branches, else) == <<"if", branches, else>>
numericfor(n, es, b) == <<"fornum", n, es, b>>
forin(names, es, b) == <<"forin", names, es, b>>
localfunction(n, f) == <<"localfunction", n, f>>
function(n, f) == <<"function", n, f>>
return(es) == <<"return", es>>
break == <<"break">>
goto(l) == <<"goto", l>>
label(l) == <<"label", l>>

------------------------------------------------------------------------------
(* Printing.                                                                  *)

(* The manual's precedences, lowest first.                                    *)
Precedence ==
  << {"or"}, {"and"}, {"<", ">", "<=", ">=", "~=", "=="}, {"|"}, {"~"}, {"&"}, {"<<", ">>"},
     {".."}, {"+", "-"}, {"*", "/", "//", "%"}, {"unary"}, {"^"} >>
LevelOf(op) == CHOOSE l \in DOMAIN Precedence : op \in Precedence[l]
Unary == LevelOf("unary")
Level(e) == CASE e[1] = "bin" -> LevelOf(e[2]) [] e[1] = "un" -> Unary [] OTHER -> Unary + 2
RightAssociative == {"..", "^"}

T(s) == <<<<s>>>>
N(s) == <<<<"NAME", s>>>>
Paren(b, toks) == IF b THEN T("(") \o toks \o T(")") ELSE toks

RECURSIVE PrintE(_), PrintS(_), Block(_)
Listed(ps) ==
  LET l[n \in 0 .. Len(ps)] ==
        IF n = 0 THEN <<>> ELSE LET r == l[n - 1] IN IF n = 1 THEN ps[1] ELSE r \o T(",") \o ps[n]
  IN l[Len(ps)]
PrintEs(es) == Listed([i \in DOMAIN es |-> PrintE(es[i])])
Names(ns) == Listed([i \in DOMAIN ns |-> N(ns[i])])
Body(f) ==
  T("(") \o Names(f[2]) \o (IF f[3] THEN (IF f[2] = <<>> THEN <<>> ELSE T(",")) \o T("...") ELSE <<>>)
    \o T(")") \o Block(f[4]) \o T("end")
Field(f) == IF f[1] = "item" THEN PrintE(f[2])
            ELSE T("[") \o PrintE(f[2]) \o T("]") \o T("=") \o PrintE(f[3])
Prefix(e) == Paren(e[1] \notin {"name", "index", "call", "method", "paren"}, PrintE(e))
PrintE(e) ==
  CASE e[1] = "num" -> <<<<IF ttisinteger(e[2]) THEN "INT" ELSE "FLT", e[2]>>>>
    [] e[1] = "lit" /\ e[2][1] = "str" -> <<<<"STRING", e[2][2]>>>>
    [] e[1] = "lit" /\ e[2][1] # "str" ->
         T(CASE e[2] = Nil -> "nil" [] e[2] = Bool(TRUE) -> "true" [] OTHER -> "false")
    [] e[1] = "..." -> T("...")
    [] e[1] = "name" -> N(e[2])
    [] e[1] = "index" -> Prefix(e[2]) \o T("[") \o PrintE(e[3]) \o T("]")
    [] e[1] = "call" -> Prefix(e[2]) \o T("(") \o PrintEs(e[3]) \o T(")")
    [] e[1] = "method" -> Prefix(e[2]) \o T(":") \o N(e[3]) \o T("(") \o PrintEs(e[4]) \o T(")")
    [] e[1] = "paren" -> Paren(TRUE, PrintE(e[2]))
    [] e[1] = "un" -> T(e[2]) \o Paren(Level(e[3]) < Unary, PrintE(e[3]))
    [] e[1] = "bin" ->
         LET l == LevelOf(e[2])
             r == e[2] \in RightAssociative
         IN Paren(Level(e[3]) < l \/ (Level(e[3]) = l /\ r), PrintE(e[3])) \o T(e[2])
            \o Paren(e[4][1] # "un" /\ (Level(e[4]) < l \/ (Level(e[4]) = l /\ ~r)), PrintE(e[4]))
    [] e[1] = "func" -> T("function") \o Body(e)
    [] e[1] = "table" -> T("{") \o Listed([i \in DOMAIN e[2] |-> Field(e[2][i])]) \o T("}")

Branch(i, b) == T(IF i = 1 THEN "if" ELSE "elseif") \o PrintE(b[1]) \o T("then") \o Block(b[2])
PrintS(s) ==
  CASE s[1] = "local" -> T("local") \o Names(s[2])
                           \o (IF s[3] = <<>> THEN <<>> ELSE T("=") \o PrintEs(s[3]))
    [] s[1] = "assign" -> PrintEs(s[2]) \o T("=") \o PrintEs(s[3])
    [] s[1] \in {"call", "method"} -> PrintE(s)
    [] s[1] = "do" -> T("do") \o Block(s[2]) \o T("end")
    [] s[1] = "while" -> T("while") \o PrintE(s[2]) \o T("do") \o Block(s[3]) \o T("end")
    [] s[1] = "repeat" -> T("repeat") \o Block(s[2]) \o T("until") \o PrintE(s[3])
    [] s[1] = "if" ->
         LET b[n \in 0 .. Len(s[2])] ==
               IF n = 0 THEN <<>> ELSE LET r == b[n - 1] IN r \o Branch(n, s[2][n])
         IN b[Len(s[2])] \o (IF s[3] = <<>> THEN <<>> ELSE T("else") \o Block(s[3])) \o T("end")
    [] s[1] = "fornum" -> T("for") \o N(s[2]) \o T("=") \o PrintEs(s[3]) \o T("do")
                            \o Block(s[4]) \o T("end")
    [] s[1] = "forin" -> T("for") \o Names(s[2]) \o T("in") \o PrintEs(s[3]) \o T("do")
                            \o Block(s[4]) \o T("end")
    [] s[1] = "localfunction" -> T("local") \o T("function") \o N(s[2]) \o Body(s[3])
    [] s[1] = "function" -> T("function") \o N(s[2]) \o Body(s[3])
    [] s[1] = "return" -> T("return") \o PrintEs(s[2])
    [] s[1] = "break" -> T("break")
    [] s[1] = "goto" -> T("goto") \o N(s[2])
    [] s[1] = "label" -> T("::") \o N(s[2]) \o T("::")
(* A semicolon between statements keeps a parenthesis from calling the        *)
(* statement before it.                                                       *)
Block(b) ==
  LET p[n \in 0 .. Len(b)] ==
        IF n = 0 THEN <<>>
        ELSE LET r == p[n - 1]
                 s == PrintS(b[n])
             IN r \o (IF s[1] = <<"(">> THEN T(";") ELSE <<>>) \o s
  IN p[Len(b)]
Tokens(program) == Block(program)

------------------------------------------------------------------------------
(* Operations, as the manual defines them.                                    *)

FloorDiv(m, n) == IF n > 0 THEN m \div n ELSE (-m) \div (-n)
Shifted(u, y) ==  \* logical shift to the left, or to the right if y is negative
  IF y >= 0 THEN (u * 2^(IF y > NBITS THEN NBITS ELSE y)) % 2^NBITS
  ELSE u \div 2^(IF -y > NBITS THEN NBITS ELSE -y)
Bit(u, i) == (u \div 2^i) % 2
Bits(u, v, B(_, _)) ==
  LET s[i \in 0 .. NBITS] == IF i = 0 THEN 0 ELSE s[i - 1] + B(Bit(u, i - 1), Bit(v, i - 1)) * 2^(i - 1)
  IN Integer(s[NBITS])
Both(a, b) == a * b
Either(a, b) == IF a + b > 0 THEN 1 ELSE 0
Differ(a, b) == (a + b) % 2

(* A string that is a numeral is converted.  Integer operations wrap around.  *)
Number(v) == IF ttisstring(v) /\ cvt2num(v[2]) THEN luaO_str2num(v[2]) ELSE v
Float(v) == IF ttisinteger(v) THEN Flt(v[2], 1) ELSE v
FloatArith(op, a, b) ==
  CASE op = "+" -> luai_numadd(a, b) [] op = "-" -> luai_numsub(a, b)
    [] op = "*" -> luai_nummul(a, b) [] op = "/" -> luai_numdiv(a, b)
    [] op = "^" -> luai_numpow(a, b) [] op = "//" -> l_floor(luai_numdiv(a, b))
    [] op = "%" -> luai_nummod(a, b)
IntArith(op, m, n) ==
  CASE op = "+" -> Integer(m + n) [] op = "-" -> Integer(m - n) [] op = "*" -> Integer(m * n)
    [] op = "//" -> IF n = 0 THEN None ELSE Integer(FloorDiv(m, n))
    [] op = "%" -> IF n = 0 THEN None ELSE Integer(m - FloorDiv(m, n) * n)
BitArith(op, m, n) ==
  LET u == m % 2^NBITS
      v == n % 2^NBITS
  IN CASE op = "&" -> Bits(u, v, Both) [] op = "|" -> Bits(u, v, Either)
       [] op = "~" -> Bits(u, v, Differ)
       [] op = "<<" -> Integer(Shifted(u, n)) [] op = ">>" -> Integer(Shifted(u, -n))

(* Numbers compare by their mathematical values.                              *)
Less(a, b) == luai_numlt(Float(a), Float(b))
Same(a, b) ==
  IF ttisnumber(a) /\ ttisnumber(b) THEN luai_numeq(Float(a), Float(b))
  ELSE a = b
Ordered(op, a, b) ==
  CASE ttisnumber(a) /\ ttisnumber(b) ->
         Bool(IF op = "<" THEN Less(a, b) ELSE Less(a, b) \/ Same(a, b))
    [] ttisstring(a) /\ ttisstring(b) ->
         Bool(IF op = "<" THEN l_strcmp(a[2], b[2]) < 0 ELSE l_strcmp(a[2], b[2]) <= 0)
    [] OTHER -> None

BinOp(op, a, b) ==
  LET x == Number(a)
      y == Number(b)
      i == luaV_tointeger(x, 0)
      j == luaV_tointeger(y, 0)
  IN CASE op \in {"+", "-", "*", "//", "%"} /\ ttisinteger(a) /\ ttisinteger(b) ->
            IntArith(op, a[2], b[2])
       [] op \in {"+", "-", "*", "//", "%", "/", "^"} /\ ~(ttisinteger(a) /\ ttisinteger(b) /\ op \notin {"/", "^"}) ->
            IF ttisnumber(x) /\ ttisnumber(y) THEN FloatArith(op, Float(x), Float(y)) ELSE None
       [] op \in {"&", "|", "~", "<<", ">>"} ->
            IF None \in {i, j} THEN None ELSE BitArith(op, i[2], j[2])
       [] op = ".." -> IF \A v \in {a, b} : ttisstring(v) \/ ttisnumber(v)
                       THEN Str(tostring(a) \o tostring(b)) ELSE None
       [] op = "==" -> Bool(Same(a, b))
       [] op = "~=" -> Bool(~Same(a, b))
       [] op \in {"<", "<="} -> Ordered(op, a, b)
       [] op = ">" -> Ordered("<", b, a)
       [] op = ">=" -> Ordered("<=", b, a)

------------------------------------------------------------------------------
(* Evaluation.  The store: calls of externals, tables, variables, closures.   *)
(* An evaluation gives the store, the values, and whether an error stopped it.*)

V(st, vs) == [st |-> st, vs |-> vs, err |-> FALSE]
Err(st) == [st |-> st, vs |-> <<Nil>>, err |-> TRUE]
ValueOr(st, v) == IF v = None THEN Err(st) ELSE V(st, <<v>>)
First(vs) == IF vs = <<>> THEN Nil ELSE vs[1]
Truth(v) == v \notin {Nil, Bool(FALSE)}
KeyOf(k) == IF ttisfloat(k) /\ luaV_tointeger(k, 0) # None THEN luaV_tointeger(k, 0) ELSE k
Lookup(st, t, k) ==
  IF t[1] # "tab" THEN None
  ELSE IF KeyOf(k) \in DOMAIN st.tabs[t[2]] THEN st.tabs[t[2]][KeyOf(k)] ELSE Nil
Update(st, t, k, v) ==
  LET others == [x \in DOMAIN st.tabs[t[2]] \ {KeyOf(k)} |-> st.tabs[t[2]][x]]
  IN IF t[1] # "tab" \/ k \in {Nil, NaN} THEN Err(st)
     ELSE V([st EXCEPT !.tabs[t[2]] = IF v = Nil THEN others ELSE (KeyOf(k) :> v) @@ others], <<>>)
Border(h) == CHOOSE n \in 0 .. Cardinality(DOMAIN h) :
               (\A i \in 1 .. n : Integer(i) \in DOMAIN h) /\ Integer(n + 1) \notin DOMAIN h
Visible(v) == IF v[1] \in {"tab", "fn", "cfn"} THEN <<v[1]>> ELSE v
Nth(vs, i) == IF i <= Len(vs) THEN vs[i] ELSE Nil
Adjusted(vs, n) == [i \in 1 .. n |-> Nth(vs, i)]

(* New variables with some values.                                            *)
Declare(st, env, names, vs) ==
  [st |-> [st EXCEPT !.cells = @ \o Adjusted(vs, Len(names))],
   env |-> [x \in DOMAIN env \cup {names[i] : i \in DOMAIN names} |->
              IF \E i \in DOMAIN names : names[i] = x
              THEN Len(st.cells) + (CHOOSE i \in DOMAIN names :
                     names[i] = x /\ \A j \in DOMAIN names : names[j] = x => j <= i)
              ELSE env[x]]]

External(n, args) ==
  CASE n = "f" -> args
    [] n = "g" -> <<>>
    [] n = "it" -> CASE Nth(args, 2) = Nil -> <<Integer(1), Nth(args, 1)>>
                     [] Nth(args, 2) # Nil /\ Less(Nth(args, 2), Nth(args, 1)) ->
                          <<Integer(Nth(args, 2)[2] + 1), Nth(args, 1)>>
                     [] OTHER -> <<Nil>>

(* The evaluators of phrases call one another by Do(f, args).                 *)
RECURSIVE Do(_, _), Leaves(_), Escapes(_, _)

Apply(st, fv, args) ==
  LET c == st.clos[fv[2]]
      d == Declare(st, c.env, c.params, args)
      extra == IF c.isvar THEN SubSeq(args, Len(c.params) + 1, Len(args)) ELSE <<>>
      r == Do("Exec", <<d.st, [d.env EXCEPT !["..."] = extra], c.body, 1, <<>>>>)
  IN CASE fv[1] = "cfn" ->
            V([st EXCEPT !.trace = Append(@, <<fv[2]>> \o [i \in DOMAIN args |-> Visible(args[i])])],
              External(fv[2], args))
       [] fv[1] = "fn" -> CASE r.out[1] = "error" -> Err(r.st)
                            [] r.out[1] = "return" -> V(r.st, r.out[2])
                            [] OTHER -> V(r.st, <<>>)
       [] OTHER -> Err(st)

Multi(e) == e[1] \in {"call", "method", "..."}
(* A list of expressions: only the last keeps all its values.                 *)
EvalList(st, env, es, i) ==
  LET r == Do("Eval", <<st, env, es[i]>>)
      own == IF i = Len(es) /\ Multi(es[i]) THEN r.vs ELSE <<First(r.vs)>>
      rest == Do("EvalList", <<r.st, env, es, i + 1>>)
  IN IF i > Len(es) THEN V(st, <<>>)
     ELSE IF r.err THEN r
     ELSE IF rest.err THEN rest ELSE V(rest.st, own \o rest.vs)

(* The fields of a table, in order; n items came before.                      *)
Fill(st, env, t, fs, n) ==
  LET f == fs[1]
      k == Do("Eval", <<st, env, f[2]>>)
      v == Do("Eval", <<k.st, env, f[3]>>)
      w == Update(v.st, t, First(k.vs), First(v.vs))
      all == IF Len(fs) = 1 /\ Multi(f[2]) THEN k.vs ELSE <<First(k.vs)>>
      put[i \in 0 .. Len(all)] ==
        IF i = 0 THEN k.st ELSE LET p == put[i - 1] IN Update(p, t, Integer(n + i), all[i]).st
  IN CASE fs = <<>> -> V(st, <<t>>)
       [] fs # <<>> /\ f[1] = "item" ->
            IF k.err THEN k ELSE Do("Fill", <<put[Len(all)], env, t, Tail(fs), n + 1>>)
       [] OTHER -> IF k.err THEN k ELSE IF v.err THEN v ELSE IF w.err THEN w
                   ELSE Do("Fill", <<w.st, env, t, Tail(fs), n>>)

Eval(st, env, e) ==
  CASE e[1] \in {"num", "lit"} -> V(st, <<e[2]>>)
    [] e[1] = "..." -> V(st, env["..."])
    [] e[1] = "name" ->
         V(st, <<IF e[2] \in DOMAIN env THEN st.cells[env[e[2]]]
                 ELSE Lookup(st, <<"tab", 1>>, Str(e[2]))>>)
    [] e[1] = "paren" -> LET r == Do("Eval", <<st, env, e[2]>>) IN IF r.err THEN r ELSE V(r.st, <<First(r.vs)>>)
    [] e[1] = "func" ->
         V([st EXCEPT !.clos = Append(@, [params |-> e[2], isvar |-> e[3], body |-> e[4], env |-> env])],
           <<<<"fn", Len(st.clos) + 1>>>>)
    [] e[1] = "index" ->
         LET r == Do("EvalList", <<st, env, <<paren(e[2]), paren(e[3])>>, 1>>)
         IN IF r.err THEN r ELSE ValueOr(r.st, Lookup(r.st, r.vs[1], r.vs[2]))
    [] e[1] = "call" ->
         LET r == Do("EvalList", <<st, env, <<paren(e[2])>> \o e[3], 1>>)
         IN IF r.err THEN r ELSE Do("Apply", <<r.st, r.vs[1], Tail(r.vs)>>)
    [] e[1] = "method" ->
         LET o == Do("Eval", <<st, env, e[2]>>)
             m == Lookup(o.st, First(o.vs), Str(e[3]))
             r == Do("EvalList", <<o.st, env, e[4], 1>>)
         IN IF o.err THEN o ELSE IF m = None THEN Err(o.st)
            ELSE IF r.err THEN r ELSE Do("Apply", <<r.st, m, <<First(o.vs)>> \o r.vs>>)
    [] e[1] = "un" ->
         LET r == Do("Eval", <<st, env, e[3]>>)
             v == First(r.vs)
         IN IF r.err THEN r
            ELSE ValueOr(r.st, CASE e[2] = "not" -> Bool(~Truth(v))
                                 [] e[2] = "-" -> IF ttisinteger(v) THEN BinOp("-", Integer(0), v)
                                                  ELSE LET x == Number(v)
                                                       IN IF ttisnumber(x) THEN luai_numunm(Float(x)) ELSE None
                                 [] e[2] = "~" -> BinOp("~", Integer(-1), v)
                                 [] e[2] = "#" -> CASE ttisstring(v) -> Integer(Len(v[2]))
                                                    [] v[1] = "tab" -> Integer(Border(r.st.tabs[v[2]]))
                                                    [] OTHER -> None)
    [] e[1] = "bin" /\ e[2] \in {"and", "or"} ->
         LET a == Do("Eval", <<st, env, e[3]>>)
             b == Do("Eval", <<a.st, env, e[4]>>)
         IN IF a.err THEN a
            ELSE IF Truth(First(a.vs)) = (e[2] = "or") THEN V(a.st, <<First(a.vs)>>)
            ELSE IF b.err THEN b ELSE V(b.st, <<First(b.vs)>>)
    [] e[1] = "bin" /\ e[2] \notin {"and", "or"} ->
         LET r == Do("EvalList", <<st, env, <<paren(e[3]), paren(e[4])>>, 1>>)
         IN IF r.err THEN r ELSE ValueOr(r.st, BinOp(e[2], r.vs[1], r.vs[2]))
    [] e[1] = "table" ->
         Do("Fill", <<[st EXCEPT !.tabs = Append(@, <<>>)], env, <<"tab", Len(st.tabs) + 1>>, e[2], 0>>)

------------------------------------------------------------------------------
(* Statements give the store, the environment after them, and how they end.   *)

Out(st, env, out) == [st |-> st, env |-> env, out |-> out]
Next_(st, env) == Out(st, env, <<"next">>)
Failed(r, env) == Out(r.st, env, <<"error">>)

(* A block from a statement on; "seen" has the environments of labels passed. *)
(* A goto goes on at a label of this block if there is one, with the variables*)
(* that label sees.                                                           *)
Exec(st, env, b, i, seen) ==
  LET s == b[i]
      r == Do("ExecS", <<st, env, s>>)
      here == {j \in DOMAIN b : b[j] = label(r.out[2])}
      j == CHOOSE j \in here : TRUE
  IN CASE i > Len(b) -> Out(st, env, <<"next">>)
       [] i <= Len(b) /\ s[1] = "label" -> Do("Exec", <<st, env, b, i + 1, (s[2] :> env) @@ seen>>)
       [] OTHER ->
            CASE r.out[1] = "next" -> Do("Exec", <<r.st, r.env, b, i + 1, seen>>)
              [] r.out[1] = "goto" ->
                   IF here = {} THEN r
                   ELSE Do("Exec", <<r.st, IF j < i THEN seen[r.out[2]] ELSE env, b, j, seen>>)
              [] OTHER -> r
(* A block as a statement: its variables end with it.                         *)
Inner(st, env, b) == [Do("Exec", <<st, env, b, 1, <<>>>>) EXCEPT !.env = env]

(* Targets get their values from right to left.                               *)
StoreAll(st, targets, vs, env) ==
  LET n == Len(targets)
      t == targets[n]
      r == IF t[1] = "table" THEN Update(st, t[2], t[3], Nth(vs, n))
           ELSE V([st EXCEPT !.cells[t[2]] = Nth(vs, n)], <<>>)
  IN IF n = 0 THEN Next_(st, env)
     ELSE IF r.err THEN Failed(r, env) ELSE Do("StoreAll", <<r.st, SubSeq(targets, 1, n - 1), vs, env>>)
(* The tables and keys of targets are evaluated before any store.             *)
TargetParts(ts) ==
  LET p[n \in 0 .. Len(ts)] ==
        IF n = 0 THEN <<>>
        ELSE LET r == p[n - 1] IN IF ts[n][1] = "index" THEN r \o <<paren(ts[n][2]), paren(ts[n][3])>> ELSE r \o <<nil, nil>>
  IN p[Len(ts)]

Choose(st, env, branches, else) ==
  LET b == branches[1]
      c == Do("Eval", <<st, env, b[1]>>)
  IN IF branches = <<>> THEN Do("Inner", <<st, env, else>>)
     ELSE IF c.err THEN Failed(c, env)
     ELSE IF Truth(First(c.vs)) THEN Do("Inner", <<c.st, env, b[2]>>)
     ELSE Do("Choose", <<c.st, env, Tail(branches), else>>)

(* After a turn of a loop: break ends it, a goto or return leaves it.         *)
Goes(r) == r.out[1] = "next"
Left(r) == IF r.out[1] = "break" THEN Next_(r.st, r.env) ELSE r

(* while and repeat.                                                          *)
Loop(st, env, s) ==
  LET c == Do("Eval", <<st, env, s[2]>>)
      w == Do("Inner", <<c.st, env, s[3]>>)
      r == Do("Exec", <<st, env, s[2], 1, <<>>>>)
      u == Do("Eval", <<r.st, r.env, s[3]>>)
      out(x) == [Left(x) EXCEPT !.env = env]
  IN IF s[1] = "while"
     THEN IF c.err THEN Failed(c, env)
          ELSE IF ~Truth(First(c.vs)) THEN Next_(c.st, env)
          ELSE IF Goes(w) THEN Do("Loop", <<w.st, env, s>>) ELSE out(w)
     ELSE IF ~Goes(r) THEN out(r)
          ELSE IF u.err THEN Failed(u, env)
          ELSE IF Truth(First(u.vs)) THEN Next_(u.st, env) ELSE Do("Loop", <<u.st, env, s>>)

(* The numeric loop as the manual spells it out: the first value is one step  *)
(* before the start.                                                          *)
ForNum(st, env, s, var, limstep) ==
  LET limit == limstep[1]
      step == limstep[2]
      v == BinOp("+", var, step)
      ends == IF ~Less(step, Integer(0)) THEN Less(limit, v) ELSE Less(v, limit)
      d == Declare(st, env, <<s[2]>>, <<v>>)
      r == Do("Inner", <<d.st, d.env, s[4]>>)
  IN IF ends THEN Next_(st, env)
     ELSE IF Goes(r) THEN Do("ForNum", <<r.st, env, s, v, limstep>>) ELSE [Left(r) EXCEPT !.env = env]

ForIn(st, env, s, gen, control) ==
  LET c == Do("Apply", <<st, gen[1], <<gen[2], control>>>>)
      d == Declare(c.st, env, s[2], c.vs)
      r == Do("Inner", <<d.st, d.env, s[4]>>)
  IN IF c.err THEN Failed(c, env)
     ELSE IF First(c.vs) = Nil THEN Next_(c.st, env)
     ELSE IF Goes(r) THEN Do("ForIn", <<r.st, env, s, gen, First(c.vs)>>) ELSE [Left(r) EXCEPT !.env = env]

ExecS(st, env, s) ==
  CASE s[1] = "local" ->
         LET r == Do("EvalList", <<st, env, s[3], 1>>)
             d == Declare(r.st, env, s[2], r.vs)
         IN IF r.err THEN Failed(r, env) ELSE Next_(d.st, d.env)
    [] s[1] = "assign" ->
         LET p == Do("EvalList", <<st, env, TargetParts(s[2]), 1>>)
             r == Do("EvalList", <<p.st, env, s[3], 1>>)
             target(i) == CASE s[2][i][1] = "index" -> <<"table", p.vs[2 * i - 1], p.vs[2 * i]>>
                            [] s[2][i][1] = "name" /\ s[2][i][2] \in DOMAIN env -> <<"cell", env[s[2][i][2]]>>
                            [] OTHER -> <<"table", <<"tab", 1>>, Str(s[2][i][2])>>
         IN IF p.err THEN Failed(p, env) ELSE IF r.err THEN Failed(r, env)
            ELSE Do("StoreAll", <<r.st, [i \in DOMAIN s[2] |-> target(i)], r.vs, env>>)
    [] s[1] \in {"call", "method"} ->
         LET r == Do("Eval", <<st, env, s>>) IN IF r.err THEN Failed(r, env) ELSE Next_(r.st, env)
    [] s[1] = "do" -> Do("Inner", <<st, env, s[2]>>)
    [] s[1] \in {"while", "repeat"} -> Do("Loop", <<st, env, s>>)
    [] s[1] = "if" -> Do("Choose", <<st, env, s[2], s[3]>>)
    [] s[1] = "fornum" ->
         LET r == Do("EvalList", <<st, env, s[3], 1>>)
             step == IF Len(s[3]) = 3 THEN r.vs[3] ELSE Integer(1)
         IN IF r.err THEN Failed(r, env)
            ELSE IF \E v \in {r.vs[1], r.vs[2], step} : ~ttisnumber(v) THEN Failed(r, env)
            ELSE Do("ForNum", <<r.st, env, s, BinOp("-", IF ttisfloat(step) THEN Float(r.vs[1]) ELSE r.vs[1], step),
                        <<r.vs[2], step>>>>)
    [] s[1] = "forin" ->
         LET r == Do("EvalList", <<st, env, s[3], 1>>)
             g == Adjusted(r.vs, 3)
         IN IF r.err THEN Failed(r, env) ELSE Do("ForIn", <<r.st, env, s, g, g[3]>>)
    [] s[1] = "localfunction" ->
         LET d == Declare(st, env, <<s[2]>>, <<>>)
             f == Do("Eval", <<d.st, d.env, s[3]>>)
         IN Next_([f.st EXCEPT !.cells[d.env[s[2]]] = f.vs[1]], d.env)
    [] s[1] = "function" -> Do("ExecS", <<st, env, assign(<<name(s[2])>>, <<s[3]>>)>>)
    [] s[1] = "return" ->
         LET r == Do("EvalList", <<st, env, s[2], 1>>)
         IN IF r.err THEN Failed(r, env) ELSE Out(r.st, env, <<"return", r.vs>>)
    [] s[1] = "break" -> Out(st, env, <<"break">>)
    [] s[1] = "goto" -> Out(st, env, <<"goto", s[2]>>)

(* Gotos, as the manual allows them: to a visible label, without entering the *)
(* scope of a local variable, which a label at the end of a block is out of.  *)
(* The gotos and breaks that leave statement s; <<"wrong">> stands for a goto *)
(* that is not allowed.  Wrong gotos within functions are not looked for.     *)
Leaves(s) ==
  CASE s[1] = "goto" -> {s}
    [] s = break -> {s}
    [] s[1] = "do" -> Escapes(s[2], TRUE)
    [] s[1] = "while" -> Escapes(s[3], TRUE) \ {break}
    [] s[1] = "repeat" -> Escapes(s[2], FALSE) \ {break}
    [] s[1] \in {"fornum", "forin"} -> Escapes(s[4], TRUE) \ {break}
    [] s[1] = "if" -> UNION ({Escapes(s[2][i][2], TRUE) : i \in DOMAIN s[2]} \cup {Escapes(s[3], TRUE)})
    [] OTHER -> {}
Escapes(b, ends) ==
  LET labels == {j \in DOMAIN b : b[j][1] = "label"}
      Enters(i, j) == /\ \E k \in i .. j - 1 : b[k][1] \in {"local", "localfunction"}
                      /\ ~(ends /\ \A k \in j .. Len(b) : k \in labels)
      Meets(i, e) ==
        LET js == {j \in labels : b[j][2] = e[2]}
        IN IF e[1] # "goto" \/ js = {} THEN e
           ELSE IF Cardinality(js) > 1 \/ \E j \in js : Enters(i, j) THEN <<"wrong">> ELSE <<"met">>
  IN (UNION {{Meets(i, e) : e \in Leaves(b[i])} : i \in DOMAIN b} \ {<<"met">>})
       \cup IF Cardinality({b[j] : j \in labels}) < Cardinality(labels) THEN {<<"wrong">>} ELSE {}
Allowed(program) == Escapes(program, TRUE) = {}

(* What a program shows: its calls of externals, and its outcome.             *)
Meaning(program, externals) ==
  LET st == [trace |-> <<>>, cells |-> <<>>, clos |-> <<>>,
             tabs |-> <<[k \in {Str(n) : n \in externals} |-> <<"cfn", k[2]>>]>>]
      r == Do("Exec", <<st, ("..." :> <<>>), program, 1, <<>>>>)
  IN [trace |-> IF Allowed(program) THEN r.st.trace ELSE <<>>,
      outcome |-> CASE ~Allowed(program) -> <<"syntax">>
                    [] r.out[1] = "error" -> <<"error">>
                    [] r.out[1] = "return" -> <<"done">> \o [i \in DOMAIN r.out[2] |-> Visible(r.out[2][i])]
                    [] OTHER -> <<"done">>]

------------------------------------------------------------------------------
Do(f, args) ==
  CASE args = <<>> -> Nil
    [] f = "Eval" -> Eval(args[1], args[2], args[3])
    [] f = "EvalList" -> EvalList(args[1], args[2], args[3], args[4])
    [] f = "Exec" -> Exec(args[1], args[2], args[3], args[4], args[5])
    [] f = "ExecS" -> ExecS(args[1], args[2], args[3])
    [] f = "Loop" -> Loop(args[1], args[2], args[3])
    [] f = "Fill" -> Fill(args[1], args[2], args[3], args[4], args[5])
    [] f = "StoreAll" -> StoreAll(args[1], args[2], args[3], args[4])
    [] f = "ForNum" -> ForNum(args[1], args[2], args[3], args[4], args[5])
    [] f = "ForIn" -> ForIn(args[1], args[2], args[3], args[4], args[5])
    [] f = "Choose" -> Choose(args[1], args[2], args[3], args[4])
    [] f = "Inner" -> Inner(args[1], args[2], args[3])
    [] f = "Apply" -> Apply(args[1], args[2], args[3])
    [] f = "Meaning" -> Meaning(args[1], args[2])
==============================================================================
