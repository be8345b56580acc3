----------------------------- MODULE LuaParser -----------------------------
(* The parser (lparser.c): a recursive descent over tokens that keeps blocks, *)
(* active variables, upvalues, pending gotos and visible labels, and codes as *)
(* it reads.  The state is the record fs of LuaCode: the function being       *)
(* compiled, the enclosing ones in prev, and the lexical state ls with the    *)
(* tokens and the dynamic lists that all functions share.  A token is a tuple *)
(* whose first component names it.                                            *)
EXTENDS LuaCode

CONSTANTS MAXVARS,          \* local variables of a function
          MAXUPVAL,         \* upvalues of a function
          LUAI_MAXCCALLS    \* nested syntactical levels

(* Parse(f, args) is the call of function f of the parser or the generator.   *)
RECURSIVE Parse(_, _)

Last(s) == s[Len(s)]
Front(s) == SubSeq(s, 1, Len(s) - 1)

(* The token to be read, and the one after it.                                *)
Tok(fs) == fs.ls.toks[fs.ls.at]
Tk(fs) == Tok(fs)[1]
luaX_next(fs) == [fs EXCEPT !.ls.at = IF @ < Len(fs.ls.toks) THEN @ + 1 ELSE @]
luaX_lookahead(fs) == Tk(luaX_next(fs))

checklimit(fs, v, l, what) == IF v > l THEN syntaxerror(fs, "too many " \o what) ELSE fs
check(fs, c) == IF Tk(fs) = c THEN fs ELSE syntaxerror(fs, c \o " expected")
checknext(fs, c) == luaX_next(check(fs, c))
str_checkname(fs) == IF Tk(fs) = "NAME" THEN Tok(fs)[2] ELSE "?"
nextname(fs) == checknext(fs, "NAME")
check_condition(fs, c, msg) == IF c THEN fs ELSE syntaxerror(fs, msg)

enterlevel(fs) ==
  checklimit([fs EXCEPT !.ls.nCcalls = @ + 1], fs.ls.nCcalls + 1, LUAI_MAXCCALLS, "C levels")
leavelevel(fs) == [fs EXCEPT !.ls.nCcalls = @ - 1]

codestring(fs, s) ==
  LET c == Parse("luaK_stringK", <<fs, Str(s)>>) IN S(c.fs, init_exp("VK", c.r))
checkname(fs) == codestring(nextname(fs), str_checkname(fs))

------------------------------------------------------------------------------
(* Local variables.                                                           *)

registerlocalvar(fs, name) ==
  [fs EXCEPT !.locvars = Append(@, [varname |-> name, startpc |-> -1, endpc |-> -1])]
new_localvar(fs, name) ==
  LET r == registerlocalvar(fs, name)
      c == checklimit(r, Len(fs.ls.actvar) + 1 - fs.firstlocal, MAXVARS, "local variables")
  IN [c EXCEPT !.ls.actvar = Append(@, Len(fs.locvars))]
getlocvar(fs, i) == fs.ls.actvar[fs.firstlocal + i + 1] + 1

(* The code a variable lives in, for the variables at some positions.         *)
SetPc(fs, vars, which) ==
  [fs EXCEPT !.locvars = [j \in DOMAIN fs.locvars |->
     IF j \in vars THEN [fs.locvars[j] EXCEPT ![which] = Pc(fs)] ELSE fs.locvars[j]]]

(* Variables declared become active: the code that follows sees them.         *)
adjustlocalvars(fs, nvars) ==
  LET n == fs.nactvar + nvars
      now == {getlocvar(fs, i) : i \in fs.nactvar .. n - 1}
  IN [SetPc(fs, now, "startpc") EXCEPT !.nactvar = n]
removevars(fs, tolevel) ==
  LET gone == {getlocvar(fs, i) : i \in tolevel .. fs.nactvar - 1}
  IN [SetPc(fs, gone, "endpc") EXCEPT
        !.nactvar = tolevel, !.ls.actvar = SubSeq(@, 1, Len(@) - (fs.nactvar - tolevel))]

(* The innermost variable, or upvalue, with a name.                           *)
searchvar(fs, n) ==
  LET c == {i \in 0 .. fs.nactvar - 1 : fs.locvars[getlocvar(fs, i)].varname = n}
  IN IF c = {} THEN -1 ELSE CHOOSE i \in c : \A j \in c : j <= i
searchupvalue(fs, n) ==
  LET c == {i \in DOMAIN fs.upvals : fs.upvals[i].name = n}
  IN IF c = {} THEN -1 ELSE (CHOOSE i \in c : \A j \in c : i <= j) - 1

newupvalue(fs, n, v) ==
  LET c == checklimit(fs, Len(fs.upvals) + 1, MAXUPVAL, "upvalues")
  IN [c EXCEPT !.upvals = Append(@, [name |-> n, instack |-> v.k = "VLOCAL", idx |-> v.info])]

(* The block that declares a variable will have to close it.                  *)
markupval(fs, level) ==
  LET b == CHOOSE i \in DOMAIN fs.bl :
             /\ fs.bl[i].nactvar <= level
             /\ \A j \in DOMAIN fs.bl : j > i => fs.bl[j].nactvar > level
  IN [fs EXCEPT !.bl[b].upval = TRUE]

(* A name is a local variable, or an upvalue: a variable of an enclosing      *)
(* function, handed down through every function between; else VVOID.          *)
RECURSIVE singlevaraux(_, _, _)
singlevaraux(fs, n, base) ==
  LET v == searchvar(fs, n)
      idx == searchupvalue(fs, n)
      out == singlevaraux([fs.prev[1] EXCEPT !.ls = fs.ls], n, FALSE)
      in == newupvalue([fs EXCEPT !.prev = <<out.fs>>, !.ls = out.fs.ls], n, out.e)
  IN CASE v >= 0 -> S(IF base THEN fs ELSE markupval(fs, v), init_exp("VLOCAL", v))
       [] v < 0 /\ idx >= 0 -> S(fs, init_exp("VUPVAL", idx))
       [] OTHER -> IF fs.prev = <<>> \/ out.e.k = "VVOID"
                   THEN S(fs, init_exp("VVOID", 0))
                   ELSE S(in, init_exp("VUPVAL", Len(in.upvals) - 1))

(* A name found nowhere is a field of the variable _ENV.                      *)
singlevar(fs0) ==
  LET name == str_checkname(fs0)
      fs == nextname(fs0)
      s == singlevaraux(fs, name, TRUE)
      env == singlevaraux(s.fs, "_ENV", TRUE)
      key == codestring(env.fs, name)
  IN IF s.e.k # "VVOID" THEN s ELSE Parse("luaK_indexed", <<key.fs, env.e, key.e>>)

hasmultret(e) == e.k \in {"VCALL", "VVARARG"}

(* As many values as variables.                                               *)
adjust_assign(fs, nvars, nexps, e) ==
  LET need == nvars - nexps
      extra == IF need + 1 < 0 THEN 0 ELSE need + 1
      open == luaK_setreturns(fs, e, extra)
      last == IF e.k = "VVOID" THEN fs ELSE Parse("luaK_exp2nextreg", <<S(fs, e)>>).fs
      f == IF hasmultret(e)
           THEN (IF extra > 1 THEN luaK_reserveregs(open, extra - 1) ELSE open)
           ELSE IF need > 0
           THEN luaK_nil(luaK_reserveregs(last, need), last.freereg, need)
           ELSE last
  IN IF nexps > nvars THEN [f EXCEPT !.freereg = @ - (nexps - nvars)] ELSE f

------------------------------------------------------------------------------
(* Blocks, labels and gotos.                                                  *)

CurBlock(fs) == Last(fs.bl)
newlabelentry(fs, name, at) == [name |-> name, pc |-> at, nactvar |-> fs.nactvar]

(* A goto meets its label: it must not enter the scope of a variable.         *)
closegoto(fs, g, label) ==
  LET gt == fs.ls.gt[g]
      c == check_condition(fs, gt.nactvar >= label.nactvar, "jumps into the scope of a local")
      p == luaK_patchlist(c, gt.pc, label.pc)
  IN [p EXCEPT !.ls.gt = SubSeq(@, 1, g - 1) \o SubSeq(@, g + 1, Len(@))]

(* Mutant: only the block of the label decides whether to close.              *)
findlabelOwn(fs, g) ==
  LET gt == fs.ls.gt[g]
      c == {i \in CurBlock(fs).firstlabel + 1 .. Len(fs.ls.label) : fs.ls.label[i].name = gt.name}
      lb == fs.ls.label[CHOOSE i \in c : \A j \in c : i <= j]
      close == gt.nactvar > lb.nactvar /\ CurBlock(fs).upval
      f == IF close THEN luaK_patchclose(fs, gt.pc, lb.nactvar) ELSE fs
  IN IF c = {} THEN [fs |-> fs, found |-> FALSE]
     ELSE [fs |-> closegoto(f, g, lb), found |-> TRUE]
(* A goto looks for a label already seen in the current block; jumping back   *)
(* out of the scope of variables, it closes them.                             *)
findlabel(fs, g) ==
  LET gt == fs.ls.gt[g]
      c == {i \in CurBlock(fs).firstlabel + 1 .. Len(fs.ls.label) : fs.ls.label[i].name = gt.name}
      lb == fs.ls.label[CHOOSE i \in c : \A j \in c : i <= j]
      close == /\ gt.nactvar > lb.nactvar
               /\ CurBlock(fs).upval \/ Len(fs.ls.label) > CurBlock(fs).firstlabel
      f == IF close THEN luaK_patchclose(fs, gt.pc, lb.nactvar) ELSE fs
  IN IF c = {} THEN [fs |-> fs, found |-> FALSE]
     ELSE [fs |-> closegoto(f, g, lb), found |-> TRUE]

(* Gotos of the current block that wait for a label.                          *)
RECURSIVE Solve(_, _, _)
Solve(fs, i, lb) ==
  CASE i > Len(fs.ls.gt) -> fs
    [] i <= Len(fs.ls.gt) /\ fs.ls.gt[i].name = lb.name -> Solve(closegoto(fs, i, lb), i, lb)
    [] OTHER -> Solve(fs, i + 1, lb)
findgotos(fs, lb) == Solve(fs, CurBlock(fs).firstgoto + 1, lb)

(* Pending gotos leave a block, and the scope of its variables.               *)
RECURSIVE MoveOut(_, _, _)
MoveOut(fs, bl, i) ==
  LET gt == fs.ls.gt[i]
      leaves == gt.nactvar > bl.nactvar
      f1 == IF leaves /\ bl.upval THEN luaK_patchclose(fs, gt.pc, bl.nactvar) ELSE fs
      f2 == IF leaves THEN [f1 EXCEPT !.ls.gt[i].nactvar = bl.nactvar] ELSE f1
      r == findlabel(f2, i)
  IN IF i > Len(fs.ls.gt) THEN fs
     ELSE MoveOut(r.fs, bl, IF r.found THEN i ELSE i + 1)
movegotosout(fs, bl) == MoveOut(fs, bl, bl.firstgoto + 1)

enterblock(fs, isloop) ==
  [fs EXCEPT !.bl = Append(@, [isloop |-> isloop, nactvar |-> fs.nactvar, upval |-> FALSE,
                               firstlabel |-> Len(fs.ls.label), firstgoto |-> Len(fs.ls.gt)])]

breaklabel(fs) ==
  LET lb == newlabelentry(fs, "break", Pc(fs))
  IN findgotos([fs EXCEPT !.ls.label = Append(@, lb)], lb)

leaveblock(fs0) ==
  LET bl == CurBlock(fs0)
      inner == Len(fs0.bl) > 1
      j == Parse("luaK_jump", <<fs0>>)
      at == Pc(j) - 1
      fs1 == IF inner /\ bl.upval
             THEN luaK_patchtohere(luaK_patchclose(j, at, bl.nactvar), at) ELSE fs0
      fs2 == IF bl.isloop THEN breaklabel(fs1) ELSE fs1
      fs3 == removevars([fs2 EXCEPT !.bl = Front(@)], bl.nactvar)
      fs4 == [fs3 EXCEPT !.freereg = fs3.nactvar, !.ls.label = SubSeq(@, 1, bl.firstlabel)]
  IN IF inner THEN movegotosout(fs4, bl)
     ELSE check_condition(fs4, bl.firstgoto >= Len(fs4.ls.gt), "no visible label for goto")

------------------------------------------------------------------------------
(* Functions.                                                                 *)

open_func(ls, prev) ==
  enterblock([code |-> <<>>, k |-> <<>>, p |-> <<>>, upvals |-> <<>>, locvars |-> <<>>,
              maxstacksize |-> 2, numparams |-> 0, is_vararg |-> FALSE,
              lasttarget |-> 0, jpc |-> NO_JUMP, freereg |-> 0, nactvar |-> 0,
              firstlocal |-> Len(ls.actvar), bl |-> <<>>, ls |-> ls, prev |-> prev], FALSE)
close_func(fs) == Parse("leaveblock", <<luaK_ret(fs, 0, 0)>>)
Proto(fs) == [code |-> fs.code, k |-> fs.k, p |-> fs.p, upvals |-> fs.upvals,
              locvars |-> fs.locvars, maxstacksize |-> fs.maxstacksize,
              numparams |-> fs.numparams, is_vararg |-> fs.is_vararg]
(* The enclosing function creates the closure, whose prototype is the next    *)
(* one in its list, and goes on with the same lexer.                          *)
codeclosure(fs) ==
  LET prev == [fs.prev[1] EXCEPT !.ls = fs.ls]
  IN Parse("luaK_exp2nextreg", <<Reloc(luaK_codeABx(prev, "OP_CLOSURE", 0, Len(prev.p)), init_exp("VVOID", 0))>>)
addprototype(prev, fs) == [prev EXCEPT !.p = Append(@, Proto(fs)), !.ls = fs.ls]

block_follow(fs, withuntil) ==
  \/ Tk(fs) \in {"else", "elseif", "end", "<eof>"}
  \/ Tk(fs) = "until" /\ withuntil
------------------------------------------------------------------------------
(* Expressions.                                                               *)

expr(fs) == LET r == Parse("subexpr", <<fs, 0>>) IN S(r.fs, r.e)

fieldsel(s) ==
  LET v == Parse("luaK_exp2anyregup", <<s>>)
      key == checkname(luaX_next(v.fs))
  IN Parse("luaK_indexed", <<key.fs, v.e, key.e>>)
yindex(fs) ==
  LET v == Parse("expr", <<luaX_next(fs)>>)
      d == Parse("luaK_exp2val", <<v>>)
  IN S(checknext(d.fs, "]"), d.e)

(* Table constructors: items are stored in batches, as they fill registers.   *)
recfield(fs, cc) ==
  LET key == IF Tk(fs) = "NAME" THEN checkname(fs) ELSE yindex(fs)
      rkkey == Parse("luaK_exp2RK", <<S(checknext(key.fs, "="), key.e)>>)
      val == Parse("expr", <<rkkey.fs>>)
      rkval == Parse("luaK_exp2RK", <<val>>)
      coded == luaK_codeABC(rkval.fs, "OP_SETTABLE", cc.t, rkkey.r, rkval.r)
  IN [fs |-> [coded EXCEPT !.freereg = fs.freereg], cc |-> [cc EXCEPT !.nh = @ + 1]]
closelistfield(fs, cc) ==
  LET f == Parse("luaK_exp2nextreg", <<S(fs, cc.v)>>).fs
      c == [cc EXCEPT !.v.k = "VVOID"]
  IN CASE cc.v.k = "VVOID" -> [fs |-> fs, cc |-> cc]
       [] cc.v.k # "VVOID" /\ cc.tostore = LFIELDS_PER_FLUSH ->
            [fs |-> Parse("luaK_setlist", <<f, cc.t, cc.na, cc.tostore>>), cc |-> [c EXCEPT !.tostore = 0]]
       [] OTHER -> [fs |-> f, cc |-> c]
lastlistfield(fs, cc) ==
  LET f == IF cc.v.k = "VVOID" THEN fs ELSE Parse("luaK_exp2nextreg", <<S(fs, cc.v)>>).fs
      open == luaK_setreturns(fs, cc.v, LUA_MULTRET)
  IN CASE cc.tostore = 0 -> [fs |-> fs, na |-> cc.na]
       [] cc.tostore > 0 /\ hasmultret(cc.v) ->
            [fs |-> Parse("luaK_setlist", <<open, cc.t, cc.na, LUA_MULTRET>>), na |-> cc.na - 1]
       [] OTHER -> [fs |-> Parse("luaK_setlist", <<f, cc.t, cc.na, cc.tostore>>), na |-> cc.na]
listfield(fs, cc) ==
  LET v == Parse("expr", <<fs>>)
  IN [fs |-> v.fs, cc |-> [cc EXCEPT !.v = v.e, !.na = @ + 1, !.tostore = @ + 1]]
field(fs, cc) ==
  IF Tk(fs) = "[" \/ (Tk(fs) = "NAME" /\ luaX_lookahead(fs) = "=")
  THEN recfield(fs, cc) ELSE listfield(fs, cc)

Fields(fs, cc) ==
  LET c == closelistfield(fs, cc)
      r == Parse("field", <<c.fs, c.cc>>)
  IN CASE Tk(fs) = "}" -> [fs |-> fs, cc |-> cc]
       [] Tk(r.fs) \in {",", ";"} -> Parse("Fields", <<luaX_next(r.fs), r.cc>>)
       [] OTHER -> r
constructor(fs) ==
  LET new == luaK_codeABC(fs, "OP_NEWTABLE", 0, 0, 0)
      t == Parse("luaK_exp2nextreg", <<Reloc(new, init_exp("VVOID", 0))>>)
      r == Parse("Fields", <<checknext(t.fs, "{"),
                  [v |-> init_exp("VVOID", 0), t |-> t.e.info, nh |-> 0, na |-> 0, tostore |-> 0]>>)
      l == lastlistfield(checknext(r.fs, "}"), r.cc)
  IN S(SetArg(SetArg(l.fs, Pc(new) - 1, "B", l.na), Pc(new) - 1, "C", r.cc.nh), t.e)

RECURSIVE Params(_, _)
Params(fs, n) ==
  LET var == new_localvar(nextname(fs), str_checkname(fs))
      bad == syntaxerror(fs, "<name> or '...' expected")
  IN CASE Tk(fs) = "..." -> [fs |-> [luaX_next(fs) EXCEPT !.is_vararg = TRUE], n |-> n]
       [] Tk(fs) = "NAME" -> IF Tk(var) = "," THEN Params(luaX_next(var), n + 1)
                             ELSE [fs |-> var, n |-> n + 1]
       [] OTHER -> [fs |-> bad, n |-> n]
parlist(fs) ==
  LET r == IF Tk(fs) = ")" THEN [fs |-> fs, n |-> 0] ELSE Params(fs, 0)
      a == adjustlocalvars(r.fs, r.n)
  IN luaK_reserveregs([a EXCEPT !.numparams = a.nactvar], a.nactvar)

body(fs, ismethod) ==
  LET new == checknext(open_func(fs.ls, <<fs>>), "(")
      self == IF ismethod THEN adjustlocalvars(new_localvar(new, "self"), 1) ELSE new
      stats == checknext(Parse("statlist", <<checknext(parlist(self), ")")>>), "end")
      v == codeclosure(stats)
  IN S(addprototype(v.fs, close_func([stats EXCEPT !.ls = v.fs.ls])), v.e)

MoreExps(s, n) ==
  IF Tk(s.fs) # "," THEN [fs |-> s.fs, e |-> s.e, n |-> n]
  ELSE Parse("MoreExps", <<Parse("expr", <<luaX_next(Parse("luaK_exp2nextreg", <<s>>).fs)>>), n + 1>>)
explist(fs) == Parse("MoreExps", <<Parse("expr", <<fs>>), 1>>)

funcargs(s) ==
  LET fs == s.fs
      list == Parse("explist", <<luaX_next(fs)>>)
      void(g) == S(g, init_exp("VVOID", 0))
      args ==
        CASE Tk(fs) = "(" /\ luaX_lookahead(fs) = ")" -> void(luaX_next(luaX_next(fs)))
          [] Tk(fs) = "(" /\ luaX_lookahead(fs) # ")" ->
               S(checknext(luaK_setreturns(list.fs, list.e, LUA_MULTRET), ")"), list.e)
          [] Tk(fs) = "{" -> Parse("constructor", <<fs>>)
          [] Tk(fs) = "STRING" ->
               LET c == codestring(fs, Tok(fs)[2]) IN S(luaX_next(c.fs), c.e)
          [] OTHER -> void(syntaxerror(fs, "function arguments expected"))
      base == s.e.info
      f == IF hasmultret(args.e) \/ args.e.k = "VVOID" THEN args.fs
           ELSE Parse("luaK_exp2nextreg", <<args>>).fs
      nparams == IF hasmultret(args.e) THEN LUA_MULTRET ELSE f.freereg - (base + 1)
      coded == luaK_codeABC(f, "OP_CALL", base, nparams + 1, 2)
  IN S([coded EXCEPT !.freereg = base + 1], init_exp("VCALL", Pc(coded) - 1))

primaryexp(fs) ==
  LET v == Parse("expr", <<luaX_next(fs)>>)
  IN CASE Tk(fs) = "(" -> Parse("luaK_dischargevars", <<S(checknext(v.fs, ")"), v.e)>>)
       [] Tk(fs) = "NAME" -> Parse("singlevar", <<fs>>)
       [] OTHER -> S(syntaxerror(fs, "unexpected symbol"), init_exp("VVOID", 0))

Suffixes(s) ==
  LET t == Parse("luaK_exp2anyregup", <<s>>)
      key == yindex(t.fs)
      name == checkname(luaX_next(s.fs))
      more(next) == Parse("Suffixes", <<next>>)
      call(fun) == more(Parse("funcargs", <<fun>>))
  IN CASE Tk(s.fs) = "." -> more(Parse("fieldsel", <<s>>))
       [] Tk(s.fs) = "[" -> more(Parse("luaK_indexed", <<key.fs, t.e, key.e>>))
       [] Tk(s.fs) = ":" -> call(Parse("luaK_self", <<S(name.fs, s.e), name.e>>))
       [] Tk(s.fs) \in {"(", "STRING", "{"} -> call(Parse("luaK_exp2nextreg", <<s>>))
       [] OTHER -> s
suffixedexp(fs) == Parse("Suffixes", <<Parse("primaryexp", <<fs>>)>>)

simpleexp(fs) ==
  LET const(k) == S(luaX_next(fs), init_exp(k, 0))
      number(k) == S(luaX_next(fs), [init_exp(k, 0) EXCEPT !.val = Tok(fs)[2]])
      str == codestring(fs, Tok(fs)[2])
      dots == luaK_codeABC(check_condition(fs, fs.is_vararg, "cannot use '...'"),
                           "OP_VARARG", 0, 1, 0)
  IN CASE Tk(fs) = "FLT" -> number("VKFLT")
       [] Tk(fs) = "INT" -> number("VKINT")
       [] Tk(fs) = "STRING" -> S(luaX_next(str.fs), str.e)
       [] Tk(fs) = "nil" -> const("VNIL")
       [] Tk(fs) = "true" -> const("VTRUE")
       [] Tk(fs) = "false" -> const("VFALSE")
       [] Tk(fs) = "..." -> S(luaX_next(dots), init_exp("VVARARG", Pc(dots) - 1))
       [] Tk(fs) = "{" -> Parse("constructor", <<fs>>)
       [] Tk(fs) = "function" -> Parse("body", <<luaX_next(fs), FALSE>>)
       [] OTHER -> Parse("suffixedexp", <<fs>>)

getunopr == ("not" :> "NOT") @@ ("-" :> "UNM") @@ ("~" :> "BNOT") @@ ("#" :> "LEN")
getbinopr ==
  [op \in {"+", "-", "*", "%", "^", "/", "//", "&", "|", "~", "<<", ">>", "..",
           "~=", "==", "<", "<=", ">", ">=", "and", "or"} |->
     CASE op = "+" -> "ADD" [] op = "-" -> "SUB" [] op = "*" -> "MUL" [] op = "%" -> "MOD"
       [] op = "^" -> "POW" [] op = "/" -> "DIV" [] op = "//" -> "IDIV" [] op = "&" -> "BAND"
       [] op = "|" -> "BOR" [] op = "~" -> "BXOR" [] op = "<<" -> "SHL" [] op = ">>" -> "SHR"
       [] op = ".." -> "CONCAT" [] op = "~=" -> "NE" [] op = "==" -> "EQ" [] op = "<" -> "LT"
       [] op = "<=" -> "LE" [] op = ">" -> "GT" [] op = ">=" -> "GE" [] op = "and" -> "AND"
       [] op = "or" -> "OR"]
priority(op) ==
  CASE op \in {"ADD", "SUB"} -> [left |-> 10, right |-> 10]
    [] op \in {"MUL", "MOD", "DIV", "IDIV"} -> [left |-> 11, right |-> 11]
    [] op = "POW" -> [left |-> 14, right |-> 13]
    [] op = "BAND" -> [left |-> 6, right |-> 6]
    [] op = "BOR" -> [left |-> 4, right |-> 4]
    [] op = "BXOR" -> [left |-> 5, right |-> 5]
    [] op \in {"SHL", "SHR"} -> [left |-> 7, right |-> 7]
    [] op = "CONCAT" -> [left |-> 9, right |-> 8]
    [] op \in {"EQ", "LT", "LE", "NE", "GT", "GE"} -> [left |-> 3, right |-> 3]
    [] op = "AND" -> [left |-> 2, right |-> 2]
    [] op = "OR" -> [left |-> 1, right |-> 1]
UNARY_PRIORITY == 12

(* Operators that bind tighter than the limit.                                *)
Operators(s, limit) ==
  LET op == getbinopr[Tk(s.fs)]
      v == Parse("luaK_infix", <<S(luaX_next(s.fs), s.e), op>>)
      v2 == Parse("subexpr", <<v.fs, priority(op).right>>)
  IN IF Tk(s.fs) \in DOMAIN getbinopr /\ priority(op).left > limit
     THEN Parse("Operators", <<Parse("luaK_posfix", <<v2.fs, op, v.e, v2.e>>), limit>>)
     ELSE s
subexpr(fs0, limit) ==
  LET fs == enterlevel(fs0)
      operand == Parse("subexpr", <<luaX_next(fs), UNARY_PRIORITY>>)
      first == IF Tk(fs) \in DOMAIN getunopr
               THEN Parse("luaK_prefix", <<S(operand.fs, operand.e), getunopr[Tk(fs)]>>)
               ELSE Parse("simpleexp", <<fs>>)
      r == Parse("Operators", <<first, limit>>)
  IN S(leavelevel(r.fs), r.e)

------------------------------------------------------------------------------
(* Statements.                                                                *)

block(fs) == Parse("leaveblock", <<Parse("statlist", <<enterblock(fs, FALSE)>>)>>)

(* Variables assigned together: the ones on the left are evaluated first, so  *)
(* a local or upvalue assigned now may be the table or the index of an        *)
(* earlier target, which must use a copy of its old value.                    *)
Conflicts(fs, l, v) ==
  /\ l.k = "VINDEXED"
  /\ \/ l.ind.vt = v.k /\ l.ind.t = v.info
     \/ v.k = "VLOCAL" /\ l.ind.idx = v.info
(* Mutant: only the target just before is looked at.                          *)
check_conflictLast(fs, lh, v) ==
  LET extra == fs.freereg
      op == IF v.k = "VLOCAL" THEN "OP_MOVE" ELSE "OP_GETUPVAL"
      l == Last(lh)
  IN IF Conflicts(fs, l, v) /\ l.ind.vt = v.k /\ l.ind.t = v.info
     THEN [fs |-> luaK_reserveregs(luaK_codeABC(fs, op, extra, v.info, 0), 1),
           lh |-> Append(Front(lh), [l EXCEPT !.ind.vt = "VLOCAL", !.ind.t = extra])]
     ELSE [fs |-> fs, lh |-> lh]
check_conflict(fs, lh, v) ==
  LET extra == fs.freereg
      safe(l) ==
        LET tab == l.ind.vt = v.k /\ l.ind.t = v.info
            idx == v.k = "VLOCAL" /\ l.ind.idx = v.info
        IN [l EXCEPT !.ind.vt = IF tab THEN "VLOCAL" ELSE @,
                     !.ind.t = IF tab THEN extra ELSE @,
                     !.ind.idx = IF idx THEN extra ELSE @]
      op == IF v.k = "VLOCAL" THEN "OP_MOVE" ELSE "OP_GETUPVAL"
  IN IF \E i \in DOMAIN lh : Conflicts(fs, lh[i], v)
     THEN [fs |-> luaK_reserveregs(luaK_codeABC(fs, op, extra, v.info, 0), 1),
           lh |-> [i \in DOMAIN lh |-> IF Conflicts(fs, lh[i], v) THEN safe(lh[i]) ELSE lh[i]]]
     ELSE [fs |-> fs, lh |-> lh]

(* The last value is in the last register; the targets take theirs from right *)
(* to left.                                                                   *)
assignment(fs0, lh) ==
  LET nvars == Len(lh)
      fs == check_condition(fs0, lh[nvars].k \in {"VLOCAL", "VUPVAL", "VINDEXED"}, "syntax error")
      nv == Parse("suffixedexp", <<luaX_next(fs)>>)
      c == IF nv.e.k = "VINDEXED" THEN [fs |-> nv.fs, lh |-> lh]
           ELSE check_conflict(nv.fs, lh, nv.e)
      limited == checklimit(c.fs, nvars + c.fs.ls.nCcalls, LUAI_MAXCCALLS, "C levels")
      rest == Parse("assignment", <<limited, Append(c.lh, nv.e)>>)
      top(g) == init_exp("VNONRELOC", g.freereg - 1)
      list == Parse("explist", <<checknext(fs, "=")>>)
      one == luaK_setoneret(S(list.fs, list.e))
      adjusted == Parse("adjust_assign", <<list.fs, nvars, list.n, list.e>>)
  IN CASE Tk(fs) = "," ->
            [fs |-> Parse("luaK_storevar", <<rest.fs, rest.lh[nvars], top(rest.fs)>>), lh |-> rest.lh]
       [] Tk(fs) # "," /\ list.n = nvars ->
            [fs |-> Parse("luaK_storevar", <<one.fs, lh[nvars], one.e>>), lh |-> lh]
       [] OTHER -> [fs |-> Parse("luaK_storevar", <<adjusted, lh[nvars], top(adjusted)>>), lh |-> lh]

(* The jumps of a condition that is false.                                    *)
cond(fs) ==
  LET v == Parse("expr", <<fs>>)
      g == Parse("luaK_goiftrue", <<[v EXCEPT !.e.k = IF @ = "VNIL" THEN "VFALSE" ELSE @]>>)
  IN [fs |-> g.fs, exit |-> g.e.f]

gotostat(fs, at) ==
  LET name == IF Tk(fs) = "goto" THEN str_checkname(luaX_next(fs)) ELSE "break"
      f == IF Tk(fs) = "goto" THEN nextname(luaX_next(fs)) ELSE luaX_next(fs)
      g == [f EXCEPT !.ls.gt = Append(@, newlabelentry(f, name, at))]
  IN findlabel(g, Len(g.ls.gt)).fs

checkrepeated(fs, label) ==
  check_condition(fs, \A i \in CurBlock(fs).firstlabel + 1 .. Len(fs.ls.label) :
                        fs.ls.label[i].name # label, "label already defined")

RECURSIVE skipnoopstat(_)
skipnoopstat(fs) ==
  IF Tk(fs) \in {";", "::"} THEN skipnoopstat(Parse("statement", <<fs>>)) ELSE fs

(* A label at the end of a block is outside the scope of the block's locals.  *)
labelstat(fs0, label) ==
  LET fs1 == luaK_getlabel(checknext(checkrepeated(fs0, label), "::"))
      lb == newlabelentry(fs1, label, Pc(fs1))
      l == Len(fs1.ls.label) + 1
      fs2 == skipnoopstat([fs1 EXCEPT !.ls.label = Append(@, lb)])
      n == IF block_follow(fs2, FALSE) THEN CurBlock(fs2).nactvar ELSE lb.nactvar
      fs3 == [fs2 EXCEPT !.ls.label[l].nactvar = n]
  IN findgotos(fs3, fs3.ls.label[l])

(* Mutant: the jump back skips the condition.                                 *)
whilestatOnce(fs0) ==
  LET c == Parse("cond", <<luaK_getlabel(luaX_next(fs0))>>)
      b == Parse("block", <<checknext(enterblock(c.fs, TRUE), "do")>>)
      j == Parse("luaK_jump", <<b>>)
      back == luaK_patchlist(j, Pc(j) - 1, Pc(c.fs))
  IN luaK_patchtohere(Parse("leaveblock", <<checknext(back, "end")>>), c.exit)
whilestat(fs0) ==
  LET fs == luaK_getlabel(luaX_next(fs0))
      c == Parse("cond", <<fs>>)
      b == Parse("block", <<checknext(enterblock(c.fs, TRUE), "do")>>)
      j == Parse("luaK_jump", <<b>>)
      back == luaK_patchlist(j, Pc(j) - 1, Pc(fs))
  IN luaK_patchtohere(Parse("leaveblock", <<checknext(back, "end")>>), c.exit)

(* The condition of repeat sees the locals of the block: its jump back closes *)
(* the ones captured.                                                         *)
repeatstat(fs0) ==
  LET fs == luaK_getlabel(fs0)
      stats == Parse("statlist", <<luaX_next(enterblock(enterblock(fs, TRUE), FALSE))>>)
      c == Parse("cond", <<checknext(stats, "until")>>)
      bl2 == CurBlock(c.fs)
      closed == IF bl2.upval THEN luaK_patchclose(c.fs, c.exit, bl2.nactvar) ELSE c.fs
  IN Parse("leaveblock", <<luaK_patchlist(Parse("leaveblock", <<closed>>), c.exit, Pc(fs))>>)

exp1(fs) == Parse("luaK_exp2nextreg", <<Parse("expr", <<fs>>)>>).fs

forbody(fs0, base, nvars, isnum) ==
  LET fs1 == checknext(adjustlocalvars(fs0, 3), "do")
      fs2 == IF isnum THEN luaK_codeABx(fs1, "OP_FORPREP", base, NO_JUMP) ELSE Parse("luaK_jump", <<fs1>>)
      prep == Pc(fs2) - 1
      fs3 == luaK_reserveregs(adjustlocalvars(enterblock(fs2, FALSE), nvars), nvars)
      fs4 == luaK_patchtohere(Parse("leaveblock", <<Parse("block", <<fs3>>)>>), prep)
      fs5 == IF isnum THEN luaK_codeABx(fs4, "OP_FORLOOP", base, NO_JUMP)
             ELSE luaK_codeABx(luaK_codeABC(fs4, "OP_TFORCALL", base, 0, nvars),
                               "OP_TFORLOOP", base + 2, NO_JUMP)
  IN luaK_patchlist(fs5, Pc(fs5) - 1, prep + 1)

Hidden(fs, a, b, c) ==
  new_localvar(new_localvar(new_localvar(fs, a), b), c)
fornum(fs0, varname) ==
  LET base == fs0.freereg
      fs1 == new_localvar(Hidden(fs0, "(for index)", "(for limit)", "(for step)"), varname)
      fs2 == exp1(checknext(fs1, "="))
      fs3 == exp1(checknext(fs2, ","))
      one == luaK_intK(fs3, Integer(1))
      fs4 == IF Tk(fs3) = "," THEN exp1(luaX_next(fs3))
             ELSE luaK_reserveregs(luaK_codek(one.fs, fs3.freereg, one.r), 1)
  IN Parse("forbody", <<fs4, base, 1, TRUE>>)

RECURSIVE MoreNames(_, _)
MoreNames(fs, n) ==
  LET f == luaX_next(fs)
  IN IF Tk(fs) # "," THEN [fs |-> fs, n |-> n]
     ELSE MoreNames(new_localvar(nextname(f), str_checkname(f)), n + 1)
forlist(fs0, indexname) ==
  LET base == fs0.freereg
      fs1 == Hidden(fs0, "(for generator)", "(for state)", "(for control)")
      vars == MoreNames(new_localvar(fs1, indexname), 1)
      list == Parse("explist", <<checknext(vars.fs, "in")>>)
      fs == luaK_checkstack(Parse("adjust_assign", <<list.fs, 3, list.n, list.e>>), 3)
  IN Parse("forbody", <<fs, base, vars.n, FALSE>>)

forstat(fs0) ==
  LET fs == luaX_next(enterblock(fs0, TRUE))
      name == str_checkname(fs)
      f == nextname(fs)
      loop == CASE Tk(f) = "=" -> fornum(f, name)
                [] Tk(f) \in {",", "in"} -> forlist(f, name)
                [] OTHER -> syntaxerror(f, "'=' or 'in' expected")
  IN Parse("leaveblock", <<checknext(loop, "end")>>)

RECURSIVE SkipSemicolons(_)
SkipSemicolons(fs) == IF Tk(fs) = ";" THEN SkipSemicolons(luaX_next(fs)) ELSE fs

(* One condition with its block; a goto or break right after "then" is the    *)
(* jump of the condition itself.                                              *)
test_then_block(fs0, escapelist) ==
  LET v == Parse("expr", <<luaX_next(fs0)>>)
      then == S(checknext(v.fs, "then"), v.e)
      jumps == Tk(then.fs) \in {"goto", "break"}
      f == Parse("luaK_goiffalse", <<then>>)
      gone == SkipSemicolons(Parse("gotostat", <<enterblock(f.fs, FALSE), f.e.t>>))
      other == Parse("luaK_jump", <<gone>>)
      t == Parse("luaK_goiftrue", <<then>>)
      start == IF jumps THEN other ELSE enterblock(t.fs, FALSE)
      jf == IF jumps THEN Pc(other) - 1 ELSE t.e.f
      done == Parse("leaveblock", <<Parse("statlist", <<start>>)>>)
      more == Tk(done) \in {"else", "elseif"}
      j == Parse("luaK_jump", <<done>>)
      esc == IF more THEN luaK_concat(j, escapelist, Pc(j) - 1) ELSE done
  IN IF jumps /\ block_follow(gone, FALSE)
     THEN [fs |-> Parse("leaveblock", <<gone>>), esc |-> escapelist]
     ELSE [fs |-> luaK_patchtohere(esc, jf),
           esc |-> IF more THEN Joined(escapelist, Pc(j) - 1) ELSE escapelist]

RECURSIVE Branches(_)
Branches(r) ==
  IF Tk(r.fs) = "elseif" THEN Branches(Parse("test_then_block", <<r.fs, r.esc>>)) ELSE r
ifstat(fs) ==
  LET r == Branches(Parse("test_then_block", <<fs, NO_JUMP>>))
      f == IF Tk(r.fs) = "else" THEN Parse("block", <<luaX_next(r.fs)>>) ELSE r.fs
  IN luaK_patchtohere(checknext(f, "end"), r.esc)

localfunc(fs) ==
  LET b == Parse("body", <<adjustlocalvars(new_localvar(nextname(fs), str_checkname(fs)), 1), FALSE>>)
  IN SetPc(b.fs, {getlocvar(b.fs, b.e.info)}, "startpc")
localstat(fs) ==
  LET vars == MoreNames(new_localvar(nextname(fs), str_checkname(fs)), 1)
      list == IF Tk(vars.fs) = "=" THEN Parse("explist", <<luaX_next(vars.fs)>>)
              ELSE [fs |-> vars.fs, e |-> init_exp("VVOID", 0), n |-> 0]
  IN adjustlocalvars(Parse("adjust_assign", <<list.fs, vars.n, list.n, list.e>>), vars.n)

RECURSIVE FieldNames(_)
FieldNames(s) == IF Tk(s.fs) = "." THEN FieldNames(Parse("fieldsel", <<s>>)) ELSE s
funcstat(fs) ==
  LET name == FieldNames(Parse("singlevar", <<luaX_next(fs)>>))
      ismethod == Tk(name.fs) = ":"
      v == IF ismethod THEN Parse("fieldsel", <<name>>) ELSE name
      b == Parse("body", <<v.fs, ismethod>>)
  IN Parse("luaK_storevar", <<b.fs, v.e, b.e>>)

exprstat(fs) ==
  LET v == Parse("suffixedexp", <<fs>>)
      c == check_condition(v.fs, v.e.k = "VCALL", "syntax error")
  IN CASE Tk(v.fs) \in {"=", ","} -> Parse("assignment", <<v.fs, <<v.e>>>>).fs
       [] v.e.k = "VCALL" -> SetArg(c, v.e.info, "C", 1)
       [] OTHER -> c

retstat(fs) ==
  LET list == Parse("explist", <<fs>>)
      open == luaK_setreturns(list.fs, list.e, LUA_MULTRET)
      tail == IF list.e.k = "VCALL" /\ list.n = 1
              THEN SetArg(open, list.e.info, "op", "OP_TAILCALL") ELSE open
      any == Parse("luaK_exp2anyreg", <<S(list.fs, list.e)>>)
      next == Parse("luaK_exp2nextreg", <<S(list.fs, list.e)>>)
      coded ==
        CASE block_follow(fs, TRUE) \/ Tk(fs) = ";" -> luaK_ret(fs, 0, 0)
          [] hasmultret(list.e) -> luaK_ret(tail, tail.nactvar, LUA_MULTRET)
          [] list.n = 1 -> luaK_ret(any.fs, any.e.info, 1)
          [] OTHER -> luaK_ret(next.fs, next.fs.nactvar, list.n)
  IN IF Tk(coded) = ";" THEN luaX_next(coded) ELSE coded

(* A statement of each kind; break and goto jump first.                       *)
onestat(fs) ==
  LET n == luaX_next(fs)
      j == Parse("luaK_jump", <<fs>>)
  IN CASE Tk(fs) = ";" -> n
       [] Tk(fs) = "if" -> ifstat(fs)
       [] Tk(fs) = "while" -> whilestat(fs)
       [] Tk(fs) = "do" -> checknext(Parse("block", <<n>>), "end")
       [] Tk(fs) = "for" -> forstat(fs)
       [] Tk(fs) = "repeat" -> repeatstat(fs)
       [] Tk(fs) = "function" -> funcstat(fs)
       [] Tk(fs) = "local" -> IF Tk(n) = "function" THEN localfunc(luaX_next(n)) ELSE localstat(n)
       [] Tk(fs) = "::" -> labelstat(nextname(n), str_checkname(n))
       [] Tk(fs) = "return" -> retstat(n)
       [] Tk(fs) \in {"break", "goto"} -> Parse("gotostat", <<j, Pc(j) - 1>>)
       [] OTHER -> exprstat(fs)
statement(fs) ==
  LET done == Parse("onestat", <<enterlevel(fs)>>)
      a == lua_assert(done, done.maxstacksize >= done.freereg /\ done.freereg >= done.nactvar)
  IN leavelevel([a EXCEPT !.freereg = a.nactvar])

statlist(fs) ==
  CASE block_follow(fs, TRUE) -> fs
    [] Tk(fs) = "return" -> Parse("statement", <<fs>>)
    [] OTHER -> Parse("statlist", <<Parse("statement", <<fs>>)>>)

mainfunc(ls) ==
  LET fs == [open_func(ls, <<>>) EXCEPT !.is_vararg = TRUE]
      env == newupvalue(fs, "_ENV", init_exp("VLOCAL", 0))
  IN close_func(check(Parse("statlist", <<env>>), "<eof>"))

luaY_parser(tokens) ==
  LET fs == mainfunc([toks |-> Append(tokens, <<"<eof>">>), at |-> 1, h |-> <<>>, err |-> "",
                      failed |-> FALSE, nCcalls |-> 0, actvar |-> <<>>, gt |-> <<>>,
                      label |-> <<>>])
  IN [proto |-> Proto(fs), err |-> fs.ls.err, failed |-> fs.ls.failed]

------------------------------------------------------------------------------
Parse(f, args) ==
  CASE args = <<>> -> Nil
    [] f = "leaveblock" -> leaveblock(args[1])
    [] f = "adjust_assign" -> adjust_assign(args[1], args[2], args[3], args[4])
    [] f = "singlevar" -> singlevar(args[1])
    [] f = "fieldsel" -> fieldsel(args[1])
    [] f = "statement" -> statement(args[1])
    [] f = "statlist" -> statlist(args[1])
    [] f = "block" -> block(args[1])
    [] f = "expr" -> expr(args[1])
    [] f = "subexpr" -> subexpr(args[1], args[2])
    [] f = "simpleexp" -> simpleexp(args[1])
    [] f = "explist" -> explist(args[1])
    [] f = "suffixedexp" -> suffixedexp(args[1])
    [] f = "primaryexp" -> primaryexp(args[1])
    [] f = "constructor" -> constructor(args[1])
    [] f = "funcargs" -> funcargs(args[1])
    [] f = "cond" -> cond(args[1])
    [] f = "body" -> body(args[1], args[2])
    [] f = "test_then_block" -> test_then_block(args[1], args[2])
    [] f = "forbody" -> forbody(args[1], args[2], args[3], args[4])
    [] f = "field" -> field(args[1], args[2])
    [] f = "Operators" -> Operators(args[1], args[2])
    [] f = "MoreExps" -> MoreExps(args[1], args[2])
    [] f = "Suffixes" -> Suffixes(args[1])
    [] f = "assignment" -> assignment(args[1], args[2])
    [] f = "onestat" -> onestat(args[1])
    [] f = "Fields" -> Fields(args[1], args[2])
    [] f = "gotostat" -> gotostat(args[1], args[2])
    [] f = "luaY_parser" -> luaY_parser(args[1])
    [] OTHER -> Code(f, args)
==============================================================================
