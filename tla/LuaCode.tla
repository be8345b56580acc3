------------------------------ MODULE LuaCode ------------------------------
(* The code generator (lcode.c).  A function under compilation is a record    *)
(* "fs": the FuncState with the Proto it fills and the LexState it points to. *)
(* The program counter is the length of the code, pending jumps are threaded  *)
(* through the jump instructions themselves as in the code, and an expression *)
(* "e" (expdesc) says where its value is and which jumps leave it when it is  *)
(* true (t) and when it is false (f).  An operation that changes both returns *)
(* the pair [fs, e].  Line information is left out.                           *)
EXTENDS LuaValues

CONSTANTS MAXREGS,            \* registers of a function
          MAXINDEXRK,         \* largest constant an operand can name
          MAXARG_Bx,          \* largest constant LOADK can name
          MAXARG_C,           \* largest batch SETLIST can name
          MAXARG_Ax,          \* largest batch the instruction after it can name
          MAXARG_sBx,         \* longest jump
          LFIELDS_PER_FLUSH   \* items of a table constructor stored at once

(* The functions of the code generator that call one another: Code(f, args)   *)
(* is the call of function f, with its arguments by value (args is never      *)
(* empty: looking at it first makes TLC evaluate the arguments before f).     *)
RECURSIVE Code(_, _)

NO_JUMP == -1
NO_REG == 255
LUA_MULTRET == -1

(* Operands name registers, or constants above BITRK.                         *)
BITRK == 1000
ISK(x) == x >= BITRK
RKASK(k) == k + BITRK

(* Expressions.                                                               *)
init_exp(k, i) == [k |-> k, info |-> i, val |-> Nil,
                   ind |-> [t |-> 0, idx |-> 0, vt |-> "VLOCAL"],
                   t |-> NO_JUMP, f |-> NO_JUMP]
hasjumps(e) == e.t # e.f
tonumeral(e) == ~hasjumps(e) /\ e.k \in {"VKINT", "VKFLT"}
S(fs, e) == [fs |-> fs, e |-> e]

(* Instructions.                                                              *)
Pc(fs) == Len(fs.code)
NoInstruction == [op |-> "none", A |-> 0, B |-> NO_JUMP, C |-> 0]
At(fs, i) == IF fs.ls.err = "" THEN fs.code[i + 1] ELSE NoInstruction
SetArg(fs, i, arg, v) ==
  IF fs.ls.err = "" THEN [fs EXCEPT !.code[i + 1][arg] = v] ELSE fs
TMode == {"OP_EQ", "OP_LT", "OP_LE", "OP_TEST", "OP_TESTSET"}

(* The first error ends the compilation: the rest of the tokens is skipped,   *)
(* and the code is neither read nor changed any more.                         *)
syntaxerror(fs, msg) ==
  IF fs.ls.err # "" THEN fs
  ELSE [fs EXCEPT !.ls.err = msg, !.ls.at = Len(fs.ls.toks)]

(* An assertion of the code; ls.failed remembers that one failed.             *)
lua_assert(fs, c) == [fs EXCEPT !.ls.failed = @ \/ ~c]

------------------------------------------------------------------------------
(* Lists of jumps.                                                            *)

getjump(fs, i) ==
  LET offset == At(fs, i).B
  IN IF offset = NO_JUMP THEN NO_JUMP ELSE i + 1 + offset

fixjump(fs, i, dest) ==
  LET offset == dest - (i + 1)
  IN IF Abs(offset) > MAXARG_sBx
     THEN syntaxerror(fs, "control structure too long")
     ELSE SetArg(fs, i, "B", offset)

RECURSIVE LastOf(_, _)
LastOf(fs, list) ==
  LET next == getjump(fs, list)
  IN IF next = NO_JUMP THEN list ELSE LastOf(fs, next)

Joined(l1, l2) == IF l1 = NO_JUMP THEN l2 ELSE l1
luaK_concat(fs, l1, l2) ==
  IF l2 = NO_JUMP \/ l1 = NO_JUMP THEN fs
  ELSE fixjump(fs, LastOf(fs, l1), l2)

getjumpcontrol(fs, i) ==
  IF i >= 1 /\ At(fs, i - 1).op \in TMode THEN i - 1 ELSE i

(* The result register of the test that controls a jump: none needed, or the  *)
(* value is already there, makes a TESTSET a plain TEST.                      *)
patchtestreg(fs, node, reg) ==
  LET c == getjumpcontrol(fs, node)
      i == At(fs, c)
  IN IF i.op # "OP_TESTSET" THEN fs
     ELSE IF reg # NO_REG /\ reg # i.B THEN SetArg(fs, c, "A", reg)
     ELSE [fs EXCEPT !.code[c + 1] =
             [op |-> "OP_TEST", A |-> i.B, B |-> 0, C |-> i.C]]
IsTestSet(fs, node) == At(fs, getjumpcontrol(fs, node)).op = "OP_TESTSET"

RECURSIVE removevalues(_, _)
removevalues(fs, list) ==
  IF list = NO_JUMP THEN fs
  ELSE removevalues(patchtestreg(fs, list, NO_REG), getjump(fs, list))

(* Jumps that produce a value go to vtarget, the others to dtarget.           *)
RECURSIVE patchlistaux(_, _, _, _, _)
patchlistaux(fs, list, vtarget, reg, dtarget) ==
  IF list = NO_JUMP THEN fs
  ELSE LET next == getjump(fs, list)
           dest == IF IsTestSet(fs, list) THEN vtarget ELSE dtarget
       IN patchlistaux(fixjump(patchtestreg(fs, list, reg), list, dest),
                       next, vtarget, reg, dtarget)

dischargejpc(fs) ==
  [patchlistaux(fs, fs.jpc, Pc(fs), NO_REG, Pc(fs)) EXCEPT !.jpc = NO_JUMP]

luaK_code(fs, i) == LET d == dischargejpc(fs) IN [d EXCEPT !.code = Append(@, i)]
luaK_codeABC(fs, o, a, b, c) == luaK_code(fs, [op |-> o, A |-> a, B |-> b, C |-> c])
luaK_codeABx(fs, o, a, bx) == luaK_codeABC(fs, o, a, bx, 0)
codeextraarg(fs, a) == luaK_codeABC(fs, "OP_EXTRAARG", a, 0, 0)

(* A position that jumps may reach: code before it must not be combined with  *)
(* code after it.                                                             *)
luaK_getlabel(fs) == [fs EXCEPT !.lasttarget = Pc(fs)]

luaK_patchtohere(fs, list) ==
  LET g == luaK_getlabel(fs)
  IN [luaK_concat(g, g.jpc, list) EXCEPT !.jpc = Joined(g.jpc, list)]

luaK_patchlist(fs, list, target) ==
  IF target = Pc(fs) THEN luaK_patchtohere(fs, list)
  ELSE patchlistaux(fs, list, target, NO_REG, target)

(* The jumps of a list also close upvalues from a level on.                   *)
RECURSIVE luaK_patchclose(_, _, _)
luaK_patchclose(fs, list, level) ==
  IF list = NO_JUMP THEN fs
  ELSE LET a == lua_assert(fs, At(fs, list).A = 0 \/ At(fs, list).A >= level + 1)
       IN luaK_patchclose(SetArg(a, list, "A", level + 1), getjump(fs, list), level)

(* A jump inherits the jumps that wait for the position it is coded at.       *)
luaK_jump(fs) ==
  LET j == Pc(fs)
      c == luaK_codeABC([fs EXCEPT !.jpc = NO_JUMP], "OP_JMP", 0, NO_JUMP, 0)
  IN luaK_concat(c, j, fs.jpc)

condjump(fs, o, a, b, c) == Code("luaK_jump", <<luaK_codeABC(fs, o, a, b, c)>>)
luaK_ret(fs, first, nret) == luaK_codeABC(fs, "OP_RETURN", first, nret + 1, 0)

(* Nils for a range of registers join a range just before it.                 *)
luaK_nil(fs, from, n) ==
  LET l == from + n - 1
      p == At(fs, Pc(fs) - 1)
      pl == p.A + p.B
      first == IF p.A < from THEN p.A ELSE from
      last == IF pl > l THEN pl ELSE l
      joins == /\ Pc(fs) > fs.lasttarget
               /\ p.op = "OP_LOADNIL"
               /\ \/ p.A <= from /\ from <= pl + 1
                  \/ from <= p.A /\ p.A <= l + 1
  IN IF joins
     THEN SetArg(SetArg(fs, Pc(fs) - 1, "A", first), Pc(fs) - 1, "B", last - first)
     ELSE luaK_codeABC(fs, "OP_LOADNIL", from, n - 1, 0)

------------------------------------------------------------------------------
(* Registers and constants.                                                   *)

(* Mutant: one register less is counted.                                      *)
luaK_checkstackLess(fs, n) ==
  IF fs.freereg + n - 1 <= fs.maxstacksize THEN fs
  ELSE [fs EXCEPT !.maxstacksize = fs.freereg + n - 1]
luaK_checkstack(fs, n) ==
  LET newstack == fs.freereg + n
  IN IF newstack <= fs.maxstacksize THEN fs
     ELSE IF newstack >= MAXREGS
     THEN syntaxerror(fs, "function or expression needs too many registers")
     ELSE [fs EXCEPT !.maxstacksize = newstack]

luaK_reserveregs(fs, n) ==
  LET c == luaK_checkstack(fs, n) IN [c EXCEPT !.freereg = @ + n]

(* Temporaries are freed in the order of a stack; the code asserts it.        *)
freereg(fs, reg) ==
  IF ISK(reg) \/ reg < fs.nactvar THEN fs
  ELSE [lua_assert(fs, reg = fs.freereg - 1) EXCEPT !.freereg = @ - 1]
freeexp(fs, e) == IF e.k = "VNONRELOC" THEN freereg(fs, e.info) ELSE fs

RegOf(e) == IF e.k = "VNONRELOC" THEN e.info ELSE -1
(* Mutant: always in the order they were computed.                            *)
freeexpsInOrder(fs, e1, e2) == freeexp(freeexp(fs, e1), e2)
freeexps(fs, e1, e2) ==
  LET r1 == RegOf(e1)
      r2 == RegOf(e2)
      free(g, r) == IF r < 0 THEN g ELSE freereg(g, r)
  IN IF r1 > r2 THEN free(free(fs, r1), r2) ELSE free(free(fs, r2), r1)

(* The cache ls.h is shared by all functions of a chunk: an entry may be of   *)
(* another function, so the constant found is compared with the one wanted.   *)
addk(fs, key, v) ==
  LET found == /\ key \in DOMAIN fs.ls.h
               /\ fs.ls.h[key] < Len(fs.k)
               /\ fs.k[fs.ls.h[key] + 1][1] = v[1]
               /\ luaV_equalobj(fs.k[fs.ls.h[key] + 1], v)
  IN IF found THEN [fs |-> fs, r |-> fs.ls.h[key]]
     ELSE [fs |-> [fs EXCEPT !.k = Append(@, v), !.ls.h = (key :> Len(fs.k)) @@ @],
           r |-> Len(fs.k)]

luaK_stringK(fs, s) == addk(fs, s, s)
luaK_intK(fs, v) == addk(fs, <<"p", v>>, v)
(* A float key with an integral value becomes that integer: both zeros are    *)
(* the same key, and equal as constants.                                      *)
FloatKey(v) == IF luaV_tointeger(v, 0) = None THEN v ELSE luaV_tointeger(v, 0)
luaK_numberK(fs, v) == addk(fs, FloatKey(v), v)
boolK(fs, b) == addk(fs, <<"bool", b>>, <<"bool", b>>)
nilK(fs) == addk(fs, <<"h">>, Nil)

luaK_codek(fs, reg, k) ==
  IF k <= MAXARG_Bx THEN luaK_codeABx(fs, "OP_LOADK", reg, k)
  ELSE codeextraarg(luaK_codeABx(fs, "OP_LOADKX", reg, 0), k)
------------------------------------------------------------------------------
(* Expressions.                                                               *)

luaK_setreturns(fs, e, nresults) ==
  CASE e.k = "VCALL" -> SetArg(fs, e.info, "C", nresults + 1)
    [] e.k = "VVARARG" ->
         luaK_reserveregs(SetArg(SetArg(fs, e.info, "B", nresults + 1),
                                 e.info, "A", fs.freereg), 1)
    [] OTHER -> fs

luaK_setoneret(s) ==
  CASE s.e.k = "VCALL" ->
         [s EXCEPT !.e.k = "VNONRELOC", !.e.info = At(s.fs, s.e.info).A]
    [] s.e.k = "VVARARG" ->
         [fs |-> SetArg(s.fs, s.e.info, "B", 2), e |-> [s.e EXCEPT !.k = "VRELOCABLE"]]
    [] OTHER -> s

(* The expression becomes the result of the instruction coded last.           *)
Reloc(fs, e) == S(fs, [e EXCEPT !.k = "VRELOCABLE", !.info = Pc(fs) - 1])
Nonreloc(fs, e, reg) == S(fs, [e EXCEPT !.k = "VNONRELOC", !.info = reg])

luaK_dischargevars(s) ==
  LET e == s.e
      ind == e.ind
      f1 == freereg(s.fs, ind.idx)
  IN CASE e.k = "VLOCAL" -> Nonreloc(s.fs, e, e.info)
       [] e.k = "VUPVAL" -> Reloc(luaK_codeABC(s.fs, "OP_GETUPVAL", 0, e.info, 0), e)
       [] e.k = "VINDEXED" /\ ind.vt = "VLOCAL" ->
            Reloc(luaK_codeABC(freereg(f1, ind.t), "OP_GETTABLE", 0, ind.t, ind.idx), e)
       [] e.k = "VINDEXED" /\ ind.vt = "VUPVAL" ->
            Reloc(luaK_codeABC(f1, "OP_GETTABUP", 0, ind.t, ind.idx), e)
       [] OTHER -> luaK_setoneret(s)

(* The value without its jumps goes to a register.                            *)
discharge2reg(s0, reg) ==
  LET s == Code("luaK_dischargevars", <<s0>>)
      fs == s.fs
      e == s.e
      const(a) == luaK_codek(a.fs, reg, a.r)
      coded ==
        CASE e.k = "VNIL" -> luaK_nil(fs, reg, 1)
          [] e.k = "VFALSE" -> luaK_codeABC(fs, "OP_LOADBOOL", reg, 0, 0)
          [] e.k = "VTRUE" -> luaK_codeABC(fs, "OP_LOADBOOL", reg, 1, 0)
          [] e.k = "VK" -> luaK_codek(fs, reg, e.info)
          [] e.k = "VKFLT" -> const(luaK_numberK(fs, e.val))
          [] e.k = "VKINT" -> const(luaK_intK(fs, e.val))
          [] e.k = "VRELOCABLE" -> SetArg(fs, e.info, "A", reg)
          [] e.k = "VNONRELOC" ->
               IF reg = e.info THEN fs ELSE luaK_codeABC(fs, "OP_MOVE", reg, e.info, 0)
  IN IF e.k \in {"VJMP", "VVOID"} THEN s ELSE Nonreloc(coded, e, reg)

discharge2anyreg(s) ==
  IF s.e.k = "VNONRELOC" THEN s
  ELSE LET f == luaK_reserveregs(s.fs, 1)
       IN Code("discharge2reg", <<S(f, s.e), f.freereg - 1>>)

RECURSIVE need_value(_, _)
need_value(fs, list) ==
  list # NO_JUMP /\ (~IsTestSet(fs, list) \/ need_value(fs, getjump(fs, list)))

code_loadbool(fs, a, b, jump) ==
  luaK_codeABC(luaK_getlabel(fs), "OP_LOADBOOL", a, b, jump)

(* The value and what its jumps stand for go to a register: jumps without a   *)
(* value go to instructions that load false or true, coded only if needed.    *)
exp2reg(s0, reg) ==
  LET s == Code("discharge2reg", <<s0, reg>>)
      jmp == s.e.k = "VJMP"
      fs1 == IF jmp THEN luaK_concat(s.fs, s.e.t, s.e.info) ELSE s.fs
      e1 == IF jmp THEN [s.e EXCEPT !.t = Joined(@, s.e.info)] ELSE s.e
      need == need_value(fs1, e1.t) \/ need_value(fs1, e1.f)
      fs2 == IF jmp THEN fs1 ELSE Code("luaK_jump", <<fs1>>)
      fs3 == code_loadbool(fs2, reg, 0, 1)
      fs4 == code_loadbool(fs3, reg, 1, 0)
      fs5 == luaK_patchtohere(fs4, IF jmp THEN NO_JUMP ELSE Pc(fs2) - 1)
      fs6 == luaK_getlabel(IF need THEN fs5 ELSE fs1)
      p_f == IF need THEN Pc(fs3) - 1 ELSE NO_JUMP
      p_t == IF need THEN Pc(fs4) - 1 ELSE NO_JUMP
      fs7 == patchlistaux(fs6, e1.f, Pc(fs6), reg, p_f)
      fs8 == patchlistaux(fs7, e1.t, Pc(fs6), reg, p_t)
      done(g) == Nonreloc(g, [e1 EXCEPT !.t = NO_JUMP, !.f = NO_JUMP], reg)
  IN IF hasjumps(e1) THEN done(fs8) ELSE done(fs1)

luaK_exp2nextreg(s0) ==
  LET s == Code("luaK_dischargevars", <<s0>>)
      f == luaK_reserveregs(freeexp(s.fs, s.e), 1)
  IN Code("exp2reg", <<S(f, s.e), f.freereg - 1>>)

luaK_exp2anyreg(s0) ==
  LET s == Code("luaK_dischargevars", <<s0>>)
  IN CASE s.e.k = "VNONRELOC" /\ ~hasjumps(s.e) -> s
       [] s.e.k = "VNONRELOC" /\ hasjumps(s.e) /\ s.e.info >= s.fs.nactvar ->
            Code("exp2reg", <<s, s.e.info>>)
       [] OTHER -> Code("luaK_exp2nextreg", <<s>>)

luaK_exp2anyregup(s) ==
  IF s.e.k # "VUPVAL" \/ hasjumps(s.e) THEN Code("luaK_exp2anyreg", <<s>>) ELSE s
luaK_exp2val(s) ==
  IF hasjumps(s.e) THEN Code("luaK_exp2anyreg", <<s>>) ELSE Code("luaK_dischargevars", <<s>>)

(* A register, or a constant if its number fits an operand; r is the operand. *)
luaK_exp2RK(s0) ==
  LET s == Code("luaK_exp2val", <<s0>>)
      e == s.e
      c == CASE e.k = "VTRUE" -> boolK(s.fs, TRUE)
             [] e.k = "VFALSE" -> boolK(s.fs, FALSE)
             [] e.k = "VNIL" -> nilK(s.fs)
             [] e.k = "VKINT" -> luaK_intK(s.fs, e.val)
             [] e.k = "VKFLT" -> luaK_numberK(s.fs, e.val)
             [] e.k = "VK" -> [fs |-> s.fs, r |-> e.info]
      ck == S(c.fs, [e EXCEPT !.k = "VK", !.info = c.r])
      inreg(t) == [fs |-> t.fs, e |-> t.e, r |-> t.e.info]
  IN IF e.k \notin {"VTRUE", "VFALSE", "VNIL", "VKINT", "VKFLT", "VK"}
     THEN inreg(Code("luaK_exp2anyreg", <<s>>))
     ELSE IF c.r <= MAXINDEXRK THEN [fs |-> ck.fs, e |-> ck.e, r |-> RKASK(c.r)]
     ELSE inreg(Code("luaK_exp2anyreg", <<ck>>))

luaK_storevar(fs, var, ex) ==
  LET any == Code("luaK_exp2anyreg", <<S(fs, ex)>>)
      rk == Code("luaK_exp2RK", <<S(fs, ex)>>)
      op == IF var.ind.vt = "VLOCAL" THEN "OP_SETTABLE" ELSE "OP_SETTABUP"
  IN CASE var.k = "VLOCAL" -> Code("exp2reg", <<S(freeexp(fs, ex), ex), var.info>>).fs
       [] var.k = "VUPVAL" ->
            freeexp(luaK_codeABC(any.fs, "OP_SETUPVAL", any.e.info, var.info, 0), any.e)
       [] var.k = "VINDEXED" ->
            freeexp(luaK_codeABC(rk.fs, op, var.ind.t, var.ind.idx, rk.r), rk.e)
       [] OTHER -> fs

luaK_self(s0, key) ==
  LET s == Code("luaK_exp2anyreg", <<s0>>)
      f == freeexp(s.fs, s.e)
      base == f.freereg
      k == Code("luaK_exp2RK", <<S(luaK_reserveregs(f, 2), key)>>)
      coded == luaK_codeABC(k.fs, "OP_SELF", base, s.e.info, k.r)
  IN Nonreloc(freeexp(coded, k.e), s.e, base)

negatecondition(fs, e) ==
  LET c == getjumpcontrol(fs, e.info)
  IN SetArg(fs, c, "A", IF At(fs, c).A = 0 THEN 1 ELSE 0)

(* A jump that is taken if the value is cond (1 or 0); "not" costs nothing.   *)
jumponcond(s0, cond) ==
  LET ie == At(s0.fs, s0.e.info)
      isnot == s0.e.k = "VRELOCABLE" /\ ie.op = "OP_NOT"
      popped == [s0.fs EXCEPT !.code = SubSeq(@, 1, Len(@) - 1)]
      s == discharge2anyreg(s0)
      f == freeexp(s.fs, s.e)
      t == IF isnot
           THEN S(condjump(popped, "OP_TEST", ie.B, 0, 1 - cond), s0.e)
           ELSE S(condjump(f, "OP_TESTSET", NO_REG, s.e.info, cond), s.e)
  IN [fs |-> t.fs, e |-> t.e, pc |-> Pc(t.fs) - 1]

NoJump(s) == [fs |-> s.fs, e |-> s.e, pc |-> NO_JUMP]

luaK_goiftrue(s0) ==
  LET s == Code("luaK_dischargevars", <<s0>>)
      j == CASE s.e.k = "VJMP" ->
                  [fs |-> negatecondition(s.fs, s.e), e |-> s.e, pc |-> s.e.info]
             [] s.e.k \in {"VK", "VKFLT", "VKINT", "VTRUE"} -> NoJump(s)
             [] OTHER -> Code("jumponcond", <<s, 0>>)
      f == luaK_concat(j.fs, j.e.f, j.pc)
  IN S(luaK_patchtohere(f, j.e.t),
       [j.e EXCEPT !.f = Joined(@, j.pc), !.t = NO_JUMP])

luaK_goiffalse(s0) ==
  LET s == Code("luaK_dischargevars", <<s0>>)
      j == CASE s.e.k = "VJMP" -> [fs |-> s.fs, e |-> s.e, pc |-> s.e.info]
             [] s.e.k \in {"VNIL", "VFALSE"} -> NoJump(s)
             [] OTHER -> Code("jumponcond", <<s, 1>>)
      f == luaK_concat(j.fs, j.e.t, j.pc)
  IN S(luaK_patchtohere(f, j.e.f),
       [j.e EXCEPT !.t = Joined(@, j.pc), !.f = NO_JUMP])

codenot(s0) ==
  LET s == Code("luaK_dischargevars", <<s0>>)
      d == discharge2anyreg(s)
      c == CASE s.e.k \in {"VNIL", "VFALSE"} -> [s EXCEPT !.e.k = "VTRUE"]
             [] s.e.k \in {"VK", "VKFLT", "VKINT", "VTRUE"} -> [s EXCEPT !.e.k = "VFALSE"]
             [] s.e.k = "VJMP" -> S(negatecondition(s.fs, s.e), s.e)
             [] OTHER -> Reloc(luaK_codeABC(freeexp(d.fs, d.e), "OP_NOT", 0, d.e.info, 0), d.e)
      e == [c.e EXCEPT !.t = c.e.f, !.f = c.e.t]
  IN S(removevalues(removevalues(c.fs, e.f), e.t), e)

luaK_indexed(fs, t, k) ==
  LET rk == Code("luaK_exp2RK", <<S(fs, k)>>)
      vt == IF t.k = "VUPVAL" THEN "VUPVAL" ELSE "VLOCAL"
  IN S(rk.fs, [t EXCEPT !.k = "VINDEXED",
                        !.ind = [t |-> t.info, idx |-> rk.r, vt |-> vt]])

(* Operations on numerals are done now, unless they raise an error or give a  *)
(* NaN or a zero (there are two, and the cache of constants tells no one).    *)
validop(op, v1, v2) ==
  CASE op \in BitOps -> luaV_tointeger(v1, 0) # None /\ luaV_tointeger(v2, 0) # None
    [] op \in {"DIV", "IDIV", "MOD"} -> ~luaV_equalobj(v2, Integer(0))
    [] OTHER -> TRUE
constfolding(op, e1, e2) ==
  LET can == tonumeral(e1) /\ tonumeral(e2) /\ validop(op, e1.val, e2.val)
      res == luaO_arith(op, e1.val, e2.val)
  IN CASE ~can -> FALSE
       [] ttisinteger(res) -> TRUE
       [] OTHER -> res # NaN /\ ~luai_numeq(res, Flt(0, 1))
Folded(op, e1, e2) ==
  LET res == luaO_arith(op, e1.val, e2.val)
  IN [e1 EXCEPT !.k = IF ttisinteger(res) THEN "VKINT" ELSE "VKFLT", !.val = res]

codeunexpval(s0, op) ==
  LET s == Code("luaK_exp2anyreg", <<s0>>)
  IN Reloc(luaK_codeABC(freeexp(s.fs, s.e), op, 0, s.e.info, 0), s.e)

codebinexpval(fs, op, e1, e2) ==
  LET rk2 == Code("luaK_exp2RK", <<S(fs, e2)>>)
      rk1 == Code("luaK_exp2RK", <<S(rk2.fs, e1)>>)
  IN Reloc(luaK_codeABC(freeexps(rk1.fs, rk1.e, rk2.e), op, 0, rk1.r, rk2.r), rk1.e)

codecomp(fs, opr, e1, e2) ==
  LET rk1 == IF e1.k = "VK" THEN RKASK(e1.info) ELSE e1.info
      rk2 == Code("luaK_exp2RK", <<S(fs, e2)>>)
      f == freeexps(rk2.fs, e1, rk2.e)
      coded == CASE opr = "NE" -> condjump(f, "OP_EQ", 0, rk1, rk2.r)
                 [] opr = "GT" -> condjump(f, "OP_LT", 1, rk2.r, rk1)
                 [] opr = "GE" -> condjump(f, "OP_LE", 1, rk2.r, rk1)
                 [] OTHER -> condjump(f, "OP_" \o opr, 1, rk1, rk2.r)
  IN S(coded, [e1 EXCEPT !.k = "VJMP", !.info = Pc(coded) - 1])

luaK_prefix(s, op) ==
  LET zero == [init_exp("VKINT", 0) EXCEPT !.val = Integer(0)]
  IN CASE op \in {"UNM", "BNOT"} /\ Code("constfolding", <<op, s.e, zero>>) ->
            S(s.fs, Code("Folded", <<op, s.e, zero>>))
       [] op = "NOT" -> codenot(s)
       [] OTHER -> Code("codeunexpval", <<s, "OP_" \o op>>)

ArithOps == {"ADD", "SUB", "MUL", "DIV", "IDIV", "MOD", "POW",
             "BAND", "BOR", "BXOR", "SHL", "SHR"}
luaK_infix(s, op) ==
  LET rk == Code("luaK_exp2RK", <<s>>)
  IN CASE op = "AND" -> Code("luaK_goiftrue", <<s>>)
       [] op = "OR" -> Code("luaK_goiffalse", <<s>>)
       [] op = "CONCAT" -> Code("luaK_exp2nextreg", <<s>>)
       [] op \in ArithOps /\ tonumeral(s.e) -> s
       [] OTHER -> S(rk.fs, rk.e)

luaK_posfix(fs, op, e1, e2) ==
  LET s2 == Code("luaK_dischargevars", <<S(fs, e2)>>)
      v == Code("luaK_exp2val", <<S(fs, e2)>>)
      n == Code("luaK_exp2nextreg", <<v>>)
  IN CASE op = "AND" ->
            S(luaK_concat(s2.fs, s2.e.f, e1.f), [s2.e EXCEPT !.f = Joined(@, e1.f)])
       [] op = "OR" ->
            S(luaK_concat(s2.fs, s2.e.t, e1.t), [s2.e EXCEPT !.t = Joined(@, e1.t)])
       [] op = "CONCAT" ->
            IF v.e.k = "VRELOCABLE" /\ At(v.fs, v.e.info).op = "OP_CONCAT"
            THEN S(SetArg(freeexp(v.fs, e1), v.e.info, "B", e1.info),
                   [e1 EXCEPT !.k = "VRELOCABLE", !.info = v.e.info])
            ELSE Code("codebinexpval", <<n.fs, "OP_CONCAT", e1, n.e>>)
       [] op \in ArithOps ->
            IF Code("constfolding", <<op, e1, e2>>) THEN S(fs, Code("Folded", <<op, e1, e2>>))
            ELSE Code("codebinexpval", <<fs, "OP_" \o op, e1, e2>>)
       [] OTHER -> Code("codecomp", <<fs, op, e1, e2>>)

(* A batch of items of a constructor; its number may need a second instruction*)
luaK_setlist(fs, base, nelems, tostore) ==
  LET c == (nelems - 1) \div LFIELDS_PER_FLUSH + 1
      b == IF tostore = LUA_MULTRET THEN 0 ELSE tostore
      coded == IF c <= MAXARG_C THEN luaK_codeABC(fs, "OP_SETLIST", base, b, c)
               ELSE IF c <= MAXARG_Ax THEN codeextraarg(luaK_codeABC(fs, "OP_SETLIST", base, b, 0), c)
               ELSE syntaxerror(fs, "constructor too long")
  IN [coded EXCEPT !.freereg = base + 1]

------------------------------------------------------------------------------
Code(f, args) ==
  CASE args = <<>> -> Nil
    [] f = "discharge2reg" -> discharge2reg(args[1], args[2])
    [] f = "exp2reg" -> exp2reg(args[1], args[2])
    [] f = "luaK_exp2nextreg" -> luaK_exp2nextreg(args[1])
    [] f = "luaK_exp2anyreg" -> luaK_exp2anyreg(args[1])
    [] f = "luaK_exp2val" -> luaK_exp2val(args[1])
    [] f = "luaK_exp2RK" -> luaK_exp2RK(args[1])
    [] f = "luaK_storevar" -> luaK_storevar(args[1], args[2], args[3])
    [] f = "luaK_self" -> luaK_self(args[1], args[2])
    [] f = "luaK_indexed" -> luaK_indexed(args[1], args[2], args[3])
    [] f = "luaK_infix" -> luaK_infix(args[1], args[2])
    [] f = "luaK_posfix" -> luaK_posfix(args[1], args[2], args[3], args[4])
    [] f = "luaK_prefix" -> luaK_prefix(args[1], args[2])
    [] f = "luaK_goiftrue" -> luaK_goiftrue(args[1])
    [] f = "luaK_goiffalse" -> luaK_goiffalse(args[1])
    [] f = "jumponcond" -> jumponcond(args[1], args[2])
    [] f = "codebinexpval" -> codebinexpval(args[1], args[2], args[3], args[4])
    [] f = "codeunexpval" -> codeunexpval(args[1], args[2])
    [] f = "codecomp" -> codecomp(args[1], args[2], args[3], args[4])
    [] f = "constfolding" -> constfolding(args[1], args[2], args[3])
    [] f = "luaK_exp2anyregup" -> luaK_exp2anyregup(args[1])
    [] f = "luaK_dischargevars" -> luaK_dischargevars(args[1])
    [] f = "luaK_jump" -> luaK_jump(args[1])
    [] f = "luaK_stringK" -> luaK_stringK(args[1], args[2])
    [] f = "luaK_setlist" -> luaK_setlist(args[1], args[2], args[3], args[4])
    [] f = "Folded" -> Folded(args[1], args[2], args[3])
==============================================================================
