------------------------------- MODULE LuaVM -------------------------------
(* The virtual machine (lvm.c with the calls of ldo.c): chunks run on the     *)
(* bytecode the compiler model makes of their tokens.  A step is an           *)
(* instruction; the tests run the jump that follows them in the same step, as *)
(* in the code.  Functions outside (f, g, it) show what a chunk does: "trace" *)
(* records their calls.  Metamethods, hooks and the collector are left out.   *)
EXTENDS LuaParser

CONSTANTS Chunks,      \* chunk -> its tokens
          STACKSIZE,   \* slots of the stack
          CFUNCTIONS   \* names of the functions outside

VARIABLES chunk,       \* the chunk that runs
          main,        \* the prototype of its main function
          stack,       \* slots, from 0
          top,         \* L->top: the first free slot
          ci,          \* frames: [func, base, top, pc, nresults]
          clos,        \* closures: [p (path of the prototype), upvals]
          cache,       \* prototype -> the closure it created last
          upv,         \* upvalues: [open, at, v]
          tabs,        \* tables: functions from keys to values
          trace,       \* calls of the functions outside
          outcome      \* <<"run">>, <<"done", values>> or an error
vars == <<chunk, main, stack, top, ci, clos, cache, upv, tabs, trace, outcome>>

TableV(a) == <<"tab", a>>
ClosureV(a) == <<"fn", a>>
CFunctionV(n) == <<"cfn", n>>
(* What the outside can see of a value.                                       *)
Shown(v) == IF v[1] \in {"tab", "fn", "cfn"} THEN <<v[1]>> ELSE v

(* The prototype at a path from the main function.                            *)
ProtoAt(path) ==
  LET p[n \in 0 .. Len(path)] == IF n = 0 THEN main
                                 ELSE LET q == p[n - 1] IN q.p[path[n]]
  IN p[Len(path)]

(* The frame that runs, its function and its instruction.                     *)
Frame == ci[Len(ci)]
Cl == clos[stack[Frame.func][2]]
Pr == ProtoAt(Cl.p)
Ins == Pr.code[Frame.pc + 1]
ExtraArg == Pr.code[Frame.pc + 2]
Reg(a) == Frame.base + a
RA == Reg(Ins.A)
RegB == stack[Reg(Ins.B)]
RK(x) == IF ISK(x) THEN Pr.k[x - BITRK + 1] ELSE stack[Reg(x)]
Running(op) == outcome = <<"run">> /\ Ins.op = op

Write(s, at, vals) ==
  [i \in DOMAIN s |-> IF i \in at .. at + Len(vals) - 1 THEN vals[i - at + 1] ELSE s[i]]
Slots(from, to) == [i \in 1 .. to - from |-> stack[from + i - 1]]
Nils(n) == [i \in 1 .. n |-> Nil]

Goto(pc) == ci' = [ci EXCEPT ![Len(ci)].pc = pc]
Step == Goto(Frame.pc + 1)
luaG_runerror == outcome' = <<"error">> /\ UNCHANGED <<chunk, main, stack, top, ci, clos, cache, upv, tabs, trace>>
Heap == UNCHANGED <<chunk, main, clos, cache, upv, tabs, trace, outcome>>
SetRA(v) == stack' = [stack EXCEPT ![RA] = v] /\ Step /\ UNCHANGED top /\ Heap
(* The value None stands for an error.                                        *)
SetOrError(v) == IF v = None THEN luaG_runerror ELSE SetRA(v)

------------------------------------------------------------------------------
(* Upvalues and tables.                                                       *)

Get(u) == IF upv[u].open THEN stack[upv[u].at] ELSE upv[u].v
(* Open upvalues from a level on take the values of their slots.              *)
luaF_close(level) ==
  upv' = [u \in DOMAIN upv |-> IF upv[u].open /\ upv[u].at >= level
                               THEN [open |-> FALSE, at |-> 0, v |-> stack[upv[u].at]]
                               ELSE upv[u]]

(* A key that is a float with an integral value is that integer.              *)
Key(k) == IF ttisfloat(k) /\ luaV_tointeger(k, 0) # None THEN luaV_tointeger(k, 0) ELSE k
Gettable(t, k) ==
  IF t[1] # "tab" THEN None
  ELSE IF Key(k) \in DOMAIN tabs[t[2]] THEN tabs[t[2]][Key(k)] ELSE Nil
Stored(h, k, v) ==
  IF v = Nil THEN [x \in DOMAIN h \ {Key(k)} |-> h[x]] ELSE (Key(k) :> v) @@ h
luaH_getn(h) ==
  CHOOSE n \in 0 .. Cardinality(DOMAIN h) :
    /\ \A i \in 1 .. n : Integer(i) \in DOMAIN h
    /\ Integer(n + 1) \notin DOMAIN h
Settable(t, k, v) ==
  IF t[1] # "tab" \/ k \in {Nil, NaN} THEN luaG_runerror
  ELSE /\ tabs' = [tabs EXCEPT ![t[2]] = Stored(@, k, v)]
       /\ Step
       /\ UNCHANGED <<chunk, main, stack, top, clos, cache, upv, trace, outcome>>

------------------------------------------------------------------------------
(* Instructions that move values.                                             *)

OP_MOVE == Running("OP_MOVE") /\ SetRA(RegB)
OP_LOADK == Running("OP_LOADK") /\ SetRA(Pr.k[Ins.B + 1])
OP_LOADKX ==
  /\ Running("OP_LOADKX")
  /\ stack' = [stack EXCEPT ![RA] = Pr.k[ExtraArg.A + 1]]
  /\ Goto(Frame.pc + 2) /\ UNCHANGED top /\ Heap
OP_LOADBOOL ==
  /\ Running("OP_LOADBOOL")
  /\ stack' = [stack EXCEPT ![RA] = Bool(Ins.B = 1)]
  /\ Goto(Frame.pc + 1 + Ins.C) /\ UNCHANGED top /\ Heap
OP_LOADNIL ==
  /\ Running("OP_LOADNIL")
  /\ stack' = Write(stack, RA, Nils(Ins.B + 1))
  /\ Step /\ UNCHANGED top /\ Heap

OP_GETUPVAL == Running("OP_GETUPVAL") /\ SetRA(Get(Cl.upvals[Ins.B + 1]))
OP_SETUPVAL ==
  LET u == Cl.upvals[Ins.B + 1]
  IN /\ Running("OP_SETUPVAL")
     /\ IF upv[u].open
        THEN stack' = [stack EXCEPT ![upv[u].at] = stack[RA]] /\ UNCHANGED upv
        ELSE upv' = [upv EXCEPT ![u].v = stack[RA]] /\ UNCHANGED stack
     /\ Step /\ UNCHANGED <<chunk, main, top, clos, cache, tabs, trace, outcome>>

OP_GETTABUP ==
  Running("OP_GETTABUP") /\ SetOrError(Gettable(Get(Cl.upvals[Ins.B + 1]), RK(Ins.C)))
OP_GETTABLE == Running("OP_GETTABLE") /\ SetOrError(Gettable(RegB, RK(Ins.C)))
OP_SETTABUP ==
  Running("OP_SETTABUP") /\ Settable(Get(Cl.upvals[Ins.A + 1]), RK(Ins.B), RK(Ins.C))
OP_SETTABLE == Running("OP_SETTABLE") /\ Settable(stack[RA], RK(Ins.B), RK(Ins.C))
OP_NEWTABLE ==
  /\ Running("OP_NEWTABLE")
  /\ stack' = [stack EXCEPT ![RA] = TableV(Len(tabs) + 1)]
  /\ tabs' = Append(tabs, <<>>)
  /\ Step /\ UNCHANGED <<chunk, main, top, clos, cache, upv, trace, outcome>>
OP_SELF ==
  LET v == Gettable(RegB, RK(Ins.C))
  IN /\ Running("OP_SELF")
     /\ IF v = None THEN luaG_runerror
        ELSE stack' = Write(stack, RA, <<v, RegB>>) /\ Step /\ UNCHANGED top /\ Heap

(* A batch of items, up to the top if the last item is a call or "...".       *)
OP_SETLIST ==
  LET n == IF Ins.B = 0 THEN top - RA - 1 ELSE Ins.B
      c == IF Ins.C = 0 THEN ExtraArg.A ELSE Ins.C
      first == (c - 1) * LFIELDS_PER_FLUSH
      t == stack[RA][2]
      items[i \in 0 .. n] ==
        IF i = 0 THEN tabs[t]
        ELSE LET h == items[i - 1] IN Stored(h, Integer(first + i), stack[RA + i])
  IN /\ Running("OP_SETLIST")
     /\ tabs' = [tabs EXCEPT ![t] = items[n]]
     /\ top' = Frame.top
     /\ Goto(Frame.pc + (IF Ins.C = 0 THEN 2 ELSE 1))
     /\ UNCHANGED <<chunk, main, stack, clos, cache, upv, trace, outcome>>

------------------------------------------------------------------------------
(* Arithmetic: integers first, then floats, then (no metamethods) an error.   *)

Integral == {"OP_ADD", "OP_SUB", "OP_MUL", "OP_MOD", "OP_IDIV"}
Floating == {"OP_DIV", "OP_POW"}
Bitwise == {"OP_BAND", "OP_BOR", "OP_BXOR", "OP_SHL", "OP_SHR"}
Name(op) == CHOOSE n \in ArithOps \cup {"UNM", "BNOT"} : op = "OP_" \o n

OP_Arith ==
  LET rb == RK(Ins.B)
      rc == RK(Ins.C)
      op == Name(Ins.op)
      ib == luaV_tointeger(rb, 0)
      ic == luaV_tointeger(rc, 0)
      nb == tonumber(rb)
      nc == tonumber(rc)
  IN /\ outcome = <<"run">> /\ Ins.op \in Integral \cup Floating \cup Bitwise
     /\ \E v \in {CASE Ins.op \in Bitwise ->
                       IF None \in {ib, ic} THEN None ELSE intarith(op, ib[2], ic[2])
                  [] Ins.op \in Integral /\ ttisinteger(rb) /\ ttisinteger(rc) ->
                       intarith(op, rb[2], rc[2])
                  [] OTHER -> IF None \in {nb, nc} THEN None ELSE numarith(op, nb, nc)} :
          SetOrError(v)
OP_UNM ==
  /\ Running("OP_UNM")
  /\ SetOrError(CASE ttisinteger(RegB) -> Integer(-RegB[2])
                  [] tonumber(RegB) # None -> luai_numunm(tonumber(RegB))
                  [] OTHER -> None)
OP_BNOT ==
  LET ib == luaV_tointeger(RegB, 0)
  IN Running("OP_BNOT") /\ SetOrError(IF ib = None THEN None ELSE Integer(-1 - ib[2]))
OP_NOT == Running("OP_NOT") /\ SetRA(Bool(l_isfalse(RegB)))
OP_LEN ==
  /\ Running("OP_LEN")
  /\ SetOrError(CASE ttisstring(RegB) -> Integer(Len(RegB[2]))
                  [] RegB[1] = "tab" -> Integer(luaH_getn(tabs[RegB[2]]))
                  [] OTHER -> None)
(* The result takes the place of the first operand, then goes to its register.*)
OP_CONCAT ==
  LET v == luaV_concat(Slots(Reg(Ins.B), Reg(Ins.C) + 1))
  IN /\ Running("OP_CONCAT")
     /\ IF v = None THEN luaG_runerror
        ELSE /\ stack' = [stack EXCEPT ![Reg(Ins.B)] = v, ![RA] = v]
             /\ top' = Frame.top /\ Step /\ Heap

------------------------------------------------------------------------------
(* Jumps: they may close upvalues.                                            *)

dojump(pc, i) ==
  /\ Goto(pc + 1 + i.B)
  /\ IF i.A # 0 THEN luaF_close(Frame.base + i.A - 1) ELSE UNCHANGED upv
  /\ UNCHANGED <<chunk, main, top, clos, cache, tabs, trace, outcome>>
OP_JMP == Running("OP_JMP") /\ dojump(Frame.pc, Ins) /\ UNCHANGED stack

(* A test skips the jump that follows, or runs it at once.                    *)
Skip == Goto(Frame.pc + 2) /\ UNCHANGED <<stack, top>> /\ Heap
donextjump == dojump(Frame.pc + 1, ExtraArg)
Compare(op, res) ==
  /\ Running(op)
  /\ CASE res = None -> luaG_runerror
       [] res # None /\ res # Bool(Ins.A = 1) -> Skip
       [] OTHER -> donextjump /\ UNCHANGED stack
OP_EQ == Compare("OP_EQ", Bool(luaV_equalobj(RK(Ins.B), RK(Ins.C))))
OP_LT == Compare("OP_LT", luaV_lessthan(RK(Ins.B), RK(Ins.C)))
OP_LE == Compare("OP_LE", luaV_lessequal(RK(Ins.B), RK(Ins.C)))
OP_TEST ==
  /\ Running("OP_TEST")
  /\ IF l_isfalse(stack[RA]) = (Ins.C = 1) THEN Skip ELSE donextjump /\ UNCHANGED stack
OP_TESTSET ==
  /\ Running("OP_TESTSET")
  /\ IF l_isfalse(RegB) = (Ins.C = 1) THEN Skip
     ELSE donextjump /\ stack' = [stack EXCEPT ![RA] = RegB]

------------------------------------------------------------------------------
(* Calls.                                                                     *)

(* Results go where the called function was; as many as wanted.               *)
moveresults(s, res, vals, wanted) ==
  IF wanted = LUA_MULTRET
  THEN [s |-> Write(s, res, vals), top |-> res + Len(vals)]
  ELSE [s |-> Write(s, res, SubSeq(vals \o Nils(wanted), 1, wanted)), top |-> res + wanted]

(* The frame of a Lua function: missing arguments are nil; with "..." the     *)
(* fixed ones move above the arguments.                                       *)
LuaFrame(s, func, ltop, nresults) ==
  LET p == ProtoAt(clos[s[func][2]].p)
      n == ltop - func - 1
      args == [i \in 1 .. p.numparams |-> IF i <= n THEN s[func + i] ELSE Nil]
      base == IF p.is_vararg THEN ltop ELSE func + 1
      gone == IF p.is_vararg
              THEN Write(s, func + 1, Nils(IF n < p.numparams THEN n ELSE p.numparams)) ELSE s
  IN [stack |-> Write(gone, base, args), top |-> base + p.maxstacksize,
      frame |-> [func |-> func, base |-> base, top |-> base + p.maxstacksize, pc |-> 0,
                 nresults |-> nresults]]

(* The functions outside: f returns its arguments, g nothing, and it counts   *)
(* from one to its first argument.                                            *)
CFunction(n, args) ==
  LET arg(i) == IF i <= Len(args) THEN args[i] ELSE Nil
  IN CASE n = "f" -> args
       [] n = "g" -> <<>>
       [] n = "it" -> CASE arg(2) = Nil -> <<Integer(1), arg(1)>>
                        [] arg(2) # Nil /\ LTnum(arg(2), arg(1)) ->
                             <<Integer(arg(2)[2] + 1), arg(1)>>
                        [] OTHER -> <<Nil>>

(* Pc: where the caller goes on.                                              *)
luaD_precall(s, func, ltop, nresults, pc) ==
  LET fv == s[func]
      args == [i \in 1 .. ltop - func - 1 |-> s[func + i]]
      r == moveresults(s, func, CFunction(fv[2], args), nresults)
      l == LuaFrame(s, func, ltop, nresults)
  IN CASE fv[1] = "cfn" ->
            /\ stack' = r.s
            /\ top' = IF nresults >= 0 THEN Frame.top ELSE r.top
            /\ trace' = Append(trace, <<fv[2]>> \o [i \in DOMAIN args |-> Shown(args[i])])
            /\ Goto(pc)
            /\ UNCHANGED <<chunk, main, clos, cache, upv, tabs, outcome>>
       [] fv[1] = "fn" /\ l.top <= STACKSIZE ->
            /\ stack' = l.stack /\ top' = l.top
            /\ ci' = Append([ci EXCEPT ![Len(ci)].pc = pc], l.frame)
            /\ Heap
       [] OTHER -> luaG_runerror

OP_CALL ==
  /\ Running("OP_CALL")
  /\ luaD_precall(stack, RA, IF Ins.B # 0 THEN RA + Ins.B ELSE top, Ins.C - 1, Frame.pc + 1)

(* A tail call puts the new frame in place of its caller's; a C function is   *)
(* called, and the return that follows gives its results.                     *)
OP_TAILCALL ==
  LET ltop == IF Ins.B # 0 THEN RA + Ins.B ELSE top
      nci == LuaFrame(stack, RA, ltop, LUA_MULTRET)
      n == nci.frame.base + ProtoAt(clos[stack[RA][2]].p).numparams - RA
      moved == Write(nci.stack, Frame.func, [i \in 1 .. n |-> nci.stack[RA + i - 1]])
      d == RA - Frame.func
  IN /\ Running("OP_TAILCALL")
     /\ IF stack[RA][1] # "fn" \/ nci.top > STACKSIZE
        THEN luaD_precall(stack, RA, ltop, LUA_MULTRET, Frame.pc + 1)
        ELSE /\ IF Pr.p # <<>> THEN luaF_close(Frame.base) ELSE UNCHANGED upv
             /\ stack' = moved
             /\ top' = nci.top - d
             /\ ci' = [ci EXCEPT ![Len(ci)] =
                         [@ EXCEPT !.base = nci.frame.base - d, !.top = nci.top - d, !.pc = 0]]
             /\ UNCHANGED <<chunk, main, clos, cache, tabs, trace, outcome>>

OP_RETURN ==
  LET vals == Slots(RA, IF Ins.B # 0 THEN RA + Ins.B - 1 ELSE top)
      r == moveresults(stack, Frame.func, vals, Frame.nresults)
      rest == SubSeq(ci, 1, Len(ci) - 1)
  IN /\ Running("OP_RETURN")
     /\ IF Pr.p # <<>> THEN luaF_close(Frame.base) ELSE UNCHANGED upv
     /\ IF Len(ci) = 1
        THEN /\ outcome' = <<"done">> \o [i \in DOMAIN vals |-> Shown(vals[i])]
             /\ UNCHANGED <<stack, top, ci>>
        ELSE /\ stack' = r.s
             /\ top' = IF Frame.nresults # LUA_MULTRET THEN rest[Len(rest)].top ELSE r.top
             /\ ci' = rest
             /\ UNCHANGED outcome
     /\ UNCHANGED <<chunk, main, clos, cache, tabs, trace>>

(* Arguments beyond the fixed ones are below the frame.                       *)
OP_VARARG ==
  LET n0 == Frame.base - Frame.func - Pr.numparams - 1
      n == IF n0 < 0 THEN 0 ELSE n0
      b == IF Ins.B = 0 THEN n ELSE Ins.B - 1
  IN /\ Running("OP_VARARG")
     /\ IF Ins.B = 0 /\ top + n > STACKSIZE THEN luaG_runerror
        ELSE /\ stack' = Write(stack, RA, SubSeq(Slots(Frame.base - n, Frame.base) \o Nils(b), 1, b))
             /\ top' = IF Ins.B = 0 THEN RA + n ELSE top
             /\ Step /\ Heap

------------------------------------------------------------------------------
(* Loops.                                                                     *)

OP_FORPREP ==
  LET init == stack[RA]
      step == stack[RA + 2]
      lim == forlimit(stack[RA + 1], step[2])
      initv == IF lim.stopnow THEN 0 ELSE init[2]
      nums == <<tonumber(init), tonumber(stack[RA + 1]), tonumber(step)>>
      ints == ttisinteger(init) /\ ttisinteger(step) /\ lim.p # None
      prepared == IF ints THEN <<Integer(initv - step[2]), lim.p>>
                  ELSE <<luai_numsub(nums[1], nums[3]), nums[2], nums[3]>>
  IN /\ Running("OP_FORPREP")
     /\ IF ~ints /\ None \in {nums[1], nums[2], nums[3]} THEN luaG_runerror
        ELSE /\ stack' = Write(stack, RA, prepared)
             /\ Goto(Frame.pc + 1 + Ins.B) /\ UNCHANGED top /\ Heap

OP_FORLOOP ==
  LET v == stack[RA]
      limit == stack[RA + 1]
      step == stack[RA + 2]
      idx == IF ttisinteger(v) THEN Integer(v[2] + step[2]) ELSE luai_numadd(v, step)
      on == IF ttisinteger(v)
            THEN IF 0 < step[2] THEN idx[2] <= limit[2] ELSE limit[2] <= idx[2]
            ELSE IF luai_numlt(Flt(0, 1), step) THEN luai_numle(idx, limit)
                 ELSE luai_numle(limit, idx)
  IN /\ Running("OP_FORLOOP")
     /\ IF on THEN /\ stack' = [stack EXCEPT ![RA] = idx, ![RA + 3] = idx]
                   /\ Goto(Frame.pc + 1 + Ins.B)
        ELSE Step /\ UNCHANGED stack
     /\ UNCHANGED top /\ Heap

(* The generator and its arguments are copied above the loop's variables; the *)
(* test that follows the call is a step of its own, for the call may be of a  *)
(* Lua function.                                                              *)
OP_TFORCALL ==
  /\ Running("OP_TFORCALL")
  /\ luaD_precall(Write(stack, RA + 3, Slots(RA, RA + 3)), RA + 3, RA + 6, Ins.C, Frame.pc + 1)
OP_TFORLOOP ==
  /\ Running("OP_TFORLOOP")
  /\ IF stack[RA + 1] # Nil
     THEN stack' = [stack EXCEPT ![RA] = stack[RA + 1]] /\ Goto(Frame.pc + 1 + Ins.B)
     ELSE Step /\ UNCHANGED stack
  /\ UNCHANGED top /\ Heap

------------------------------------------------------------------------------
(* Closures: the one created last is used again if it has the same upvalues.  *)

(* The upvalue for a slot: the open one there, or a new one.                  *)
OpenAt(us, level) == {u \in DOMAIN us : us[u].open /\ us[u].at = level}
OP_CLOSURE ==
  LET path == Append(Cl.p, Ins.B + 1)
      p == ProtoAt(path)
      n == Len(p.upvals)
      \* the upvalues of the new closure, and all upvalues with those it creates
      made[i \in 0 .. n] ==
        IF i = 0 THEN [us |-> upv, enc |-> <<>>]
        ELSE LET m == made[i - 1]
                 d == p.upvals[i]
                 at == Frame.base + d.idx
             IN CASE ~d.instack -> [m EXCEPT !.enc = Append(@, Cl.upvals[d.idx + 1])]
                  [] d.instack /\ OpenAt(m.us, at) # {} ->
                       [m EXCEPT !.enc = Append(@, CHOOSE u \in OpenAt(m.us, at) : TRUE)]
                  [] OTHER -> [us |-> Append(m.us, [open |-> TRUE, at |-> at, v |-> Nil]),
                               enc |-> Append(m.enc, Len(m.us) + 1)]
      r == made[n]
      again == path \in DOMAIN cache /\ clos[cache[path]].upvals = r.enc
      a == IF again THEN cache[path] ELSE Len(clos) + 1
  IN /\ Running("OP_CLOSURE")
     /\ stack' = [stack EXCEPT ![RA] = ClosureV(a)]
     /\ upv' = r.us
     /\ clos' = IF again THEN clos ELSE Append(clos, [p |-> path, upvals |-> r.enc])
     /\ cache' = (path :> a) @@ cache
     /\ Step /\ UNCHANGED <<chunk, main, top, tabs, trace, outcome>>

------------------------------------------------------------------------------
(* The main function has one upvalue, _ENV, with the table of globals.        *)
Start(c, result) ==
  /\ chunk = c
  /\ main = result.proto
  /\ stack = [i \in 0 .. STACKSIZE - 1 |-> IF i = 0 THEN ClosureV(1) ELSE Nil]
  /\ top = 1 + main.maxstacksize
  /\ ci = <<[func |-> 0, base |-> 1, top |-> top, pc |-> 0, nresults |-> LUA_MULTRET]>>
  /\ clos = <<[p |-> <<>>, upvals |-> <<1>>]>>
  /\ cache = <<>>
  /\ upv = <<[open |-> FALSE, at |-> 0, v |-> TableV(1)]>>
  /\ tabs = <<[k \in {Str(n) : n \in CFUNCTIONS} |-> CFunctionV(k[2])]>>
  /\ trace = <<>>
  /\ outcome = CASE result.failed -> <<"assertion">>
                  [] ~result.failed /\ result.err = "" -> <<"run">>
                  [] OTHER -> <<"syntax", result.err>>
Init == \E c \in DOMAIN Chunks : \E result \in {Parse("luaY_parser", <<Chunks[c]>>)} : Start(c, result)

Next ==
  \/ OP_MOVE \/ OP_LOADK \/ OP_LOADKX \/ OP_LOADBOOL \/ OP_LOADNIL
  \/ OP_GETUPVAL \/ OP_SETUPVAL \/ OP_GETTABUP \/ OP_GETTABLE \/ OP_SETTABUP
  \/ OP_SETTABLE \/ OP_NEWTABLE \/ OP_SELF \/ OP_SETLIST
  \/ OP_Arith \/ OP_UNM \/ OP_BNOT \/ OP_NOT \/ OP_LEN \/ OP_CONCAT
  \/ OP_JMP \/ OP_EQ \/ OP_LT \/ OP_LE \/ OP_TEST \/ OP_TESTSET
  \/ OP_CALL \/ OP_TAILCALL \/ OP_RETURN \/ OP_VARARG
  \/ OP_FORPREP \/ OP_FORLOOP \/ OP_TFORCALL \/ OP_TFORLOOP \/ OP_CLOSURE

(* The program goes on while it runs: weak fairness of Next, where            *)
(* outcome = <<"run">> stands for ENABLED <<Next>>_vars.                      *)
Fairness == <>[](outcome = <<"run">>) => []<><<Next>>_vars
Spec == Init /\ [][Next]_vars /\ Fairness

------------------------------------------------------------------------------
(* Properties                                                                 *)

(* The last register an instruction names, and those of its operands.         *)
LastA(i) ==
  CASE i.op \in {"OP_JMP", "OP_EQ", "OP_LT", "OP_LE", "OP_SETTABUP"} -> -1
    [] i.op \in {"OP_LOADNIL", "OP_SETLIST"} -> i.A + i.B
    [] i.op \in {"OP_SELF", "OP_TFORLOOP"} -> i.A + 1
    [] i.op \in {"OP_FORPREP", "OP_FORLOOP"} -> i.A + 3
    [] i.op = "OP_TFORCALL" -> IF i.C > 3 THEN i.A + 2 + i.C ELSE i.A + 5
    [] i.op \in {"OP_CALL", "OP_TAILCALL"} -> IF i.B > i.C THEN i.A + i.B - 1 ELSE i.A + i.C - 2
    [] i.op \in {"OP_RETURN", "OP_VARARG"} -> i.A + i.B - 2
    [] OTHER -> i.A
UsesB == {"OP_MOVE", "OP_GETTABLE", "OP_SETTABUP", "OP_SETTABLE", "OP_SELF", "OP_UNM", "OP_BNOT", "OP_NOT",
          "OP_LEN", "OP_CONCAT", "OP_EQ", "OP_LT", "OP_LE", "OP_TESTSET"} \cup Integral \cup Floating \cup Bitwise
UsesC == (UsesB \ {"OP_MOVE", "OP_UNM", "OP_BNOT", "OP_NOT", "OP_LEN", "OP_TESTSET"}) \cup {"OP_GETTABUP"}
Operands(i) ==
  {x \in (IF i.op \in UsesB THEN {i.B} ELSE {}) \cup (IF i.op \in UsesC THEN {i.C} ELSE {}) : ~ISK(x)}

(* The compiler has counted every register its code uses (the virtual machine *)
(* makes room for maxstacksize registers and never looks again), has never    *)
(* freed one out of order, and no other assertion of lcode.c and lparser.c    *)
(* fails.                                                                     *)
RegistersFit ==
  /\ outcome # <<"assertion">>
  /\ outcome = <<"run">> => \A r \in {LastA(Ins)} \cup Operands(Ins) : r < Pr.maxstacksize

(* The registers of the locals in scope where a frame goes on.                *)
ActiveLocals(f) ==
  LET p == ProtoAt(clos[stack[f.func][2]].p)
      active == {i \in DOMAIN p.locvars : p.locvars[i].startpc <= f.pc /\ f.pc < p.locvars[i].endpc}
  IN f.base .. f.base + Cardinality(active) - 1

(* An upvalue is open only while its variable is in scope: every way out of a *)
(* block whose variables are captured closes them, be it the end of the block *)
(* or of a loop's turn, break, goto in any direction, return or a tail call.  *)
ClosedOutOfScope ==
  outcome = <<"run">> =>
    \A u \in DOMAIN upv : upv[u].open => \E i \in DOMAIN ci : upv[u].at \in ActiveLocals(ci[i])

(* Programs that terminate do so when compiled.                               *)
Terminates == <>(outcome # <<"run">>)
==============================================================================
