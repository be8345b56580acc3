---------------------------- MODULE LuaCalls_proofs ----------------------------
(***************************************************************************)
(* The C stack and the lists of frames always fit each other, for all      *)
(* limits and any number of coroutines.                                    *)
(*                                                                         *)
(* An activation has the frames from the one it was called from up to      *)
(* those of the next activation of its thread, and these frames are in     *)
(* states that say who goes on after them (Shape).  Shape is stated one    *)
(* activation at a time, so that pushing, popping and cutting keep it by   *)
(* lemmas of their own, and each action is then one of these.              *)
(***************************************************************************)
EXTENDS LuaCalls, SequenceTheorems, FiniteSetTheorems, WellFoundedInduction, TLAPS

-----------------------------------------------------------------------------
(* The shape of the stacks: the i-th activation of cs has the frames of    *)
(* its thread from cs[i].ci + 1 up to Above(cs, f, i).                     *)

Above(cs, f, i) ==
    IF i < Len(cs) /\ cs[i + 1].th = cs[i].th THEN cs[i + 1].ci ELSE Len(f[cs[i].th])

Unrollable(fr) ==
    \/ fr.fn = "lua" /\ fr.st \in {"call", "meta"}
    \/ fr.fn = "dofile" /\ fr.st = "in"
    \/ fr.ypcall

Forbids(r) == r.c = "luaD_call" /\ r.noyield

(* What an activation is to the one below it.                              *)
Linked(cs, i) ==
    LET r == cs[i]  q == cs[i - 1] IN
    IF i = 1 THEN r.c = "luaD_pcall" /\ r.th = Main /\ r.ci = 0 /\ ~r.gc
    ELSE /\ r.c = "lua_resume" => r.th \in Co /\ r.ci = 0 /\ q.c # "luaD_pcall"
         /\ r.c # "lua_resume" => r.th = q.th /\ q.ci <= r.ci
         /\ r.c = "luaV_execute" => \/ q.c = "lua_resume"
                                    \/ q.c = "luaD_call" /\ q.ci = r.ci
         /\ r.c = "luaD_call" =>
              /\ r.caller = "meta" => q.c = "luaV_execute" /\ ~r.noyield
              /\ r.caller = "hook" => q.c = "luaV_execute" /\ r.noyield
              /\ r.caller = "handler" => q.c # "luaD_pcall" /\ r.noyield
              /\ q.c = "luaD_pcall" => r.noyield /\ q.ci = r.ci
         /\ r.c = "luaD_pcall" => /\ q.c # "luaD_pcall"
                                  /\ r.gc => q.c = "luaV_execute"

(* What an activation is to the frame that called it.                      *)
Called(cs, f, i) ==
    LET r == cs[i]  fr == f[r.th][r.ci] IN
    /\ r.ci <= Len(f[r.th])
    /\ r.c = "luaV_execute" => (cs[i - 1].c = "lua_resume" /\ r.ci > 0 => Unrollable(fr))
    /\ r.c = "luaD_call" =>
         /\ r.caller = "meta" => r.ci > 0 /\ fr.fn = "lua" /\ fr.st = "meta"
         /\ r.caller = "hook" => r.ci > 0 /\ fr.fn = "lua" /\ fr.st = "out"
         /\ r.caller = "handler" /\ r.ci > cs[i - 1].ci => (fr.fn = "lua" \/ fr.st \in Resting)
         /\ r.caller = "function" /\ cs[i - 1].c # "luaD_pcall" =>
              /\ r.ci > 0 /\ fr.st = "in"
              /\ \/ fr.fn = "sort" /\ r.noyield
                 \/ fr.fn = "dofile"
                 \/ fr.fn \in {"pcall", "xpcall"} /\ fr.ypcall /\ ~r.noyield
    /\ r.c = "luaD_pcall" =>
         \/ i = 1
         \/ r.ci > 0 /\ r.gc /\ fr.fn = "lua" /\ fr.st = "out"
         \/ r.ci > 0 /\ ~r.gc /\ fr.fn \in {"pcall", "xpcall"} /\ fr.st = "in" /\ ~fr.ypcall
    /\ r.c = "lua_resume" =>
         LET g == f[cs[i - 1].th] IN
         /\ Len(g) > cs[i - 1].ci
         /\ g[Len(g)].fn \in {"resume", "wrap"} /\ g[Len(g)].st = "in"

(* The frames an activation has.                                           *)
Owns(cs, f, i) ==
    LET r == cs[i]  a == Above(cs, f, i)  F == f[r.th] IN
    /\ r.ci <= a /\ a <= Len(F)
    /\ r.c = "luaV_execute" =>
         /\ a > r.ci /\ F[r.ci + 1].fn = "lua" /\ F[r.ci + 1].fresh
         /\ \A p \in r.ci + 1 .. a - 1 : F[p].fn = "lua" /\ F[p].st = "call"
         /\ \A p \in r.ci + 2 .. a : ~F[p].fresh
    /\ r.c = "luaD_call" =>
         /\ a <= r.ci + 1
         /\ a > r.ci => F[a].fn # "lua"
         /\ i < Len(cs) /\ a = r.ci =>
              \/ cs[i + 1].c = "luaV_execute"
              \/ cs[i + 1].c = "luaD_call" /\ cs[i + 1].caller = "handler"
    /\ r.c = "luaD_pcall" /\ i < Len(cs) => cs[i + 1].c = "luaD_call" /\ cs[i + 1].caller = "function"
    /\ r.c = "lua_resume" => \A p \in 1 .. a - 1 : Unrollable(F[p])

(* The functions below an activation that may yield can be continued.      *)
Continuable(cs, f, i) ==
    (\A j \in 1 .. i : cs[j].th = cs[i].th => cs[j].c # "luaD_pcall" /\ ~Forbids(cs[j]))
        => \A p \in 1 .. cs[i].ci : Unrollable(f[cs[i].th][p])

(* A protected call in progress is known to recover or has its luaD_pcall, *)
(* and then it is not known to recover nor is any above it.                *)
InPCall(fr) == fr.fn \in {"pcall", "xpcall"} /\ fr.st = "in"
Protects(cs, f, i) ==
    /\ \A p \in 1 .. cs[i].ci :
         LET fr == f[cs[i].th][p] IN
         InPCall(fr) /\ ~fr.ypcall =>
             \E j \in 1 .. i : /\ cs[j].th = cs[i].th /\ cs[j].ci = p
                               /\ cs[j].c = "luaD_pcall" /\ ~cs[j].gc
    /\ \A j \in 1 .. i : cs[j].th = cs[i].th /\ cs[j].c = "luaD_pcall" =>
         \A p \in cs[j].ci .. cs[i].ci : p > 0 => ~f[cs[i].th][p].ypcall
    /\ \A p \in 1 .. cs[i].ci : f[cs[i].th][p].ypcall =>
         \A q \in 1 .. p - 1 : Unrollable(f[cs[i].th][q])

(* A thread that is resumed has no activation yet.                         *)
Apart(cs, i) ==
    \A j \in 1 .. i - 1 : cs[j].th = cs[i].th =>
        /\ \A l \in j + 1 .. i : cs[l].c # "lua_resume" /\ cs[l].th = cs[i].th
        /\ cs[j].ci <= cs[i].ci

Shape(cs, f) ==
    \A i \in 1 .. Len(cs) :
        /\ Linked(cs, i) /\ Apart(cs, i) /\ Called(cs, f, i) /\ Owns(cs, f, i)
        /\ Continuable(cs, f, i) /\ Protects(cs, f, i)

(* The activation and the frame on top.                                    *)
Rests(r, F) ==
    LET a == Len(F) IN
    /\ r.ci <= a
    /\ r.c = "luaV_execute" =>
         /\ a > r.ci /\ F[r.ci + 1].fn = "lua" /\ F[r.ci + 1].fresh
         /\ \A p \in r.ci + 1 .. a - 1 : F[p].fn = "lua" /\ F[p].st = "call"
         /\ \A p \in r.ci + 2 .. a : ~F[p].fresh
    /\ r.c = "luaD_call" => a <= r.ci + 1 /\ (a > r.ci => F[a].fn # "lua")
    /\ r.c = "lua_resume" => \A p \in 1 .. a - 1 : Unrollable(F[p])

Ready(r, F, x) ==
    LET a == Len(F) IN
    /\ r.c # "luaD_pcall"
    /\ x = "no" =>
         /\ r.c = "luaV_execute" => F[a].st \in {"run"} \cup Resting
         /\ r.c = "luaD_call" => a = r.ci + 1 /\ F[a].st \in Resting
         /\ r.c = "lua_resume" /\ a > 0 => (Unrollable(F[a]) \/ F[a].st \in Resting)
    /\ x # "no" /\ a > r.ci => (F[a].fn = "lua" \/ F[a].st \in Resting)

OnTop(cs, f, x) ==
    LET r == cs[Len(cs)] IN IF cs = <<>> THEN x = "no" ELSE Ready(r, f[r.th], x)

Suspended(f, th) ==
    /\ f[th] # <<>> /\ f[th][Len(f[th])].fn = "yield"
    /\ \A p \in 1 .. Len(f[th]) - 1 : Unrollable(f[th][p])

Threads ==
    /\ \A i \in 1 .. Len(cstack) : status[cstack[i].th] = "LUA_OK" /\ cstack[i].th \notin unstarted
    /\ status[Main] = "LUA_OK"
    /\ \A th \in Co : status[th] = "LUA_YIELD" => Suspended(ci, th) /\ th \notin unstarted
    /\ \A th \in unstarted : status[th] = "LUA_OK"

-----------------------------------------------------------------------------
(* What the fields and the activations remember                            *)

CallsTo(cs, n) == {i \in 1 .. n : cs[i].c \in {"luaD_call", "lua_resume"}}
ForbidsTo(cs, th, n) == {i \in 1 .. n : cs[i].th = th /\ Forbids(cs[i])}
HooksOff(cs, th, n) ==
    \E i \in 1 .. n : /\ cs[i].th = th
                      /\ \/ cs[i].c = "luaD_call" /\ cs[i].caller = "hook"
                         \/ cs[i].c = "luaD_pcall" /\ cs[i].gc
Base(cs, th) == IF th = Main \/ \A i \in 1 .. Len(cs) : cs[i].th # th THEN 1 ELSE 0

Remembers(cs, i) ==
    LET r == cs[i] IN
    /\ r.c = "luaD_pcall" =>
         /\ r.nCcalls = Cardinality(CallsTo(cs, i - 1))
         /\ r.nny = (IF r.th = Main THEN 1 ELSE 0) + Cardinality(ForbidsTo(cs, r.th, i - 1))
         /\ r.allowhook = ~HooksOff(cs, r.th, i - 1)
    /\ r.c = "luaD_call" /\ r.caller = "hook" => ~HooksOff(cs, r.th, i - 1)
    /\ r.c = "lua_resume" => r.nCcalls = Cardinality(CallsTo(cs, i)) /\ r.nny = 1

CountsOf(cs, nc, ny, ah, st) ==
    /\ \A i \in 1 .. Len(cs) : (i = Len(cs) \/ cs[i + 1].th # cs[i].th)
                                => nc[cs[i].th] = Cardinality(CallsTo(cs, i))
    /\ \A th \in Thread :
         /\ ny[th] = Base(cs, th) + Cardinality(ForbidsTo(cs, th, Len(cs)))
         /\ st[th] # "error" => ah[th] = ~HooksOff(cs, th, Len(cs))
    /\ \A i \in 1 .. Len(cs) : Remembers(cs, i)

Counts == CountsOf(cstack, nCcalls, nny, allowhook, status)

-----------------------------------------------------------------------------
(* Activations and frames                                                  *)

LEMMA EntryFields ==
    ASSUME NEW r \in Entry
    PROVE  /\ r.c \in {"luaV_execute", "luaD_call", "luaD_pcall", "lua_resume"}
           /\ r.th \in Thread /\ r.ci \in Nat
           /\ r.c = "lua_resume" => r.ci = 0 /\ r.nCcalls \in Nat /\ r.nny \in Nat
           /\ r.c = "luaD_call" => /\ r.caller \in {"meta", "hook", "handler", "function"}
                                   /\ r.noyield \in BOOLEAN
           /\ r.c = "luaD_pcall" => /\ r.gc \in BOOLEAN /\ r.nCcalls \in Nat /\ r.nny \in Nat
                                    /\ r.errfunc \in BOOLEAN /\ r.allowhook \in BOOLEAN
  BY DEF Entry

LEMMA FrameFields ==
    ASSUME NEW fr \in CallInfo
    PROVE  /\ fr.fn \in Functions /\ fr.st \in LuaStates \cup Resting \cup {"in"}
           /\ fr.fn = "lua" <=> fr.st \in LuaStates
           /\ fr.fresh => fr.fn = "lua"
           /\ fr.ypcall => fr.fn \in {"pcall", "xpcall"} /\ fr.st = "in" /\ fr.oah
           /\ {fr.fresh, fr.ypcall, fr.old_errfunc, fr.oah} \subseteq BOOLEAN
  BY DEF CallInfo

(* The activations that stay and the frames below the last of them are as  *)
(* they were; frames above it, and threads without activation, may change. *)
Keeps(cs, f, cs2, f2, k) ==
    /\ \A i \in 1 .. k : cs2[i] = cs[i]
    /\ \A i \in 1 .. k : cs[i].th # cs[k].th => f2[cs[i].th] = f[cs[i].th]
    /\ cs[k].ci <= Len(f2[cs[k].th])
    /\ \A p \in 1 .. cs[k].ci : f2[cs[k].th][p] = f[cs[k].th][p]

LEMMA Below ==
    ASSUME NEW cs \in Seq(Entry), NEW f \in [Thread -> Seq(CallInfo)], Shape(cs, f),
           NEW cs2 \in Seq(Entry), NEW f2 \in [Thread -> Seq(CallInfo)],
           NEW k \in 1 .. Len(cs), k <= Len(cs2), Keeps(cs, f, cs2, f2, k), NEW i \in 1 .. k
    PROVE  /\ Linked(cs2, i) /\ Apart(cs2, i) /\ Called(cs2, f2, i)
           /\ Continuable(cs2, f2, i) /\ Protects(cs2, f2, i)
           /\ i < k => Owns(cs2, f2, i)
<1> DEFINE th == cs[i].th
<1>0. Len(cs) \in Nat /\ Len(cs2) \in Nat /\ k \in Nat /\ i \in Nat /\ i >= 1 /\ i <= k /\ k <= Len(cs)
  OBVIOUS
<1>1. /\ Linked(cs, i) /\ Apart(cs, i) /\ Called(cs, f, i) /\ Owns(cs, f, i)
      /\ Continuable(cs, f, i) /\ Protects(cs, f, i) /\ Apart(cs, k)
  BY DEF Shape
<1>2. \A j \in 1 .. k : cs2[j] = cs[j] /\ cs[j] \in Entry
  BY DEF Keeps
<1>3. /\ th \in Thread /\ cs[i].ci \in Nat /\ cs[k].ci \in Nat /\ cs[k].th \in Thread
      /\ f[th] \in Seq(CallInfo) /\ f2[th] \in Seq(CallInfo)
  BY <1>2, EntryFields
<1>4. \A j \in 1 .. k : j < k /\ cs[j].th = cs[k].th
                            => cs[j + 1].th = cs[j].th /\ cs[j].ci <= cs[k].ci
  BY <1>1, <1>2, EntryFields DEF Apart
<1>5. cs[i].ci <= Len(f2[th]) /\ \A p \in 1 .. cs[i].ci : f2[th][p] = f[th][p]
  <2>1. CASE th = cs[k].th
    BY SMTT(30), <2>1, <1>3, <1>4 DEF Keeps
  <2>2. CASE th # cs[k].th
    BY <2>2, <1>1, <1>3 DEF Keeps, Called
  <2> QED BY <2>1, <2>2
<1>2a. cs2[i] = cs[i] /\ (i # 1 => cs2[i - 1] = cs[i - 1])
  BY <1>2
<1>6. Linked(cs2, i)
  BY <1>1, <1>2a DEF Linked
<1>7. Apart(cs2, i)
  <2> SUFFICES ASSUME NEW j \in 1 .. i - 1, cs2[j].th = cs2[i].th
               PROVE  /\ \A l \in j + 1 .. i : cs2[l].c # "lua_resume" /\ cs2[l].th = cs2[i].th
                      /\ cs2[j].ci <= cs2[i].ci
    BY DEF Apart
  <2>1. cs2[j] = cs[j] /\ \A l \in j + 1 .. i : cs2[l] = cs[l]
    BY <1>2
  <2> QED BY <2>1, <1>2a, <1>1 DEF Apart
<1>8. Called(cs2, f2, i)
  <2>1. cs[i].c = "lua_resume" => i > 1 /\ f2[cs[i - 1].th] = f[cs[i - 1].th]
    <3>1. ASSUME cs[i].c = "lua_resume" PROVE i > 1 /\ cs[i - 1].th # cs[k].th
      <4>0. Linked(cs, i) /\ Apart(cs, k)
        BY <1>1
      <4>1. i # 1
        BY <3>1, <4>0 DEF Linked
      <4>2. ASSUME cs[i - 1].th = cs[k].th PROVE FALSE
        <5>1. i - 1 \in 1 .. k - 1 /\ i \in (i - 1) + 1 .. k
          BY <4>1, <1>0
        <5> QED BY <5>1, <4>2, <3>1, <4>0 DEF Apart
      <4> QED BY <4>1, <4>2, <1>0
    <3>2. i > 1 => i - 1 \in 1 .. k
      BY <1>0
    <3> QED BY <3>1, <3>2 DEF Keeps
  <2>3. cs[i].ci > 0 => f2[th][cs[i].ci] = f[th][cs[i].ci]
    <3>1. cs[i].ci > 0 => cs[i].ci \in 1 .. cs[i].ci
      BY <1>3
    <3> QED BY <3>1, <1>5
  <2>4. i = 1 => cs[i].c = "luaD_pcall"
    BY <1>1 DEF Linked
  <2>5. i # 1 /\ cs[i].ci > cs[i - 1].ci => cs[i].ci > 0
    <3>1. i # 1 => i - 1 \in 1 .. k
      BY <1>0
    <3> QED BY <3>1, <1>2, EntryFields
  <2> QED BY ZenonT(30), <2>1, <1>2a, <2>3, <2>4, <2>5, <1>0, <1>1, <1>5 DEF Called, Unrollable
<1>9. Continuable(cs2, f2, i)
  <2>1. \A j \in 1 .. i : cs2[j] = cs[j]
    BY <1>0, <1>2
  <2> QED BY <2>1, <1>2a, <1>1, <1>5 DEF Continuable, Unrollable, Forbids
<1>10. Protects(cs2, f2, i)
  <2> DEFINE b == cs[i].ci
  <2>1. \A p \in 1 .. b : f2[th][p] = f[th][p]
    BY <1>5
  <2>2. cs2[i] = cs[i] /\ \A j \in 1 .. i : cs2[j] = cs[j] /\ cs[j].ci \in Nat
    BY <1>0, <1>2, EntryFields
  <2>3. \A p \in 1 .. b : InPCall(f2[th][p]) /\ ~f2[th][p].ypcall =>
             \E j \in 1 .. i : /\ cs2[j].th = th /\ cs2[j].ci = p
                               /\ cs2[j].c = "luaD_pcall" /\ ~cs2[j].gc
    <3> SUFFICES ASSUME NEW p \in 1 .. b, InPCall(f2[th][p]), ~f2[th][p].ypcall
                 PROVE  \E j \in 1 .. i : /\ cs2[j].th = th /\ cs2[j].ci = p
                                          /\ cs2[j].c = "luaD_pcall" /\ ~cs2[j].gc
      OBVIOUS
    <3>1. InPCall(f[th][p]) /\ ~f[th][p].ypcall
      BY <2>1
    <3>2. PICK j \in 1 .. i : /\ cs[j].th = th /\ cs[j].ci = p
                             /\ cs[j].c = "luaD_pcall" /\ ~cs[j].gc
      BY <3>1, <1>1 DEF Protects
    <3> QED BY <3>2, <2>2
  <2>4. \A j \in 1 .. i : cs2[j].th = th /\ cs2[j].c = "luaD_pcall" =>
             \A p \in cs2[j].ci .. b : p > 0 => ~f2[th][p].ypcall
    <3> SUFFICES ASSUME NEW j \in 1 .. i, cs2[j].th = th, cs2[j].c = "luaD_pcall",
                        NEW p \in cs2[j].ci .. b, p > 0
                 PROVE  ~f2[th][p].ypcall
      OBVIOUS
    <3>1. cs2[j] = cs[j] /\ cs[j].ci \in Nat /\ p \in 1 .. b
      BY <2>2, <1>3
    <3>2. ~f[th][p].ypcall
      BY <3>1, <1>1 DEF Protects
    <3> QED BY <3>1, <3>2, <2>1
  <2>5. \A p \in 1 .. b : f2[th][p].ypcall => \A q \in 1 .. p - 1 : Unrollable(f2[th][q])
    <3> SUFFICES ASSUME NEW p \in 1 .. b, f2[th][p].ypcall, NEW q \in 1 .. p - 1
                 PROVE  Unrollable(f2[th][q])
      OBVIOUS
    <3>1. q \in 1 .. b
      BY <1>3
    <3>2. f[th][p].ypcall
      BY <2>1
    <3>3. Unrollable(f[th][q])
      BY <3>2, <1>1 DEF Protects
    <3> QED BY <3>1, <3>3, <2>1
  <2> QED BY <2>2, <2>3, <2>4, <2>5 DEF Protects
<1>11. i < k => Owns(cs2, f2, i)
  <2> SUFFICES ASSUME i < k PROVE Owns(cs2, f2, i)
    OBVIOUS
  <2> DEFINE a == Above(cs, f, i)
  <2>1. i < Len(cs) /\ i < Len(cs2) /\ cs2[i] = cs[i] /\ cs2[i + 1] = cs[i + 1]
    BY <1>2
  <2>2. Above(cs2, f2, i) = a /\ a \in Nat /\ a <= Len(f2[th])
        /\ \A p \in 1 .. a : f2[th][p] = f[th][p]
    <3>1. CASE th = cs[k].th
      <4>1. cs[i + 1].th = th /\ i + 1 \in 1 .. k
        BY <3>1, <1>4
      <4>2. cs[i + 1].ci \in Nat /\ cs[i + 1].ci <= cs[k].ci
        BY <4>1, <3>1, <1>2, <1>4, EntryFields
      <4> QED BY <4>1, <4>2, <3>1, <2>1, <1>3 DEF Above, Keeps
    <3>2. CASE th # cs[k].th
      <4>1. f2[th] = f[th]
        BY <3>2 DEF Keeps
      <4>2. a <= Len(f[th]) /\ a \in Nat
        BY SMTT(30), <1>1, <1>2, <1>3, <2>1, EntryFields DEF Owns, Above
      <4> QED BY <4>1, <4>2, <2>1 DEF Above
    <3> QED BY <3>1, <3>2
  <2>3. /\ a > cs[i].ci => f2[th][a] = f[th][a] /\ f2[th][cs[i].ci + 1] = f[th][cs[i].ci + 1]
        /\ \A p \in cs[i].ci + 1 .. a : f2[th][p] = f[th][p]
        /\ \A p \in 1 .. a - 1 : f2[th][p] = f[th][p]
    <3>1. cs[i].ci \in Nat /\ a \in Nat
      BY <1>3, <2>2
    <3>2. /\ a > cs[i].ci => a \in 1 .. a /\ cs[i].ci + 1 \in 1 .. a
          /\ \A p \in cs[i].ci + 1 .. a : p \in 1 .. a
          /\ \A p \in 1 .. a - 1 : p \in 1 .. a
      BY <3>1
    <3> QED BY <2>2, <3>2
  <2>4. Owns(cs, f, i)
    BY <1>1
  <2>5. CASE cs[i].c = "luaV_execute"
    <3>1. /\ a > cs[i].ci /\ f[th][cs[i].ci + 1].fn = "lua" /\ f[th][cs[i].ci + 1].fresh
          /\ \A p \in cs[i].ci + 1 .. a - 1 : f[th][p].fn = "lua" /\ f[th][p].st = "call"
          /\ \A p \in cs[i].ci + 2 .. a : ~f[th][p].fresh
      BY <2>4, <2>5 DEF Owns
    <3>2. /\ \A p \in cs[i].ci + 1 .. a - 1 : f2[th][p] = f[th][p]
          /\ \A p \in cs[i].ci + 2 .. a : f2[th][p] = f[th][p]
      BY <2>2, <2>3, <1>3
    <3>3. /\ a > cs[i].ci /\ f2[th][cs[i].ci + 1].fn = "lua" /\ f2[th][cs[i].ci + 1].fresh
          /\ \A p \in cs[i].ci + 1 .. a - 1 : f2[th][p].fn = "lua" /\ f2[th][p].st = "call"
          /\ \A p \in cs[i].ci + 2 .. a : ~f2[th][p].fresh
      BY <2>3, <3>1, <3>2
    <3> QED BY <2>1, <2>2, <3>3, <2>5, <1>3 DEF Owns
  <2>6. CASE cs[i].c = "luaD_call"
    BY <2>1, <2>2, <2>3, <2>4, <2>6, <1>0, <1>3 DEF Owns
  <2>7. CASE cs[i].c = "luaD_pcall"
    BY <2>1, <2>2, <2>4, <2>7, <1>0, <1>3 DEF Owns
  <2>8. CASE cs[i].c = "lua_resume"
    <3>1. \A p \in 1 .. a - 1 : Unrollable(f2[th][p])
      BY <2>3, <2>4, <2>8 DEF Owns
    <3> QED BY <2>1, <2>2, <3>1, <2>4, <2>8, <1>3 DEF Owns
  <2> QED BY <2>5, <2>6, <2>7, <2>8, <1>2, EntryFields
<1> QED BY <1>6, <1>7, <1>8, <1>9, <1>10, <1>11

LEMMA TopOwns ==
    ASSUME NEW cs \in Seq(Entry), NEW f \in [Thread -> Seq(CallInfo)], cs # <<>>
    PROVE  Owns(cs, f, Len(cs)) <=> Rests(cs[Len(cs)], f[cs[Len(cs)].th])
<1>1. Len(cs) \in Nat /\ cs[Len(cs)] \in Entry
  OBVIOUS
<1>2. /\ cs[Len(cs)].th \in Thread /\ f[cs[Len(cs)].th] \in Seq(CallInfo)
      /\ Len(f[cs[Len(cs)].th]) \in Nat
  BY <1>1, EntryFields
<1>3. Above(cs, f, Len(cs)) = Len(f[cs[Len(cs)].th])
  BY <1>1 DEF Above
<1> QED BY <1>1, <1>2, <1>3 DEF Owns, Rests

(* What is left of the activations, with the frames of the last changed.   *)
LEMMA Cut ==
    ASSUME NEW cs \in Seq(Entry), NEW f \in [Thread -> Seq(CallInfo)], Shape(cs, f),
           NEW cs2 \in Seq(Entry), NEW f2 \in [Thread -> Seq(CallInfo)],
           NEW k \in 1 .. Len(cs), k = Len(cs2), Keeps(cs, f, cs2, f2, k),
           Rests(cs[k], f2[cs[k].th])
    PROVE  Shape(cs2, f2)
<1>1. cs2[k] = cs[k] /\ cs2 # <<>>
  BY DEF Keeps
<1>2. Owns(cs2, f2, k)
  BY <1>1, TopOwns
<1>3. \A i \in 1 .. k : /\ Linked(cs2, i) /\ Apart(cs2, i) /\ Called(cs2, f2, i)
                        /\ Continuable(cs2, f2, i) /\ Protects(cs2, f2, i)
                        /\ i < k => Owns(cs2, f2, i)
  <2> k <= Len(cs2)
    OBVIOUS
  <2> TAKE i \in 1 .. k
  <2> QED BY Below
<1>4. \A i \in 1 .. k : i < k \/ i = k
  OBVIOUS
<1> QED BY <1>2, <1>3, <1>4 DEF Shape

LEMMA ApartNext ==
    ASSUME NEW cs \in Seq(Entry), NEW f, Shape(cs, f), cs # <<>>, NEW n, n = Len(cs),
           NEW r \in Entry, r.th = cs[n].th, r.c # "lua_resume", cs[n].ci <= r.ci
    PROVE  Apart(Append(cs, r), n + 1)
<1> DEFINE cs2 == Append(cs, r)
           th == cs[n].th
<1>1. /\ n \in Nat /\ n >= 1 /\ n \in 1 .. n /\ cs2[n + 1] = r
      /\ \A i \in 1 .. n : cs2[i] = cs[i] /\ cs[i] \in Entry
  OBVIOUS
<1>2. r.ci \in Nat /\ cs[n].ci \in Nat
  BY <1>1, EntryFields
<1>3. Apart(cs, n)
  BY <1>1 DEF Shape
<1> SUFFICES ASSUME NEW j \in 1 .. n, cs2[j].th = th
             PROVE  /\ \A l \in j + 1 .. n + 1 : cs2[l].c # "lua_resume" /\ cs2[l].th = th
                    /\ cs2[j].ci <= r.ci
  BY <1>1 DEF Apart
<1>4. /\ \A l \in j + 1 .. n : cs[l].c # "lua_resume" /\ cs[l].th = th
      /\ cs[j].ci <= cs[n].ci /\ cs[j].ci \in Nat
  <2>1. CASE j = n
    BY <2>1, <1>1, <1>2
  <2>2. CASE j # n
    BY <2>2, <1>1, <1>3, EntryFields DEF Apart
  <2> QED BY <2>1, <2>2
<1>5. \A l \in j + 1 .. n + 1 : l = n + 1 \/ (l \in j + 1 .. n /\ cs2[l] = cs[l])
  BY <1>1
<1> QED BY <1>1, <1>2, <1>4, <1>5

(* A call of the thread on top, from its last frame.                       *)
Pushes(cs, f, n, th, r) ==
    /\ Shape(cs, f) /\ cs # <<>> /\ n = Len(cs) /\ th = cs[n].th
    /\ r.th = th /\ r.ci = Len(f[th]) /\ r.c \in {"luaD_call", "luaD_pcall"}
    /\ Linked(Append(cs, r), n + 1) /\ Called(Append(cs, r), f, n + 1)
    /\ cs[n].c = "luaD_pcall" => r.c = "luaD_call" /\ r.caller = "function"
    /\ cs[n].c = "luaD_call" /\ cs[n].ci = r.ci => r.c = "luaD_call" /\ r.caller = "handler"
    /\ r.c = "luaD_call" /\ r.ci > cs[n].ci /\ f[th][r.ci].ypcall =>
         \A j \in 1 .. n : cs[j].th = th => cs[j].c # "luaD_pcall" /\ ~Forbids(cs[j])

LEMMA Push ==
    ASSUME NEW cs \in Seq(Entry), NEW f \in [Thread -> Seq(CallInfo)],
           NEW n \in Nat, NEW th \in Thread, NEW r \in Entry, Pushes(cs, f, n, th, r)
    PROVE  Shape(Append(cs, r), f)
<1>0. /\ Shape(cs, f) /\ cs # <<>> /\ n = Len(cs) /\ th = cs[n].th
      /\ r.th = th /\ r.ci = Len(f[th]) /\ r.c \in {"luaD_call", "luaD_pcall"}
      /\ Linked(Append(cs, r), n + 1) /\ Called(Append(cs, r), f, n + 1)
      /\ cs[n].c = "luaD_pcall" => r.c = "luaD_call" /\ r.caller = "function"
      /\ cs[n].c = "luaD_call" /\ cs[n].ci = r.ci => r.c = "luaD_call" /\ r.caller = "handler"
      /\ r.c = "luaD_call" /\ r.ci > cs[n].ci /\ f[th][r.ci].ypcall =>
           \A j \in 1 .. n : cs[j].th = th => cs[j].c # "luaD_pcall" /\ ~Forbids(cs[j])
  BY DEF Pushes
<1> USE <1>0
<1> DEFINE cs2 == Append(cs, r)
           F == f[th]
           a == Len(F)
           b == cs[n].ci
<1>1. /\ n \in Nat /\ n >= 1 /\ n = Len(cs) /\ n \in 1 .. n /\ cs2 \in Seq(Entry) /\ Len(cs2) = n + 1
      /\ \A i \in 1 .. n : cs2[i] = cs[i] /\ cs[i] \in Entry
      /\ cs2[n + 1] = r /\ cs2[n] = cs[n]
  OBVIOUS
<1>2. /\ th \in Thread /\ F \in Seq(CallInfo) /\ a \in Nat /\ b \in Nat
      /\ \A p \in 1 .. a : F[p] \in CallInfo
  BY <1>1, EntryFields
<1>3. /\ Linked(cs, n) /\ Apart(cs, n) /\ Called(cs, f, n) /\ Owns(cs, f, n)
      /\ Continuable(cs, f, n) /\ Protects(cs, f, n)
  BY <1>1 DEF Shape
<1>4. Rests(cs[n], F)
  BY <1>1, <1>3, TopOwns
<1>5. b <= a
  BY <1>4 DEF Rests
<1>6. Keeps(cs, f, cs2, f, n)
  BY <1>1, <1>2, <1>5 DEF Keeps
<1>7. \A i \in 1 .. n : /\ Linked(cs2, i) /\ Apart(cs2, i) /\ Called(cs2, f, i)
                        /\ Continuable(cs2, f, i) /\ Protects(cs2, f, i)
                        /\ i < n => Owns(cs2, f, i)
  <2> TAKE i \in 1 .. n
  <2>1. n \in 1 .. Len(cs) /\ n <= Len(cs2) /\ cs2 \in Seq(Entry)
    BY <1>1
  <2> HIDE DEF cs2
  <2> QED BY <2>1, <1>6, Below
<1>8. Owns(cs2, f, n)
  <2>1. Above(cs2, f, n) = a
    BY <1>1 DEF Above
  <2>2. a <= Len(F)
    BY <1>2
  <2> QED BY <2>1, <2>2, <1>1, <1>4 DEF Owns, Rests
<1>9. Owns(cs2, f, n + 1)
  <2>1. Above(cs2, f, n + 1) = a
    BY <1>1 DEF Above
  <2> QED BY <2>1, <1>1, <1>2 DEF Owns
<1>10. Apart(cs2, n + 1)
  BY <1>5, ApartNext
<1>11. \A p \in b + 1 .. a - 1 : /\ Unrollable(F[p])
                                 /\ InPCall(F[p]) => F[p].ypcall
                                 /\ cs[n].c # "lua_resume" => ~F[p].ypcall
  <2> SUFFICES ASSUME NEW p \in b + 1 .. a - 1
               PROVE  /\ Unrollable(F[p])
                      /\ InPCall(F[p]) => F[p].ypcall
                      /\ cs[n].c # "lua_resume" => ~F[p].ypcall
    OBVIOUS
  <2>1. p \in 1 .. a - 1 /\ p \in 1 .. a /\ F[p] \in CallInfo
    BY <1>2
  <2>2. CASE cs[n].c = "luaV_execute"
    <3>1. F[p].fn = "lua" /\ F[p].st = "call"
      BY <2>2, <1>4 DEF Rests
    <3> QED BY <3>1, <2>1, FrameFields DEF Unrollable, InPCall
  <2>3. CASE cs[n].c = "luaD_call"
    BY <2>3, <1>2, <1>4 DEF Rests
  <2>4. CASE cs[n].c = "luaD_pcall"
    BY <2>4, <1>1, <1>2, <1>5 DEF Linked
  <2>5. CASE cs[n].c = "lua_resume"
    BY <2>1, <2>5, <1>4 DEF Rests, Unrollable, InPCall
  <2> QED BY <2>2, <2>3, <2>4, <2>5, <1>1, EntryFields
<1>12. a > b => /\ InPCall(F[a]) /\ ~F[a].ypcall => r.c = "luaD_pcall" /\ ~r.gc
                /\ r.c = "luaD_pcall" => ~F[a].ypcall
  <2> SUFFICES ASSUME a > b
               PROVE  /\ InPCall(F[a]) /\ ~F[a].ypcall => r.c = "luaD_pcall" /\ ~r.gc
                      /\ r.c = "luaD_pcall" => ~F[a].ypcall
    OBVIOUS
  <2>1. a \in 1 .. a /\ F[a] \in CallInfo /\ a > 0 /\ n + 1 # 1 /\ cs2[(n + 1) - 1] = cs[n]
    BY <1>1, <1>2
  <2>2. cs[n].c # "luaD_pcall"
    BY <1>1, <1>2, EntryFields DEF Linked
  <2>3. CASE r.c = "luaD_pcall"
    BY <2>1, <2>3, <1>1, FrameFields DEF Called, InPCall
  <2>4. CASE r.c = "luaD_call"
    <3>1. r.caller \in {"meta", "hook", "handler", "function"}
      BY <2>4, EntryFields
    <3>2. F[a].fn = "lua" \/ F[a].st \in Resting \/ ~InPCall(F[a]) \/ F[a].ypcall
      BY <2>1, <2>2, <2>4, <3>1, <1>1 DEF Called, InPCall
    <3> QED BY <3>2, <2>4 DEF InPCall, Resting
  <2> QED BY <2>3, <2>4
<1>13. Continuable(cs2, f, n + 1)
  <2> SUFFICES ASSUME \A j \in 1 .. n + 1 : cs2[j].th = th => /\ cs2[j].c # "luaD_pcall"
                                                              /\ ~Forbids(cs2[j])
               PROVE  \A p \in 1 .. a : Unrollable(F[p])
    BY <1>1 DEF Continuable
  <2>1. \A j \in 1 .. n : cs[j].th = th => cs[j].c # "luaD_pcall" /\ ~Forbids(cs[j])
    BY <1>1
  <2>2. r.c = "luaD_call" /\ ~r.noyield /\ cs[n].c # "luaD_pcall"
    BY <2>1, <1>1 DEF Forbids
  <2>3. \A p \in 1 .. b : Unrollable(F[p])
    BY <2>1, <1>3 DEF Continuable
  <2>4. a > b => Unrollable(F[a])
    <3> SUFFICES ASSUME a > b PROVE Unrollable(F[a])
      OBVIOUS
    <3>1. n + 1 # 1 /\ cs2[(n + 1) - 1] = cs[n]
      BY <1>1
    <3>2. r.caller \in {"meta", "function"}
      BY <2>2, <3>1, <1>1, EntryFields DEF Linked
    <3> QED BY <2>2, <3>1, <3>2, <1>1 DEF Called, Unrollable
  <2>5. \A p \in 1 .. a : p \in 1 .. b \/ p \in b + 1 .. a - 1 \/ (p = a /\ a > b)
    BY <1>2
  <2> QED BY <2>3, <2>4, <2>5, <1>11
<1>14. Protects(cs2, f, n + 1)
  <2>1. \A p \in 1 .. a : p \in 1 .. b \/ p \in b + 1 .. a - 1 \/ (p = a /\ a > b)
    BY <1>2
  <2>2. \A p \in 1 .. a : InPCall(F[p]) /\ ~F[p].ypcall =>
            \E j \in 1 .. n + 1 : /\ cs2[j].th = th /\ cs2[j].ci = p
                                  /\ cs2[j].c = "luaD_pcall" /\ ~cs2[j].gc
    <3> SUFFICES ASSUME NEW p \in 1 .. a, InPCall(F[p]), ~F[p].ypcall
                 PROVE  \E j \in 1 .. n + 1 : /\ cs2[j].th = th /\ cs2[j].ci = p
                                              /\ cs2[j].c = "luaD_pcall" /\ ~cs2[j].gc
      OBVIOUS
    <3>1. CASE p \in 1 .. b
      <4>1. PICK j \in 1 .. n : /\ cs[j].th = th /\ cs[j].ci = p
                                /\ cs[j].c = "luaD_pcall" /\ ~cs[j].gc
        BY <3>1, <1>3 DEF Protects
      <4>2. j \in 1 .. n + 1 /\ cs2[j] = cs[j]
        BY <1>1
      <4> QED BY <4>1, <4>2
    <3>2. CASE p \in b + 1 .. a - 1
      BY <3>2, <1>11
    <3>3. CASE p = a /\ a > b
      <4>1. n + 1 \in 1 .. n + 1
        BY <1>1
      <4>2. r.c = "luaD_pcall" /\ ~r.gc
        BY <3>3, <1>12
      <4>3. cs2[n + 1].th = th /\ cs2[n + 1].ci = p /\ cs2[n + 1] = r
        BY <3>3, <1>1
      <4>4. cs2[n + 1].c = "luaD_pcall" /\ ~cs2[n + 1].gc
        BY <4>2, <4>3
      <4> HIDE DEF cs2
      <4> WITNESS n + 1 \in 1 .. n + 1
      <4> QED BY <4>3, <4>4
    <3> QED BY <2>1, <3>1, <3>2, <3>3
  <2>3. ASSUME NEW j \in 1 .. n + 1, cs2[j].th = th, cs2[j].c = "luaD_pcall",
               NEW p \in cs2[j].ci .. a, p > 0
        PROVE  ~F[p].ypcall
    <3>1. cs2[j].ci \in Nat /\ p \in 1 .. a
      <4>1. cs2[j] \in Entry
        BY <1>1
      <4>2. cs2[j].ci \in Nat
        BY <4>1, EntryFields
      <4> QED BY <4>2, <2>3, <1>2
    <3>2. CASE j = n + 1
      <4>1. r.c = "luaD_pcall" /\ p = a /\ r.ci > 0 /\ n + 1 # 1 /\ F[a] \in CallInfo
        BY <2>3, <3>1, <3>2, <1>1, <1>2
      <4> QED BY <4>1, <1>1, FrameFields DEF Called
    <3>3. CASE j \in 1 .. n
      <4>0. cs2[j] = cs[j]
        BY <3>3, <1>1
      <4>1. CASE p \in 1 .. b
        BY <4>0, <4>1, <3>3, <2>3, <1>3 DEF Protects
      <4>2. CASE p \in b + 1 .. a - 1
        <5>1. cs[n].c # "lua_resume"
          <6>1. CASE j = n
            BY <6>1, <4>0, <2>3
          <6>2. CASE j # n
            <7>1. j \in 1 .. n - 1 /\ n \in j + 1 .. n
              BY <6>2, <3>3, <1>1
            <7> QED BY <7>1, <4>0, <2>3, <1>3 DEF Apart
          <6> QED BY <6>1, <6>2
        <5> QED BY <5>1, <4>2, <1>11
      <4>3. CASE p = a /\ a > b
        BY <4>0, <4>3, <3>3, <2>3, <1>12
      <4> QED BY <4>1, <4>2, <4>3, <3>1, <2>1
    <3> QED BY <3>2, <3>3, <1>1
  <2>4. ASSUME NEW p \in 1 .. a, F[p].ypcall, NEW q \in 1 .. p - 1
        PROVE  Unrollable(F[q])
    <3>1. q \in 1 .. a - 1 /\ q \in 1 .. a
      BY <1>2
    <3>2. CASE p \in 1 .. b
      BY <3>2, <2>4, <1>3 DEF Protects
    <3>3. CASE cs[n].c = "lua_resume"
      BY <3>1, <3>3, <1>4 DEF Rests
    <3>4. CASE p \in b + 1 .. a - 1 /\ cs[n].c # "lua_resume"
      BY <3>4, <2>4, <1>11
    <3>5. CASE p = a /\ a > b /\ cs[n].c # "lua_resume"
      <4>1. \A j \in 1 .. n : cs[j].th = th => cs[j].c # "luaD_pcall" /\ ~Forbids(cs[j])
        <5>1. r.c = "luaD_call" /\ r.ci > cs[n].ci /\ f[th][r.ci].ypcall
          <6>1. F[a].ypcall /\ a > b
            BY <3>5, <2>4
          <6>2. r.c = "luaD_call"
            BY <6>1, <1>12
          <6>3. r.ci = a
            OBVIOUS
          <6> QED BY <6>1, <6>2, <6>3
        <5> QED BY <5>1
      <4>2. \A x \in 1 .. b : Unrollable(F[x])
        BY <4>1, <1>3 DEF Continuable
      <4>3. q \in 1 .. b \/ q \in b + 1 .. a - 1
        BY <3>1, <1>2
      <4> QED BY <4>2, <4>3, <1>11
    <3> QED BY <3>2, <3>3, <3>4, <3>5, <2>1
  <2>5. cs2[n + 1].th = th /\ cs2[n + 1].ci = a
    BY <1>1
  <2> HIDE DEF cs2
  <2> QED BY <2>2, <2>3, <2>4, <2>5 DEF Protects
<1>15. \A i \in 1 .. n + 1 : i \in 1 .. n \/ i = n + 1
  BY <1>1
<1>16. \A i \in 1 .. n : i < n \/ i = n
  BY <1>1
<1>17. Linked(cs2, n + 1) /\ Called(cs2, f, n + 1) /\ Len(cs2) = n + 1
  BY <1>1
<1> HIDE DEF cs2
<1>18. ASSUME NEW i \in 1 .. n + 1
       PROVE  /\ Linked(cs2, i) /\ Apart(cs2, i) /\ Called(cs2, f, i) /\ Owns(cs2, f, i)
              /\ Continuable(cs2, f, i) /\ Protects(cs2, f, i)
  <2>1. CASE i = n + 1
    BY <2>1, <1>9, <1>10, <1>13, <1>14, <1>17
  <2>2. CASE i \in 1 .. n
    <3>1. i < n \/ i = n
      BY <2>2, <1>16
    <3> QED BY <2>2, <3>1, <1>7, <1>8
  <2> QED BY <2>1, <2>2, <1>15
<1>19. Shape(cs2, f)
  BY <1>17, <1>18 DEF Shape
<1> QED BY <1>19 DEF cs2

(* luaV_execute starts on a Lua function.                                  *)
Enters(q, F, m) ==
    \/ q.c = "luaD_call" /\ m = q.ci
    \/ q.c = "lua_resume" /\ \A p \in 1 .. m : Unrollable(F[p])

EntersLua(cs, f, f2, n, th, m, r) ==
    /\ Shape(cs, f) /\ cs # <<>> /\ n = Len(cs) /\ th = cs[n].th
    /\ \A t \in Thread : t # th => f2[t] = f[t]
    /\ Len(f2[th]) = m + 1 /\ m <= Len(f[th]) /\ \A p \in 1 .. m : f2[th][p] = f[th][p]
    /\ f2[th][m + 1].fn = "lua" /\ f2[th][m + 1].st = "run" /\ f2[th][m + 1].fresh
    /\ Enters(cs[n], f[th], m)
    /\ r.c = "luaV_execute" /\ r.th = th /\ r.ci = m

LEMMA EnterLua ==
    ASSUME NEW cs \in Seq(Entry), NEW f \in [Thread -> Seq(CallInfo)],
           NEW f2 \in [Thread -> Seq(CallInfo)], NEW n \in Nat, NEW th \in Thread, NEW m \in Nat,
           NEW r \in Entry, EntersLua(cs, f, f2, n, th, m, r)
    PROVE  Shape(Append(cs, r), f2) /\ OnTop(Append(cs, r), f2, "no")
<1>0. /\ Shape(cs, f) /\ cs # <<>> /\ n = Len(cs) /\ th = cs[n].th
      /\ \A t \in Thread : t # th => f2[t] = f[t]
      /\ Len(f2[th]) = m + 1 /\ m <= Len(f[th]) /\ \A p \in 1 .. m : f2[th][p] = f[th][p]
      /\ f2[th][m + 1].fn = "lua" /\ f2[th][m + 1].st = "run" /\ f2[th][m + 1].fresh
      /\ Enters(cs[n], f[th], m)
      /\ r.c = "luaV_execute" /\ r.th = th /\ r.ci = m
  BY DEF EntersLua
<1> USE <1>0
<1> DEFINE cs2 == Append(cs, r)
           F == f2[th]
<1>1. /\ n \in Nat /\ n >= 1 /\ n = Len(cs) /\ n \in 1 .. n /\ cs2 \in Seq(Entry) /\ Len(cs2) = n + 1
      /\ \A i \in 1 .. n : cs2[i] = cs[i] /\ cs[i] \in Entry
      /\ cs2[n + 1] = r /\ cs2[n] = cs[n] /\ n + 1 # 1 /\ cs2[(n + 1) - 1] = cs[n] /\ cs2 # <<>>
  <2>1. n \in Nat /\ n >= 1 /\ n = Len(cs)
    OBVIOUS
  <2>2. cs2 \in Seq(Entry) /\ Len(cs2) = n + 1 /\ cs2[n + 1] = r
    BY <2>1
  <2>3. \A i \in 1 .. n : cs2[i] = cs[i] /\ cs[i] \in Entry
    BY <2>1
  <2> HIDE DEF cs2
  <2>4. (n + 1) - 1 = n /\ n + 1 # 1 /\ n \in 1 .. n
    BY <2>1
  <2> QED BY <2>1, <2>2, <2>3, <2>4
<1>2. /\ th \in Thread /\ F \in Seq(CallInfo) /\ f[th] \in Seq(CallInfo) /\ cs[n].ci \in Nat
      /\ \A p \in 1 .. m : F[p] \in CallInfo
      /\ cs[n].c = "lua_resume" => cs[n].ci = 0
  BY <1>1, EntryFields
<1>2a. \/ cs[n].c = "luaD_call" /\ m = cs[n].ci
       \/ cs[n].c = "lua_resume" /\ \A p \in 1 .. m : Unrollable(f[th][p])
  BY DEF Enters
<1>3. /\ Linked(cs, n) /\ Apart(cs, n) /\ Called(cs, f, n) /\ Owns(cs, f, n)
      /\ Continuable(cs, f, n) /\ Protects(cs, f, n)
  BY <1>1 DEF Shape
<1>4. cs[n].ci <= m
  BY <1>2, <1>2a
<1>5. Keeps(cs, f, cs2, f2, n)
  <2>1. \A i \in 1 .. n : cs[i].th \in Thread
    BY <1>1, EntryFields
  <2>2. \A i \in 1 .. n : cs[i].th # th => f2[cs[i].th] = f[cs[i].th]
    BY <2>1
  <2>3. cs[n].ci <= Len(F) /\ \A p \in 1 .. cs[n].ci : F[p] = f[th][p]
    BY <1>2, <1>4
  <2>4. \A i \in 1 .. n : cs2[i] = cs[i]
    BY <1>1
  <2>5. cs[n].th = th
    BY <1>1
  <2> HIDE DEF cs2
  <2> QED BY <2>2, <2>3, <2>4, <2>5 DEF Keeps
<1>6. ASSUME NEW i \in 1 .. n
      PROVE  /\ Linked(cs2, i) /\ Apart(cs2, i) /\ Called(cs2, f2, i)
             /\ Continuable(cs2, f2, i) /\ Protects(cs2, f2, i)
             /\ i < n => Owns(cs2, f2, i)
  <2>1. n \in 1 .. Len(cs) /\ n <= Len(cs2) /\ cs2 \in Seq(Entry)
    BY <1>1
  <2> HIDE DEF cs2
  <2> QED BY <2>1, <1>5, Below
<1>7. Owns(cs2, f2, n)
  <2>1. Above(cs2, f2, n) = m
    BY <1>1 DEF Above
  <2>2. cs[n].c = "lua_resume" => \A p \in 1 .. m - 1 : Unrollable(F[p])
    <3> SUFFICES ASSUME cs[n].c = "lua_resume", NEW p \in 1 .. m - 1 PROVE Unrollable(F[p])
      OBVIOUS
    <3>1. p \in 1 .. m
      OBVIOUS
    <3> QED BY <3>1, <1>2a DEF Unrollable
  <2> QED BY <2>1, <2>2, <1>1, <1>2, <1>2a, <1>4 DEF Owns
<1>8. Linked(cs2, n + 1)
  BY <1>1, <1>2a, <1>4 DEF Linked
<1>9. Apart(cs2, n + 1)
  BY <1>4, ApartNext
<1>10. Called(cs2, f2, n + 1)
  <2>1. cs[n].c = "lua_resume" /\ m > 0 => Unrollable(F[m])
    BY <1>2, <1>2a DEF Unrollable
  <2> QED BY <2>1, <1>1 DEF Called
<1>11. Rests(r, F)
  BY <1>2 DEF Rests
<1>12. Owns(cs2, f2, n + 1)
  <2>1. /\ cs2 \in Seq(Entry) /\ cs2 # <<>> /\ Len(cs2) = n + 1 /\ cs2[n + 1] = r
        /\ r.th = th
    BY <1>1
  <2> HIDE DEF cs2, F
  <2>2. Owns(cs2, f2, Len(cs2)) <=> Rests(cs2[Len(cs2)], f2[cs2[Len(cs2)].th])
    BY <2>1, TopOwns
  <2>3. Rests(r, f2[th])
    BY <1>11 DEF F
  <2> QED BY <2>1, <2>2, <2>3
<1>13. Continuable(cs2, f2, n + 1)
  <2> SUFFICES ASSUME \A j \in 1 .. n + 1 : cs2[j].th = th => /\ cs2[j].c # "luaD_pcall"
                                                              /\ ~Forbids(cs2[j])
               PROVE  \A p \in 1 .. m : Unrollable(F[p])
    BY <1>1 DEF Continuable
  <2>1. CASE cs[n].c = "lua_resume"
    BY <2>1, <1>2a DEF Unrollable
  <2>2. CASE cs[n].c = "luaD_call"
    <3>1. \A j \in 1 .. n : cs[j].th = th => cs[j].c # "luaD_pcall" /\ ~Forbids(cs[j])
      BY <1>1
    <3>2. \A p \in 1 .. m : Unrollable(f[th][p])
      BY <3>1, <2>2, <1>2a, <1>3 DEF Continuable
    <3> QED BY <3>2 DEF Unrollable
  <2> QED BY <2>1, <2>2, <1>2a
<1>14. Protects(cs2, f2, n + 1)
  <2>1. CASE cs[n].c = "luaD_call"
    <3>1. Protects(cs2, f2, n) /\ cs2[n].ci = m /\ cs2[n].th = th
      BY <2>1, <1>1, <1>2a, <1>6
    <3> HIDE DEF cs2
    <3>2. \A p \in 1 .. m : InPCall(F[p]) /\ ~F[p].ypcall =>
              \E j \in 1 .. n + 1 : /\ cs2[j].th = th /\ cs2[j].ci = p
                                    /\ cs2[j].c = "luaD_pcall" /\ ~cs2[j].gc
      <4> SUFFICES ASSUME NEW p \in 1 .. m, InPCall(F[p]), ~F[p].ypcall
                   PROVE  \E j \in 1 .. n + 1 : /\ cs2[j].th = th /\ cs2[j].ci = p
                                                /\ cs2[j].c = "luaD_pcall" /\ ~cs2[j].gc
        OBVIOUS
      <4>1. PICK j \in 1 .. n : /\ cs2[j].th = th /\ cs2[j].ci = p
                                /\ cs2[j].c = "luaD_pcall" /\ ~cs2[j].gc
        BY <3>1 DEF Protects
      <4>2. j \in 1 .. n + 1
        BY <1>1
      <4> QED BY <4>1, <4>2
    <3>3. \A j \in 1 .. n + 1 : cs2[j].th = th /\ cs2[j].c = "luaD_pcall" =>
              \A p \in cs2[j].ci .. m : p > 0 => ~F[p].ypcall
      <4>1. \A j \in 1 .. n + 1 : j \in 1 .. n \/ cs2[j].c = "luaV_execute"
        BY <1>1
      <4> SUFFICES ASSUME NEW j \in 1 .. n + 1, cs2[j].th = th, cs2[j].c = "luaD_pcall",
                          NEW p \in cs2[j].ci .. m, p > 0
                   PROVE  ~F[p].ypcall
        OBVIOUS
      <4>2. j \in 1 .. n
        BY <4>1
      <4>3. \A x \in cs2[j].ci .. cs2[n].ci : x > 0 => ~f2[cs2[n].th][x].ypcall
        <5>1. cs2[j].th = cs2[n].th /\ cs2[j].c = "luaD_pcall"
          BY <3>1
        <5> QED BY <5>1, <4>2, <3>1 DEF Protects
      <4>4. p \in cs2[j].ci .. cs2[n].ci /\ f2[cs2[n].th][p] = F[p]
        BY <3>1
      <4> QED BY <4>3, <4>4
    <3>4. \A p \in 1 .. m : F[p].ypcall => \A q \in 1 .. p - 1 : Unrollable(F[q])
      BY <3>1 DEF Protects
    <3>5. cs2[n + 1].ci = m /\ cs2[n + 1].th = th
      BY <1>1
    <3> QED BY <3>2, <3>3, <3>4, <3>5 DEF Protects
  <2>2. CASE cs[n].c = "lua_resume"
    <3>1. \A p \in 1 .. m : Unrollable(F[p])
      BY <2>2, <1>2a DEF Unrollable
    <3>2. \A p \in 1 .. m : InPCall(F[p]) => F[p].ypcall
      BY <3>1 DEF Unrollable, InPCall
    <3>3. \A j \in 1 .. n + 1 : cs2[j].th = th => cs2[j].c # "luaD_pcall"
      <4> SUFFICES ASSUME NEW j \in 1 .. n + 1, cs2[j].th = th PROVE cs2[j].c # "luaD_pcall"
        OBVIOUS
      <4>1. CASE j = n + 1 \/ j = n
        BY <4>1, <2>2, <1>1
      <4>2. CASE j \in 1 .. n - 1
        <5>1. n \in j + 1 .. n /\ cs2[j] = cs[j]
          BY <4>2, <1>1
        <5> QED BY <5>1, <4>2, <2>2, <1>3 DEF Apart
      <4> QED BY <4>1, <4>2, <1>1
    <3>4. \A p \in 1 .. m : \A q \in 1 .. p - 1 : Unrollable(F[q])
      BY <3>1
    <3> HIDE DEF cs2
    <3> QED BY <3>2, <3>3, <3>4, <1>1 DEF Protects
  <2> QED BY <2>1, <2>2, <1>2a
<1>15. ASSUME NEW i \in 1 .. n + 1
       PROVE  /\ Linked(cs2, i) /\ Apart(cs2, i) /\ Called(cs2, f2, i) /\ Owns(cs2, f2, i)
              /\ Continuable(cs2, f2, i) /\ Protects(cs2, f2, i)
  <2>1. CASE i = n + 1
    BY <2>1, <1>8, <1>9, <1>10, <1>12, <1>13, <1>14
  <2>2. CASE i \in 1 .. n
    <3>1. i < n \/ i = n
      BY <2>2, <1>1
    <3> QED BY <2>2, <3>1, <1>6, <1>7
  <2>3. i = n + 1 \/ i \in 1 .. n
    BY <1>1
  <2> QED BY <2>1, <2>2, <2>3
<1>16. Len(cs2) = n + 1 /\ cs2[Len(cs2)] = r /\ cs2 # <<>>
  BY <1>1
<1> HIDE DEF cs2
<1>17. Shape(cs2, f2)
  BY <1>15, <1>16 DEF Shape
<1>18. OnTop(cs2, f2, "no")
  BY <1>16 DEF OnTop, Ready
<1> QED BY <1>17, <1>18 DEF cs2

(* luaD_precall calls a C function.                                        *)
LEMMA EnterC ==
    ASSUME NEW cs \in Seq(Entry), NEW f \in [Thread -> Seq(CallInfo)], Shape(cs, f), cs # <<>>,
           NEW n \in 1 .. Len(cs), n = Len(cs), NEW th \in Thread, th = cs[n].th, NEW fr \in CallInfo,
           fr.fn # "lua", fr.st \in Resting,
           \/ cs[n].c = "luaD_call" /\ cs[n].ci = Len(f[th])
           \/ cs[n].c = "lua_resume" /\ f[th] = <<>>,
           NEW f2 \in [Thread -> Seq(CallInfo)], \A t \in Thread : t # th => f2[t] = f[t],
           f2[th] = Append(f[th], fr)
    PROVE  Shape(cs, f2) /\ OnTop(cs, f2, "no")
<1> DEFINE F == f2[th]
           a == Len(F)
<1>1. /\ n \in Nat /\ n \in 1 .. Len(cs) /\ n = Len(cs)
      /\ \A i \in 1 .. n : cs[i] \in Entry /\ cs[i].th \in Thread
  BY EntryFields
<1>2. /\ th \in Thread /\ f[th] \in Seq(CallInfo) /\ cs[n].ci \in Nat
      /\ cs[n].c = "lua_resume" => cs[n].ci = 0
  BY <1>1, EntryFields
<1>3. /\ a = Len(f[th]) + 1 /\ F[a] = fr /\ a \in Nat /\ cs[n].ci + 1 = a
      /\ \A p \in 1 .. Len(f[th]) : F[p] = f[th][p]
  BY <1>2
<1>4. cs[n].ci <= a /\ \A p \in 1 .. cs[n].ci : F[p] = f[th][p]
  BY <1>2, <1>3
<1>5. Keeps(cs, f, cs, f2, n)
  BY <1>1, <1>4 DEF Keeps
<1>6. Rests(cs[n], F)
  BY SMTT(30), <1>2, <1>3 DEF Rests
<1>7. Shape(cs, f2)
  BY <1>1, <1>5, <1>6, Cut
<1>8. OnTop(cs, f2, "no")
  BY <1>2, <1>3 DEF OnTop, Ready
<1> QED BY <1>7, <1>8

(* lua_resume of a thread that has no activation.                          *)
LEMMA Resumed ==
    ASSUME NEW cs \in Seq(Entry), NEW f \in [Thread -> Seq(CallInfo)], Shape(cs, f), cs # <<>>,
           NEW n \in 1 .. Len(cs), n = Len(cs), NEW th \in Thread, th = cs[n].th, cs[n].c # "luaD_pcall",
           Len(f[th]) > cs[n].ci, f[th][Len(f[th])].fn \in {"resume", "wrap"},
           f[th][Len(f[th])].st = "in", NEW co \in Co, \A i \in 1 .. n : cs[i].th # co,
           NEW f2 \in [Thread -> Seq(CallInfo)], \A t \in Thread : t # co => f2[t] = f[t],
           \A p \in 1 .. Len(f2[co]) : Unrollable(f2[co][p]),
           NEW r \in Entry, r.c = "lua_resume", r.th = co
    PROVE  Shape(Append(cs, r), f2) /\ OnTop(Append(cs, r), f2, "no")
<1> DEFINE cs2 == Append(cs, r)
           F == f2[th]
<1>1. /\ n \in Nat /\ n >= 1 /\ n = Len(cs) /\ n \in 1 .. n /\ cs2 \in Seq(Entry) /\ Len(cs2) = n + 1
      /\ \A i \in 1 .. n : cs2[i] = cs[i] /\ cs[i] \in Entry
      /\ cs2[n + 1] = r /\ cs2[n] = cs[n] /\ n + 1 # 1 /\ cs2[(n + 1) - 1] = cs[n] /\ cs2 # <<>>
  OBVIOUS
<1>2. /\ th \in Thread /\ F = f[th] /\ f[th] \in Seq(CallInfo) /\ cs[n].ci \in Nat /\ r.ci = 0
      /\ co \in Thread /\ f2[co] \in Seq(CallInfo) /\ Len(f[th]) \in Nat
  BY <1>1, EntryFields DEF Thread
<1>3. /\ Linked(cs, n) /\ Called(cs, f, n) /\ Owns(cs, f, n)
  BY <1>1 DEF Shape
<1>4. Rests(cs[n], f[th])
  BY <1>1, <1>3, TopOwns
<1>5. Keeps(cs, f, cs2, f2, n)
  <2>1. \A i \in 1 .. n : cs[i].th \in Thread /\ f2[cs[i].th] = f[cs[i].th]
    BY <1>1, EntryFields
  <2> QED BY <2>1, <1>1, <1>2 DEF Keeps
<1>6. ASSUME NEW i \in 1 .. n
      PROVE  /\ Linked(cs2, i) /\ Apart(cs2, i) /\ Called(cs2, f2, i)
             /\ Continuable(cs2, f2, i) /\ Protects(cs2, f2, i)
             /\ i < n => Owns(cs2, f2, i)
  <2>1. n \in 1 .. Len(cs) /\ n <= Len(cs2) /\ cs2 \in Seq(Entry)
    BY <1>1
  <2> HIDE DEF cs2
  <2> QED BY <2>1, <1>5, Below
<1>7. Owns(cs2, f2, n)
  <2>1. Above(cs2, f2, n) = Len(f[th])
    BY <1>1, <1>2 DEF Above
  <2> QED BY SMTT(30), <2>1, <1>1, <1>2, <1>4 DEF Owns, Rests
<1>8. Linked(cs2, n + 1)
  BY <1>1, <1>2 DEF Linked
<1>9. Apart(cs2, n + 1)
  BY <1>1 DEF Apart
<1>10. Called(cs2, f2, n + 1)
  BY <1>1, <1>2 DEF Called
<1>11. Rests(r, f2[co])
  BY <1>2 DEF Rests
<1>12. Owns(cs2, f2, n + 1)
  <2>1. /\ cs2 \in Seq(Entry) /\ cs2 # <<>> /\ Len(cs2) = n + 1 /\ cs2[n + 1] = r
        /\ r.th = co
    BY <1>1
  <2> HIDE DEF cs2, F
  <2>2. Owns(cs2, f2, Len(cs2)) <=> Rests(cs2[Len(cs2)], f2[cs2[Len(cs2)].th])
    BY <2>1, TopOwns
  <2>3. Rests(r, f2[co])
    BY <1>11
  <2> QED BY <2>1, <2>2, <2>3
<1>13. Continuable(cs2, f2, n + 1)
  BY <1>1, <1>2 DEF Continuable
<1>14. Protects(cs2, f2, n + 1)
  <2>1. \A j \in 1 .. n + 1 : cs2[j].th = co => cs2[j].c # "luaD_pcall"
    BY <1>1
  <2>2. \A p \in 1 .. 0 : FALSE
    OBVIOUS
  <2>3. cs2[n + 1].ci = 0 /\ cs2[n + 1].th = co
    BY <1>1, <1>2
  <2> HIDE DEF cs2
  <2> QED BY <2>1, <2>2, <2>3 DEF Protects
<1>15. ASSUME NEW i \in 1 .. n + 1
       PROVE  /\ Linked(cs2, i) /\ Apart(cs2, i) /\ Called(cs2, f2, i) /\ Owns(cs2, f2, i)
              /\ Continuable(cs2, f2, i) /\ Protects(cs2, f2, i)
  <2>1. CASE i = n + 1
    BY <2>1, <1>8, <1>9, <1>10, <1>12, <1>13, <1>14
  <2>2. CASE i \in 1 .. n
    <3>1. i < n \/ i = n
      BY <2>2, <1>1
    <3> QED BY <2>2, <3>1, <1>6, <1>7
  <2>3. i = n + 1 \/ i \in 1 .. n
    BY <1>1
  <2> QED BY <2>1, <2>2, <2>3
<1>16. Len(cs2) = n + 1 /\ cs2[Len(cs2)] = r /\ cs2 # <<>>
  BY <1>1
<1> HIDE DEF cs2
<1>17. Shape(cs2, f2)
  BY <1>15, <1>16 DEF Shape
<1>18. OnTop(cs2, f2, "no")
  <2>1. Ready(r, f2[co], "no")
    <3>1. Len(f2[co]) \in Nat /\ (Len(f2[co]) > 0 => Unrollable(f2[co][Len(f2[co])]))
      BY <1>2
    <3> QED BY <3>1 DEF Ready
  <2> QED BY <2>1, <1>16 DEF OnTop
<1> QED BY <1>17, <1>18 DEF cs2

LEMMA FrameType ==
    ASSUME NEW fn \in Functions
    PROVE  /\ Frame(fn) \in CallInfo /\ Frame(fn).fn = fn /\ ~Frame(fn).fresh
           /\ fn = "lua" => Frame(fn).st = "run"
           /\ fn # "lua" => Frame(fn).st = "start"
           /\ [Frame(fn) EXCEPT !.fresh = fn = "lua"] \in CallInfo
           /\ [Frame(fn) EXCEPT !.fresh = fn = "lua"].fn = fn
           /\ fn = "lua" => /\ [Frame(fn) EXCEPT !.fresh = fn = "lua"].fresh
                            /\ [Frame(fn) EXCEPT !.fresh = fn = "lua"].st = "run"
           /\ fn # "lua" => [Frame(fn) EXCEPT !.fresh = fn = "lua"].st = "start"
  BY DEF Frame, CallInfo, LuaStates, Resting, Functions

LEMMA EntryType ==
    ASSUME NEW k \in Nat, L \in Thread, NEW noyield \in BOOLEAN,
           NEW caller \in {"meta", "hook", "handler", "function"}
    PROVE  /\ Execute(k) \in Entry /\ Execute(k).c = "luaV_execute" /\ Execute(k).th = L
           /\ Execute(k).ci = k
           /\ DCall(k, noyield, caller) \in Entry /\ DCall(k, noyield, caller).c = "luaD_call"
           /\ DCall(k, noyield, caller).th = L /\ DCall(k, noyield, caller).ci = k
           /\ DCall(k, noyield, caller).noyield = noyield
           /\ DCall(k, noyield, caller).caller = caller
  BY DEF Execute, DCall, Entry

(* luaD_call has the shape, whether it enters the function or overflows.   *)
LEMMA CallShape ==
    ASSUME ci \in [Thread -> Seq(CallInfo)], L \in Thread,
           NEW cs \in Seq(Entry), NEW frames \in Seq(CallInfo), NEW noyield \in BOOLEAN,
           NEW caller \in {"meta", "hook", "handler", "function"}, NEW fn \in Functions,
           Shape(Append(cs, DCall(Len(frames), noyield, caller)), [ci EXCEPT ![L] = frames]),
           Call(frames, cs, noyield, caller, fn)
    PROVE  /\ cstack' \in Seq(Entry) /\ ci' \in [Thread -> Seq(CallInfo)]
           /\ raise' \in {"no", "errormsg", "throw"}
           /\ Shape(cstack', ci') /\ OnTop(cstack', ci', raise')
<1> DEFINE m == Len(frames)
           d == DCall(m, noyield, caller)
           cs1 == Append(cs, d)
           f1 == [ci EXCEPT ![L] = frames]
           fr == [Frame(fn) EXCEPT !.fresh = fn = "lua"]
           f2 == [ci EXCEPT ![L] = Append(frames, fr)]
           e == Execute(m)
<1>1. /\ m \in Nat /\ d \in Entry /\ d.c = "luaD_call" /\ d.th = L /\ d.ci = m
      /\ e \in Entry /\ e.c = "luaV_execute" /\ e.th = L /\ e.ci = m
  BY EntryType
<1> HIDE DEF d, e
<1>2. /\ cs1 \in Seq(Entry) /\ cs1 # <<>> /\ cs1[Len(cs1)] = d
      /\ Len(cs1) \in 1 .. Len(cs1)
      /\ Append(cs1, e) \in Seq(Entry)
  <2>1. cs1 \in Seq(Entry) /\ Len(cs1) = Len(cs) + 1 /\ cs1[Len(cs) + 1] = d /\ Len(cs) \in Nat
    BY <1>1
  <2> HIDE DEF cs1
  <2> QED BY <1>1, <2>1
<1>2a. Shape(cs1, f1)
  BY DEF d
<1>3. f1 \in [Thread -> Seq(CallInfo)] /\ f1[L] = frames
  OBVIOUS
<1>4. /\ fr \in CallInfo /\ fr.fn = fn /\ (fn # "lua" => fr.st \in Resting)
      /\ fn = "lua" => fr.st = "run" /\ fr.fresh
  BY FrameType DEF Resting
<1> HIDE DEF fr
<1>5. /\ f2 \in [Thread -> Seq(CallInfo)] /\ f2[L] = Append(f1[L], fr) /\ Len(f2[L]) = m + 1
      /\ \A t \in Thread : t # L => f2[t] = f1[t]
      /\ \A p \in 1 .. m : f2[L][p] = f1[L][p]
      /\ f2[L][m + 1] = fr
  <2>1. Append(frames, fr) \in Seq(CallInfo)
    BY <1>4
  <2>2. f2 \in [Thread -> Seq(CallInfo)] /\ f2[L] = Append(frames, fr)
    BY <2>1
  <2>3. \A t \in Thread : t # L => f2[t] = f1[t]
    OBVIOUS
  <2>4. Len(Append(frames, fr)) = m + 1 /\ Append(frames, fr)[m + 1] = fr
        /\ \A p \in 1 .. m : Append(frames, fr)[p] = frames[p]
    BY <1>4
  <2> QED BY <2>2, <2>3, <2>4, <1>3
<1>6. CASE StackError(nCcalls[L] + 1)
  <2>1. cstack' = cs1 /\ ci' = f1 /\ raise' \in {"errormsg", "throw"}
    BY <1>6 DEF Call, d
  <2>2. Ready(d, f1[L], raise')
    BY <2>1, <1>1, <1>3 DEF Ready
  <2>3. OnTop(cs1, f1, raise')
    BY <2>2, <1>1, <1>2 DEF OnTop
  <2> QED BY <2>1, <2>3, <1>2, <1>2a, <1>3
<1>7. CASE ~StackError(nCcalls[L] + 1)
  <2>1. Enter(frames, cs1, fn) /\ raise' = "no"
    BY <1>7 DEF Call, d
  <2>2. ci' = f2
    BY <2>1 DEF Enter, fr
  <2> DEFINE n == Len(cs1)
  <2>3. Shape(cs1, f1) /\ n = Len(cs1)
    BY <1>2a
  <2> HIDE DEF cs1, d, e, f1, f2
  <2>4. CASE fn = "lua"
    <3>1. cstack' = Append(cs1, e)
      BY <2>1, <2>4 DEF Enter, cs1, d, e
    <3>2. Shape(Append(cs1, e), f2) /\ OnTop(Append(cs1, e), f2, "no")
      <4>1. /\ L = cs1[n].th /\ cs1[n].c = "luaD_call" /\ m = cs1[n].ci /\ m <= Len(f1[L])
            /\ cs1 # <<>> /\ cs1 \in Seq(Entry) /\ n \in 1 .. Len(cs1)
        BY <1>1, <1>2, <1>3, <2>3
      <4>3. Enters(cs1[n], f1[L], m)
        BY <4>1 DEF Enters
      <4>2. f2[L][m + 1].fn = "lua" /\ f2[L][m + 1].st = "run" /\ f2[L][m + 1].fresh
        BY <2>4, <1>4, <1>5
      <4>4. EntersLua(cs1, f1, f2, n, L, m, e)
        BY <2>3, <4>1, <4>2, <4>3, <1>1, <1>5 DEF EntersLua
      <4>5. n \in Nat
        BY <4>1
      <4> HIDE DEF m, n
      <4> QED BY <4>1, <4>4, <4>5, <1>1, <1>3, <1>5, EnterLua
    <3> QED BY <3>1, <3>2, <2>1, <2>2, <1>2, <1>5
  <2>5. CASE fn # "lua"
    <3>1. cstack' = cs1
      BY <2>1, <2>5 DEF Enter, cs1, d
    <3>2. Shape(cs1, f2) /\ OnTop(cs1, f2, "no")
      <4>1. /\ L = cs1[n].th /\ cs1[n].c = "luaD_call" /\ cs1[n].ci = Len(f1[L])
            /\ cs1 # <<>> /\ cs1 \in Seq(Entry) /\ n \in 1 .. Len(cs1)
        BY <1>1, <1>2, <1>3, <2>3
      <4>2. fr.fn # "lua" /\ fr.st \in Resting
        BY <2>5, <1>4
      <4> HIDE DEF m, n
      <4> QED BY ZenonT(30), <2>3, <4>1, <4>2, <1>3, <1>4, <1>5, EnterC
    <3> QED BY <3>1, <3>2, <2>1, <2>2, <1>2, <1>5
  <2> QED BY <2>4, <2>5
<1> QED BY <1>6, <1>7

-----------------------------------------------------------------------------
(* The thread that runs                                                    *)

StackTypes ==
    /\ bound \in Bounds
    /\ ci \in [Thread -> Seq(CallInfo)] /\ cstack \in Seq(Entry)
    /\ raise \in {"no", "errormsg", "throw"}
Shaped == StackTypes /\ Shape(cstack, ci) /\ OnTop(cstack, ci, raise)

Depth == Len(cstack)
Act == cstack[Len(cstack)]
Size == Len(ci[L])

LEMMA ActFacts ==
    ASSUME Shaped, cstack # <<>>
    PROVE  /\ Depth \in Nat /\ Depth >= 1 /\ Depth \in 1 .. Depth
           /\ Act \in Entry /\ L = Act.th /\ L \in Thread /\ Act.ci \in Nat /\ Act = cstack[Depth]
           /\ ci[L] \in Seq(CallInfo) /\ Size \in Nat /\ Act.ci <= Size
           /\ \A p \in 1 .. Size : ci[L][p] \in CallInfo
           /\ Act.c \in {"luaV_execute", "luaD_call", "lua_resume"}
           /\ Act.c = "lua_resume" => Act.ci = 0
           /\ Rests(Act, ci[L]) /\ Ready(Act, ci[L], raise)
<1>1. Depth \in Nat /\ Depth >= 1 /\ Act \in Entry /\ Act = cstack[Depth] /\ cstack \in Seq(Entry)
      /\ ci \in [Thread -> Seq(CallInfo)]
  BY DEF Shaped, StackTypes, Depth, Act
<1>2. L = Act.th
  BY DEF L, Last, Act
<1>3. L \in Thread /\ Act.ci \in Nat
  BY <1>1, <1>2, EntryFields
<1>4. ci[L] \in Seq(CallInfo)
  BY <1>1, <1>3
<1>5. Owns(cstack, ci, Depth)
  BY <1>1 DEF Shaped, Shape, Depth
<1>6. Rests(Act, ci[L])
  BY <1>1, <1>2, <1>5, TopOwns DEF Depth, Act
<1>7. Ready(Act, ci[L], raise)
  BY <1>2 DEF Shaped, OnTop, Act
<1>8. Act.c \in {"luaV_execute", "luaD_call", "lua_resume"}
  BY <1>1, <1>7, EntryFields DEF Ready
<1>9. Act.ci <= Size
  BY <1>6 DEF Rests, Size
<1>10. Act.c = "lua_resume" => Act.ci = 0
  BY <1>1, EntryFields
<1> QED BY <1>1, <1>2, <1>3, <1>4, <1>6, <1>7, <1>8, <1>9, <1>10 DEF Size

LEMMA TopFacts ==
    ASSUME Shaped, Running
    PROVE  /\ Size >= 1 /\ Size > Act.ci /\ Top = ci[L][Size] /\ Top \in CallInfo /\ cstack # <<>>
           /\ Act.c = "luaV_execute" => Top.st \in {"run"} \cup Resting
           /\ Act.c = "luaD_call" => Size = Act.ci + 1 /\ Top.fn # "lua" /\ Top.st \in Resting
           /\ Act.c = "lua_resume" => Unrollable(Top) \/ Top.st \in Resting
           /\ Top.fn = "lua" /\ Top.st = "run" => Act.c = "luaV_execute"
           /\ raise = "no"
<1>1. cstack # <<>> /\ ci[L] # <<>> /\ raise = "no"
  BY DEF Running
<1>2. /\ ci[L] \in Seq(CallInfo) /\ Size \in Nat /\ Rests(Act, ci[L]) /\ Ready(Act, ci[L], "no")
      /\ Act.ci \in Nat /\ Act.c \in {"luaV_execute", "luaD_call", "lua_resume"}
      /\ Act.c = "lua_resume" => Act.ci = 0
  BY <1>1, ActFacts
<1> DEFINE F == ci[L]
<1>2a. F \in Seq(CallInfo) /\ F # <<>> /\ Size = Len(F) /\ Top = F[Len(F)]
  <2>1. F \in Seq(CallInfo) /\ F # <<>>
    BY <1>1, <1>2
  <2>2. Size = Len(F)
    BY DEF Size
  <2>3. Top = F[Len(F)]
    BY DEF Top, Last
  <2> QED BY <2>1, <2>2, <2>3
<1> HIDE DEF F
<1>2b. Size >= 1 /\ Top = F[Size] /\ Top \in CallInfo
  BY <1>2a
<1>3. Size >= 1 /\ Top = ci[L][Size] /\ Top \in CallInfo
  BY <1>2b DEF F
<1>3a. /\ Rests(Act, F) /\ Ready(Act, F, "no") /\ Act.ci \in Nat /\ Size \in Nat
       /\ Act.c \in {"luaV_execute", "luaD_call", "lua_resume"}
  BY <1>2 DEF F
<1>4. /\ Act.c = "luaV_execute" => Top.st \in {"run"} \cup Resting
      /\ Act.c = "luaD_call" => Size = Act.ci + 1 /\ Top.fn # "lua" /\ Top.st \in Resting
      /\ Act.c = "lua_resume" => Unrollable(Top) \/ Top.st \in Resting
  BY <1>2a, <1>2b, <1>3a DEF Ready, Rests
<1>5. Size > Act.ci
  BY <1>2, <1>2a, <1>2b, <1>3a, <1>4 DEF Rests
<1>6. Top.fn = "lua" /\ Top.st = "run" => Act.c = "luaV_execute"
  <2>1. Top.ypcall => Top.st = "in"
    BY <1>3, FrameFields
  <2> QED BY <2>1, <1>3a, <1>4 DEF Unrollable, Resting
<1> QED BY <1>1, <1>3, <1>4, <1>5, <1>6

LEMMA PrefixFacts ==
    ASSUME NEW S, NEW s \in Seq(S), NEW k \in 0 .. Len(s)
    PROVE  /\ SubSeq(s, 1, k) \in Seq(S) /\ Len(SubSeq(s, 1, k)) = k
           /\ \A p \in 1 .. k : SubSeq(s, 1, k)[p] = s[p]
<1>1. /\ Len(s) \in Nat /\ k \in Int /\ 1 \in Int /\ k >= 0
      /\ \A p \in 1 .. k : s[p] \in S
  OBVIOUS
<1>2. /\ SubSeq(s, 1, k) \in Seq(S)
      /\ Len(SubSeq(s, 1, k)) = IF 1 <= k THEN k - 1 + 1 ELSE 0
      /\ \A p \in 1 .. k - 1 + 1 : SubSeq(s, 1, k)[p] = s[1 + p - 1]
  BY <1>1, SubSeqProperties
<1>3. k - 1 + 1 = k /\ \A p \in 1 .. k : 1 + p - 1 = p
  BY <1>1
<1> QED BY <1>1, <1>2, <1>3

LEMMA FrontFacts ==
    ASSUME NEW S, NEW s \in Seq(S), s # <<>>
    PROVE  /\ Front(s) \in Seq(S) /\ Len(Front(s)) = Len(s) - 1
           /\ \A p \in 1 .. Len(s) - 1 : Front(s)[p] = s[p]
<1>1. Len(s) - 1 \in 0 .. Len(s)
  OBVIOUS
<1> QED BY <1>1, PrefixFacts DEF Front

LEMMA SetTopFacts ==
    ASSUME NEW frames \in Seq(CallInfo), frames # <<>>, NEW x,
           [Last(frames) EXCEPT !.st = x] \in CallInfo
    PROVE  /\ SetTop(frames, x) \in Seq(CallInfo) /\ Len(SetTop(frames, x)) = Len(frames)
           /\ SetTop(frames, x)[Len(frames)] = [Last(frames) EXCEPT !.st = x]
           /\ \A p \in 1 .. Len(frames) - 1 : SetTop(frames, x)[p] = frames[p]
<1>1. Front(frames) \in Seq(CallInfo) /\ Len(Front(frames)) = Len(frames) - 1
      /\ \A p \in 1 .. Len(frames) - 1 : Front(frames)[p] = frames[p]
  BY FrontFacts
<1> HIDE DEF Front
<1> QED BY <1>1 DEF SetTop

(* The frame on top may change, but not what it runs.                      *)
LEMMA TopChanged ==
    ASSUME Shaped, Running, NEW F2 \in Seq(CallInfo), Len(F2) = Size,
           \A p \in 1 .. Size - 1 : F2[p] = ci[L][p],
           F2[Size].fn = Top.fn, F2[Size].fresh = Top.fresh
    PROVE  /\ Shape(cstack, [ci EXCEPT ![L] = F2])
           /\ [ci EXCEPT ![L] = F2] \in [Thread -> Seq(CallInfo)]
<1> DEFINE f2 == [ci EXCEPT ![L] = F2]
<1>1. /\ cstack # <<>> /\ Size \in Nat /\ Size > Act.ci /\ Act.ci \in Nat /\ L \in Thread
      /\ Top = ci[L][Size] /\ L = Act.th /\ Act = cstack[Depth]
      /\ Depth = Len(cstack) /\ Depth \in 1 .. Len(cstack) /\ cstack \in Seq(Entry)
      /\ ci \in [Thread -> Seq(CallInfo)] /\ Shape(cstack, ci)
      /\ Rests(Act, ci[L]) /\ Size = Len(ci[L])
  BY ActFacts, TopFacts DEF Running, Shaped, StackTypes, Depth, Size
<1>2. /\ f2 \in [Thread -> Seq(CallInfo)] /\ f2[L] = F2
      /\ \A t \in Thread : t # L => f2[t] = ci[t]
  BY <1>1
<1>3. \A i \in 1 .. Depth : cstack[i].th \in Thread
  BY <1>1, EntryFields
<1>4. \A p \in 1 .. Act.ci : F2[p] = ci[L][p]
  BY <1>1
<1>5. Keeps(cstack, ci, cstack, f2, Depth)
  BY <1>1, <1>2, <1>3, <1>4 DEF Keeps
<1>6. Rests(Act, F2)
  <2>1. \A p \in 1 .. Size : F2[p].fn = ci[L][p].fn /\ F2[p].fresh = ci[L][p].fresh
    <3>1. \A p \in 1 .. Size : p \in 1 .. Size - 1 \/ p = Size
      BY <1>1
    <3> QED BY <3>1, <1>1
  <2>2. CASE Act.c = "luaV_execute"
    <3>1. /\ Act.ci + 1 \in 1 .. Size
          /\ \A p \in Act.ci + 2 .. Size : p \in 1 .. Size
          /\ \A p \in Act.ci + 1 .. Size - 1 : p \in 1 .. Size - 1
      BY <1>1
    <3>2. /\ ci[L][Act.ci + 1].fn = "lua" /\ ci[L][Act.ci + 1].fresh
          /\ \A p \in Act.ci + 1 .. Size - 1 : ci[L][p].fn = "lua" /\ ci[L][p].st = "call"
          /\ \A p \in Act.ci + 2 .. Size : ~ci[L][p].fresh
      <4>1. Rests(Act, ci[L]) /\ Size = Len(ci[L])
        BY <1>1
      <4> QED BY <4>1, <2>2 DEF Rests
    <3>3. /\ F2[Act.ci + 1].fn = "lua" /\ F2[Act.ci + 1].fresh
          /\ \A p \in Act.ci + 2 .. Size : ~F2[p].fresh
      BY <2>1, <3>1, <3>2
    <3>4. \A p \in Act.ci + 1 .. Size - 1 : F2[p].fn = "lua" /\ F2[p].st = "call"
      BY <3>1, <3>2
    <3>5. Act.ci <= Len(F2) /\ Len(F2) > Act.ci /\ Len(F2) = Size
      BY <1>1
    <3> QED BY <2>2, <3>3, <3>4, <3>5 DEF Rests
  <2>3. CASE Act.c = "luaD_call"
    BY <2>1, <2>3, <1>1 DEF Rests
  <2>4. CASE Act.c = "lua_resume"
    BY <2>4, <1>1 DEF Rests
  <2>5. Act.c \in {"luaV_execute", "luaD_call", "lua_resume"}
    BY <1>1, ActFacts
  <2> QED BY <2>2, <2>3, <2>4, <2>5
<1>7. Shape(cstack, f2)
  BY <1>1, <1>2, <1>5, <1>6, Cut
<1> QED BY <1>2, <1>7

(* A call from the frame on top, which now is fr2.                         *)
CallsFrom(fr2, noyield, caller) ==
    \/ caller = "meta" /\ ~noyield /\ Act.c = "luaV_execute" /\ fr2.fn = "lua" /\ fr2.st = "meta"
    \/ caller = "hook" /\ noyield /\ Act.c = "luaV_execute" /\ fr2.fn = "lua" /\ fr2.st = "out"
    \/ /\ caller = "function" /\ fr2.st = "in"
       /\ \/ fr2.fn = "sort" /\ noyield
          \/ fr2.fn = "dofile"
          \/ fr2.fn \in {"pcall", "xpcall"} /\ fr2.ypcall /\ ~noyield

LEMMA CalledFrom ==
    ASSUME Shaped, Running, NEW F2 \in Seq(CallInfo), Len(F2) = Size,
           \A p \in 1 .. Size - 1 : F2[p] = ci[L][p],
           F2[Size].fn = Top.fn, F2[Size].fresh = Top.fresh,
           NEW noyield \in BOOLEAN, NEW caller \in {"meta", "hook", "handler", "function"},
           CallsFrom(F2[Size], noyield, caller),
           F2[Size].ypcall => \A j \in 1 .. Depth : cstack[j].th = L =>
                                  cstack[j].c # "luaD_pcall" /\ ~Forbids(cstack[j])
    PROVE  Shape(Append(cstack, DCall(Size, noyield, caller)), [ci EXCEPT ![L] = F2])
<1> DEFINE d == DCall(Size, noyield, caller)
           f1 == [ci EXCEPT ![L] = F2]
           cs2 == Append(cstack, d)
<1>1. /\ cstack # <<>> /\ Size \in Nat /\ Size > Act.ci /\ Act.ci \in Nat /\ L \in Thread
      /\ L = Act.th /\ Act = cstack[Depth] /\ Depth = Len(cstack) /\ Depth \in Nat /\ Depth >= 1
      /\ cstack \in Seq(Entry) /\ ci \in [Thread -> Seq(CallInfo)]
      /\ Act.c \in {"luaV_execute", "luaD_call", "lua_resume"}
  BY ActFacts, TopFacts DEF Running, Shaped, StackTypes, Depth
<1>2. Shape(cstack, f1) /\ f1 \in [Thread -> Seq(CallInfo)] /\ f1[L] = F2
  BY TopChanged, <1>1
<1>3. /\ d \in Entry /\ d.c = "luaD_call" /\ d.th = L /\ d.ci = Size
      /\ d.noyield = noyield /\ d.caller = caller
  BY <1>1, EntryType
<1> HIDE DEF d
<1>4. cs2[Depth + 1] = d /\ cs2[(Depth + 1) - 1] = Act /\ Depth + 1 # 1
  BY <1>1, <1>3
<1> HIDE DEF f1, cs2
<1>5. Linked(cs2, Depth + 1)
  BY <1>1, <1>3, <1>4 DEF Linked, CallsFrom
<1>6. Called(cs2, f1, Depth + 1)
  BY <1>1, <1>2, <1>3, <1>4 DEF Called, CallsFrom
<1>7. Pushes(cstack, f1, Depth, L, d)
  BY <1>1, <1>2, <1>3, <1>5, <1>6 DEF Pushes, cs2
<1>8. Shape(cs2, f1)
  BY <1>1, <1>2, <1>3, <1>7, Push DEF cs2
<1> QED BY <1>8 DEF cs2, f1, d

(* The same with luaD_pcall in between.                                    *)
LEMMA CalledProtected ==
    ASSUME Shaped, Running, NEW F2 \in Seq(CallInfo), Len(F2) = Size,
           \A p \in 1 .. Size - 1 : F2[p] = ci[L][p],
           F2[Size].fn = Top.fn, F2[Size].fresh = Top.fresh,
           NEW r \in Entry, r.c = "luaD_pcall", r.th = L, r.ci = Size,
           \/ r.gc /\ Act.c = "luaV_execute" /\ F2[Size].fn = "lua" /\ F2[Size].st = "out"
           \/ ~r.gc /\ F2[Size].fn \in {"pcall", "xpcall"} /\ F2[Size].st = "in" /\ ~F2[Size].ypcall
    PROVE  Shape(Append(Append(cstack, r), DCall(Size, TRUE, "function")), [ci EXCEPT ![L] = F2])
<1> DEFINE d == DCall(Size, TRUE, "function")
           f1 == [ci EXCEPT ![L] = F2]
           cs2 == Append(cstack, r)
           cs3 == Append(cs2, d)
           n == Depth + 1
<1>1. /\ cstack # <<>> /\ Size \in Nat /\ Size > Act.ci /\ Act.ci \in Nat /\ L \in Thread
      /\ L = Act.th /\ Act = cstack[Depth] /\ Depth = Len(cstack) /\ Depth \in Nat /\ Depth >= 1
      /\ cstack \in Seq(Entry) /\ ci \in [Thread -> Seq(CallInfo)]
      /\ Act.c \in {"luaV_execute", "luaD_call", "lua_resume"}
      /\ Act.c = "luaD_call" => Size = Act.ci + 1
  BY ActFacts, TopFacts DEF Running, Shaped, StackTypes, Depth
<1>2. Shape(cstack, f1) /\ f1 \in [Thread -> Seq(CallInfo)] /\ f1[L] = F2
  BY TopChanged, <1>1
<1>3. /\ d \in Entry /\ d.c = "luaD_call" /\ d.th = L /\ d.ci = Size
      /\ d.noyield /\ d.caller = "function"
  <2>1. TRUE \in BOOLEAN /\ "function" \in {"meta", "hook", "handler", "function"}
    OBVIOUS
  <2>2. d.noyield /\ d.caller = "function" /\ d.c = "luaD_call" /\ d.th = L /\ d.ci = Size
    BY DEF DCall
  <2>3. d \in Entry
    BY <1>1 DEF DCall, Entry
  <2> QED BY <2>2, <2>3
<1> HIDE DEF d
<1>4. /\ cs2[n] = r /\ cs2[n - 1] = Act /\ n # 1 /\ n = Len(cs2) /\ n \in Nat
      /\ cs2 # <<>> /\ cs2 \in Seq(Entry)
  BY <1>1
<1> HIDE DEF f1, cs2, n
<1>4a. Linked(cs2, n)
  BY <1>1, <1>4 DEF Linked
<1>4b. Called(cs2, f1, n)
  BY SMTT(30), <1>1, <1>2, <1>4 DEF Called
<1>5. Pushes(cstack, f1, Depth, L, r)
  BY <1>1, <1>2, <1>4a, <1>4b DEF Pushes, cs2, n
<1>6. Shape(cs2, f1)
  BY <1>1, <1>2, <1>5, Push DEF cs2
<1>7. cs3[n + 1] = d /\ cs3[(n + 1) - 1] = r /\ n + 1 # 1
  BY <1>3, <1>4
<1> HIDE DEF cs3
<1>8. Linked(cs3, n + 1)
  BY <1>1, <1>3, <1>7 DEF Linked
<1>9. Called(cs3, f1, n + 1)
  BY <1>1, <1>2, <1>3, <1>7 DEF Called
<1>10. Pushes(cs2, f1, n, L, d)
  BY <1>1, <1>2, <1>3, <1>4, <1>6, <1>8, <1>9 DEF Pushes, cs3
<1>11. Shape(cs3, f1)
  BY <1>1, <1>2, <1>3, <1>4, <1>10, Push DEF cs3
<1> QED BY <1>11 DEF cs3, cs2, f1, d

LEMMA SetsFinite ==
    ASSUME NEW cs, NEW th, NEW n \in Nat
    PROVE  /\ IsFiniteSet(CallsTo(cs, n)) /\ Cardinality(CallsTo(cs, n)) \in Nat
           /\ IsFiniteSet(ForbidsTo(cs, th, n)) /\ Cardinality(ForbidsTo(cs, th, n)) \in Nat
<1>1. IsFiniteSet(1 .. n)
  BY FS_Interval
<1>2. CallsTo(cs, n) \subseteq 1 .. n /\ ForbidsTo(cs, th, n) \subseteq 1 .. n
  BY DEF CallsTo, ForbidsTo
<1> QED BY <1>1, <1>2, FS_Subset, FS_CardinalityType

(* Where a yield is allowed, nothing of the thread forbids it.             *)
LEMMA MayYield ==
    ASSUME Shaped, Counts, cstack # <<>>, nny[L] = 0
    PROVE  \A j \in 1 .. Depth : cstack[j].th = L =>
               cstack[j].c # "luaD_pcall" /\ ~Forbids(cstack[j])
<1>1. /\ Depth \in Nat /\ L \in Thread /\ Depth = Len(cstack) /\ Act.c # "luaD_pcall"
      /\ Act = cstack[Depth] /\ cstack \in Seq(Entry)
  BY ActFacts DEF Depth, Shaped, StackTypes
<1>2. Base(cstack, L) + Cardinality(ForbidsTo(cstack, L, Depth)) = 0
  BY <1>1 DEF Counts, CountsOf
<1>3. Base(cstack, L) \in {0, 1}
  BY DEF Base
<1>4. Cardinality(ForbidsTo(cstack, L, Depth)) = 0
  BY <1>1, <1>2, <1>3, SetsFinite
<1>5. ForbidsTo(cstack, L, Depth) = {}
  BY <1>1, <1>4, SetsFinite, FS_EmptySet
<1>6. \A j \in 1 .. Depth : cstack[j].th = L => ~Forbids(cstack[j])
  BY <1>5 DEF ForbidsTo
<1>7. ASSUME NEW j \in 1 .. Depth, cstack[j].th = L, cstack[j].c = "luaD_pcall" PROVE FALSE
  <2>1. j # Depth
    BY <1>1, <1>7
  <2>2. j + 1 \in 1 .. Depth /\ j < Len(cstack) /\ j + 1 # 1 /\ (j + 1) - 1 = j
    BY <1>1, <2>1
  <2>3. Owns(cstack, ci, j) /\ Linked(cstack, j + 1)
    BY <2>2, <1>1 DEF Shaped, Shape
  <2>4. cstack[j + 1].c = "luaD_call" /\ cstack[j + 1].th = L /\ cstack[j + 1].noyield
    BY <2>2, <2>3, <1>7 DEF Owns, Linked
  <2> QED BY <2>2, <2>4, <1>6 DEF Forbids
<1> QED BY <1>6, <1>7

(* Hooks are allowed there: a hook or a finalizer forbids yields.          *)
LEMMA HooksMayRun ==
    ASSUME Shaped, Threads, Counts, cstack # <<>>, nny[L] = 0
    PROVE  allowhook[L]
<1>1. /\ Depth = Len(cstack) /\ L \in Thread /\ Depth \in 1 .. Depth /\ L = cstack[Depth].th
  BY ActFacts DEF Depth, Act
<1>2. ~HooksOff(cstack, L, Depth)
  <2>1. SUFFICES ASSUME NEW i \in 1 .. Depth, cstack[i].th = L,
                        \/ cstack[i].c = "luaD_call" /\ cstack[i].caller = "hook"
                        \/ cstack[i].c = "luaD_pcall"
                 PROVE  FALSE
    BY DEF HooksOff
  <2>2. cstack[i].c # "luaD_pcall" /\ ~Forbids(cstack[i])
    BY <2>1, MayYield
  <2>3. Linked(cstack, i)
    BY <1>1 DEF Shaped, Shape
  <2>4. cstack[i].noyield
    BY <2>1, <2>2, <2>3 DEF Linked
  <2> QED BY <2>1, <2>2, <2>4 DEF Forbids
<1>3. status[L] = "LUA_OK"
  BY <1>1 DEF Threads, Depth
<1> QED BY <1>1, <1>2, <1>3 DEF Counts, CountsOf

LEMMA FnsFacts ==
    ASSUME Shaped
    PROVE  Fns \subseteq Functions /\ "lua" \in Functions
  BY CallsAssumption DEF Shaped, StackTypes, Fns, Functions

LEMMA ShapedNext ==
    ASSUME Shaped, Same, cstack' \in Seq(Entry), ci' \in [Thread -> Seq(CallInfo)],
           raise' \in {"no", "errormsg", "throw"},
           Shape(cstack', ci'), OnTop(cstack', ci', raise')
    PROVE  Shaped'
  BY DEF Shaped, StackTypes, Same

(* luaD_call from the frame on top, changed to F2.                         *)
CallsAs(F2, noyield, caller) ==
    /\ Len(F2) = Size /\ \A p \in 1 .. Size - 1 : F2[p] = ci[L][p]
    /\ F2[Size].fn = Top.fn /\ F2[Size].fresh = Top.fresh
    /\ CallsFrom(F2[Size], noyield, caller)
    /\ F2[Size].ypcall => \A j \in 1 .. Depth : cstack[j].th = L =>
                              cstack[j].c # "luaD_pcall" /\ ~Forbids(cstack[j])

LEMMA CallStep ==
    ASSUME Shaped, Running, Same, NEW F2 \in Seq(CallInfo), NEW noyield \in BOOLEAN,
           NEW caller \in {"meta", "hook", "handler", "function"}, CallsAs(F2, noyield, caller),
           NEW fn \in Functions, Call(F2, cstack, noyield, caller, fn)
    PROVE  Shaped'
<1>1. Shape(Append(cstack, DCall(Len(F2), noyield, caller)), [ci EXCEPT ![L] = F2])
  BY CalledFrom DEF CallsAs
<1>2. ci \in [Thread -> Seq(CallInfo)] /\ cstack \in Seq(Entry) /\ L \in Thread
  BY ActFacts DEF Running, Shaped, StackTypes
<1>3. /\ cstack' \in Seq(Entry) /\ ci' \in [Thread -> Seq(CallInfo)]
      /\ raise' \in {"no", "errormsg", "throw"}
      /\ Shape(cstack', ci') /\ OnTop(cstack', ci', raise')
  BY <1>1, <1>2, CallShape
<1> QED BY <1>3, ShapedNext

ProtectsAs(F2, r) ==
    /\ Len(F2) = Size /\ \A p \in 1 .. Size - 1 : F2[p] = ci[L][p]
    /\ F2[Size].fn = Top.fn /\ F2[Size].fresh = Top.fresh
    /\ r.c = "luaD_pcall" /\ r.th = L /\ r.ci = Size
    /\ \/ r.gc /\ Act.c = "luaV_execute" /\ F2[Size].fn = "lua" /\ F2[Size].st = "out"
       \/ ~r.gc /\ F2[Size].fn \in {"pcall", "xpcall"} /\ F2[Size].st = "in" /\ ~F2[Size].ypcall

LEMMA ProtectedStep ==
    ASSUME Shaped, Running, Same, NEW F2 \in Seq(CallInfo), NEW r \in Entry, ProtectsAs(F2, r),
           NEW fn \in Functions, Call(F2, Append(cstack, r), TRUE, "function", fn)
    PROVE  Shaped'
<1>1. Shape(Append(Append(cstack, r), DCall(Len(F2), TRUE, "function")), [ci EXCEPT ![L] = F2])
  BY CalledProtected DEF ProtectsAs
<1>2. /\ ci \in [Thread -> Seq(CallInfo)] /\ Append(cstack, r) \in Seq(Entry) /\ L \in Thread
      /\ TRUE \in BOOLEAN /\ "function" \in {"meta", "hook", "handler", "function"}
  BY ActFacts DEF Running, Shaped, StackTypes
<1>3. /\ cstack' \in Seq(Entry) /\ ci' \in [Thread -> Seq(CallInfo)]
      /\ raise' \in {"no", "errormsg", "throw"}
      /\ Shape(cstack', ci') /\ OnTop(cstack', ci', raise')
  BY <1>1, <1>2, CallShape
<1> QED BY <1>3, ShapedNext

(* The frame on top at another place.                                      *)
At(fr, x) == [fr EXCEPT !.st = x]

LEMMA TopSet ==
    ASSUME Shaped, Running, NEW x,
           IF Top.fn = "lua" THEN x \in LuaStates ELSE x \in Resting \cup {"in"},
           Top.ypcall => x = "in"
    PROVE  /\ SetTop(ci[L], x) \in Seq(CallInfo) /\ Len(SetTop(ci[L], x)) = Size
           /\ SetTop(ci[L], x)[Size] = At(Top, x) /\ At(Top, x) \in CallInfo
           /\ \A p \in 1 .. Size - 1 : SetTop(ci[L], x)[p] = ci[L][p]
           /\ At(Top, x).fn = Top.fn /\ At(Top, x).fresh = Top.fresh
           /\ At(Top, x).st = x /\ At(Top, x).ypcall = Top.ypcall
<1>1. ci[L] \in Seq(CallInfo) /\ ci[L] # <<>> /\ Top = Last(ci[L]) /\ Size = Len(ci[L])
  BY ActFacts DEF Running, Top, Size
<1>2. Top \in CallInfo
  BY TopFacts
<1>3. /\ At(Top, x).fn = Top.fn /\ At(Top, x).fresh = Top.fresh
      /\ At(Top, x).st = x /\ At(Top, x).ypcall = Top.ypcall
  BY <1>2 DEF CallInfo, At
<1>4. At(Top, x) \in CallInfo
  BY <1>2 DEF CallInfo, LuaStates, Resting, At
<1> QED BY <1>1, <1>3, <1>4, SetTopFacts DEF At

LEMMA TopReplaced ==
    ASSUME Shaped, Running, NEW fr \in CallInfo
    PROVE  /\ Append(Front(ci[L]), fr) \in Seq(CallInfo) /\ Len(Append(Front(ci[L]), fr)) = Size
           /\ Append(Front(ci[L]), fr)[Size] = fr
           /\ \A p \in 1 .. Size - 1 : Append(Front(ci[L]), fr)[p] = ci[L][p]
<1>1. ci[L] \in Seq(CallInfo) /\ ci[L] # <<>> /\ Size = Len(ci[L]) /\ Size \in Nat
  BY ActFacts DEF Running, Size
<1> DEFINE G == Front(ci[L])
<1>2. G \in Seq(CallInfo) /\ Len(G) = Size - 1 /\ \A p \in 1 .. Size - 1 : G[p] = ci[L][p]
  BY <1>1, FrontFacts
<1> HIDE DEF G
<1>3. /\ Append(G, fr) \in Seq(CallInfo) /\ Len(Append(G, fr)) = Size
      /\ Append(G, fr)[Size] = fr
      /\ \A p \in 1 .. Size - 1 : Append(G, fr)[p] = ci[L][p]
  BY <1>1, <1>2
<1> QED BY <1>3 DEF G

-----------------------------------------------------------------------------
(* Every step keeps the shape: calls                                       *)

LEMMA CallTMShaped == ASSUME Shaped, CallTM, Same PROVE Shaped'
<1>1. Running /\ Top.fn = "lua" /\ Top.st = "run"
  BY DEF CallTM, RunsLua
<1>2. Top \in CallInfo /\ Act.c = "luaV_execute" /\ "meta" \in LuaStates
  BY <1>1, TopFacts DEF LuaStates
<1>3. ~Top.ypcall
  BY <1>1, <1>2, FrameFields
<1> DEFINE F2 == SetTop(ci[L], "meta")
<1>4. /\ F2 \in Seq(CallInfo) /\ Len(F2) = Size
      /\ \A p \in 1 .. Size - 1 : F2[p] = ci[L][p]
      /\ F2[Size].fn = Top.fn /\ F2[Size].fresh = Top.fresh
      /\ F2[Size].st = "meta" /\ ~F2[Size].ypcall
  BY <1>1, <1>2, <1>3, TopSet
<1>5. PICK fn \in Fns : Call(F2, cstack, FALSE, "meta", fn)
  BY DEF CallTM
<1> HIDE DEF F2
<1>6. CallsAs(F2, FALSE, "meta") /\ fn \in Functions
  BY <1>1, <1>2, <1>4, <1>5, FnsFacts DEF CallsFrom, CallsAs
<1> QED BY <1>1, <1>4, <1>5, <1>6, CallStep

LEMMA HookShaped == ASSUME Shaped, Hook, Same PROVE Shaped'
<1>1. Running /\ Top.fn = "lua" /\ Top.st = "run"
  BY DEF Hook, RunsLua
<1>2. Top \in CallInfo /\ Act.c = "luaV_execute" /\ "out" \in LuaStates
  BY <1>1, TopFacts DEF LuaStates
<1>3. ~Top.ypcall
  BY <1>1, <1>2, FrameFields
<1> DEFINE F2 == SetTop(ci[L], "out")
<1>4. /\ F2 \in Seq(CallInfo) /\ Len(F2) = Size
      /\ \A p \in 1 .. Size - 1 : F2[p] = ci[L][p]
      /\ F2[Size].fn = Top.fn /\ F2[Size].fresh = Top.fresh
      /\ F2[Size].st = "out" /\ ~F2[Size].ypcall
  BY <1>1, <1>2, <1>3, TopSet
<1>5. Call(F2, cstack, TRUE, "hook", "lua")
  BY DEF Hook
<1> HIDE DEF F2
<1>6. CallsAs(F2, TRUE, "hook") /\ "lua" \in Functions
  BY <1>1, <1>2, <1>4, FnsFacts DEF CallsFrom, CallsAs
<1> QED BY <1>1, <1>4, <1>5, <1>6, CallStep

LEMMA CallKShaped == ASSUME Shaped, CallK, Same PROVE Shaped'
<1>1. Running /\ Top.fn = "dofile" /\ Top.st = "start"
  BY DEF CallK, RunsC
<1>2. Top \in CallInfo
  BY <1>1, TopFacts
<1>3. ~Top.ypcall
  BY <1>1, <1>2, FrameFields
<1> DEFINE F2 == SetTop(ci[L], "in")
           noyield == nny[L] > 0
<1>4. /\ F2 \in Seq(CallInfo) /\ Len(F2) = Size
      /\ \A p \in 1 .. Size - 1 : F2[p] = ci[L][p]
      /\ F2[Size].fn = Top.fn /\ F2[Size].fresh = Top.fresh
      /\ F2[Size].st = "in" /\ ~F2[Size].ypcall
  BY <1>1, <1>2, <1>3, TopSet
<1>5. PICK fn \in Fns : Call(F2, cstack, noyield, "function", fn)
  BY DEF CallK
<1>6. noyield \in BOOLEAN
  OBVIOUS
<1> HIDE DEF F2, noyield
<1>7. CallsAs(F2, noyield, "function") /\ fn \in Functions
  BY <1>1, <1>2, <1>4, <1>5, FnsFacts DEF CallsFrom, CallsAs
<1> QED BY <1>1, <1>4, <1>5, <1>6, <1>7, CallStep

LEMMA LuaCallShaped == ASSUME Shaped, LuaCall, Same PROVE Shaped'
<1>1. Running /\ Top.fn = "sort" /\ Top.st = "start"
  BY DEF LuaCall, RunsC
<1>2. Top \in CallInfo
  BY <1>1, TopFacts
<1>3. ~Top.ypcall
  BY <1>1, <1>2, FrameFields
<1> DEFINE F2 == SetTop(ci[L], "in")
<1>4. /\ F2 \in Seq(CallInfo) /\ Len(F2) = Size
      /\ \A p \in 1 .. Size - 1 : F2[p] = ci[L][p]
      /\ F2[Size].fn = Top.fn /\ F2[Size].fresh = Top.fresh
      /\ F2[Size].st = "in" /\ ~F2[Size].ypcall
  BY <1>1, <1>2, <1>3, TopSet
<1>5. PICK fn \in Fns : Call(F2, cstack, TRUE, "function", fn)
  BY DEF LuaCall
<1> HIDE DEF F2
<1>6. CallsAs(F2, TRUE, "function") /\ fn \in Functions
  BY <1>1, <1>2, <1>4, <1>5, FnsFacts DEF CallsFrom, CallsAs
<1> QED BY <1>1, <1>4, <1>5, <1>6, CallStep

LEMMA PCallType ==
    ASSUME TypeOK, L \in Thread, Size \in Nat, NEW gc \in BOOLEAN
    PROVE  /\ PCall(gc) \in Entry /\ PCall(gc).c = "luaD_pcall" /\ PCall(gc).th = L
           /\ PCall(gc).ci = Size /\ PCall(gc).gc = gc
  BY DEF PCall, Entry, TypeOK, Size

LEMMA FinalizerShaped == ASSUME Shaped, TypeOK, Finalizer, Same PROVE Shaped'
<1>1. Running /\ Top.fn = "lua" /\ Top.st = "run"
  BY DEF Finalizer, RunsLua
<1>2. Top \in CallInfo /\ Act.c = "luaV_execute" /\ "out" \in LuaStates
      /\ L \in Thread /\ Size \in Nat
  BY <1>1, TopFacts, ActFacts DEF LuaStates
<1>3. ~Top.ypcall
  BY <1>1, <1>2, FrameFields
<1> DEFINE F2 == SetTop(ci[L], "out")
           r == PCall(TRUE)
<1>4. /\ F2 \in Seq(CallInfo) /\ Len(F2) = Size
      /\ \A p \in 1 .. Size - 1 : F2[p] = ci[L][p]
      /\ F2[Size].fn = Top.fn /\ F2[Size].fresh = Top.fresh
      /\ F2[Size].st = "out" /\ ~F2[Size].ypcall
  BY <1>1, <1>2, <1>3, TopSet
<1>5. Call(F2, Append(cstack, r), TRUE, "function", "lua")
  BY DEF Finalizer
<1>6. r \in Entry /\ r.c = "luaD_pcall" /\ r.th = L /\ r.ci = Size /\ r.gc
  <2>1. TRUE \in BOOLEAN
    OBVIOUS
  <2> QED BY <1>2, <2>1, PCallType
<1> HIDE DEF F2, r
<1>7. ProtectsAs(F2, r) /\ "lua" \in Functions
  BY <1>1, <1>2, <1>4, <1>6, FnsFacts DEF ProtectsAs
<1> QED BY <1>1, <1>4, <1>5, <1>6, <1>7, ProtectedStep

LEMMA PCallKShaped == ASSUME Shaped, TypeOK, Threads, Counts, PCallK, Same PROVE Shaped'
<1>1. Running /\ Top.fn \in {"pcall", "xpcall"} /\ Top.st = "start"
  BY DEF PCallK, RunsC
<1>2. Top \in CallInfo /\ L \in Thread /\ Size \in Nat /\ cstack # <<>>
  BY <1>1, TopFacts, ActFacts
<1>3. ~Top.ypcall
  BY <1>1, <1>2, FrameFields
<1>3a. \E fn \in Fns :
         \/ /\ nny[L] > 0
            /\ Call(SetTop(ci[L], "in"), Append(cstack, PCall(FALSE)), TRUE, "function", fn)
         \/ /\ nny[L] = 0
            /\ Call(Append(Front(ci[L]),
                           [Top EXCEPT !.st = "in", !.ypcall = TRUE, !.old_errfunc = errfunc[L],
                                       !.oah = allowhook[L]]),
                    cstack, FALSE, "function", fn)
  BY Zenon DEF PCallK
<1>4. CASE nny[L] > 0
  <2>0. nny[L] # 0
    BY <1>4
  <2> DEFINE F2 == SetTop(ci[L], "in")
             r == PCall(FALSE)
  <2>1. /\ F2 \in Seq(CallInfo) /\ Len(F2) = Size
        /\ \A p \in 1 .. Size - 1 : F2[p] = ci[L][p]
        /\ F2[Size].fn = Top.fn /\ F2[Size].fresh = Top.fresh
        /\ F2[Size].st = "in" /\ ~F2[Size].ypcall
    BY <1>1, <1>2, <1>3, TopSet
  <2>2. PICK fn \in Fns : Call(F2, Append(cstack, r), TRUE, "function", fn)
    BY <2>0, <1>3a, Zenon
  <2>3. r \in Entry /\ r.c = "luaD_pcall" /\ r.th = L /\ r.ci = Size /\ ~r.gc
    <3>1. FALSE \in BOOLEAN
      OBVIOUS
    <3> QED BY <1>2, <3>1, PCallType
  <2> HIDE DEF F2, r
  <2>4. ProtectsAs(F2, r) /\ fn \in Functions
    BY <1>1, <1>2, <2>1, <2>3, FnsFacts DEF ProtectsAs
  <2> QED BY <1>1, <2>1, <2>2, <2>3, <2>4, ProtectedStep
<1>5. CASE nny[L] = 0
  <2>0. ~(nny[L] > 0)
    BY <1>5
  <2> DEFINE fr == [Top EXCEPT !.st = "in", !.ypcall = TRUE, !.old_errfunc = errfunc[L],
                               !.oah = allowhook[L]]
             F2 == Append(Front(ci[L]), fr)
  <2>1. fr \in CallInfo /\ fr.fn = Top.fn /\ fr.fresh = Top.fresh /\ fr.st = "in" /\ fr.ypcall
    <3>1. errfunc[L] \in BOOLEAN /\ allowhook[L]
      BY <1>2, <1>5, HooksMayRun DEF TypeOK
    <3> QED BY <3>1, <1>1, <1>2 DEF CallInfo, LuaStates, Resting
  <2> HIDE DEF fr
  <2>2. /\ F2 \in Seq(CallInfo) /\ Len(F2) = Size /\ F2[Size] = fr
        /\ \A p \in 1 .. Size - 1 : F2[p] = ci[L][p]
    BY <1>1, <2>1, TopReplaced
  <2>3. PICK fn \in Fns : Call(F2, cstack, FALSE, "function", fn)
    BY <2>0, <1>3a, Zenon DEF fr
  <2>4. \A j \in 1 .. Depth : cstack[j].th = L => cstack[j].c # "luaD_pcall" /\ ~Forbids(cstack[j])
    BY <1>2, <1>5, MayYield
  <2> HIDE DEF F2
  <2>5. CallsAs(F2, FALSE, "function") /\ fn \in Functions
    BY <1>1, <1>2, <2>1, <2>2, <2>4, FnsFacts DEF CallsAs, CallsFrom
  <2> QED BY <1>1, <2>2, <2>3, <2>5, CallStep
<1>6. nny[L] \in Nat
  BY <1>2 DEF TypeOK
<1> QED BY <1>4, <1>5, <1>6

(* The activations return to the k-th one, whose thread gets the frames F2.*)
ReturnsTo(k, th, F2) ==
    /\ th = cstack[k].th /\ cstack[k].ci <= Len(F2)
    /\ \A p \in 1 .. cstack[k].ci : F2[p] = ci[th][p]
    /\ Rests(cstack[k], F2)

LEMMA ReturnShape ==
    ASSUME Shaped, NEW k \in 1 .. Len(cstack), NEW th, NEW F2 \in Seq(CallInfo), ReturnsTo(k, th, F2)
    PROVE  /\ Shape(SubSeq(cstack, 1, k), [ci EXCEPT ![th] = F2])
           /\ SubSeq(cstack, 1, k) \in Seq(Entry) /\ SubSeq(cstack, 1, k) # <<>>
           /\ Len(SubSeq(cstack, 1, k)) = k /\ SubSeq(cstack, 1, k)[k] = cstack[k]
           /\ [ci EXCEPT ![th] = F2] \in [Thread -> Seq(CallInfo)] /\ th \in Thread
<1> DEFINE cs2 == SubSeq(cstack, 1, k)
           f2 == [ci EXCEPT ![th] = F2]
<1>1. /\ cstack \in Seq(Entry) /\ ci \in [Thread -> Seq(CallInfo)] /\ Shape(cstack, ci)
      /\ Len(cstack) \in Nat
  BY DEF Shaped, StackTypes
<1>2. /\ \A i \in 1 .. k : i \in 1 .. Len(cstack)
      /\ k \in 1 .. k /\ k \in 0 .. Len(cstack) /\ k \in Nat /\ k # 0
  BY <1>1
<1>3. \A i \in 1 .. k : cstack[i] \in Entry /\ cstack[i].th \in Thread
  BY <1>1, <1>2, EntryFields
<1>4. th \in Thread
  BY <1>2, <1>3 DEF ReturnsTo
<1>5. f2 \in [Thread -> Seq(CallInfo)] /\ f2[th] = F2 /\ \A t \in Thread : t # th => f2[t] = ci[t]
  BY <1>1, <1>4
<1>6. cs2 \in Seq(Entry) /\ Len(cs2) = k /\ \A p \in 1 .. k : cs2[p] = cstack[p]
  BY <1>1, <1>2, PrefixFacts
<1> HIDE DEF cs2, f2
<1>7. Keeps(cstack, ci, cs2, f2, k)
  BY <1>2, <1>3, <1>5, <1>6 DEF Keeps, ReturnsTo
<1>8. Rests(cstack[k], f2[cstack[k].th])
  BY <1>5 DEF ReturnsTo
<1>9. Shape(cs2, f2)
  BY <1>1, <1>5, <1>6, <1>7, <1>8, Cut
<1>10. cs2 # <<>>
  BY <1>2, <1>6
<1> QED BY <1>2, <1>4, <1>5, <1>6, <1>9, <1>10 DEF cs2, f2

LEMMA WholeSequence ==
    ASSUME NEW S, NEW s \in Seq(S)
    PROVE  SubSeq(s, 1, Len(s)) = s
<1>1. Len(s) \in 0 .. Len(s) /\ Len(s) \in Nat
  OBVIOUS
<1> DEFINE t == SubSeq(s, 1, Len(s))
<1>2. t \in Seq(S) /\ Len(t) = Len(s) /\ \A p \in 1 .. Len(s) : t[p] = s[p]
  BY <1>1, PrefixFacts
<1> HIDE DEF t
<1>3. t = s
  BY <1>1, <1>2, SeqEqual
<1> QED BY <1>3 DEF t

LEMMA OpCallShaped == ASSUME Shaped, OpCall, Same PROVE Shaped'
<1>1. Running /\ Top.fn = "lua" /\ Top.st = "run"
  BY DEF OpCall, RunsLua
<1>2. /\ Top \in CallInfo /\ Act.c = "luaV_execute" /\ "call" \in LuaStates
      /\ L \in Thread /\ Size \in Nat /\ Act.ci \in Nat /\ Size > Act.ci /\ Top = ci[L][Size]
      /\ Rests(Act, ci[L]) /\ cstack # <<>> /\ raise = "no" /\ L = Act.th
      /\ Depth \in 1 .. Len(cstack) /\ Act = cstack[Depth] /\ Depth = Len(cstack)
      /\ cstack \in Seq(Entry) /\ ci \in [Thread -> Seq(CallInfo)] /\ Size = Len(ci[L])
  BY <1>1, TopFacts, ActFacts DEF LuaStates, Depth, Shaped, StackTypes, Size
<1>3. ~Top.ypcall
  BY <1>1, <1>2, FrameFields
<1> DEFINE G == SetTop(ci[L], "call")
<1>4. /\ G \in Seq(CallInfo) /\ Len(G) = Size
      /\ \A p \in 1 .. Size - 1 : G[p] = ci[L][p]
      /\ G[Size].fn = Top.fn /\ G[Size].fresh = Top.fresh /\ G[Size].st = "call"
  <2>1. PICK x : x = "call"
    OBVIOUS
  <2>2. x \in LuaStates /\ Top.fn = "lua"
    BY <2>1, <1>1, <1>2
  <2>3. /\ SetTop(ci[L], x) \in Seq(CallInfo) /\ Len(SetTop(ci[L], x)) = Size
        /\ SetTop(ci[L], x)[Size] = At(Top, x)
        /\ \A p \in 1 .. Size - 1 : SetTop(ci[L], x)[p] = ci[L][p]
        /\ At(Top, x).fn = Top.fn /\ At(Top, x).fresh = Top.fresh /\ At(Top, x).st = x
    BY <2>2, <1>1, <1>3, TopSet
  <2> QED BY <2>1, <2>3
<1>5. PICK fn \in Fns : /\ ci' = [ci EXCEPT ![L] = Append(G, Frame(fn))]
                        /\ cstack' = cstack /\ raise' = raise
  BY DEF OpCall
<1> HIDE DEF G
<1>6. Frame(fn) \in CallInfo /\ ~Frame(fn).fresh /\ Frame(fn).st \in {"run"} \cup Resting
  BY <1>5, FrameType, FnsFacts DEF Resting
<1> DEFINE fr == Frame(fn)
           F2 == Append(G, fr)
<1> HIDE DEF fr
<1>7. /\ F2 \in Seq(CallInfo) /\ Len(F2) = Size + 1 /\ F2[Size + 1] = fr
      /\ \A p \in 1 .. Size : F2[p] = G[p]
  BY <1>2, <1>4, <1>6 DEF fr
<1> HIDE DEF F2
<1>8. /\ \A p \in 1 .. Size - 1 : F2[p] = ci[L][p]
      /\ F2[Size].fn = Top.fn /\ F2[Size].fresh = Top.fresh /\ F2[Size].st = "call"
  BY <1>2, <1>4, <1>7
<1>9. Rests(Act, F2)
  <2>1. /\ ci[L][Act.ci + 1].fn = "lua" /\ ci[L][Act.ci + 1].fresh
        /\ \A p \in Act.ci + 1 .. Size - 1 : ci[L][p].fn = "lua" /\ ci[L][p].st = "call"
        /\ \A p \in Act.ci + 2 .. Size : ~ci[L][p].fresh
    BY <1>2 DEF Rests
  <2>2. \A p \in 1 .. Size : F2[p].fn = ci[L][p].fn /\ F2[p].fresh = ci[L][p].fresh
    <3>1. \A p \in 1 .. Size : p \in 1 .. Size - 1 \/ p = Size
      BY <1>2
    <3> QED BY <3>1, <1>2, <1>8
  <2>3. F2[Act.ci + 1].fn = "lua" /\ F2[Act.ci + 1].fresh
    <3>1. Act.ci + 1 \in 1 .. Size
      BY <1>2
    <3> QED BY <3>1, <2>1, <2>2
  <2>4. ASSUME NEW p \in Act.ci + 1 .. Size PROVE F2[p].fn = "lua" /\ F2[p].st = "call"
    <3>1. (p \in Act.ci + 1 .. Size - 1 /\ p \in 1 .. Size - 1) \/ p = Size
      BY <1>2
    <3> QED BY <3>1, <2>1, <1>1, <1>8
  <2>5. ASSUME NEW p \in Act.ci + 2 .. Size + 1 PROVE ~F2[p].fresh
    <3>1. (p \in Act.ci + 2 .. Size /\ p \in 1 .. Size) \/ p = Size + 1
      BY <1>2
    <3> QED BY <3>1, <2>1, <2>2, <1>6, <1>7 DEF fr
  <2> QED BY <2>3, <2>4, <2>5, <1>2, <1>7 DEF Rests
<1>10. ReturnsTo(Depth, L, F2)
  <2>1. Act.ci <= Len(F2) /\ \A p \in 1 .. Act.ci : F2[p] = ci[L][p]
    BY <1>2, <1>7, <1>8
  <2> QED BY <2>1, <1>2, <1>9 DEF ReturnsTo
<1>11. /\ Shape(SubSeq(cstack, 1, Depth), [ci EXCEPT ![L] = F2])
       /\ [ci EXCEPT ![L] = F2] \in [Thread -> Seq(CallInfo)]
  BY <1>2, <1>7, <1>10, ReturnShape
<1>12. SubSeq(cstack, 1, Depth) = cstack
  BY <1>2, WholeSequence
<1>13. Ready(Act, F2, "no")
  BY <1>2, <1>6, <1>7 DEF Ready, fr
<1> DEFINE f2 == [ci EXCEPT ![L] = F2]
<1>14. f2[L] = F2 /\ ci' = f2
  BY <1>2, <1>5 DEF F2, fr
<1>15. Shape(cstack, f2) /\ f2 \in [Thread -> Seq(CallInfo)]
  BY <1>11, <1>12
<1> HIDE DEF f2
<1>16. OnTop(cstack, f2, "no")
  BY <1>2, <1>13, <1>14 DEF OnTop
<1> QED BY <1>2, <1>5, <1>14, <1>15, <1>16, ShapedNext

LEMMA ReturnStep ==
    ASSUME Shaped, Same, NEW k \in 1 .. Len(cstack), NEW th, NEW F2 \in Seq(CallInfo),
           ReturnsTo(k, th, F2), NEW x \in {"no", "errormsg", "throw"}, Ready(cstack[k], F2, x),
           cstack' = SubSeq(cstack, 1, k), ci' = [ci EXCEPT ![th] = F2], raise' = x
    PROVE  Shaped'
<1> DEFINE cs2 == SubSeq(cstack, 1, k)
           f2 == [ci EXCEPT ![th] = F2]
<1>1. /\ Shape(cs2, f2) /\ cs2 \in Seq(Entry) /\ cs2 # <<>> /\ Len(cs2) = k /\ cs2[k] = cstack[k]
      /\ f2 \in [Thread -> Seq(CallInfo)] /\ th \in Thread
  BY ReturnShape
<1>2. f2[th] = F2
  BY <1>1 DEF Shaped, StackTypes
<1>3. th = cstack[k].th
  BY DEF ReturnsTo
<1>4. cstack' = cs2 /\ ci' = f2
  OBVIOUS
<1> HIDE DEF cs2, f2
<1>5. OnTop(cs2, f2, x)
  BY <1>1, <1>2, <1>3 DEF OnTop
<1> QED BY <1>1, <1>4, <1>5, ShapedNext

LEMMA RaiseShaped ==
    ASSUME Shaped, Same, cstack # <<>>, raise' \in {"errormsg", "throw"},
           Size > Act.ci => ci[L][Size].fn = "lua" \/ ci[L][Size].st \in Resting,
           UNCHANGED <<ci, cstack>>
    PROVE  Shaped'
<1>1. /\ cstack \in Seq(Entry) /\ ci \in [Thread -> Seq(CallInfo)] /\ Shape(cstack, ci)
      /\ L = Act.th /\ Act.c # "luaD_pcall" /\ Size = Len(ci[L]) /\ Act = cstack[Len(cstack)]
  BY ActFacts DEF Shaped, StackTypes, Size, Act
<1>2. Ready(Act, ci[L], raise')
  BY <1>1 DEF Ready
<1>3. OnTop(cstack, ci, raise')
  BY <1>1, <1>2 DEF OnTop
<1> QED BY <1>1, <1>3, ShapedNext

LEMMA MemoryErrorShaped == ASSUME Shaped, MemoryError, Same PROVE Shaped'
<1>1. Running /\ Top.st \in {"run", "start", "back", "caught", "failed"}
      /\ raise' = "throw" /\ UNCHANGED <<ci, cstack>>
  BY DEF MemoryError
<1>2. Top \in CallInfo /\ Top = ci[L][Size] /\ cstack # <<>>
  BY <1>1, TopFacts
<1>3. Top.fn = "lua" \/ Top.st \in Resting
  BY <1>1, <1>2, FrameFields DEF Resting, LuaStates
<1> QED BY <1>1, <1>2, <1>3, RaiseShaped

LEMMA RaiseErrorShaped == ASSUME Shaped, RaiseError, Same PROVE Shaped'
<1>1. Running /\ Top.st \in {"start", "failed"} /\ raise' = "errormsg" /\ UNCHANGED <<ci, cstack>>
  BY DEF RaiseError, RunsC
<1>2. Top = ci[L][Size] /\ cstack # <<>>
  BY <1>1, TopFacts
<1>3. Top.st \in Resting
  BY <1>1 DEF Resting
<1> QED BY <1>1, <1>2, <1>3, RaiseShaped

LEMMA Raised ==
    ASSUME Shaped, raise # "no"
    PROVE  /\ cstack # <<>>
           /\ Size > Act.ci => /\ ci[L][Size].fn = "lua" \/ ci[L][Size].st \in Resting
                               /\ ~ci[L][Size].ypcall
<1>1. cstack # <<>>
  BY DEF Shaped, OnTop
<1>2. Size > Act.ci => ci[L][Size].fn = "lua" \/ ci[L][Size].st \in Resting
  BY <1>1, ActFacts DEF Ready, Size
<1>3. Size > Act.ci => ci[L][Size] \in CallInfo
  BY <1>1, ActFacts
<1>4. Size > Act.ci => ~ci[L][Size].ypcall
  BY <1>2, <1>3, FrameFields DEF Resting
<1> QED BY <1>1, <1>2, <1>4

LEMMA ErrorMsgShaped == ASSUME Shaped, ErrorMsg, Same PROVE Shaped'
<1>1. raise = "errormsg"
  BY DEF ErrorMsg
<1>2. /\ cstack # <<>>
      /\ Size > Act.ci => /\ ci[L][Size].fn = "lua" \/ ci[L][Size].st \in Resting
                          /\ ~ci[L][Size].ypcall
  BY <1>1, Raised
<1>3. CASE raise' = "throw" /\ UNCHANGED <<ci, cstack>>
  BY <1>2, <1>3, RaiseShaped
<1>4. CASE Call(ci[L], cstack, TRUE, "handler", "lua")
  <2> DEFINE d == DCall(Len(ci[L]), TRUE, "handler")
             cs2 == Append(cstack, d)
             n == Depth
  <2>1. /\ Size \in Nat /\ Act.ci <= Size /\ Act.ci \in Nat /\ L \in Thread /\ ci[L] \in Seq(CallInfo)
        /\ L = Act.th /\ Act = cstack[n] /\ n = Len(cstack) /\ n \in Nat /\ n >= 1
        /\ cstack \in Seq(Entry) /\ ci \in [Thread -> Seq(CallInfo)] /\ Shape(cstack, ci)
        /\ Act.c \in {"luaV_execute", "luaD_call", "lua_resume"} /\ Size = Len(ci[L])
    BY <1>2, ActFacts DEF Shaped, StackTypes, Depth, Size
  <2>2. /\ d \in Entry /\ d.c = "luaD_call" /\ d.th = L /\ d.ci = Size
        /\ d.noyield /\ d.caller = "handler"
    <3>1. d.noyield /\ d.caller = "handler" /\ d.c = "luaD_call" /\ d.th = L /\ d.ci = Size
      BY <2>1 DEF DCall
    <3>2. d \in Entry
      BY <2>1 DEF DCall, Entry
    <3> QED BY <3>1, <3>2
  <2> HIDE DEF d
  <2>3. cs2[n + 1] = d /\ cs2[(n + 1) - 1] = Act /\ n + 1 # 1
    BY <2>1, <2>2
  <2> HIDE DEF cs2, n
  <2>4. Linked(cs2, n + 1)
    BY <2>1, <2>2, <2>3 DEF Linked
  <2>5. Called(cs2, ci, n + 1)
    BY <1>2, <2>1, <2>2, <2>3 DEF Called
  <2>6. Pushes(cstack, ci, n, L, d)
    BY <1>2, <2>1, <2>2, <2>4, <2>5 DEF Pushes, cs2
  <2>7. Shape(cs2, ci)
    BY <2>1, <2>2, <2>6, Push DEF cs2
  <2>8. [ci EXCEPT ![L] = ci[L]] = ci
    BY <2>1
  <2>9. Shape(Append(cstack, DCall(Len(ci[L]), TRUE, "handler")), [ci EXCEPT ![L] = ci[L]])
    BY <2>7, <2>8 DEF cs2, d
  <2>10. /\ "lua" \in Functions /\ TRUE \in BOOLEAN
         /\ "handler" \in {"meta", "hook", "handler", "function"}
    BY FnsFacts
  <2>11. /\ cstack' \in Seq(Entry) /\ ci' \in [Thread -> Seq(CallInfo)]
         /\ raise' \in {"no", "errormsg", "throw"}
         /\ Shape(cstack', ci') /\ OnTop(cstack', ci', raise')
    BY <1>4, <2>1, <2>9, <2>10, CallShape
  <2> QED BY <2>11, ShapedNext
<1> QED BY <1>3, <1>4 DEF ErrorMsg

LEMMA ThreePushed ==
    ASSUME NEW S, NEW p \in S, NEW d \in S, NEW e \in S
    PROVE  LET c1 == <<p>>  c2 == Append(c1, d)  c3 == Append(c2, e) IN
           /\ c1 \in Seq(S) /\ Len(c1) = 1 /\ c1[1] = p /\ Append(<<>>, p) = c1
           /\ c2 \in Seq(S) /\ Len(c2) = 2 /\ c2[2] = d
           /\ c3 \in Seq(S) /\ Len(c3) = 3 /\ \A i \in 1 .. 3 : c3[i] \in {p, d, e}
           /\ c3 = <<p, d, e>>
<1> DEFINE c1 == <<p>>
           c2 == Append(c1, d)
           c3 == Append(c2, e)
           s == <<p, d, e>>
<1>1. c1 \in Seq(S) /\ Len(c1) = 1 /\ c1[1] = p /\ Append(<<>>, p) = c1
  OBVIOUS
<1> HIDE DEF c1
<1>2. c2 \in Seq(S) /\ Len(c2) = 2 /\ c2[1] = p /\ c2[2] = d
  <2>1. c1 \in Seq(S) /\ d \in S
    BY <1>1
  <2>2. /\ c2 \in Seq(S) /\ Len(c2) = Len(c1) + 1 /\ c2[Len(c1) + 1] = d
        /\ \A i \in 1 .. Len(c1) : c2[i] = c1[i]
    BY <2>1, AppendProperties
  <2>3. Len(c1) = 1 /\ 1 \in 1 .. 1 /\ 1 + 1 = 2
    BY <1>1
  <2> HIDE DEF c2
  <2> QED BY <2>2, <2>3, <1>1
<1> HIDE DEF c2
<1>3. c3 \in Seq(S) /\ Len(c3) = 3 /\ c3[3] = e /\ \A i \in 1 .. 2 : c3[i] = c2[i]
  <2>1. c2 \in Seq(S) /\ e \in S
    BY <1>2
  <2>2. /\ c3 \in Seq(S) /\ Len(c3) = Len(c2) + 1 /\ c3[Len(c2) + 1] = e
        /\ \A i \in 1 .. Len(c2) : c3[i] = c2[i]
    BY <2>1, AppendProperties
  <2>3. Len(c2) = 2 /\ 2 + 1 = 3
    BY <1>2
  <2> HIDE DEF c3
  <2> QED BY <2>2, <2>3
<1>4. c3[1] = p /\ c3[2] = d
  <2>1. 1 \in 1 .. 2 /\ 2 \in 1 .. 2
    OBVIOUS
  <2> QED BY <2>1, <1>2, <1>3
<1>5. s \in Seq(S) /\ Len(s) = 3 /\ s[1] = p /\ s[2] = d /\ s[3] = e
  OBVIOUS
<1> HIDE DEF c3, s
<1>6. \A i \in 1 .. Len(c3) : i = 1 \/ i = 2 \/ i = 3
  BY <1>3
<1>7. \A i \in 1 .. Len(c3) : c3[i] = s[i] /\ c3[i] \in {p, d, e}
  BY <1>3, <1>4, <1>5, <1>6
<1>8. c3 = s
  BY <1>3, <1>5, <1>7, SeqEqual
<1> QED BY <1>1, <1>2, <1>3, <1>7, <1>8 DEF c1, c2, c3, s

LEMMA DoCallShaped == ASSUME Shaped, DoCall, Same PROVE Shaped'
<1> DEFINE q == [c |-> "luaD_pcall", th |-> Main, gc |-> FALSE, ci |-> 0, nCcalls |-> 0, nny |-> 1,
                 errfunc |-> FALSE, allowhook |-> TRUE]
           d == [c |-> "luaD_call", th |-> Main, ci |-> 0, noyield |-> TRUE, caller |-> "function"]
           e == [c |-> "luaV_execute", th |-> Main, ci |-> 0]
           fr == [Frame("lua") EXCEPT !.fresh = TRUE]
           f1 == [ci EXCEPT ![Main] = <<>>]
           f2 == [ci EXCEPT ![Main] = <<fr>>]
<1>1. /\ cstack' = <<q, d, e>> /\ ci' = f2 /\ raise' = raise /\ cstack = <<>>
      /\ Main \in Thread /\ ci \in [Thread -> Seq(CallInfo)]
  BY DEF DoCall, Thread, Shaped, StackTypes
<1>2. q \in Entry /\ d \in Entry /\ e \in Entry
  BY <1>1 DEF Entry
<1>3. /\ q.c = "luaD_pcall" /\ q.th = Main /\ q.ci = 0 /\ ~q.gc
      /\ d.c = "luaD_call" /\ d.th = Main /\ d.ci = 0 /\ d.noyield /\ d.caller = "function"
      /\ e.c = "luaV_execute" /\ e.th = Main /\ e.ci = 0
  OBVIOUS
<1>4. fr \in CallInfo /\ fr.fn = "lua" /\ fr.fresh /\ fr.st = "run"
  BY DEF Frame, CallInfo, LuaStates, Resting, Functions
<1> HIDE DEF q, d, e, fr
<1>5. /\ f1 \in [Thread -> Seq(CallInfo)] /\ f1[Main] = <<>>
      /\ f2 \in [Thread -> Seq(CallInfo)] /\ f2[Main] = <<fr>>
      /\ \A t \in Thread : t # Main => f2[t] = f1[t]
  <2>1. <<fr>> \in Seq(CallInfo) /\ <<>> \in Seq(CallInfo)
    BY <1>4
  <2> QED BY <2>1, <1>1
<1> HIDE DEF f1, f2
<1> DEFINE c1 == <<q>>
           c2 == Append(c1, d)
           c3 == Append(c2, e)
<1>6. /\ c1 \in Seq(Entry) /\ Len(c1) = 1 /\ c1[1] = q /\ c1 # <<>>
      /\ Len(f1[Main]) = 0 /\ \A p \in 1 .. 0 : FALSE
  BY <1>2, <1>5
<1>7. Shape(c1, f1)
  <2> HIDE DEF c1
  <2>1. Above(c1, f1, 1) = 0
    BY <1>3, <1>6 DEF Above
  <2>2. Linked(c1, 1)
    BY <1>3, <1>6 DEF Linked
  <2>3. Apart(c1, 1)
    BY DEF Apart
  <2>4. Called(c1, f1, 1)
    BY <1>3, <1>6 DEF Called
  <2>5. Owns(c1, f1, 1)
    BY <1>3, <1>6, <2>1 DEF Owns
  <2>6. Continuable(c1, f1, 1)
    BY <1>3, <1>6 DEF Continuable
  <2>7. Protects(c1, f1, 1)
    BY <1>3, <1>6 DEF Protects
  <2>8. \A i \in 1 .. Len(c1) : i = 1
    BY <1>6
  <2> QED BY <2>2, <2>3, <2>4, <2>5, <2>6, <2>7, <2>8 DEF Shape
<1>8. /\ c2 \in Seq(Entry) /\ Len(c2) = 2 /\ c2[1] = q /\ c2[2] = d /\ c2 # <<>>
      /\ c2[1 + 1] = d /\ c2[(1 + 1) - 1] = q
  BY <1>2, <1>6
<1>9. Shape(c2, f1)
  <2> HIDE DEF c1
  <2>1. Linked(c2, 1 + 1)
    <3> HIDE DEF c2
    <3> QED BY <1>3, <1>8 DEF Linked
  <2>2. Called(c2, f1, 1 + 1)
    <3> HIDE DEF c2
    <3> QED BY <1>3, <1>6, <1>8 DEF Called
  <2>3. Pushes(c1, f1, 1, Main, d)
    BY <1>3, <1>6, <1>7, <2>1, <2>2 DEF Pushes
  <2>4. 1 \in Nat
    OBVIOUS
  <2> QED BY <1>1, <1>2, <1>5, <1>6, <2>3, <2>4, Push
<1>10. Shape(c3, f2) /\ OnTop(c3, f2, "no")
  <2> HIDE DEF c2
  <2>1. Enters(c2[2], f1[Main], 0)
    BY <1>3, <1>8 DEF Enters
  <2>2. Len(f2[Main]) = 0 + 1 /\ f2[Main][0 + 1] = fr /\ \A p \in 1 .. 0 : f2[Main][p] = f1[Main][p]
    BY <1>5
  <2>3. EntersLua(c2, f1, f2, 2, Main, 0, e)
    BY <1>3, <1>4, <1>5, <1>6, <1>8, <1>9, <2>1, <2>2 DEF EntersLua
  <2> DEFINE n == 2
             m == 0
  <2>4. n \in Nat /\ m \in Nat /\ EntersLua(c2, f1, f2, n, Main, m, e)
    BY <2>3
  <2> HIDE DEF n, m
  <2>5. /\ c2 \in Seq(Entry) /\ e \in Entry /\ Main \in Thread
        /\ f1 \in [Thread -> Seq(CallInfo)] /\ f2 \in [Thread -> Seq(CallInfo)]
    BY <1>1, <1>2, <1>5, <1>8
  <2> QED BY <2>4, <2>5, EnterLua
<1>11. c3 = <<q, d, e>> /\ c3 \in Seq(Entry)
  BY <1>2, ThreePushed
<1>12. raise = "no"
  BY <1>1 DEF Shaped, OnTop
<1> HIDE DEF c3
<1> QED BY <1>1, <1>5, <1>10, <1>11, <1>12, ShapedNext

LEMMA TopStep ==
    ASSUME Shaped, Running, Same, NEW F2 \in Seq(CallInfo), Len(F2) = Size,
           \A p \in 1 .. Size - 1 : F2[p] = ci[L][p],
           F2[Size].fn = Top.fn, F2[Size].fresh = Top.fresh, Ready(Act, F2, "no"),
           UNCHANGED <<cstack, raise>>, ci' = [ci EXCEPT ![L] = F2]
    PROVE  Shaped'
<1>1. /\ Shape(cstack, [ci EXCEPT ![L] = F2])
      /\ [ci EXCEPT ![L] = F2] \in [Thread -> Seq(CallInfo)]
  BY TopChanged
<1>2. /\ cstack \in Seq(Entry) /\ L \in Thread /\ L = Act.th /\ raise = "no"
      /\ ci \in [Thread -> Seq(CallInfo)]
  BY ActFacts, TopFacts DEF Shaped, StackTypes
<1> DEFINE f2 == [ci EXCEPT ![L] = F2]
<1>3. f2[L] = F2 /\ ci' = f2 /\ Shape(cstack, f2) /\ f2 \in [Thread -> Seq(CallInfo)]
  BY <1>1, <1>2
<1> HIDE DEF f2
<1>4. OnTop(cstack, f2, "no")
  BY <1>2, <1>3, TopFacts DEF OnTop, Act
<1> QED BY <1>2, <1>3, <1>4, ShapedNext

LEMMA ResumeRefusedShaped == ASSUME Shaped, ResumeRefused, Same PROVE Shaped'
<1>1. /\ Running /\ Top.fn # "lua" /\ Top.st = "start"
      /\ ci' = [ci EXCEPT ![L] = SetTop(@, "failed")] /\ UNCHANGED <<cstack, raise>>
  BY DEF ResumeRefused, Resumes
<1>2. /\ Top \in CallInfo /\ Act.c \in {"luaV_execute", "luaD_call", "lua_resume"}
      /\ Act.c = "luaD_call" => Size = Act.ci + 1
  BY <1>1, TopFacts, ActFacts
<1>3. ~Top.ypcall /\ "failed" \in Resting
  <2>1. Top.st # "in"
    BY <1>1
  <2> QED BY <2>1, <1>2, FrameFields DEF Resting
<1> DEFINE F2 == SetTop(ci[L], "failed")
<1>4. /\ F2 \in Seq(CallInfo) /\ Len(F2) = Size
      /\ \A p \in 1 .. Size - 1 : F2[p] = ci[L][p]
      /\ F2[Size].fn = Top.fn /\ F2[Size].fresh = Top.fresh /\ F2[Size].st = "failed"
  BY <1>1, <1>2, <1>3, TopSet
<1>5. ci' = [ci EXCEPT ![L] = F2]
  BY <1>1
<1> HIDE DEF F2
<1>6. Ready(Act, F2, "no")
  <2>1. F2[Len(F2)].st \in Resting /\ Len(F2) = Size
    BY <1>3, <1>4
  <2>2. Act.c = "luaD_call" => Len(F2) = Act.ci + 1
    BY <2>1, <1>2
  <2>3. Act.c # "luaD_pcall"
    BY <1>2
  <2> QED BY <2>1, <2>2, <2>3 DEF Ready
<1> QED BY <1>1, <1>4, <1>5, <1>6, TopStep

LEMMA UnrollFacts ==
    ASSUME Shaped, Unrolls
    PROVE  /\ Act.c = "lua_resume" /\ raise = "no" /\ cstack # <<>>
           /\ \A p \in 1 .. Size - 1 : Unrollable(ci[L][p])
           /\ ci[L] # <<>> => Running
<1>1. cstack # <<>> /\ raise = "no" /\ Last(cstack).c = "lua_resume"
  BY DEF Unrolls
<1>2. Act = Last(cstack)
  BY DEF Act, Last
<1>3. \A p \in 1 .. Size - 1 : Unrollable(ci[L][p])
  BY <1>1, <1>2, ActFacts DEF Rests, Size
<1> QED BY <1>1, <1>2, <1>3 DEF Running

LEMMA FinishCCallShaped == ASSUME Shaped, FinishCCall, Same PROVE Shaped'
<1> DEFINE fr == [Top EXCEPT !.st = "back", !.ypcall = FALSE]
           F2 == Append(Front(ci[L]), fr)
<1>1. /\ Unrolls /\ ci[L] # <<>> /\ Top.fn # "lua"
      /\ ci' = [ci EXCEPT ![L] = F2] /\ UNCHANGED <<cstack, raise>>
  BY DEF FinishCCall
<1>2. Running /\ Act.c = "lua_resume"
  BY <1>1, UnrollFacts
<1>3. Top \in CallInfo
  BY <1>2, TopFacts
<1>4. fr \in CallInfo /\ fr.fn = Top.fn /\ fr.fresh = Top.fresh /\ fr.st = "back"
  BY <1>1, <1>3 DEF CallInfo, LuaStates, Resting
<1> HIDE DEF fr
<1>5. /\ F2 \in Seq(CallInfo) /\ Len(F2) = Size /\ F2[Size] = fr
      /\ \A p \in 1 .. Size - 1 : F2[p] = ci[L][p]
  BY <1>2, <1>4, TopReplaced
<1> HIDE DEF F2
<1>6. Ready(Act, F2, "no")
  BY <1>2, <1>4, <1>5 DEF Ready, Resting
<1> QED BY <1>1, <1>2, <1>4, <1>5, <1>6, TopStep

LEMMA FinishOpShaped == ASSUME Shaped, FinishOp, Same PROVE Shaped'
<1> DEFINE fr == [Top EXCEPT !.st = "run", !.fresh = TRUE]
           F2 == Append(Front(ci[L]), fr)
           m == Size - 1
           e == Execute(m)
           f2 == [ci EXCEPT ![L] = F2]
<1>1. /\ Unrolls /\ ci[L] # <<>> /\ Top.fn = "lua"
      /\ ci' = f2 /\ raise' = raise /\ cstack' = Append(cstack, e)
  BY DEF FinishOp, Size
<1>2. /\ Running /\ Act.c = "lua_resume" /\ raise = "no" /\ cstack # <<>>
      /\ \A p \in 1 .. Size - 1 : Unrollable(ci[L][p])
  BY <1>1, UnrollFacts
<1>3. /\ Top \in CallInfo /\ Size \in Nat /\ Size >= 1 /\ Size = Len(ci[L]) /\ L \in Thread
      /\ L = Act.th /\ Act = cstack[Depth] /\ Depth \in Nat /\ Depth = Len(cstack)
      /\ cstack \in Seq(Entry) /\ ci \in [Thread -> Seq(CallInfo)] /\ Shape(cstack, ci)
  BY <1>2, TopFacts, ActFacts DEF Size, Depth, Shaped, StackTypes
<1>4. fr \in CallInfo /\ fr.fn = "lua" /\ fr.fresh /\ fr.st = "run"
  BY <1>1, <1>3 DEF CallInfo, LuaStates, Resting
<1> HIDE DEF fr
<1>5. /\ F2 \in Seq(CallInfo) /\ Len(F2) = Size /\ F2[Size] = fr
      /\ \A p \in 1 .. Size - 1 : F2[p] = ci[L][p]
  BY <1>2, <1>4, TopReplaced
<1> HIDE DEF F2
<1>6. m \in Nat /\ m + 1 = Size /\ m <= Len(ci[L])
  BY <1>3
<1>7. e \in Entry /\ e.c = "luaV_execute" /\ e.th = L /\ e.ci = m
  BY <1>3, <1>6, EntryType DEF Execute
<1> HIDE DEF e
<1>8. /\ f2 \in [Thread -> Seq(CallInfo)] /\ f2[L] = F2
      /\ \A t \in Thread : t # L => f2[t] = ci[t]
  BY <1>3, <1>5
<1> DEFINE n == Depth
<1>9. Enters(cstack[n], ci[L], m)
  BY <1>2, <1>3 DEF Enters
<1>10. EntersLua(cstack, ci, f2, n, L, m, e)
  <2>1. /\ Len(f2[L]) = m + 1 /\ \A p \in 1 .. m : f2[L][p] = ci[L][p]
        /\ f2[L][m + 1].fn = "lua" /\ f2[L][m + 1].st = "run" /\ f2[L][m + 1].fresh
    BY <1>4, <1>5, <1>6, <1>8
  <2> QED BY <2>1, <1>2, <1>3, <1>6, <1>7, <1>8, <1>9 DEF EntersLua
<1>11. n \in Nat /\ Append(cstack, e) \in Seq(Entry)
  BY <1>3, <1>7
<1> HIDE DEF f2, m, n
<1>12. Shape(Append(cstack, e), f2) /\ OnTop(Append(cstack, e), f2, "no")
  BY <1>3, <1>6, <1>7, <1>8, <1>10, <1>11, EnterLua
<1> QED BY <1>1, <1>2, <1>8, <1>11, <1>12, ShapedNext

(* The resumed thread is on top of the one that resumes it.                *)
LEMMA ResumeShape ==
    ASSUME Shaped, TypeOK, Resumes, NEW co \in Co, \A i \in 1 .. Depth : cstack[i].th # co,
           NEW F \in Seq(CallInfo), \A p \in 1 .. Len(F) : Unrollable(F[p])
    PROVE  LET f2 == [ci EXCEPT ![L] = SetTop(ci[L], "in"), ![co] = F]
               cs2 == Append(cstack, ResumeRecord(co))
           IN /\ Shape(cs2, f2) /\ OnTop(cs2, f2, "no") /\ cs2 \in Seq(Entry)
              /\ f2 \in [Thread -> Seq(CallInfo)] /\ f2[co] = F /\ L \in Thread /\ co \in Thread
              /\ L # co /\ f2[L] = SetTop(ci[L], "in") /\ SetTop(ci[L], "in") \in Seq(CallInfo)
              /\ Len(cs2) = Depth + 1 /\ Depth \in Nat
              /\ cs2[Depth + 1].c = "lua_resume" /\ cs2[Depth + 1].th = co
<1>1. Running /\ Top.fn \in {"resume", "wrap"} /\ Top.st = "start"
  BY DEF Resumes
<1>2. /\ Top \in CallInfo /\ L \in Thread /\ Size \in Nat /\ Size > Act.ci /\ Act.ci \in Nat
      /\ L = Act.th /\ Act = cstack[Depth] /\ Depth \in Nat /\ Depth \in 1 .. Depth
      /\ Depth = Len(cstack) /\ cstack \in Seq(Entry) /\ cstack # <<>>
      /\ ci \in [Thread -> Seq(CallInfo)]
      /\ Act.c # "luaD_pcall"
  BY <1>1, TopFacts, ActFacts DEF Depth, Shaped, StackTypes
<1>3. /\ ~Top.ypcall /\ Top.fn # "lua"
  <2>1. Top.st # "in"
    BY <1>1
  <2>2. Top.fn # "lua"
    BY <1>1
  <2> QED BY <2>1, <2>2, <1>2, FrameFields
<1> DEFINE G == SetTop(ci[L], "in")
           f1 == [ci EXCEPT ![L] = G]
           f2 == [ci EXCEPT ![L] = G, ![co] = F]
           r == ResumeRecord(co)
           n == Depth
<1>4. /\ G \in Seq(CallInfo) /\ Len(G) = Size
      /\ \A p \in 1 .. Size - 1 : G[p] = ci[L][p]
      /\ G[Size].fn = Top.fn /\ G[Size].fresh = Top.fresh /\ G[Size].st = "in"
  BY <1>1, <1>2, <1>3, TopSet
<1> HIDE DEF G
<1>5. Shape(cstack, f1) /\ f1 \in [Thread -> Seq(CallInfo)]
  BY <1>1, <1>4, TopChanged
<1>6. /\ f1[L] = G /\ f1[L][Len(f1[L])].fn \in {"resume", "wrap"} /\ f1[L][Len(f1[L])].st = "in"
      /\ Len(f1[L]) > cstack[n].ci
  <2>1. f1[L] = G
    BY <1>2
  <2> QED BY <2>1, <1>1, <1>2, <1>4
<1>7. co \in Thread /\ L # co
  BY <1>2 DEF Thread
<1>8. /\ f2 \in [Thread -> Seq(CallInfo)] /\ f2[co] = F /\ f2[L] = G
      /\ \A t \in Thread : t # co => f2[t] = f1[t]
  BY <1>2, <1>4, <1>7
<1>9. /\ r \in Entry /\ r.c = "lua_resume" /\ r.th = co
  <2>1. nCcalls[L] + 1 \in Nat /\ nny[co] \in Nat
    BY <1>2, <1>7 DEF TypeOK
  <2> QED BY <2>1, <1>7 DEF ResumeRecord, Entry
<1>10. /\ Append(cstack, r) \in Seq(Entry) /\ Len(Append(cstack, r)) = n + 1
       /\ Append(cstack, r)[n + 1] = r
  BY <1>2, <1>9
<1>11. \A p \in 1 .. Len(f2[co]) : Unrollable(f2[co][p])
  BY <1>8
<1>12. n \in 1 .. Len(cstack) /\ n = Len(cstack) /\ L = cstack[n].th /\ cstack[n].c # "luaD_pcall"
  BY <1>2
<1> HIDE DEF f1, f2, r, n
<1>13. Shape(Append(cstack, r), f2) /\ OnTop(Append(cstack, r), f2, "no")
  <2>1. \A i \in 1 .. n : cstack[i].th # co
    BY DEF n
  <2> QED BY <2>1, <1>2, <1>5, <1>6, <1>8, <1>9, <1>11, <1>12, Resumed
<1> QED BY <1>2, <1>4, <1>7, <1>8, <1>9, <1>10, <1>13 DEF f2, r, G, n

LEMMA ContinueCoroutineShaped ==
    ASSUME Shaped, TypeOK, Threads, ContinueCoroutine, Same PROVE Shaped'
<1>1. PICK co \in Co : /\ status[co] = "LUA_YIELD" /\ EnterResume(co)
                       /\ ci' = [ci EXCEPT ![L] = SetTop(@, "in"), ![co] = Front(@)]
                       /\ cstack' = Append(cstack, ResumeRecord(co))
  BY DEF ContinueCoroutine
<1>2. Resumes /\ raise' = raise
  BY <1>1 DEF EnterResume
<1>3. \A i \in 1 .. Depth : cstack[i].th # co
  BY <1>1 DEF Threads, Depth
<1>4. /\ raise = "no" /\ L \in Thread /\ ci \in [Thread -> Seq(CallInfo)] /\ cstack # <<>>
      /\ L = cstack[Depth].th /\ Depth \in 1 .. Depth
  <2>1. Running
    BY <1>2 DEF Resumes
  <2> QED BY <2>1, TopFacts, ActFacts DEF Shaped, StackTypes
<1>5. co \in Thread /\ L # co /\ ci[co] \in Seq(CallInfo)
  BY <1>3, <1>4 DEF Thread
<1> DEFINE F == Front(ci[co])
<1>6. F \in Seq(CallInfo) /\ \A p \in 1 .. Len(F) : Unrollable(F[p])
  <2>1. Suspended(ci, co)
    BY <1>1 DEF Threads
  <2>2. ci[co] # <<>> /\ \A p \in 1 .. Len(ci[co]) - 1 : Unrollable(ci[co][p])
    BY <2>1 DEF Suspended
  <2>3. F \in Seq(CallInfo) /\ Len(F) = Len(ci[co]) - 1 /\ \A p \in 1 .. Len(ci[co]) - 1 : F[p] = ci[co][p]
    BY <2>2, <1>5, FrontFacts
  <2> HIDE DEF F
  <2> QED BY <2>2, <2>3
<1>7. ci' = [ci EXCEPT ![L] = SetTop(ci[L], "in"), ![co] = F]
  BY <1>1, <1>4, <1>5
<1> HIDE DEF F
<1> DEFINE f2 == [ci EXCEPT ![L] = SetTop(ci[L], "in"), ![co] = F]
           cs2 == Append(cstack, ResumeRecord(co))
<1>8. /\ Shape(cs2, f2) /\ OnTop(cs2, f2, "no") /\ cs2 \in Seq(Entry)
      /\ f2 \in [Thread -> Seq(CallInfo)]
  BY <1>2, <1>3, <1>6, ResumeShape
<1>9. ci' = f2 /\ cstack' = cs2
  BY <1>1, <1>7
<1> HIDE DEF f2, cs2
<1> QED BY <1>2, <1>4, <1>8, <1>9, ShapedNext

LEMMA StartCoroutineShaped ==
    ASSUME Shaped, TypeOK, Threads, StartCoroutine, Same PROVE Shaped'
<1>1. PICK co \in {c \in unstarted : MaxFrames[c] > 0}, fn \in Fns :
        /\ EnterResume(co)
        /\ ci' = [ci EXCEPT ![L] = SetTop(@, "in"),
                            ![co] = <<[Frame(fn) EXCEPT !.fresh = fn = "lua"]>>]
        /\ cstack' = IF fn = "lua" THEN Append(Append(cstack, ResumeRecord(co)),
                                               [c |-> "luaV_execute", th |-> co, ci |-> 0])
                     ELSE Append(cstack, ResumeRecord(co))
  BY DEF StartCoroutine
<1>2. Resumes /\ raise' = raise
  BY <1>1 DEF EnterResume
<1>3. co \in Co /\ fn \in Functions /\ \A i \in 1 .. Depth : cstack[i].th # co
  BY <1>1, FnsFacts DEF Threads, Depth, TypeOK
<1>4. /\ raise = "no" /\ ci \in [Thread -> Seq(CallInfo)]
  BY <1>2, TopFacts DEF Shaped, StackTypes, Resumes
<1> DEFINE F == <<>>
           fr == [Frame(fn) EXCEPT !.fresh = fn = "lua"]
           G == SetTop(ci[L], "in")
           f2 == [ci EXCEPT ![L] = G, ![co] = F]
           f3 == [ci EXCEPT ![L] = G, ![co] = <<fr>>]
           cs2 == Append(cstack, ResumeRecord(co))
           e == [c |-> "luaV_execute", th |-> co, ci |-> 0]
           n == Depth + 1
<1>5. F \in Seq(CallInfo) /\ \A p \in 1 .. Len(F) : Unrollable(F[p])
  OBVIOUS
<1>6. /\ fr \in CallInfo /\ fr.fn = fn /\ (fn # "lua" => fr.st \in Resting)
      /\ fn = "lua" => fr.st = "run" /\ fr.fresh
  BY <1>3, FrameType DEF Resting
<1> HIDE DEF F, fr
<1>7. /\ Shape(cs2, f2) /\ cs2 \in Seq(Entry) /\ f2 \in [Thread -> Seq(CallInfo)]
      /\ f2[co] = F /\ L \in Thread /\ co \in Thread /\ L # co /\ f2[L] = G /\ G \in Seq(CallInfo)
      /\ Len(cs2) = n /\ Depth \in Nat /\ cs2[n].c = "lua_resume" /\ cs2[n].th = co
  BY <1>2, <1>3, <1>5, ResumeShape
<1>8. /\ ci' = f3 /\ cstack' = (IF fn = "lua" THEN Append(cs2, e) ELSE cs2)
  BY <1>1, <1>4, <1>7 DEF fr
<1> HIDE DEF G, cs2
<1>9. <<fr>> \in Seq(CallInfo) /\ Len(<<fr>>) = 1 /\ <<fr>>[1] = fr /\ Append(F, fr) = <<fr>>
      /\ Len(F) = 0 /\ F = <<>>
  BY <1>6 DEF F
<1>10. /\ f3 \in [Thread -> Seq(CallInfo)] /\ f3[co] = <<fr>>
       /\ \A t \in Thread : t # co => f3[t] = f2[t]
  BY <1>4, <1>7, <1>9
<1>11. e \in Entry /\ e.c = "luaV_execute" /\ e.th = co /\ e.ci = 0
  BY <1>7 DEF Entry
<1>12. n \in Nat /\ n \in 1 .. Len(cs2) /\ cs2 # <<>> /\ Append(cs2, e) \in Seq(Entry)
  BY <1>7, <1>11
<1> HIDE DEF f2, f3, e, n
<1>13. CASE fn = "lua"
  <2> DEFINE m == 0
  <2>1. m \in Nat /\ Enters(cs2[n], f2[co], m)
    BY <1>7 DEF Enters
  <2>2. /\ Len(f3[co]) = m + 1 /\ f3[co][m + 1] = fr /\ m <= Len(f2[co])
        /\ \A p \in 1 .. m : f3[co][p] = f2[co][p]
    BY <1>7, <1>9, <1>10
  <2>3. EntersLua(cs2, f2, f3, n, co, m, e)
    <3>1. e.ci = m
      BY <1>11
    <3> HIDE DEF m
    <3> QED BY <1>6, <1>7, <1>10, <1>11, <1>12, <1>13, <2>1, <2>2, <3>1 DEF EntersLua
  <2> HIDE DEF m
  <2>4. Shape(Append(cs2, e), f3) /\ OnTop(Append(cs2, e), f3, "no")
    BY <1>7, <1>10, <1>11, <1>12, <2>1, <2>3, EnterLua
  <2>5. cstack' = Append(cs2, e) /\ ci' = f3 /\ raise' = "no"
    BY <1>2, <1>4, <1>8, <1>13
  <2> QED BY <1>10, <1>12, <2>4, <2>5, ShapedNext
<1>14. CASE fn # "lua"
  <2>1. /\ f3[co] = Append(f2[co], fr) /\ f2[co] = <<>> /\ fr.fn # "lua" /\ fr.st \in Resting
        /\ cs2[n].c = "lua_resume" /\ n = Len(cs2) /\ co = cs2[n].th
    BY <1>6, <1>7, <1>9, <1>10, <1>14
  <2>2. Shape(cs2, f3) /\ OnTop(cs2, f3, "no")
    BY <1>6, <1>7, <1>10, <1>12, <2>1, EnterC
  <2>3. cstack' = cs2 /\ ci' = f3 /\ raise' = "no"
    BY <1>2, <1>4, <1>8, <1>14
  <2> QED BY <1>7, <1>10, <2>2, <2>3, ShapedNext
<1> QED BY <1>13, <1>14

-----------------------------------------------------------------------------
(* Every step keeps the shape: returns                                     *)

LEMMA FrontPrefix ==
    ASSUME NEW S, NEW s \in Seq(S), NEW k \in 1 .. Len(s)
    PROVE  /\ Front(SubSeq(s, 1, k)) = SubSeq(s, 1, k - 1)
           /\ Last(SubSeq(s, 1, k)) = s[k]
<1> DEFINE t == SubSeq(s, 1, k)
           u == SubSeq(s, 1, k - 1)
           v == Front(t)
<1>1. k \in 0 .. Len(s) /\ k - 1 \in 0 .. Len(s) /\ k \in Nat /\ k \in 1 .. k
      /\ \A p \in 1 .. k - 1 : p \in 1 .. k
  OBVIOUS
<1>2. t \in Seq(S) /\ Len(t) = k /\ \A p \in 1 .. k : t[p] = s[p]
  BY <1>1, PrefixFacts
<1>3. u \in Seq(S) /\ Len(u) = k - 1 /\ \A p \in 1 .. k - 1 : u[p] = s[p]
  BY <1>1, PrefixFacts
<1> HIDE DEF t, u
<1>4. t # <<>>
  BY <1>1, <1>2
<1>5. v \in Seq(S) /\ Len(v) = k - 1 /\ \A p \in 1 .. k - 1 : v[p] = t[p]
  BY <1>2, <1>4, FrontFacts
<1> HIDE DEF v
<1>6. \A p \in 1 .. Len(v) : v[p] = u[p]
  BY <1>1, <1>2, <1>3, <1>5
<1>7. v = u
  BY <1>3, <1>5, <1>6, SeqEqual
<1>8. Last(t) = s[k]
  BY <1>1, <1>2 DEF Last
<1> QED BY <1>7, <1>8 DEF t, u, v

(* What is below an activation, with the frame that called it changed.     *)
GoesBackTo(i, th, F2) ==
    LET a == Len(F2) IN
    /\ i < Depth /\ cstack[i].th = th /\ cstack[i + 1].th = th /\ a = cstack[i + 1].ci
    /\ \A p \in 1 .. a - 1 : F2[p] = ci[th][p]
    /\ a > 0 => F2[a].fn = ci[th][a].fn /\ F2[a].fresh = ci[th][a].fresh
    /\ a > cstack[i].ci \/ a = 0 \/ F2[a] = ci[th][a]

LEMMA BackTo ==
    ASSUME Shaped, NEW i \in 1 .. Depth, NEW th, NEW F2 \in Seq(CallInfo), GoesBackTo(i, th, F2)
    PROVE  ReturnsTo(i, th, F2)
<1> DEFINE a == Len(F2)
           r == cstack[i]
           F == ci[th]
<1>1. /\ Depth \in Nat /\ Depth = Len(cstack) /\ cstack \in Seq(Entry) /\ i < Depth
      /\ ci \in [Thread -> Seq(CallInfo)] /\ r.th = th /\ cstack[i + 1].th = th
      /\ a = cstack[i + 1].ci /\ a \in Nat
  BY DEF Shaped, StackTypes, Depth, GoesBackTo
<1>2. r \in Entry /\ r.ci \in Nat /\ th \in Thread /\ F \in Seq(CallInfo) /\ Len(F) \in Nat
  <2>1. r \in Entry
    BY <1>1
  <2>2. r.ci \in Nat /\ th \in Thread
    BY <2>1, <1>1, EntryFields
  <2> QED BY <2>1, <2>2, <1>1
<1>3. /\ \A p \in 1 .. a - 1 : F2[p] = F[p]
      /\ a > 0 => F2[a].fn = F[a].fn /\ F2[a].fresh = F[a].fresh
      /\ a > r.ci \/ a = 0 \/ F2[a] = F[a]
  BY DEF GoesBackTo
<1>4. Owns(cstack, ci, i) /\ Above(cstack, ci, i) = a
  <2>1. i \in 1 .. Len(cstack) /\ i < Len(cstack)
    BY <1>1
  <2> QED BY <2>1, <1>1 DEF Shaped, Shape, Above
<1> HIDE DEF a, r, F
<1>5. r.ci <= a /\ a <= Len(F)
  BY <1>4 DEF Owns, r, F, GoesBackTo
<1>6. \A p \in 1 .. r.ci : F2[p] = F[p]
  <2>1. \A p \in 1 .. r.ci : p \in 1 .. a - 1 \/ p = a
    BY <1>1, <1>2, <1>5
  <2> QED BY <2>1, <1>1, <1>2, <1>3, <1>5
<1>7. \A p \in 1 .. a : F2[p].fn = F[p].fn /\ F2[p].fresh = F[p].fresh
  <2>1. \A p \in 1 .. a : p \in 1 .. a - 1 \/ (p = a /\ a > 0)
    BY <1>1
  <2> QED BY <2>1, <1>3
<1>8. CASE r.c = "luaV_execute"
  <2>1. /\ a > r.ci /\ F[r.ci + 1].fn = "lua" /\ F[r.ci + 1].fresh
        /\ \A p \in r.ci + 1 .. a - 1 : F[p].fn = "lua" /\ F[p].st = "call"
        /\ \A p \in r.ci + 2 .. a : ~F[p].fresh
    BY <1>1, <1>4, <1>8 DEF Owns, r, F
  <2>2. /\ r.ci + 1 \in 1 .. a
        /\ \A p \in r.ci + 1 .. a - 1 : p \in 1 .. a - 1
        /\ \A p \in r.ci + 2 .. a : p \in 1 .. a
    BY SMTT(30), <1>1, <1>2, <2>1
  <2>3. F2[r.ci + 1].fn = "lua" /\ F2[r.ci + 1].fresh /\ \A p \in r.ci + 2 .. a : ~F2[p].fresh
    BY <2>1, <2>2, <1>7
  <2>4. \A p \in r.ci + 1 .. a - 1 : F2[p].fn = "lua" /\ F2[p].st = "call"
    BY <2>1, <2>2, <1>3
  <2>5. Rests(r, F2)
    BY <1>8, <2>1, <2>3, <2>4, <1>5 DEF Rests, a
  <2> QED BY <2>5, <1>1, <1>5, <1>6 DEF ReturnsTo, a, r, F
<1>9. CASE r.c = "luaD_call"
  <2>1. a <= r.ci + 1 /\ (a > r.ci => F[a].fn # "lua")
    BY <1>1, <1>4, <1>9 DEF Owns, r, F
  <2>2. a > r.ci => F2[a].fn # "lua"
    BY <2>1, <1>2, <1>1, <1>3
  <2>3. Rests(r, F2)
    BY <1>9, <2>1, <2>2, <1>5 DEF Rests, a
  <2> QED BY <2>3, <1>1, <1>5, <1>6 DEF ReturnsTo, a, r, F
<1>10. CASE r.c = "lua_resume"
  <2>1. \A p \in 1 .. a - 1 : Unrollable(F[p])
    BY <1>1, <1>4, <1>10 DEF Owns, r, F
  <2>2. Rests(r, F2)
    BY <1>10, <2>1, <1>3, <1>5 DEF Rests, a
  <2> QED BY <2>2, <1>1, <1>5, <1>6 DEF ReturnsTo, a, r, F
<1>11. CASE r.c = "luaD_pcall"
  <2>1. Rests(r, F2)
    BY <1>11, <1>5 DEF Rests, a
  <2> QED BY <2>1, <1>1, <1>5, <1>6 DEF ReturnsTo, a, r, F
<1> QED BY <1>2, <1>8, <1>9, <1>10, <1>11, EntryFields

(* Who goes on after a return: the k-th activation, with the frames below  *)
(* the one that returns.                                                   *)
LEMMA ReturnFacts ==
    ASSUME Shaped, Returns
    PROVE  \E k \in 1 .. Depth :
             /\ Callers = SubSeq(cstack, 1, k) /\ Last(Callers) = cstack[k] /\ cstack[k].th = L
             /\ cstack[k].c \in {"luaV_execute", "luaD_call", "lua_resume"}
             /\ cstack[k].ci <= Size - 1
             /\ cstack[k].c = "luaD_call" => cstack[k].ci = Size - 1
             /\ cstack[k].c = "lua_resume" => \A p \in 1 .. Size - 1 : Unrollable(ci[L][p])
             /\ cstack[k].c = "luaV_execute" =>
                  /\ Size - 1 > cstack[k].ci
                  /\ ci[L][cstack[k].ci + 1].fn = "lua" /\ ci[L][cstack[k].ci + 1].fresh
                  /\ \A p \in cstack[k].ci + 1 .. Size - 1 : ci[L][p].fn = "lua" /\ ci[L][p].st = "call"
                  /\ \A p \in cstack[k].ci + 2 .. Size - 1 : ~ci[L][p].fresh
<1> DEFINE F == ci[L]
<1>1. Running /\ (Top.fn = "lua" => Top.st = "run")
  BY DEF Returns, RunsLua
<1>2. /\ Depth \in Nat /\ Depth >= 1 /\ Depth = Len(cstack) /\ cstack \in Seq(Entry) /\ cstack # <<>>
      /\ Act = cstack[Depth] /\ Act.th = L /\ L \in Thread /\ Act.ci \in Nat
      /\ Act.c \in {"luaV_execute", "luaD_call", "lua_resume"}
      /\ Size \in Nat /\ Size = Len(F) /\ Size > Act.ci /\ Top = F[Size] /\ Top \in CallInfo
      /\ Act.c = "luaD_call" => Size = Act.ci + 1
      /\ Top.fn = "lua" => Act.c = "luaV_execute"
      /\ Shape(cstack, ci) /\ Rests(Act, F)
  BY <1>1, TopFacts, ActFacts DEF Shaped, StackTypes, Depth, Size
<1>3. SubSeq(cstack, 1, Depth) = cstack
  BY <1>2, WholeSequence
<1> HIDE DEF F
<1>4. CASE Top.fn = "lua" /\ Top.fresh
  <2> DEFINE k == Depth - 1
             q == cstack[k]
  <2>1. /\ Act.c = "luaV_execute" /\ Act.ci = Size - 1
    <3>1. Act.c = "luaV_execute" /\ \A p \in Act.ci + 2 .. Size : ~F[p].fresh
      BY <1>2, <1>4 DEF Rests
    <3>2. ~(Size \in Act.ci + 2 .. Size)
      BY <3>1, <1>2, <1>4
    <3> QED BY <3>1, <3>2, <1>2
  <2>2. Depth # 1 /\ Linked(cstack, Depth) /\ Called(cstack, ci, Depth)
    <3>1. Linked(cstack, Depth) /\ Called(cstack, ci, Depth)
      BY <1>2 DEF Shape
    <3> QED BY <3>1, <2>1, <1>2 DEF Linked
  <2>3. k \in 1 .. Depth /\ k \in 1 .. Len(cstack) /\ k < Len(cstack) /\ k + 1 = Depth
    BY <2>2, <1>2
  <2>4. q.th = L /\ q \in Entry /\ (q.c = "lua_resume" \/ (q.c = "luaD_call" /\ q.ci = Act.ci))
    <3>1. q \in Entry
      BY <2>3, <1>2
    <3>2. cstack[Depth - 1] = q
      OBVIOUS
    <3> QED BY <3>1, <3>2, <2>1, <2>2, <1>2 DEF Linked
  <2>5. q.ci <= Size - 1
    BY <2>1, <2>4, <1>2, EntryFields
  <2>6. q.c = "lua_resume" => \A p \in 1 .. Size - 1 : Unrollable(F[p])
    <3> SUFFICES ASSUME q.c = "lua_resume", NEW p \in 1 .. Size - 1 PROVE Unrollable(F[p])
      OBVIOUS
    <3>1. Owns(cstack, ci, k) /\ Above(cstack, ci, k) = Size - 1
      BY <2>1, <2>3, <2>4, <1>2 DEF Shape, Above
    <3>2. \A x \in 1 .. (Size - 1) - 1 : Unrollable(F[x])
      BY <3>1, <2>4, <1>2 DEF Owns, F
    <3>3. Unrollable(F[Act.ci])
      <4>1. Act.ci > 0 /\ cstack[Depth - 1].c = "lua_resume"
        BY <2>1, <1>2
      <4> QED BY <4>1, <2>1, <2>2, <1>2 DEF Called, F
    <3>4. p \in 1 .. (Size - 1) - 1 \/ p = Act.ci
      BY <2>1, <1>2
    <3> QED BY <3>2, <3>3, <3>4
  <2>7. Callers = SubSeq(cstack, 1, k) /\ Last(Callers) = q
    <3>1. Callers = Front(cstack)
      BY <1>4 DEF Callers
    <3>2. Front(cstack) = SubSeq(cstack, 1, k)
      BY <1>2 DEF Front
    <3>3. Last(SubSeq(cstack, 1, k)) = q
      BY <2>3, <1>2, FrontPrefix
    <3> QED BY <3>1, <3>2, <3>3
  <2> k \in 1 .. Depth
    BY <2>3
  <2> HIDE DEF k
  <2>8. /\ q.c \in {"luaV_execute", "luaD_call", "lua_resume"} /\ q.c # "luaV_execute"
        /\ q.c = "luaD_call" => q.ci = Size - 1
    BY <2>1, <2>4
  <2> WITNESS k \in 1 .. Depth
  <2> QED BY <2>4, <2>5, <2>6, <2>7, <2>8 DEF F
<1>5. CASE ~(Top.fn = "lua" /\ Top.fresh)
  <2> DEFINE k == Depth
  <2>1. k \in 1 .. Depth /\ cstack[k] = Act
    BY <1>2
  <2>2. Callers = SubSeq(cstack, 1, k) /\ Last(Callers) = Act
    BY <1>2, <1>3, <1>5 DEF Callers, Last
  <2>3. Act.c = "lua_resume" => \A p \in 1 .. Size - 1 : Unrollable(F[p])
    BY <1>2 DEF Rests
  <2>4. Act.c = "luaV_execute" =>
           /\ Size - 1 > Act.ci
           /\ F[Act.ci + 1].fn = "lua" /\ F[Act.ci + 1].fresh
           /\ \A p \in Act.ci + 1 .. Size - 1 : F[p].fn = "lua" /\ F[p].st = "call"
           /\ \A p \in Act.ci + 2 .. Size - 1 : ~F[p].fresh
    <3> SUFFICES ASSUME Act.c = "luaV_execute"
                 PROVE  /\ Size - 1 > Act.ci
                        /\ F[Act.ci + 1].fn = "lua" /\ F[Act.ci + 1].fresh
                        /\ \A p \in Act.ci + 1 .. Size - 1 : F[p].fn = "lua" /\ F[p].st = "call"
                        /\ \A p \in Act.ci + 2 .. Size - 1 : ~F[p].fresh
      OBVIOUS
    <3>1. /\ F[Act.ci + 1].fn = "lua" /\ F[Act.ci + 1].fresh
          /\ \A p \in Act.ci + 1 .. Size - 1 : F[p].fn = "lua" /\ F[p].st = "call"
          /\ \A p \in Act.ci + 2 .. Size : ~F[p].fresh
      BY <1>2 DEF Rests
    <3>2. \A p \in Act.ci + 2 .. Size - 1 : p \in Act.ci + 2 .. Size
      BY <1>2
    <3>3. Size # Act.ci + 1
      BY <3>1, <1>2, <1>5
    <3> QED BY <3>1, <3>2, <3>3, <1>2
  <2>5. Act.ci <= Size - 1 /\ (Act.c = "luaD_call" => Act.ci = Size - 1)
    BY <1>2
  <2> k \in 1 .. Depth
    BY <2>1
  <2> HIDE DEF k
  <2> WITNESS k \in 1 .. Depth
  <2> QED BY <2>1, <2>2, <2>3, <2>4, <2>5, <1>2 DEF F
<1> QED BY <1>4, <1>5

LEMMA FramesFacts ==
    ASSUME Shaped, Returns
    PROVE  /\ Frames \in Seq(CallInfo) /\ Len(Frames) = Size - 1 /\ Size - 1 \in Nat /\ Running
           /\ \A p \in 1 .. Size - 1 : Frames[p] = ci[L][p] /\ Frames[p] \in CallInfo
           /\ Size - 1 > 0 => Frames # <<>> /\ Last(Frames) = ci[L][Size - 1]
           /\ Size - 1 = 0 => Frames = <<>>
<1>1. Running
  BY DEF Returns
<1>2. ci[L] \in Seq(CallInfo) /\ ci[L] # <<>> /\ Size = Len(ci[L]) /\ Size \in Nat /\ Size - 1 \in Nat
  BY <1>1, ActFacts DEF Running, Size
<1>3. Frames \in Seq(CallInfo) /\ Len(Frames) = Size - 1 /\ \A p \in 1 .. Size - 1 : Frames[p] = ci[L][p]
  BY <1>2, FrontFacts DEF Frames
<1> QED BY <1>1, <1>2, <1>3 DEF Last

LEMMA ReturnToLuaShaped == ASSUME Shaped, ReturnToLua, Same PROVE Shaped'
<1>1. /\ Returns /\ Last(Callers).c = "luaV_execute"
      /\ ci' = [ci EXCEPT ![L] = IF Last(Frames).st = "call" THEN SetTop(Frames, "run") ELSE Frames]
      /\ cstack' = Callers /\ raise' = raise
  BY DEF ReturnToLua
<1>2. PICK k \in 1 .. Depth :
             /\ Callers = SubSeq(cstack, 1, k) /\ Last(Callers) = cstack[k] /\ cstack[k].th = L
             /\ cstack[k].c = "luaV_execute" =>
                  /\ Size - 1 > cstack[k].ci
                  /\ ci[L][cstack[k].ci + 1].fn = "lua" /\ ci[L][cstack[k].ci + 1].fresh
                  /\ \A p \in cstack[k].ci + 1 .. Size - 1 : ci[L][p].fn = "lua" /\ ci[L][p].st = "call"
                  /\ \A p \in cstack[k].ci + 2 .. Size - 1 : ~ci[L][p].fresh
  BY <1>1, ReturnFacts
<1> DEFINE r == cstack[k]
           a == Size - 1
           F == ci[L]
           F2 == SetTop(Frames, "run")
<1>3. /\ r.c = "luaV_execute" /\ a > r.ci /\ F[r.ci + 1].fn = "lua" /\ F[r.ci + 1].fresh
      /\ \A p \in r.ci + 1 .. a : F[p].fn = "lua" /\ F[p].st = "call"
      /\ \A p \in r.ci + 2 .. a : ~F[p].fresh
  BY <1>1, <1>2
<1>4. /\ Frames \in Seq(CallInfo) /\ Len(Frames) = a /\ a \in Nat /\ raise = "no"
      /\ \A p \in 1 .. a : Frames[p] = F[p] /\ Frames[p] \in CallInfo
      /\ a > 0 => Frames # <<>> /\ Last(Frames) = F[a]
  BY <1>1, FramesFacts DEF Running
<1>5. r \in Entry /\ r.ci \in Nat /\ k \in 1 .. Len(cstack) /\ L = r.th
  <2>1. k \in 1 .. Len(cstack) /\ cstack \in Seq(Entry)
    BY DEF Depth, Shaped, StackTypes
  <2> QED BY <2>1, <1>2, EntryFields
<1>6. Frames # <<>> /\ Last(Frames) = F[a] /\ F[a].st = "call" /\ F[a].fn = "lua" /\ F[a] \in CallInfo
      /\ a \in 1 .. a
  BY <1>3, <1>4, <1>5
<1>7. ci' = [ci EXCEPT ![L] = F2]
  BY <1>1, <1>6
<1> HIDE DEF r, a, F
<1>8. At(F[a], "run") \in CallInfo /\ At(F[a], "run").fn = "lua" /\ At(F[a], "run").st = "run"
      /\ At(F[a], "run").fresh = F[a].fresh
  BY <1>6 DEF At, CallInfo, LuaStates, Resting
<1>9. /\ F2 \in Seq(CallInfo) /\ Len(F2) = a /\ F2[a] = At(F[a], "run")
      /\ \A p \in 1 .. a - 1 : F2[p] = F[p]
  <2>1. /\ F2 \in Seq(CallInfo) /\ Len(F2) = a /\ F2[a] = At(F[a], "run")
        /\ \A p \in 1 .. a - 1 : F2[p] = Frames[p]
    BY <1>4, <1>6, <1>8, SetTopFacts DEF At
  <2>2. \A p \in 1 .. a - 1 : p \in 1 .. a
    BY <1>4
  <2> QED BY <2>1, <2>2, <1>4
<1> HIDE DEF F2
<1>10. Rests(r, F2)
  <2>1. \A p \in 1 .. a : F2[p].fn = F[p].fn /\ F2[p].fresh = F[p].fresh
    <3>1. \A p \in 1 .. a : p \in 1 .. a - 1 \/ p = a
      BY <1>4
    <3> QED BY <3>1, <1>6, <1>8, <1>9
  <2>2. /\ r.ci + 1 \in 1 .. a
        /\ \A p \in r.ci + 1 .. a - 1 : p \in 1 .. a - 1 /\ p \in r.ci + 1 .. a
        /\ \A p \in r.ci + 2 .. a : p \in 1 .. a
    BY <1>3, <1>4, <1>5
  <2>3. F2[r.ci + 1].fn = "lua" /\ F2[r.ci + 1].fresh /\ \A p \in r.ci + 2 .. a : ~F2[p].fresh
    BY <2>1, <2>2, <1>3
  <2>4. \A p \in r.ci + 1 .. a - 1 : F2[p].fn = "lua" /\ F2[p].st = "call"
    BY <2>2, <1>3, <1>9
  <2> QED BY <2>3, <2>4, <1>3, <1>4, <1>5, <1>9 DEF Rests
<1>11. ReturnsTo(k, L, F2)
  <2>1. r.ci <= Len(F2) /\ \A p \in 1 .. r.ci : F2[p] = F[p]
    BY <1>3, <1>4, <1>5, <1>9
  <2> QED BY <2>1, <1>5, <1>10 DEF ReturnsTo, r, F
<1>12. Ready(r, F2, "no")
  BY <1>3, <1>8, <1>9 DEF Ready
<1>13. cstack' = SubSeq(cstack, 1, k) /\ raise' = "no" /\ "no" \in {"no", "errormsg", "throw"}
  BY <1>1, <1>2, <1>4
<1> QED BY <1>5, <1>7, <1>9, <1>11, <1>12, <1>13, ReturnStep DEF r

LEMMA ReturnToResumeShaped == ASSUME Shaped, ReturnToResume, Same PROVE Shaped'
<1>1. /\ Returns /\ Last(Callers).c = "lua_resume"
      /\ ci' = [ci EXCEPT ![L] = Frames] /\ cstack' = Callers /\ raise' = raise
  BY DEF ReturnToResume
<1>2. PICK k \in 1 .. Depth :
             /\ Callers = SubSeq(cstack, 1, k) /\ Last(Callers) = cstack[k] /\ cstack[k].th = L
             /\ cstack[k].c = "lua_resume" => \A p \in 1 .. Size - 1 : Unrollable(ci[L][p])
  BY <1>1, ReturnFacts
<1> DEFINE r == cstack[k]
           a == Size - 1
           F == ci[L]
<1>3. r.c = "lua_resume" /\ \A p \in 1 .. a : Unrollable(F[p])
  BY <1>1, <1>2
<1>4. /\ Frames \in Seq(CallInfo) /\ Len(Frames) = a /\ a \in Nat /\ raise = "no"
      /\ \A p \in 1 .. a : Frames[p] = F[p] /\ Frames[p] \in CallInfo
  BY <1>1, FramesFacts DEF Running
<1>5. r \in Entry /\ r.ci = 0 /\ k \in 1 .. Len(cstack) /\ L = r.th
  <2>1. k \in 1 .. Len(cstack) /\ cstack \in Seq(Entry)
    BY DEF Depth, Shaped, StackTypes
  <2> QED BY <2>1, <1>2, <1>3, EntryFields
<1> HIDE DEF r, a, F
<1>6. \A p \in 1 .. a : Unrollable(Frames[p])
  BY <1>3, <1>4
<1>7. Rests(r, Frames)
  <2>1. \A p \in 1 .. a - 1 : Unrollable(Frames[p])
    BY <1>4, <1>6
  <2> QED BY <2>1, <1>3, <1>4, <1>5 DEF Rests
<1>8. ReturnsTo(k, L, Frames)
  <2>1. 0 <= Len(Frames) /\ \A p \in 1 .. 0 : FALSE
    BY <1>4
  <2> QED BY <2>1, <1>5, <1>7 DEF ReturnsTo, r
<1>9. Ready(r, Frames, "no")
  BY <1>3, <1>4, <1>5, <1>6 DEF Ready
<1>10. cstack' = SubSeq(cstack, 1, k) /\ raise' = "no" /\ "no" \in {"no", "errormsg", "throw"}
  BY <1>1, <1>2, <1>4
<1> QED BY <1>1, <1>4, <1>5, <1>8, <1>9, <1>10, ReturnStep DEF r

(* The call that ends is the k-th activation.                              *)
EndsAt(k, caller) ==
    /\ Callers = SubSeq(cstack, 1, k) /\ Front(Callers) = SubSeq(cstack, 1, k - 1)
    /\ Last(Callers) = cstack[k] /\ Last(Front(Callers)) = cstack[k - 1]
    /\ cstack[k].c = "luaD_call" /\ cstack[k].caller = caller /\ cstack[k].ci = Size - 1
    /\ cstack[k].th = L /\ cstack[k - 1].th = L /\ cstack[k - 1].ci \in Nat
    /\ cstack[k - 1] \in Entry /\ cstack[k] \in Entry
    /\ Linked(cstack, k) /\ Called(cstack, ci, k) /\ Owns(cstack, ci, k - 1)
    /\ Above(cstack, ci, k - 1) = Size - 1 /\ cstack[k - 1].ci <= Size - 1

LEMMA CallEndsFacts ==
    ASSUME Shaped, NEW caller, CallEnds(caller)
    PROVE  Returns /\ \E k \in 2 .. Depth : EndsAt(k, caller)
<1>1. Returns /\ Last(Callers).c = "luaD_call" /\ Last(Callers).caller = caller
  BY DEF CallEnds
<1>2. PICK k \in 1 .. Depth :
             /\ Callers = SubSeq(cstack, 1, k) /\ Last(Callers) = cstack[k] /\ cstack[k].th = L
             /\ cstack[k].c = "luaD_call" => cstack[k].ci = Size - 1
  BY <1>1, ReturnFacts
<1>3. /\ Depth \in Nat /\ Depth = Len(cstack) /\ cstack \in Seq(Entry) /\ Shape(cstack, ci)
  BY DEF Shaped, StackTypes, Depth
<1>4. cstack[k].c = "luaD_call" /\ cstack[k].caller = caller /\ cstack[k].ci = Size - 1
  BY <1>1, <1>2
<1>5. Linked(cstack, k) /\ Called(cstack, ci, k) /\ k \in 1 .. Len(cstack)
  BY <1>3 DEF Shape
<1>6. k # 1
  BY <1>4, <1>5 DEF Linked
<1>7. k \in 2 .. Depth /\ k - 1 \in 1 .. Len(cstack) /\ k - 1 < Len(cstack) /\ (k - 1) + 1 = k
  BY <1>3, <1>6
<1>8. cstack[k - 1].th = L /\ cstack[k - 1].ci <= Size - 1
  BY <1>2, <1>4, <1>5, <1>6 DEF Linked
<1>9. Owns(cstack, ci, k - 1) /\ Above(cstack, ci, k - 1) = Size - 1
  BY <1>2, <1>3, <1>4, <1>7, <1>8 DEF Shape, Above
<1>10. cstack[k - 1] \in Entry /\ cstack[k] \in Entry /\ cstack[k - 1].ci \in Nat
  BY <1>3, <1>5, <1>7, EntryFields
<1>11. /\ Front(Callers) = SubSeq(cstack, 1, k - 1)
       /\ Last(Front(Callers)) = cstack[k - 1]
  <2>1. Front(Callers) = SubSeq(cstack, 1, k - 1)
    BY <1>2, <1>3, <1>5, FrontPrefix
  <2>2. Last(SubSeq(cstack, 1, k - 1)) = cstack[k - 1]
    BY <1>3, <1>7, FrontPrefix
  <2> QED BY <2>1, <2>2
<1>12. EndsAt(k, caller)
  BY <1>2, <1>4, <1>5, <1>8, <1>9, <1>10, <1>11 DEF EndsAt
<1> QED BY <1>1, <1>7, <1>12

(* The frame that made the call, which now has the frames F2.              *)
EndsWith(k, F2, x) ==
    LET a == Size - 1 IN
    /\ Len(F2) = a /\ \A p \in 1 .. a - 1 : F2[p] = ci[L][p]
    /\ a > 0 => F2[a].fn = ci[L][a].fn /\ F2[a].fresh = ci[L][a].fresh
    /\ a > cstack[k - 1].ci \/ a = 0 \/ F2[a] = ci[L][a]
    /\ Ready(cstack[k - 1], F2, x)

LEMMA EndsStep ==
    ASSUME Shaped, Same, NEW k \in 2 .. Depth, NEW caller, EndsAt(k, caller),
           NEW F2 \in Seq(CallInfo), NEW x \in {"no", "errormsg", "throw"}, EndsWith(k, F2, x),
           cstack' = Front(Callers), ci' = [ci EXCEPT ![L] = F2], raise' = x
    PROVE  Shaped'
<1> DEFINE i == k - 1
<1>1. /\ i \in 1 .. Depth /\ i \in 1 .. Len(cstack) /\ i < Depth /\ i + 1 = k
  BY DEF Depth, Shaped, StackTypes
<1>2. /\ cstack' = SubSeq(cstack, 1, i) /\ cstack[i].th = L /\ cstack[i + 1].th = L
      /\ cstack[i + 1].ci = Size - 1
  BY <1>1 DEF EndsAt
<1>3. Ready(cstack[i], F2, x)
  BY DEF EndsWith
<1>4. GoesBackTo(i, L, F2)
  BY <1>1, <1>2 DEF EndsWith, GoesBackTo
<1> HIDE DEF i
<1>5. ReturnsTo(i, L, F2)
  BY <1>1, <1>4, BackTo
<1> QED BY <1>1, <1>2, <1>3, <1>5, ReturnStep

LEMMA EndsCaller ==
    ASSUME Shaped, NEW k \in 2 .. Depth, NEW caller, EndsAt(k, caller),
           caller \in {"meta", "hook"} \/ (caller = "function" /\ cstack[k - 1].c # "luaD_pcall")
    PROVE  LET q == cstack[k - 1]  fr == ci[L][Size - 1] IN
           /\ Size - 1 > q.ci /\ Size - 1 > 0
           /\ q.c \in {"luaV_execute", "luaD_call", "lua_resume"}
           /\ q.c = "luaD_call" => Size - 1 = q.ci + 1
           /\ caller \in {"meta", "hook"} => q.c = "luaV_execute" /\ fr.fn = "lua"
           /\ caller = "function" => fr.fn # "lua" /\ fr.st = "in"
<1> DEFINE q == cstack[k - 1]
           r == cstack[k]
           fr == ci[L][Size - 1]
           a == Size - 1
<1>1. /\ r.c = "luaD_call" /\ r.caller = caller /\ r.ci = a /\ r.th = L /\ q.th = L
      /\ q \in Entry /\ r \in Entry /\ q.ci \in Nat /\ q.ci <= a /\ r.ci \in Nat
      /\ k # 1 /\ k - 1 < Len(cstack) /\ (k - 1) + 1 = k
  BY EntryFields DEF EndsAt, Depth, Shaped, StackTypes
<1>2. Linked(cstack, k) /\ Called(cstack, ci, k)
  BY DEF EndsAt
<1>3. /\ r.caller = "meta" => q.c = "luaV_execute"
      /\ r.caller = "hook" => q.c = "luaV_execute"
  BY <1>1, <1>2 DEF Linked
<1>4. /\ r.caller = "meta" => r.ci > 0 /\ fr.fn = "lua"
      /\ r.caller = "hook" => r.ci > 0 /\ fr.fn = "lua"
      /\ r.caller = "function" /\ q.c # "luaD_pcall" =>
           r.ci > 0 /\ fr.st = "in" /\ fr.fn \in {"sort", "dofile", "pcall", "xpcall"}
  BY <1>1, <1>2 DEF Called
<1>5. a > 0 /\ q.c # "luaD_pcall"
  BY <1>1, <1>3, <1>4
<1>6. /\ q.c = "luaV_execute" => a > q.ci
      /\ q.c = "luaD_call" => a <= q.ci + 1 /\ a # q.ci
  <2>1. Owns(cstack, ci, k - 1) /\ Above(cstack, ci, k - 1) = a
    BY DEF EndsAt
  <2>2. /\ q.c = "luaV_execute" => a > q.ci
        /\ q.c = "luaD_call" => a <= q.ci + 1
        /\ q.c = "luaD_call" /\ a = q.ci => r.c = "luaV_execute" \/ (r.c = "luaD_call" /\ r.caller = "handler")
    BY <2>1, <1>1 DEF Owns
  <2> QED BY <2>2, <1>1
<1>7. q.c = "lua_resume" => q.ci = 0
  BY <1>1, EntryFields
<1>8. q.c \in {"luaV_execute", "luaD_call", "lua_resume"}
  BY <1>1, <1>5, EntryFields
<1>9. a > q.ci /\ (q.c = "luaD_call" => a = q.ci + 1)
  BY <1>1, <1>5, <1>6, <1>7, <1>8
<1>10. caller = "function" => fr.fn # "lua" /\ fr.st = "in"
  BY <1>1, <1>4, <1>5
<1> QED BY <1>1, <1>3, <1>4, <1>5, <1>8, <1>9, <1>10

LEMMA GoesOn ==
    ASSUME Shaped, Returns, Size - 1 > 0, NEW x,
           IF ci[L][Size - 1].fn = "lua" THEN x \in LuaStates ELSE x \in Resting \cup {"in"},
           ci[L][Size - 1].ypcall => x = "in"
    PROVE  /\ SetTop(Frames, x) \in Seq(CallInfo) /\ Len(SetTop(Frames, x)) = Size - 1
           /\ \A p \in 1 .. (Size - 1) - 1 : SetTop(Frames, x)[p] = ci[L][p]
           /\ SetTop(Frames, x)[Size - 1].fn = ci[L][Size - 1].fn
           /\ SetTop(Frames, x)[Size - 1].fresh = ci[L][Size - 1].fresh
           /\ SetTop(Frames, x)[Size - 1].st = x
<1> DEFINE fr == ci[L][Size - 1]
<1>1. /\ Frames \in Seq(CallInfo) /\ Len(Frames) = Size - 1 /\ Size - 1 \in Nat /\ Frames # <<>>
      /\ \A p \in 1 .. Size - 1 : Frames[p] = ci[L][p] /\ Frames[p] \in CallInfo
      /\ Last(Frames) = fr
  BY FramesFacts
<1>2. fr \in CallInfo
  <2>1. Size - 1 \in 1 .. Size - 1
    BY <1>1
  <2> QED BY <2>1, <1>1
<1> HIDE DEF fr
<1>3. /\ At(fr, x) \in CallInfo /\ At(fr, x).fn = fr.fn /\ At(fr, x).fresh = fr.fresh
      /\ At(fr, x).st = x
  <2>1. /\ IF fr.fn = "lua" THEN x \in LuaStates ELSE x \in Resting \cup {"in"}
        /\ fr.ypcall => x = "in"
    BY DEF fr
  <2> QED BY <2>1, <1>2 DEF At, CallInfo, LuaStates, Resting
<1>4. /\ SetTop(Frames, x) \in Seq(CallInfo) /\ Len(SetTop(Frames, x)) = Size - 1
      /\ SetTop(Frames, x)[Size - 1] = At(fr, x)
      /\ \A p \in 1 .. (Size - 1) - 1 : SetTop(Frames, x)[p] = Frames[p]
  BY <1>1, <1>3, SetTopFacts DEF At
<1>5. \A p \in 1 .. (Size - 1) - 1 : p \in 1 .. Size - 1
  BY <1>1
<1> QED BY <1>1, <1>3, <1>4, <1>5 DEF fr

LEMMA MetamethodEndsShaped == ASSUME Shaped, MetamethodEnds, Same PROVE Shaped'
<1> DEFINE F2 == SetTop(Frames, "run")
           a == Size - 1
<1>1. /\ CallEnds("meta") /\ ci' = [ci EXCEPT ![L] = F2]
      /\ cstack' = Front(Callers) /\ raise' = raise
  BY DEF MetamethodEnds
<1>2. Returns /\ raise = "no"
  BY <1>1 DEF CallEnds, Returns, Running
<1>3. PICK k \in 2 .. Depth : EndsAt(k, "meta")
  BY <1>1, CallEndsFacts
<1>4. /\ a > cstack[k - 1].ci /\ a > 0 /\ cstack[k - 1].c = "luaV_execute" /\ ci[L][a].fn = "lua"
  BY <1>3, EndsCaller
<1>5. ~ci[L][a].ypcall /\ "run" \in LuaStates
  <2>1. ci[L][a] \in CallInfo
    <3>1. a \in 1 .. a
      BY <1>2, <1>4, FramesFacts
    <3> QED BY <3>1, <1>2, FramesFacts
  <2> QED BY <2>1, <1>4, FrameFields DEF LuaStates
<1>6. /\ F2 \in Seq(CallInfo) /\ Len(F2) = a /\ F2[a].st = "run"
      /\ \A p \in 1 .. a - 1 : F2[p] = ci[L][p]
      /\ F2[a].fn = ci[L][a].fn /\ F2[a].fresh = ci[L][a].fresh
  BY <1>2, <1>4, <1>5, GoesOn
<1> HIDE DEF F2
<1>7. Ready(cstack[k - 1], F2, "no")
  BY <1>4, <1>6 DEF Ready
<1>8. EndsWith(k, F2, "no") /\ raise' = "no" /\ "no" \in {"no", "errormsg", "throw"}
  BY <1>1, <1>2, <1>4, <1>6, <1>7 DEF EndsWith
<1> QED BY <1>1, <1>3, <1>6, <1>8, EndsStep

LEMMA HookEndsShaped == ASSUME Shaped, HookEnds, Same PROVE Shaped'
<1> DEFINE F2 == SetTop(Frames, "run")
           a == Size - 1
<1>1. /\ CallEnds("hook") /\ ci' = [ci EXCEPT ![L] = F2]
      /\ cstack' = Front(Callers) /\ raise' = raise
  BY DEF HookEnds
<1>2. Returns /\ raise = "no"
  BY <1>1 DEF CallEnds, Returns, Running
<1>3. PICK k \in 2 .. Depth : EndsAt(k, "hook")
  BY <1>1, CallEndsFacts
<1>4. /\ a > cstack[k - 1].ci /\ a > 0 /\ cstack[k - 1].c = "luaV_execute" /\ ci[L][a].fn = "lua"
  BY <1>3, EndsCaller
<1>5. ~ci[L][a].ypcall /\ "run" \in LuaStates
  <2>1. ci[L][a] \in CallInfo
    <3>1. a \in 1 .. a
      BY <1>2, <1>4, FramesFacts
    <3> QED BY <3>1, <1>2, FramesFacts
  <2> QED BY <2>1, <1>4, FrameFields DEF LuaStates
<1>6. /\ F2 \in Seq(CallInfo) /\ Len(F2) = a /\ F2[a].st = "run"
      /\ \A p \in 1 .. a - 1 : F2[p] = ci[L][p]
      /\ F2[a].fn = ci[L][a].fn /\ F2[a].fresh = ci[L][a].fresh
  BY <1>2, <1>4, <1>5, GoesOn
<1> HIDE DEF F2
<1>7. Ready(cstack[k - 1], F2, "no")
  BY <1>4, <1>6 DEF Ready
<1>8. EndsWith(k, F2, "no") /\ raise' = "no" /\ "no" \in {"no", "errormsg", "throw"}
  BY <1>1, <1>2, <1>4, <1>6, <1>7 DEF EndsWith
<1> QED BY <1>1, <1>3, <1>6, <1>8, EndsStep

LEMMA HandlerEndsShaped == ASSUME Shaped, HandlerEnds, Same PROVE Shaped'
<1> DEFINE a == Size - 1
<1>1. /\ CallEnds("handler") /\ ci' = [ci EXCEPT ![L] = Frames]
      /\ cstack' = Front(Callers) /\ raise' = "throw"
  BY DEF HandlerEnds
<1>2. Returns
  BY <1>1 DEF CallEnds
<1>3. PICK k \in 2 .. Depth : EndsAt(k, "handler")
  BY <1>1, CallEndsFacts
<1>4. /\ Frames \in Seq(CallInfo) /\ Len(Frames) = a /\ a \in Nat
      /\ \A p \in 1 .. a : Frames[p] = ci[L][p]
  BY <1>2, FramesFacts
<1>5. /\ \A p \in 1 .. a - 1 : Frames[p] = ci[L][p]
      /\ a > 0 => Frames[a] = ci[L][a]
  BY <1>4
<1>6. /\ cstack[k - 1].c # "luaD_pcall" /\ cstack[k - 1].ci \in Nat
      /\ a > cstack[k - 1].ci => ci[L][a].fn = "lua" \/ ci[L][a].st \in Resting
  <2>1. /\ cstack[k].c = "luaD_call" /\ cstack[k].caller = "handler" /\ cstack[k].ci = a
        /\ cstack[k].th = L /\ cstack[k - 1].ci \in Nat
        /\ Linked(cstack, k) /\ Called(cstack, ci, k) /\ k # 1
    BY <1>3 DEF EndsAt
  <2> QED BY <2>1 DEF Linked, Called
<1>7. Ready(cstack[k - 1], Frames, "throw")
  <2>1. a > cstack[k - 1].ci => Frames[a] = ci[L][a]
    BY <1>4, <1>5, <1>6
  <2> QED BY <2>1, <1>4, <1>6 DEF Ready
<1>8. a > cstack[k - 1].ci \/ a = 0 \/ Frames[a] = ci[L][a]
  <2> HIDE DEF a
  <2>1. a = 0 \/ a > 0
    BY <1>4
  <2> QED BY <2>1, <1>5
<1>9. EndsWith(k, Frames, "throw") /\ "throw" \in {"no", "errormsg", "throw"}
  BY <1>4, <1>5, <1>7, <1>8 DEF EndsWith
<1> QED BY <1>1, <1>3, <1>4, <1>9, EndsStep

LEMMA CFunctionGoesOnShaped == ASSUME Shaped, CFunctionGoesOn, Same PROVE Shaped'
<1> DEFINE a == Size - 1
           f == ci[L][a]
           fr == [f EXCEPT !.st = "back", !.ypcall = FALSE]
           F2 == Append(Front(Frames), fr)
<1>1. /\ CallEnds("function") /\ Last(Front(Callers)).c # "luaD_pcall"
      /\ ci' = [ci EXCEPT ![L] = Append(Front(Frames),
                                        [Last(Frames) EXCEPT !.st = "back", !.ypcall = FALSE])]
      /\ cstack' = Front(Callers) /\ raise' = raise
  BY DEF CFunctionGoesOn
<1>2. Returns /\ raise = "no"
  BY <1>1 DEF CallEnds, Returns, Running
<1>3. PICK k \in 2 .. Depth : EndsAt(k, "function")
  BY <1>1, CallEndsFacts
<1>4. cstack[k - 1].c # "luaD_pcall"
  BY <1>1, <1>3 DEF EndsAt
<1>5. /\ a > cstack[k - 1].ci /\ a > 0
      /\ cstack[k - 1].c \in {"luaV_execute", "luaD_call", "lua_resume"}
      /\ cstack[k - 1].c = "luaD_call" => a = cstack[k - 1].ci + 1
      /\ f.fn # "lua"
  BY <1>3, <1>4, EndsCaller
<1>6. /\ Frames \in Seq(CallInfo) /\ Len(Frames) = a /\ a \in Nat /\ Frames # <<>>
      /\ \A p \in 1 .. a : Frames[p] = ci[L][p] /\ Frames[p] \in CallInfo
      /\ Last(Frames) = f
  BY <1>2, <1>5, FramesFacts
<1> HIDE DEF a
<1>7. f \in CallInfo
  <2>1. a \in 1 .. a
    BY <1>5, <1>6
  <2> QED BY <2>1, <1>6
<1> HIDE DEF f
<1>8. fr \in CallInfo /\ fr.fn = f.fn /\ fr.fresh = f.fresh /\ fr.st = "back"
  BY <1>5, <1>7 DEF CallInfo, LuaStates, Resting
<1>9. ci' = [ci EXCEPT ![L] = F2]
  BY <1>1, <1>6
<1> HIDE DEF fr
<1> DEFINE G == Front(Frames)
<1>10. G \in Seq(CallInfo) /\ Len(G) = a - 1 /\ \A p \in 1 .. a - 1 : G[p] = ci[L][p]
  <2>1. G \in Seq(CallInfo) /\ Len(G) = a - 1 /\ \A p \in 1 .. a - 1 : G[p] = Frames[p]
    BY <1>6, FrontFacts
  <2>2. \A p \in 1 .. a - 1 : p \in 1 .. a
    BY <1>6
  <2> QED BY <2>1, <2>2, <1>6
<1> HIDE DEF G
<1>11. /\ Append(G, fr) \in Seq(CallInfo) /\ Len(Append(G, fr)) = a /\ Append(G, fr)[a] = fr
       /\ \A p \in 1 .. a - 1 : Append(G, fr)[p] = ci[L][p]
  BY <1>6, <1>8, <1>10
<1>12. /\ F2 \in Seq(CallInfo) /\ Len(F2) = a /\ F2[a] = fr
       /\ \A p \in 1 .. a - 1 : F2[p] = ci[L][p]
  BY <1>11 DEF G
<1> HIDE DEF F2
<1>13. Ready(cstack[k - 1], F2, "no")
  BY <1>5, <1>8, <1>12 DEF Ready, Resting
<1>14. EndsWith(k, F2, "no") /\ raise' = "no" /\ "no" \in {"no", "errormsg", "throw"}
  BY <1>1, <1>2, <1>5, <1>8, <1>12, <1>13 DEF EndsWith, a, f
<1> QED BY <1>1, <1>3, <1>9, <1>12, <1>14, EndsStep

(* luaD_pcall is left for what called it, whose frames are now F2.         *)
LeavesPCall(j, F2, x) ==
    /\ cstack[j].c = "luaD_pcall" /\ cstack[j].th = L
    /\ j > 1 => /\ Len(F2) = cstack[j].ci
                /\ \A p \in 1 .. Len(F2) - 1 : F2[p] = ci[L][p]
                /\ Len(F2) > 0 => /\ F2[Len(F2)].fn = ci[L][Len(F2)].fn
                                  /\ F2[Len(F2)].fresh = ci[L][Len(F2)].fresh
                /\ IF cstack[j].gc
                   THEN \/ x = "no" /\ F2[Len(F2)].st = "run"
                        \/ x = "throw"
                   ELSE x = "no" /\ F2[Len(F2)].st \in Resting
    /\ j = 1 => x = "no"

LEMMA LeavePCall ==
    ASSUME Shaped, Same, NEW j \in 1 .. Depth, NEW F2 \in Seq(CallInfo),
           NEW x \in {"no", "throw"}, LeavesPCall(j, F2, x),
           cstack' = SubSeq(cstack, 1, j - 1), ci' = [ci EXCEPT ![L] = F2], raise' = x
    PROVE  Shaped'
<1> DEFINE r == cstack[j]
           q == cstack[j - 1]
           i == j - 1
           a == Len(F2)
<1>1. /\ Depth \in Nat /\ Depth = Len(cstack) /\ cstack \in Seq(Entry)
      /\ Shape(cstack, ci) /\ ci \in [Thread -> Seq(CallInfo)] /\ j \in 1 .. Len(cstack)
  BY DEF Shaped, StackTypes, Depth
<1>2. r \in Entry /\ r.c = "luaD_pcall" /\ r.th = L /\ r.ci \in Nat /\ L \in Thread
  <2>1. r \in Entry
    BY <1>1
  <2> QED BY <2>1, EntryFields DEF LeavesPCall
<1>3. CASE j = 1
  <2>1. cstack' = <<>> /\ raise' = "no"
    <3>1. x = "no"
      BY <1>3 DEF LeavesPCall
    <3>2. SubSeq(cstack, 1, 0) = <<>>
      BY <1>1, PrefixFacts
    <3> QED BY <3>1, <3>2, <1>3
  <2>2. Shape(cstack', ci') /\ OnTop(cstack', ci', raise')
    BY <2>1 DEF Shape, OnTop
  <2>3. cstack' \in Seq(Entry) /\ ci' \in [Thread -> Seq(CallInfo)]
    BY <2>1, <1>1, <1>2
  <2> QED BY <2>1, <2>2, <2>3, ShapedNext
<1>4. CASE j # 1
  <2>1. i \in 1 .. Depth /\ i \in 1 .. Len(cstack) /\ i < Depth /\ i + 1 = j /\ j > 1
        /\ i < Len(cstack)
    BY <1>1, <1>4
  <2>2. /\ a = r.ci
        /\ \A p \in 1 .. a - 1 : F2[p] = ci[L][p]
        /\ a > 0 => F2[a].fn = ci[L][a].fn /\ F2[a].fresh = ci[L][a].fresh
        /\ IF r.gc THEN \/ x = "no" /\ F2[a].st = "run"
                        \/ x = "throw"
                   ELSE x = "no" /\ F2[a].st \in Resting
    BY <2>1 DEF LeavesPCall
  <2>3. Linked(cstack, j) /\ Called(cstack, ci, j) /\ Owns(cstack, ci, i)
    BY <1>1, <2>1 DEF Shape
  <2>4. q.th = L /\ q.ci <= r.ci /\ q.c # "luaD_pcall" /\ (r.gc => q.c = "luaV_execute")
    BY <1>2, <1>4, <2>3 DEF Linked
  <2>5. /\ r.ci > 0
        /\ r.gc => ci[L][r.ci].fn = "lua"
    BY <1>2, <1>4, <2>3 DEF Called
  <2>6. q \in Entry /\ q.ci \in Nat
    BY <1>1, <2>1, EntryFields
  <2>7. Above(cstack, ci, i) = r.ci
    BY <1>2, <2>1, <2>4 DEF Above
  <2>8. /\ r.ci > q.ci
        /\ q.c = "luaD_call" => r.ci = q.ci + 1
        /\ q.c \in {"luaV_execute", "luaD_call", "lua_resume"}
    <3>0. q.c \in {"luaV_execute", "luaD_call", "lua_resume"}
      BY <2>4, <2>6, EntryFields
    <3>1a. q.c = "luaV_execute" => r.ci > q.ci
      BY <2>3, <2>7 DEF Owns
    <3>1b. q.c = "luaD_call" => r.ci <= q.ci + 1
      <4>1. q.c = "luaD_call" => Above(cstack, ci, i) <= q.ci + 1
        BY <2>3 DEF Owns
      <4> QED BY <4>1, <2>7
    <3>1. /\ q.c = "luaV_execute" => r.ci > q.ci
          /\ q.c = "luaD_call" => r.ci <= q.ci + 1
      BY <3>1a, <3>1b
    <3>2. q.c = "luaD_call" => r.ci # q.ci
      BY <2>1, <2>3, <2>7, <1>2 DEF Owns
    <3>3. q.c = "lua_resume" => q.ci = 0
      BY <2>6, EntryFields
    <3>4. r.ci \in Nat /\ q.ci \in Nat /\ q.ci <= r.ci /\ r.ci > 0
      BY <2>4, <2>5, <2>6, <1>2
    <3> HIDE DEF q, r
    <3> QED BY <3>0, <3>1, <3>2, <3>3, <3>4
  <2>9. Ready(q, F2, x)
    <3>1. CASE r.gc
      <4>1. q.c = "luaV_execute" /\ F2[a].fn = "lua"
        BY <3>1, <2>2, <2>4, <2>5, <1>2
      <4> QED BY <3>1, <4>1, <2>2 DEF Ready
    <3>2. CASE ~r.gc
      <4>1. x = "no" /\ F2[a].st \in Resting
        BY <3>2, <2>2
      <4> QED BY <4>1, <2>2, <2>4, <2>8 DEF Ready
    <3> QED BY <3>1, <3>2
  <2>10. GoesBackTo(i, L, F2)
    <3>1. /\ cstack[i].th = L /\ cstack[i + 1].th = L /\ a = cstack[i + 1].ci /\ a > cstack[i].ci
      BY <1>2, <2>1, <2>2, <2>4, <2>8
    <3> QED BY <3>1, <2>1, <2>2 DEF GoesBackTo
  <2> HIDE DEF i, q, r
  <2>11. ReturnsTo(i, L, F2)
    BY <2>1, <2>10, BackTo
  <2>12. cstack' = SubSeq(cstack, 1, i) /\ Ready(cstack[i], F2, x) /\ x \in {"no", "errormsg", "throw"}
    BY <2>9 DEF i, q
  <2> QED BY <2>1, <2>11, <2>12, ReturnStep
<1> QED BY <1>3, <1>4

LEMMA PCallEndsShaped == ASSUME Shaped, PCallEnds, Same PROVE Shaped'
<1> DEFINE p == Last(Front(Callers))
           a == Size - 1
           F2 == IF Frames = <<>> THEN Frames ELSE SetTop(Frames, IF p.gc THEN "run" ELSE "back")
<1>1. /\ CallEnds("function") /\ p.c = "luaD_pcall" /\ ci' = [ci EXCEPT ![L] = F2]
      /\ cstack' = Front(Front(Callers)) /\ raise' = raise
  BY DEF PCallEnds
<1>2. Returns /\ raise = "no"
  BY <1>1 DEF CallEnds, Returns, Running
<1>3. PICK k \in 2 .. Depth : EndsAt(k, "function")
  BY <1>1, CallEndsFacts
<1>4. /\ Depth \in Nat /\ Depth = Len(cstack) /\ cstack \in Seq(Entry) /\ Shape(cstack, ci)
  BY DEF Shaped, StackTypes, Depth
<1> DEFINE j == k - 1
<1>5. /\ Front(Callers) = SubSeq(cstack, 1, j) /\ p = cstack[j]
      /\ cstack[k].c = "luaD_call" /\ cstack[k].ci = a
      /\ cstack[j].th = L /\ Linked(cstack, k) /\ p \in Entry
  BY <1>3 DEF EndsAt
<1>6. /\ j \in 1 .. Depth /\ j \in 1 .. Len(cstack) /\ j \in Nat /\ j + 1 = k /\ k # 1
  BY <1>4
<1>7. cstack' = SubSeq(cstack, 1, j - 1)
  BY <1>1, <1>4, <1>5, <1>6, FrontPrefix
<1>8. p.ci = a /\ p.ci \in Nat
  <2>1. p.ci = cstack[k].ci
    BY <1>1, <1>5, <1>6 DEF Linked
  <2> QED BY <2>1, <1>1, <1>5, EntryFields
<1>9. /\ Frames \in Seq(CallInfo) /\ Len(Frames) = a /\ a \in Nat
      /\ \A q \in 1 .. a : Frames[q] = ci[L][q] /\ Frames[q] \in CallInfo
      /\ a = 0 => Frames = <<>>
      /\ a > 0 => Frames # <<>>
  BY <1>2, FramesFacts
<1>10. Linked(cstack, j) /\ Called(cstack, ci, j)
  BY <1>4, <1>6 DEF Shape
<1>11. j = 1 => a = 0
  BY <1>5, <1>8, <1>10 DEF Linked
<1>12. j # 1 => /\ a > 0
                /\ p.gc => ci[L][a].fn = "lua"
                /\ ~p.gc => ci[L][a].fn # "lua" /\ ~ci[L][a].ypcall
  BY <1>1, <1>5, <1>8, <1>10 DEF Called
<1>13. j # 1 => /\ F2 \in Seq(CallInfo) /\ Len(F2) = a
                /\ \A q \in 1 .. a - 1 : F2[q] = ci[L][q]
                /\ F2[a].fn = ci[L][a].fn /\ F2[a].fresh = ci[L][a].fresh
                /\ F2[a].st = IF p.gc THEN "run" ELSE "back"
  <2> SUFFICES ASSUME j # 1
               PROVE  /\ F2 \in Seq(CallInfo) /\ Len(F2) = a
                      /\ \A q \in 1 .. a - 1 : F2[q] = ci[L][q]
                      /\ F2[a].fn = ci[L][a].fn /\ F2[a].fresh = ci[L][a].fresh
                      /\ F2[a].st = IF p.gc THEN "run" ELSE "back"
    OBVIOUS
  <2> DEFINE y == IF p.gc THEN "run" ELSE "back"
  <2>1. ci[L][a] \in CallInfo
    <3>1. a \in 1 .. a
      BY <1>9, <1>12
    <3> QED BY <3>1, <1>9
  <2>2. ci[L][a].fn = "lua" => ~ci[L][a].ypcall
    BY <2>1, FrameFields
  <2>3. /\ IF ci[L][a].fn = "lua" THEN y \in LuaStates ELSE y \in Resting \cup {"in"}
        /\ ~ci[L][a].ypcall
    BY <2>2, <1>12 DEF LuaStates, Resting
  <2>4. F2 = SetTop(Frames, y) /\ a > 0
    BY <1>9, <1>12
  <2> HIDE DEF y, F2, p, j
  <2>5. /\ SetTop(Frames, y) \in Seq(CallInfo) /\ Len(SetTop(Frames, y)) = a
        /\ \A q \in 1 .. a - 1 : SetTop(Frames, y)[q] = ci[L][q]
        /\ SetTop(Frames, y)[a].fn = ci[L][a].fn
        /\ SetTop(Frames, y)[a].fresh = ci[L][a].fresh
        /\ SetTop(Frames, y)[a].st = y
    BY <2>3, <2>4, <1>2, GoesOn
  <2> QED BY <2>4, <2>5 DEF y
<1>14. F2 \in Seq(CallInfo)
  BY <1>9, <1>11, <1>13
<1> HIDE DEF F2, p, j
<1>15. LeavesPCall(j, F2, "no")
  <2>1. j > 1 <=> j # 1
    BY <1>6
  <2>2. a \in Nat
    BY <1>9
  <2>3. "back" \in Resting
    BY DEF Resting
  <2>4. j # 1 => /\ Len(F2) = cstack[j].ci
                 /\ \A q \in 1 .. Len(F2) - 1 : F2[q] = ci[L][q]
                 /\ F2[Len(F2)].fn = ci[L][Len(F2)].fn
                 /\ F2[Len(F2)].fresh = ci[L][Len(F2)].fresh
                 /\ F2[Len(F2)].st = IF cstack[j].gc THEN "run" ELSE "back"
    BY <1>5, <1>8, <1>13
  <2> QED BY <2>1, <2>3, <2>4, <1>1, <1>5 DEF LeavesPCall
<1> QED BY <1>1, <1>2, <1>6, <1>7, <1>14, <1>15, LeavePCall

-----------------------------------------------------------------------------
(* Long jumps                                                              *)

LessThan == {p \in Nat \X Nat : p[1] < p[2]}

LEMMA LeastNumber ==
    ASSUME NEW T, T \subseteq Nat, T # {}
    PROVE  \E n \in T : \A m \in T : n <= m
<1>1. IsWellFoundedOn(LessThan, Nat)
  BY NatLessThanWellFounded DEF OpToRel, LessThan
<1>2. PICK n \in T : \A m \in T : <<m, n>> \notin LessThan
  BY <1>1, WFMin
<1>3. ASSUME NEW m \in T PROVE n <= m
  <2>1. m \in Nat /\ n \in Nat /\ <<m, n>> \notin LessThan
    BY <1>2
  <2> QED BY <2>1 DEF LessThan
<1> QED BY <1>3

(* The activations above the last setjmp are those of the thread that runs.*)
LEMMA SetjmpFacts ==
    ASSUME Shaped, cstack # <<>>
    PROVE  /\ Setjmp \in 1 .. Depth /\ Jmp.c \in Protected
           /\ \A i \in Setjmp + 1 .. Depth : cstack[i].c \notin Protected
           /\ \A i \in Setjmp .. Depth : cstack[i].th = L
<1>1. /\ Depth \in Nat /\ Depth = Len(cstack) /\ cstack \in Seq(Entry) /\ Shape(cstack, ci)
      /\ Depth >= 1 /\ DOMAIN cstack = 1 .. Depth /\ L = cstack[Depth].th
  BY ActFacts DEF Shaped, StackTypes, Depth, Act
<1>2. \A i \in 1 .. Depth : Linked(cstack, i)
  BY <1>1 DEF Shape
<1>3. cstack[1].c \in Protected
  BY <1>1, <1>2 DEF Linked, Protected
<1>4. \E n \in 1 .. Depth : /\ cstack[n].c \in Protected
                            /\ \A i \in n + 1 .. Depth : cstack[i].c \notin Protected
  <2> DEFINE T == {m \in 0 .. Depth - 1 : cstack[Depth - m].c \in Protected}
  <2>1. Depth - 1 \in 0 .. Depth - 1 /\ Depth - (Depth - 1) = 1
    BY <1>1
  <2>2. T \subseteq Nat /\ T # {}
    <3>1. Depth - 1 \in T
      BY <2>1, <1>3
    <3>2. \A m \in 0 .. Depth - 1 : m \in Nat
      BY <1>1
    <3> QED BY <3>1, <3>2
  <2>3. PICK m \in T : \A l \in T : m <= l
    BY <2>2, LeastNumber
  <2> DEFINE n == Depth - m
  <2>4. n \in 1 .. Depth /\ cstack[n].c \in Protected
    BY <2>3, <1>1
  <2>5. ASSUME NEW i \in n + 1 .. Depth, cstack[i].c \in Protected PROVE FALSE
    <3>1. Depth - i \in 0 .. Depth - 1 /\ Depth - (Depth - i) = i /\ Depth - i < m /\ m \in Nat
      BY <2>3, <2>4, <1>1
    <3>2. Depth - i \in T
      BY <3>1, <2>5
    <3> QED BY <3>1, <3>2, <2>3
  <2> QED BY <2>4, <2>5
<1>5. /\ Setjmp \in 1 .. Depth /\ cstack[Setjmp].c \in Protected
      /\ \A i \in Setjmp + 1 .. Depth : cstack[i].c \notin Protected
  BY <1>1, <1>4, Zenon DEF Setjmp
<1> DEFINE s == Setjmp
           T == {i \in s .. Depth : cstack[i].th # cstack[s].th}
<1>6. s \in 1 .. Depth /\ \A i \in s + 1 .. Depth : cstack[i].c \notin Protected
  BY <1>5
<1> HIDE DEF s
<1>7. T = {}
  <2> SUFFICES ASSUME T # {} PROVE FALSE
    OBVIOUS
  <2>1. T \subseteq Nat
    BY <1>1, <1>6
  <2>2. PICK i \in T : \A m \in T : i <= m
    BY <2>1, LeastNumber
  <2>3. i \in s + 1 .. Depth /\ i \in 1 .. Depth /\ i - 1 \in s .. Depth /\ i - 1 < i /\ i # 1
    <3>1. i \in s .. Depth /\ i # s
      BY <2>2
    <3> QED BY <3>1, <1>1, <1>6
  <2>4. cstack[i].c # "lua_resume"
    BY <2>3, <1>6 DEF Protected
  <2>5. cstack[i].th = cstack[i - 1].th
    BY <2>3, <2>4, <1>2 DEF Linked
  <2>6. i - 1 \in T
    BY <2>2, <2>3, <2>5
  <2> QED BY <2>2, <2>3, <2>6
<1>8. \A i \in s .. Depth : cstack[i].th = L
  <2>1. Depth \in s .. Depth
    BY <1>1, <1>6
  <2> QED BY <2>1, <1>1, <1>7
<1> QED BY <1>5, <1>8 DEF s, Jmp

LEMMA ThrowToPCallShaped == ASSUME Shaped, ThrowToPCall, Same PROVE Shaped'
<1> DEFINE j == Setjmp
           frames == SubSeq(ci[L], 1, Jmp.ci)
           F2 == IF frames = <<>> \/ Jmp.gc THEN frames ELSE SetTop(frames, "caught")
           x == IF Jmp.gc THEN "throw" ELSE "no"
           a == Jmp.ci
<1>1. /\ raise = "throw" /\ Jmp.c = "luaD_pcall" /\ ci' = [ci EXCEPT ![L] = F2]
      /\ cstack' = SubSeq(cstack, 1, j - 1) /\ raise' = x
  BY DEF ThrowToPCall
<1>2. cstack # <<>>
  BY <1>1, Raised
<1>3. /\ j \in 1 .. Depth /\ Jmp = cstack[j] /\ Jmp.th = L
      /\ Depth \in Nat /\ Depth = Len(cstack) /\ cstack \in Seq(Entry) /\ Shape(cstack, ci)
      /\ ci[L] \in Seq(CallInfo)
  <2>1. /\ j \in 1 .. Depth /\ \A i \in j .. Depth : cstack[i].th = L
        /\ Depth \in Nat
    BY <1>2, SetjmpFacts, ActFacts
  <2>2. j \in j .. Depth
    BY <2>1
  <2> QED BY <2>1, <2>2, <1>2, ActFacts DEF Shaped, StackTypes, Depth, Jmp
<1>4. Linked(cstack, j) /\ Called(cstack, ci, j) /\ Jmp \in Entry
  BY <1>3 DEF Shape
<1>5. a \in Nat /\ Jmp.gc \in BOOLEAN
  BY <1>1, <1>4, EntryFields
<1>6. a <= Size
  BY <1>3, <1>4 DEF Called, Size
<1>7. a \in 0 .. Size /\ Size \in Nat
  BY <1>3, <1>5, <1>6 DEF Size
<1>8. /\ frames \in Seq(CallInfo) /\ Len(frames) = a
      /\ \A p \in 1 .. a : frames[p] = ci[L][p]
  BY <1>3, <1>7, PrefixFacts DEF Size
<1>9. j = 1 => a = 0 /\ ~Jmp.gc
  BY <1>3, <1>4 DEF Linked
<1>10. j # 1 => /\ a > 0
                /\ ~Jmp.gc => ci[L][a].fn # "lua" /\ ~ci[L][a].ypcall
  BY <1>1, <1>3, <1>4 DEF Called
<1> HIDE DEF j, frames, a
<1>11. j # 1 => /\ F2 \in Seq(CallInfo) /\ Len(F2) = a
                /\ \A p \in 1 .. a - 1 : F2[p] = ci[L][p]
                /\ F2[a].fn = ci[L][a].fn /\ F2[a].fresh = ci[L][a].fresh
                /\ ~Jmp.gc => F2[a].st = "caught"
  <2> SUFFICES ASSUME j # 1
               PROVE  /\ F2 \in Seq(CallInfo) /\ Len(F2) = a
                      /\ \A p \in 1 .. a - 1 : F2[p] = ci[L][p]
                      /\ F2[a].fn = ci[L][a].fn /\ F2[a].fresh = ci[L][a].fresh
                      /\ ~Jmp.gc => F2[a].st = "caught"
    OBVIOUS
  <2>1. /\ a > 0 /\ frames # <<>> /\ a \in 1 .. a /\ Last(frames) = ci[L][a]
        /\ \A p \in 1 .. a - 1 : p \in 1 .. a
    BY <1>5, <1>8, <1>10 DEF Last
  <2>2. CASE Jmp.gc
    <3>1. F2 = frames
      BY <2>2
    <3> QED BY <3>1, <2>1, <2>2, <1>8
  <2>3. CASE ~Jmp.gc
    <3> DEFINE fr == ci[L][a]
    <3>1. F2 = SetTop(frames, "caught")
      BY <2>1, <2>3
    <3>2. fr \in CallInfo /\ fr.fn # "lua" /\ ~fr.ypcall
      <4>1. a \in 1 .. Size
        BY <1>7, <2>1
      <4>2. fr \in CallInfo
        BY <4>1, <1>3, <1>7 DEF Size
      <4> QED BY <4>2, <1>10, <2>3
    <3> HIDE DEF fr, F2
    <3>3. At(fr, "caught") \in CallInfo /\ At(fr, "caught").fn = fr.fn
          /\ At(fr, "caught").fresh = fr.fresh /\ At(fr, "caught").st = "caught"
      BY <3>2 DEF At, CallInfo, LuaStates, Resting
    <3>4. /\ SetTop(frames, "caught") \in Seq(CallInfo) /\ Len(SetTop(frames, "caught")) = a
          /\ SetTop(frames, "caught")[a] = At(fr, "caught")
          /\ \A p \in 1 .. a - 1 : SetTop(frames, "caught")[p] = frames[p]
      BY <3>3, <2>1, <1>8, SetTopFacts DEF At, fr
    <3> QED BY <3>1, <3>3, <3>4, <2>1, <1>8 DEF fr
  <2> QED BY <2>2, <2>3
<1>12. F2 \in Seq(CallInfo)
  <2>1. j = 1 => frames = <<>>
    BY <1>8, <1>9
  <2> QED BY <2>1, <1>8, <1>11
<1> HIDE DEF F2, x
<1>13. x \in {"no", "throw"} /\ (Jmp.gc => x = "throw") /\ (~Jmp.gc => x = "no")
  BY DEF x
<1>14. LeavesPCall(j, F2, x)
  <2>1. j > 1 <=> j # 1
    BY <1>3
  <2>2. "caught" \in Resting
    BY DEF Resting
  <2>3. j # 1 => /\ Len(F2) = cstack[j].ci
                 /\ \A p \in 1 .. Len(F2) - 1 : F2[p] = ci[L][p]
                 /\ F2[Len(F2)].fn = ci[L][Len(F2)].fn
                 /\ F2[Len(F2)].fresh = ci[L][Len(F2)].fresh
                 /\ ~cstack[j].gc => F2[Len(F2)].st = "caught"
    BY <1>3, <1>11 DEF a
  <2> QED BY <2>1, <2>2, <2>3, <1>1, <1>3, <1>9, <1>13 DEF LeavesPCall
<1> QED BY <1>1, <1>3, <1>12, <1>13, <1>14, LeavePCall

(* lua_resume is left for the function that called it.                     *)
LEMMA LeaveResumeStep ==
    ASSUME Shaped, Same, NEW j \in 1 .. Depth, cstack[j].c = "lua_resume", NEW x \in Resting,
           NEW rest, rest = SubSeq(cstack, 1, j - 1), cstack' = rest,
           ci' = [ci EXCEPT ![Last(rest).th] = SetTop(@, x)], raise' = "no"
    PROVE  Shaped'
<1> DEFINE r == cstack[j]
           k == j - 1
           q == cstack[k]
           from == q.th
           g == ci[from]
           a == Len(g)
           F2 == SetTop(g, x)
<1>1. /\ Depth \in Nat /\ Depth = Len(cstack) /\ cstack \in Seq(Entry) /\ Shape(cstack, ci)
      /\ ci \in [Thread -> Seq(CallInfo)]
  BY DEF Shaped, StackTypes, Depth
<1>2. Linked(cstack, j) /\ Called(cstack, ci, j) /\ Apart(cstack, j)
  BY <1>1 DEF Shape
<1>3. j # 1
  BY <1>2 DEF Linked
<1>4. k \in 1 .. Depth /\ k \in 1 .. Len(cstack) /\ k < Len(cstack) /\ k + 1 = j /\ k \in 1 .. j - 1
      /\ j \in k + 1 .. j
  BY <1>1, <1>3
<1>5. Owns(cstack, ci, k) /\ q \in Entry
  BY <1>1, <1>4 DEF Shape
<1>6. q.ci \in Nat /\ from \in Thread /\ g \in Seq(CallInfo) /\ a \in Nat
  BY <1>1, <1>5, EntryFields
<1>7. /\ q.c # "luaD_pcall" /\ a > q.ci /\ g[a].fn \in {"resume", "wrap"} /\ g[a].st = "in"
  BY <1>2, <1>3 DEF Linked, Called
<1>8. r.th # from
  BY <1>2, <1>4 DEF Apart
<1>9. Above(cstack, ci, k) = a
  BY <1>4, <1>8 DEF Above
<1>10. Last(rest) = q
  BY <1>1, <1>4, FrontPrefix
<1>11. g # <<>> /\ Last(g) = g[a] /\ a \in 1 .. a /\ g[a] \in CallInfo
  BY <1>6, <1>7 DEF Last
<1>12. ci' = [ci EXCEPT ![from] = F2]
  BY <1>10, <1>11
<1>13. Rests(q, g)
  BY <1>5, <1>9 DEF Owns, Rests
<1>14. q.c = "luaD_call" => a = q.ci + 1
  <2>1. q.c = "luaD_call" => a <= q.ci + 1
    BY <1>13 DEF Rests
  <2> HIDE DEF q, a
  <2> QED BY <2>1, <1>6, <1>7
<1> HIDE DEF r, k, q, g, a
<1>15. /\ At(g[a], x) \in CallInfo /\ At(g[a], x).fn = g[a].fn /\ At(g[a], x).fresh = g[a].fresh
       /\ At(g[a], x).st = x
  BY <1>7, <1>11 DEF At, CallInfo, LuaStates, Resting
<1>16. /\ F2 \in Seq(CallInfo) /\ Len(F2) = a /\ F2[a] = At(g[a], x)
       /\ \A p \in 1 .. a - 1 : F2[p] = g[p]
  BY <1>6, <1>11, <1>15, SetTopFacts DEF At, a
<1> HIDE DEF F2
<1>17. Rests(q, F2)
  <2>1. \A p \in 1 .. a : F2[p].fn = g[p].fn /\ F2[p].fresh = g[p].fresh
    <3>1. \A p \in 1 .. a : p \in 1 .. a - 1 \/ p = a
      BY <1>6
    <3> QED BY <3>1, <1>15, <1>16
  <2>2. /\ q.ci + 1 \in 1 .. a /\ q.ci <= a
        /\ \A p \in q.ci + 1 .. a - 1 : p \in 1 .. a - 1
        /\ \A p \in q.ci + 2 .. a : p \in 1 .. a
    BY <1>6, <1>7
  <2>3. Len(g) = a
    BY DEF a
  <2>4. q.c = "luaV_execute" =>
          /\ F2[q.ci + 1].fn = "lua" /\ F2[q.ci + 1].fresh
          /\ \A p \in q.ci + 1 .. a - 1 : F2[p].fn = "lua" /\ F2[p].st = "call"
          /\ \A p \in q.ci + 2 .. a : ~F2[p].fresh
    BY <2>1, <2>2, <2>3, <1>13, <1>16 DEF Rests
  <2>5. q.c = "luaD_call" => F2[a].fn # "lua"
    BY <1>7, <1>15, <1>16
  <2>6. q.c = "lua_resume" => \A p \in 1 .. a - 1 : Unrollable(F2[p])
    BY <2>3, <1>13, <1>16 DEF Rests
  <2> QED BY <2>2, <2>4, <2>5, <2>6, <1>7, <1>14, <1>16 DEF Rests
<1>18. ReturnsTo(k, from, F2)
  <2>1. q.ci <= Len(F2)
    BY <1>6, <1>7, <1>16
  <2>2. \A p \in 1 .. q.ci : F2[p] = g[p]
    <3>1. \A p \in 1 .. q.ci : p \in 1 .. a - 1
      BY <1>6, <1>7
    <3> QED BY <3>1, <1>16
  <2> QED BY <2>1, <2>2, <1>17 DEF ReturnsTo, q, g
<1>19. Ready(q, F2, "no")
  BY <1>7, <1>14, <1>15, <1>16 DEF Ready
<1>20. cstack' = SubSeq(cstack, 1, k) /\ Ready(cstack[k], F2, "no") /\ "no" \in {"no", "errormsg", "throw"}
  BY <1>19 DEF k, q
<1> HIDE DEF from
<1>21. k \in 1 .. Len(cstack) /\ F2 \in Seq(CallInfo) /\ raise' = "no"
  BY <1>4, <1>16
<1> QED BY <1>12, <1>18, <1>20, <1>21, ReturnStep

LEMMA CoroutineEndsShaped == ASSUME Shaped, CoroutineEnds, Same PROVE Shaped'
<1>1. /\ Unrolls /\ cstack' = Front(cstack) /\ raise' = "no"
      /\ ci' = [ci EXCEPT ![Last(Front(cstack)).th] = SetTop(@, "back")]
  BY DEF CoroutineEnds, LeaveResume
<1>2. cstack # <<>> /\ Act.c = "lua_resume"
  BY <1>1, UnrollFacts
<1>3. /\ Depth \in 1 .. Depth /\ Depth = Len(cstack) /\ cstack[Depth].c = "lua_resume"
      /\ cstack \in Seq(Entry)
  BY <1>2, ActFacts DEF Shaped, StackTypes, Depth
<1>4. SubSeq(cstack, 1, Depth) = cstack
  BY <1>3, WholeSequence
<1>5. Front(cstack) = SubSeq(cstack, 1, Depth - 1)
  BY <1>3, <1>4, FrontPrefix
<1> DEFINE rest == Front(cstack)
<1>6. /\ rest = SubSeq(cstack, 1, Depth - 1) /\ cstack' = rest
      /\ ci' = [ci EXCEPT ![Last(rest).th] = SetTop(@, "back")] /\ "back" \in Resting
  BY <1>1, <1>5 DEF Resting
<1> HIDE DEF rest
<1> QED BY <1>1, <1>3, <1>6, LeaveResumeStep

LEMMA CoroutineFailsShaped == ASSUME Shaped, CoroutineFails, Same PROVE Shaped'
<1> DEFINE rest == SubSeq(cstack, 1, Setjmp - 1)
<1>1. /\ raise = "throw" /\ Jmp.c = "lua_resume" /\ cstack' = rest /\ raise' = "no"
      /\ ci' = [ci EXCEPT ![Last(rest).th] = SetTop(@, "failed")]
  BY DEF CoroutineFails
<1>2. cstack # <<>>
  BY <1>1, Raised
<1>3. Setjmp \in 1 .. Depth /\ cstack[Setjmp].c = "lua_resume" /\ "failed" \in Resting
  BY <1>1, <1>2, SetjmpFacts DEF Jmp, Resting
<1>4. rest = SubSeq(cstack, 1, Setjmp - 1)
  OBVIOUS
<1> HIDE DEF rest
<1> QED BY <1>1, <1>3, <1>4, LeaveResumeStep

LEMMA YieldShaped == ASSUME Shaped, Yield, Same PROVE Shaped'
<1> DEFINE rest == SubSeq(cstack, 1, Setjmp - 1)
<1>1. /\ RunsC("yield") /\ Jmp.c = "lua_resume" /\ cstack' = rest /\ raise' = raise
      /\ ci' = [ci EXCEPT ![Last(rest).th] = SetTop(@, "back")]
  BY DEF Yield
<1>2. cstack # <<>> /\ raise = "no"
  BY <1>1 DEF RunsC, Running
<1>3. Setjmp \in 1 .. Depth /\ cstack[Setjmp].c = "lua_resume" /\ "back" \in Resting
  BY <1>1, <1>2, SetjmpFacts DEF Jmp, Resting
<1>4. rest = SubSeq(cstack, 1, Setjmp - 1) /\ raise' = "no"
  BY <1>1, <1>2
<1> HIDE DEF rest
<1> QED BY <1>1, <1>3, <1>4, LeaveResumeStep

LEMMA GreatestNumber ==
    ASSUME NEW N \in Nat, NEW T, T \subseteq 1 .. N, T # {}
    PROVE  \E n \in T : \A m \in T : m <= n
<1> DEFINE U == {m \in 0 .. N : N - m \in T}
<1>1. PICK t \in T : TRUE
  OBVIOUS
<1>2. N - t \in U
  <2>1. t \in 1 .. N
    BY <1>1
  <2>2. N - t \in 0 .. N /\ N - (N - t) = t
    BY <2>1
  <2> QED BY <2>2, <1>1
<1>3. U \subseteq Nat
  <2>1. \A m \in 0 .. N : m \in Nat
    OBVIOUS
  <2> QED BY <2>1
<1>4. PICK u \in U : \A m \in U : u <= m
  BY <1>2, <1>3, LeastNumber
<1>5. N - u \in T /\ u \in 0 .. N
  BY <1>4
<1>6. ASSUME NEW m \in T PROVE m <= N - u
  <2>1. m \in 1 .. N
    BY <1>6
  <2>2. N - m \in 0 .. N /\ N - (N - m) = m
    BY <2>1
  <2>3. N - m \in U
    BY <2>2, <1>6
  <2>4. u <= N - m
    BY <2>3, <1>4
  <2> QED BY <2>1, <2>4, <1>5
<1> QED BY <1>5, <1>6

(* What recover finds, and that everything below it can be continued.      *)
LEMMA RecoverFacts ==
    ASSUME Shaped, raise # "no", PCalls(ci[L]) # {},
           NEW n, n = CHOOSE i \in PCalls(ci[L]) : \A j \in PCalls(ci[L]) : j <= i
    PROVE  /\ n \in 1 .. Size /\ ci[L][n].ypcall /\ \A j \in PCalls(ci[L]) : j <= n
           /\ \A p \in 1 .. n - 1 : Unrollable(ci[L][p])
<1> DEFINE F == ci[L]
           a == Size
<1>1. cstack # <<>> /\ (a > Act.ci => ~F[a].ypcall)
  BY Raised
<1>2. /\ Act \in Entry /\ Act.ci \in Nat /\ F \in Seq(CallInfo) /\ a \in Nat /\ a = Len(F)
      /\ Act.ci <= a /\ \A p \in 1 .. a : F[p] \in CallInfo
      /\ Act.c \in {"luaV_execute", "luaD_call", "lua_resume"} /\ Rests(Act, F)
      /\ L = Act.th /\ Act = cstack[Len(cstack)] /\ Len(cstack) \in 1 .. Len(cstack)
  BY <1>1, ActFacts DEF Size, Depth
<1>3. \E i \in PCalls(F) : \A j \in PCalls(F) : j <= i
  <2> DEFINE P == PCalls(F)
  <2>1. P \subseteq 1 .. a
    BY SMTT(30), <1>2 DEF PCalls
  <2> HIDE DEF P
  <2>2. P # {}
    BY DEF P
  <2>3. \E i \in P : \A j \in P : j <= i
    BY <1>2, <2>1, <2>2, GreatestNumber
  <2> QED BY <2>3 DEF P
<1>4. n \in PCalls(F) /\ \A j \in PCalls(F) : j <= n
  BY <1>3, Zenon
<1>5. n \in 1 .. a /\ F[n].ypcall
  <2>1. n \in DOMAIN F /\ F[n].ypcall
    BY <1>4, Zenon DEF PCalls
  <2>2. DOMAIN F = 1 .. a
    BY <1>2
  <2> QED BY <2>1, <2>2
<1>6. \A p \in 1 .. n - 1 : Unrollable(F[p])
  <2>1. CASE n <= Act.ci
    <3>1. Protects(cstack, ci, Len(cstack))
      BY <1>2 DEF Shaped, Shape
    <3>2. n \in 1 .. Act.ci
      BY <1>2, <1>5, <2>1
    <3> QED BY <3>1, <3>2, <1>2, <1>5 DEF Protects
  <2>2. CASE n > Act.ci
    <3>1. n # a
      BY <1>1, <1>5, <2>2
    <3>2. n \in 1 .. a - 1 /\ n \in Act.ci + 1 .. a - 1 /\ ~(a <= Act.ci + 1)
      BY <1>2, <1>5, <2>2, <3>1
    <3>3. F[n].fn # "lua"
      BY <1>2, <1>5, FrameFields
    <3>4. Act.c # "luaV_execute"
      BY <1>2, <3>2, <3>3 DEF Rests
    <3>5. Act.c # "luaD_call"
      BY <1>2, <3>2 DEF Rests
    <3>6. \A p \in 1 .. a - 1 : Unrollable(F[p])
      BY <1>2, <3>4, <3>5 DEF Rests
    <3>7. \A p \in 1 .. n - 1 : p \in 1 .. a - 1
      BY <1>2, <3>2
    <3> QED BY <3>6, <3>7
  <2> QED BY <2>1, <2>2, <1>2, <1>5
<1> QED BY <1>4, <1>5, <1>6

LEMMA RecoverShaped == ASSUME Shaped, Recover, Same PROVE Shaped'
<1> DEFINE F == ci[L]
           n == CHOOSE i \in PCalls(ci[L]) : \A j \in PCalls(ci[L]) : j <= i
           f == F[n]
           fr == [f EXCEPT !.st = "caught", !.ypcall = FALSE]
           G == SubSeq(F, 1, n - 1)
           F2 == Append(G, fr)
           k == Setjmp
<1>1. /\ raise = "throw" /\ Jmp.c = "lua_resume" /\ PCalls(ci[L]) # {}
      /\ ci' = [ci EXCEPT ![L] = F2] /\ cstack' = SubSeq(cstack, 1, k) /\ raise' = "no"
  BY DEF Recover
<1>2. n \in 1 .. Size /\ f.ypcall /\ \A p \in 1 .. n - 1 : Unrollable(F[p])
  BY <1>1, RecoverFacts
<1> HIDE DEF n
<1>3. cstack # <<>>
  BY <1>1, Raised
<1>4. /\ F \in Seq(CallInfo) /\ Size \in Nat /\ Size = Len(F) /\ \A p \in 1 .. Size : F[p] \in CallInfo
      /\ Depth \in Nat /\ Depth = Len(cstack) /\ cstack \in Seq(Entry)
  BY <1>3, ActFacts DEF Size, Depth, Shaped, StackTypes
<1>5. k \in 1 .. Depth /\ k \in 1 .. Len(cstack) /\ Jmp = cstack[k] /\ cstack[k].th = L
  <2>1. k \in 1 .. Depth /\ \A i \in k .. Depth : cstack[i].th = L
    BY <1>3, SetjmpFacts
  <2>2. k \in k .. Depth
    BY <1>4, <2>1
  <2> QED BY <2>1, <2>2, <1>4 DEF Jmp
<1> HIDE DEF k, F
<1>6. Jmp \in Entry /\ Jmp.ci = 0
  <2>1. Jmp \in Entry
    BY <1>4, <1>5
  <2> QED BY <2>1, <1>1, EntryFields
<1>7. f \in CallInfo
  BY <1>2, <1>4
<1>8. G \in Seq(CallInfo) /\ Len(G) = n - 1 /\ \A p \in 1 .. n - 1 : G[p] = F[p]
  <2>1. n - 1 \in 0 .. Len(F)
    BY <1>2, <1>4
  <2> QED BY <2>1, <1>4, PrefixFacts
<1> HIDE DEF f
<1>9. fr \in CallInfo /\ fr.st = "caught" /\ fr.fn = f.fn
  BY <1>2, <1>7, FrameFields DEF CallInfo, LuaStates, Resting
<1> HIDE DEF fr, G
<1>10. /\ F2 \in Seq(CallInfo) /\ Len(F2) = n /\ F2[n] = fr /\ n \in Nat
       /\ \A p \in 1 .. n - 1 : F2[p] = F[p]
  BY <1>2, <1>4, <1>8, <1>9
<1> HIDE DEF F2
<1>11. Rests(Jmp, F2)
  BY <1>1, <1>2, <1>6, <1>10 DEF Rests
<1>12. Ready(Jmp, F2, "no")
  BY <1>1, <1>9, <1>10 DEF Ready, Resting
<1>13. ReturnsTo(k, L, F2)
  <2>1. Jmp.ci <= Len(F2) /\ \A p \in 1 .. Jmp.ci : F2[p] = ci[L][p]
    BY <1>6, <1>10
  <2> QED BY <2>1, <1>5, <1>11 DEF ReturnsTo
<1>14. Ready(cstack[k], F2, "no") /\ "no" \in {"no", "errormsg", "throw"}
  BY <1>5, <1>12
<1> QED BY <1>1, <1>5, <1>10, <1>13, <1>14, ReturnStep

==============================================================================
