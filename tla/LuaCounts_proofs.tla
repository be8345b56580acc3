---------------------------- MODULE LuaCounts_proofs ---------------------------
(***************************************************************************)
(* What the fields of the threads say of the stacks, for all limits and    *)
(* any number of coroutines: the counters of C calls, whether hooks and    *)
(* yields are allowed, the message handler, and where an error goes.       *)
(*                                                                         *)
(* On top of the shape of the stacks are the threads that wait (Threads)   *)
(* and what the fields are the sums of (Counts), with the values that an   *)
(* activation saved right for the stack below it.                          *)
(***************************************************************************)
EXTENDS LuaCalls_proofs

-----------------------------------------------------------------------------
(* Counting the activations                                                *)

IsCall(r) == r.c \in {"luaD_call", "lua_resume"}
TurnsOff(r) == \/ r.c = "luaD_call" /\ r.caller = "hook"
               \/ r.c = "luaD_pcall" /\ r.gc
One(b) == IF b THEN 1 ELSE 0

LEMMA CountStep ==
    ASSUME NEW cs, NEW th, NEW n \in Nat, n > 0
    PROVE  /\ Cardinality(CallsTo(cs, n)) = Cardinality(CallsTo(cs, n - 1)) + One(IsCall(cs[n]))
           /\ Cardinality(ForbidsTo(cs, th, n))
                = Cardinality(ForbidsTo(cs, th, n - 1)) + One(cs[n].th = th /\ Forbids(cs[n]))
           /\ HooksOff(cs, th, n) <=> \/ HooksOff(cs, th, n - 1)
                                      \/ cs[n].th = th /\ TurnsOff(cs[n])
<1>1. n \in 1 .. n /\ n - 1 \in Nat /\ \A i : i \in 1 .. n <=> i \in 1 .. n - 1 \/ i = n
  OBVIOUS
<1>1a. n \notin 1 .. n - 1
  OBVIOUS
<1>2. /\ IsFiniteSet(CallsTo(cs, n - 1)) /\ n \notin CallsTo(cs, n - 1)
      /\ Cardinality(CallsTo(cs, n - 1)) \in Nat
      /\ IsFiniteSet(ForbidsTo(cs, th, n - 1)) /\ n \notin ForbidsTo(cs, th, n - 1)
      /\ Cardinality(ForbidsTo(cs, th, n - 1)) \in Nat
  <2>1. n \notin CallsTo(cs, n - 1) /\ n \notin ForbidsTo(cs, th, n - 1)
    BY <1>1a DEF CallsTo, ForbidsTo
  <2> QED BY <2>1, <1>1, SetsFinite
<1>3. Cardinality(CallsTo(cs, n)) = Cardinality(CallsTo(cs, n - 1)) + One(IsCall(cs[n]))
  <2>1. CASE IsCall(cs[n])
    <3>1. CallsTo(cs, n) = CallsTo(cs, n - 1) \cup {n}
      BY <1>1, <2>1 DEF CallsTo, IsCall
    <3> QED BY <3>1, <2>1, <1>2, FS_AddElement DEF One
  <2>2. CASE ~IsCall(cs[n])
    <3>1. CallsTo(cs, n) = CallsTo(cs, n - 1)
      BY <1>1, <2>2 DEF CallsTo, IsCall
    <3> QED BY <3>1, <2>2, <1>2 DEF One
  <2> QED BY <2>1, <2>2
<1>4. Cardinality(ForbidsTo(cs, th, n))
        = Cardinality(ForbidsTo(cs, th, n - 1)) + One(cs[n].th = th /\ Forbids(cs[n]))
  <2>1. CASE cs[n].th = th /\ Forbids(cs[n])
    <3>1. ForbidsTo(cs, th, n) = ForbidsTo(cs, th, n - 1) \cup {n}
      BY <1>1, <2>1 DEF ForbidsTo
    <3> QED BY <3>1, <2>1, <1>2, FS_AddElement DEF One
  <2>2. CASE ~(cs[n].th = th /\ Forbids(cs[n]))
    <3>1. ForbidsTo(cs, th, n) = ForbidsTo(cs, th, n - 1)
      BY <1>1, <2>2 DEF ForbidsTo
    <3> QED BY <3>1, <2>2, <1>2 DEF One
  <2> QED BY <2>1, <2>2
<1>5. HooksOff(cs, th, n) <=> HooksOff(cs, th, n - 1) \/ (cs[n].th = th /\ TurnsOff(cs[n]))
  BY <1>1 DEF HooksOff, TurnsOff
<1> QED BY <1>3, <1>4, <1>5

LEMMA CountSame ==
    ASSUME NEW cs, NEW cs2, NEW th, NEW n \in Nat, \A i \in 1 .. n : cs2[i] = cs[i]
    PROVE  /\ CallsTo(cs2, n) = CallsTo(cs, n) /\ ForbidsTo(cs2, th, n) = ForbidsTo(cs, th, n)
           /\ HooksOff(cs2, th, n) <=> HooksOff(cs, th, n)
           /\ n > 0 => (Remembers(cs2, n) <=> Remembers(cs, n))
<1>1. CallsTo(cs2, n) = CallsTo(cs, n) /\ ForbidsTo(cs2, th, n) = ForbidsTo(cs, th, n)
  BY DEF CallsTo, ForbidsTo
<1>2. HooksOff(cs2, th, n) <=> HooksOff(cs, th, n)
  BY DEF HooksOff
<1>3. ASSUME n > 0 PROVE Remembers(cs2, n) <=> Remembers(cs, n)
  <2> DEFINE t == cs[n].th
  <2>1. \A i \in 1 .. n - 1 : cs2[i] = cs[i]
    OBVIOUS
  <2>2. cs2[n] = cs[n]
    BY <1>3
  <2>3. /\ CallsTo(cs2, n - 1) = CallsTo(cs, n - 1)
        /\ ForbidsTo(cs2, t, n - 1) = ForbidsTo(cs, t, n - 1)
        /\ HooksOff(cs2, t, n - 1) <=> HooksOff(cs, t, n - 1)
    BY <2>1 DEF CallsTo, ForbidsTo, HooksOff
  <2> QED BY <2>2, <2>3, <1>1 DEF Remembers
<1> QED BY <1>1, <1>2, <1>3

(* An activation r is added.                                               *)
Together(cs, th) ==
    \A i \in 1 .. Len(cs) : cs[i].th = th => \A l \in i .. Len(cs) : cs[l].th = th

Adds(cs, nc, ny, ah, st, r, nc2, ny2, ah2, st2) ==
    LET th == r.th  n == Len(cs) IN
    /\ CountsOf(cs, nc, ny, ah, st) /\ Together(cs, th)
    /\ \A t \in Thread : t # th => nc2[t] = nc[t] /\ ny2[t] = ny[t] /\ ah2[t] = ah[t] /\ st2[t] = st[t]
    /\ nc2[th] = Cardinality(CallsTo(cs, n)) + One(IsCall(r))
    /\ ny2[th] = One(th = Main) + Cardinality(ForbidsTo(cs, th, n)) + One(Forbids(r))
    /\ st2[th] # "error" => ah2[th] = ~(HooksOff(cs, th, n) \/ TurnsOff(r))
    /\ Remembers(Append(cs, r), n + 1)

LEMMA PushCounts ==
    ASSUME NEW cs \in Seq(Entry), NEW nc, NEW ny, NEW ah, NEW st, NEW r \in Entry,
           NEW nc2, NEW ny2, NEW ah2, NEW st2, Adds(cs, nc, ny, ah, st, r, nc2, ny2, ah2, st2)
    PROVE  CountsOf(Append(cs, r), nc2, ny2, ah2, st2) /\ Together(Append(cs, r), r.th)
<1> DEFINE n == Len(cs)
           cs2 == Append(cs, r)
           th == r.th
<1>1. /\ n \in Nat /\ cs2 \in Seq(Entry) /\ Len(cs2) = n + 1 /\ cs2[n + 1] = r
      /\ \A i \in 1 .. n : cs2[i] = cs[i] /\ cs[i] \in Entry
      /\ n + 1 > 0 /\ (n + 1) - 1 = n /\ \A i \in 1 .. n + 1 : i \in 1 .. n \/ i = n + 1
  OBVIOUS
<1>2. th \in Thread /\ \A i \in 1 .. n : cs[i].th \in Thread
  BY <1>1, EntryFields
<1> HIDE DEF n, cs2
<1>3. \A i \in 1 .. n : \A l \in 1 .. i : cs2[l] = cs[l]
  BY <1>1
<1>4. ASSUME NEW i \in 0 .. n, NEW t
      PROVE  /\ CallsTo(cs2, i) = CallsTo(cs, i) /\ ForbidsTo(cs2, t, i) = ForbidsTo(cs, t, i)
             /\ HooksOff(cs2, t, i) <=> HooksOff(cs, t, i)
             /\ i > 0 => (Remembers(cs2, i) <=> Remembers(cs, i))
  <2>1. i \in Nat /\ \A l \in 1 .. i : cs2[l] = cs[l]
    BY <1>1
  <2> QED BY <2>1, CountSame
<1>5. ASSUME NEW t
      PROVE  /\ Cardinality(CallsTo(cs2, n + 1)) = Cardinality(CallsTo(cs, n)) + One(IsCall(r))
             /\ Cardinality(ForbidsTo(cs2, t, n + 1))
                  = Cardinality(ForbidsTo(cs, t, n)) + One(th = t /\ Forbids(r))
             /\ HooksOff(cs2, t, n + 1) <=> HooksOff(cs, t, n) \/ (th = t /\ TurnsOff(r))
  <2>1. n \in 0 .. n /\ n + 1 \in Nat
    BY <1>1
  <2>2. /\ CallsTo(cs2, n) = CallsTo(cs, n) /\ ForbidsTo(cs2, t, n) = ForbidsTo(cs, t, n)
        /\ HooksOff(cs2, t, n) <=> HooksOff(cs, t, n)
    BY <2>1, <1>4
  <2>3. /\ Cardinality(CallsTo(cs2, n + 1)) = Cardinality(CallsTo(cs2, n)) + One(IsCall(r))
        /\ Cardinality(ForbidsTo(cs2, t, n + 1))
             = Cardinality(ForbidsTo(cs2, t, n)) + One(th = t /\ Forbids(r))
        /\ HooksOff(cs2, t, n + 1) <=> HooksOff(cs2, t, n) \/ (th = t /\ TurnsOff(r))
    <3> DEFINE m == n + 1
    <3>1. m \in Nat /\ m > 0 /\ m - 1 = n /\ cs2[m] = r
      BY <1>1
    <3> HIDE DEF m
    <3>2. /\ Cardinality(CallsTo(cs2, m)) = Cardinality(CallsTo(cs2, m - 1)) + One(IsCall(cs2[m]))
          /\ Cardinality(ForbidsTo(cs2, t, m))
               = Cardinality(ForbidsTo(cs2, t, m - 1)) + One(cs2[m].th = t /\ Forbids(cs2[m]))
          /\ HooksOff(cs2, t, m) <=> HooksOff(cs2, t, m - 1) \/ (cs2[m].th = t /\ TurnsOff(cs2[m]))
      BY <3>1, CountStep
    <3>3. /\ Cardinality(CallsTo(cs2, m)) = Cardinality(CallsTo(cs2, n)) + One(IsCall(r))
          /\ Cardinality(ForbidsTo(cs2, t, m))
               = Cardinality(ForbidsTo(cs2, t, n)) + One(th = t /\ Forbids(r))
          /\ HooksOff(cs2, t, m) <=> HooksOff(cs2, t, n) \/ (th = t /\ TurnsOff(r))
      BY <3>1, <3>2
    <3> QED BY <3>3 DEF m
  <2> QED BY <2>2, <2>3
<1>6. /\ CountsOf(cs, nc, ny, ah, st) /\ Together(cs, th)
      /\ \A t \in Thread : t # th => nc2[t] = nc[t] /\ ny2[t] = ny[t] /\ ah2[t] = ah[t] /\ st2[t] = st[t]
      /\ nc2[th] = Cardinality(CallsTo(cs, n)) + One(IsCall(r))
      /\ ny2[th] = One(th = Main) + Cardinality(ForbidsTo(cs, th, n)) + One(Forbids(r))
      /\ st2[th] # "error" => ah2[th] = ~(HooksOff(cs, th, n) \/ TurnsOff(r))
      /\ Remembers(cs2, n + 1)
  BY DEF Adds, n, cs2
<1>7. Together(cs2, th)
  <2> SUFFICES ASSUME NEW i \in 1 .. n + 1, cs2[i].th = th, NEW l \in i .. n + 1 PROVE cs2[l].th = th
    BY <1>1 DEF Together
  <2>1. CASE l = n + 1
    BY <2>1, <1>1
  <2>2. CASE l # n + 1
    <3>1. i \in 1 .. n /\ l \in i .. n /\ l \in 1 .. n
      BY <2>2, <1>1
    <3> QED BY <3>1, <1>1, <1>6 DEF Together, n
  <2> QED BY <2>1, <2>2
<1>8. ASSUME NEW i \in 1 .. n + 1, i = n + 1 \/ cs2[i + 1].th # cs2[i].th
      PROVE  nc2[cs2[i].th] = Cardinality(CallsTo(cs2, i))
  <2>1. CASE i = n + 1
    BY <2>1, <1>1, <1>5, <1>6
  <2>2. CASE i # n + 1
    <3>1. i \in 1 .. n /\ i \in 0 .. n /\ i + 1 \in i .. n + 1 /\ i < n + 1
      BY <2>2, <1>1
    <3>2. cs2[i] = cs[i] /\ cs2[i + 1].th # cs[i].th
      BY <3>1, <1>1, <1>8
    <3>3. cs[i].th # th
      BY <3>1, <3>2, <1>1, <1>7 DEF Together
    <3>4. i = n \/ cs[i + 1].th # cs[i].th
      <4>1. i # n => i + 1 \in 1 .. n
        BY <3>1, <1>1
      <4> QED BY <4>1, <3>2, <1>1
    <3>5. nc[cs[i].th] = Cardinality(CallsTo(cs, i))
      BY <3>1, <3>4, <1>6 DEF CountsOf, n
    <3> QED BY <3>1, <3>2, <3>3, <3>5, <1>2, <1>4, <1>6
  <2> QED BY <2>1, <2>2
<1>9. ASSUME NEW t \in Thread
      PROVE  /\ ny2[t] = Base(cs2, t) + Cardinality(ForbidsTo(cs2, t, n + 1))
             /\ st2[t] # "error" => ah2[t] = ~HooksOff(cs2, t, n + 1)
  <2>0. Cardinality(ForbidsTo(cs, t, n)) \in Nat
    BY <1>1, SetsFinite
  <2>1. CASE t = th
    <3>1. Base(cs2, t) = One(th = Main)
      <4>1. n + 1 \in 1 .. Len(cs2) /\ cs2[n + 1].th = th
        BY <1>1
      <4> QED BY <4>1, <2>1 DEF Base, One
    <3>2. One(th = Main) \in Nat /\ One(Forbids(r)) \in Nat
      BY DEF One
    <3>3. /\ Cardinality(ForbidsTo(cs2, t, n + 1))
               = Cardinality(ForbidsTo(cs, t, n)) + One(Forbids(r))
          /\ HooksOff(cs2, t, n + 1) <=> HooksOff(cs, t, n) \/ TurnsOff(r)
      <4>1. One(th = t /\ Forbids(r)) = One(Forbids(r)) /\ (th = t /\ TurnsOff(r) <=> TurnsOff(r))
        BY <2>1 DEF One
      <4> QED BY <4>1, <1>5
    <3> QED BY <2>0, <2>1, <3>1, <3>2, <3>3, <1>6
  <2>2. CASE t # th
    <3>1. Base(cs2, t) = Base(cs, t)
      <4>1. (\A i \in 1 .. Len(cs2) : cs2[i].th # t) <=> (\A i \in 1 .. Len(cs) : cs[i].th # t)
        BY <1>1, <2>2 DEF n
      <4> QED BY <4>1 DEF Base
    <3>2. /\ Cardinality(ForbidsTo(cs2, t, n + 1)) = Cardinality(ForbidsTo(cs, t, n))
          /\ HooksOff(cs2, t, n + 1) <=> HooksOff(cs, t, n)
      BY <2>0, <2>2, <1>5 DEF One
    <3>3. /\ ny[t] = Base(cs, t) + Cardinality(ForbidsTo(cs, t, n))
          /\ st[t] # "error" => ah[t] = ~HooksOff(cs, t, n)
      BY <1>6 DEF CountsOf, n
    <3> QED BY <2>2, <3>1, <3>2, <3>3, <1>6
  <2> QED BY <2>1, <2>2
<1>10. ASSUME NEW i \in 1 .. n + 1 PROVE Remembers(cs2, i)
  <2>1. CASE i = n + 1
    BY <2>1, <1>6
  <2>2. CASE i # n + 1
    <3>1. i \in 1 .. n /\ i \in 0 .. n /\ i > 0
      BY <2>2, <1>1
    <3>2. Remembers(cs, i)
      BY <3>1, <1>6 DEF CountsOf, n
    <3> QED BY <3>1, <3>2, <1>4
  <2> QED BY <2>1, <2>2
<1>11. CountsOf(cs2, nc2, ny2, ah2, st2)
  BY <1>1, <1>8, <1>9, <1>10 DEF CountsOf
<1> QED BY <1>7, <1>11 DEF cs2

(* The thread that runs gets another activation.                           *)
AddsTop(cs, nc, ny, ah, st, r, nc2, ny2, ah2) ==
    LET th == r.th IN
    /\ cs # <<>> /\ th = cs[Len(cs)].th /\ r.c # "lua_resume"
    /\ CountsOf(cs, nc, ny, ah, st) /\ Together(cs, th) /\ st[th] # "error"
    /\ nc \in [Thread -> Nat] /\ ny \in [Thread -> Nat]
    /\ nc2 = [nc EXCEPT ![th] = nc[th] + One(IsCall(r))]
    /\ ny2 = [ny EXCEPT ![th] = ny[th] + One(Forbids(r))]
    /\ \A t \in Thread : t # th => ah2[t] = ah[t]
    /\ ah2[th] = (ah[th] /\ ~TurnsOff(r))
    /\ r.c = "luaD_pcall" => r.nCcalls = nc[th] /\ r.nny = ny[th] /\ r.allowhook = ah[th]
    /\ r.c = "luaD_call" /\ r.caller = "hook" => ah[th]

LEMMA PushTop ==
    ASSUME NEW cs \in Seq(Entry), NEW nc, NEW ny, NEW ah, NEW st, NEW r \in Entry,
           NEW nc2, NEW ny2, NEW ah2, AddsTop(cs, nc, ny, ah, st, r, nc2, ny2, ah2)
    PROVE  /\ CountsOf(Append(cs, r), nc2, ny2, ah2, st) /\ Together(Append(cs, r), r.th)
           /\ nc2 \in [Thread -> Nat] /\ ny2 \in [Thread -> Nat]
<1> DEFINE th == r.th
           n == Len(cs)
           cs2 == Append(cs, r)
<1>1. /\ cs # <<>> /\ th = cs[n].th /\ r.c # "lua_resume"
      /\ CountsOf(cs, nc, ny, ah, st) /\ Together(cs, th) /\ st[th] # "error"
      /\ nc \in [Thread -> Nat] /\ ny \in [Thread -> Nat]
      /\ nc2 = [nc EXCEPT ![th] = nc[th] + One(IsCall(r))]
      /\ ny2 = [ny EXCEPT ![th] = ny[th] + One(Forbids(r))]
      /\ \A t \in Thread : t # th => ah2[t] = ah[t]
      /\ ah2[th] = (ah[th] /\ ~TurnsOff(r))
      /\ r.c = "luaD_pcall" => r.nCcalls = nc[th] /\ r.nny = ny[th] /\ r.allowhook = ah[th]
      /\ r.c = "luaD_call" /\ r.caller = "hook" => ah[th]
  BY DEF AddsTop
<1>2. n \in Nat /\ n \in 1 .. n /\ n + 1 # 0 /\ (n + 1) - 1 = n /\ th \in Thread
      /\ cs2[n + 1] = r /\ \A i \in 1 .. n : cs2[i] = cs[i]
  BY <1>1, EntryFields
<1>3. /\ nc[th] = Cardinality(CallsTo(cs, n))
      /\ ny[th] = Base(cs, th) + Cardinality(ForbidsTo(cs, th, n))
      /\ ah[th] = ~HooksOff(cs, th, n)
  <2>1. /\ CountsOf(cs, nc, ny, ah, st) /\ st[th] # "error"
        /\ cs # <<>> /\ th = cs[n].th /\ n \in 1 .. n /\ th \in Thread
    BY <1>1, <1>2
  <2>2. nc[th] = Cardinality(CallsTo(cs, n))
    BY <2>1 DEF CountsOf
  <2>3. ny[th] = Base(cs, th) + Cardinality(ForbidsTo(cs, th, n))
    BY <2>1 DEF CountsOf
  <2>4. ah[th] = ~HooksOff(cs, th, n)
    BY <2>1 DEF CountsOf
  <2> QED BY <2>2, <2>3, <2>4
<1>4. Base(cs, th) = One(th = Main)
  <2>1. ~(\A i \in 1 .. Len(cs) : cs[i].th # th)
    BY <1>1, <1>2
  <2> QED BY <2>1 DEF Base, One
<1>5. nc[th] \in Nat /\ ny[th] \in Nat /\ One(IsCall(r)) \in Nat /\ One(Forbids(r)) \in Nat
  BY <1>1, <1>2 DEF One
<1>6. nc2 \in [Thread -> Nat] /\ ny2 \in [Thread -> Nat]
  <2>1. nc[th] + One(IsCall(r)) \in Nat /\ ny[th] + One(Forbids(r)) \in Nat
    BY <1>5
  <2> QED BY <2>1, <1>1, <1>2
<1>7. /\ nc2[th] = Cardinality(CallsTo(cs, n)) + One(IsCall(r))
      /\ ny2[th] = One(th = Main) + Cardinality(ForbidsTo(cs, th, n)) + One(Forbids(r))
      /\ \A t \in Thread : t # th => nc2[t] = nc[t] /\ ny2[t] = ny[t]
  BY <1>1, <1>2, <1>3, <1>4
<1>8. ah2[th] = ~(HooksOff(cs, th, n) \/ TurnsOff(r))
  BY <1>1, <1>3
<1> HIDE DEF n, cs2
<1>9. Remembers(cs2, n + 1)
  <2>1. /\ CallsTo(cs2, n) = CallsTo(cs, n) /\ ForbidsTo(cs2, th, n) = ForbidsTo(cs, th, n)
        /\ HooksOff(cs2, th, n) <=> HooksOff(cs, th, n)
    <3>1. n \in Nat /\ \A i \in 1 .. n : cs2[i] = cs[i]
      BY <1>2
    <3> QED BY <3>1, CountSame
  <2> DEFINE m == n + 1
  <2>2. m - 1 = n /\ cs2[m] = r
    BY <1>2
  <2> HIDE DEF m
  <2>3. r.c = "luaD_pcall" => /\ r.nCcalls = Cardinality(CallsTo(cs2, n))
                              /\ r.nny = One(th = Main) + Cardinality(ForbidsTo(cs2, th, n))
                              /\ r.allowhook = ~HooksOff(cs2, th, n)
    BY <2>1, <1>1, <1>3, <1>4
  <2>4. r.c = "luaD_call" /\ r.caller = "hook" => ~HooksOff(cs2, th, n)
    BY <2>1, <1>1, <1>3
  <2>5. Remembers(cs2, m)
    BY <2>2, <2>3, <2>4, <1>1 DEF Remembers, One
  <2> QED BY <2>5 DEF m
<1>10. Adds(cs, nc, ny, ah, st, r, nc2, ny2, ah2, st)
  BY <1>1, <1>7, <1>8, <1>9 DEF Adds, n, cs2
<1> QED BY <1>6, <1>10, PushCounts

(* The thread that runs has the last activations.                          *)
LEMMA LastTogether ==
    ASSUME Shaped, cstack # <<>>
    PROVE  Together(cstack, L)
<1>1. /\ Depth \in 1 .. Len(cstack) /\ Len(cstack) = Depth /\ L = cstack[Depth].th /\ Depth \in Nat
  BY ActFacts DEF Depth, Act
<1>2. Apart(cstack, Depth)
  BY <1>1 DEF Shaped, Shape
<1>3. ASSUME NEW i \in 1 .. Depth, cstack[i].th = L, NEW l \in i .. Depth PROVE cstack[l].th = L
  <2>1. CASE l = i
    BY <2>1, <1>3
  <2>2. CASE l # i
    <3>1. i \in 1 .. Depth - 1 /\ l \in i + 1 .. Depth
      BY <2>2, <1>1
    <3> QED BY <3>1, <1>1, <1>2, <1>3 DEF Apart
  <2> QED BY <2>1, <2>2
<1> QED BY <1>1, <1>3 DEF Together

Calling(cs, ah, caller) ==
    /\ cs # <<>> /\ cs[Len(cs)].th = L /\ L \in Thread
    /\ CountsOf(cs, nCcalls, nny, ah, status) /\ Together(cs, L) /\ status[L] = "LUA_OK"
    /\ nCcalls \in [Thread -> Nat] /\ nny \in [Thread -> Nat]
    /\ caller = "hook" => ah[L]

LEMMA CallCounts ==
    ASSUME NEW cs \in Seq(Entry), NEW frames, Len(frames) \in Nat, NEW noyield \in BOOLEAN,
           NEW caller \in {"meta", "hook", "handler", "function"}, NEW fn,
           NEW ah, Calling(cs, ah, caller), Call(frames, cs, noyield, caller, fn),
           NEW ah2, \A t \in Thread : t # L => ah2[t] = ah[t], ah2[L] = (ah[L] /\ caller # "hook")
    PROVE  /\ CountsOf(cstack', nCcalls', nny', ah2, status')
           /\ nCcalls' \in [Thread -> Nat] /\ nny' \in [Thread -> Nat]
           /\ cstack' \in Seq(Entry) /\ Together(cstack', L)
<1> DEFINE k == Len(frames)
           r == DCall(k, noyield, caller)
           e == Execute(k)
           nc2 == [nCcalls EXCEPT ![L] = nCcalls[L] + 1]
           ny2 == [nny EXCEPT ![L] = IF noyield THEN @ + 1 ELSE @]
           cs1 == Append(cs, r)
<1>1. nCcalls' = nc2 /\ nny' = ny2 /\ status' = status
  BY DEF Call
<1>2. cstack' = cs1 \/ cstack' = Append(cs1, e)
  BY DEF Call, Enter
<1>3. /\ cs # <<>> /\ cs[Len(cs)].th = L /\ L \in Thread /\ status[L] = "LUA_OK"
      /\ CountsOf(cs, nCcalls, nny, ah, status) /\ Together(cs, L)
      /\ nCcalls \in [Thread -> Nat] /\ nny \in [Thread -> Nat]
      /\ caller = "hook" => ah[L]
  BY DEF Calling
<1>4. /\ r \in Entry /\ r.c = "luaD_call" /\ r.th = L /\ r.noyield = noyield /\ r.caller = caller
      /\ e \in Entry /\ e.c = "luaV_execute" /\ e.th = L
  BY <1>3, EntryType
<1> HIDE DEF k, r, e
<1>5. /\ One(IsCall(r)) = 1 /\ One(Forbids(r)) = IF noyield THEN 1 ELSE 0
      /\ TurnsOff(r) <=> caller = "hook"
  BY <1>4 DEF IsCall, Forbids, TurnsOff, One
<1>6. nc2 = [nCcalls EXCEPT ![L] = nCcalls[L] + One(IsCall(r))]
      /\ ny2 = [nny EXCEPT ![L] = nny[L] + One(Forbids(r))]
  <2>1. nny[L] \in Nat
    BY <1>3
  <2>2. nny[L] + One(Forbids(r)) = IF noyield THEN nny[L] + 1 ELSE nny[L]
    BY <2>1, <1>5
  <2> QED BY <2>2, <1>5
<1> HIDE DEF nc2, ny2
<1>7. AddsTop(cs, nCcalls, nny, ah, status, r, nc2, ny2, ah2)
  BY <1>3, <1>4, <1>5, <1>6 DEF AddsTop
<1>8. /\ CountsOf(cs1, nc2, ny2, ah2, status) /\ Together(cs1, L)
      /\ nc2 \in [Thread -> Nat] /\ ny2 \in [Thread -> Nat]
  BY <1>4, <1>7, PushTop
<1>9. cs1 \in Seq(Entry) /\ cs1 # <<>> /\ Len(cs1) = Len(cs) + 1 /\ cs1[Len(cs1)] = r
  BY <1>4
<1> HIDE DEF cs1
<1>10. /\ CountsOf(Append(cs1, e), nc2, ny2, ah2, status) /\ Together(Append(cs1, e), L)
       /\ Append(cs1, e) \in Seq(Entry)
  <2>1. ~IsCall(e) /\ ~Forbids(e) /\ ~TurnsOff(e)
    BY <1>4 DEF IsCall, Forbids, TurnsOff
  <2>2. nc2 = [nc2 EXCEPT ![L] = nc2[L] + One(IsCall(e))] /\ ny2 = [ny2 EXCEPT ![L] = ny2[L] + One(Forbids(e))]
    BY <2>1, <1>3, <1>8 DEF One
  <2>3. ah2[L] = (ah2[L] /\ ~TurnsOff(e))
    <3>1. ah2[L] \in BOOLEAN
      OBVIOUS
    <3> QED BY <3>1, <2>1
  <2>4. AddsTop(cs1, nc2, ny2, ah2, status, e, nc2, ny2, ah2)
    BY <2>2, <2>3, <1>3, <1>4, <1>8, <1>9 DEF AddsTop
  <2>5. CountsOf(Append(cs1, e), nc2, ny2, ah2, status) /\ Together(Append(cs1, e), e.th)
    BY <2>4, <1>4, <1>9, PushTop
  <2> QED BY <2>5, <1>4, <1>9
<1> QED BY <1>1, <1>2, <1>8, <1>9, <1>10

(* The activations return to the k-th one, those above were of L.          *)
Cuts(k, nc2, ny2, ah2, st2) ==
    /\ \A i \in k + 1 .. Depth : cstack[i].th = L
    /\ \A t \in Thread : t # L => /\ nc2[t] = nCcalls[t] /\ ny2[t] = nny[t]
                                  /\ ah2[t] = allowhook[t] /\ st2[t] = status[t]
    /\ k > 0 /\ cstack[k].th = L => nc2[L] = Cardinality(CallsTo(cstack, k))
    /\ ny2[L] = One(L = Main \/ k = 0 \/ cstack[k].th # L) + Cardinality(ForbidsTo(cstack, L, k))
    /\ st2[L] # "error" => ah2[L] = ~HooksOff(cstack, L, k)

LEMMA CutCounts ==
    ASSUME Shaped, Counts, cstack # <<>>, NEW k \in 0 .. Depth,
           NEW nc2, NEW ny2, NEW ah2, NEW st2, Cuts(k, nc2, ny2, ah2, st2)
    PROVE  CountsOf(SubSeq(cstack, 1, k), nc2, ny2, ah2, st2)
<1> DEFINE cs2 == SubSeq(cstack, 1, k)
<1>1. /\ Depth \in Nat /\ Depth = Len(cstack) /\ cstack \in Seq(Entry) /\ Depth \in 1 .. Depth
      /\ L \in Thread /\ L = cstack[Depth].th
  BY ActFacts DEF Shaped, StackTypes, Depth, Act
<1>2. /\ cs2 \in Seq(Entry) /\ Len(cs2) = k /\ k \in Nat /\ k <= Depth
      /\ \A i \in 1 .. k : cs2[i] = cstack[i]
  BY <1>1, PrefixFacts
<1> HIDE DEF cs2
<1>3. Together(cstack, L)
  BY LastTogether
<1>4. /\ \A i \in 1 .. Depth : (i = Depth \/ cstack[i + 1].th # cstack[i].th)
                             => nCcalls[cstack[i].th] = Cardinality(CallsTo(cstack, i))
      /\ \A t \in Thread :
           /\ nny[t] = Base(cstack, t) + Cardinality(ForbidsTo(cstack, t, Depth))
           /\ status[t] # "error" => allowhook[t] = ~HooksOff(cstack, t, Depth)
      /\ \A i \in 1 .. Depth : Remembers(cstack, i)
  BY <1>1 DEF Counts, CountsOf
<1>5. /\ \A i \in k + 1 .. Depth : cstack[i].th = L
      /\ \A t \in Thread : t # L => /\ nc2[t] = nCcalls[t] /\ ny2[t] = nny[t]
                                    /\ ah2[t] = allowhook[t] /\ st2[t] = status[t]
      /\ k > 0 /\ cstack[k].th = L => nc2[L] = Cardinality(CallsTo(cstack, k))
      /\ ny2[L] = One(L = Main \/ k = 0 \/ cstack[k].th # L) + Cardinality(ForbidsTo(cstack, L, k))
      /\ st2[L] # "error" => ah2[L] = ~HooksOff(cstack, L, k)
  BY DEF Cuts
<1>6. ASSUME NEW i \in 0 .. k, NEW t
      PROVE  /\ CallsTo(cs2, i) = CallsTo(cstack, i) /\ ForbidsTo(cs2, t, i) = ForbidsTo(cstack, t, i)
             /\ HooksOff(cs2, t, i) <=> HooksOff(cstack, t, i)
             /\ i > 0 => (Remembers(cs2, i) <=> Remembers(cstack, i))
  <2>1. i \in Nat /\ \A l \in 1 .. i : cs2[l] = cstack[l]
    BY <1>2
  <2> QED BY <2>1, CountSame
<1>7. ASSUME NEW i \in 1 .. k, i = k \/ cs2[i + 1].th # cs2[i].th
      PROVE  nc2[cs2[i].th] = Cardinality(CallsTo(cs2, i))
  <2>1. /\ i \in 0 .. k /\ i \in 1 .. Depth /\ cs2[i] = cstack[i] /\ cstack[i].th \in Thread /\ k > 0
        /\ CallsTo(cs2, i) = CallsTo(cstack, i)
    <3>1. i \in 0 .. k /\ i \in 1 .. Depth /\ k > 0
      BY <1>1, <1>2
    <3> QED BY SMTT(30), <3>1, <1>1, <1>2, <1>6, EntryFields
  <2>2. CASE cstack[i].th = L
    <3>1. i = k
      <4>1. SUFFICES ASSUME i # k PROVE FALSE
        OBVIOUS
      <4>2. i + 1 \in 1 .. k /\ i + 1 \in i .. Depth
        BY <4>1, <1>1, <1>2
      <4> QED BY <4>1, <4>2, <2>1, <2>2, <1>1, <1>2, <1>3, <1>7 DEF Together
    <3> QED BY <3>1, <2>1, <2>2, <1>5
  <2>3. CASE cstack[i].th # L
    <3>1. i # Depth /\ i + 1 \in 1 .. Depth
      BY <2>1, <2>3, <1>1
    <3>2. cstack[i + 1].th # cstack[i].th
      <4>1. CASE i = k
        <5>1. i + 1 \in k + 1 .. Depth
          BY <4>1, <3>1
        <5> QED BY <5>1, <2>3, <1>5
      <4>2. CASE i # k
        <5>1. i + 1 \in 1 .. k
          BY <4>2, <1>2
        <5> QED BY <5>1, <4>2, <2>1, <1>2, <1>7
      <4> QED BY <4>1, <4>2
    <3> QED BY <3>2, <2>1, <2>3, <1>4, <1>5
  <2> QED BY <2>2, <2>3
<1>8. ASSUME NEW t \in Thread
      PROVE  /\ ny2[t] = Base(cs2, t) + Cardinality(ForbidsTo(cs2, t, k))
             /\ st2[t] # "error" => ah2[t] = ~HooksOff(cs2, t, k)
  <2>1. /\ ForbidsTo(cs2, t, k) = ForbidsTo(cstack, t, k)
        /\ HooksOff(cs2, t, k) <=> HooksOff(cstack, t, k)
    <3>1. k \in 0 .. k
      BY <1>2
    <3> QED BY <3>1, <1>6
  <2>2. CASE t = L
    <3>1. Base(cs2, L) = One(L = Main \/ k = 0 \/ cstack[k].th # L)
      <4>1. (\A i \in 1 .. k : cs2[i].th # L) <=> (k = 0 \/ cstack[k].th # L)
        <5>1. CASE k = 0
          BY <5>1
        <5>2. CASE k # 0
          <6>1. k \in 1 .. k
            BY <5>2, <1>2
          <6>2. ASSUME NEW i \in 1 .. k, cs2[i].th = L PROVE cstack[k].th = L
            <7>1. i \in 1 .. Depth /\ k \in i .. Depth
              BY <1>1, <1>2
            <7> QED BY <7>1, <6>2, <1>1, <1>2, <1>3 DEF Together
          <6> QED BY <6>1, <6>2, <5>2, <1>2
        <5> QED BY <5>1, <5>2
      <4> QED BY <4>1, <1>2 DEF Base, One
    <3> QED BY <3>1, <2>1, <2>2, <1>5
  <2>3. CASE t # L
    <3>1. ASSUME NEW i \in 1 .. Depth, cstack[i].th = t PROVE i \in 1 .. k
      <4>1. i \notin k + 1 .. Depth
        BY <3>1, <2>3, <1>5
      <4> QED BY <4>1, <1>2
    <3>2. \A i \in 1 .. k : i \in 1 .. Depth
      BY <1>1, <1>2
    <3>3. Base(cs2, t) = Base(cstack, t)
      <4>1. (\A i \in 1 .. k : cs2[i].th # t) <=> (\A i \in 1 .. Depth : cstack[i].th # t)
        BY <3>1, <3>2, <1>2
      <4> QED BY <4>1, <1>1, <1>2 DEF Base
    <3>4. ForbidsTo(cstack, t, k) = ForbidsTo(cstack, t, Depth)
      BY <3>1, <3>2 DEF ForbidsTo
    <3>5. HooksOff(cstack, t, k) <=> HooksOff(cstack, t, Depth)
      BY <3>1, <3>2 DEF HooksOff
    <3> QED BY <3>3, <3>4, <3>5, <2>1, <2>3, <1>4, <1>5
  <2> QED BY <2>2, <2>3
<1>9. ASSUME NEW i \in 1 .. k PROVE Remembers(cs2, i)
  <2>1. i \in 0 .. k /\ i \in 1 .. Depth /\ i > 0
    BY <1>1, <1>2
  <2> QED BY <2>1, <1>4, <1>6
<1>10. CountsOf(cs2, nc2, ny2, ah2, st2)
  BY <1>2, <1>7, <1>8, <1>9 DEF CountsOf
<1> QED BY <1>10 DEF cs2

-----------------------------------------------------------------------------
(* The fields and the threads, step by step                                *)

Fields ==
    /\ nCcalls \in [Thread -> Nat] /\ nny \in [Thread -> Nat]
    /\ errfunc \in [Thread -> BOOLEAN] /\ allowhook \in [Thread -> BOOLEAN]
    /\ status \in [Thread -> {"LUA_OK", "LUA_YIELD", "error"}]
    /\ unstarted \in SUBSET Co

Inv == Shaped /\ Fields /\ Threads /\ Counts
Kept == Fields /\ Threads /\ Counts

LEMMA InvType == Inv => TypeOK
  BY DEF Inv, Shaped, StackTypes, Fields, TypeOK

LEMMA RunsOK ==
    ASSUME Inv, cstack # <<>>
    PROVE  /\ status[L] = "LUA_OK" /\ L \notin unstarted /\ L \in Thread
           /\ \A th \in Co : status[th] = "LUA_YIELD" => th # L
<1>1. /\ Depth \in 1 .. Len(cstack) /\ L = cstack[Depth].th /\ L \in Thread
  BY ActFacts DEF Inv, Depth, Act
<1> QED BY <1>1 DEF Inv, Threads

(* Only the thread that runs moves.                                        *)
Moves ==
    /\ \A i \in 1 .. Len(cstack') : cstack'[i].th = L \/ (i \in 1 .. Depth /\ cstack'[i] = cstack[i])
    /\ \A t \in Thread : t # L => ci'[t] = ci[t]

LEMMA MovesThreads ==
    ASSUME Inv, cstack # <<>>, Moves, UNCHANGED <<status, unstarted>>
    PROVE  Threads'
<1>1. Threads /\ status' = status /\ unstarted' = unstarted
  BY DEF Inv
<1>2. /\ status[L] = "LUA_OK" /\ L \notin unstarted
      /\ \A th \in Co : status[th] = "LUA_YIELD" => th # L
  BY RunsOK
<1>3. ASSUME NEW i \in 1 .. Len(cstack')
      PROVE  status[cstack'[i].th] = "LUA_OK" /\ cstack'[i].th \notin unstarted
  BY <1>1, <1>2 DEF Moves, Threads, Depth
<1>4. ASSUME NEW th \in Co, status[th] = "LUA_YIELD"
      PROVE  Suspended(ci', th) /\ th \notin unstarted
  <2>1. Suspended(ci, th) /\ th \notin unstarted /\ th \in Thread
    BY <1>1, <1>4 DEF Threads, Thread
  <2>2. ci'[th] = ci[th]
    BY <2>1, <1>2, <1>4 DEF Moves
  <2> QED BY <2>1, <2>2 DEF Suspended
<1> QED BY <1>1, <1>3, <1>4 DEF Threads

LEMMA StayKept ==
    ASSUME Inv, cstack # <<>>, UNCHANGED <<nCcalls, nny, allowhook, status, unstarted, cstack>>,
           errfunc' \in [Thread -> BOOLEAN], \A t \in Thread : t # L => ci'[t] = ci[t]
    PROVE  Kept'
<1>1. /\ nCcalls' = nCcalls /\ nny' = nny /\ allowhook' = allowhook /\ status' = status
      /\ unstarted' = unstarted /\ cstack' = cstack
  OBVIOUS
<1>2. Moves
  <2>1. \A i \in 1 .. Len(cstack) : i \in 1 .. Depth
    BY DEF Depth
  <2> QED BY <1>1, <2>1 DEF Moves
<1>3. Threads'
  BY <1>1, <1>2, MovesThreads
<1>4. Counts'
  BY <1>1 DEF Inv, Counts
<1>5. Fields'
  BY <1>1 DEF Inv, Fields
<1> QED BY <1>3, <1>4, <1>5 DEF Kept

LEMMA CallsKept ==
    ASSUME Inv, \/ OpCall \/ MemoryError \/ RaiseError \/ FinishCCall
    PROVE  Kept'
<1>1. CASE OpCall
  <2>1. /\ cstack # <<>> /\ UNCHANGED <<nCcalls, nny, allowhook, status, unstarted, cstack>>
        /\ errfunc' = errfunc /\ \E F : ci' = [ci EXCEPT ![L] = F]
    <3>1. \E fn \in Fns : ci' = [ci EXCEPT ![L] = Append(SetTop(ci[L], "call"), Frame(fn))]
      BY <1>1, Zenon DEF OpCall
    <3>2. \E F : ci' = [ci EXCEPT ![L] = F]
      BY <3>1, Zenon
    <3> QED BY <1>1, <3>2 DEF OpCall, RunsLua, Running, fields
  <2>2. errfunc' \in [Thread -> BOOLEAN] /\ \A t \in Thread : t # L => ci'[t] = ci[t]
    BY <2>1 DEF Inv, Fields, Shaped, StackTypes
  <2> QED BY <2>1, <2>2, StayKept
<1>2. CASE MemoryError \/ RaiseError
  <2>1. /\ cstack # <<>> /\ UNCHANGED <<nCcalls, nny, allowhook, status, unstarted, cstack>>
        /\ errfunc' = errfunc /\ ci' = ci
    BY <1>2 DEF MemoryError, RaiseError, RunsC, Running, fields
  <2>2. errfunc' \in [Thread -> BOOLEAN]
    BY <2>1 DEF Inv, Fields
  <2> QED BY <2>1, <2>2, StayKept
<1>3. CASE FinishCCall
  <2>1. /\ cstack # <<>> /\ UNCHANGED <<nCcalls, nny, allowhook, status, unstarted, cstack>>
        /\ \E F : ci' = [ci EXCEPT ![L] = F]
        /\ errfunc' = [errfunc EXCEPT ![L] = IF Top.ypcall THEN Top.old_errfunc ELSE @]
        /\ Unrolls /\ ci[L] # <<>>
    BY <1>3, Zenon DEF FinishCCall, Unrolls
  <2>2. \A t \in Thread : t # L => ci'[t] = ci[t]
    BY <2>1 DEF Inv, Shaped, StackTypes
  <2>3. Top \in CallInfo
    BY <2>1, UnrollFacts, TopFacts DEF Inv
  <2>4. Top.old_errfunc \in BOOLEAN
    BY <2>3, FrameFields
  <2>5. errfunc \in [Thread -> BOOLEAN]
    BY DEF Inv, Fields
  <2>6. errfunc' \in [Thread -> BOOLEAN]
    BY <2>1, <2>4, <2>5
  <2> QED BY <2>1, <2>2, <2>6, StayKept
<1> QED BY <1>1, <1>2, <1>3

LEMMA PushExecute ==
    ASSUME NEW cs \in Seq(Entry), NEW th \in Thread, NEW nc, NEW ny, NEW ah, NEW st, NEW e \in Entry,
           e.c = "luaV_execute", e.th = th, cs # <<>>, cs[Len(cs)].th = th,
           CountsOf(cs, nc, ny, ah, st), Together(cs, th), st[th] = "LUA_OK",
           nc \in [Thread -> Nat], ny \in [Thread -> Nat], ah[th] \in BOOLEAN
    PROVE  CountsOf(Append(cs, e), nc, ny, ah, st)
<1>1. ~IsCall(e) /\ ~Forbids(e) /\ ~TurnsOff(e)
  BY DEF IsCall, Forbids, TurnsOff
<1>2. nc = [nc EXCEPT ![th] = nc[th] + One(IsCall(e))] /\ ny = [ny EXCEPT ![th] = ny[th] + One(Forbids(e))]
  BY <1>1 DEF One
<1>3. ah[th] = (ah[th] /\ ~TurnsOff(e))
  BY <1>1
<1>4. AddsTop(cs, nc, ny, ah, st, e, nc, ny, ah)
  BY <1>2, <1>3 DEF AddsTop
<1> QED BY <1>4, PushTop

LEMMA FinishOpKept == ASSUME Inv, FinishOp PROVE Kept'
<1> DEFINE e == Execute(Len(ci[L]) - 1)
<1>1. /\ Unrolls /\ cstack # <<>> /\ ci[L] # <<>>
      /\ cstack' = Append(cstack, e) /\ \E F : ci' = [ci EXCEPT ![L] = F]
      /\ nCcalls' = nCcalls /\ nny' = nny /\ errfunc' = errfunc /\ allowhook' = allowhook
      /\ status' = status /\ unstarted' = unstarted
  BY Zenon DEF FinishOp, Unrolls, fields
<1>2. /\ L \in Thread /\ Size \in Nat /\ Depth \in Nat /\ Size = Len(ci[L]) /\ Depth = Len(cstack)
      /\ cstack \in Seq(Entry) /\ cstack[Depth].th = L
  BY <1>1, ActFacts DEF Inv, Shaped, StackTypes, Depth, Size, Act
<1>3. Len(ci[L]) - 1 \in Nat
  BY <1>1, <1>2, TopFacts, UnrollFacts DEF Inv
<1>4. e \in Entry /\ e.c = "luaV_execute" /\ e.th = L
  <2> DEFINE k == Len(ci[L]) - 1
  <2>1. k \in Nat
    BY <1>3
  <2> HIDE DEF k
  <2>2. Execute(k) \in Entry /\ Execute(k).c = "luaV_execute" /\ Execute(k).th = L
    BY <2>1, <1>2 DEF Execute, Entry
  <2> QED BY <2>2 DEF k
<1> HIDE DEF e
<1>5. Moves
  <2>1. /\ Len(cstack') = Depth + 1 /\ cstack'[Depth + 1] = e
        /\ \A i \in 1 .. Depth : cstack'[i] = cstack[i]
    BY <1>1, <1>2, <1>4
  <2>2. \A i \in 1 .. Depth + 1 : i \in 1 .. Depth \/ i = Depth + 1
    BY <1>2
  <2>3. \A t \in Thread : t # L => ci'[t] = ci[t]
    BY <1>1 DEF Inv, Shaped, StackTypes
  <2> QED BY <2>1, <2>2, <2>3, <1>4 DEF Moves
<1>6. Threads'
  BY <1>1, <1>5, MovesThreads
<1>7. Counts'
  <2>1. /\ CountsOf(cstack, nCcalls, nny, allowhook, status) /\ Together(cstack, L)
        /\ status[L] = "LUA_OK"
        /\ nCcalls \in [Thread -> Nat] /\ nny \in [Thread -> Nat] /\ allowhook[L] \in BOOLEAN
    BY <1>1, <1>2, RunsOK, LastTogether DEF Inv, Fields, Counts
  <2>2. CountsOf(Append(cstack, e), nCcalls, nny, allowhook, status)
    BY <2>1, <1>1, <1>2, <1>4, PushExecute
  <2> QED BY <2>2, <1>1 DEF Counts
<1>8. Fields'
  BY <1>1 DEF Inv, Fields
<1> QED BY <1>6, <1>7, <1>8 DEF Kept

(* A return to the k-th activation.                                        *)
LEMMA ReturnKept ==
    ASSUME Inv, cstack # <<>>, NEW k \in 0 .. Depth, cstack' = SubSeq(cstack, 1, k),
           Cuts(k, nCcalls', nny', allowhook', status'), UNCHANGED <<status, unstarted>>,
           \A t \in Thread : t # L => ci'[t] = ci[t],
           nCcalls' \in [Thread -> Nat], nny' \in [Thread -> Nat],
           errfunc' \in [Thread -> BOOLEAN], allowhook' \in [Thread -> BOOLEAN]
    PROVE  Kept'
<1>1. Counts'
  <2>1. CountsOf(SubSeq(cstack, 1, k), nCcalls', nny', allowhook', status')
    BY CutCounts DEF Inv
  <2> QED BY <2>1 DEF Counts
<1>2. Moves
  <2>1. /\ cstack \in Seq(Entry) /\ Depth = Len(cstack)
    BY DEF Inv, Shaped, StackTypes, Depth
  <2>2. Len(cstack') = k /\ \A i \in 1 .. k : cstack'[i] = cstack[i]
    BY <2>1, PrefixFacts
  <2>3. \A i \in 1 .. k : i \in 1 .. Depth
    BY <2>1
  <2> QED BY <2>2, <2>3 DEF Moves
<1>3. Threads'
  BY <1>2, MovesThreads
<1>4. Fields'
  BY DEF Inv, Fields
<1> QED BY <1>1, <1>3, <1>4 DEF Kept

LEMMA LUncounted ==
    ASSUME Inv, cstack # <<>>
    PROVE  /\ nCcalls[L] = Cardinality(CallsTo(cstack, Depth))
           /\ nny[L] = One(L = Main) + Cardinality(ForbidsTo(cstack, L, Depth))
           /\ allowhook[L] = ~HooksOff(cstack, L, Depth)
<1>1. /\ Depth \in 1 .. Depth /\ Depth = Len(cstack) /\ L = cstack[Depth].th /\ L \in Thread
      /\ status[L] = "LUA_OK"
  BY ActFacts, RunsOK DEF Inv, Depth, Act
<1>2. Base(cstack, L) = One(L = Main)
  BY <1>1 DEF Base, One
<1> QED BY <1>1, <1>2 DEF Inv, Counts, CountsOf

LEMMA CallersFacts ==
    ASSUME Inv, Returns, NEW k \in 1 .. Depth, Callers = SubSeq(cstack, 1, k)
    PROVE  /\ \A i \in k + 1 .. Depth : cstack[i].th = L
           /\ nCcalls[L] = Cardinality(CallsTo(cstack, k))
           /\ nny[L] = One(L = Main) + Cardinality(ForbidsTo(cstack, L, k))
           /\ allowhook[L] = ~HooksOff(cstack, L, k)
<1>1. /\ Running /\ cstack # <<>> /\ cstack \in Seq(Entry) /\ Depth = Len(cstack) /\ Depth \in Nat
      /\ Depth >= 1 /\ L = cstack[Depth].th /\ Act = cstack[Depth]
  <2>1. Running /\ cstack # <<>>
    BY DEF Returns, Running
  <2> QED BY <2>1, ActFacts DEF Inv, Shaped, StackTypes, Depth, Act
<1>2. /\ nCcalls[L] = Cardinality(CallsTo(cstack, Depth))
      /\ nny[L] = One(L = Main) + Cardinality(ForbidsTo(cstack, L, Depth))
      /\ allowhook[L] = ~HooksOff(cstack, L, Depth)
  BY <1>1, LUncounted
<1>3. Len(Callers) = k
  BY <1>1, PrefixFacts
<1>4. CASE Callers = cstack
  <2>1. k = Depth
    BY <1>1, <1>3, <1>4
  <2> QED BY <2>1, <1>1, <1>2
<1>5. CASE Callers # cstack
  <2>1. Callers = Front(cstack) /\ Top.fn = "lua"
    BY <1>5 DEF Callers
  <2>2. k = Depth - 1
    BY <2>1, <1>1, <1>3, FrontFacts
  <2>3. Top.st = "run"
    BY <2>1 DEF Returns, RunsLua
  <2>4. cstack[Depth].c = "luaV_execute"
    BY <2>1, <2>3, <1>1, TopFacts DEF Inv
  <2>5. Depth > 0 /\ k \in Nat
    BY <1>1
  <2>6. ~IsCall(cstack[Depth]) /\ ~Forbids(cstack[Depth]) /\ ~TurnsOff(cstack[Depth])
    BY <2>4 DEF IsCall, Forbids, TurnsOff
  <2>7. /\ Cardinality(CallsTo(cstack, Depth)) = Cardinality(CallsTo(cstack, k)) + One(IsCall(cstack[Depth]))
        /\ Cardinality(ForbidsTo(cstack, L, Depth))
             = Cardinality(ForbidsTo(cstack, L, k)) + One(cstack[Depth].th = L /\ Forbids(cstack[Depth]))
        /\ HooksOff(cstack, L, Depth) <=> \/ HooksOff(cstack, L, k)
                                          \/ cstack[Depth].th = L /\ TurnsOff(cstack[Depth])
    BY <2>2, <2>5, <1>1, CountStep
  <2>8. /\ Cardinality(CallsTo(cstack, k)) \in Nat /\ Cardinality(ForbidsTo(cstack, L, k)) \in Nat
    BY <2>5, SetsFinite
  <2>9. /\ Cardinality(CallsTo(cstack, Depth)) = Cardinality(CallsTo(cstack, k))
        /\ Cardinality(ForbidsTo(cstack, L, Depth)) = Cardinality(ForbidsTo(cstack, L, k))
        /\ HooksOff(cstack, L, Depth) <=> HooksOff(cstack, L, k)
    BY <2>6, <2>7, <2>8 DEF One
  <2>10. \A i \in k + 1 .. Depth : i = Depth
    BY <2>2, <1>1
  <2> QED BY <2>9, <2>10, <1>1, <1>2
<1> QED BY <1>4, <1>5

LEMMA ReturnsKept == ASSUME Inv, ReturnToLua \/ ReturnToResume PROVE Kept'
<1>1. /\ Returns /\ cstack' = Callers /\ \E F : ci' = [ci EXCEPT ![L] = F]
      /\ nCcalls' = nCcalls /\ nny' = nny /\ errfunc' = errfunc /\ allowhook' = allowhook
      /\ status' = status /\ unstarted' = unstarted
  BY Zenon DEF ReturnToLua, ReturnToResume, fields
<1>2. PICK k \in 1 .. Depth : Callers = SubSeq(cstack, 1, k) /\ cstack[k].th = L
  BY <1>1, ReturnFacts DEF Inv
<1>3. /\ \A i \in k + 1 .. Depth : cstack[i].th = L
      /\ nCcalls[L] = Cardinality(CallsTo(cstack, k))
      /\ nny[L] = One(L = Main) + Cardinality(ForbidsTo(cstack, L, k))
      /\ allowhook[L] = ~HooksOff(cstack, L, k)
  BY <1>1, <1>2, CallersFacts
<1>4. cstack # <<>> /\ k \in 0 .. Depth /\ k # 0
  BY <1>1 DEF Returns, Running
<1>5. Cuts(k, nCcalls', nny', allowhook', status')
  <2>1. One(L = Main) = One(L = Main \/ k = 0 \/ cstack[k].th # L)
    BY <1>2, <1>4
  <2> QED BY <2>1, <1>1, <1>2, <1>3 DEF Cuts
<1>6. \A t \in Thread : t # L => ci'[t] = ci[t]
  BY <1>1 DEF Inv, Shaped, StackTypes
<1>7. /\ nCcalls' \in [Thread -> Nat] /\ nny' \in [Thread -> Nat]
      /\ errfunc' \in [Thread -> BOOLEAN] /\ allowhook' \in [Thread -> BOOLEAN]
  BY <1>1 DEF Inv, Fields
<1>8. cstack' = SubSeq(cstack, 1, k) /\ UNCHANGED <<status, unstarted>>
  BY <1>1, <1>2
<1> QED BY <1>4, <1>5, <1>6, <1>7, <1>8, ReturnKept

(* The call of the k-th activation ends.                                   *)
LEMMA EndsCounts ==
    ASSUME Inv, NEW caller, CallEnds(caller), NEW k \in 2 .. Depth, EndsAt(k, caller)
    PROVE  LET r == cstack[k] IN
           /\ \A i \in k .. Depth : cstack[i].th = L
           /\ nCcalls[L] = Cardinality(CallsTo(cstack, k - 1)) + 1
           /\ nny[L] = One(L = Main) + Cardinality(ForbidsTo(cstack, L, k - 1)) + One(r.noyield)
           /\ IF caller = "hook" THEN ~HooksOff(cstack, L, k - 1)
              ELSE allowhook[L] = ~HooksOff(cstack, L, k - 1)
<1> DEFINE r == cstack[k]
<1>1. /\ Returns /\ k \in 1 .. Depth /\ k \in Nat /\ k > 0 /\ k - 1 \in Nat /\ Depth = Len(cstack)
      /\ \A i \in k .. Depth : i = k \/ i \in k + 1 .. Depth
  BY DEF CallEnds, Depth, Inv, Shaped, StackTypes
<1>2. /\ Callers = SubSeq(cstack, 1, k) /\ r.c = "luaD_call" /\ r.caller = caller /\ r.th = L
  BY DEF EndsAt
<1>3. /\ \A i \in k + 1 .. Depth : cstack[i].th = L
      /\ nCcalls[L] = Cardinality(CallsTo(cstack, k))
      /\ nny[L] = One(L = Main) + Cardinality(ForbidsTo(cstack, L, k))
      /\ allowhook[L] = ~HooksOff(cstack, L, k)
  BY <1>1, <1>2, CallersFacts
<1>4. /\ Cardinality(CallsTo(cstack, k)) = Cardinality(CallsTo(cstack, k - 1)) + One(IsCall(r))
      /\ Cardinality(ForbidsTo(cstack, L, k))
           = Cardinality(ForbidsTo(cstack, L, k - 1)) + One(r.th = L /\ Forbids(r))
      /\ HooksOff(cstack, L, k) <=> \/ HooksOff(cstack, L, k - 1)
                                    \/ r.th = L /\ TurnsOff(r)
  BY <1>1, CountStep
<1>5. One(IsCall(r)) = 1 /\ One(r.th = L /\ Forbids(r)) = One(r.noyield) /\ (TurnsOff(r) <=> caller = "hook")
  BY <1>2 DEF IsCall, Forbids, TurnsOff, One
<1>6. /\ Cardinality(ForbidsTo(cstack, L, k - 1)) \in Nat /\ One(L = Main) \in Nat /\ One(r.noyield) \in Nat
  BY <1>1, SetsFinite DEF One
<1>7. caller = "hook" => ~HooksOff(cstack, L, k - 1)
  <2>1. Remembers(cstack, k)
    BY <1>1 DEF Inv, Counts, CountsOf
  <2> QED BY <2>1, <1>2 DEF Remembers
<1>8. \A i \in k .. Depth : cstack[i].th = L
  BY <1>1, <1>2, <1>3
<1>9. nny[L] = One(L = Main) + Cardinality(ForbidsTo(cstack, L, k - 1)) + One(r.noyield)
  BY <1>3, <1>4, <1>5, <1>6
<1>10. caller # "hook" => allowhook[L] = ~HooksOff(cstack, L, k - 1)
  BY <1>2, <1>3, <1>4, <1>5
<1>11. nCcalls[L] = Cardinality(CallsTo(cstack, k - 1)) + 1
  BY <1>3, <1>4, <1>5
<1> QED BY <1>7, <1>8, <1>9, <1>10, <1>11

LEMMA CallEndsKept ==
    ASSUME Inv, NEW caller, CallEnds(caller), UncountCall, cstack' = Front(Callers),
           \E F : ci' = [ci EXCEPT ![L] = F],
           caller = "function" => Last(Front(Callers)).c # "luaD_pcall",
           errfunc' \in [Thread -> BOOLEAN],
           allowhook' = IF caller = "hook" THEN [allowhook EXCEPT ![L] = TRUE] ELSE allowhook
    PROVE  Kept'
<1>1. PICK k \in 2 .. Depth : EndsAt(k, caller)
  BY CallEndsFacts DEF Inv
<1> DEFINE r == cstack[k]
           i == k - 1
<1>2. /\ cstack' = SubSeq(cstack, 1, i) /\ cstack[i].th = L /\ r \in Entry /\ r.c = "luaD_call"
      /\ Last(Callers) = r
  BY <1>1 DEF EndsAt
<1>3. r.noyield \in BOOLEAN
  BY <1>2, EntryFields
<1>4. i \in 0 .. Depth /\ i # 0 /\ i + 1 = k /\ Depth \in Nat
  BY DEF Depth, Inv, Shaped, StackTypes
<1>5. /\ \A l \in k .. Depth : cstack[l].th = L
      /\ nCcalls[L] = Cardinality(CallsTo(cstack, i)) + 1
      /\ nny[L] = One(L = Main) + Cardinality(ForbidsTo(cstack, L, i)) + One(r.noyield)
      /\ IF caller = "hook" THEN ~HooksOff(cstack, L, i)
         ELSE allowhook[L] = ~HooksOff(cstack, L, i)
  BY <1>1, EndsCounts
<1> HIDE DEF i, r
<1>6. /\ Cardinality(ForbidsTo(cstack, L, i)) \in Nat /\ Cardinality(CallsTo(cstack, i)) \in Nat
      /\ One(L = Main) \in Nat
  <2>1. i \in Nat
    BY <1>4
  <2> QED BY <2>1, SetsFinite DEF One
<1>7. /\ nCcalls' = [nCcalls EXCEPT ![L] = nCcalls[L] - 1]
      /\ nny' = [nny EXCEPT ![L] = IF r.noyield THEN nny[L] - 1 ELSE nny[L]]
      /\ status' = status /\ unstarted' = unstarted
  BY <1>2 DEF CallEnds, UncountCall
<1>8. /\ nCcalls[L] - 1 = Cardinality(CallsTo(cstack, i))
      /\ (IF r.noyield THEN nny[L] - 1 ELSE nny[L]) = One(L = Main) + Cardinality(ForbidsTo(cstack, L, i))
  BY <1>3, <1>5, <1>6 DEF One
<1>9. L \in Thread /\ cstack # <<>>
  <2>1. cstack # <<>>
    BY DEF CallEnds, Returns, Running
  <2> QED BY <2>1, RunsOK
<1>10. /\ nCcalls \in [Thread -> Nat] /\ nny \in [Thread -> Nat] /\ allowhook \in [Thread -> BOOLEAN]
       /\ ci \in [Thread -> Seq(CallInfo)]
  BY DEF Inv, Fields, Shaped, StackTypes
<1>11. /\ nCcalls' \in [Thread -> Nat] /\ nny' \in [Thread -> Nat] /\ allowhook' \in [Thread -> BOOLEAN]
       /\ nCcalls'[L] = Cardinality(CallsTo(cstack, i))
       /\ nny'[L] = One(L = Main) + Cardinality(ForbidsTo(cstack, L, i))
       /\ allowhook'[L] = ~HooksOff(cstack, L, i)
       /\ \A t \in Thread : t # L => /\ nCcalls'[t] = nCcalls[t] /\ nny'[t] = nny[t]
                                     /\ allowhook'[t] = allowhook[t] /\ ci'[t] = ci[t]
  <2>1. /\ nCcalls' \in [Thread -> Nat] /\ nCcalls'[L] = Cardinality(CallsTo(cstack, i))
        /\ \A t \in Thread : t # L => nCcalls'[t] = nCcalls[t]
    BY <1>6, <1>7, <1>8, <1>9, <1>10
  <2>2. /\ nny' \in [Thread -> Nat]
        /\ nny'[L] = One(L = Main) + Cardinality(ForbidsTo(cstack, L, i))
        /\ \A t \in Thread : t # L => nny'[t] = nny[t]
    BY <1>6, <1>7, <1>8, <1>9, <1>10
  <2>3. /\ allowhook' \in [Thread -> BOOLEAN] /\ allowhook'[L] = ~HooksOff(cstack, L, i)
        /\ \A t \in Thread : t # L => allowhook'[t] = allowhook[t]
    BY <1>5, <1>9, <1>10
  <2>4. \A t \in Thread : t # L => ci'[t] = ci[t]
    BY <1>10
  <2> QED BY <2>1, <2>2, <2>3, <2>4
<1>12. Cuts(i, nCcalls', nny', allowhook', status')
  <2>1. One(L = Main) = One(L = Main \/ i = 0 \/ cstack[i].th # L)
    BY <1>2, <1>4
  <2>2. \A l \in i + 1 .. Depth : cstack[l].th = L
    BY <1>4, <1>5
  <2> QED BY <2>1, <2>2, <1>7, <1>11 DEF Cuts
<1>13. \A t \in Thread : t # L => ci'[t] = ci[t]
  BY <1>11
<1> QED BY <1>2, <1>4, <1>7, <1>9, <1>11, <1>12, <1>13, ReturnKept

LEMMA EndsKept ==
    ASSUME Inv, \/ MetamethodEnds \/ HookEnds \/ HandlerEnds \/ CFunctionGoesOn
    PROVE  Kept'
<1>0. errfunc \in [Thread -> BOOLEAN]
  BY DEF Inv, Fields
<1>1. CASE MetamethodEnds
  BY <1>0, <1>1, CallEndsKept DEF MetamethodEnds
<1>2. CASE HookEnds
  BY <1>0, <1>2, CallEndsKept DEF HookEnds
<1>3. CASE HandlerEnds
  BY <1>0, <1>3, CallEndsKept DEF HandlerEnds
<1>4. CASE CFunctionGoesOn
  <2> DEFINE f == Last(Frames)
             caller == "function"
  <2>1. /\ CallEnds(caller) /\ Last(Front(Callers)).c # "luaD_pcall" /\ UncountCall
        /\ \E F : ci' = [ci EXCEPT ![L] = F]
        /\ errfunc' = [errfunc EXCEPT ![L] = IF f.ypcall THEN f.old_errfunc ELSE @]
        /\ cstack' = Front(Callers) /\ allowhook' = allowhook
    BY <1>4, Zenon DEF CFunctionGoesOn
  <2>2. Returns
    BY <2>1 DEF CallEnds
  <2>3. PICK k \in 2 .. Depth : EndsAt(k, caller)
    BY <2>1, CallEndsFacts DEF Inv
  <2>4. Size - 1 > 0
    <3>1. cstack[k - 1].c # "luaD_pcall"
      BY <2>1, <2>3 DEF EndsAt
    <3> QED BY <2>3, <3>1, EndsCaller DEF Inv
  <2>5. f \in CallInfo
    <3>1. Size - 1 \in 1 .. Size - 1
      BY <2>2, <2>4, FramesFacts DEF Inv
    <3> QED BY <3>1, <2>2, <2>4, FramesFacts DEF Inv
  <2>6. f.old_errfunc \in BOOLEAN
    BY <2>5, FrameFields
  <2> HIDE DEF f
  <2>7. errfunc' \in [Thread -> BOOLEAN]
    BY <2>1, <2>6, <1>0
  <2>8. allowhook' = IF caller = "hook" THEN [allowhook EXCEPT ![L] = TRUE] ELSE allowhook
    BY <2>1
  <2>9. caller = "function" => Last(Front(Callers)).c # "luaD_pcall"
    BY <2>1
  <2> QED BY <2>1, <2>7, <2>8, <2>9, CallEndsKept
<1> QED BY <1>1, <1>2, <1>3, <1>4

LEMMA PCallEndsKept == ASSUME Inv, PCallEnds PROVE Kept'
<1> DEFINE p == Last(Front(Callers))
<1>1. /\ CallEnds("function") /\ p.c = "luaD_pcall" /\ \E F : ci' = [ci EXCEPT ![L] = F]
      /\ nCcalls' = [nCcalls EXCEPT ![L] = p.nCcalls]
      /\ errfunc' = [errfunc EXCEPT ![L] = p.errfunc]
      /\ allowhook' = [allowhook EXCEPT ![L] = IF p.gc THEN p.allowhook ELSE @]
      /\ nny' = [nny EXCEPT ![L] = IF Last(Callers).noyield THEN @ - 1 ELSE @]
      /\ status' = status /\ unstarted' = unstarted
      /\ cstack' = Front(Front(Callers))
  BY Zenon DEF PCallEnds, CallEnds
<1>2. PICK k \in 2 .. Depth : EndsAt(k, "function")
  BY <1>1, CallEndsFacts DEF Inv
<1> DEFINE r == cstack[k]
           j == k - 1
           i == j - 1
<1>3. /\ Front(Callers) = SubSeq(cstack, 1, j) /\ p = cstack[j] /\ Last(Callers) = r
      /\ r.c = "luaD_call" /\ r.th = L /\ cstack[j].th = L /\ Linked(cstack, k) /\ p \in Entry
  BY <1>2 DEF EndsAt
<1>4. /\ Depth \in Nat /\ Depth = Len(cstack) /\ cstack \in Seq(Entry) /\ Shape(cstack, ci)
  BY DEF Inv, Shaped, StackTypes, Depth
<1>5. /\ j \in 1 .. Depth /\ j \in 1 .. Len(cstack) /\ j \in Nat /\ j > 0 /\ j + 1 = k /\ k # 1
      /\ i \in 0 .. Depth /\ i \in Nat /\ i + 1 = j /\ (i # 0 <=> j # 1)
      /\ \A l \in i + 1 .. Depth : l = j \/ l \in k .. Depth
  BY <1>4
<1>6. cstack' = SubSeq(cstack, 1, i)
  BY <1>1, <1>3, <1>4, <1>5, FrontPrefix
<1>7. r.noyield
  BY <1>1, <1>3, <1>5 DEF Linked
<1>8. /\ \A l \in k .. Depth : cstack[l].th = L
      /\ nny[L] = One(L = Main) + Cardinality(ForbidsTo(cstack, L, j)) + One(r.noyield)
      /\ allowhook[L] = ~HooksOff(cstack, L, j)
  BY <1>1, <1>2, EndsCounts
<1>9. /\ p.nCcalls \in Nat /\ p.errfunc \in BOOLEAN /\ p.allowhook \in BOOLEAN /\ p.gc \in BOOLEAN
  BY <1>1, <1>3, EntryFields
<1>10. /\ p.nCcalls = Cardinality(CallsTo(cstack, i))
       /\ p.allowhook = ~HooksOff(cstack, L, i)
  <2>1. Remembers(cstack, j)
    BY <1>4, <1>5 DEF Inv, Counts, CountsOf
  <2> QED BY <2>1, <1>1, <1>3 DEF Remembers
<1>11. Linked(cstack, j)
  BY <1>4, <1>5 DEF Shape
<1>12. /\ j = 1 => L = Main
       /\ j # 1 => cstack[i].th = L
  BY <1>1, <1>3, <1>11 DEF Linked
<1>13. /\ Cardinality(ForbidsTo(cstack, L, j)) = Cardinality(ForbidsTo(cstack, L, i))
       /\ HooksOff(cstack, L, j) <=> HooksOff(cstack, L, i) \/ p.gc
       /\ Cardinality(ForbidsTo(cstack, L, i)) \in Nat
  <2>1. /\ Cardinality(ForbidsTo(cstack, L, j))
             = Cardinality(ForbidsTo(cstack, L, i)) + One(cstack[j].th = L /\ Forbids(cstack[j]))
        /\ HooksOff(cstack, L, j) <=> \/ HooksOff(cstack, L, i)
                                      \/ cstack[j].th = L /\ TurnsOff(cstack[j])
    BY <1>5, CountStep
  <2>2. ~Forbids(cstack[j]) /\ (TurnsOff(cstack[j]) <=> p.gc)
    BY <1>1, <1>3 DEF Forbids, TurnsOff
  <2>3. Cardinality(ForbidsTo(cstack, L, i)) \in Nat
    BY <1>5, SetsFinite
  <2> QED BY <2>1, <2>2, <2>3, <1>3 DEF One
<1>14. L \in Thread /\ cstack # <<>>
  <2>1. cstack # <<>>
    BY <1>1 DEF CallEnds, Returns, Running
  <2> QED BY <2>1, RunsOK
<1>15. /\ nCcalls \in [Thread -> Nat] /\ nny \in [Thread -> Nat] /\ allowhook \in [Thread -> BOOLEAN]
       /\ errfunc \in [Thread -> BOOLEAN] /\ ci \in [Thread -> Seq(CallInfo)]
  BY DEF Inv, Fields, Shaped, StackTypes
<1> HIDE DEF p, r, i, j
<1>16. /\ nCcalls' \in [Thread -> Nat] /\ nCcalls'[L] = Cardinality(CallsTo(cstack, i))
       /\ \A t \in Thread : t # L => nCcalls'[t] = nCcalls[t]
  BY <1>1, <1>9, <1>10, <1>14, <1>15
<1>17. /\ nny' \in [Thread -> Nat]
       /\ nny'[L] = One(L = Main) + Cardinality(ForbidsTo(cstack, L, i))
       /\ \A t \in Thread : t # L => nny'[t] = nny[t]
  <2>1. nny' = [nny EXCEPT ![L] = nny[L] - 1]
    BY <1>1, <1>3, <1>7
  <2>2. One(L = Main) \in Nat /\ One(r.noyield) = 1
    BY <1>7 DEF One
  <2>3. nny[L] - 1 = One(L = Main) + Cardinality(ForbidsTo(cstack, L, i)) /\ nny[L] - 1 \in Nat
    BY <2>2, <1>8, <1>13
  <2> QED BY <2>1, <2>3, <1>14, <1>15
<1>18. /\ allowhook' \in [Thread -> BOOLEAN] /\ allowhook'[L] = ~HooksOff(cstack, L, i)
       /\ \A t \in Thread : t # L => allowhook'[t] = allowhook[t]
  <2>1. CASE p.gc
    BY <2>1, <1>1, <1>9, <1>10, <1>14, <1>15
  <2>2. CASE ~p.gc
    BY <2>2, <1>1, <1>8, <1>13, <1>14, <1>15
  <2> QED BY <2>1, <2>2
<1>19. errfunc' \in [Thread -> BOOLEAN] /\ \A t \in Thread : t # L => ci'[t] = ci[t]
  BY <1>1, <1>9, <1>15
<1>20. Cuts(i, nCcalls', nny', allowhook', status')
  <2>1. One(L = Main) = One(L = Main \/ i = 0 \/ cstack[i].th # L)
    BY <1>5, <1>12
  <2>2. \A l \in i + 1 .. Depth : cstack[l].th = L
    BY <1>3, <1>5, <1>8
  <2> QED BY <2>1, <2>2, <1>1, <1>16, <1>17, <1>18 DEF Cuts
<1> QED BY <1>1, <1>5, <1>6, <1>14, <1>16, <1>17, <1>18, <1>19, <1>20, ReturnKept

-----------------------------------------------------------------------------
(* The calls                                                               *)

LEMMA CallMoves ==
    ASSUME Shaped, L \in Thread, NEW cs \in Seq(Entry),
           \A i \in 1 .. Len(cs) : cs[i].th = L \/ (i \in 1 .. Depth /\ cs[i] = cstack[i]),
           NEW frames, Len(frames) \in Nat, NEW noyield \in BOOLEAN,
           NEW caller \in {"meta", "hook", "handler", "function"}, NEW fn,
           Call(frames, cs, noyield, caller, fn)
    PROVE  Moves
<1> DEFINE d == DCall(Len(frames), noyield, caller)
           e == Execute(Len(frames))
           k == Len(cs)
           n == k + 1
           m == k + 2
           c1 == Append(cs, d)
           c2 == Append(c1, e)
<1>1. (cstack' = c1 \/ cstack' = c2) /\ \E F : ci' = [ci EXCEPT ![L] = F]
  BY Zenon DEF Call, Enter
<1>2. d \in Entry /\ e \in Entry /\ d.th = L /\ e.th = L
  BY EntryType
<1> HIDE DEF d, e
<1>3. /\ k \in Nat /\ n \in Nat /\ n = k + 1 /\ m = n + 1 /\ m \in Nat
      /\ \A i \in 1 .. n : i \in 1 .. k \/ i = n
      /\ \A i \in 1 .. m : i \in 1 .. n \/ i = m
  OBVIOUS
<1>4. /\ c1 \in Seq(Entry) /\ Len(c1) = n /\ c1[n] = d /\ \A i \in 1 .. k : c1[i] = cs[i]
  BY <1>2
<1> HIDE DEF n, m, c1
<1>5. Len(c2) = m /\ c2[m] = e /\ \A i \in 1 .. n : c2[i] = c1[i]
  BY <1>2, <1>3, <1>4
<1> HIDE DEF c2, k
<1>6. \A i \in 1 .. k : cs[i].th = L \/ (i \in 1 .. Depth /\ cs[i] = cstack[i])
  BY DEF k
<1>7. \A i \in 1 .. n : c1[i].th = L \/ (i \in 1 .. Depth /\ c1[i] = cstack[i])
  BY <1>2, <1>3, <1>4, <1>6
<1>8. \A i \in 1 .. m : c2[i].th = L \/ (i \in 1 .. Depth /\ c2[i] = cstack[i])
  BY <1>2, <1>3, <1>5, <1>7
<1>9. \A i \in 1 .. Len(cstack') : cstack'[i].th = L \/ (i \in 1 .. Depth /\ cstack'[i] = cstack[i])
  <2>1. CASE cstack' = c1
    BY <2>1, <1>4, <1>7
  <2>2. CASE cstack' = c2
    BY <2>2, <1>5, <1>8
  <2> QED BY <2>1, <2>2, <1>1
<1>10. \A t \in Thread : t # L => ci'[t] = ci[t]
  BY <1>1 DEF Shaped, StackTypes
<1> QED BY <1>9, <1>10 DEF Moves

LEMMA CallKept ==
    ASSUME Inv, Running \/ raise = "errormsg",
           NEW frames \in Seq(CallInfo), NEW noyield \in BOOLEAN,
           NEW caller \in {"meta", "hook", "handler", "function"}, NEW fn,
           Call(frames, cstack, noyield, caller, fn),
           errfunc' \in [Thread -> BOOLEAN],
           IF caller = "hook" THEN allowhook[L] /\ allowhook' = [allowhook EXCEPT ![L] = FALSE]
           ELSE allowhook' = allowhook
    PROVE  Kept'
<1>1. cstack # <<>>
  BY Raised DEF Running, Inv
<1>2. /\ L \in Thread /\ status[L] = "LUA_OK" /\ cstack \in Seq(Entry) /\ Depth = Len(cstack)
      /\ cstack[Len(cstack)].th = L /\ Len(frames) \in Nat /\ Depth \in Nat
  BY <1>1, RunsOK, ActFacts DEF Inv, Shaped, StackTypes, Act, Depth
<1>3. /\ nCcalls \in [Thread -> Nat] /\ nny \in [Thread -> Nat] /\ allowhook \in [Thread -> BOOLEAN]
      /\ CountsOf(cstack, nCcalls, nny, allowhook, status) /\ Together(cstack, L)
  BY <1>1, LastTogether DEF Inv, Fields, Counts
<1>4. Calling(cstack, allowhook, caller)
  BY <1>1, <1>2, <1>3 DEF Calling
<1>5. /\ \A t \in Thread : t # L => allowhook'[t] = allowhook[t]
      /\ allowhook'[L] = (allowhook[L] /\ caller # "hook") /\ allowhook' \in [Thread -> BOOLEAN]
  BY <1>2, <1>3
<1>6. /\ CountsOf(cstack', nCcalls', nny', allowhook', status')
      /\ nCcalls' \in [Thread -> Nat] /\ nny' \in [Thread -> Nat]
  BY <1>2, <1>4, <1>5, CallCounts
<1>7. /\ status' = status /\ unstarted' = unstarted
      /\ \/ cstack' = Append(cstack, DCall(Len(frames), noyield, caller))
         \/ cstack' = Append(Append(cstack, DCall(Len(frames), noyield, caller)), Execute(Len(frames)))
      /\ \E F : ci' = [ci EXCEPT ![L] = F]
  BY Zenon DEF Call, Enter
<1>8. Moves
  <2>1. \A i \in 1 .. Len(cstack) : cstack[i].th = L \/ (i \in 1 .. Depth /\ cstack[i] = cstack[i])
    BY <1>2
  <2> QED BY <2>1, <1>2, CallMoves DEF Inv
<1>9. Threads'
  BY <1>1, <1>7, <1>8, MovesThreads
<1>10. Fields'
  BY <1>5, <1>6, <1>7 DEF Inv, Fields
<1>11. Counts'
  BY <1>6 DEF Counts
<1> QED BY <1>9, <1>10, <1>11 DEF Kept

LEMMA PlainCallsKept ==
    ASSUME Inv, \/ CallTM \/ Hook \/ CallK \/ LuaCall
    PROVE  Kept'
<1>0. errfunc \in [Thread -> BOOLEAN] /\ (cstack # <<>> => nny[L] \in Nat)
  BY RunsOK DEF Inv, Fields
<1>1. ASSUME Running, NEW x, IF Top.fn = "lua" THEN x \in LuaStates ELSE x \in Resting \cup {"in"},
             Top.st \in Resting \cup {"run"}
      PROVE  SetTop(ci[L], x) \in Seq(CallInfo)
  <2>1. Top \in CallInfo
    BY <1>1, TopFacts DEF Inv
  <2>2. ~Top.ypcall
    BY <1>1, <2>1, FrameFields DEF Resting
  <2> QED BY <1>1, <2>2, TopSet DEF Inv
<1>2. CASE CallTM
  <2>1. Running /\ Top.fn = "lua" /\ Top.st = "run" /\ errfunc' = errfunc /\ allowhook' = allowhook
    BY <1>2 DEF CallTM, RunsLua
  <2>2. PICK fn \in Fns : Call(SetTop(ci[L], "meta"), cstack, FALSE, "meta", fn)
    BY <1>2, Zenon DEF CallTM
  <2>3. SetTop(ci[L], "meta") \in Seq(CallInfo)
    BY <2>1, <1>1 DEF LuaStates
  <2> QED BY <2>1, <2>2, <2>3, <1>0, CallKept
<1>3. CASE Hook
  <2>1. /\ Running /\ Top.fn = "lua" /\ Top.st = "run" /\ errfunc' = errfunc /\ allowhook[L]
        /\ allowhook' = [allowhook EXCEPT ![L] = FALSE]
        /\ Call(SetTop(ci[L], "out"), cstack, TRUE, "hook", "lua")
    BY <1>3 DEF Hook, RunsLua
  <2>2. SetTop(ci[L], "out") \in Seq(CallInfo)
    BY <2>1, <1>1 DEF LuaStates
  <2> QED BY <2>1, <2>2, <1>0, CallKept
<1>4. CASE CallK \/ LuaCall
  <2>1. /\ Running /\ Top.fn # "lua" /\ Top.st = "start" /\ errfunc' = errfunc /\ allowhook' = allowhook
    BY <1>4 DEF CallK, LuaCall, RunsC
  <2>2. PICK fn \in Fns, noyield \in BOOLEAN : Call(SetTop(ci[L], "in"), cstack, noyield, "function", fn)
    <3>1. CASE CallK
      <4>1. \E fn \in Fns : Call(SetTop(ci[L], "in"), cstack, nny[L] > 0, "function", fn)
        BY <3>1, Zenon DEF CallK
      <4>2. (nny[L] > 0) \in BOOLEAN
        OBVIOUS
      <4> QED BY <4>1, <4>2, Zenon
    <3>2. CASE LuaCall
      <4>1. \E fn \in Fns : Call(SetTop(ci[L], "in"), cstack, TRUE, "function", fn)
        BY <3>2, Zenon DEF LuaCall
      <4>2. TRUE \in BOOLEAN
        OBVIOUS
      <4> QED BY <4>1, <4>2, Zenon
    <3> QED BY <3>1, <3>2, <1>4
  <2>3. SetTop(ci[L], "in") \in Seq(CallInfo)
    BY <2>1, <1>1 DEF Resting
  <2> QED BY <2>1, <2>2, <2>3, <1>0, CallKept
<1> QED BY <1>2, <1>3, <1>4

LEMMA ErrorMsgKept == ASSUME Inv, ErrorMsg PROVE Kept'
<1>1. raise = "errormsg" /\ cstack # <<>>
  BY Raised DEF ErrorMsg, Inv
<1>2. /\ L \in Thread /\ ci[L] \in Seq(CallInfo) /\ errfunc \in [Thread -> BOOLEAN]
  BY <1>1, ActFacts DEF Inv, Fields
<1>3. CASE errfunc[L]
  <2>1. Call(ci[L], cstack, TRUE, "handler", "lua") /\ errfunc' = errfunc /\ allowhook' = allowhook
    BY <1>3 DEF ErrorMsg
  <2> QED BY <2>1, <1>1, <1>2, CallKept
<1>4. CASE ~errfunc[L]
  <2>1. /\ UNCHANGED <<nCcalls, nny, allowhook, status, unstarted, cstack>>
        /\ ci' = ci /\ errfunc' = errfunc
    BY <1>4 DEF ErrorMsg, fields
  <2> QED BY <2>1, <1>1, <1>2, StayKept
<1> QED BY <1>3, <1>4

LEMMA ProtectedKept ==
    ASSUME Inv, Running, NEW gc \in BOOLEAN, NEW frames \in Seq(CallInfo), NEW fn,
           Call(frames, Append(cstack, PCall(gc)), TRUE, "function", fn),
           errfunc' \in [Thread -> BOOLEAN],
           allowhook' = IF gc THEN [allowhook EXCEPT ![L] = FALSE] ELSE allowhook
    PROVE  Kept'
<1> DEFINE r == PCall(gc)
           cs == Append(cstack, r)
           n == Depth + 1
<1>1. cstack # <<>>
  BY DEF Running
<1>2. /\ L \in Thread /\ status[L] = "LUA_OK" /\ cstack \in Seq(Entry) /\ Depth = Len(cstack)
      /\ cstack[Len(cstack)].th = L /\ Len(frames) \in Nat /\ Depth \in Nat /\ Size \in Nat
  BY <1>1, RunsOK, ActFacts DEF Inv, Shaped, StackTypes, Act, Depth
<1>3. /\ nCcalls \in [Thread -> Nat] /\ nny \in [Thread -> Nat] /\ allowhook \in [Thread -> BOOLEAN]
      /\ CountsOf(cstack, nCcalls, nny, allowhook, status) /\ Together(cstack, L)
  BY <1>1, LastTogether DEF Inv, Fields, Counts
<1>4. /\ r \in Entry /\ r.c = "luaD_pcall" /\ r.th = L /\ r.gc = gc
      /\ r.nCcalls = nCcalls[L] /\ r.nny = nny[L] /\ r.allowhook = allowhook[L]
  BY <1>2, PCallType, InvType DEF PCall
<1> HIDE DEF r
<1>5. One(IsCall(r)) = 0 /\ One(Forbids(r)) = 0 /\ (TurnsOff(r) <=> gc)
  BY <1>4 DEF IsCall, Forbids, TurnsOff, One
<1>6. /\ nCcalls = [nCcalls EXCEPT ![L] = nCcalls[L] + One(IsCall(r))]
      /\ nny = [nny EXCEPT ![L] = nny[L] + One(Forbids(r))]
  <2>1. nCcalls[L] + 0 = nCcalls[L] /\ nny[L] + 0 = nny[L]
    BY <1>2, <1>3
  <2> QED BY <2>1, <1>3, <1>5
<1>7. /\ \A t \in Thread : t # L => allowhook'[t] = allowhook[t]
      /\ allowhook'[L] = (allowhook[L] /\ ~TurnsOff(r)) /\ allowhook' \in [Thread -> BOOLEAN]
  <2>1. CASE gc
    BY <2>1, <1>2, <1>3, <1>5
  <2>2. CASE ~gc
    BY <2>2, <1>2, <1>3, <1>5
  <2> QED BY <2>1, <2>2
<1>8. AddsTop(cstack, nCcalls, nny, allowhook, status, r, nCcalls, nny, allowhook')
  BY <1>1, <1>2, <1>3, <1>4, <1>6, <1>7 DEF AddsTop
<1>9. CountsOf(cs, nCcalls, nny, allowhook', status) /\ Together(cs, L)
  BY <1>2, <1>4, <1>8, PushTop
<1>10. /\ cs \in Seq(Entry) /\ cs # <<>> /\ Len(cs) = n /\ cs[n] = r /\ n \in Nat
       /\ \A i \in 1 .. Depth : cs[i] = cstack[i]
       /\ \A i \in 1 .. n : i \in 1 .. Depth \/ i = n
  <2>1. Len(cstack) \in Nat /\ Depth = Len(cstack) /\ cstack \in Seq(Entry) /\ r \in Entry
    BY <1>2, <1>4
  <2>2. n = Len(cstack) + 1 /\ n \in Nat /\ \A i \in 1 .. n : i \in 1 .. Depth \/ i = n
    BY <2>1
  <2>3. /\ cs \in Seq(Entry) /\ Len(cs) = Len(cstack) + 1 /\ cs[Len(cstack) + 1] = r
        /\ \A i \in 1 .. Len(cstack) : cs[i] = cstack[i]
    BY <2>1
  <2> HIDE DEF n, cs
  <2>4. cs # <<>>
    BY <2>1, <2>3
  <2> QED BY <2>1, <2>2, <2>3, <2>4
<1>11. Call(frames, cs, TRUE, "function", fn)
  BY DEF r
<1> HIDE DEF cs, n
<1>14. /\ CountsOf(cstack', nCcalls', nny', allowhook', status')
       /\ nCcalls' \in [Thread -> Nat] /\ nny' \in [Thread -> Nat]
  <2>1. PICK ah : ah = allowhook'
    OBVIOUS
  <2>2. PICK caller : caller = "function"
    OBVIOUS
  <2>3. caller \in {"meta", "hook", "handler", "function"} /\ caller # "hook"
    BY <2>2
  <2>4. /\ CountsOf(cs, nCcalls, nny, ah, status) /\ Together(cs, L) /\ ah[L] \in BOOLEAN
    BY <2>1, <1>2, <1>7, <1>9
  <2>5. cs[Len(cs)].th = L
    BY <1>4, <1>10
  <2>6. Calling(cs, ah, caller)
    BY <2>3, <2>4, <2>5, <1>2, <1>3, <1>10 DEF Calling
  <2>7. ah[L] = (ah[L] /\ caller # "hook") /\ \A t \in Thread : t # L => ah[t] = ah[t]
    BY <2>3, <2>4
  <2>8. PICK noyield \in BOOLEAN : noyield = TRUE
    OBVIOUS
  <2>9. /\ Call(frames, cs, noyield, caller, fn)
        /\ Len(frames) \in Nat /\ noyield \in BOOLEAN /\ cs \in Seq(Entry)
    <3>1. Call(frames, cs, noyield, caller, fn)
      BY <1>11, <2>2, <2>8, Zenon
    <3> QED BY <3>1, <1>2, <1>10
  <2>10. /\ CountsOf(cstack', nCcalls', nny', ah, status')
         /\ nCcalls' \in [Thread -> Nat] /\ nny' \in [Thread -> Nat]
    BY <2>3, <2>6, <2>7, <2>9, CallCounts
  <2> QED BY <2>1, <2>10
<1>15. status' = status /\ unstarted' = unstarted
  BY DEF Call
<1>16. Moves
  <2>1. \A i \in 1 .. Len(cs) : cs[i].th = L \/ (i \in 1 .. Depth /\ cs[i] = cstack[i])
    BY <1>4, <1>10
  <2> QED BY <2>1, <1>2, <1>10, <1>11, CallMoves DEF Inv
<1>17. Threads'
  BY <1>1, <1>15, <1>16, MovesThreads
<1>18. Fields'
  BY <1>7, <1>14, <1>15 DEF Inv, Fields
<1>19. Counts'
  BY <1>14 DEF Counts
<1> QED BY <1>17, <1>18, <1>19 DEF Kept

LEMMA FinalizerKept == ASSUME Inv, Finalizer PROVE Kept'
<1>1. /\ Running /\ Top.fn = "lua" /\ Top.st = "run"
      /\ allowhook' = [allowhook EXCEPT ![L] = FALSE]
      /\ errfunc' = [errfunc EXCEPT ![L] = FALSE]
      /\ Call(SetTop(ci[L], "out"), Append(cstack, PCall(TRUE)), TRUE, "function", "lua")
  BY DEF Finalizer, RunsLua
<1>2. SetTop(ci[L], "out") \in Seq(CallInfo)
  <2>1. Top \in CallInfo
    BY <1>1, TopFacts DEF Inv
  <2>2. ~Top.ypcall
    BY <1>1, <2>1, FrameFields
  <2> QED BY <1>1, <2>2, TopSet DEF Inv, LuaStates
<1>3. errfunc' \in [Thread -> BOOLEAN]
  BY <1>1 DEF Inv, Fields
<1> QED BY <1>1, <1>2, <1>3, ProtectedKept

LEMMA PCallKKept == ASSUME Inv, PCallK PROVE Kept'
<1>1. /\ Running /\ Top.fn \in {"pcall", "xpcall"} /\ Top.st = "start" /\ allowhook' = allowhook
      /\ errfunc' = [errfunc EXCEPT ![L] = Top.fn = "xpcall"]
  BY DEF PCallK, RunsC
<1>2. Top \in CallInfo /\ L \in Thread /\ cstack # <<>>
  BY <1>1, TopFacts, ActFacts DEF Inv
<1>3. ~Top.ypcall
  BY <1>1, <1>2, FrameFields
<1>4. \E fn \in Fns :
         \/ /\ nny[L] > 0
            /\ Call(SetTop(ci[L], "in"), Append(cstack, PCall(FALSE)), TRUE, "function", fn)
         \/ /\ nny[L] = 0
            /\ Call(Append(Front(ci[L]),
                           [Top EXCEPT !.st = "in", !.ypcall = TRUE, !.old_errfunc = errfunc[L],
                                       !.oah = allowhook[L]]),
                    cstack, FALSE, "function", fn)
  BY Zenon DEF PCallK
<1>5. nny[L] \in Nat /\ errfunc' \in [Thread -> BOOLEAN] /\ errfunc[L] \in BOOLEAN
  BY <1>1, <1>2 DEF Inv, Fields
<1>6. CASE nny[L] > 0
  <2>1. nny[L] # 0
    BY <1>6
  <2>2. PICK fn \in Fns : Call(SetTop(ci[L], "in"), Append(cstack, PCall(FALSE)), TRUE, "function", fn)
    BY <2>1, <1>4, Zenon
  <2>3. SetTop(ci[L], "in") \in Seq(CallInfo)
    BY <1>1, <1>2, <1>3, TopSet DEF Inv
  <2> QED BY <2>2, <2>3, <1>1, <1>5, ProtectedKept
<1>7. CASE nny[L] = 0
  <2> DEFINE fr == [Top EXCEPT !.st = "in", !.ypcall = TRUE, !.old_errfunc = errfunc[L],
                               !.oah = allowhook[L]]
  <2>1. ~(nny[L] > 0)
    BY <1>7
  <2>2. PICK fn \in Fns : Call(Append(Front(ci[L]), fr), cstack, FALSE, "function", fn)
    BY <2>1, <1>4, Zenon
  <2>3. fr \in CallInfo
    <3>1. allowhook[L]
      BY <1>2, <1>7, HooksMayRun DEF Inv
    <3> QED BY <3>1, <1>1, <1>2, <1>5 DEF CallInfo, LuaStates, Resting
  <2> HIDE DEF fr
  <2>4. Append(Front(ci[L]), fr) \in Seq(CallInfo)
    BY <2>3, <1>1, TopReplaced DEF Inv
  <2> QED BY <2>2, <2>4, <1>1, <1>5, CallKept
<1> QED BY <1>5, <1>6, <1>7

-----------------------------------------------------------------------------
(* Coroutines are resumed                                                  *)

Idle(co) == co \in Co /\ (\A i \in 1 .. Depth : cstack[i].th # co) /\ status[co] # "error"

LEMMA ResumeCounts ==
    ASSUME Inv, NEW co, Idle(co), EnterResume(co)
    PROVE  LET cs2 == Append(cstack, ResumeRecord(co)) IN
           /\ CountsOf(cs2, nCcalls', nny', allowhook', status') /\ Together(cs2, co)
           /\ cs2 \in Seq(Entry) /\ Len(cs2) = Depth + 1 /\ cs2[Depth + 1].th = co
           /\ \A i \in 1 .. Depth : cs2[i] = cstack[i]
           /\ nCcalls' \in [Thread -> Nat] /\ nny' \in [Thread -> Nat]
           /\ status' = [status EXCEPT ![co] = "LUA_OK"]
           /\ status' \in [Thread -> {"LUA_OK", "LUA_YIELD", "error"}]
           /\ errfunc' = errfunc /\ allowhook' = allowhook
           /\ L # co /\ L \in Thread /\ co \in Thread /\ co # Main /\ Depth \in Nat
<1> DEFINE r == ResumeRecord(co)
           cs2 == Append(cstack, r)
           n == Depth
<1>1. /\ nCcalls' = [nCcalls EXCEPT ![co] = nCcalls[L] + 1] /\ nny' = [nny EXCEPT ![co] = 0]
      /\ status' = [status EXCEPT ![co] = "LUA_OK"]
      /\ errfunc' = errfunc /\ allowhook' = allowhook /\ cstack # <<>>
  BY DEF EnterResume, Resumes, Running
<1>2. /\ nCcalls \in [Thread -> Nat] /\ nny \in [Thread -> Nat] /\ allowhook \in [Thread -> BOOLEAN]
      /\ status \in [Thread -> {"LUA_OK", "LUA_YIELD", "error"}]
      /\ CountsOf(cstack, nCcalls, nny, allowhook, status)
  BY DEF Inv, Fields, Counts
<1>3. /\ n \in Nat /\ n = Len(cstack) /\ cstack \in Seq(Entry) /\ L \in Thread
      /\ n \in 1 .. n /\ L = cstack[n].th
  BY <1>1, ActFacts DEF Inv, Shaped, StackTypes, Depth, Act
<1>4. co \in Thread /\ L # co /\ co # Main /\ \A i \in 1 .. n : cstack[i].th # co
  BY <1>3, CallsAssumption DEF Idle, Thread
<1>5. nCcalls[L] = Cardinality(CallsTo(cstack, n)) /\ nCcalls[L] \in Nat /\ nCcalls[L] + 1 \in Nat
  BY <1>1, <1>2, <1>3, LUncounted
<1>6. nny[co] = 1 /\ Cardinality(ForbidsTo(cstack, co, n)) = 0 /\ ~HooksOff(cstack, co, n)
  <2>1. ForbidsTo(cstack, co, n) = {}
    BY <1>4 DEF ForbidsTo
  <2>2. ~HooksOff(cstack, co, n)
    BY <1>4 DEF HooksOff
  <2>3. Base(cstack, co) = 1
    BY <1>3, <1>4 DEF Base
  <2>4. nny[co] = Base(cstack, co) + Cardinality(ForbidsTo(cstack, co, n))
    BY <1>2, <1>3, <1>4 DEF CountsOf
  <2>5. Cardinality(ForbidsTo(cstack, co, n)) = 0
    BY <2>1, FS_EmptySet
  <2> QED BY <2>2, <2>3, <2>4, <2>5
<1>7. allowhook[co] = TRUE
  BY <1>2, <1>3, <1>4, <1>6 DEF CountsOf, Idle
<1>8. /\ r \in Entry /\ r.c = "lua_resume" /\ r.th = co /\ r.nCcalls = nCcalls[L] + 1 /\ r.nny = 1
  <2>1. nny[co] \in Nat
    BY <1>2, <1>4
  <2> QED BY <2>1, <1>4, <1>5, <1>6 DEF ResumeRecord, Entry
<1>9. /\ cs2 \in Seq(Entry) /\ Len(cs2) = n + 1 /\ cs2[n + 1] = r
      /\ \A i \in 1 .. n : cs2[i] = cstack[i]
  BY <1>3, <1>8
<1> HIDE DEF r, n
<1>10. One(IsCall(r)) = 1 /\ One(Forbids(r)) = 0 /\ ~TurnsOff(r) /\ One(co = Main) = 0
  BY <1>4, <1>8 DEF IsCall, Forbids, TurnsOff, One
<1> HIDE DEF cs2
<1>11. Remembers(cs2, n + 1)
  <2> DEFINE m == n + 1
  <2>1. m \in Nat /\ m > 0 /\ m - 1 = n
    BY <1>3
  <2>2. cs2[m] = r
    BY <1>9
  <2> HIDE DEF m
  <2>3. Cardinality(CallsTo(cs2, m)) = Cardinality(CallsTo(cs2, n)) + One(IsCall(r))
    BY <2>1, <2>2, CountStep
  <2>4. CallsTo(cs2, n) = CallsTo(cstack, n)
    BY <1>3, <1>9, CountSame
  <2>5. r.nCcalls = Cardinality(CallsTo(cs2, m))
    BY <2>3, <2>4, <1>5, <1>8, <1>10
  <2>6. Remembers(cs2, m)
    BY <2>2, <2>5, <1>8 DEF Remembers
  <2> QED BY <2>6 DEF m
<1>12. /\ \A t \in Thread : t # co => /\ nCcalls'[t] = nCcalls[t] /\ nny'[t] = nny[t]
                                      /\ allowhook'[t] = allowhook[t] /\ status'[t] = status[t]
       /\ nCcalls'[co] = nCcalls[L] + 1 /\ nny'[co] = 0 /\ status'[co] = "LUA_OK"
       /\ allowhook'[co] = TRUE
       /\ nCcalls' \in [Thread -> Nat] /\ nny' \in [Thread -> Nat]
       /\ status' \in [Thread -> {"LUA_OK", "LUA_YIELD", "error"}]
  BY <1>1, <1>2, <1>4, <1>5, <1>7
<1>13. Together(cstack, co)
  BY <1>3, <1>4 DEF Together
<1>14. /\ nCcalls'[co] = Cardinality(CallsTo(cstack, n)) + One(IsCall(r))
       /\ nny'[co] = One(co = Main) + Cardinality(ForbidsTo(cstack, co, n)) + One(Forbids(r))
       /\ allowhook'[co] = ~(HooksOff(cstack, co, n) \/ TurnsOff(r))
  <2>1. nCcalls'[co] = Cardinality(CallsTo(cstack, n)) + One(IsCall(r))
    BY <1>5, <1>10, <1>12
  <2>2. nny'[co] = One(co = Main) + Cardinality(ForbidsTo(cstack, co, n)) + One(Forbids(r))
    BY <1>6, <1>10, <1>12
  <2>3. allowhook'[co] = ~(HooksOff(cstack, co, n) \/ TurnsOff(r))
    BY <1>6, <1>10, <1>12, Zenon
  <2> QED BY <2>1, <2>2, <2>3
<1>15. Adds(cstack, nCcalls, nny, allowhook, status, r, nCcalls', nny', allowhook', status')
  BY <1>2, <1>3, <1>8, <1>11, <1>12, <1>13, <1>14 DEF Adds, cs2
<1>16. CountsOf(Append(cstack, r), nCcalls', nny', allowhook', status') /\ Together(Append(cstack, r), r.th)
  BY <1>3, <1>8, <1>15, PushCounts
<1> QED BY <1>1, <1>3, <1>4, <1>8, <1>9, <1>12, <1>16 DEF r, cs2, n

LEMMA ResumeThreads ==
    ASSUME Inv, cstack # <<>>, NEW co, Idle(co), co \notin unstarted', unstarted' \subseteq unstarted,
           status' = [status EXCEPT ![co] = "LUA_OK"],
           \A i \in 1 .. Len(cstack') : cstack'[i].th = co \/ (i \in 1 .. Depth /\ cstack'[i] = cstack[i]),
           \A t \in Thread : t # L /\ t # co => ci'[t] = ci[t]
    PROVE  Threads'
<1>1. /\ Threads /\ status \in [Thread -> {"LUA_OK", "LUA_YIELD", "error"}]
  BY DEF Inv, Fields
<1>2. \A th \in Co : status[th] = "LUA_YIELD" => th # L
  BY RunsOK
<1>3. co \in Thread /\ co # Main /\ Main \in Thread
  BY CallsAssumption DEF Idle, Thread
<1>4. status'[co] = "LUA_OK" /\ \A t \in Thread : t # co => status'[t] = status[t]
  BY <1>1, <1>3
<1>5. ASSUME NEW i \in 1 .. Len(cstack')
      PROVE  status'[cstack'[i].th] = "LUA_OK" /\ cstack'[i].th \notin unstarted'
  <2>1. CASE cstack'[i].th = co
    BY <2>1, <1>4
  <2>2. CASE i \in 1 .. Depth /\ cstack'[i] = cstack[i]
    <3>1. status[cstack[i].th] = "LUA_OK" /\ cstack[i].th \notin unstarted
      BY <2>2, <1>1 DEF Threads, Depth
    <3>2. cstack[i].th \in Thread
      BY <2>2, EntryFields DEF Inv, Shaped, StackTypes, Depth
    <3> QED BY <3>1, <3>2, <2>2, <1>4
  <2> QED BY <2>1, <2>2
<1>6. ASSUME NEW th \in Co, status'[th] = "LUA_YIELD"
      PROVE  Suspended(ci', th) /\ th \notin unstarted'
  <2>1. th # co /\ th \in Thread
    BY <1>4, <1>6 DEF Thread
  <2>2. status[th] = "LUA_YIELD"
    BY <2>1, <1>4, <1>6
  <2>3. Suspended(ci, th) /\ th \notin unstarted /\ ci'[th] = ci[th]
    BY <2>1, <2>2, <1>1, <1>2 DEF Threads
  <2> QED BY <2>3 DEF Suspended
<1>7. status'[Main] = "LUA_OK"
  BY <1>1, <1>3, <1>4 DEF Threads
<1>8. \A th \in unstarted' : status'[th] = "LUA_OK"
  BY <1>1, <1>4 DEF Threads, Inv, Fields, Thread
<1> QED BY <1>5, <1>6, <1>7, <1>8 DEF Threads

LEMMA ContinueCoroutineKept == ASSUME Inv, ContinueCoroutine PROVE Kept'
<1>1. PICK co \in Co : /\ status[co] = "LUA_YIELD" /\ EnterResume(co)
                       /\ ci' = [ci EXCEPT ![L] = SetTop(@, "in"), ![co] = Front(@)]
                       /\ cstack' = Append(cstack, ResumeRecord(co)) /\ unstarted' = unstarted
  BY DEF ContinueCoroutine
<1>2. Idle(co) /\ co \notin unstarted /\ cstack # <<>>
  BY <1>1 DEF Inv, Threads, Idle, EnterResume, Resumes, Running, Depth
<1>3. /\ CountsOf(cstack', nCcalls', nny', allowhook', status')
      /\ Len(cstack') = Depth + 1 /\ cstack'[Depth + 1].th = co
      /\ \A i \in 1 .. Depth : cstack'[i] = cstack[i]
      /\ nCcalls' \in [Thread -> Nat] /\ nny' \in [Thread -> Nat]
      /\ status' = [status EXCEPT ![co] = "LUA_OK"]
      /\ status' \in [Thread -> {"LUA_OK", "LUA_YIELD", "error"}]
      /\ errfunc' = errfunc /\ allowhook' = allowhook /\ L # co /\ L \in Thread
      /\ co \in Thread /\ Depth \in Nat
  BY <1>1, <1>2, ResumeCounts
<1>4. \A i \in 1 .. Len(cstack') : cstack'[i].th = co \/ (i \in 1 .. Depth /\ cstack'[i] = cstack[i])
  <2>1. \A i \in 1 .. Len(cstack') : i \in 1 .. Depth \/ i = Depth + 1
    BY <1>3
  <2> QED BY <2>1, <1>3
<1>5. \A t \in Thread : t # L /\ t # co => ci'[t] = ci[t]
  BY <1>1, <1>3 DEF Inv, Shaped, StackTypes
<1>6. Threads'
  BY <1>1, <1>2, <1>3, <1>4, <1>5, ResumeThreads
<1>7. Counts'
  BY <1>3 DEF Counts
<1>8. Fields'
  BY <1>1, <1>3 DEF Inv, Fields
<1> QED BY <1>6, <1>7, <1>8 DEF Kept

LEMMA StartCoroutineKept == ASSUME Inv, StartCoroutine PROVE Kept'
<1>1. PICK co \in {c \in unstarted : MaxFrames[c] > 0}, fn \in Fns :
        /\ EnterResume(co)
        /\ unstarted' = unstarted \ {co}
        /\ ci' = [ci EXCEPT ![L] = SetTop(@, "in"),
                            ![co] = <<[Frame(fn) EXCEPT !.fresh = fn = "lua"]>>]
        /\ cstack' = IF fn = "lua" THEN Append(Append(cstack, ResumeRecord(co)),
                                               [c |-> "luaV_execute", th |-> co, ci |-> 0])
                     ELSE Append(cstack, ResumeRecord(co))
  BY DEF StartCoroutine
<1> DEFINE cs2 == Append(cstack, ResumeRecord(co))
           e == [c |-> "luaV_execute", th |-> co, ci |-> 0]
           n == Depth + 1
           m == Depth + 2
           cs3 == Append(cs2, e)
<1>2. co \in unstarted /\ co \in Co /\ unstarted \subseteq Co
  BY <1>1 DEF Inv, Fields
<1>3. Idle(co) /\ cstack # <<>>
  <2>1. \A i \in 1 .. Depth : cstack[i].th # co
    BY <1>2 DEF Inv, Threads, Depth
  <2>2. status[co] # "error"
    BY <1>2 DEF Inv, Threads
  <2> QED BY <2>1, <2>2, <1>1, <1>2 DEF Idle, EnterResume, Resumes, Running
<1>4. /\ CountsOf(cs2, nCcalls', nny', allowhook', status') /\ Together(cs2, co)
      /\ cs2 \in Seq(Entry) /\ Len(cs2) = n /\ cs2[n].th = co
      /\ \A i \in 1 .. Depth : cs2[i] = cstack[i]
      /\ nCcalls' \in [Thread -> Nat] /\ nny' \in [Thread -> Nat]
      /\ status' = [status EXCEPT ![co] = "LUA_OK"]
      /\ status' \in [Thread -> {"LUA_OK", "LUA_YIELD", "error"}]
      /\ errfunc' = errfunc /\ allowhook' = allowhook /\ L # co /\ L \in Thread
      /\ co \in Thread /\ Depth \in Nat
  BY <1>1, <1>3, ResumeCounts
<1>5. cstack' = (IF fn = "lua" THEN cs3 ELSE cs2)
  BY <1>1
<1>6. e \in Entry /\ e.c = "luaV_execute" /\ e.th = co
  BY <1>4 DEF Entry
<1>7. status'[co] = "LUA_OK" /\ allowhook'[co] \in BOOLEAN
  BY <1>4 DEF Inv, Fields
<1>8. /\ n \in Nat /\ n = Depth + 1 /\ m = n + 1 /\ \A i \in 1 .. n : i \in 1 .. Depth \/ i = n
      /\ \A i \in 1 .. m : i \in 1 .. n \/ i = m
  BY <1>4
<1> HIDE DEF cs2, e, n, m
<1>9. Len(cs3) = m /\ cs3[m] = e /\ \A i \in 1 .. n : cs3[i] = cs2[i]
  BY <1>4, <1>6, <1>8
<1>10. CountsOf(cs3, nCcalls', nny', allowhook', status')
  <2>1. cs2 # <<>> /\ cs2[Len(cs2)].th = co
    BY <1>4, <1>8
  <2> QED BY <2>1, <1>4, <1>6, <1>7, PushExecute
<1> HIDE DEF cs3
<1>11. \A i \in 1 .. Len(cs2) : cs2[i].th = co \/ (i \in 1 .. Depth /\ cs2[i] = cstack[i])
  BY <1>4, <1>8
<1>12. \A i \in 1 .. Len(cs3) : cs3[i].th = co \/ (i \in 1 .. Depth /\ cs3[i] = cstack[i])
  BY <1>4, <1>6, <1>8, <1>9, <1>11
<1>13. /\ CountsOf(cstack', nCcalls', nny', allowhook', status')
       /\ \A i \in 1 .. Len(cstack') : cstack'[i].th = co \/ (i \in 1 .. Depth /\ cstack'[i] = cstack[i])
  <2>1. CASE fn = "lua"
    <3>1. cstack' = cs3
      BY <2>1, <1>5
    <3> QED BY <3>1, <1>10, <1>12
  <2>2. CASE fn # "lua"
    <3>1. cstack' = cs2
      BY <2>2, <1>5
    <3> QED BY <3>1, <1>4, <1>11
  <2> QED BY <2>1, <2>2
<1>14. \A t \in Thread : t # L /\ t # co => ci'[t] = ci[t]
  BY <1>1, <1>4 DEF Inv, Shaped, StackTypes
<1>15. co \notin unstarted' /\ unstarted' \subseteq unstarted
  BY <1>1
<1>16. Threads'
  BY <1>3, <1>4, <1>13, <1>14, <1>15, ResumeThreads
<1>17. Counts'
  BY <1>13 DEF Counts
<1>18. Fields'
  BY <1>2, <1>4, <1>15 DEF Inv, Fields
<1> QED BY <1>16, <1>17, <1>18 DEF Kept

-----------------------------------------------------------------------------
(* Coroutines stop                                                         *)

LEMMA NoneBelow ==
    ASSUME Shaped, NEW j \in 1 .. Depth, cstack[j].c = "lua_resume", cstack[j].th = L
    PROVE  /\ \A i \in 1 .. j - 1 : cstack[i].th # L
           /\ j > 1 /\ L \in Co /\ L # Main
<1>1. Linked(cstack, j) /\ Apart(cstack, j)
  BY DEF Shaped, Shape, Depth
<1>2. j # 1 /\ L \in Co
  BY <1>1 DEF Linked
<1>3. Depth \in Nat
  BY DEF Shaped, StackTypes, Depth
<1>4. ASSUME NEW i \in 1 .. j - 1, cstack[i].th = L PROVE FALSE
  <2>1. j \in i + 1 .. j
    BY <1>3
  <2> QED BY <2>1, <1>1, <1>4 DEF Apart
<1> QED BY <1>2, <1>3, <1>4, CallsAssumption

LEMMA LeaveKept ==
    ASSUME Inv, cstack # <<>>, NEW j \in 1 .. Depth, cstack[j].c = "lua_resume",
           \A i \in j .. Depth : cstack[i].th = L,
           NEW x, NEW rest, rest = SubSeq(cstack, 1, j - 1), cstack' = rest,
           ci' = [ci EXCEPT ![Last(rest).th] = SetTop(@, x)],
           nCcalls' = [nCcalls EXCEPT ![L] = cstack[j].nCcalls - 1],
           nny' = [nny EXCEPT ![L] = cstack[j].nny],
           NEW new \in {"LUA_OK", "LUA_YIELD", "error"}, status' = [status EXCEPT ![L] = new],
           new = "LUA_YIELD" => Suspended(ci, L), new # "error" => allowhook[L],
           UNCHANGED <<errfunc, allowhook, unstarted>>
    PROVE  Kept'
<1> DEFINE k == j - 1
           r == cstack[j]
           from == Last(rest).th
<1>0. /\ errfunc' = errfunc /\ allowhook' = allowhook /\ unstarted' = unstarted
  OBVIOUS
<1>1. /\ Depth \in Nat /\ Depth = Len(cstack) /\ cstack \in Seq(Entry) /\ L \in Thread
      /\ ci \in [Thread -> Seq(CallInfo)] /\ r.th = L
  <2>1. j \in j .. Depth
    BY DEF Inv, Shaped, StackTypes, Depth
  <2> QED BY <2>1, ActFacts DEF Inv, Shaped, StackTypes, Depth, Act
<1>2. /\ \A i \in 1 .. k : cstack[i].th # L
      /\ j > 1 /\ L \in Co /\ L # Main
  BY <1>1, NoneBelow DEF Inv
<1>3. /\ nCcalls \in [Thread -> Nat] /\ nny \in [Thread -> Nat] /\ allowhook \in [Thread -> BOOLEAN]
      /\ errfunc \in [Thread -> BOOLEAN]
      /\ status \in [Thread -> {"LUA_OK", "LUA_YIELD", "error"}] /\ unstarted \subseteq Co
      /\ CountsOf(cstack, nCcalls, nny, allowhook, status) /\ Threads
  BY DEF Inv, Fields, Counts
<1>4. /\ k \in Nat /\ k > 0 /\ k \in 0 .. Depth /\ k \in 1 .. Depth /\ k \in 1 .. k /\ j \in Nat /\ j > 0
      /\ j - 1 = k /\ \A i \in k + 1 .. Depth : i \in j .. Depth
      /\ \A i \in 1 .. k : i \in 1 .. Depth
  BY <1>1, <1>2
<1>5. Remembers(cstack, j) /\ j \in 1 .. Len(cstack)
  BY <1>1, <1>3 DEF CountsOf
<1> HIDE DEF k
<1>6. /\ r.nCcalls - 1 = Cardinality(CallsTo(cstack, k)) /\ Cardinality(CallsTo(cstack, k)) \in Nat
      /\ r.nny = 1
  <2>1. r.nCcalls = Cardinality(CallsTo(cstack, j)) /\ r.nny = 1
    BY <1>5 DEF Remembers
  <2>2. One(IsCall(r)) = 1
    BY DEF One, IsCall
  <2>3. Cardinality(CallsTo(cstack, j)) = Cardinality(CallsTo(cstack, k)) + One(IsCall(r))
    BY <1>4, CountStep
  <2>4. Cardinality(CallsTo(cstack, k)) \in Nat
    BY <1>4, SetsFinite
  <2> QED BY <2>1, <2>2, <2>3, <2>4
<1>7. ForbidsTo(cstack, L, k) = {} /\ ~HooksOff(cstack, L, k)
  BY <1>2, <1>4 DEF ForbidsTo, HooksOff, k
<1>8. Cardinality(ForbidsTo(cstack, L, k)) = 0
  BY <1>7, FS_EmptySet
<1>9. /\ nCcalls' \in [Thread -> Nat] /\ nny' \in [Thread -> Nat]
      /\ status' \in [Thread -> {"LUA_OK", "LUA_YIELD", "error"}]
      /\ nny'[L] = 1 /\ status'[L] = new
      /\ \A t \in Thread : t # L => /\ nCcalls'[t] = nCcalls[t] /\ nny'[t] = nny[t]
                                    /\ status'[t] = status[t]
  BY <1>1, <1>3, <1>6
<1>10. cstack[k].th # L
  BY <1>2, <1>4 DEF k
<1>11. Cuts(k, nCcalls', nny', allowhook', status')
  <2>1. nny'[L] = One(L = Main \/ k = 0 \/ cstack[k].th # L) + Cardinality(ForbidsTo(cstack, L, k))
    BY <1>8, <1>9, <1>10 DEF One
  <2>2. status'[L] # "error" => allowhook'[L] = ~HooksOff(cstack, L, k)
    <3>1. new # "error" => allowhook[L] = TRUE
      BY <1>1, <1>3
    <3> QED BY <3>1, <1>0, <1>7, <1>9
  <2>3. \A i \in k + 1 .. Depth : cstack[i].th = L
    BY <1>4
  <2> QED BY <2>1, <2>2, <2>3, <1>0, <1>9, <1>10 DEF Cuts
<1>12. CountsOf(cstack', nCcalls', nny', allowhook', status')
  <2>1. CountsOf(SubSeq(cstack, 1, k), nCcalls', nny', allowhook', status')
    BY <1>4, <1>11, CutCounts DEF Inv
  <2> QED BY <2>1 DEF k
<1>13. /\ Len(cstack') = k /\ \A i \in 1 .. k : cstack'[i] = cstack[i]
       /\ from = cstack[k].th
  <2>1. /\ rest \in Seq(Entry) /\ Len(rest) = k /\ \A i \in 1 .. k : rest[i] = cstack[i]
    BY <1>1, <1>4, PrefixFacts DEF k
  <2> QED BY <2>1, <1>4 DEF Last
<1> HIDE DEF from
<1>14. ASSUME NEW i \in 1 .. Len(cstack')
       PROVE  status'[cstack'[i].th] = "LUA_OK" /\ cstack'[i].th \notin unstarted'
  <2>1. /\ i \in 1 .. k /\ i \in 1 .. Depth /\ cstack'[i] = cstack[i]
        /\ cstack[i].th \in Thread /\ cstack[i].th # L
    <3>1. i \in 1 .. k
      BY <1>13
    <3>2. cstack[i] \in Entry /\ i \in 1 .. Depth
      BY <3>1, <1>1, <1>4
    <3> QED BY <3>1, <3>2, <1>2, <1>13, EntryFields DEF k
  <2> QED BY <2>1, <1>0, <1>1, <1>3, <1>9 DEF Threads
<1>15. ASSUME NEW th \in Co, status'[th] = "LUA_YIELD"
       PROVE  Suspended(ci', th) /\ th \notin unstarted'
  <2>1. th \in Thread
    BY DEF Thread
  <2>2. status[from] = "LUA_OK" /\ from # L
    BY <1>1, <1>3, <1>4, <1>10, <1>13 DEF Threads
  <2>3. Suspended(ci, th) /\ th \notin unstarted /\ th # from
    <3>1. CASE th = L
      <4>1. L \notin unstarted
        BY RunsOK
      <4> QED BY <3>1, <4>1, <2>2, <1>9, <1>15
    <3>2. CASE th # L
      <4>1. status[th] = "LUA_YIELD"
        BY <3>2, <2>1, <1>9, <1>15
      <4> QED BY <4>1, <2>2, <1>3 DEF Threads
    <3> QED BY <3>1, <3>2
  <2>4. ci'[th] = ci[th]
    BY <2>1, <2>3, <1>1 DEF from
  <2> QED BY <2>3, <2>4, <1>0 DEF Suspended
<1>16. status'[Main] = "LUA_OK" /\ \A th \in unstarted' : status'[th] = "LUA_OK"
  <2>1. L \notin unstarted /\ Main \in Thread
    BY RunsOK DEF Thread
  <2> QED BY <2>1, <1>0, <1>2, <1>3, <1>9 DEF Threads, Thread
<1>17. Threads'
  BY <1>14, <1>15, <1>16 DEF Threads
<1>18. Counts'
  BY <1>12 DEF Counts
<1>19. Fields'
  BY <1>0, <1>3, <1>9 DEF Fields
<1> QED BY <1>17, <1>18, <1>19 DEF Kept

LEMMA CoroutineEndsKept == ASSUME Inv, CoroutineEnds PROVE Kept'
<1> DEFINE rest == Front(cstack)
           new == "LUA_OK"
<1>1. /\ Unrolls /\ cstack' = rest
      /\ ci' = [ci EXCEPT ![Last(rest).th] = SetTop(@, "back")]
      /\ nCcalls' = [nCcalls EXCEPT ![L] = Last(cstack).nCcalls - 1]
      /\ nny' = [nny EXCEPT ![L] = Last(cstack).nny]
      /\ status' = [status EXCEPT ![L] = new]
      /\ UNCHANGED <<errfunc, allowhook, unstarted>>
  BY DEF CoroutineEnds, LeaveResume
<1>2. cstack # <<>> /\ Act.c = "lua_resume"
  BY <1>1, UnrollFacts DEF Inv
<1>3. /\ Depth \in 1 .. Depth /\ Depth = Len(cstack) /\ cstack[Depth].c = "lua_resume"
      /\ cstack \in Seq(Entry) /\ Last(cstack) = cstack[Depth] /\ cstack[Depth].th = L /\ Depth \in Nat
  BY <1>2, ActFacts DEF Inv, Shaped, StackTypes, Depth, Last
<1>4. rest = SubSeq(cstack, 1, Depth - 1)
  <2>1. SubSeq(cstack, 1, Depth) = cstack
    BY <1>3, WholeSequence
  <2> QED BY <2>1, <1>3, FrontPrefix
<1>5. \A i \in Depth .. Depth : cstack[i].th = L
  <2>1. \A i \in Depth .. Depth : i = Depth
    BY <1>3
  <2> QED BY <2>1, <1>3
<1>6. allowhook[L]
  <2>1. \A i \in 1 .. Depth - 1 : cstack[i].th # L
    BY <1>3, NoneBelow DEF Inv
  <2>2. \A i \in 1 .. Depth : i \in 1 .. Depth - 1 \/ i = Depth
    BY <1>3
  <2>3. ~HooksOff(cstack, L, Depth)
    BY <2>1, <2>2, <1>3 DEF HooksOff
  <2>4. allowhook[L] = ~HooksOff(cstack, L, Depth)
    BY <1>2, LUncounted
  <2> QED BY <2>3, <2>4
<1>7. new \in {"LUA_OK", "LUA_YIELD", "error"} /\ new # "LUA_YIELD"
  OBVIOUS
<1> HIDE DEF new, rest
<1> QED BY <1>1, <1>2, <1>3, <1>4, <1>5, <1>6, <1>7, LeaveKept

LEMMA CoroutineFailsKept == ASSUME Inv, CoroutineFails PROVE Kept'
<1> DEFINE rest == SubSeq(cstack, 1, Setjmp - 1)
           new == "error"
<1>1. /\ raise = "throw" /\ Jmp.c = "lua_resume" /\ cstack' = rest
      /\ ci' = [ci EXCEPT ![Last(rest).th] = SetTop(@, "failed")]
      /\ nCcalls' = [nCcalls EXCEPT ![L] = Jmp.nCcalls - 1]
      /\ nny' = [nny EXCEPT ![L] = Jmp.nny]
      /\ status' = [status EXCEPT ![L] = new]
      /\ UNCHANGED <<errfunc, allowhook, unstarted>>
  BY DEF CoroutineFails
<1>2. cstack # <<>>
  BY <1>1, Raised DEF Inv
<1>3. /\ Setjmp \in 1 .. Depth /\ cstack[Setjmp].c = "lua_resume" /\ Jmp = cstack[Setjmp]
      /\ \A i \in Setjmp .. Depth : cstack[i].th = L
  BY <1>1, <1>2, SetjmpFacts DEF Inv, Jmp
<1>4. rest = SubSeq(cstack, 1, Setjmp - 1)
  OBVIOUS
<1>5. new \in {"LUA_OK", "LUA_YIELD", "error"} /\ new # "LUA_YIELD" /\ new = "error"
  OBVIOUS
<1> HIDE DEF new, rest
<1> QED BY <1>1, <1>2, <1>3, <1>4, <1>5, LeaveKept

(* Everything below a call of yield can be continued.                      *)
LEMMA YieldSuspends ==
    ASSUME Inv, RunsC("yield"), nny[L] = 0
    PROVE  Suspended(ci, L)
<1>1. Running /\ Top.fn = "yield" /\ cstack # <<>>
  BY DEF RunsC, Running
<1>2. /\ Size \in Nat /\ Size >= 1 /\ Top = ci[L][Size] /\ ci[L] \in Seq(CallInfo) /\ Act.ci \in Nat
      /\ Act.c \in {"luaV_execute", "luaD_call", "lua_resume"} /\ Rests(Act, ci[L]) /\ Size = Len(ci[L])
      /\ L = Act.th /\ Act = cstack[Depth] /\ Depth \in 1 .. Depth /\ Depth = Len(cstack)
  BY <1>1, TopFacts, ActFacts DEF Inv, Size, Depth
<1>3. \A p \in 1 .. Act.ci : Unrollable(ci[L][p])
  <2>1. \A j \in 1 .. Depth : cstack[j].th = L => cstack[j].c # "luaD_pcall" /\ ~Forbids(cstack[j])
    BY <1>1, MayYield DEF Inv
  <2>2. Continuable(cstack, ci, Depth)
    BY <1>2 DEF Inv, Shaped, Shape
  <2> QED BY <2>1, <2>2, <1>2 DEF Continuable
<1>4. ASSUME NEW p \in 1 .. Size - 1, ~(p <= Act.ci) PROVE Unrollable(ci[L][p])
  <2>1. p \in Act.ci + 1 .. Size - 1
    BY <1>2, <1>4
  <2>2. Act.c # "luaD_call"
    BY <2>1, <1>2 DEF Rests
  <2> QED BY <2>1, <2>2, <1>2 DEF Rests, Unrollable
<1>5. \A p \in 1 .. Size - 1 : Unrollable(ci[L][p])
  <2> SUFFICES ASSUME NEW p \in 1 .. Size - 1 PROVE Unrollable(ci[L][p])
    OBVIOUS
  <2>1. CASE p <= Act.ci
    <3>1. p \in 1 .. Act.ci
      BY <2>1, <1>2
    <3> QED BY <3>1, <1>3
  <2> QED BY <2>1, <1>4
<1>6. ci[L] # <<>>
  BY <1>1 DEF Running
<1> QED BY <1>1, <1>2, <1>5, <1>6 DEF Suspended

LEMMA YieldKept == ASSUME Inv, Yield PROVE Kept'
<1> DEFINE rest == SubSeq(cstack, 1, Setjmp - 1)
           new == "LUA_YIELD"
<1>1. /\ RunsC("yield") /\ nny[L] = 0 /\ Jmp.c = "lua_resume" /\ cstack' = rest
      /\ ci' = [ci EXCEPT ![Last(rest).th] = SetTop(@, "back")]
      /\ nCcalls' = [nCcalls EXCEPT ![L] = Jmp.nCcalls - 1]
      /\ nny' = [nny EXCEPT ![L] = Jmp.nny]
      /\ status' = [status EXCEPT ![L] = new]
      /\ UNCHANGED <<errfunc, allowhook, unstarted>>
  BY DEF Yield
<1>2. cstack # <<>>
  BY <1>1 DEF RunsC, Running
<1>3. /\ Setjmp \in 1 .. Depth /\ cstack[Setjmp].c = "lua_resume" /\ Jmp = cstack[Setjmp]
      /\ \A i \in Setjmp .. Depth : cstack[i].th = L
  BY <1>1, <1>2, SetjmpFacts DEF Inv, Jmp
<1>4. rest = SubSeq(cstack, 1, Setjmp - 1)
  OBVIOUS
<1>5. allowhook[L] /\ Suspended(ci, L)
  BY <1>1, <1>2, HooksMayRun, YieldSuspends DEF Inv
<1>6. new \in {"LUA_OK", "LUA_YIELD", "error"}
  OBVIOUS
<1> HIDE DEF new, rest
<1> QED BY <1>1, <1>2, <1>3, <1>4, <1>5, <1>6, LeaveKept

-----------------------------------------------------------------------------
(* Errors are caught                                                       *)

LEMMA JmpRemembers ==
    ASSUME Inv, cstack # <<>>
    PROVE  /\ Setjmp \in 1 .. Depth /\ Jmp = cstack[Setjmp] /\ Jmp \in Entry /\ Jmp.th = L
           /\ \A i \in Setjmp .. Depth : cstack[i].th = L
           /\ Remembers(cstack, Setjmp) /\ Linked(cstack, Setjmp)
           /\ Depth \in Nat /\ Depth = Len(cstack) /\ cstack \in Seq(Entry) /\ L \in Thread
           /\ ci \in [Thread -> Seq(CallInfo)]
<1>1. /\ Setjmp \in 1 .. Depth /\ Jmp = cstack[Setjmp] /\ \A i \in Setjmp .. Depth : cstack[i].th = L
  BY SetjmpFacts DEF Inv, Jmp
<1>2. /\ Depth \in Nat /\ Depth = Len(cstack) /\ cstack \in Seq(Entry) /\ L \in Thread
      /\ ci \in [Thread -> Seq(CallInfo)]
  BY ActFacts DEF Inv, Shaped, StackTypes, Depth
<1>3. Setjmp \in Setjmp .. Depth /\ Setjmp \in 1 .. Len(cstack)
  BY <1>1, <1>2
<1>4. Remembers(cstack, Setjmp)
  BY <1>3 DEF Inv, Counts, CountsOf
<1>5. Linked(cstack, Setjmp)
  BY <1>3 DEF Inv, Shaped, Shape
<1> QED BY <1>1, <1>2, <1>3, <1>4, <1>5

LEMMA ThrowToPCallKept == ASSUME Inv, ThrowToPCall PROVE Kept'
<1> DEFINE j == Setjmp
           k == j - 1
<1>1. /\ raise = "throw" /\ Jmp.c = "luaD_pcall" /\ \E F : ci' = [ci EXCEPT ![L] = F]
      /\ nCcalls' = [nCcalls EXCEPT ![L] = Jmp.nCcalls]
      /\ nny' = [nny EXCEPT ![L] = Jmp.nny]
      /\ errfunc' = [errfunc EXCEPT ![L] = Jmp.errfunc]
      /\ allowhook' = [allowhook EXCEPT ![L] = Jmp.allowhook]
      /\ cstack' = SubSeq(cstack, 1, k)
      /\ status' = status /\ unstarted' = unstarted
  BY Zenon DEF ThrowToPCall
<1>2. cstack # <<>>
  BY <1>1, Raised DEF Inv
<1>3. /\ j \in 1 .. Depth /\ Jmp = cstack[j] /\ Jmp \in Entry /\ Jmp.th = L
      /\ \A i \in j .. Depth : cstack[i].th = L
      /\ Remembers(cstack, j) /\ Linked(cstack, j)
      /\ Depth \in Nat /\ Depth = Len(cstack) /\ cstack \in Seq(Entry) /\ L \in Thread
      /\ ci \in [Thread -> Seq(CallInfo)]
  BY <1>2, JmpRemembers
<1> HIDE DEF j
<1>4. /\ nCcalls \in [Thread -> Nat] /\ nny \in [Thread -> Nat] /\ allowhook \in [Thread -> BOOLEAN]
      /\ errfunc \in [Thread -> BOOLEAN]
  BY DEF Inv, Fields
<1>5. /\ Jmp.nCcalls \in Nat /\ Jmp.nny \in Nat /\ Jmp.errfunc \in BOOLEAN /\ Jmp.allowhook \in BOOLEAN
  BY <1>1, <1>3, EntryFields
<1>6. /\ nCcalls' \in [Thread -> Nat] /\ nny' \in [Thread -> Nat] /\ allowhook' \in [Thread -> BOOLEAN]
      /\ errfunc' \in [Thread -> BOOLEAN]
      /\ nCcalls'[L] = Jmp.nCcalls /\ nny'[L] = Jmp.nny /\ allowhook'[L] = Jmp.allowhook
      /\ \A t \in Thread : t # L => /\ nCcalls'[t] = nCcalls[t] /\ nny'[t] = nny[t]
                                    /\ allowhook'[t] = allowhook[t] /\ ci'[t] = ci[t]
  BY <1>1, <1>3, <1>4, <1>5
<1>7. /\ Jmp.nCcalls = Cardinality(CallsTo(cstack, k))
      /\ Jmp.nny = One(L = Main) + Cardinality(ForbidsTo(cstack, L, k))
      /\ Jmp.allowhook = ~HooksOff(cstack, L, k)
  BY <1>1, <1>3 DEF Remembers, One
<1>8. k \in 0 .. Depth /\ (k = 0 => j = 1) /\ \A i \in k + 1 .. Depth : i \in j .. Depth
  BY <1>3
<1>9. One(L = Main \/ k = 0 \/ cstack[k].th # L) = One(L = Main)
  <2>1. j = 1 => L = Main
    BY <1>3 DEF Linked
  <2>2. j # 1 => cstack[k].th = L
    BY <1>1, <1>3 DEF Linked
  <2> QED BY <2>1, <2>2, <1>8 DEF One
<1>10. Cuts(k, nCcalls', nny', allowhook', status')
  <2>1. \A i \in k + 1 .. Depth : cstack[i].th = L
    BY <1>3, <1>8
  <2>2. nny'[L] = One(L = Main \/ k = 0 \/ cstack[k].th # L) + Cardinality(ForbidsTo(cstack, L, k))
    BY <1>6, <1>7, <1>9
  <2>3. nCcalls'[L] = Cardinality(CallsTo(cstack, k)) /\ allowhook'[L] = ~HooksOff(cstack, L, k)
    BY <1>6, <1>7
  <2> HIDE DEF k
  <2> QED BY <2>1, <2>2, <2>3, <1>1, <1>6 DEF Cuts
<1> HIDE DEF k
<1>11. status' = status /\ unstarted' = unstarted /\ \A t \in Thread : t # L => ci'[t] = ci[t]
  BY <1>1, <1>6
<1> QED BY <1>1, <1>2, <1>6, <1>8, <1>10, <1>11, ReturnKept

LEMMA RecoverKept == ASSUME Inv, Recover PROVE Kept'
<1> DEFINE k == Setjmp
           n == CHOOSE i \in PCalls(ci[L]) : \A j \in PCalls(ci[L]) : j <= i
           f == ci[L][n]
<1>1. /\ raise = "throw" /\ Jmp.c = "lua_resume" /\ PCalls(ci[L]) # {}
      /\ \E F : ci' = [ci EXCEPT ![L] = F]
      /\ errfunc' = [errfunc EXCEPT ![L] = f.old_errfunc]
      /\ allowhook' = [allowhook EXCEPT ![L] = f.oah]
      /\ nCcalls' = [nCcalls EXCEPT ![L] = Jmp.nCcalls]
      /\ nny' = [nny EXCEPT ![L] = 0]
      /\ cstack' = SubSeq(cstack, 1, k)
      /\ status' = status /\ unstarted' = unstarted
  BY Zenon DEF Recover
<1>2. cstack # <<>>
  BY <1>1, Raised DEF Inv
<1>3. /\ k \in 1 .. Depth /\ Jmp = cstack[k] /\ Jmp \in Entry /\ Jmp.th = L
      /\ \A i \in k .. Depth : cstack[i].th = L /\ Remembers(cstack, k)
      /\ Depth \in Nat /\ Depth = Len(cstack) /\ cstack \in Seq(Entry) /\ L \in Thread
      /\ ci \in [Thread -> Seq(CallInfo)]
  BY <1>2, JmpRemembers
<1>4. f.old_errfunc \in BOOLEAN /\ f.oah = TRUE
  <2>1. n \in 1 .. Size /\ f.ypcall
    BY <1>1, RecoverFacts DEF Inv
  <2> HIDE DEF n
  <2>2. f \in CallInfo
    BY <2>1, <1>2, ActFacts DEF Inv
  <2> QED BY <2>1, <2>2, FrameFields
<1> HIDE DEF k, f, n
<1>5. /\ nCcalls \in [Thread -> Nat] /\ nny \in [Thread -> Nat] /\ allowhook \in [Thread -> BOOLEAN]
      /\ errfunc \in [Thread -> BOOLEAN]
  BY DEF Inv, Fields
<1>6. /\ Jmp.nCcalls \in Nat
  BY <1>1, <1>3, EntryFields
<1>7. /\ nCcalls' \in [Thread -> Nat] /\ nny' \in [Thread -> Nat] /\ allowhook' \in [Thread -> BOOLEAN]
      /\ errfunc' \in [Thread -> BOOLEAN]
      /\ nCcalls'[L] = Jmp.nCcalls /\ nny'[L] = 0 /\ allowhook'[L] = TRUE
      /\ \A t \in Thread : t # L => /\ nCcalls'[t] = nCcalls[t] /\ nny'[t] = nny[t]
                                    /\ allowhook'[t] = allowhook[t] /\ ci'[t] = ci[t]
  BY <1>1, <1>3, <1>4, <1>5, <1>6
<1>8. /\ \A i \in 1 .. k - 1 : cstack[i].th # L
      /\ L # Main
  <2>1. cstack[k].c = "lua_resume" /\ cstack[k].th = L
    BY <1>1, <1>3
  <2> QED BY <2>1, <1>3, NoneBelow DEF Inv
<1>9. Jmp.nCcalls = Cardinality(CallsTo(cstack, k))
  <2>1. k \in k .. Depth
    BY <1>3
  <2>2. Remembers(cstack, k)
    BY <2>1, <1>3
  <2> QED BY <2>2, <1>1, <1>3 DEF Remembers
<1>10. /\ k \in 0 .. Depth /\ k # 0 /\ \A i \in k + 1 .. Depth : i \in k .. Depth
       /\ \A i \in 1 .. k : i \in 1 .. k - 1 \/ i = k
  BY <1>3
<1>11. ForbidsTo(cstack, L, k) = {} /\ ~HooksOff(cstack, L, k)
  BY <1>1, <1>3, <1>8, <1>10 DEF ForbidsTo, HooksOff, Forbids
<1>12. Cardinality(ForbidsTo(cstack, L, k)) = 0
  BY <1>11, FS_EmptySet
<1>13. Cuts(k, nCcalls', nny', allowhook', status')
  <2>1. \A i \in k + 1 .. Depth : cstack[i].th = L
    BY <1>3, <1>10
  <2>2. nny'[L] = One(L = Main \/ k = 0 \/ cstack[k].th # L) + Cardinality(ForbidsTo(cstack, L, k))
    BY <1>3, <1>7, <1>8, <1>10, <1>12 DEF One
  <2>3. nCcalls'[L] = Cardinality(CallsTo(cstack, k))
    BY <1>7, <1>9
  <2>4. allowhook'[L] = ~HooksOff(cstack, L, k)
    BY <1>7, <1>11
  <2> QED BY <2>1, <2>2, <2>3, <2>4, <1>1, <1>7 DEF Cuts
<1>14. status' = status /\ unstarted' = unstarted /\ \A t \in Thread : t # L => ci'[t] = ci[t]
  BY <1>1, <1>7
<1> QED BY <1>1, <1>2, <1>7, <1>10, <1>13, <1>14, ReturnKept

LEMMA ResumeRefusedKept == ASSUME Inv, ResumeRefused PROVE Kept'
<1> DEFINE resumable(co) == IF status[co] = "LUA_OK" THEN co \in unstarted ELSE status[co] = "LUA_YIELD"
<1>1. /\ Resumes /\ \E F : ci' = [ci EXCEPT ![L] = F]
      /\ nny' = nny /\ errfunc' = errfunc /\ allowhook' = allowhook /\ status' = status
      /\ unstarted' = unstarted /\ cstack' = cstack
      /\ \E co \in Thread : nCcalls' = IF resumable(co) THEN [nCcalls EXCEPT ![co] = nCcalls[L] + 1] ELSE nCcalls
  BY Zenon DEF ResumeRefused
<1>2. PICK co \in Thread : nCcalls' = IF resumable(co) THEN [nCcalls EXCEPT ![co] = nCcalls[L] + 1] ELSE nCcalls
  BY <1>1
<1>3. /\ nCcalls \in [Thread -> Nat] /\ CountsOf(cstack, nCcalls, nny, allowhook, status) /\ Threads
      /\ ci \in [Thread -> Seq(CallInfo)] /\ cstack \in Seq(Entry)
  BY DEF Inv, Fields, Counts, Shaped, StackTypes
<1>4. cstack # <<>> /\ L \in Thread
  BY <1>1, RunsOK DEF Resumes, Running
<1>5. \A i \in 1 .. Len(cstack) : cstack[i].th \in Thread /\ nCcalls'[cstack[i].th] = nCcalls[cstack[i].th]
  <2>1. \A i \in 1 .. Len(cstack) : cstack[i].th \in Thread
    BY <1>3, EntryFields
  <2>2. CASE resumable(co)
    <3>1. \A i \in 1 .. Len(cstack) : cstack[i].th # co
      BY <2>2, <1>3 DEF Threads
    <3> QED BY <2>1, <2>2, <3>1, <1>2, <1>3
  <2>3. CASE ~resumable(co)
    BY <2>1, <2>3, <1>2
  <2> QED BY <2>2, <2>3
<1>6. nCcalls' \in [Thread -> Nat]
  <2>1. nCcalls[L] + 1 \in Nat
    BY <1>3, <1>4
  <2> QED BY <2>1, <1>2, <1>3
<1>7. CountsOf(cstack, nCcalls', nny, allowhook, status)
  BY <1>3, <1>5 DEF CountsOf
<1>8. Moves
  <2>1. \A i \in 1 .. Len(cstack) : i \in 1 .. Depth
    BY DEF Depth
  <2>2. \A t \in Thread : t # L => ci'[t] = ci[t]
    BY <1>1, <1>3
  <2> QED BY <2>1, <2>2, <1>1 DEF Moves
<1>9. Threads'
  BY <1>1, <1>4, <1>8, MovesThreads
<1>10. Counts'
  BY <1>1, <1>7 DEF Counts
<1>11. Fields'
  BY <1>1, <1>6 DEF Inv, Fields
<1> QED BY <1>9, <1>10, <1>11 DEF Kept

LEMMA DoCallKept == ASSUME Inv, DoCall PROVE Kept'
<1> DEFINE p == [c |-> "luaD_pcall", th |-> Main, gc |-> FALSE, ci |-> 0, nCcalls |-> 0, nny |-> 1,
                 errfunc |-> FALSE, allowhook |-> TRUE]
           d == [c |-> "luaD_call", th |-> Main, ci |-> 0, noyield |-> TRUE, caller |-> "function"]
           e == [c |-> "luaV_execute", th |-> Main, ci |-> 0]
           nc1 == [nCcalls EXCEPT ![Main] = 0]
           ny1 == [nny EXCEPT ![Main] = 1]
           c0 == <<>>
           c1 == <<p>>
           c2 == Append(c1, d)
           c3 == Append(c2, e)
<1>1. /\ cstack = <<>> /\ cstack' = <<p, d, e>> /\ \E F : ci' = [ci EXCEPT ![Main] = F]
      /\ nCcalls' = [nCcalls EXCEPT ![Main] = 1] /\ nny' = [nny EXCEPT ![Main] = 2]
      /\ errfunc' = [errfunc EXCEPT ![Main] = TRUE]
      /\ allowhook' = allowhook /\ status' = status /\ unstarted' = unstarted
  BY Zenon DEF DoCall
<1>2. /\ nCcalls \in [Thread -> Nat] /\ nny \in [Thread -> Nat] /\ allowhook \in [Thread -> BOOLEAN]
      /\ errfunc \in [Thread -> BOOLEAN] /\ unstarted \subseteq Co
      /\ status \in [Thread -> {"LUA_OK", "LUA_YIELD", "error"}]
      /\ CountsOf(cstack, nCcalls, nny, allowhook, status) /\ Threads
      /\ ci \in [Thread -> Seq(CallInfo)]
  BY DEF Inv, Fields, Counts, Shaped, StackTypes
<1>3. Main \in Thread /\ status[Main] = "LUA_OK" /\ Main \notin Co
  BY <1>2, CallsAssumption DEF Thread, Threads
<1>4. /\ p \in Entry /\ d \in Entry /\ e \in Entry
      /\ p.c = "luaD_pcall" /\ p.th = Main /\ p.nCcalls = 0 /\ p.nny = 1 /\ p.allowhook = TRUE /\ ~p.gc
      /\ d.c = "luaD_call" /\ d.th = Main /\ d.noyield /\ d.caller = "function"
      /\ e.c = "luaV_execute" /\ e.th = Main
  BY <1>3 DEF Entry
<1> HIDE DEF p, d, e
<1>5. /\ c0 \in Seq(Entry) /\ Len(c0) = 0 /\ c0 = cstack
      /\ c1 \in Seq(Entry) /\ Len(c1) = 1 /\ c1[1] = p /\ Append(c0, p) = c1
      /\ c2 \in Seq(Entry) /\ Len(c2) = 2 /\ c2[2] = d /\ Append(c1, d) = c2
      /\ c3 \in Seq(Entry) /\ Len(c3) = 3 /\ Append(c2, e) = c3
      /\ \A i \in 1 .. 3 : c3[i].th = Main
      /\ cstack' = c3
  <2>1. c0 \in Seq(Entry) /\ Len(c0) = 0 /\ c0 = cstack
    BY <1>1
  <2>2. /\ c1 \in Seq(Entry) /\ Len(c1) = 1 /\ c1[1] = p /\ Append(c0, p) = c1
        /\ c2 \in Seq(Entry) /\ Len(c2) = 2 /\ c2[2] = d
        /\ c3 \in Seq(Entry) /\ Len(c3) = 3 /\ \A i \in 1 .. 3 : c3[i] \in {p, d, e}
        /\ c3 = <<p, d, e>>
    BY <1>4, ThreePushed
  <2> HIDE DEF c0, c1, c3
  <2>3. Append(c1, d) = c2
    OBVIOUS
  <2> HIDE DEF c2
  <2>4. \A i \in 1 .. 3 : c3[i].th = Main
    BY <2>2, <1>4
  <2>5. cstack' = c3
    BY <2>2, <1>1
  <2>6. Append(c2, e) = c3
    BY DEF c3
  <2> QED BY <2>1, <2>2, <2>3, <2>4, <2>5, <2>6
<1>6. /\ ~IsCall(p) /\ ~Forbids(p) /\ ~TurnsOff(p)
      /\ IsCall(d) /\ Forbids(d) /\ ~TurnsOff(d)
  BY <1>4 DEF IsCall, Forbids, TurnsOff
<1>7. /\ Cardinality(CallsTo(c0, 0)) = 0 /\ Cardinality(ForbidsTo(c0, Main, 0)) = 0
      /\ ~HooksOff(c0, Main, 0)
  <2>1. CallsTo(c0, 0) = {} /\ ForbidsTo(c0, Main, 0) = {} /\ ~HooksOff(c0, Main, 0)
    BY DEF CallsTo, ForbidsTo, HooksOff
  <2> QED BY <2>1, FS_EmptySet
<1>8. allowhook[Main] = TRUE
  <2>1. allowhook[Main] = ~HooksOff(c0, Main, 0)
    BY <1>1, <1>2, <1>3, <1>5 DEF CountsOf
  <2> QED BY <2>1, <1>7
<1>9. Remembers(c1, 0 + 1)
  <2>1. Cardinality(CallsTo(c1, 0)) = 0 /\ Cardinality(ForbidsTo(c1, Main, 0)) = 0 /\ ~HooksOff(c1, Main, 0)
    <3>1. CallsTo(c1, 0) = {} /\ ForbidsTo(c1, Main, 0) = {} /\ ~HooksOff(c1, Main, 0)
      BY DEF CallsTo, ForbidsTo, HooksOff
    <3> QED BY <3>1, FS_EmptySet
  <2> DEFINE m == 0 + 1
  <2>2. m = 1 /\ m - 1 = 0
    OBVIOUS
  <2> HIDE DEF m, c1
  <2>4. c1[m] = p
    BY <2>2, <1>5
  <2>5. ~HooksOff(c1, p.th, m - 1) /\ Cardinality(ForbidsTo(c1, p.th, m - 1)) = 0 /\ Cardinality(CallsTo(c1, m - 1)) = 0
    BY <2>1, <2>2, <1>4
  <2>6. p.allowhook = ~HooksOff(c1, p.th, m - 1)
    BY <2>5, <1>4, Zenon
  <2>7. p.nny = (IF p.th = Main THEN 1 ELSE 0) + Cardinality(ForbidsTo(c1, p.th, m - 1))
    BY <2>5, <1>4
  <2>3. Remembers(c1, m)
    BY <2>4, <2>5, <2>6, <2>7, <1>4 DEF Remembers
  <2> QED BY <2>3 DEF m
<1> HIDE DEF c0, c1, c2, c3
<1>10. /\ nc1 \in [Thread -> Nat] /\ ny1 \in [Thread -> Nat] /\ nc1[Main] = 0 /\ ny1[Main] = 1
       /\ nCcalls' = [nc1 EXCEPT ![Main] = nc1[Main] + One(IsCall(d))]
       /\ nny' = [ny1 EXCEPT ![Main] = ny1[Main] + One(Forbids(d))]
       /\ \A t \in Thread : t # Main => nc1[t] = nCcalls[t] /\ ny1[t] = nny[t]
  BY <1>1, <1>2, <1>3, <1>6 DEF One
<1> HIDE DEF nc1, ny1
<1>11. CountsOf(c1, nc1, ny1, allowhook, status) /\ Together(c1, Main)
  <2>1. Together(c0, Main)
    BY <1>5 DEF Together
  <2>2. nc1[Main] = Cardinality(CallsTo(c0, 0)) + One(IsCall(p))
    BY <1>6, <1>7, <1>10 DEF One
  <2>3. ny1[Main] = One(Main = Main) + Cardinality(ForbidsTo(c0, Main, 0)) + One(Forbids(p))
    BY <1>6, <1>7, <1>10 DEF One
  <2>4. allowhook[Main] = ~(HooksOff(c0, Main, 0) \/ TurnsOff(p))
    BY <1>6, <1>7, <1>8
  <2>5. Adds(c0, nCcalls, nny, allowhook, status, p, nc1, ny1, allowhook, status)
    BY <2>1, <2>2, <2>3, <2>4, <1>2, <1>4, <1>5, <1>9, <1>10 DEF Adds
  <2>6. CountsOf(Append(c0, p), nc1, ny1, allowhook, status) /\ Together(Append(c0, p), p.th)
    BY <2>5, <1>4, <1>5, PushCounts
  <2> QED BY <2>6, <1>4, <1>5
<1>12. /\ CountsOf(c2, nCcalls', nny', allowhook, status) /\ Together(c2, Main)
       /\ nCcalls' \in [Thread -> Nat] /\ nny' \in [Thread -> Nat]
  <2>1. allowhook[Main] = (allowhook[Main] /\ ~TurnsOff(d))
    BY <1>6, <1>8
  <2>2. c1 # <<>> /\ c1[Len(c1)].th = Main
    BY <1>4, <1>5
  <2>3. AddsTop(c1, nc1, ny1, allowhook, status, d, nCcalls', nny', allowhook)
    BY <2>1, <2>2, <1>3, <1>4, <1>8, <1>10, <1>11 DEF AddsTop
  <2>4. /\ CountsOf(Append(c1, d), nCcalls', nny', allowhook, status) /\ Together(Append(c1, d), d.th)
        /\ nCcalls' \in [Thread -> Nat] /\ nny' \in [Thread -> Nat]
    BY <2>3, <1>4, <1>5, PushTop
  <2> QED BY <2>4, <1>4, <1>5
<1>13. CountsOf(c3, nCcalls', nny', allowhook, status)
  <2>1. c2 # <<>> /\ c2[Len(c2)].th = Main
    BY <1>4, <1>5
  <2>2. allowhook[Main] \in BOOLEAN
    BY <1>8
  <2>3. CountsOf(Append(c2, e), nCcalls', nny', allowhook, status)
    BY <2>1, <2>2, <1>3, <1>4, <1>5, <1>12, PushExecute
  <2> QED BY <2>3, <1>5
<1>14. Counts'
  BY <1>1, <1>5, <1>13 DEF Counts
<1>15. errfunc' \in [Thread -> BOOLEAN]
  BY <1>1, <1>2
<1>16. Fields'
  BY <1>1, <1>2, <1>12, <1>15 DEF Fields
<1>17. Threads'
  <2>1. \A th \in Co : ci'[th] = ci[th]
    BY <1>1, <1>2, <1>3 DEF Thread
  <2>2. \A th \in Co : status[th] = "LUA_YIELD" => Suspended(ci', th) /\ th \notin unstarted
    BY <2>1, <1>2 DEF Threads, Suspended
  <2>3. \A i \in 1 .. Len(c3) : status[c3[i].th] = "LUA_OK" /\ c3[i].th \notin unstarted
    BY <1>2, <1>3, <1>5
  <2>4. status[Main] = "LUA_OK" /\ \A th \in unstarted : status[th] = "LUA_OK"
    BY <1>2, <1>3 DEF Threads
  <2> QED BY <2>2, <2>3, <2>4, <1>1, <1>5 DEF Threads
<1> QED BY <1>14, <1>16, <1>17 DEF Kept

-----------------------------------------------------------------------------
(* The invariant                                                           *)

LEMMA InvInit == Init => Inv
<1> SUFFICES ASSUME Init PROVE Inv
  OBVIOUS
<1>1. /\ bound \in Bounds /\ ci = [th \in Thread |-> <<>>]
      /\ nCcalls = [th \in Thread |-> 0] /\ nny = [th \in Thread |-> 1]
      /\ errfunc = [th \in Thread |-> FALSE] /\ allowhook = [th \in Thread |-> TRUE]
      /\ status = [th \in Thread |-> "LUA_OK"]
      /\ unstarted = Co /\ cstack = <<>> /\ raise = "no"
  BY DEF Init
<1>2. <<>> \in Seq(CallInfo) /\ <<>> \in Seq(Entry) /\ Len(cstack) = 0
  BY <1>1
<1>3. Main \in Thread /\ \A th \in Co : th \in Thread
  BY DEF Thread
<1>4. Shaped
  <2>1. StackTypes
    BY <1>1, <1>2 DEF StackTypes
  <2>2. Shape(cstack, ci)
    BY <1>2 DEF Shape
  <2>3. OnTop(cstack, ci, raise)
    BY <1>1 DEF OnTop
  <2> QED BY <2>1, <2>2, <2>3 DEF Shaped
<1>5. Fields
  BY <1>1 DEF Fields
<1>6. Threads
  BY <1>1, <1>2, <1>3 DEF Threads
<1>7. Counts
  <2>1. ASSUME NEW th \in Thread
        PROVE  /\ nny[th] = Base(cstack, th) + Cardinality(ForbidsTo(cstack, th, 0))
               /\ allowhook[th] = ~HooksOff(cstack, th, 0)
    <3>1. ForbidsTo(cstack, th, 0) = {} /\ ~HooksOff(cstack, th, 0) /\ Base(cstack, th) = 1
      BY <1>2 DEF ForbidsTo, HooksOff, Base
    <3>2. Cardinality(ForbidsTo(cstack, th, 0)) = 0
      BY <3>1, FS_EmptySet
    <3>3. nny[th] = 1 /\ allowhook[th] = TRUE
      BY <1>1
    <3>4. allowhook[th] = ~HooksOff(cstack, th, 0)
      BY <3>1, <3>3, Zenon
    <3>5. nny[th] = Base(cstack, th) + Cardinality(ForbidsTo(cstack, th, 0))
      BY <3>1, <3>2, <3>3
    <3> QED BY <3>4, <3>5
  <2> QED BY <2>1, <1>2 DEF Counts, CountsOf
<1> QED BY <1>4, <1>5, <1>6, <1>7 DEF Inv

LEMMA InvNext == Inv /\ [Next]_vars => Inv'
<1> SUFFICES ASSUME Inv, [Next]_vars PROVE Inv'
  OBVIOUS
<1>0. TypeOK /\ Shaped /\ Threads /\ Counts
  BY InvType DEF Inv
<1>1. CASE DoCall /\ Same
  BY <1>0, <1>1, DoCallShaped, DoCallKept DEF Inv, Kept
<1>2. CASE OpCall /\ Same
  BY <1>0, <1>2, OpCallShaped, CallsKept DEF Inv, Kept
<1>3. CASE CallTM /\ Same
  BY <1>0, <1>3, CallTMShaped, PlainCallsKept DEF Inv, Kept
<1>4. CASE Hook /\ Same
  BY <1>0, <1>4, HookShaped, PlainCallsKept DEF Inv, Kept
<1>5. CASE Finalizer /\ Same
  BY <1>0, <1>5, FinalizerShaped, FinalizerKept DEF Inv, Kept
<1>6. CASE MemoryError /\ Same
  BY <1>0, <1>6, MemoryErrorShaped, CallsKept DEF Inv, Kept
<1>7. CASE PCallK /\ Same
  BY <1>0, <1>7, PCallKShaped, PCallKKept DEF Inv, Kept
<1>8. CASE CallK /\ Same
  BY <1>0, <1>8, CallKShaped, PlainCallsKept DEF Inv, Kept
<1>9. CASE LuaCall /\ Same
  BY <1>0, <1>9, LuaCallShaped, PlainCallsKept DEF Inv, Kept
<1>10. CASE RaiseError /\ Same
  BY <1>0, <1>10, RaiseErrorShaped, CallsKept DEF Inv, Kept
<1>11. CASE ReturnToLua /\ Same
  BY <1>0, <1>11, ReturnToLuaShaped, ReturnsKept DEF Inv, Kept
<1>12. CASE MetamethodEnds /\ Same
  BY <1>0, <1>12, MetamethodEndsShaped, EndsKept DEF Inv, Kept
<1>13. CASE HookEnds /\ Same
  BY <1>0, <1>13, HookEndsShaped, EndsKept DEF Inv, Kept
<1>14. CASE HandlerEnds /\ Same
  BY <1>0, <1>14, HandlerEndsShaped, EndsKept DEF Inv, Kept
<1>15. CASE CFunctionGoesOn /\ Same
  BY <1>0, <1>15, CFunctionGoesOnShaped, EndsKept DEF Inv, Kept
<1>16. CASE PCallEnds /\ Same
  BY <1>0, <1>16, PCallEndsShaped, PCallEndsKept DEF Inv, Kept
<1>17. CASE ReturnToResume /\ Same
  BY <1>0, <1>17, ReturnToResumeShaped, ReturnsKept DEF Inv, Kept
<1>18. CASE ResumeRefused /\ Same
  BY <1>0, <1>18, ResumeRefusedShaped, ResumeRefusedKept DEF Inv, Kept
<1>19. CASE StartCoroutine /\ Same
  BY <1>0, <1>19, StartCoroutineShaped, StartCoroutineKept DEF Inv, Kept
<1>20. CASE ContinueCoroutine /\ Same
  BY <1>0, <1>20, ContinueCoroutineShaped, ContinueCoroutineKept DEF Inv, Kept
<1>21. CASE FinishCCall /\ Same
  BY <1>0, <1>21, FinishCCallShaped, CallsKept DEF Inv, Kept
<1>22. CASE FinishOp /\ Same
  BY <1>0, <1>22, FinishOpShaped, FinishOpKept DEF Inv, Kept
<1>23. CASE CoroutineEnds /\ Same
  BY <1>0, <1>23, CoroutineEndsShaped, CoroutineEndsKept DEF Inv, Kept
<1>24. CASE ErrorMsg /\ Same
  BY <1>0, <1>24, ErrorMsgShaped, ErrorMsgKept DEF Inv, Kept
<1>25. CASE ThrowToPCall /\ Same
  BY <1>0, <1>25, ThrowToPCallShaped, ThrowToPCallKept DEF Inv, Kept
<1>26. CASE Recover /\ Same
  BY <1>0, <1>26, RecoverShaped, RecoverKept DEF Inv, Kept
<1>27. CASE CoroutineFails /\ Same
  BY <1>0, <1>27, CoroutineFailsShaped, CoroutineFailsKept DEF Inv, Kept
<1>28. CASE Yield /\ Same
  BY <1>0, <1>28, YieldShaped, YieldKept DEF Inv, Kept
<1>29. CASE UNCHANGED vars
  <2>1. /\ bound' = bound /\ ci' = ci /\ nCcalls' = nCcalls /\ nny' = nny /\ errfunc' = errfunc
        /\ allowhook' = allowhook /\ status' = status /\ unstarted' = unstarted /\ cstack' = cstack
        /\ raise' = raise
    BY <1>29 DEF vars, fields
  <2>2. Shaped'
    BY <2>1, <1>0 DEF Shaped, StackTypes
  <2>3. Fields' /\ Threads' /\ Counts'
    BY <2>1 DEF Inv, Fields, Threads, Counts
  <2> QED BY <2>2, <2>3 DEF Inv
<1> QED BY <1>1, <1>2, <1>3, <1>4, <1>5, <1>6, <1>7, <1>8, <1>9, <1>10, <1>11, <1>12, <1>13, <1>14,
           <1>15, <1>16, <1>17, <1>18, <1>19, <1>20, <1>21, <1>22, <1>23, <1>24, <1>25, <1>26, <1>27,
           <1>28, <1>29 DEF Next

(* The activations on the C stack, the frames of the threads and the       *)
(* counters fit each other in every state.                                 *)
THEOREM StacksFit == Spec => []Inv
  BY InvInit, InvNext, PTL DEF Spec

-----------------------------------------------------------------------------
(* What follows from it                                                    *)

(* Every variable has its type.                                            *)
THEOREM CallsTypeOK == Spec => []TypeOK
  BY StacksFit, InvType, PTL

(* luaV_execute goes on only with a complete instruction, for any number   *)
(* of coroutines, any depth of the stacks and any limit: a metamethod that *)
(* was interrupted by a yield is always left to luaV_finishOp.             *)
THEOREM ExecutesComplete == Spec => []InstructionFinished
<1>1. Inv => InstructionFinished
  <2> SUFFICES ASSUME Inv, Running, Last(cstack).c = "luaV_execute", Top.fn = "lua" PROVE Top.st = "run"
    BY DEF InstructionFinished
  <2>1. /\ Top \in CallInfo /\ (Act.c = "luaV_execute" => Top.st \in {"run"} \cup Resting)
    BY TopFacts DEF Inv
  <2>2. Act.c = "luaV_execute"
    BY DEF Act, Last
  <2>3. Top.st \in LuaStates
    BY <2>1, FrameFields
  <2> QED BY <2>1, <2>2, <2>3 DEF LuaStates, Resting
<1> QED BY <1>1, StacksFit, PTL

(* A coroutine that has yielded, through any nesting of calls, protected   *)
(* calls and metamethods, can be continued from its frames alone.          *)
THEOREM YieldLosesNothing == Spec => []YieldKeepsAll
<1>1. Inv => YieldKeepsAll
  <2> SUFFICES ASSUME Inv, NEW co \in Co, status[co] = "LUA_YIELD"
               PROVE  LET n == Len(ci[co]) IN
                      /\ ci[co][n].fn = "yield"
                      /\ \A i \in 1 .. n - 1 :
                          \/ ci[co][i].fn = "lua" /\ ci[co][i].st \in {"call", "meta"}
                          \/ ci[co][i].fn = "dofile"
                          \/ ci[co][i].fn \in {"pcall", "xpcall"} /\ ci[co][i].ypcall
    BY DEF YieldKeepsAll
  <2>1. Suspended(ci, co)
    BY DEF Inv, Threads
  <2>2. /\ ci[co] \in Seq(CallInfo)
    BY DEF Inv, Shaped, StackTypes, Thread
  <2>3. ASSUME NEW i \in 1 .. Len(ci[co]) - 1
        PROVE  \/ ci[co][i].fn = "lua" /\ ci[co][i].st \in {"call", "meta"}
               \/ ci[co][i].fn = "dofile"
               \/ ci[co][i].fn \in {"pcall", "xpcall"} /\ ci[co][i].ypcall
    <3>1. Unrollable(ci[co][i])
      BY <2>1 DEF Suspended
    <3>2. ci[co][i] \in CallInfo
      BY <2>2
    <3>3. ci[co][i].ypcall => ci[co][i].fn \in {"pcall", "xpcall"}
      BY <3>2, FrameFields
    <3> QED BY <3>1, <3>3 DEF Unrollable
  <2> QED BY <2>1, <2>3 DEF Suspended
<1> QED BY <1>1, StacksFit, PTL

(* Hooks are off exactly while a hook or a finalizer runs, whichever way   *)
(* it is left.                                                             *)
THEOREM HooksRestored == Spec => []HooksAllowed
<1>1. Inv => HooksAllowed
  <2> SUFFICES ASSUME Inv, NEW th \in Thread, status[th] # "error"
               PROVE  allowhook[th] <=> /\ \A r \in Records(th, "luaD_call") : r.caller # "hook"
                                        /\ \A r \in Records(th, "luaD_pcall") : ~r.gc
    BY DEF HooksAllowed
  <2>1. allowhook[th] = ~HooksOff(cstack, th, Len(cstack))
    BY DEF Inv, Counts, CountsOf
  <2>2. DOMAIN cstack = 1 .. Len(cstack)
    BY DEF Inv, Shaped, StackTypes
  <2>3. HooksOff(cstack, th, Len(cstack)) <=>
            \/ \E r \in Records(th, "luaD_call") : r.caller = "hook"
            \/ \E r \in Records(th, "luaD_pcall") : r.gc
    BY <2>2 DEF HooksOff, Records
  <2> QED BY <2>1, <2>3
<1> QED BY <1>1, StacksFit, PTL

(* The last activation of an active thread.                                *)
LEMMA UptoFacts ==
    ASSUME Inv, NEW th \in Active
    PROVE  /\ Upto(th) \in 1 .. Len(cstack) /\ cstack[Upto(th)].th = th
           /\ Upto(th) = Len(cstack) \/ cstack[Upto(th) + 1].th # th
<1> DEFINE N == Len(cstack)
           T == {i \in 1 .. N : cstack[i].th = th}
<1>1. N \in Nat /\ DOMAIN cstack = 1 .. N
  BY DEF Inv, Shaped, StackTypes
<1>2. T # {} /\ T \subseteq 1 .. N
  BY <1>1 DEF Active
<1> HIDE DEF N
<1>3. \E n \in T : \A m \in T : m <= n
  <2> HIDE DEF T
  <2> QED BY <1>1, <1>2, GreatestNumber
<1>4. PICK n \in T : \A m \in T : m <= n
  BY <1>3
<1>5. \E u \in DOMAIN cstack : cstack[u].th = th /\ \A i \in DOMAIN cstack : i > u => cstack[i].th # th
  <2>1. n \in 1 .. N /\ cstack[n].th = th
    BY <1>4
  <2>2. ASSUME NEW i \in 1 .. N, i > n, cstack[i].th = th PROVE FALSE
    <3>1. i <= n
      BY <2>2, <1>4
    <3> QED BY <3>1, <2>1, <2>2, <1>1
  <2> QED BY <2>1, <2>2, <1>1
<1>6. /\ Upto(th) \in DOMAIN cstack /\ cstack[Upto(th)].th = th
      /\ \A i \in DOMAIN cstack : i > Upto(th) => cstack[i].th # th
  BY <1>5, Zenon DEF Upto
<1>7. Upto(th) # N => Upto(th) + 1 \in 1 .. N /\ Upto(th) + 1 > Upto(th)
  BY <1>1, <1>6
<1> QED BY <1>1, <1>6, <1>7 DEF N

(* The count of C calls of an active thread is that of the activations     *)
(* below it, and that of the calls that forbid a yield is right, after any *)
(* number of calls, errors, yields and resumptions.                        *)
THEOREM CountersRight == Spec => []CallsCounted
<1>1. Inv => CallsCounted
  <2> SUFFICES ASSUME Inv, NEW th \in Thread
               PROVE  LET forbid == {i \in DOMAIN cstack :
                          cstack[i].th = th /\ cstack[i].c = "luaD_call" /\ cstack[i].noyield}
                      IN
                      /\ th \in Active => nCcalls[th] = CountCalls(Upto(th))
                      /\ nny[th] = (IF th = Main \/ th \notin Active THEN 1 ELSE 0) + Cardinality(forbid)
    BY DEF CallsCounted
  <2>1. /\ CountsOf(cstack, nCcalls, nny, allowhook, status)
        /\ DOMAIN cstack = 1 .. Len(cstack)
    BY DEF Inv, Counts, Shaped, StackTypes
  <2>2. ASSUME th \in Active PROVE nCcalls[th] = CountCalls(Upto(th))
    <3>1. /\ Upto(th) \in 1 .. Len(cstack) /\ cstack[Upto(th)].th = th
          /\ Upto(th) = Len(cstack) \/ cstack[Upto(th) + 1].th # th
      BY <2>2, UptoFacts
    <3>2. nCcalls[th] = Cardinality(CallsTo(cstack, Upto(th)))
      BY <3>1, <2>1 DEF CountsOf
    <3> QED BY <3>2 DEF CountCalls, CallsTo
  <2>3. nny[th] = Base(cstack, th) + Cardinality(ForbidsTo(cstack, th, Len(cstack)))
    BY <2>1 DEF CountsOf
  <2>4. ForbidsTo(cstack, th, Len(cstack))
            = {i \in DOMAIN cstack : cstack[i].th = th /\ cstack[i].c = "luaD_call" /\ cstack[i].noyield}
    BY <2>1 DEF ForbidsTo, Forbids
  <2>5. Base(cstack, th) = IF th = Main \/ th \notin Active THEN 1 ELSE 0
    BY <2>1 DEF Base, Active
  <2> QED BY <2>2, <2>3, <2>4, <2>5
<1> QED BY <1>1, StacksFit, PTL

-----------------------------------------------------------------------------
(* Errors end the innermost protected call                                 *)

(* A protected call above the last setjmp is one that recover finds.       *)
LEMMA InCallBelow ==
    ASSUME Shaped, raise # "no", NEW p \in 1 .. Size, InPCall(ci[L][p])
    PROVE  ci[L][p].ypcall \/ (Jmp.c = "luaD_pcall" /\ p <= Jmp.ci)
<1> DEFINE F == ci[L]
           a == Size
<1> SUFFICES ASSUME ~F[p].ypcall PROVE Jmp.c = "luaD_pcall" /\ p <= Jmp.ci
  OBVIOUS
<1>1. /\ Act.ci \in Nat /\ F \in Seq(CallInfo) /\ a \in Nat /\ a = Len(F) /\ F[p] \in CallInfo
      /\ Act.c \in {"luaV_execute", "luaD_call", "lua_resume"} /\ Rests(Act, F)
      /\ L = Act.th /\ Act = cstack[Depth] /\ Depth \in 1 .. Depth /\ Depth = Len(cstack)
      /\ Depth \in Nat /\ cstack # <<>> /\ cstack \in Seq(Entry)
  BY Raised, ActFacts DEF Size, Depth, Shaped, StackTypes
<1>2. /\ Setjmp \in 1 .. Depth /\ Jmp = cstack[Setjmp] /\ Jmp.c \in Protected
      /\ \A i \in Setjmp + 1 .. Depth : cstack[i].c \notin Protected
      /\ \A i \in Setjmp .. Depth : cstack[i].th = L
  BY <1>1, SetjmpFacts DEF Jmp
<1>3. CASE p <= Act.ci
  <2>1. Protects(cstack, ci, Depth) /\ Apart(cstack, Setjmp)
    BY <1>1, <1>2 DEF Shaped, Shape
  <2>2. p \in 1 .. Act.ci
    BY <1>1, <1>3
  <2>3. PICK j \in 1 .. Depth : cstack[j].th = L /\ cstack[j].ci = p /\ cstack[j].c = "luaD_pcall"
    BY <2>1, <2>2, <1>1 DEF Protects
  <2>4. j <= Setjmp
    <3>1. cstack[j].c \in Protected
      BY <2>3 DEF Protected
    <3>2. j \notin Setjmp + 1 .. Depth
      BY <3>1, <1>2
    <3> QED BY <3>2, <1>1, <1>2
  <2>5. CASE j = Setjmp
    BY <2>3, <2>5, <1>1, <1>2
  <2>6. CASE j # Setjmp
    <3>1. j \in 1 .. Setjmp - 1 /\ Setjmp \in j + 1 .. Setjmp
      BY <2>4, <2>6, <1>1, <1>2
    <3>2. cstack[Setjmp].th = L
      BY <1>1, <1>2
    <3>3. cstack[Setjmp].c # "lua_resume" /\ cstack[j].ci <= cstack[Setjmp].ci
      BY <3>1, <3>2, <2>1, <2>3 DEF Apart
    <3> QED BY <3>3, <2>3, <1>2 DEF Protected
  <2> QED BY <2>5, <2>6
<1>4. CASE ~(p <= Act.ci)
  <2>1. p # a
    <3>1. Size > Act.ci => F[a].fn = "lua" \/ F[a].st \in Resting
      BY Raised
    <3> QED BY <3>1, <1>1, <1>4 DEF InPCall, Resting
  <2>2. p \in Act.ci + 1 .. a - 1 /\ p \in 1 .. a - 1 /\ ~(a <= Act.ci + 1)
    BY <2>1, <1>1, <1>4
  <2>3. Act.c # "luaV_execute" /\ Act.c # "luaD_call"
    BY <2>2, <1>1 DEF Rests, InPCall
  <2>4. Unrollable(F[p])
    BY <2>2, <2>3, <1>1 DEF Rests
  <2> QED BY <2>4 DEF Unrollable, InPCall
<1> QED BY <1>3, <1>4

(* A luaD_pcall is never under a protected call that recover would find.   *)
LEMMA MarkedBelow ==
    ASSUME Shaped, raise # "no", Jmp.c = "luaD_pcall", NEW p \in 1 .. Size, ci[L][p].ypcall
    PROVE  p < Jmp.ci
<1> DEFINE F == ci[L]
           a == Size
<1>1. /\ Act.ci \in Nat /\ F \in Seq(CallInfo) /\ a \in Nat /\ a = Len(F) /\ F[p] \in CallInfo
      /\ Act.c \in {"luaV_execute", "luaD_call", "lua_resume"} /\ Rests(Act, F)
      /\ L = Act.th /\ Act = cstack[Depth] /\ Depth \in 1 .. Depth /\ Depth = Len(cstack)
      /\ Depth \in Nat /\ cstack # <<>> /\ cstack \in Seq(Entry)
  BY Raised, ActFacts DEF Size, Depth, Shaped, StackTypes
<1>2. /\ Setjmp \in 1 .. Depth /\ Jmp = cstack[Setjmp] /\ Jmp.ci \in Nat
      /\ \A i \in Setjmp + 1 .. Depth : cstack[i].c \notin Protected
      /\ \A i \in Setjmp .. Depth : cstack[i].th = L
  <2>1. /\ Setjmp \in 1 .. Depth /\ Jmp = cstack[Setjmp]
        /\ \A i \in Setjmp + 1 .. Depth : cstack[i].c \notin Protected
        /\ \A i \in Setjmp .. Depth : cstack[i].th = L
    BY <1>1, SetjmpFacts DEF Jmp
  <2>2. cstack[Setjmp] \in Entry
    BY <2>1, <1>1
  <2> QED BY <2>1, <2>2, EntryFields
<1>3. InPCall(F[p]) /\ F[p].fn # "lua"
  BY <1>1, FrameFields DEF InPCall
<1>4. CASE p <= Act.ci
  <2>1. Protects(cstack, ci, Depth)
    BY <1>1 DEF Shaped, Shape
  <2>2. cstack[Setjmp].th = L
    BY <1>1, <1>2
  <2>3. \A q \in Jmp.ci .. Act.ci : q > 0 => ~F[q].ypcall
    BY <2>1, <2>2, <1>1, <1>2 DEF Protects
  <2>4. p \notin Jmp.ci .. Act.ci
    BY <2>3
  <2> QED BY <2>4, <1>1, <1>2, <1>4
<1>5. CASE ~(p <= Act.ci)
  <2>1. p # a
    <3>1. Size > Act.ci => ~F[a].ypcall
      BY Raised
    <3> QED BY <3>1, <1>1, <1>5
  <2>2. p \in Act.ci + 1 .. a - 1 /\ ~(a <= Act.ci + 1)
    BY <2>1, <1>1, <1>5
  <2>3. Act.c = "lua_resume"
    BY <2>2, <1>1, <1>3 DEF Rests
  <2>4. Depth \notin Setjmp + 1 .. Depth
    BY <2>3, <1>1, <1>2 DEF Protected
  <2>5. Setjmp = Depth
    BY <2>4, <1>1, <1>2
  <2> QED BY <2>3, <2>5, <1>1, <1>2
<1> QED BY <1>4, <1>5

LEMMA HighestIs ==
    ASSUME NEW T, NEW n \in T, \A i \in T : i <= n, T \subseteq Nat
    PROVE  Highest(T) = n
<1>1. \E m \in T : \A i \in T : i <= m
  OBVIOUS
<1>2. Highest(T) \in T /\ \A i \in T : i <= Highest(T)
  BY <1>1, Zenon DEF Highest
<1>3. n \in Nat /\ Highest(T) \in Nat /\ n <= Highest(T) /\ Highest(T) <= n
  BY <1>2
<1> QED BY <1>3

LEMMA LastSet ==
    ASSUME NEW S, NEW s \in Seq(S), NEW fr
    PROVE  /\ Len(Append(s, fr)) = Len(s) + 1 /\ Last(Append(s, fr)) = fr
  BY DEF Last

Caught ==
    raise = "throw" =>
        LET P == InProgress(ci[L]) IN
        IF raise' = "throw" THEN \A n \in P : n <= Len(ci'[L])
        ELSE IF P # {} THEN /\ Len(ci'[L]) = Highest(P) /\ Last(ci'[L]).st = "caught"
                            /\ ~Last(ci'[L]).ypcall
        ELSE IF L = Main THEN ci'[Main] = <<>>
        ELSE status'[L] = "error" /\ L' # L /\ Last(ci'[L']).st = "failed"

LEMMA InProgressFacts ==
    ASSUME Inv, raise # "no"
    PROVE  /\ ci[L] \in Seq(CallInfo) /\ Size \in Nat /\ Size = Len(ci[L]) /\ cstack # <<>>
           /\ \A p : p \in InProgress(ci[L]) <=> p \in 1 .. Size /\ InPCall(ci[L][p])
<1>1. ci[L] \in Seq(CallInfo) /\ Size \in Nat /\ Size = Len(ci[L]) /\ cstack # <<>>
  BY Raised, ActFacts DEF Inv, Size
<1>2. DOMAIN ci[L] = 1 .. Size
  BY <1>1
<1> QED BY <1>1, <1>2 DEF InProgress, InPCall

LEMMA ThrowToPCallCaught == ASSUME Inv, ThrowToPCall PROVE Caught
<1> DEFINE j == Setjmp
           frames == SubSeq(ci[L], 1, Jmp.ci)
           F2 == IF frames = <<>> \/ Jmp.gc THEN frames ELSE SetTop(frames, "caught")
           a == Jmp.ci
           P == InProgress(ci[L])
<1>1. /\ raise = "throw" /\ Jmp.c = "luaD_pcall" /\ ci' = [ci EXCEPT ![L] = F2]
      /\ raise' = IF Jmp.gc THEN "throw" ELSE "no"
  BY DEF ThrowToPCall
<1>2. /\ ci[L] \in Seq(CallInfo) /\ Size \in Nat /\ Size = Len(ci[L]) /\ cstack # <<>>
      /\ \A p : p \in P <=> p \in 1 .. Size /\ InPCall(ci[L][p])
  BY <1>1, InProgressFacts
<1>3. /\ j \in 1 .. Depth /\ Jmp = cstack[j] /\ Jmp \in Entry /\ Jmp.th = L
      /\ Linked(cstack, j) /\ L \in Thread /\ ci \in [Thread -> Seq(CallInfo)]
      /\ Depth \in Nat /\ Depth = Len(cstack)
  BY <1>2, JmpRemembers
<1>4. Called(cstack, ci, j)
  BY <1>3 DEF Inv, Shaped, Shape
<1>5. a \in Nat /\ Jmp.gc \in BOOLEAN /\ a <= Size
  BY <1>1, <1>2, <1>3, <1>4, EntryFields DEF Called
<1>6. ASSUME NEW p \in P PROVE p <= a
  <2>1. p \in 1 .. Size /\ InPCall(ci[L][p])
    BY <1>2
  <2>2. CASE ci[L][p].ypcall
    <3>1. p < a
      BY <2>1, <2>2, <1>1, MarkedBelow DEF Inv
    <3> QED BY <3>1, <2>1, <1>5
  <2>3. CASE ~ci[L][p].ypcall
    BY <2>1, <2>3, <1>1, InCallBelow DEF Inv
  <2> QED BY <2>2, <2>3
<1>7. ci'[L] = F2
  BY <1>1, <1>3
<1>8. /\ frames \in Seq(CallInfo) /\ Len(frames) = a /\ \A p \in 1 .. a : frames[p] = ci[L][p]
  <2>1. a \in 0 .. Len(ci[L])
    BY <1>2, <1>5
  <2> QED BY <2>1, <1>2, PrefixFacts
<1>9. CASE Jmp.gc
  <2>1. F2 = frames
    BY <1>9
  <2>2. raise' = "throw" /\ \A n \in P : n <= Len(ci'[L])
    BY <2>1, <1>1, <1>6, <1>7, <1>8, <1>9
  <2> QED BY <2>2 DEF Caught
<1>10. CASE ~Jmp.gc /\ j = 1
  <2>1. a = 0 /\ L = Main
    BY <1>3, <1>10 DEF Linked
  <2>2. frames = <<>>
    BY <2>1, <1>8
  <2>3. F2 = <<>>
    BY <2>2
  <2>4. P = {}
    <3>1. ASSUME NEW p \in P PROVE FALSE
      <4>1. p <= 0 /\ p \in 1 .. Size
        BY <2>1, <1>2, <1>6
      <4> QED BY <4>1, <1>2
    <3> QED BY <3>1
  <2>5. raise' = "no" /\ ci'[Main] = <<>>
    BY <2>1, <2>3, <1>1, <1>7, <1>10
  <2> QED BY <2>1, <2>4, <2>5 DEF Caught
<1>11. CASE ~Jmp.gc /\ j # 1
  <2>1. a > 0 /\ InPCall(ci[L][a]) /\ ~ci[L][a].ypcall
    BY <1>1, <1>3, <1>4, <1>11 DEF Called, InPCall
  <2>2. a \in P /\ a \in 1 .. a
    BY <2>1, <1>2, <1>5
  <2>3. Highest(P) = a
    <3>1. P \subseteq Nat
      BY <1>2
    <3> HIDE DEF P, a
    <3> QED BY <3>1, <2>2, <1>6, HighestIs
  <2>4. frames # <<>> /\ Last(frames) = ci[L][a] /\ ci[L][a] \in CallInfo
    BY <2>1, <2>2, <1>2, <1>5, <1>8 DEF Last
  <2> DEFINE fr == [Last(frames) EXCEPT !.st = "caught"]
  <2>5. fr.st = "caught" /\ fr.ypcall = ci[L][a].ypcall
    BY <2>4 DEF CallInfo
  <2>6. F2 = Append(Front(frames), fr)
    BY <2>4, <1>11 DEF SetTop
  <2>7. Front(frames) \in Seq(CallInfo) /\ Len(Front(frames)) = a - 1
    BY <2>4, <1>8, FrontFacts
  <2> HIDE DEF fr, F2, frames, a
  <2>8. Len(F2) = a /\ Last(F2) = fr
    BY <2>6, <2>7, <1>5, LastSet
  <2>9. raise' = "no" /\ P # {}
    BY <2>2, <1>1, <1>11
  <2> HIDE DEF P
  <2>10. Len(ci'[L]) = Highest(P) /\ Last(ci'[L]).st = "caught" /\ ~Last(ci'[L]).ypcall
    BY <2>1, <2>3, <2>5, <2>8, <1>7
  <2> QED BY <2>9, <2>10 DEF Caught, P
<1> QED BY <1>5, <1>9, <1>10, <1>11

LEMMA RecoverCaught == ASSUME Inv, Recover PROVE Caught
<1> DEFINE F == ci[L]
           n == CHOOSE i \in PCalls(ci[L]) : \A j \in PCalls(ci[L]) : j <= i
           f == F[n]
           fr == [f EXCEPT !.st = "caught", !.ypcall = FALSE]
           G == SubSeq(F, 1, n - 1)
           F2 == Append(G, fr)
           P == InProgress(F)
<1>1. /\ raise = "throw" /\ Jmp.c = "lua_resume" /\ PCalls(ci[L]) # {}
      /\ ci' = [ci EXCEPT ![L] = F2] /\ raise' = "no"
  BY DEF Recover
<1>2. n \in 1 .. Size /\ f.ypcall /\ \A j \in PCalls(ci[L]) : j <= n
  BY <1>1, RecoverFacts DEF Inv
<1> HIDE DEF n
<1>3. /\ F \in Seq(CallInfo) /\ Size \in Nat /\ Size = Len(F) /\ cstack # <<>>
      /\ \A p : p \in P <=> p \in 1 .. Size /\ InPCall(F[p])
  BY <1>1, InProgressFacts
<1>4. L \in Thread /\ ci \in [Thread -> Seq(CallInfo)]
  BY <1>3, JmpRemembers
<1>5. f \in CallInfo /\ InPCall(f) /\ n \in P
  <2>1. f \in CallInfo
    BY <1>2, <1>3
  <2>2. InPCall(f)
    BY <2>1, <1>2, FrameFields DEF InPCall
  <2> QED BY <2>1, <2>2, <1>2, <1>3
<1>6. ASSUME NEW p \in P PROVE p <= n
  <2>1. p \in 1 .. Size /\ InPCall(F[p])
    BY <1>3
  <2>2. F[p].ypcall
    BY <2>1, <1>1, InCallBelow DEF Inv
  <2>3. p \in PCalls(F)
    BY <2>1, <2>2, <1>3 DEF PCalls
  <2> QED BY <2>3, <1>2
<1>7. Highest(P) = n
  <2>1. P \subseteq Nat
    BY <1>3
  <2> HIDE DEF P
  <2> QED BY <2>1, <1>5, <1>6, HighestIs
<1>8. fr.st = "caught" /\ ~fr.ypcall
  BY <1>5 DEF CallInfo
<1>9. G \in Seq(CallInfo) /\ Len(G) = n - 1
  <2>1. n - 1 \in 0 .. Len(F)
    BY <1>2, <1>3
  <2> QED BY <2>1, <1>3, PrefixFacts
<1>10. ci'[L] = F2
  BY <1>1, <1>4
<1> HIDE DEF fr, G
<1>11. Len(F2) = n /\ Last(F2) = fr
  BY <1>2, <1>3, <1>9, LastSet
<1> HIDE DEF P, F2
<1>12. /\ P # {} /\ Len(ci'[L]) = Highest(P) /\ Last(ci'[L]).st = "caught" /\ ~Last(ci'[L]).ypcall
  BY <1>5, <1>7, <1>8, <1>10, <1>11
<1> QED BY <1>1, <1>12 DEF Caught, P

LEMMA CoroutineFailsCaught == ASSUME Inv, CoroutineFails PROVE Caught
<1> DEFINE j == Setjmp
           k == j - 1
           rest == SubSeq(cstack, 1, k)
           from == Last(rest).th
           P == InProgress(ci[L])
<1>1. /\ raise = "throw" /\ Jmp.c = "lua_resume" /\ PCalls(ci[L]) = {} /\ cstack' = rest /\ raise' = "no"
      /\ ci' = [ci EXCEPT ![from] = SetTop(@, "failed")]
      /\ status' = [status EXCEPT ![L] = "error"]
  BY DEF CoroutineFails
<1>2. /\ ci[L] \in Seq(CallInfo) /\ Size \in Nat /\ Size = Len(ci[L]) /\ cstack # <<>>
      /\ \A p : p \in P <=> p \in 1 .. Size /\ InPCall(ci[L][p])
  BY <1>1, InProgressFacts
<1>3. /\ j \in 1 .. Depth /\ Jmp = cstack[j] /\ Jmp.th = L
      /\ L \in Thread /\ ci \in [Thread -> Seq(CallInfo)] /\ cstack \in Seq(Entry)
      /\ Depth \in Nat /\ Depth = Len(cstack)
  BY <1>2, JmpRemembers
<1>4. P = {}
  <2>1. ASSUME NEW p \in P PROVE FALSE
    <3>1. p \in 1 .. Size /\ InPCall(ci[L][p])
      BY <1>2
    <3>2. ci[L][p].ypcall
      BY <3>1, <1>1, InCallBelow DEF Inv
    <3>3. p \in PCalls(ci[L])
      BY <3>1, <3>2, <1>2 DEF PCalls
    <3> QED BY <3>3, <1>1
  <2> QED BY <2>1
<1>5. Called(cstack, ci, j) /\ Linked(cstack, j)
  BY <1>3 DEF Inv, Shaped, Shape
<1> HIDE DEF j
<1>6. (\A i \in 1 .. k : cstack[i].th # L) /\ j > 1 /\ L # Main
  BY <1>1, <1>3, NoneBelow DEF Inv
<1>7. k \in 1 .. k /\ k \in 0 .. Depth /\ k \in 1 .. Depth /\ k \in Nat
  BY <1>3, <1>6
<1>8. Last(rest) = cstack[k] /\ rest \in Seq(Entry) /\ cstack[k] \in Entry
  <2>1. rest \in Seq(Entry) /\ Len(rest) = k /\ \A i \in 1 .. k : rest[i] = cstack[i]
    BY <1>3, <1>7, PrefixFacts
  <2> HIDE DEF rest, k
  <2> QED BY <2>1, <1>3, <1>7 DEF Last
<1>9. from # L /\ from \in Thread /\ from = cstack[k].th /\ cstack[k].ci \in Nat
  BY <1>6, <1>7, <1>8, EntryFields
<1>10. L' = from
  BY <1>1 DEF L
<1> DEFINE g == ci[from]
           fr == [Last(g) EXCEPT !.st = "failed"]
<1>11. g \in Seq(CallInfo) /\ Len(g) > 0
  <2>1. g \in Seq(CallInfo)
    BY <1>3, <1>9
  <2>2. Len(ci[cstack[k].th]) > cstack[k].ci
    BY <1>1, <1>3, <1>5 DEF Called
  <2> HIDE DEF g
  <2>3. Len(g) > cstack[k].ci
    BY <2>2, <1>9 DEF g
  <2> QED BY <2>1, <2>3, <1>9
<1>12. ci'[from] = Append(Front(g), fr)
  BY <1>1, <1>3, <1>9 DEF SetTop
<1> HIDE DEF from, rest, k, g
<1>13. Last(g) \in CallInfo /\ g # <<>> /\ Front(g) \in Seq(CallInfo)
  <2>1. g # <<>> /\ Len(g) \in 1 .. Len(g)
    BY <1>11
  <2>2. Last(g) \in CallInfo
    BY <2>1, <1>11 DEF Last
  <2> QED BY <2>1, <2>2, <1>11, FrontFacts
<1>14. fr.st = "failed"
  BY <1>13 DEF CallInfo
<1> HIDE DEF fr
<1>15. Last(ci'[from]).st = "failed"
  BY <1>12, <1>13, <1>14, LastSet
<1>16. status'[L] = "error"
  BY <1>1, <1>3 DEF Inv, Fields
<1>17. L' # L /\ Last(ci'[L']).st = "failed"
  BY <1>9, <1>10, <1>15
<1> QED BY <1>1, <1>4, <1>6, <1>16, <1>17 DEF Caught

(* Only three actions run while an error is thrown.                        *)
LEMMA NextCaught == Inv /\ [Next]_vars => [Caught]_vars
<1> SUFFICES ASSUME Inv, Next PROVE Caught
  OBVIOUS
<1>1. CASE raise # "throw"
  BY <1>1 DEF Caught
<1>2. CASE raise = "throw"
  <2>1. cstack # <<>>
    BY <1>2, Raised DEF Inv
  <2>2. ThrowToPCall \/ Recover \/ CoroutineFails
    BY <1>2, <2>1 DEF Next, DoCall, OpCall, CallTM, Hook, Finalizer, MemoryError, PCallK, CallK, LuaCall,
       RaiseError, ReturnToLua, MetamethodEnds, HookEnds, HandlerEnds, CFunctionGoesOn, PCallEnds,
       ReturnToResume, ResumeRefused, StartCoroutine, ContinueCoroutine, FinishCCall, FinishOp,
       CoroutineEnds, ErrorMsg, Yield, CallEnds, Returns, Resumes, EnterResume, Unrolls, RunsLua, RunsC,
       Running
  <2> QED BY <2>2, ThrowToPCallCaught, RecoverCaught, CoroutineFailsCaught
<1> QED BY <1>1, <1>2

(* An error ends exactly the innermost protected call in progress of its   *)
(* thread, whether yields have interrupted it or not; without one it kills *)
(* the coroutine, and the function that resumed it gets the error.         *)
THEOREM ErrorsCaught == Spec => ErrorCaught
<1>1. Inv /\ [Next]_vars => [raise = "throw" =>
        LET P == InProgress(ci[L]) IN
        IF raise' = "throw" THEN \A n \in P : n <= Len(ci'[L])
        ELSE IF P # {} THEN /\ Len(ci'[L]) = Highest(P) /\ Last(ci'[L]).st = "caught"
                            /\ ~Last(ci'[L]).ypcall
        ELSE IF L = Main THEN ci'[Main] = <<>>
        ELSE status'[L] = "error" /\ L' # L /\ Last(ci'[L']).st = "failed"]_vars
  BY NextCaught DEF Caught
<1> QED BY <1>1, StacksFit, PTL DEF Spec, ErrorCaught

-----------------------------------------------------------------------------
(* The message handler                                                     *)

(* The calls of luaD_pcall on the C stack, and those by GCTM.              *)
PCallsOf(cs) == {r \in Entry : r.c = "luaD_pcall" /\ \E i \in 1 .. Len(cs) : cs[i] = r}
Collects(R, th, n) == \E r \in R : r.th = th /\ r.gc /\ r.ci = n
CollectsAt(r) == r.c = "luaD_pcall" /\ r.gc
OneCollects(cs) == \A i, j \in 1 .. Len(cs) : CollectsAt(cs[i]) /\ CollectsAt(cs[j]) => i = j

(* A frame sets the message handler when it is a protected call or when a  *)
(* finalizer runs on it; b says whether the last of F up to k gives one.   *)
Marked(R, F, th, n) == InPCall(F[n]) \/ Collects(R, th, n)
Handles(R, F, th, k, b) ==
    \/ \E n \in 1 .. k : /\ Marked(R, F, th, n) /\ b = (F[n].fn = "xpcall")
                         /\ \A m \in n + 1 .. k : ~Marked(R, F, th, m)
    \/ b = (th = Main) /\ \A m \in 1 .. k : ~Marked(R, F, th, m)

(* errfunc is that of the frames, and what was saved that of those below;  *)
(* on says whether the main thread is running anything.                    *)
HandlersOf(R, f, ef, st, on) ==
    /\ \A th \in Thread : st[th] # "error" /\ (th = Main => on) =>
           Handles(R, f[th], th, Len(f[th]), ef[th])
    /\ \A r \in R : r.ci > 0 => Handles(R, f[r.th], r.th, r.ci - 1, r.errfunc)
    /\ \A th \in Thread : st[th] # "error" =>
           \A p \in 1 .. Len(f[th]) : f[th][p].ypcall =>
               Handles(R, f[th], th, p - 1, f[th][p].old_errfunc)

Handled ==
    /\ HandlersOf(PCallsOf(cstack), ci, errfunc, status, cstack # <<>>)
    /\ cstack = <<>> => ci[Main] = <<>>
    /\ OneCollects(cstack)
    /\ \A th \in unstarted : ~errfunc[th] /\ ci[th] = <<>>

Agree(R, F, R2, F2, th, k) ==
    \A n \in 1 .. k : /\ Marked(R, F, th, n) <=> Marked(R2, F2, th, n)
                      /\ Marked(R, F, th, n) => F2[n].fn = F[n].fn

LEMMA AgreeHandles ==
    ASSUME NEW R, NEW F, NEW R2, NEW F2, NEW th, NEW k \in Nat, Agree(R, F, R2, F2, th, k),
           NEW m \in 0 .. k, NEW b, Handles(R, F, th, m, b)
    PROVE  Handles(R2, F2, th, m, b)
<1>1. \A n \in 1 .. m : /\ Marked(R, F, th, n) <=> Marked(R2, F2, th, n)
                        /\ Marked(R, F, th, n) => F2[n].fn = F[n].fn
  BY DEF Agree
<1>2. CASE b = (th = Main) /\ \A n \in 1 .. m : ~Marked(R, F, th, n)
  <2>1. \A n \in 1 .. m : ~Marked(R2, F2, th, n)
    BY <1>1, <1>2
  <2> QED BY <2>1, <1>2 DEF Handles
<1>3. ASSUME NEW n \in 1 .. m, Marked(R, F, th, n), b = (F[n].fn = "xpcall"),
             \A l \in n + 1 .. m : ~Marked(R, F, th, l)
      PROVE  Handles(R2, F2, th, m, b)
  <2>1. \A l \in n + 1 .. m : l \in 1 .. m
    OBVIOUS
  <2>2. \A l \in n + 1 .. m : ~Marked(R2, F2, th, l)
    BY <2>1, <1>1, <1>3
  <2>3. Marked(R2, F2, th, n) /\ F2[n].fn = F[n].fn
    BY <1>1, <1>3
  <2>4. b = (F2[n].fn = "xpcall")
    BY <2>3, <1>3
  <2> QED BY <2>2, <2>3, <2>4 DEF Handles
<1> QED BY <1>2, <1>3 DEF Handles

LEMMA UnmarkedAbove ==
    ASSUME NEW R, NEW F, NEW th, NEW k \in Nat, NEW m \in 0 .. k, NEW b,
           \A n \in m + 1 .. k : ~Marked(R, F, th, n)
    PROVE  Handles(R, F, th, m, b) <=> Handles(R, F, th, k, b)
<1>1. \A n : n \in 1 .. k <=> n \in 1 .. m \/ n \in m + 1 .. k
  OBVIOUS
<1>2. (\A n \in 1 .. m : ~Marked(R, F, th, n)) <=> (\A n \in 1 .. k : ~Marked(R, F, th, n))
  BY <1>1
<1>3. ASSUME NEW n \in 1 .. m
      PROVE  (\A l \in n + 1 .. m : ~Marked(R, F, th, l)) <=> (\A l \in n + 1 .. k : ~Marked(R, F, th, l))
  <2>1. \A l : l \in n + 1 .. k <=> l \in n + 1 .. m \/ l \in m + 1 .. k
    OBVIOUS
  <2> QED BY <2>1
<1>4. \A n \in 1 .. k : Marked(R, F, th, n) => n \in 1 .. m
  BY <1>1
<1> QED BY <1>1, <1>2, <1>3, <1>4 DEF Handles

LEMMA MarkHandles ==
    ASSUME NEW R, NEW F, NEW th, NEW n \in Nat, n > 0, Marked(R, F, th, n), NEW b,
           b = (F[n].fn = "xpcall")
    PROVE  Handles(R, F, th, n, b)
<1>1. n \in 1 .. n /\ \A m \in n + 1 .. n : FALSE
  OBVIOUS
<1> QED BY <1>1 DEF Handles

(* What a step may do to the threads: k are the levels that it leaves.     *)
Quiet(R, f, ef, st, R2, f2, ef2, th, k) ==
    /\ st[th] # "error" /\ ef2[th] = ef[th]
    /\ k <= Len(f[th]) /\ k <= Len(f2[th])
    /\ \A n \in k + 1 .. Len(f[th]) : ~Marked(R, f[th], th, n)
    /\ \A n \in k + 1 .. Len(f2[th]) : ~Marked(R2, f2[th], th, n)

Changes(R, f, ef, st, R2, f2, ef2, st2, k, on) ==
    /\ \A th \in Thread : Agree(R, f[th], R2, f2[th], th, k[th])
    /\ \A th \in Thread : st2[th] # "error" /\ (th = Main => on) =>
           \/ Handles(R2, f2[th], th, Len(f2[th]), ef2[th])
           \/ Quiet(R, f, ef, st, R2, f2, ef2, th, k[th])
    /\ \A r \in R2 : r.ci > 0 => r.ci - 1 <= k[r.th] /\ Handles(R, f[r.th], r.th, r.ci - 1, r.errfunc)
    /\ \A th \in Thread : st2[th] # "error" =>
           \A p \in 1 .. Len(f2[th]) : f2[th][p].ypcall =>
               p - 1 <= k[th] /\ Handles(R, f[th], th, p - 1, f2[th][p].old_errfunc)

LEMMA HandlersChange ==
    ASSUME NEW R \in SUBSET Entry, NEW f \in [Thread -> Seq(CallInfo)], NEW ef, NEW st,
           NEW R2 \in SUBSET Entry, NEW f2 \in [Thread -> Seq(CallInfo)], NEW ef2, NEW st2,
           HandlersOf(R, f, ef, st, TRUE), NEW k \in [Thread -> Nat], NEW on,
           Changes(R, f, ef, st, R2, f2, ef2, st2, k, on)
    PROVE  HandlersOf(R2, f2, ef2, st2, on)
<1>1. ASSUME NEW th \in Thread, NEW m \in Nat, m <= k[th], NEW b, Handles(R, f[th], th, m, b)
      PROVE  Handles(R2, f2[th], th, m, b)
  <2>1. Agree(R, f[th], R2, f2[th], th, k[th]) /\ k[th] \in Nat /\ m \in 0 .. k[th]
    BY <1>1 DEF Changes
  <2> QED BY <2>1, <1>1, AgreeHandles
<1>2. ASSUME NEW th \in Thread, st2[th] # "error", th = Main => on
      PROVE  Handles(R2, f2[th], th, Len(f2[th]), ef2[th])
  <2>1. CASE Quiet(R, f, ef, st, R2, f2, ef2, th, k[th])
    <3>1. /\ st[th] # "error" /\ ef2[th] = ef[th]
          /\ k[th] <= Len(f[th]) /\ k[th] <= Len(f2[th])
          /\ \A n \in k[th] + 1 .. Len(f[th]) : ~Marked(R, f[th], th, n)
          /\ \A n \in k[th] + 1 .. Len(f2[th]) : ~Marked(R2, f2[th], th, n)
      BY <2>1 DEF Quiet
    <3>2. /\ Len(f[th]) \in Nat /\ Len(f2[th]) \in Nat /\ k[th] \in Nat
          /\ k[th] \in 0 .. Len(f[th]) /\ k[th] \in 0 .. Len(f2[th])
      BY <3>1
    <3>3. Handles(R, f[th], th, Len(f[th]), ef[th])
      BY <3>1 DEF HandlersOf
    <3>4. Handles(R, f[th], th, k[th], ef[th])
      BY <3>1, <3>2, <3>3, UnmarkedAbove
    <3>5. Handles(R2, f2[th], th, k[th], ef2[th])
      BY <3>1, <3>2, <3>4, <1>1
    <3> QED BY <3>1, <3>2, <3>5, UnmarkedAbove
  <2> QED BY <2>1, <1>2 DEF Changes
<1>3. ASSUME NEW r \in R2, r.ci > 0
      PROVE  Handles(R2, f2[r.th], r.th, r.ci - 1, r.errfunc)
  <2>1. r \in Entry /\ r.th \in Thread /\ r.ci \in Nat
    BY EntryFields
  <2>2. r.ci - 1 <= k[r.th] /\ Handles(R, f[r.th], r.th, r.ci - 1, r.errfunc) /\ r.ci - 1 \in Nat
    BY <2>1, <1>3 DEF Changes
  <2> QED BY <2>1, <2>2, <1>1
<1>4. ASSUME NEW th \in Thread, st2[th] # "error", NEW p \in 1 .. Len(f2[th]), f2[th][p].ypcall
      PROVE  Handles(R2, f2[th], th, p - 1, f2[th][p].old_errfunc)
  <2>1. p - 1 <= k[th] /\ Handles(R, f[th], th, p - 1, f2[th][p].old_errfunc) /\ p - 1 \in Nat
    BY <1>4 DEF Changes
  <2> QED BY <2>1, <1>1
<1> QED BY <1>2, <1>3, <1>4 DEF HandlersOf

(* A finalizer runs on a Lua function that waits for it.                   *)
LEMMA CollectsOnLua ==
    ASSUME Shaped, NEW r \in PCallsOf(cstack)
    PROVE  /\ r \in Entry /\ r.th \in Thread /\ r.ci \in Nat /\ r.ci <= Len(ci[r.th])
           /\ r.gc => r.ci > 0 /\ ci[r.th][r.ci].fn = "lua" /\ ci[r.th][r.ci].st = "out"
           /\ ~r.gc => r.ci = 0 \/ InPCall(ci[r.th][r.ci])
<1>1. PICK i \in 1 .. Len(cstack) : cstack[i] = r
  BY DEF PCallsOf
<1>2. r \in Entry /\ r.c = "luaD_pcall" /\ r.th \in Thread /\ r.ci \in Nat
  BY EntryFields DEF PCallsOf
<1>3. Called(cstack, ci, i) /\ Linked(cstack, i)
  BY DEF Shaped, Shape
<1>4. r.ci <= Len(ci[r.th])
  BY <1>1, <1>3 DEF Called
<1>5. r.gc => i # 1
  BY <1>1, <1>3 DEF Linked
<1>6. r.gc => r.ci > 0 /\ ci[r.th][r.ci].fn = "lua" /\ ci[r.th][r.ci].st = "out"
  <2> SUFFICES ASSUME r.gc PROVE r.ci > 0 /\ ci[r.th][r.ci].fn = "lua" /\ ci[r.th][r.ci].st = "out"
    OBVIOUS
  <2>1. ~(ci[r.th][r.ci].fn \in {"pcall", "xpcall"} /\ ~r.gc)
    OBVIOUS
  <2> QED BY <1>1, <1>2, <1>3, <1>5 DEF Called
<1>7. ~r.gc => r.ci = 0 \/ InPCall(ci[r.th][r.ci])
  <2>1. i = 1 => r.ci = 0
    BY <1>1, <1>3 DEF Linked
  <2> QED BY <2>1, <1>1, <1>2, <1>3 DEF Called, InPCall
<1> QED BY <1>2, <1>4, <1>6, <1>7

(* The frames up to k stay as they are for the message handler, and no     *)
(* other has or had one.                                                   *)
SameMarks(F, F2, k) ==
    /\ k <= Len(F) /\ k <= Len(F2)
    /\ \A n \in 1 .. k : /\ F2[n].fn = F[n].fn /\ (InPCall(F2[n]) <=> InPCall(F[n]))
                         /\ F2[n].ypcall => F[n].ypcall /\ F2[n].old_errfunc = F[n].old_errfunc
    /\ \A n \in k + 1 .. Len(F) : ~InPCall(F[n]) /\ F[n].st # "out"
    /\ \A n \in k + 1 .. Len(F2) : ~InPCall(F2[n])

LEMMA MarkedFrames ==
    ASSUME Shaped, NEW th \in Thread, NEW n \in Nat, ~InPCall(ci[th][n]),
           n > Len(ci[th]) \/ ci[th][n].st # "out" \/ ci[th][n].fn # "lua"
    PROVE  ~Marked(PCallsOf(cstack), ci[th], th, n)
<1>1. ASSUME NEW r \in PCallsOf(cstack), r.th = th, r.gc, r.ci = n PROVE FALSE
  <2>1. Len(ci[th]) \in Nat
    BY DEF Shaped, StackTypes
  <2> QED BY <2>1, <1>1, CollectsOnLua
<1> QED BY <1>1 DEF Marked, Collects

LEMMA QuietStep ==
    ASSUME Shaped, HandlersOf(PCallsOf(cstack), ci, errfunc, status, TRUE),
           NEW f2 \in [Thread -> Seq(CallInfo)], NEW st2,
           \A th \in Thread : \E k \in Nat : SameMarks(ci[th], f2[th], k),
           \A th \in Thread : st2[th] # "error" => status[th] # "error"
    PROVE  HandlersOf(PCallsOf(cstack), f2, errfunc, st2, TRUE)
<1> DEFINE R == PCallsOf(cstack)
           k == [th \in Thread |-> CHOOSE n \in Nat : SameMarks(ci[th], f2[th], n)]
<1>1. R \in SUBSET Entry /\ ci \in [Thread -> Seq(CallInfo)]
  BY DEF PCallsOf, Shaped, StackTypes
<1>2. \A th \in Thread : k[th] \in Nat /\ SameMarks(ci[th], f2[th], k[th])
  OBVIOUS
<1>3. k \in [Thread -> Nat]
  BY <1>2
<1> HIDE DEF k, R
<1>4. ASSUME NEW th \in Thread, NEW n \in Nat, n > k[th]
      PROVE  /\ ~Collects(R, th, n)
             /\ n <= Len(ci[th]) => ~Marked(R, ci[th], th, n)
             /\ n <= Len(f2[th]) => ~Marked(R, f2[th], th, n)
  <2>1. /\ Len(ci[th]) \in Nat /\ Len(f2[th]) \in Nat /\ SameMarks(ci[th], f2[th], k[th])
        /\ k[th] \in Nat
    BY <1>1, <1>2
  <2>2. /\ n <= Len(ci[th]) => ~InPCall(ci[th][n]) /\ ci[th][n].st # "out"
        /\ n <= Len(f2[th]) => ~InPCall(f2[th][n])
    BY <2>1, <1>4 DEF SameMarks
  <2>3. ASSUME NEW r \in R, r.th = th, r.gc, r.ci = n PROVE FALSE
    BY <2>2, <2>3, CollectsOnLua DEF R
  <2>4. ~Collects(R, th, n)
    BY <2>3 DEF Collects
  <2> QED BY <2>2, <2>4 DEF Marked
<1>5. ASSUME NEW th \in Thread
      PROVE  Agree(R, ci[th], R, f2[th], th, k[th])
  <2>1. \A n \in 1 .. k[th] : f2[th][n].fn = ci[th][n].fn /\ (InPCall(f2[th][n]) <=> InPCall(ci[th][n]))
    BY <1>2 DEF SameMarks
  <2> QED BY <2>1 DEF Agree, Marked
<1>6. ASSUME NEW th \in Thread, st2[th] # "error"
      PROVE  Quiet(R, ci, errfunc, status, R, f2, errfunc, th, k[th])
  <2>1. status[th] # "error"
    BY <1>6
  <2>2. k[th] <= Len(ci[th]) /\ k[th] <= Len(f2[th]) /\ Len(ci[th]) \in Nat /\ Len(f2[th]) \in Nat
    BY <1>1, <1>2 DEF SameMarks
  <2>3. \A n \in k[th] + 1 .. Len(ci[th]) : ~Marked(R, ci[th], th, n)
    <3>1. \A n \in k[th] + 1 .. Len(ci[th]) : n \in Nat /\ n > k[th] /\ n <= Len(ci[th])
      BY <2>2, <1>3
    <3> QED BY <3>1, <1>4
  <2>4. \A n \in k[th] + 1 .. Len(f2[th]) : ~Marked(R, f2[th], th, n)
    <3>1. \A n \in k[th] + 1 .. Len(f2[th]) : n \in Nat /\ n > k[th] /\ n <= Len(f2[th])
      BY <2>2, <1>3
    <3> QED BY <3>1, <1>4
  <2> QED BY <2>1, <2>2, <2>3, <2>4 DEF Quiet
<1>7. ASSUME NEW r \in R, r.ci > 0
      PROVE  r.ci - 1 <= k[r.th] /\ Handles(R, ci[r.th], r.th, r.ci - 1, r.errfunc)
  <2>1. /\ r \in Entry /\ r.th \in Thread /\ r.ci \in Nat /\ r.ci <= Len(ci[r.th])
        /\ ci[r.th][r.ci].st = "out" \/ InPCall(ci[r.th][r.ci])
    BY <1>7, CollectsOnLua DEF R
  <2>2. r.ci <= k[r.th]
    <3>1. \A n \in k[r.th] + 1 .. Len(ci[r.th]) : ~InPCall(ci[r.th][n]) /\ ci[r.th][n].st # "out"
      BY <2>1, <1>2 DEF SameMarks
    <3>2. r.ci \notin k[r.th] + 1 .. Len(ci[r.th])
      BY <3>1, <2>1
    <3> QED BY <3>2, <2>1, <1>1, <1>2
  <2>3. Handles(R, ci[r.th], r.th, r.ci - 1, r.errfunc)
    BY <1>7 DEF HandlersOf, R
  <2> QED BY <2>1, <2>2, <2>3, <1>2
<1>8. ASSUME NEW th \in Thread, st2[th] # "error", NEW p \in 1 .. Len(f2[th]), f2[th][p].ypcall
      PROVE  p - 1 <= k[th] /\ Handles(R, ci[th], th, p - 1, f2[th][p].old_errfunc)
  <2>1. /\ SameMarks(ci[th], f2[th], k[th]) /\ status[th] # "error" /\ f2[th][p] \in CallInfo
        /\ k[th] \in Nat /\ Len(f2[th]) \in Nat /\ Len(ci[th]) \in Nat
    BY <1>1, <1>2, <1>8
  <2>2. InPCall(f2[th][p])
    BY <2>1, <1>8, FrameFields DEF InPCall
  <2>3. p \in 1 .. k[th]
    <3>1. p \notin k[th] + 1 .. Len(f2[th])
      BY <2>1, <2>2 DEF SameMarks
    <3> QED BY <3>1, <2>1
  <2>4. /\ ci[th][p].ypcall /\ f2[th][p].old_errfunc = ci[th][p].old_errfunc
        /\ p \in 1 .. Len(ci[th]) /\ p - 1 <= k[th]
    BY <2>1, <2>3, <1>8 DEF SameMarks
  <2> QED BY <2>1, <2>4 DEF HandlersOf, R
<1>9. Changes(R, ci, errfunc, status, R, f2, errfunc, st2, k, TRUE)
  BY <1>5, <1>6, <1>7, <1>8 DEF Changes
<1>10. HandlersOf(R, ci, errfunc, status, TRUE)
  BY DEF R
<1>11. HandlersOf(R, f2, errfunc, st2, TRUE)
  BY <1>1, <1>3, <1>9, <1>10, HandlersChange
<1> QED BY <1>11 DEF R

(* Only the running thread has changed.                                    *)
LEMMA QuietTop ==
    ASSUME Shaped, HandlersOf(PCallsOf(cstack), ci, errfunc, status, TRUE), NEW t \in Thread,
           NEW F2 \in Seq(CallInfo), NEW k \in Nat, SameMarks(ci[t], F2, k)
    PROVE  HandlersOf(PCallsOf(cstack), [ci EXCEPT ![t] = F2], errfunc, status, TRUE)
<1> DEFINE f2 == [ci EXCEPT ![t] = F2]
<1>1. ci \in [Thread -> Seq(CallInfo)]
  BY DEF Shaped, StackTypes
<1>2. f2 \in [Thread -> Seq(CallInfo)] /\ f2[t] = F2 /\ \A th \in Thread : th # t => f2[th] = ci[th]
  BY <1>1
<1> HIDE DEF f2
<1>3. ASSUME NEW th \in Thread PROVE \E n \in Nat : SameMarks(ci[th], f2[th], n)
  <2>1. CASE th = t
    BY <2>1, <1>2
  <2>2. CASE th # t
    <3>1. f2[th] = ci[th] /\ Len(ci[th]) \in Nat
      BY <2>2, <1>1, <1>2
    <3>2. SameMarks(ci[th], ci[th], Len(ci[th]))
      <4>1. \A n \in Len(ci[th]) + 1 .. Len(ci[th]) : FALSE
        BY <3>1
      <4> QED BY <4>1, <3>1 DEF SameMarks
    <3> QED BY <3>1, <3>2
  <2> QED BY <2>1, <2>2
<1>5. HandlersOf(PCallsOf(cstack), f2, errfunc, status, TRUE)
  BY <1>2, <1>3, QuietStep
<1> QED BY <1>5 DEF f2

-----------------------------------------------------------------------------
(* A frame gets or loses a message handler                                 *)

LEMMA OneThread ==
    ASSUME NEW R \in SUBSET Entry, NEW f \in [Thread -> Seq(CallInfo)], NEW ef \in [Thread -> BOOLEAN],
           NEW st, HandlersOf(R, f, ef, st, TRUE), NEW on, NEW t \in Thread, NEW R2 \in SUBSET Entry,
           NEW F2 \in Seq(CallInfo), NEW b, NEW m \in Nat, st[t] # "error",
           \A th \in Thread : th # t => \A n \in Nat : Collects(R2, th, n) <=> Collects(R, th, n),
           Agree(R, f[t], R2, F2, t, m), (t = Main /\ ~on) \/ Handles(R2, F2, t, Len(F2), b),
           \A r \in R2 : r.th # t => r \in R /\ r.ci <= Len(f[r.th]),
           \A r \in R2 : r.th = t /\ r.ci > 0 =>
               r.ci - 1 <= m /\ Handles(R, f[t], t, r.ci - 1, r.errfunc),
           \A p \in 1 .. Len(F2) : F2[p].ypcall =>
               p - 1 <= m /\ Handles(R, f[t], t, p - 1, F2[p].old_errfunc)
    PROVE  HandlersOf(R2, [f EXCEPT ![t] = F2], [ef EXCEPT ![t] = b], st, on)
<1> DEFINE f2 == [f EXCEPT ![t] = F2]
           ef2 == [ef EXCEPT ![t] = b]
           k == [th \in Thread |-> IF th = t THEN m ELSE Len(f[th])]
<1>1. /\ f2 \in [Thread -> Seq(CallInfo)] /\ f2[t] = F2 /\ ef2[t] = b
      /\ \A th \in Thread : th # t => f2[th] = f[th] /\ ef2[th] = ef[th]
  OBVIOUS
<1>2. /\ k \in [Thread -> Nat] /\ k[t] = m
      /\ \A th \in Thread : th # t => k[th] = Len(f[th])
      /\ \A th \in Thread : Len(f[th]) \in Nat
  OBVIOUS
<1> HIDE DEF k, f2, ef2
<1>3. ASSUME NEW th \in Thread
      PROVE  Agree(R, f[th], R2, f2[th], th, k[th])
  <2>1. CASE th = t
    BY <2>1, <1>1, <1>2
  <2>2. CASE th # t
    <3>1. \A n \in 1 .. Len(f[th]) : n \in Nat
      BY <1>2
    <3>2. \A n \in 1 .. Len(f[th]) : Collects(R2, th, n) <=> Collects(R, th, n)
      BY <3>1, <2>2
    <3> QED BY <3>2, <2>2, <1>1, <1>2 DEF Agree, Marked
  <2> QED BY <2>1, <2>2
<1>4. ASSUME NEW th \in Thread, st[th] # "error", th = Main => on
      PROVE  \/ Handles(R2, f2[th], th, Len(f2[th]), ef2[th])
             \/ Quiet(R, f, ef, st, R2, f2, ef2, th, k[th])
  <2>1. CASE th = t
    <3>1. f2[th] = F2 /\ ef2[th] = b
      BY <2>1, <1>1
    <3>2. ~(t = Main /\ ~on)
      BY <2>1, <1>4
    <3> QED BY <3>1, <3>2, <2>1
  <2>2. CASE th # t
    <3>1. f2[th] = f[th] /\ ef2[th] = ef[th] /\ k[th] = Len(f[th]) /\ k[th] \in Nat
      BY <2>2, <1>1, <1>2
    <3>2. \A n \in k[th] + 1 .. Len(f[th]) : FALSE
      BY <3>1
    <3> QED BY <3>1, <3>2, <1>4 DEF Quiet
  <2> QED BY <2>1, <2>2
<1>5. ASSUME NEW r \in R2, r.ci > 0
      PROVE  r.ci - 1 <= k[r.th] /\ Handles(R, f[r.th], r.th, r.ci - 1, r.errfunc)
  <2>1. r.th \in Thread /\ r.ci \in Nat
    BY EntryFields
  <2>2. CASE r.th = t
    BY <2>1, <2>2, <1>2, <1>5
  <2>3. CASE r.th # t
    <3>1. r \in R /\ r.ci <= Len(f[r.th])
      BY <2>3
    <3>2. Handles(R, f[r.th], r.th, r.ci - 1, r.errfunc)
      BY <3>1, <1>5 DEF HandlersOf
    <3>3. k[r.th] = Len(f[r.th]) /\ Len(f[r.th]) \in Nat
      BY <2>1, <2>3, <1>2
    <3> QED BY <3>1, <3>2, <3>3, <2>1
  <2> QED BY <2>2, <2>3
<1>6. ASSUME NEW th \in Thread, st[th] # "error", NEW p \in 1 .. Len(f2[th]), f2[th][p].ypcall
      PROVE  p - 1 <= k[th] /\ Handles(R, f[th], th, p - 1, f2[th][p].old_errfunc)
  <2>1. CASE th = t
    BY <2>1, <1>1, <1>2, <1>6
  <2>2. CASE th # t
    <3>1. f2[th] = f[th] /\ k[th] = Len(f[th]) /\ Len(f[th]) \in Nat
      BY <2>2, <1>1, <1>2
    <3>2. p \in 1 .. Len(f[th]) /\ f[th][p].ypcall /\ p - 1 <= k[th]
      BY <3>1, <1>6
    <3>3. Handles(R, f[th], th, p - 1, f[th][p].old_errfunc)
      BY <3>2, <1>6 DEF HandlersOf
    <3> QED BY <3>1, <3>2, <3>3
  <2> QED BY <2>1, <2>2
<1>7. Changes(R, f, ef, st, R2, f2, ef2, st, k, on)
  BY <1>3, <1>4, <1>5, <1>6 DEF Changes
<1>8. HandlersOf(R2, f2, ef2, st, on)
  BY <1>1, <1>2, <1>7, HandlersChange
<1> QED BY <1>8 DEF f2, ef2

(* The protected call or the finalizer at level n of t is over.            *)
Unmarks(t, R2, F2, n, b, on) ==
    LET R == PCallsOf(cstack) IN
    /\ t \in Thread /\ status[t] # "error" /\ R2 \subseteq R /\ n <= Len(ci[t])
    /\ \A r \in R : r \in R2 \/ (r.th = t /\ r.ci >= n)
    /\ \A r \in R2 : r.th = t => r.ci <= n /\ ~(r.gc /\ r.ci = n)
    /\ F2 \in Seq(CallInfo) /\ Len(F2) = n /\ \A p \in 1 .. n - 1 : F2[p] = ci[t][p]
    /\ n = 0 => t = Main /\ ~on
    /\ n > 0 => ~InPCall(F2[n]) /\ Handles(R, ci[t], t, n - 1, b)

LEMMA UnmarkStep ==
    ASSUME Shaped, errfunc \in [Thread -> BOOLEAN],
           HandlersOf(PCallsOf(cstack), ci, errfunc, status, TRUE),
           NEW t, NEW R2, NEW F2, NEW n \in Nat, NEW b, NEW on, Unmarks(t, R2, F2, n, b, on)
    PROVE  HandlersOf(R2, [ci EXCEPT ![t] = F2], [errfunc EXCEPT ![t] = b], status, on)
<1> DEFINE R == PCallsOf(cstack)
           m == IF n = 0 THEN 0 ELSE n - 1
<1>1. /\ t \in Thread /\ status[t] # "error" /\ R2 \subseteq R /\ n <= Len(ci[t])
      /\ \A r \in R : r \in R2 \/ (r.th = t /\ r.ci >= n)
      /\ \A r \in R2 : r.th = t => r.ci <= n /\ ~(r.gc /\ r.ci = n)
      /\ F2 \in Seq(CallInfo) /\ Len(F2) = n /\ \A p \in 1 .. n - 1 : F2[p] = ci[t][p]
      /\ n = 0 => t = Main /\ ~on
      /\ n > 0 => ~InPCall(F2[n]) /\ Handles(R, ci[t], t, n - 1, b)
  BY DEF Unmarks
<1>2. R \in SUBSET Entry /\ R2 \in SUBSET Entry /\ ci \in [Thread -> Seq(CallInfo)] /\ HandlersOf(R, ci, errfunc, status, TRUE)
  BY <1>1 DEF PCallsOf, Shaped, StackTypes
<1>2a. \A r \in R : r.th \in Thread /\ r.ci \in Nat /\ r.ci <= Len(ci[r.th])
  BY CollectsOnLua
<1> HIDE DEF R
<1>3. m \in Nat /\ (n > 0 => m = n - 1) /\ (n = 0 => m = 0)
  OBVIOUS
<1> HIDE DEF m
<1>4. \A th \in Thread : th # t => \A p \in Nat : Collects(R2, th, p) <=> Collects(R, th, p)
  BY <1>1 DEF Collects
<1>5. \A p \in 1 .. m : Collects(R2, t, p) <=> Collects(R, t, p)
  <2>1. \A p \in 1 .. m : p \in Nat /\ p < n
    BY <1>3
  <2>2. ASSUME NEW p \in 1 .. m, NEW r \in R, r.ci = p PROVE r \in R2
    BY <2>1, <2>2, <1>1
  <2> QED BY <2>2, <1>1 DEF Collects
<1>6. Agree(R, ci[t], R2, F2, t, m)
  <2>1. \A p \in 1 .. m : F2[p] = ci[t][p]
    BY <1>1, <1>3
  <2> QED BY <2>1, <1>5 DEF Agree, Marked
<1>7. (t = Main /\ ~on) \/ Handles(R2, F2, t, Len(F2), b)
  <2>1. CASE n = 0
    BY <2>1, <1>1
  <2>2. CASE n > 0
    <3>1. m = n - 1 /\ m \in Nat /\ Handles(R, ci[t], t, m, b) /\ m \in 0 .. m /\ m \in 0 .. n
      BY <2>2, <1>1, <1>3
    <3>2. Handles(R2, F2, t, m, b)
      BY <3>1, <1>6, AgreeHandles
    <3>3. \A p \in m + 1 .. n : ~Marked(R2, F2, t, p)
      <4>1. \A p \in m + 1 .. n : p = n
        BY <3>1
      <4>2. ~Marked(R2, F2, t, n)
        BY <2>2, <1>1 DEF Marked, Collects
      <4> QED BY <4>1, <4>2
    <3>4. Handles(R2, F2, t, n, b)
      BY <3>1, <3>2, <3>3, UnmarkedAbove
    <3> QED BY <3>4, <1>1
  <2> QED BY <2>1, <2>2
<1>8. \A r \in R2 : r.th # t => r \in R /\ r.ci <= Len(ci[r.th])
  BY <1>1, <1>2a
<1>9. \A r \in R2 : r.th = t /\ r.ci > 0 => r.ci - 1 <= m /\ Handles(R, ci[t], t, r.ci - 1, r.errfunc)
  <2> SUFFICES ASSUME NEW r \in R2, r.th = t, r.ci > 0
               PROVE  r.ci - 1 <= m /\ Handles(R, ci[t], t, r.ci - 1, r.errfunc)
    OBVIOUS
  <2>1. r \in R /\ r.ci \in Nat /\ r.ci <= n
    BY <1>1, <1>2a
  <2>2. Handles(R, ci[t], t, r.ci - 1, r.errfunc)
    BY <2>1, <1>2 DEF HandlersOf
  <2> QED BY <2>1, <2>2, <1>3
<1>10. \A p \in 1 .. Len(F2) : F2[p].ypcall =>
           p - 1 <= m /\ Handles(R, ci[t], t, p - 1, F2[p].old_errfunc)
  <2> SUFFICES ASSUME NEW p \in 1 .. Len(F2), F2[p].ypcall
               PROVE  p - 1 <= m /\ Handles(R, ci[t], t, p - 1, F2[p].old_errfunc)
    OBVIOUS
  <2>1. p \in 1 .. n /\ F2[p] \in CallInfo
    BY <1>1
  <2>2. InPCall(F2[p])
    BY <2>1, FrameFields DEF InPCall
  <2>3. p # n
    BY <2>1, <2>2, <1>1
  <2>4. p \in 1 .. n - 1 /\ p \in 1 .. Len(ci[t]) /\ p - 1 <= m
    BY <2>1, <2>3, <1>1, <1>2, <1>3
  <2>5. ci[t][p].ypcall /\ F2[p].old_errfunc = ci[t][p].old_errfunc
    BY <2>4, <1>1
  <2>6. Handles(R, ci[t], t, p - 1, ci[t][p].old_errfunc)
    BY <2>4, <2>5, <1>1, <1>2 DEF HandlersOf
  <2> QED BY <2>4, <2>5, <2>6
<1> QED BY <1>1, <1>2, <1>3, <1>4, <1>6, <1>7, <1>8, <1>9, <1>10, OneThread

(* A protected call or a finalizer begins on the frame on top of t.        *)
Marks(t, R2, F2, n, b) ==
    LET R == PCallsOf(cstack) IN
    /\ t \in Thread /\ status[t] # "error" /\ R2 \in SUBSET Entry /\ R \subseteq R2
    /\ n = Len(ci[t]) /\ n > 0 /\ ~Marked(R, ci[t], t, n)
    /\ \A r \in R2 : r \in R \/ (r.th = t /\ r.ci = n /\ r.errfunc = errfunc[t])
    /\ F2 \in Seq(CallInfo) /\ \A p \in 1 .. n - 1 : F2[p] = ci[t][p]
    /\ \/ Len(F2) = n
       \/ Len(F2) = n + 1 /\ ~InPCall(F2[n + 1])
    /\ Marked(R2, F2, t, n) /\ b = (F2[n].fn = "xpcall")
    /\ F2[n].ypcall => F2[n].old_errfunc = errfunc[t]

LEMMA MarkStep ==
    ASSUME Shaped, errfunc \in [Thread -> BOOLEAN],
           HandlersOf(PCallsOf(cstack), ci, errfunc, status, TRUE),
           NEW t, NEW R2, NEW F2, NEW n \in Nat, NEW b, Marks(t, R2, F2, n, b)
    PROVE  HandlersOf(R2, [ci EXCEPT ![t] = F2], [errfunc EXCEPT ![t] = b], status, TRUE)
<1> DEFINE R == PCallsOf(cstack)
           m == n - 1
<1>1. /\ t \in Thread /\ status[t] # "error" /\ R2 \in SUBSET Entry /\ R \subseteq R2
      /\ n = Len(ci[t]) /\ n > 0 /\ ~Marked(R, ci[t], t, n)
      /\ \A r \in R2 : r \in R \/ (r.th = t /\ r.ci = n /\ r.errfunc = errfunc[t])
      /\ F2 \in Seq(CallInfo) /\ \A p \in 1 .. n - 1 : F2[p] = ci[t][p]
      /\ Len(F2) = n \/ (Len(F2) = n + 1 /\ ~InPCall(F2[n + 1]))
      /\ Marked(R2, F2, t, n) /\ b = (F2[n].fn = "xpcall")
      /\ F2[n].ypcall => F2[n].old_errfunc = errfunc[t]
  BY DEF Marks
<1>2. /\ R \in SUBSET Entry /\ ci \in [Thread -> Seq(CallInfo)] /\ HandlersOf(R, ci, errfunc, status, TRUE)
  BY DEF PCallsOf, Shaped, StackTypes
<1>2a. \A r \in R : r.th \in Thread /\ r.ci \in Nat /\ r.ci <= Len(ci[r.th])
  BY CollectsOnLua
<1> HIDE DEF R
<1>3. m \in Nat /\ m = n - 1 /\ m \in 0 .. n
  BY <1>1
<1> HIDE DEF m
<1>4. \A th \in Thread : th # t => \A p \in Nat : Collects(R2, th, p) <=> Collects(R, th, p)
  BY <1>1 DEF Collects
<1>5. \A p \in 1 .. m : Collects(R2, t, p) <=> Collects(R, t, p)
  <2>1. \A p \in 1 .. m : p # n
    BY <1>3
  <2> QED BY <2>1, <1>1 DEF Collects
<1>6. Agree(R, ci[t], R2, F2, t, m)
  <2>1. \A p \in 1 .. m : F2[p] = ci[t][p]
    BY <1>1, <1>3
  <2> QED BY <2>1, <1>5 DEF Agree, Marked
<1>7. Handles(R, ci[t], t, m, errfunc[t])
  <2>1. Handles(R, ci[t], t, n, errfunc[t])
    BY <1>1, <1>2 DEF HandlersOf
  <2>2. \A p \in m + 1 .. n : ~Marked(R, ci[t], t, p)
    <3>1. \A p \in m + 1 .. n : p = n
      BY <1>3
    <3> QED BY <3>1, <1>1
  <2> QED BY <2>1, <2>2, <1>3, UnmarkedAbove
<1>8. Handles(R2, F2, t, Len(F2), b)
  <2>1. Handles(R2, F2, t, n, b)
    BY <1>1, MarkHandles
  <2>2. CASE Len(F2) = n
    BY <2>1, <2>2
  <2>3. CASE Len(F2) = n + 1 /\ ~InPCall(F2[n + 1])
    <3>1. n + 1 \in Nat /\ n \in 0 .. n + 1 /\ \A p \in n + 1 .. n + 1 : p = n + 1
      OBVIOUS
    <3>2. ~Collects(R2, t, n + 1)
      <4> SUFFICES ASSUME NEW r \in R2, r.th = t, r.ci = n + 1 PROVE FALSE
        BY DEF Collects
      <4>1. r \notin R
        BY <1>1, <1>2a
      <4> QED BY <4>1, <1>1
    <3>3. \A p \in n + 1 .. n + 1 : ~Marked(R2, F2, t, p)
      BY <3>1, <3>2, <2>3 DEF Marked
    <3> QED BY <3>1, <3>3, <2>1, <2>3, UnmarkedAbove
  <2> QED BY <2>2, <2>3, <1>1
<1>9. \A r \in R2 : r.th # t => r \in R /\ r.ci <= Len(ci[r.th])
  BY <1>1, <1>2a
<1>10. \A r \in R2 : r.th = t /\ r.ci > 0 => r.ci - 1 <= m /\ Handles(R, ci[t], t, r.ci - 1, r.errfunc)
  <2> SUFFICES ASSUME NEW r \in R2, r.th = t, r.ci > 0
               PROVE  r.ci - 1 <= m /\ Handles(R, ci[t], t, r.ci - 1, r.errfunc)
    OBVIOUS
  <2>1. CASE r \in R
    <3>1. r.ci \in Nat /\ r.ci <= n
      BY <2>1, <1>1, <1>2a
    <3>2. Handles(R, ci[t], t, r.ci - 1, r.errfunc)
      BY <2>1, <1>2 DEF HandlersOf
    <3> QED BY <3>1, <3>2, <1>3
  <2>2. CASE r.ci = n /\ r.errfunc = errfunc[t]
    BY <2>2, <1>3, <1>7
  <2> QED BY <2>1, <2>2, <1>1
<1>11. \A p \in 1 .. Len(F2) : F2[p].ypcall =>
           p - 1 <= m /\ Handles(R, ci[t], t, p - 1, F2[p].old_errfunc)
  <2> SUFFICES ASSUME NEW p \in 1 .. Len(F2), F2[p].ypcall
               PROVE  p - 1 <= m /\ Handles(R, ci[t], t, p - 1, F2[p].old_errfunc)
    OBVIOUS
  <2>1. F2[p] \in CallInfo
    BY <1>1
  <2>2. InPCall(F2[p])
    BY <2>1, FrameFields DEF InPCall
  <2>3. p \in 1 .. n - 1 \/ p = n
    BY <2>2, <1>1
  <2>4. CASE p = n
    <3>1. F2[p].old_errfunc = errfunc[t] /\ p - 1 = m
      BY <2>4, <1>1, <1>3
    <3> QED BY <3>1, <1>3, <1>7
  <2>5. CASE p \in 1 .. n - 1
    <3>1. p \in 1 .. Len(ci[t]) /\ F2[p] = ci[t][p] /\ p - 1 <= m
      BY <2>5, <1>1, <1>3
    <3>2. Handles(R, ci[t], t, p - 1, ci[t][p].old_errfunc)
      BY <3>1, <1>1, <1>2 DEF HandlersOf
    <3> QED BY <3>1, <3>2
  <2> QED BY <2>3, <2>4, <2>5
<1> QED BY <1>1, <1>2, <1>3, <1>4, <1>6, <1>8, <1>9, <1>10, <1>11, OneThread

-----------------------------------------------------------------------------
(* The calls of luaD_pcall that a step adds or drops                       *)

LEMMA PCallsPush ==
    ASSUME NEW cs \in Seq(Entry), NEW r \in Entry
    PROVE  /\ PCallsOf(Append(cs, r)) = IF r.c = "luaD_pcall" THEN PCallsOf(cs) \cup {r} ELSE PCallsOf(cs)
           /\ ~CollectsAt(r) /\ OneCollects(cs) => OneCollects(Append(cs, r))
           /\ (\A i \in 1 .. Len(cs) : ~CollectsAt(cs[i])) => OneCollects(Append(cs, r))
<1> DEFINE c2 == Append(cs, r)
           n == Len(cs) + 1
<1>1. /\ Len(c2) = n /\ c2[n] = r /\ \A i \in 1 .. Len(cs) : c2[i] = cs[i] /\ i \in 1 .. n
      /\ n \in 1 .. n /\ \A i \in 1 .. n : i \in 1 .. Len(cs) \/ i = n
  OBVIOUS
<1> HIDE DEF c2, n
<1>2. ASSUME NEW x
      PROVE  (\E i \in 1 .. n : c2[i] = x) <=> x = r \/ \E i \in 1 .. Len(cs) : cs[i] = x
  BY <1>1
<1>3. PCallsOf(c2) = IF r.c = "luaD_pcall" THEN PCallsOf(cs) \cup {r} ELSE PCallsOf(cs)
  <2>1. \A x : x \in PCallsOf(c2) <=> x \in PCallsOf(cs) \/ (x = r /\ r.c = "luaD_pcall")
    BY <1>1, <1>2 DEF PCallsOf
  <2> QED BY <2>1
<1>4. ~CollectsAt(r) /\ OneCollects(cs) => OneCollects(c2)
  BY <1>1 DEF OneCollects
<1>5. (\A i \in 1 .. Len(cs) : ~CollectsAt(cs[i])) => OneCollects(c2)
  BY <1>1 DEF OneCollects
<1> QED BY <1>3, <1>4, <1>5 DEF c2

LEMMA PCallsCut ==
    ASSUME NEW cs \in Seq(Entry), NEW k \in 0 .. Len(cs)
    PROVE  /\ (\A i \in k + 1 .. Len(cs) : cs[i].c # "luaD_pcall") => PCallsOf(SubSeq(cs, 1, k)) = PCallsOf(cs)
           /\ OneCollects(cs) => OneCollects(SubSeq(cs, 1, k))
           /\ PCallsOf(SubSeq(cs, 1, k)) \subseteq PCallsOf(cs)
<1> DEFINE c2 == SubSeq(cs, 1, k)
<1>1. /\ Len(c2) = k /\ \A i \in 1 .. k : c2[i] = cs[i] /\ i \in 1 .. Len(cs)
      /\ \A i \in 1 .. Len(cs) : i \in 1 .. k \/ i \in k + 1 .. Len(cs)
  BY PrefixFacts
<1> HIDE DEF c2
<1>2. OneCollects(cs) => OneCollects(c2)
  BY <1>1 DEF OneCollects
<1>3. PCallsOf(c2) \subseteq PCallsOf(cs)
  BY <1>1 DEF PCallsOf
<1>4. ASSUME \A i \in k + 1 .. Len(cs) : cs[i].c # "luaD_pcall" PROVE PCallsOf(cs) \subseteq PCallsOf(c2)
  <2>1. ASSUME NEW r \in PCallsOf(cs) PROVE r \in PCallsOf(c2)
    <3>1. PICK i \in 1 .. Len(cs) : cs[i] = r
      BY DEF PCallsOf
    <3>2. i \in 1 .. k
      BY <3>1, <1>1, <1>4 DEF PCallsOf
    <3> QED BY <3>1, <3>2, <1>1 DEF PCallsOf
  <2> QED BY <2>1
<1> QED BY <1>2, <1>3, <1>4 DEF c2

(* A call of luaD_pcall ends, with those above it.                         *)
LEMMA PCallsPop ==
    ASSUME NEW cs \in Seq(Entry), NEW j \in 1 .. Len(cs), cs[j].c = "luaD_pcall",
           \A i \in j + 1 .. Len(cs) : cs[i].c # "luaD_pcall", OneCollects(cs)
    PROVE  LET R2 == PCallsOf(SubSeq(cs, 1, j - 1)) IN
           /\ R2 \subseteq PCallsOf(cs) /\ \A r \in PCallsOf(cs) : r \in R2 \/ r = cs[j]
           /\ cs[j].gc => \A r \in R2 : ~r.gc
           /\ OneCollects(SubSeq(cs, 1, j - 1))
<1> DEFINE k == j - 1
           c2 == SubSeq(cs, 1, k)
<1>1. k \in 0 .. Len(cs) /\ k \in Nat /\ k + 1 = j /\ Len(cs) \in Nat
  OBVIOUS
<1>2. PCallsOf(c2) \subseteq PCallsOf(cs) /\ OneCollects(c2)
  BY <1>1, PCallsCut
<1>3. /\ Len(c2) = k /\ \A i \in 1 .. k : c2[i] = cs[i] /\ i \in 1 .. Len(cs) /\ i # j
      /\ \A i \in 1 .. Len(cs) : i \in 1 .. k \/ i = j \/ i \in j + 1 .. Len(cs)
  <2>1. Len(c2) = k /\ \A i \in 1 .. k : c2[i] = cs[i]
    BY <1>1, PrefixFacts
  <2> QED BY <2>1, <1>1
<1> HIDE DEF c2, k
<1>4. ASSUME NEW r \in PCallsOf(cs), r # cs[j] PROVE r \in PCallsOf(c2)
  <2>1. PICK i \in 1 .. Len(cs) : cs[i] = r
    BY DEF PCallsOf
  <2>2. i \in 1 .. k
    BY <2>1, <1>3, <1>4 DEF PCallsOf
  <2> QED BY <2>1, <2>2, <1>3 DEF PCallsOf
<1>5. ASSUME cs[j].gc, NEW r \in PCallsOf(c2) PROVE ~r.gc
  <2>1. PICK i \in 1 .. Len(c2) : c2[i] = r
    BY DEF PCallsOf
  <2>2. i \in 1 .. k /\ i \in 1 .. Len(cs) /\ cs[i] = r /\ i # j /\ r.c = "luaD_pcall"
    BY <2>1, <1>3 DEF PCallsOf
  <2>3. CollectsAt(cs[i]) /\ CollectsAt(cs[j]) => i = j
    BY <2>2 DEF OneCollects
  <2> QED BY <2>2, <2>3, <1>5 DEF CollectsAt
<1> QED BY <1>2, <1>4, <1>5 DEF c2, k

-----------------------------------------------------------------------------
(* Every step keeps the message handlers: calls and returns                *)

LEMMA UnstartedStays ==
    ASSUME Inv, NEW t \in Thread, t \notin unstarted, NEW F, ci' = [ci EXCEPT ![t] = F]
    PROVE  \A th \in unstarted : th \in Thread /\ th # t /\ ci'[th] = ci[th]
<1>1. unstarted \subseteq Thread /\ ci \in [Thread -> Seq(CallInfo)]
  BY DEF Inv, Fields, Shaped, StackTypes, Thread
<1> QED BY <1>1

LEMMA QuietHandled ==
    ASSUME Inv, Handled, cstack # <<>>, NEW F2 \in Seq(CallInfo), NEW k \in Nat,
           SameMarks(ci[L], F2, k), ci' = [ci EXCEPT ![L] = F2],
           UNCHANGED <<errfunc, status, unstarted>>,
           PCallsOf(cstack') = PCallsOf(cstack), OneCollects(cstack'), cstack' # <<>>
    PROVE  Handled'
<1>1. L \in Thread /\ Shaped /\ L \notin unstarted
  BY RunsOK DEF Inv
<1>2. (cstack # <<>>) = TRUE /\ (cstack' # <<>>) = TRUE
  OBVIOUS
<1>3. /\ HandlersOf(PCallsOf(cstack), ci, errfunc, status, TRUE)
      /\ \A th \in unstarted : ~errfunc[th] /\ ci[th] = <<>>
  BY <1>2 DEF Handled
<1>4. HandlersOf(PCallsOf(cstack), [ci EXCEPT ![L] = F2], errfunc, status, TRUE)
  BY <1>1, <1>3, QuietTop
<1>5. errfunc' = errfunc /\ status' = status /\ unstarted' = unstarted
  OBVIOUS
<1>6. HandlersOf(PCallsOf(cstack'), ci', errfunc', status', cstack' # <<>>)
  BY <1>2, <1>4, <1>5
<1>7. \A th \in unstarted : ~errfunc[th] /\ ci'[th] = <<>>
  BY <1>1, <1>3, UnstartedStays
<1> QED BY <1>5, <1>6, <1>7 DEF Handled

(* The frames F become F2, where only the level k is another.              *)
Touches(F, F2, k) ==
    /\ F \in Seq(CallInfo) /\ F2 \in Seq(CallInfo) /\ k \in Nat
    /\ k <= Len(F) /\ k <= Len(F2) /\ Len(F) <= k + 1 /\ Len(F2) <= k + 1
    /\ \A p \in 1 .. k - 1 : F2[p] = F[p]
    /\ k > 0 => \/ F2[k] = F[k]
                \/ F2[k].fn = F[k].fn /\ ~InPCall(F2[k]) /\ ~InPCall(F[k])
    /\ Len(F) = k + 1 => ~InPCall(F[k + 1]) /\ F[k + 1].st # "out"
    /\ Len(F2) = k + 1 => ~InPCall(F2[k + 1])

LEMMA TouchesSame ==
    ASSUME NEW F, NEW F2, NEW k, Touches(F, F2, k)
    PROVE  SameMarks(F, F2, k)
<1>1. /\ F \in Seq(CallInfo) /\ F2 \in Seq(CallInfo) /\ k \in Nat
      /\ k <= Len(F) /\ k <= Len(F2) /\ Len(F) <= k + 1 /\ Len(F2) <= k + 1
      /\ Len(F) \in Nat /\ Len(F2) \in Nat
  BY DEF Touches
<1>2. ASSUME NEW n \in 1 .. k
      PROVE  /\ F2[n].fn = F[n].fn /\ (InPCall(F2[n]) <=> InPCall(F[n]))
             /\ F2[n].ypcall => F[n].ypcall /\ F2[n].old_errfunc = F[n].old_errfunc
  <2>1. F2[n] \in CallInfo
    BY <1>1
  <2>2. F2[n].ypcall => InPCall(F2[n])
    BY <2>1, FrameFields DEF InPCall
  <2>3. n \in 1 .. k - 1 \/ (n = k /\ k > 0)
    BY <1>1
  <2> QED BY <2>2, <2>3 DEF Touches
<1>3. /\ \A n \in k + 1 .. Len(F) : n = k + 1 /\ Len(F) = k + 1
      /\ \A n \in k + 1 .. Len(F2) : n = k + 1 /\ Len(F2) = k + 1
  BY <1>1
<1>4. \A n \in k + 1 .. Len(F) : ~InPCall(F[n]) /\ F[n].st # "out"
  BY <1>3 DEF Touches
<1>5. \A n \in k + 1 .. Len(F2) : ~InPCall(F2[n])
  BY <1>3 DEF Touches
<1> QED BY <1>1, <1>2, <1>4, <1>5 DEF SameMarks

(* luaD_call calls on the frames F from the C stack cs.                    *)
Extends(F2, F) ==
    /\ F2 \in Seq(CallInfo) /\ \A p \in 1 .. Len(F) : F2[p] = F[p]
    /\ \/ Len(F2) = Len(F)
       \/ Len(F2) = Len(F) + 1 /\ ~InPCall(F2[Len(F) + 1])

LEMMA CallParts ==
    ASSUME Inv, L \in Thread, NEW cs \in Seq(Entry), NEW F \in Seq(CallInfo), NEW noyield \in BOOLEAN,
           NEW caller \in {"meta", "hook", "handler", "function"}, NEW fn \in Functions,
           Call(F, cs, noyield, caller, fn), OneCollects(cs)
    PROVE  /\ \E F2 \in Seq(CallInfo) : ci' = [ci EXCEPT ![L] = F2] /\ Extends(F2, F)
           /\ PCallsOf(cstack') = PCallsOf(cs) /\ OneCollects(cstack') /\ cstack' # <<>>
           /\ status' = status /\ unstarted' = unstarted
<1> DEFINE n == Len(F)
           d == DCall(n, noyield, caller)
           e == Execute(n)
           fr == [Frame(fn) EXCEPT !.fresh = fn = "lua"]
           c1 == Append(cs, d)
           c2 == Append(c1, e)
           G == Append(F, fr)
<1>1. /\ cstack' = c1 \/ cstack' = c2
      /\ ci' = [ci EXCEPT ![L] = F] \/ ci' = [ci EXCEPT ![L] = G]
      /\ status' = status /\ unstarted' = unstarted
  BY Zenon DEF Call, Enter
<1>2. n \in Nat /\ d \in Entry /\ e \in Entry /\ d.c # "luaD_pcall" /\ e.c # "luaD_pcall"
  BY EntryType
<1>3. fr \in CallInfo /\ ~InPCall(fr)
  <2>1. /\ fr \in CallInfo /\ fr.fn = fn /\ (fn = "lua" => fr.st = "run") /\ (fn # "lua" => fr.st = "start")
    BY FrameType
  <2> HIDE DEF fr
  <2> QED BY <2>1 DEF InPCall
<1> HIDE DEF d, e, fr
<1>4. c1 \in Seq(Entry) /\ c2 \in Seq(Entry) /\ c1 # <<>> /\ c2 # <<>>
  <2>1. c1 \in Seq(Entry) /\ Len(c1) = Len(cs) + 1 /\ Len(cs) \in Nat
    BY <1>2
  <2> HIDE DEF c1
  <2>2. c2 \in Seq(Entry) /\ Len(c2) = Len(c1) + 1 /\ c1 # <<>>
    BY <1>2, <2>1
  <2>3. Len(c2) > 0
    BY <2>1, <2>2
  <2> HIDE DEF c2
  <2> QED BY <2>1, <2>2, <2>3
<1>5. /\ PCallsOf(c1) = PCallsOf(cs) /\ OneCollects(c1)
  BY <1>2, PCallsPush DEF CollectsAt
<1> HIDE DEF c1
<1>6. PCallsOf(c2) = PCallsOf(c1) /\ OneCollects(c2)
  BY <1>2, <1>4, <1>5, PCallsPush DEF CollectsAt
<1> HIDE DEF c2
<1>7. Extends(F, F)
  BY DEF Extends
<1>8. G \in Seq(CallInfo) /\ Extends(G, F)
  <2>1. G \in Seq(CallInfo) /\ Len(G) = n + 1 /\ G[n + 1] = fr /\ \A p \in 1 .. n : G[p] = F[p]
    BY <1>3
  <2> QED BY <2>1, <1>3 DEF Extends
<1> HIDE DEF G
<1>9. \E F2 \in Seq(CallInfo) : ci' = [ci EXCEPT ![L] = F2] /\ Extends(F2, F)
  BY <1>1, <1>7, <1>8, Zenon
<1>10. PCallsOf(cstack') = PCallsOf(cs) /\ OneCollects(cstack') /\ cstack' # <<>>
  BY <1>1, <1>4, <1>5, <1>6
<1> QED BY <1>1, <1>9, <1>10

(* A call that sets no message handler: the frame on top becomes F[Size].  *)
LEMMA CallHandled ==
    ASSUME Inv, Handled, cstack # <<>>, NEW F \in Seq(CallInfo), NEW noyield \in BOOLEAN,
           NEW caller \in {"meta", "hook", "handler", "function"}, NEW fn \in Functions,
           Call(F, cstack, noyield, caller, fn), errfunc' = errfunc,
           Len(F) = Size, \A p \in 1 .. Size - 1 : F[p] = ci[L][p],
           Size > 0 => \/ F[Size] = ci[L][Size]
                       \/ F[Size].fn = ci[L][Size].fn /\ ~InPCall(F[Size]) /\ ~InPCall(ci[L][Size])
    PROVE  Handled'
<1>1. L \in Thread /\ cstack \in Seq(Entry) /\ OneCollects(cstack) /\ ci[L] \in Seq(CallInfo)
      /\ Size = Len(ci[L]) /\ Size \in Nat
  BY ActFacts DEF Inv, Shaped, StackTypes, Handled, Size
<1>2. /\ \E F2 \in Seq(CallInfo) : ci' = [ci EXCEPT ![L] = F2] /\ Extends(F2, F)
      /\ PCallsOf(cstack') = PCallsOf(cstack) /\ OneCollects(cstack') /\ cstack' # <<>>
      /\ status' = status /\ unstarted' = unstarted
  BY <1>1, CallParts
<1>3. PICK F2 \in Seq(CallInfo) : ci' = [ci EXCEPT ![L] = F2] /\ Extends(F2, F)
  BY <1>2
<1>4. Touches(ci[L], F2, Size)
  <2>1. /\ \A p \in 1 .. Size : F2[p] = F[p]
        /\ Len(F2) = Size \/ (Len(F2) = Size + 1 /\ ~InPCall(F2[Size + 1]))
    BY <1>3 DEF Extends
  <2>2. \A p \in 1 .. Size - 1 : p \in 1 .. Size
    BY <1>1
  <2>3. Size > 0 => Size \in 1 .. Size
    BY <1>1
  <2>4. \A p \in 1 .. Size - 1 : F2[p] = ci[L][p]
    BY <2>1, <2>2
  <2>5. Size > 0 => \/ F2[Size] = ci[L][Size]
                    \/ F2[Size].fn = ci[L][Size].fn /\ ~InPCall(F2[Size]) /\ ~InPCall(ci[L][Size])
    BY <2>1, <2>3
  <2>6. Size <= Len(F2) /\ Len(F2) <= Size + 1 /\ Size <= Size + 1 /\ Size # Size + 1
    BY <2>1, <1>1
  <2> QED BY <2>1, <2>4, <2>5, <2>6, <1>1 DEF Touches
<1>5. SameMarks(ci[L], F2, Size)
  BY <1>4, TouchesSame
<1> QED BY <1>1, <1>2, <1>3, <1>5, QuietHandled

LEMMA CallsHandled ==
    ASSUME Inv, Handled, \/ CallTM \/ Hook \/ CallK \/ LuaCall \/ (ErrorMsg /\ errfunc[L])
    PROVE  Handled'
<1>1. ASSUME Running, NEW x, NEW noyield \in BOOLEAN, errfunc' = errfunc,
             NEW caller \in {"meta", "hook", "handler", "function"}, NEW fn \in Functions,
             Call(SetTop(ci[L], x), cstack, noyield, caller, fn),
             IF Top.fn = "lua" THEN x \in LuaStates ELSE x \in Resting \cup {"in"},
             Top.st \in Resting \cup {"run"}, Top.fn \notin {"pcall", "xpcall"}
      PROVE  Handled'
  <2>1. Top \in CallInfo /\ Top = ci[L][Size] /\ cstack # <<>> /\ Size >= 1
    BY <1>1, TopFacts DEF Inv
  <2>2. ~Top.ypcall
    BY <1>1, <2>1, FrameFields
  <2> DEFINE F == SetTop(ci[L], x)
  <2>3. /\ F \in Seq(CallInfo) /\ Len(F) = Size /\ F[Size].fn = Top.fn
        /\ \A p \in 1 .. Size - 1 : F[p] = ci[L][p]
    BY <1>1, <2>2, TopSet DEF Inv
  <2> HIDE DEF F
  <2>4. ~InPCall(F[Size]) /\ ~InPCall(ci[L][Size]) /\ F[Size].fn = ci[L][Size].fn
    BY <1>1, <2>1, <2>3 DEF InPCall
  <2>5. Call(F, cstack, noyield, caller, fn)
    BY <1>1 DEF F
  <2> QED BY <1>1, <2>1, <2>3, <2>4, <2>5, CallHandled
<1>0. Fns \subseteq Functions /\ "lua" \in Functions
  BY FnsFacts DEF Inv
<1>2. CASE CallTM
  <2>1. Running /\ Top.fn = "lua" /\ Top.st = "run" /\ errfunc' = errfunc
    BY <1>2 DEF CallTM, RunsLua
  <2>2. PICK fn \in Fns : Call(SetTop(ci[L], "meta"), cstack, FALSE, "meta", fn)
    BY <1>2, Zenon DEF CallTM
  <2> QED BY <2>1, <2>2, <1>0, <1>1 DEF LuaStates
<1>3. CASE Hook
  <2>1. /\ Running /\ Top.fn = "lua" /\ Top.st = "run" /\ errfunc' = errfunc
        /\ Call(SetTop(ci[L], "out"), cstack, TRUE, "hook", "lua")
    BY <1>3 DEF Hook, RunsLua
  <2> QED BY <2>1, <1>0, <1>1 DEF LuaStates
<1>4. CASE CallK \/ LuaCall
  <2>1. /\ Running /\ Top.fn \in {"dofile", "sort"} /\ Top.st = "start" /\ errfunc' = errfunc
    BY <1>4 DEF CallK, LuaCall, RunsC
  <2>2. PICK fn \in Fns, noyield \in BOOLEAN : Call(SetTop(ci[L], "in"), cstack, noyield, "function", fn)
    <3>1. CASE CallK
      <4>1. \E fn \in Fns : Call(SetTop(ci[L], "in"), cstack, nny[L] > 0, "function", fn)
        BY <3>1, Zenon DEF CallK
      <4>2. (nny[L] > 0) \in BOOLEAN
        OBVIOUS
      <4> QED BY <4>1, <4>2, Zenon
    <3>2. CASE LuaCall
      <4>1. \E fn \in Fns : Call(SetTop(ci[L], "in"), cstack, TRUE, "function", fn)
        BY <3>2, Zenon DEF LuaCall
      <4>2. TRUE \in BOOLEAN
        OBVIOUS
      <4> QED BY <4>1, <4>2, Zenon
    <3> QED BY <3>1, <3>2, <1>4
  <2> QED BY <2>1, <2>2, <1>0, <1>1 DEF Resting
<1>5. CASE ErrorMsg /\ errfunc[L]
  <2>1. Call(ci[L], cstack, TRUE, "handler", "lua") /\ errfunc' = errfunc /\ cstack # <<>>
    BY <1>5, Raised DEF ErrorMsg, Inv
  <2>2. ci[L] \in Seq(CallInfo) /\ Len(ci[L]) = Size
    BY <2>1, ActFacts DEF Inv, Size
  <2> QED BY <2>1, <2>2, <1>0, CallHandled
<1> QED BY <1>2, <1>3, <1>4, <1>5

LEMMA StaysHandled ==
    ASSUME Handled, UNCHANGED <<ci, errfunc, status, unstarted, cstack>>
    PROVE  Handled'
  BY DEF Handled

(* The frame on top changes; it is no protected call in progress.          *)
LEMMA TopHandled ==
    ASSUME Inv, Handled, Running, NEW F \in Seq(CallInfo), Len(F) = Size,
           \A p \in 1 .. Size - 1 : F[p] = ci[L][p], F[Size].fn = Top.fn,
           ~InPCall(F[Size]), ~InPCall(Top),
           NEW F2 \in Seq(CallInfo), Extends(F2, F), ci' = [ci EXCEPT ![L] = F2],
           UNCHANGED <<errfunc, status, unstarted>>,
           PCallsOf(cstack') = PCallsOf(cstack), OneCollects(cstack'), cstack' # <<>>
    PROVE  Handled'
<1>1. cstack # <<>> /\ Top = ci[L][Size] /\ Size >= 1 /\ Size \in Nat /\ Size = Len(ci[L])
      /\ ci[L] \in Seq(CallInfo)
  BY TopFacts, ActFacts DEF Inv, Size
<1>2. /\ \A p \in 1 .. Size - 1 : F2[p] = ci[L][p]
      /\ F2[Size] = F[Size]
  <2>1. Size \in 1 .. Size /\ \A p \in 1 .. Size - 1 : p \in 1 .. Size
    BY <1>1
  <2> QED BY <2>1 DEF Extends
<1>3. Len(F2) = Size \/ (Len(F2) = Size + 1 /\ ~InPCall(F2[Size + 1]))
  BY DEF Extends
<1>4. Size <= Len(F2) /\ Len(F2) <= Size + 1 /\ Size <= Size + 1 /\ Size # Size + 1
  BY <1>1, <1>3
<1>5. Touches(ci[L], F2, Size)
  BY <1>1, <1>2, <1>3, <1>4 DEF Touches
<1> QED BY <1>1, <1>5, TouchesSame, QuietHandled

LEMMA StepsHandled ==
    ASSUME Inv, Handled,
           \/ OpCall \/ MemoryError \/ RaiseError \/ (ErrorMsg /\ ~errfunc[L]) \/ ResumeRefused
    PROVE  Handled'
<1>1. CASE MemoryError \/ RaiseError \/ (ErrorMsg /\ ~errfunc[L])
  BY <1>1, StaysHandled DEF MemoryError, RaiseError, ErrorMsg, fields
<1>2. CASE OpCall
  <2>1. /\ Running /\ Top.fn = "lua" /\ Top.st = "run" /\ UNCHANGED <<errfunc, status, unstarted, cstack>>
    BY <1>2 DEF OpCall, RunsLua, fields
  <2>2. PICK fn \in Fns : ci' = [ci EXCEPT ![L] = Append(SetTop(ci[L], "call"), Frame(fn))]
    BY <1>2, Zenon DEF OpCall
  <2>3. Top \in CallInfo /\ cstack # <<>>
    BY <2>1, TopFacts DEF Inv
  <2>4. ~Top.ypcall /\ "call" \in LuaStates
    BY <2>1, <2>3, FrameFields DEF LuaStates
  <2> DEFINE F == SetTop(ci[L], "call")
             fr == Frame(fn)
             F2 == Append(F, fr)
  <2>5. /\ F \in Seq(CallInfo) /\ Len(F) = Size /\ F[Size].fn = Top.fn
        /\ \A p \in 1 .. Size - 1 : F[p] = ci[L][p]
    BY <2>1, <2>4, TopSet DEF Inv
  <2>6. fr \in CallInfo /\ ~InPCall(fr)
    BY FnsFacts, FrameType DEF Inv, InPCall
  <2> HIDE DEF F, fr
  <2>7. Extends(F2, F) /\ F2 \in Seq(CallInfo)
    <3>1. /\ F2 \in Seq(CallInfo) /\ Len(F2) = Len(F) + 1 /\ F2[Len(F) + 1] = fr
          /\ \A p \in 1 .. Len(F) : F2[p] = F[p]
      BY <2>5, <2>6
    <3> QED BY <3>1, <2>6 DEF Extends
  <2>8. ci' = [ci EXCEPT ![L] = F2]
    BY <2>2 DEF F, fr
  <2> HIDE DEF F2
  <2>9. ~InPCall(F[Size]) /\ ~InPCall(Top)
    BY <2>1, <2>5 DEF InPCall
  <2>10. OneCollects(cstack)
    BY DEF Handled
  <2> QED BY <2>1, <2>3, <2>5, <2>7, <2>8, <2>9, <2>10, TopHandled
<1>3. CASE ResumeRefused
  <2>1. /\ Running /\ Top.fn \in {"resume", "wrap"} /\ Top.st = "start"
        /\ UNCHANGED <<errfunc, status, unstarted, cstack>>
        /\ ci' = [ci EXCEPT ![L] = SetTop(ci[L], "failed")]
    BY <1>3 DEF ResumeRefused, Resumes
  <2>3. Top \in CallInfo /\ cstack # <<>>
    BY <2>1, TopFacts DEF Inv
  <2>4. ~Top.ypcall /\ "failed" \in Resting
    BY <2>1, <2>3, FrameFields DEF Resting
  <2> DEFINE F == SetTop(ci[L], "failed")
  <2>5. /\ F \in Seq(CallInfo) /\ Len(F) = Size /\ F[Size].fn = Top.fn
        /\ \A p \in 1 .. Size - 1 : F[p] = ci[L][p]
    BY <2>1, <2>4, TopSet DEF Inv
  <2>6. ci' = [ci EXCEPT ![L] = F]
    BY <2>1
  <2> HIDE DEF F
  <2>7. Extends(F, F) /\ ~InPCall(F[Size]) /\ ~InPCall(Top) /\ OneCollects(cstack)
    BY <2>1, <2>5 DEF Extends, InPCall, Handled
  <2> QED BY <2>1, <2>3, <2>5, <2>6, <2>7, TopHandled
<1> QED BY <1>1, <1>2, <1>3

(* luaV_finishOp; luaV_execute is added to the C stack.                    *)
LEMMA FinishOpHandled == ASSUME Inv, Handled, FinishOp PROVE Handled'
<1> DEFINE fr == [Top EXCEPT !.st = "run", !.fresh = TRUE]
           F == Append(Front(ci[L]), fr)
           e == Execute(Size - 1)
           c2 == Append(cstack, e)
<1>1. /\ Unrolls /\ ci[L] # <<>> /\ Top.fn = "lua" /\ ci' = [ci EXCEPT ![L] = F] /\ cstack' = c2
      /\ UNCHANGED <<errfunc, status, unstarted>>
  BY DEF FinishOp, Size, fields
<1>2. Running /\ Top \in CallInfo /\ L \in Thread /\ Size - 1 \in Nat /\ cstack \in Seq(Entry)
  <2>1. Running
    BY <1>1, UnrollFacts DEF Inv
  <2>2. Size \in Nat /\ Size >= 1 /\ Top \in CallInfo /\ L \in Thread
    BY <2>1, TopFacts, ActFacts DEF Inv
  <2> QED BY <2>1, <2>2 DEF Inv, Shaped, StackTypes
<1>3. fr \in CallInfo /\ fr.fn = "lua"
  BY <1>1, <1>2 DEF CallInfo, LuaStates, Resting
<1>4. e \in Entry /\ e.c = "luaV_execute"
  BY <1>2, EntryType
<1> HIDE DEF fr, e
<1>5. F \in Seq(CallInfo) /\ Len(F) = Size /\ F[Size] = fr /\ \A p \in 1 .. Size - 1 : F[p] = ci[L][p]
  BY <1>2, <1>3, TopReplaced DEF Inv
<1>6. PCallsOf(c2) = PCallsOf(cstack) /\ OneCollects(c2)
  BY <1>2, <1>4, PCallsPush DEF CollectsAt, Handled
<1>7. c2 # <<>>
  BY <1>2, <1>4
<1> HIDE DEF F, c2
<1>8. Extends(F, F) /\ ~InPCall(F[Size]) /\ ~InPCall(Top) /\ F[Size].fn = Top.fn
  BY <1>1, <1>3, <1>5 DEF Extends, InPCall
<1> QED BY <1>1, <1>2, <1>5, <1>6, <1>7, <1>8, TopHandled

(* A return to the j-th activation, of the frame on top.                   *)
LEMMA ReturnHandled ==
    ASSUME Inv, Handled, Returns, NEW j \in 1 .. Depth, cstack' = SubSeq(cstack, 1, j),
           \A i \in j + 1 .. Depth : cstack[i].c # "luaD_pcall",
           NEW F2 \in Seq(CallInfo), Len(F2) = Size - 1,
           \A p \in 1 .. (Size - 1) - 1 : F2[p] = ci[L][p],
           Size - 1 > 0 =>
               \/ F2[Size - 1] = ci[L][Size - 1]
               \/ /\ F2[Size - 1].fn = ci[L][Size - 1].fn
                  /\ ~InPCall(F2[Size - 1]) /\ ~InPCall(ci[L][Size - 1]),
           ci' = [ci EXCEPT ![L] = F2], UNCHANGED <<errfunc, status, unstarted>>
    PROVE  Handled'
<1>1. Running /\ Top.st \in {"run", "back", "caught", "failed"}
  BY DEF Returns, RunsLua
<1>2. /\ cstack # <<>> /\ Top = ci[L][Size] /\ Size - 1 \in Nat /\ Size = Len(ci[L])
      /\ ci[L] \in Seq(CallInfo) /\ (Size - 1) + 1 = Size
      /\ cstack \in Seq(Entry) /\ Depth = Len(cstack) /\ j \in 0 .. Len(cstack) /\ j > 0
  BY <1>1, TopFacts, ActFacts DEF Inv, Size, Shaped, StackTypes, Depth
<1>3. ~InPCall(Top) /\ Top.st # "out"
  BY <1>1 DEF InPCall
<1>4. /\ PCallsOf(cstack') = PCallsOf(cstack) /\ OneCollects(cstack')
      /\ Len(cstack') = j
  <2>1. j \in 0 .. Len(cstack) /\ cstack \in Seq(Entry) /\ OneCollects(cstack)
        /\ \A i \in j + 1 .. Len(cstack) : cstack[i].c # "luaD_pcall"
    BY <1>2 DEF Handled
  <2>2. Len(SubSeq(cstack, 1, j)) = j
    BY <2>1, PrefixFacts
  <2>3. PCallsOf(SubSeq(cstack, 1, j)) = PCallsOf(cstack) /\ OneCollects(SubSeq(cstack, 1, j))
    BY <2>1, PCallsCut
  <2> QED BY <2>2, <2>3
<1>5. cstack' # <<>>
  <2>1. Len(cstack') # 0
    BY <1>2, <1>4
  <2>2. ASSUME cstack' = <<>> PROVE Len(cstack') = 0
    BY <2>2
  <2> QED BY <2>1, <2>2
<1>6. Touches(ci[L], F2, Size - 1)
  <2>1. /\ Size - 1 <= Len(F2) /\ Len(F2) <= (Size - 1) + 1 /\ Size - 1 <= Len(ci[L])
        /\ Len(ci[L]) <= (Size - 1) + 1 /\ Len(F2) # (Size - 1) + 1
    BY <1>2
  <2> QED BY <2>1, <1>2, <1>3 DEF Touches
<1> QED BY <1>2, <1>4, <1>5, <1>6, TouchesSame, QuietHandled

(* The call that ends is not one by luaD_pcall.                            *)
LEMMA NoPCallReturned ==
    ASSUME Inv, Returns, NEW k \in 1 .. Depth, Callers = SubSeq(cstack, 1, k)
    PROVE  /\ \A i \in k + 1 .. Depth : cstack[i].c # "luaD_pcall"
           /\ cstack[k].c = "luaD_call" => \A i \in (k - 1) + 1 .. Depth : cstack[i].c # "luaD_pcall"
<1>1. /\ cstack # <<>> /\ cstack \in Seq(Entry) /\ Depth = Len(cstack) /\ Depth \in Nat
      /\ Act = cstack[Depth] /\ Act.c # "luaD_pcall"
  <2>1. cstack # <<>>
    BY DEF Returns, Running
  <2> QED BY <2>1, ActFacts DEF Inv, Shaped, StackTypes, Depth
<1>2. Len(Callers) = k
  BY <1>1, PrefixFacts
<1>3. k = Depth \/ k = Depth - 1
  BY <1>1, <1>2, FrontFacts DEF Callers
<1>4. \A i \in k + 1 .. Depth : i = Depth
  BY <1>1, <1>3
<1>5. \A i \in (k - 1) + 1 .. Depth : i = k \/ i \in k + 1 .. Depth
  BY <1>1
<1> QED BY <1>1, <1>4, <1>5

LEMMA ReturnsHandled == ASSUME Inv, Handled, ReturnToLua \/ ReturnToResume PROVE Handled'
<1>1. Returns /\ cstack' = Callers /\ UNCHANGED <<errfunc, status, unstarted>>
  BY DEF ReturnToLua, ReturnToResume, fields
<1>2. PICK k \in 1 .. Depth :
             /\ Callers = SubSeq(cstack, 1, k) /\ Last(Callers) = cstack[k]
             /\ cstack[k].c = "luaV_execute" =>
                  /\ Size - 1 > cstack[k].ci
                  /\ \A p \in cstack[k].ci + 1 .. Size - 1 : ci[L][p].fn = "lua" /\ ci[L][p].st = "call"
  BY <1>1, ReturnFacts DEF Inv
<1>3. /\ Frames \in Seq(CallInfo) /\ Len(Frames) = Size - 1 /\ Size - 1 \in Nat
      /\ \A p \in 1 .. Size - 1 : Frames[p] = ci[L][p] /\ Frames[p] \in CallInfo
      /\ Size - 1 > 0 => Frames # <<>> /\ Last(Frames) = ci[L][Size - 1]
  BY <1>1, FramesFacts DEF Inv
<1>4. \A i \in k + 1 .. Depth : cstack[i].c # "luaD_pcall"
  BY <1>1, <1>2, NoPCallReturned
<1>5. CASE ReturnToResume
  <2>1. ci' = [ci EXCEPT ![L] = Frames]
    BY <1>5 DEF ReturnToResume
  <2>2. /\ \A p \in 1 .. (Size - 1) - 1 : Frames[p] = ci[L][p]
        /\ Size - 1 > 0 => Frames[Size - 1] = ci[L][Size - 1]
    <3>1. /\ \A p \in 1 .. (Size - 1) - 1 : p \in 1 .. Size - 1
          /\ Size - 1 > 0 => Size - 1 \in 1 .. Size - 1
      BY <1>3
    <3> QED BY <3>1, <1>3
  <2> QED BY <1>1, <1>2, <1>3, <1>4, <2>1, <2>2, ReturnHandled
<1>6. CASE ReturnToLua
  <2>1. /\ Last(Callers).c = "luaV_execute"
        /\ ci' = [ci EXCEPT ![L] = IF Last(Frames).st = "call" THEN SetTop(Frames, "run") ELSE Frames]
    BY <1>6 DEF ReturnToLua
  <2>2. cstack[k] \in Entry /\ cstack[k].ci \in Nat
    BY EntryFields DEF Inv, Shaped, StackTypes, Depth
  <2>3. Size - 1 > 0 /\ Size - 1 \in cstack[k].ci + 1 .. Size - 1 /\ Size - 1 \in 1 .. Size - 1
    BY <1>2, <1>3, <2>1, <2>2
  <2>4. ci[L][Size - 1].fn = "lua" /\ ci[L][Size - 1].st = "call" /\ ci[L][Size - 1] \in CallInfo
    BY <1>2, <1>3, <2>1, <2>3
  <2> DEFINE F2 == SetTop(Frames, "run")
  <2>5. ~ci[L][Size - 1].ypcall /\ "run" \in LuaStates
    BY <2>4, FrameFields DEF LuaStates
  <2>6. /\ F2 \in Seq(CallInfo) /\ Len(F2) = Size - 1
        /\ \A p \in 1 .. (Size - 1) - 1 : F2[p] = ci[L][p]
        /\ F2[Size - 1].fn = ci[L][Size - 1].fn
    BY <1>1, <2>3, <2>4, <2>5, GoesOn DEF Inv
  <2>7. ci' = [ci EXCEPT ![L] = F2]
    BY <1>3, <2>1, <2>3, <2>4
  <2> HIDE DEF F2
  <2>8. ~InPCall(F2[Size - 1]) /\ ~InPCall(ci[L][Size - 1])
    BY <2>4, <2>6 DEF InPCall
  <2> QED BY <1>1, <1>2, <1>4, <2>6, <2>7, <2>8, ReturnHandled
<1> QED BY <1>5, <1>6

LEMMA CallEndHandled ==
    ASSUME Inv, Handled, NEW caller, CallEnds(caller), cstack' = Front(Callers),
           NEW F2 \in Seq(CallInfo), Len(F2) = Size - 1,
           \A p \in 1 .. (Size - 1) - 1 : F2[p] = ci[L][p],
           Size - 1 > 0 =>
               \/ F2[Size - 1] = ci[L][Size - 1]
               \/ /\ F2[Size - 1].fn = ci[L][Size - 1].fn
                  /\ ~InPCall(F2[Size - 1]) /\ ~InPCall(ci[L][Size - 1]),
           ci' = [ci EXCEPT ![L] = F2], errfunc' = errfunc
    PROVE  Handled'
<1>1. Returns /\ status' = status /\ unstarted' = unstarted
  BY DEF CallEnds
<1>2. PICK k \in 2 .. Depth : EndsAt(k, caller)
  BY CallEndsFacts DEF Inv
<1> DEFINE j == k - 1
<1>3. j \in 1 .. Depth /\ k \in 1 .. Depth
  BY DEF Inv, Shaped, StackTypes, Depth
<1>4. cstack' = SubSeq(cstack, 1, j) /\ \A i \in j + 1 .. Depth : cstack[i].c # "luaD_pcall"
  BY <1>1, <1>2, <1>3, NoPCallReturned DEF EndsAt
<1> HIDE DEF j
<1> QED BY <1>1, <1>3, <1>4, ReturnHandled

LEMMA EndsHandled == ASSUME Inv, Handled, MetamethodEnds \/ HookEnds \/ HandlerEnds PROVE Handled'
<1>1. ASSUME NEW caller \in {"meta", "hook"}, CallEnds(caller), cstack' = Front(Callers),
             ci' = [ci EXCEPT ![L] = SetTop(Frames, "run")], errfunc' = errfunc
      PROVE  Handled'
  <2>1. Returns
    BY <1>1 DEF CallEnds
  <2>2. PICK k \in 2 .. Depth : EndsAt(k, caller)
    BY <1>1, CallEndsFacts DEF Inv
  <2>3. Size - 1 > 0 /\ ci[L][Size - 1].fn = "lua"
    BY <1>1, <2>2, EndsCaller DEF Inv
  <2>4. ci[L][Size - 1] \in CallInfo
    <3>1. Size - 1 \in 1 .. Size - 1
      BY <2>1, <2>3, FramesFacts DEF Inv
    <3> QED BY <3>1, <2>1, FramesFacts DEF Inv
  <2>5. ~ci[L][Size - 1].ypcall /\ "run" \in LuaStates
    BY <2>3, <2>4, FrameFields DEF LuaStates
  <2> DEFINE F2 == SetTop(Frames, "run")
  <2>6. /\ F2 \in Seq(CallInfo) /\ Len(F2) = Size - 1
        /\ \A p \in 1 .. (Size - 1) - 1 : F2[p] = ci[L][p]
        /\ F2[Size - 1].fn = ci[L][Size - 1].fn
    BY <2>1, <2>3, <2>5, GoesOn DEF Inv
  <2> HIDE DEF F2
  <2>7. ~InPCall(F2[Size - 1]) /\ ~InPCall(ci[L][Size - 1])
    BY <2>3, <2>6 DEF InPCall
  <2>8. ci' = [ci EXCEPT ![L] = F2]
    BY <1>1 DEF F2
  <2> QED BY <1>1, <2>6, <2>7, <2>8, CallEndHandled
<1>2. CASE MetamethodEnds
  BY <1>1, <1>2 DEF MetamethodEnds
<1>3. CASE HookEnds
  BY <1>1, <1>3 DEF HookEnds
<1>4. CASE HandlerEnds
  <2>1. CallEnds("handler") /\ cstack' = Front(Callers) /\ ci' = [ci EXCEPT ![L] = Frames] /\ errfunc' = errfunc
        /\ Returns
    BY <1>4 DEF HandlerEnds, CallEnds
  <2>2. /\ Frames \in Seq(CallInfo) /\ Len(Frames) = Size - 1 /\ Size - 1 \in Nat
        /\ \A p \in 1 .. Size - 1 : Frames[p] = ci[L][p]
    BY <2>1, FramesFacts DEF Inv
  <2>3. /\ \A p \in 1 .. (Size - 1) - 1 : Frames[p] = ci[L][p]
        /\ Size - 1 > 0 => Frames[Size - 1] = ci[L][Size - 1]
    <3>1. /\ \A p \in 1 .. (Size - 1) - 1 : p \in 1 .. Size - 1
          /\ Size - 1 > 0 => Size - 1 \in 1 .. Size - 1
      BY <2>2
    <3> QED BY <3>1, <2>2
  <2> QED BY <2>1, <2>2, <2>3, CallEndHandled
<1> QED BY <1>2, <1>3, <1>4

(* The protected call on the frame n is over, with no luaD_pcall.          *)
LEMMA FinishedHandled ==
    ASSUME Inv, Handled, cstack # <<>>, NEW n \in 1 .. Size, ci[L][n].ypcall,
           \A r \in PCallsOf(cstack) : r.th = L => r.ci <= n,
           NEW F2 \in Seq(CallInfo), Len(F2) = n, \A p \in 1 .. n - 1 : F2[p] = ci[L][p],
           ~InPCall(F2[n]), ci' = [ci EXCEPT ![L] = F2],
           errfunc' = [errfunc EXCEPT ![L] = ci[L][n].old_errfunc],
           UNCHANGED <<status, unstarted>>,
           PCallsOf(cstack') = PCallsOf(cstack), OneCollects(cstack'), cstack' # <<>>
    PROVE  Handled'
<1> DEFINE R == PCallsOf(cstack)
           b == ci[L][n].old_errfunc
<1>1. /\ L \in Thread /\ Shaped /\ status[L] = "LUA_OK" /\ L \notin unstarted /\ Size = Len(ci[L])
      /\ errfunc \in [Thread -> BOOLEAN] /\ n \in Nat /\ n > 0 /\ n <= Len(ci[L]) /\ ci[L][n] \in CallInfo
      /\ unstarted \in SUBSET Co
  BY RunsOK, ActFacts DEF Inv, Size, Fields
<1>2. (cstack # <<>>) = TRUE /\ (cstack' # <<>>) = TRUE
  OBVIOUS
<1>3. HandlersOf(R, ci, errfunc, status, TRUE) /\ \A th \in unstarted : ~errfunc[th] /\ ci[th] = <<>>
  BY <1>2 DEF Handled
<1>4. Handles(R, ci[L], L, n - 1, b)
  <2>1. n \in 1 .. Len(ci[L])
    BY <1>1
  <2> QED BY <2>1, <1>1, <1>3 DEF HandlersOf
<1>5. ASSUME NEW r \in R, r.th = L PROVE r.ci <= n /\ ~(r.gc /\ r.ci = n)
  <2>1. r.gc => ci[L][r.ci].fn = "lua"
    BY <1>1, <1>5, CollectsOnLua
  <2>2. ci[L][n].fn # "lua"
    BY <1>1, FrameFields
  <2> QED BY <2>1, <2>2, <1>5
<1>6. \A r \in R : r \in R \/ (r.th = L /\ r.ci >= n)
  OBVIOUS
<1>7. Unmarks(L, R, F2, n, b, TRUE)
  BY <1>1, <1>4, <1>5, <1>6 DEF Unmarks
<1> HIDE DEF b
<1>8. HandlersOf(R, [ci EXCEPT ![L] = F2], [errfunc EXCEPT ![L] = b], status, TRUE)
  BY <1>1, <1>3, <1>7, UnmarkStep
<1>9. HandlersOf(PCallsOf(cstack'), ci', errfunc', status', cstack' # <<>>)
  BY <1>2, <1>8 DEF b
<1>10. \A th \in unstarted : ~errfunc'[th] /\ ci'[th] = <<>>
  <2>1. \A th \in unstarted : th \in Thread /\ th # L /\ ci'[th] = ci[th]
    BY <1>1, UnstartedStays
  <2> QED BY <2>1, <1>1, <1>3
<1> QED BY <1>9, <1>10 DEF Handled

LEMMA FinishCCallHandled == ASSUME Inv, Handled, FinishCCall PROVE Handled'
<1> DEFINE fr == [Top EXCEPT !.st = "back", !.ypcall = FALSE]
           F2 == Append(Front(ci[L]), fr)
<1>1. /\ Unrolls /\ ci[L] # <<>> /\ Top.fn # "lua" /\ Top.st = "in"
      /\ ci' = [ci EXCEPT ![L] = F2] /\ UNCHANGED <<status, unstarted, cstack>>
      /\ errfunc' = [errfunc EXCEPT ![L] = IF Top.ypcall THEN Top.old_errfunc ELSE errfunc[L]]
  BY DEF FinishCCall
<1>2. Running /\ Act.c = "lua_resume" /\ cstack # <<>>
  BY <1>1, UnrollFacts DEF Inv
<1>3. /\ Top \in CallInfo /\ Top = ci[L][Size] /\ Size \in 1 .. Size /\ Size = Len(ci[L])
      /\ Unrollable(Top) \/ Top.st \in Resting
  BY <1>2, TopFacts, ActFacts DEF Inv, Size
<1>4. fr \in CallInfo /\ fr.fn = Top.fn /\ fr.st = "back"
  BY <1>1, <1>3 DEF CallInfo, LuaStates, Resting
<1> HIDE DEF fr
<1>5. /\ F2 \in Seq(CallInfo) /\ Len(F2) = Size /\ F2[Size] = fr
      /\ \A p \in 1 .. Size - 1 : F2[p] = ci[L][p]
  BY <1>2, <1>4, TopReplaced DEF Inv
<1> HIDE DEF F2
<1>6. ~InPCall(F2[Size]) /\ OneCollects(cstack)
  BY <1>4, <1>5 DEF InPCall, Handled
<1>7. CASE Top.ypcall
  <2>1. \A r \in PCallsOf(cstack) : r.th = L => r.ci <= Size
    BY <1>3, CollectsOnLua DEF Inv
  <2>2. errfunc' = [errfunc EXCEPT ![L] = ci[L][Size].old_errfunc] /\ ci[L][Size].ypcall
    BY <1>1, <1>3, <1>7
  <2> QED BY <2>1, <2>2, <1>1, <1>2, <1>3, <1>5, <1>6, FinishedHandled
<1>8. CASE ~Top.ypcall
  <2>1. errfunc' = errfunc
    BY <1>1, <1>8 DEF Inv, Fields
  <2>2. Top.fn = "dofile"
    BY <1>1, <1>3, <1>8 DEF Unrollable, Resting
  <2>3. ~InPCall(Top) /\ Extends(F2, F2)
    BY <2>2, <1>5 DEF InPCall, Extends
  <2> QED BY <2>1, <2>3, <1>1, <1>2, <1>4, <1>5, <1>6, TopHandled
<1> QED BY <1>7, <1>8

LEMMA CFunctionGoesOnHandled == ASSUME Inv, Handled, CFunctionGoesOn PROVE Handled'
<1> DEFINE a == Size - 1
           f == ci[L][a]
           fr == [f EXCEPT !.st = "back", !.ypcall = FALSE]
           F2 == Append(Front(Frames), fr)
<1>1. /\ CallEnds("function") /\ Last(Front(Callers)).c # "luaD_pcall"
      /\ ci' = [ci EXCEPT ![L] = Append(Front(Frames),
                                        [Last(Frames) EXCEPT !.st = "back", !.ypcall = FALSE])]
      /\ errfunc' = [errfunc EXCEPT ![L] = IF Last(Frames).ypcall THEN Last(Frames).old_errfunc
                                           ELSE errfunc[L]]
      /\ cstack' = Front(Callers)
  BY DEF CFunctionGoesOn
<1>2. Returns /\ Running /\ status' = status /\ unstarted' = unstarted
  BY <1>1 DEF CallEnds, Returns
<1>3. PICK k \in 2 .. Depth : EndsAt(k, "function")
  BY <1>1, CallEndsFacts DEF Inv
<1>4. cstack[k - 1].c # "luaD_pcall"
  BY <1>1, <1>3 DEF EndsAt
<1>5. a > 0 /\ f.fn # "lua" /\ (f.ypcall \/ f.fn \in {"sort", "dofile"})
  <2>1. a > 0 /\ f.fn # "lua"
    BY <1>3, <1>4, EndsCaller DEF Inv
  <2>2. /\ cstack[k].c = "luaD_call" /\ cstack[k].caller = "function" /\ cstack[k].ci = a
        /\ cstack[k].th = L /\ Called(cstack, ci, k)
    BY <1>3 DEF EndsAt
  <2> QED BY <2>1, <2>2, <1>4 DEF Called
<1>6. /\ Frames \in Seq(CallInfo) /\ Len(Frames) = a /\ a \in Nat /\ Frames # <<>>
      /\ \A p \in 1 .. a : Frames[p] = ci[L][p] /\ Frames[p] \in CallInfo
      /\ Last(Frames) = f
  BY <1>2, <1>5, FramesFacts DEF Inv
<1>7. f \in CallInfo
  <2>1. a \in 1 .. a
    BY <1>5, <1>6
  <2> QED BY <2>1, <1>6
<1>8. fr \in CallInfo /\ fr.fn = f.fn /\ fr.st = "back"
  <2> HIDE DEF f
  <2> QED BY <1>5, <1>7 DEF CallInfo, LuaStates, Resting
<1>9. ci' = [ci EXCEPT ![L] = F2]
  BY <1>1, <1>6
<1> HIDE DEF fr
<1> DEFINE G == Front(Frames)
<1>10. G \in Seq(CallInfo) /\ Len(G) = a - 1 /\ \A p \in 1 .. a - 1 : G[p] = ci[L][p]
  <2>1. G \in Seq(CallInfo) /\ Len(G) = a - 1 /\ \A p \in 1 .. a - 1 : G[p] = Frames[p]
    BY <1>6, FrontFacts
  <2>2. \A p \in 1 .. a - 1 : p \in 1 .. a
    BY <1>6
  <2> QED BY <2>1, <2>2, <1>6
<1> HIDE DEF G, a, f
<1>11. /\ Append(G, fr) \in Seq(CallInfo) /\ Len(Append(G, fr)) = a /\ Append(G, fr)[a] = fr
       /\ \A p \in 1 .. a - 1 : Append(G, fr)[p] = ci[L][p]
  BY <1>6, <1>8, <1>10
<1>12. /\ F2 \in Seq(CallInfo) /\ Len(F2) = a /\ F2[a] = fr
       /\ \A p \in 1 .. a - 1 : F2[p] = ci[L][p]
  BY <1>11 DEF G
<1> HIDE DEF F2
<1>13. ~InPCall(F2[a])
  BY <1>8, <1>12 DEF InPCall
<1>14. CASE f.ypcall
  <2>0. /\ cstack # <<>> /\ Top = ci[L][Size] /\ ~InPCall(Top) /\ Top.st # "out"
        /\ Size \in Nat /\ a = Size - 1 /\ a \in 1 .. Size
    <3>1. cstack # <<>> /\ Top = ci[L][Size] /\ Size \in Nat /\ a = Size - 1
      BY <1>2, TopFacts, ActFacts DEF Inv, a
    <3>2. Top.st \in {"run", "back", "caught", "failed"}
      BY <1>2 DEF Returns, RunsLua
    <3> QED BY <3>1, <3>2, <1>5, <1>6 DEF InPCall
  <2>1. ASSUME NEW r \in PCallsOf(cstack), r.th = L PROVE r.ci <= a
    <3>1. /\ r.ci \in Nat /\ r.ci <= Size
          /\ r.gc => ci[L][r.ci].st = "out"
          /\ ~r.gc => r.ci = 0 \/ InPCall(ci[L][r.ci])
      BY <2>1, CollectsOnLua DEF Inv, Size
    <3>2. r.ci # Size
      BY <3>1, <2>0, <1>5
    <3> QED BY <3>1, <3>2, <2>0
  <2>2. errfunc' = [errfunc EXCEPT ![L] = ci[L][a].old_errfunc] /\ ci[L][a].ypcall
    BY <1>1, <1>6, <1>14 DEF f
  <2> DEFINE j == k - 1
  <2>3. j \in 1 .. Depth /\ k \in 1 .. Depth /\ j \in 0 .. Len(cstack) /\ j > 0
        /\ cstack \in Seq(Entry) /\ Depth = Len(cstack)
    BY DEF Inv, Shaped, StackTypes, Depth
  <2>4. cstack' = SubSeq(cstack, 1, j) /\ \A i \in j + 1 .. Depth : cstack[i].c # "luaD_pcall"
    BY <1>1, <1>2, <1>3, <2>3, NoPCallReturned DEF EndsAt
  <2> HIDE DEF j
  <2>5. PCallsOf(cstack') = PCallsOf(cstack) /\ OneCollects(cstack') /\ Len(cstack') = j
    <3>1. j \in 0 .. Len(cstack) /\ cstack \in Seq(Entry) /\ OneCollects(cstack)
          /\ \A i \in j + 1 .. Len(cstack) : cstack[i].c # "luaD_pcall"
      BY <2>3, <2>4 DEF Handled
    <3>2. Len(SubSeq(cstack, 1, j)) = j
      BY <3>1, PrefixFacts
    <3>3. PCallsOf(SubSeq(cstack, 1, j)) = PCallsOf(cstack) /\ OneCollects(SubSeq(cstack, 1, j))
      BY <3>1, PCallsCut
    <3> QED BY <3>2, <3>3, <2>4
  <2>6. cstack' # <<>>
    <3>1. Len(cstack') # 0
      BY <2>3, <2>5
    <3>2. ASSUME cstack' = <<>> PROVE Len(cstack') = 0
      BY <3>2
    <3> QED BY <3>1, <3>2
  <2> QED BY <2>0, <2>1, <2>2, <2>5, <2>6, <1>2, <1>9, <1>12, <1>13, FinishedHandled
<1>15. CASE ~f.ypcall
  <2>1. errfunc' = errfunc
    BY <1>1, <1>6, <1>15 DEF Inv, Fields
  <2>2. ~InPCall(f) /\ F2[a].fn = f.fn
    BY <1>5, <1>8, <1>12, <1>15 DEF InPCall
  <2>3. CallEnds("function") /\ cstack' = Front(Callers)
    BY <1>1
  <2> QED BY <2>1, <2>2, <2>3, <1>9, <1>12, <1>13, CallEndHandled DEF a, f
<1> QED BY <1>14, <1>15

(* Every step keeps the message handlers: errors                           *)

LEMMA NotEmpty == ASSUME NEW s, Len(s) # 0 PROVE s # <<>>
<1>1. ASSUME s = <<>> PROVE Len(s) = 0
  BY <1>1
<1> QED BY <1>1

LEMMA ResumeStack ==
    ASSUME Inv, OneCollects(cstack), NEW j \in 1 .. Depth, cstack[j].c = "lua_resume",
           cstack[j].th = L, \A i \in j + 1 .. Depth : cstack[i].c # "luaD_pcall"
    PROVE  /\ PCallsOf(SubSeq(cstack, 1, j)) = PCallsOf(cstack) /\ OneCollects(SubSeq(cstack, 1, j))
           /\ PCallsOf(SubSeq(cstack, 1, j - 1)) = PCallsOf(cstack)
           /\ OneCollects(SubSeq(cstack, 1, j - 1))
           /\ \A r \in PCallsOf(cstack) : r.th # L
           /\ SubSeq(cstack, 1, j) # <<>> /\ SubSeq(cstack, 1, j - 1) # <<>>
           /\ j > 1 /\ L # Main
<1>1. Depth \in Nat /\ Depth = Len(cstack) /\ cstack \in Seq(Entry) /\ j \in Nat
  BY DEF Inv, Shaped, StackTypes, Depth
<1>2. \A i \in j + 1 .. Depth : cstack[i].c # "luaD_pcall"
  OBVIOUS
<1>3. (\A i \in 1 .. j - 1 : cstack[i].th # L) /\ j > 1 /\ L # Main
  BY <1>1, NoneBelow DEF Inv
<1> DEFINE k == j - 1
<1>4. /\ j \in 0 .. Len(cstack) /\ k \in 0 .. Len(cstack)
      /\ \A i \in 1 .. Depth : i \in 1 .. j - 1 \/ i = j \/ i \in j + 1 .. Depth
      /\ \A i \in k + 1 .. Len(cstack) : i = j \/ i \in j + 1 .. Depth
      /\ k # 0
  BY <1>1, <1>3
<1>5. \A i \in k + 1 .. Len(cstack) : cstack[i].c # "luaD_pcall"
  BY <1>1, <1>2, <1>4
<1>6. PCallsOf(SubSeq(cstack, 1, j)) = PCallsOf(cstack) /\ OneCollects(SubSeq(cstack, 1, j))
  BY <1>1, <1>2, <1>4, PCallsCut
<1> HIDE DEF k
<1>7. PCallsOf(SubSeq(cstack, 1, k)) = PCallsOf(cstack) /\ OneCollects(SubSeq(cstack, 1, k))
  BY <1>1, <1>4, <1>5, PCallsCut
<1>8. ASSUME NEW r \in PCallsOf(cstack), r.th = L PROVE FALSE
  <2>1. PICK i \in 1 .. Depth : cstack[i] = r /\ r.c = "luaD_pcall"
    BY DEF PCallsOf, Depth
  <2> QED BY <2>1, <1>1, <1>2, <1>3, <1>4, <1>8
<1>9. SubSeq(cstack, 1, j) # <<>>
  <2>1. Len(SubSeq(cstack, 1, j)) = j /\ j # 0
    BY <1>1, <1>4, PrefixFacts
  <2> QED BY <2>1, NotEmpty
<1>10. SubSeq(cstack, 1, k) # <<>>
  <2>1. Len(SubSeq(cstack, 1, k)) = k /\ k # 0
    BY <1>1, <1>4, PrefixFacts
  <2> QED BY <2>1, NotEmpty
<1>11. SubSeq(cstack, 1, j - 1) # <<>>
  <2>1. k = j - 1
    BY DEF k
  <2> QED BY <1>10, <2>1, Zenon
<1>12. /\ PCallsOf(SubSeq(cstack, 1, j - 1)) = PCallsOf(cstack)
       /\ OneCollects(SubSeq(cstack, 1, j - 1))
  BY <1>7, Zenon DEF k
<1> QED BY <1>3, <1>6, <1>8, <1>9, <1>11, <1>12, Zenon

LEMMA RecoverHandled == ASSUME Inv, Handled, Recover PROVE Handled'
<1> DEFINE F == ci[L]
           n == CHOOSE i \in PCalls(ci[L]) : \A j \in PCalls(ci[L]) : j <= i
           f == F[n]
           fr == [f EXCEPT !.st = "caught", !.ypcall = FALSE]
           G == SubSeq(F, 1, n - 1)
           F2 == Append(G, fr)
           k == Setjmp
<1>1. /\ raise = "throw" /\ Jmp.c = "lua_resume" /\ PCalls(ci[L]) # {}
      /\ ci' = [ci EXCEPT ![L] = F2] /\ cstack' = SubSeq(cstack, 1, k)
      /\ errfunc' = [errfunc EXCEPT ![L] = f.old_errfunc]
      /\ UNCHANGED <<status, unstarted>>
  BY DEF Recover
<1>2. n \in 1 .. Size /\ f.ypcall
  BY <1>1, RecoverFacts DEF Inv
<1> HIDE DEF n
<1>3. cstack # <<>>
  BY <1>1, Raised DEF Inv
<1>4. /\ F \in Seq(CallInfo) /\ Size \in Nat /\ Size = Len(F) /\ \A p \in 1 .. Size : F[p] \in CallInfo
  BY <1>3, ActFacts DEF Size, Inv
<1> HIDE DEF k, F
<1>5. f \in CallInfo
  BY <1>2, <1>4
<1>6. G \in Seq(CallInfo) /\ Len(G) = n - 1 /\ \A p \in 1 .. n - 1 : G[p] = F[p]
  <2>1. n - 1 \in 0 .. Len(F)
    BY <1>2, <1>4
  <2> QED BY <2>1, <1>4, PrefixFacts
<1> HIDE DEF f
<1>7. fr \in CallInfo /\ fr.st = "caught"
  BY <1>2, <1>5, FrameFields DEF CallInfo, LuaStates, Resting
<1> HIDE DEF fr, G
<1>8. /\ F2 \in Seq(CallInfo) /\ Len(F2) = n /\ F2[n] = fr
      /\ \A p \in 1 .. n - 1 : F2[p] = F[p]
  BY <1>2, <1>4, <1>6, <1>7
<1> HIDE DEF F2
<1>9. ~InPCall(F2[n])
  BY <1>7, <1>8 DEF InPCall
<1>10. OneCollects(cstack)
  BY DEF Handled
<1>11. /\ PCallsOf(cstack') = PCallsOf(cstack) /\ OneCollects(cstack') /\ cstack' # <<>>
       /\ \A r \in PCallsOf(cstack) : r.th # L
  <2>1. /\ Setjmp \in 1 .. Depth /\ cstack[Setjmp].c = "lua_resume" /\ cstack[Setjmp].th = L
        /\ \A i \in Setjmp + 1 .. Depth : cstack[i].c # "luaD_pcall"
    BY <1>1, <1>3, SetjmpFacts, JmpRemembers DEF Inv, Protected
  <2> QED BY <2>1, <1>1, <1>10, ResumeStack DEF k
<1>12. /\ ci[L][n].ypcall /\ errfunc' = [errfunc EXCEPT ![L] = ci[L][n].old_errfunc]
       /\ \A p \in 1 .. n - 1 : F2[p] = ci[L][p]
  BY <1>1, <1>2, <1>8 DEF f, F
<1>13. \A r \in PCallsOf(cstack) : r.th = L => r.ci <= n
  BY <1>11
<1> QED BY <1>1, <1>2, <1>3, <1>8, <1>9, <1>11, <1>12, <1>13, FinishedHandled

(* The j-th activation, the last call of luaD_pcall, is over.              *)
LEMMA UnmarkHandled ==
    ASSUME Inv, Handled, cstack # <<>>, NEW j \in 1 .. Depth, cstack[j].c = "luaD_pcall",
           cstack[j].th = L, \A i \in j + 1 .. Depth : cstack[i].c # "luaD_pcall",
           NEW F2 \in Seq(CallInfo), Len(F2) = cstack[j].ci,
           \A p \in 1 .. cstack[j].ci - 1 : F2[p] = ci[L][p],
           cstack[j].ci > 0 => ~InPCall(F2[cstack[j].ci]),
           cstack' = SubSeq(cstack, 1, j - 1), ci' = [ci EXCEPT ![L] = F2],
           errfunc' = [errfunc EXCEPT ![L] = cstack[j].errfunc], UNCHANGED <<status, unstarted>>
    PROVE  Handled'
<1> DEFINE R == PCallsOf(cstack)
           p == cstack[j]
           n == p.ci
           k == j - 1
           c2 == SubSeq(cstack, 1, k)
           R2 == PCallsOf(c2)
           on == c2 # <<>>
           b == p.errfunc
<1>1. /\ L \in Thread /\ Shaped /\ status[L] = "LUA_OK" /\ L \notin unstarted
      /\ errfunc \in [Thread -> BOOLEAN] /\ unstarted \in SUBSET Co /\ \A t \in Co : t \in Thread
      /\ Depth \in Nat /\ Depth = Len(cstack) /\ cstack \in Seq(Entry)
      /\ ci \in [Thread -> Seq(CallInfo)]
  BY RunsOK DEF Inv, Fields, Depth, Shaped, StackTypes, Thread
<1>2. /\ j \in 1 .. Len(cstack) /\ k \in Nat /\ k \in 0 .. Len(cstack) /\ k + 1 = j
      /\ p \in Entry /\ n \in Nat /\ \A i \in 1 .. k : i \in 1 .. Len(cstack)
  BY <1>1, EntryFields
<1>3. Linked(cstack, j) /\ Called(cstack, ci, j) /\ Apart(cstack, j)
  BY <1>1, <1>2 DEF Shaped, Shape
<1>4. (cstack # <<>>) = TRUE
  OBVIOUS
<1>5. /\ HandlersOf(R, ci, errfunc, status, TRUE) /\ OneCollects(cstack)
      /\ \A th \in unstarted : ~errfunc[th] /\ ci[th] = <<>>
  BY <1>4 DEF Handled
<1>6. p \in R
  BY <1>2 DEF PCallsOf
<1>7. n <= Len(ci[L]) /\ (~p.gc => n = 0 \/ InPCall(ci[L][n]))
  BY <1>1, <1>6, CollectsOnLua
<1>8. /\ R2 \subseteq R /\ \A r \in R : r \in R2 \/ r = p
      /\ p.gc => \A r \in R2 : ~r.gc
      /\ OneCollects(c2)
  BY <1>1, <1>2, <1>5, PCallsPop DEF Depth
<1>9. c2 \in Seq(Entry) /\ Len(c2) = k /\ \A i \in 1 .. k : c2[i] = cstack[i]
  BY <1>1, <1>2, PrefixFacts
<1>10. n = 0 => j = 1
  BY <1>2, <1>3 DEF Called
<1>11. j = 1 => n = 0 /\ L = Main
  BY <1>3 DEF Linked
<1>12. on <=> j # 1
  <2>1. c2 = <<>> => Len(c2) = 0
    OBVIOUS
  <2>2. Len(c2) = 0 => c2 = <<>>
    BY <1>9
  <2> QED BY <2>1, <2>2, <1>2, <1>9
<1> HIDE DEF c2, R, p, k
<1>13. ASSUME NEW r \in R2, r.th = L PROVE r.ci <= n /\ ~(r.gc /\ r.ci = n)
  <2>1. PICK i \in 1 .. Len(c2) : c2[i] = r
    BY DEF PCallsOf
  <2>2. i \in 1 .. k /\ cstack[i] = r
    BY <2>1, <1>9
  <2>3. r.ci <= n
    BY <2>2, <1>2, <1>3, <1>13 DEF Apart, p, k
  <2>4. r.gc => r.ci > 0 /\ ci[L][r.ci].fn = "lua"
    BY <1>1, <1>8, <1>13, CollectsOnLua DEF R
  <2>5. ASSUME r.gc, r.ci = n PROVE FALSE
    <3>1. InPCall(ci[L][n]) => ci[L][n].fn # "lua"
      BY DEF InPCall
    <3> QED BY <2>4, <2>5, <3>1, <1>7, <1>8
  <2> QED BY <2>3, <2>5
<1>14. n > 0 => Handles(R, ci[L], L, n - 1, b)
  <2>1. p.th = L
    BY DEF p
  <2> QED BY <2>1, <1>5, <1>6 DEF HandlersOf
<1> HIDE DEF on, R2
<1>15. Unmarks(L, R2, F2, n, b, on)
  <2>1. \A r \in R : r \in R2 \/ (r.th = L /\ r.ci >= n)
    BY <1>2, <1>8 DEF p
  <2>2. /\ Len(F2) = n /\ \A q \in 1 .. n - 1 : F2[q] = ci[L][q]
        /\ n > 0 => ~InPCall(F2[n])
    BY DEF p
  <2>3. n = 0 => L = Main /\ ~on
    BY <1>10, <1>11, <1>12
  <2> QED BY <2>1, <2>2, <2>3, <1>1, <1>7, <1>8, <1>13, <1>14 DEF Unmarks, R
<1> HIDE DEF n, b
<1>16. HandlersOf(R2, [ci EXCEPT ![L] = F2], [errfunc EXCEPT ![L] = b], status, on)
  <2>1. HandlersOf(PCallsOf(cstack), ci, errfunc, status, TRUE)
    BY <1>5 DEF R
  <2>2. n \in Nat
    BY <1>2
  <2> QED BY <2>1, <2>2, <1>1, <1>15, UnmarkStep
<1>17. cstack' = c2 /\ errfunc' = [errfunc EXCEPT ![L] = b]
  BY DEF c2, k, b, p
<1>18. HandlersOf(PCallsOf(cstack'), ci', errfunc', status', cstack' # <<>>)
  BY <1>16, <1>17 DEF R2, on
<1>19. cstack' = <<>> => ci'[Main] = <<>>
  <2> SUFFICES ASSUME cstack' = <<>> PROVE ci'[Main] = <<>>
    OBVIOUS
  <2>1. ~on
    BY <1>17 DEF on
  <2>2. n = 0 /\ L = Main
    BY <2>1, <1>11, <1>12
  <2>3. F2 = <<>>
    BY <2>2 DEF n, p
  <2> QED BY <2>2, <2>3, <1>1
<1>20. \A th \in unstarted' : ~errfunc'[th] /\ ci'[th] = <<>>
  <2>1. \A th \in unstarted : th \in Thread /\ th # L /\ ci'[th] = ci[th]
    BY <1>1, UnstartedStays
  <2> QED BY <2>1, <1>1, <1>5, <1>17
<1> QED BY <1>8, <1>17, <1>18, <1>19, <1>20 DEF Handled

LEMMA PCallEndsHandled == ASSUME Inv, Handled, PCallEnds PROVE Handled'
<1> DEFINE p == Last(Front(Callers))
           a == Size - 1
           F2 == IF Frames = <<>> THEN Frames ELSE SetTop(Frames, IF p.gc THEN "run" ELSE "back")
<1>1. /\ CallEnds("function") /\ p.c = "luaD_pcall" /\ ci' = [ci EXCEPT ![L] = F2]
      /\ cstack' = Front(Front(Callers)) /\ errfunc' = [errfunc EXCEPT ![L] = p.errfunc]
      /\ UNCHANGED <<status, unstarted>>
  BY DEF PCallEnds, CallEnds
<1>2. Returns /\ cstack # <<>>
  BY <1>1 DEF CallEnds, Returns, Running
<1>3. PICK k \in 2 .. Depth : EndsAt(k, "function")
  BY <1>1, CallEndsFacts DEF Inv
<1>4. /\ Depth \in Nat /\ Depth = Len(cstack) /\ cstack \in Seq(Entry) /\ Shape(cstack, ci)
  BY DEF Shaped, StackTypes, Depth, Inv
<1> DEFINE j == k - 1
<1>5. /\ Front(Callers) = SubSeq(cstack, 1, j) /\ p = cstack[j]
      /\ cstack[k].c = "luaD_call" /\ cstack[k].ci = a /\ Callers = SubSeq(cstack, 1, k)
      /\ cstack[j].th = L /\ Linked(cstack, k) /\ p \in Entry
  BY <1>3 DEF EndsAt
<1>6. /\ j \in 1 .. Depth /\ j \in 1 .. Len(cstack) /\ j \in Nat /\ j + 1 = k /\ k # 1 /\ k \in 1 .. Depth
  BY <1>4
<1>7. cstack' = SubSeq(cstack, 1, j - 1)
  BY <1>1, <1>4, <1>5, <1>6, FrontPrefix
<1>8. p.ci = a /\ p.ci \in Nat
  <2>1. p.ci = cstack[k].ci
    BY <1>1, <1>5, <1>6 DEF Linked
  <2> QED BY <2>1, <1>1, <1>5, EntryFields
<1>9. /\ Frames \in Seq(CallInfo) /\ Len(Frames) = a /\ a \in Nat
      /\ \A q \in 1 .. a : Frames[q] = ci[L][q] /\ Frames[q] \in CallInfo
      /\ a = 0 => Frames = <<>>
      /\ a > 0 => Frames # <<>>
  BY <1>2, FramesFacts DEF Inv
<1>10. Called(cstack, ci, j)
  BY <1>4, <1>6 DEF Shape
<1>11. a > 0 => /\ p.gc => ci[L][a].fn = "lua"
                /\ ~p.gc => ci[L][a].fn # "lua" /\ ~ci[L][a].ypcall
  <2>1. Linked(cstack, j)
    BY <1>4, <1>6 DEF Shape
  <2>2. j = 1 => a = 0
    BY <2>1, <1>5, <1>8 DEF Linked
  <2> QED BY <2>2, <1>1, <1>5, <1>8, <1>10 DEF Called
<1>12. a > 0 => /\ F2 \in Seq(CallInfo) /\ Len(F2) = a
                /\ \A q \in 1 .. a - 1 : F2[q] = ci[L][q]
                /\ F2[a].fn = ci[L][a].fn
                /\ F2[a].st = IF p.gc THEN "run" ELSE "back"
  <2> SUFFICES ASSUME a > 0
               PROVE  /\ F2 \in Seq(CallInfo) /\ Len(F2) = a
                      /\ \A q \in 1 .. a - 1 : F2[q] = ci[L][q]
                      /\ F2[a].fn = ci[L][a].fn
                      /\ F2[a].st = IF p.gc THEN "run" ELSE "back"
    OBVIOUS
  <2> DEFINE y == IF p.gc THEN "run" ELSE "back"
  <2>1. ci[L][a] \in CallInfo
    <3>1. a \in 1 .. a
      BY <1>9
    <3> QED BY <3>1, <1>9
  <2>2. ci[L][a].fn = "lua" => ~ci[L][a].ypcall
    BY <2>1, FrameFields
  <2>3. /\ IF ci[L][a].fn = "lua" THEN y \in LuaStates ELSE y \in Resting \cup {"in"}
        /\ ~ci[L][a].ypcall
    BY <2>2, <1>11 DEF LuaStates, Resting
  <2>4. F2 = SetTop(Frames, y) /\ a > 0
    BY <1>9
  <2> HIDE DEF y, F2, p, j
  <2>5. /\ SetTop(Frames, y) \in Seq(CallInfo) /\ Len(SetTop(Frames, y)) = a
        /\ \A q \in 1 .. a - 1 : SetTop(Frames, y)[q] = ci[L][q]
        /\ SetTop(Frames, y)[a].fn = ci[L][a].fn
        /\ SetTop(Frames, y)[a].st = y
    BY <2>3, <2>4, <1>2, GoesOn DEF Inv
  <2> QED BY <2>4, <2>5 DEF y
<1>13. a = 0 => F2 \in Seq(CallInfo) /\ Len(F2) = 0
  BY <1>9
<1>14. \A i \in j + 1 .. Depth : cstack[i].c # "luaD_pcall"
  <2>1. \A i \in (k - 1) + 1 .. Depth : cstack[i].c # "luaD_pcall"
    BY <1>2, <1>5, <1>6, NoPCallReturned
  <2> QED BY <2>1
<1>15. cstack[j].c = "luaD_pcall" /\ cstack[j].ci = a /\ errfunc' = [errfunc EXCEPT ![L] = cstack[j].errfunc]
  BY <1>1, <1>5, <1>8
<1> HIDE DEF F2, p, j
<1>16. /\ F2 \in Seq(CallInfo) /\ Len(F2) = cstack[j].ci
       /\ \A q \in 1 .. cstack[j].ci - 1 : F2[q] = ci[L][q]
  <2>1. a = 0 \/ a > 0
    <3> DEFINE m == a
    <3>1. m \in Nat
      BY <1>9, Zenon
    <3> HIDE DEF m
    <3>2. m = 0 \/ m > 0
      BY <3>1
    <3> QED BY <3>2 DEF m
  <2> QED BY <2>1, <1>12, <1>13, <1>15
<1>17. cstack[j].ci > 0 => ~InPCall(F2[cstack[j].ci])
  BY <1>12, <1>15 DEF InPCall
<1> QED BY <1>1, <1>2, <1>5, <1>6, <1>7, <1>14, <1>15, <1>16, <1>17, UnmarkHandled

LEMMA ThrowToPCallHandled == ASSUME Inv, Handled, ThrowToPCall PROVE Handled'
<1> DEFINE j == Setjmp
           frames == SubSeq(ci[L], 1, Jmp.ci)
           F2 == IF frames = <<>> \/ Jmp.gc THEN frames ELSE SetTop(frames, "caught")
           a == Jmp.ci
<1>1. /\ raise = "throw" /\ Jmp.c = "luaD_pcall" /\ ci' = [ci EXCEPT ![L] = F2]
      /\ cstack' = SubSeq(cstack, 1, j - 1) /\ errfunc' = [errfunc EXCEPT ![L] = Jmp.errfunc]
      /\ UNCHANGED <<status, unstarted>>
  BY DEF ThrowToPCall
<1>2. cstack # <<>>
  BY <1>1, Raised DEF Inv
<1>3. /\ j \in 1 .. Depth /\ Jmp = cstack[j] /\ Jmp.th = L /\ Jmp \in Entry /\ Linked(cstack, j)
      /\ Depth \in Nat /\ Depth = Len(cstack) /\ cstack \in Seq(Entry) /\ Shape(cstack, ci)
      /\ ci[L] \in Seq(CallInfo)
      /\ \A i \in j + 1 .. Depth : cstack[i].c # "luaD_pcall"
  <2>1. \A i \in Setjmp + 1 .. Depth : cstack[i].c # "luaD_pcall"
    BY <1>2, SetjmpFacts DEF Inv, Protected
  <2> QED BY <2>1, <1>2, JmpRemembers DEF Inv, Shaped
<1>4. Called(cstack, ci, j)
  BY <1>3 DEF Shape
<1>5. a \in Nat /\ Jmp.gc \in BOOLEAN
  BY <1>1, <1>3, EntryFields
<1>6. a <= Size
  BY <1>3, <1>4 DEF Called, Size
<1>7. a \in 0 .. Size /\ Size \in Nat
  BY <1>3, <1>5, <1>6 DEF Size
<1>8. /\ frames \in Seq(CallInfo) /\ Len(frames) = a
      /\ \A p \in 1 .. a : frames[p] = ci[L][p]
  BY <1>3, <1>7, PrefixFacts DEF Size
<1>9. a > 0 => /\ Jmp.gc => ci[L][a].fn = "lua"
               /\ ~Jmp.gc => ci[L][a].fn # "lua" /\ ~ci[L][a].ypcall
  <2>1. j = 1 => a = 0
    BY <1>3 DEF Linked
  <2> QED BY <2>1, <1>1, <1>3, <1>4 DEF Called
<1> HIDE DEF j, frames, a
<1>10. /\ F2 \in Seq(CallInfo) /\ Len(F2) = a
       /\ \A p \in 1 .. a - 1 : F2[p] = ci[L][p]
       /\ a > 0 => ~InPCall(F2[a])
  <2>0. \A p \in 1 .. a - 1 : p \in 1 .. a
    BY <1>5 DEF a
  <2>1. CASE a = 0
    <3>1. F2 = frames
      BY <2>1, <1>8
    <3> QED BY <3>1, <2>0, <2>1, <1>8
  <2>2. CASE a > 0 /\ Jmp.gc
    <3>1. F2 = frames /\ a \in 1 .. a
      BY <2>2, <1>5 DEF a
    <3>2. F2[a] = ci[L][a] /\ ci[L][a].fn = "lua"
      BY <3>1, <2>2, <1>8, <1>9
    <3> HIDE DEF F2
    <3> QED BY <3>1, <3>2, <2>0, <1>8 DEF InPCall
  <2>3. CASE a > 0 /\ ~Jmp.gc
    <3> DEFINE fr == ci[L][a]
    <3>1. /\ frames # <<>> /\ a \in 1 .. a /\ Last(frames) = fr
      BY <2>3, <1>5, <1>8 DEF Last, a
    <3>2. F2 = SetTop(frames, "caught")
      BY <3>1, <2>3
    <3>3. fr \in CallInfo /\ fr.fn # "lua" /\ ~fr.ypcall
      <4>1. a \in 1 .. Size
        BY <1>7, <2>3
      <4>2. fr \in CallInfo
        BY <4>1, <1>3, <1>7 DEF Size
      <4> QED BY <4>2, <1>9, <2>3
    <3> HIDE DEF fr, F2
    <3>4. At(fr, "caught") \in CallInfo /\ At(fr, "caught").st = "caught"
      BY <3>3 DEF At, CallInfo, LuaStates, Resting
    <3>5. /\ SetTop(frames, "caught") \in Seq(CallInfo) /\ Len(SetTop(frames, "caught")) = a
          /\ SetTop(frames, "caught")[a] = At(fr, "caught")
          /\ \A p \in 1 .. a - 1 : SetTop(frames, "caught")[p] = frames[p]
      BY <3>4, <3>1, <1>8, SetTopFacts DEF At, fr
    <3> QED BY <3>2, <3>4, <3>5, <2>0, <1>8 DEF InPCall
  <2>4. a = 0 \/ a > 0
    BY <1>5 DEF a
  <2> QED BY <2>1, <2>2, <2>3, <2>4
<1> HIDE DEF F2
<1>11. cstack[j].c = "luaD_pcall" /\ cstack[j].ci = a /\ cstack[j].th = L
       /\ errfunc' = [errfunc EXCEPT ![L] = cstack[j].errfunc]
  BY <1>1, <1>3 DEF a
<1>12. /\ Len(F2) = cstack[j].ci /\ \A p \in 1 .. cstack[j].ci - 1 : F2[p] = ci[L][p]
       /\ cstack[j].ci > 0 => ~InPCall(F2[cstack[j].ci])
  BY <1>10, <1>11
<1>13. /\ j \in 1 .. Depth /\ \A i \in j + 1 .. Depth : cstack[i].c # "luaD_pcall"
       /\ F2 \in Seq(CallInfo)
  BY <1>3, <1>10
<1> QED BY <1>1, <1>2, <1>11, <1>12, <1>13, UnmarkHandled

-----------------------------------------------------------------------------
(* Every step keeps the message handlers: coroutines                       *)

LEMMA QuietMoves ==
    ASSUME Inv, Handled, cstack # <<>>, cstack' # <<>>, ci' \in [Thread -> Seq(CallInfo)],
           \A th \in Thread : \E k \in Nat : SameMarks(ci[th], ci'[th], k),
           \A th \in Thread : status'[th] # "error" => status[th] # "error",
           errfunc' = errfunc, \A th \in unstarted' : th \in unstarted /\ ci'[th] = ci[th],
           PCallsOf(cstack') = PCallsOf(cstack), OneCollects(cstack')
    PROVE  Handled'
<1>1. (cstack # <<>>) = TRUE /\ (cstack' # <<>>) = TRUE
  OBVIOUS
<1>2. /\ HandlersOf(PCallsOf(cstack), ci, errfunc, status, TRUE)
      /\ \A th \in unstarted : ~errfunc[th] /\ ci[th] = <<>>
  BY <1>1 DEF Handled
<1>3. PICK f2 \in [Thread -> Seq(CallInfo)] : f2 = ci'
  OBVIOUS
<1>4. PICK st2 : st2 = status'
  OBVIOUS
<1>5. HandlersOf(PCallsOf(cstack), f2, errfunc, st2, TRUE)
  BY <1>2, <1>3, <1>4, QuietStep DEF Inv
<1>6. HandlersOf(PCallsOf(cstack'), ci', errfunc', status', cstack' # <<>>)
  BY <1>1, <1>3, <1>4, <1>5
<1>7. \A th \in unstarted' : ~errfunc'[th] /\ ci'[th] = <<>>
  BY <1>2
<1> QED BY <1>6, <1>7 DEF Handled

LEMMA SameItself ==
    ASSUME NEW F \in Seq(CallInfo)
    PROVE  Len(F) \in Nat /\ SameMarks(F, F, Len(F))
<1>1. Len(F) \in Nat /\ \A n \in Len(F) + 1 .. Len(F) : FALSE
  OBVIOUS
<1> QED BY <1>1 DEF SameMarks

(* resume and wrap set no message handler.                                 *)
LEMMA ResumerTouched ==
    ASSUME NEW F \in Seq(CallInfo), F # <<>>, F[Len(F)].fn \in {"resume", "wrap"},
           NEW x \in Resting \cup {"in"}
    PROVE  /\ SetTop(F, x) \in Seq(CallInfo)
           /\ Len(F) \in Nat /\ SameMarks(F, SetTop(F, x), Len(F))
<1> DEFINE a == Len(F)
           fr == F[a]
           F2 == SetTop(F, x)
<1>1. a \in Nat /\ a \in 1 .. a /\ Last(F) = fr /\ fr \in CallInfo /\ a # a + 1
  BY DEF Last
<1>2. fr.fn \in {"resume", "wrap"}
  OBVIOUS
<1> HIDE DEF fr
<1>3. /\ [fr EXCEPT !.st = x] \in CallInfo /\ [fr EXCEPT !.st = x].fn = fr.fn
  BY <1>1, <1>2 DEF CallInfo, LuaStates, Resting
<1>4. /\ F2 \in Seq(CallInfo) /\ Len(F2) = a /\ F2[a] = [fr EXCEPT !.st = x]
      /\ \A p \in 1 .. a - 1 : F2[p] = F[p]
  BY <1>1, <1>3, SetTopFacts
<1> HIDE DEF F2
<1>5. ~InPCall(F2[a]) /\ ~InPCall(F[a]) /\ F2[a].fn = F[a].fn
  BY <1>2, <1>3, <1>4 DEF InPCall, fr
<1>6. Touches(F, F2, a)
  BY <1>1, <1>4, <1>5 DEF Touches
<1>7. SameMarks(F, F2, a)
  BY <1>6, TouchesSame
<1> QED BY <1>1, <1>4, <1>7 DEF F2

LEMMA LeaveHandled ==
    ASSUME Inv, Handled, cstack # <<>>, NEW j \in 1 .. Depth, cstack[j].c = "lua_resume",
           cstack[j].th = L, \A i \in j + 1 .. Depth : cstack[i].c # "luaD_pcall",
           NEW x \in Resting, NEW rest, rest = SubSeq(cstack, 1, j - 1), cstack' = rest,
           ci' = [ci EXCEPT ![Last(rest).th] = SetTop(@, x)],
           NEW new, status' = [status EXCEPT ![L] = new], UNCHANGED <<errfunc, unstarted>>
    PROVE  Handled'
<1> DEFINE k == j - 1
           q == cstack[k]
           from == q.th
           F2 == SetTop(ci[from], x)
<1>1. /\ Depth \in Nat /\ Depth = Len(cstack) /\ cstack \in Seq(Entry) /\ Shape(cstack, ci)
      /\ ci \in [Thread -> Seq(CallInfo)]
  BY DEF Inv, Shaped, StackTypes, Depth
<1>2. OneCollects(cstack)
  BY DEF Handled
<1>3. /\ PCallsOf(cstack') = PCallsOf(cstack) /\ OneCollects(cstack') /\ cstack' # <<>>
      /\ j > 1 /\ L # Main
  BY <1>2, ResumeStack
<1>4. Called(cstack, ci, j)
  BY <1>1 DEF Shape
<1>5. k \in Nat /\ k > 0 /\ k \in 1 .. Depth /\ k \in 0 .. Depth /\ k + 1 = j /\ k \in 1 .. k
  BY <1>1, <1>3
<1>6. q \in Entry /\ from \in Thread /\ q.ci \in Nat
  BY <1>1, <1>5, EntryFields
<1>7. Len(ci[from]) > q.ci /\ ci[from][Len(ci[from])].fn \in {"resume", "wrap"}
  BY <1>3, <1>4 DEF Called
<1>8. Last(rest) = q
  <2>1. Len(rest) = k /\ \A p \in 1 .. k : rest[p] = cstack[p]
    BY <1>1, <1>5, PrefixFacts
  <2> HIDE DEF k
  <2> QED BY <2>1, <1>5 DEF Last
<1>9. ci' = [ci EXCEPT ![from] = F2]
  BY <1>8
<1>10. ci[from] \in Seq(CallInfo) /\ ci[from] # <<>>
  <2>1. ci[from] \in Seq(CallInfo) /\ Len(ci[from]) # 0
    BY <1>1, <1>6, <1>7
  <2> QED BY <2>1, NotEmpty
<1>11. status[L] = "LUA_OK" /\ L \in Thread /\ from \notin unstarted /\ unstarted \subseteq Thread
  BY <1>1, <1>5, RunsOK DEF Inv, Threads, Fields, Thread
<1> HIDE DEF from, q, k
<1>12. F2 \in Seq(CallInfo) /\ Len(ci[from]) \in Nat /\ SameMarks(ci[from], F2, Len(ci[from]))
  BY <1>7, <1>10, ResumerTouched
<1> HIDE DEF F2
<1>13. ci' \in [Thread -> Seq(CallInfo)] /\ \A th \in Thread : ci'[th] = IF th = from THEN F2 ELSE ci[th]
  BY <1>1, <1>6, <1>9, <1>12
<1>14. ASSUME NEW th \in Thread PROVE \E n \in Nat : SameMarks(ci[th], ci'[th], n)
  <2>1. CASE th = from
    BY <2>1, <1>12, <1>13
  <2>2. CASE th # from
    <3>1. ci'[th] = ci[th] /\ ci[th] \in Seq(CallInfo)
      BY <2>2, <1>1, <1>13
    <3> QED BY <3>1, SameItself
  <2> QED BY <2>1, <2>2
<1>15. \A th \in Thread : status'[th] # "error" => status[th] # "error"
  BY <1>11 DEF Inv, Fields
<1>16. \A th \in unstarted' : th \in unstarted /\ ci'[th] = ci[th]
  BY <1>11, <1>13
<1> QED BY <1>3, <1>13, <1>14, <1>15, <1>16, QuietMoves

LEMMA CoroutineEndsHandled == ASSUME Inv, Handled, CoroutineEnds PROVE Handled'
<1> DEFINE rest == Front(cstack)
<1>1. /\ Unrolls /\ cstack' = rest
      /\ ci' = [ci EXCEPT ![Last(rest).th] = SetTop(@, "back")]
      /\ status' = [status EXCEPT ![L] = "LUA_OK"]
      /\ UNCHANGED <<errfunc, unstarted>>
  BY DEF CoroutineEnds, LeaveResume
<1>2. cstack # <<>> /\ Act.c = "lua_resume"
  BY <1>1, UnrollFacts DEF Inv
<1>3. /\ Depth \in 1 .. Depth /\ Depth = Len(cstack) /\ cstack[Depth].c = "lua_resume"
      /\ cstack \in Seq(Entry) /\ cstack[Depth].th = L /\ Depth \in Nat
  BY <1>2, ActFacts DEF Inv, Shaped, StackTypes, Depth
<1>4. rest = SubSeq(cstack, 1, Depth - 1)
  <2>1. SubSeq(cstack, 1, Depth) = cstack
    BY <1>3, WholeSequence
  <2> QED BY <2>1, <1>3, FrontPrefix
<1>5. \A i \in Depth + 1 .. Depth : cstack[i].c # "luaD_pcall"
  BY <1>3
<1>6. "back" \in Resting
  BY DEF Resting
<1> HIDE DEF rest
<1> QED BY <1>1, <1>2, <1>3, <1>4, <1>5, <1>6, LeaveHandled

LEMMA JmpLeavesHandled == ASSUME Inv, Handled, CoroutineFails \/ Yield PROVE Handled'
<1> DEFINE rest == SubSeq(cstack, 1, Setjmp - 1)
<1>1. \E x \in Resting, new \in {"error", "LUA_YIELD"} :
        /\ Jmp.c = "lua_resume" /\ cstack' = rest
        /\ ci' = [ci EXCEPT ![Last(rest).th] = SetTop(@, x)]
        /\ status' = [status EXCEPT ![L] = new]
        /\ UNCHANGED <<errfunc, unstarted>>
  <2>1. "back" \in Resting /\ "failed" \in Resting
    BY DEF Resting
  <2> QED BY <2>1 DEF CoroutineFails, Yield
<1>2. cstack # <<>>
  <2>1. raise = "throw" \/ Running
    BY DEF CoroutineFails, Yield, RunsC
  <2> QED BY <2>1, Raised DEF Inv, Running
<1>3. /\ Setjmp \in 1 .. Depth /\ cstack[Setjmp].c = "lua_resume" /\ cstack[Setjmp].th = L
      /\ \A i \in Setjmp + 1 .. Depth : cstack[i].c # "luaD_pcall"
  <2>1. /\ Setjmp \in 1 .. Depth /\ \A i \in Setjmp + 1 .. Depth : cstack[i].c \notin Protected
        /\ \A i \in Setjmp .. Depth : cstack[i].th = L
    BY <1>2, SetjmpFacts DEF Inv
  <2>2. Setjmp \in Setjmp .. Depth
    BY <2>1, <1>2, ActFacts DEF Inv
  <2> QED BY <2>1, <2>2, <1>1 DEF Jmp, Protected
<1>4. rest = SubSeq(cstack, 1, Setjmp - 1)
  OBVIOUS
<1> HIDE DEF rest
<1>5. PICK x \in Resting, new \in {"error", "LUA_YIELD"} :
        /\ cstack' = rest
        /\ ci' = [ci EXCEPT ![Last(rest).th] = SetTop(@, x)]
        /\ status' = [status EXCEPT ![L] = new]
        /\ UNCHANGED <<errfunc, unstarted>>
  BY <1>1
<1> QED BY <1>2, <1>3, <1>4, <1>5, LeaveHandled

LEMMA ResumedHandled ==
    ASSUME Inv, Handled, NEW co, Idle(co), EnterResume(co),
           NEW G \in Seq(CallInfo), NEW k \in Nat, SameMarks(ci[co], G, k),
           ci' = [ci EXCEPT ![L] = SetTop(@, "in"), ![co] = G],
           \A th \in unstarted' : th \in unstarted /\ th # co,
           NEW e \in Entry, e.c = "luaV_execute",
           \/ cstack' = Append(cstack, ResumeRecord(co))
           \/ cstack' = Append(Append(cstack, ResumeRecord(co)), e)
    PROVE  Handled'
<1> DEFINE r == ResumeRecord(co)
           c2 == Append(cstack, r)
           c3 == Append(c2, e)
           F2 == SetTop(ci[L], "in")
<1>1. /\ Running /\ Top.fn \in {"resume", "wrap"} /\ cstack # <<>> /\ ci[L] # <<>>
      /\ Top = ci[L][Len(ci[L])]
  BY DEF EnterResume, Resumes, Running, Top, Last
<1>2. /\ c2 \in Seq(Entry) /\ Len(c2) = Depth + 1 /\ status' = [status EXCEPT ![co] = "LUA_OK"]
      /\ errfunc' = errfunc /\ L # co /\ L \in Thread /\ co \in Thread /\ Depth \in Nat
  BY ResumeCounts
<1>3. r \in Entry /\ r.c = "lua_resume"
  <2>1. c2[Depth + 1] = r /\ Depth + 1 \in 1 .. Len(c2)
    BY <1>2 DEF Inv, Shaped, StackTypes, Depth
  <2>2. r.c = "lua_resume"
    BY DEF ResumeRecord
  <2> QED BY <1>2, <2>1, <2>2
<1>4. cstack \in Seq(Entry) /\ OneCollects(cstack) /\ ci \in [Thread -> Seq(CallInfo)]
      /\ status \in [Thread -> {"LUA_OK", "LUA_YIELD", "error"}]
  BY DEF Inv, Shaped, StackTypes, Handled, Fields
<1>5. F2 \in Seq(CallInfo) /\ Len(ci[L]) \in Nat /\ SameMarks(ci[L], F2, Len(ci[L]))
  BY <1>1, <1>2, <1>4, ResumerTouched
<1> HIDE DEF r, F2
<1>6. PCallsOf(c2) = PCallsOf(cstack) /\ OneCollects(c2) /\ c2 # <<>>
  <2>1. Len(c2) # 0
    BY <1>2
  <2>2. PCallsOf(c2) = PCallsOf(cstack) /\ OneCollects(c2)
    BY <1>3, <1>4, PCallsPush DEF CollectsAt
  <2> HIDE DEF c2
  <2> QED BY <2>1, <2>2, NotEmpty
<1> HIDE DEF c2
<1>7. PCallsOf(c3) = PCallsOf(c2) /\ OneCollects(c3) /\ c3 # <<>>
  <2>1. Len(c3) = Len(c2) + 1 /\ Len(c2) \in Nat
    BY <1>2
  <2>2. PCallsOf(c3) = PCallsOf(c2) /\ OneCollects(c3)
    BY <1>2, <1>6, PCallsPush DEF CollectsAt
  <2>3. Len(c3) # 0
    BY <2>1
  <2> HIDE DEF c3
  <2> QED BY <2>2, <2>3, NotEmpty
<1> HIDE DEF c3
<1>8. PCallsOf(cstack') = PCallsOf(cstack) /\ OneCollects(cstack') /\ cstack' # <<>>
  <2>1. cstack' = c2 \/ cstack' = c3
    BY DEF c2, c3, r
  <2> QED BY <2>1, <1>6, <1>7
<1>9. /\ ci' \in [Thread -> Seq(CallInfo)] /\ ci'[L] = F2 /\ ci'[co] = G
      /\ \A th \in Thread : th # L /\ th # co => ci'[th] = ci[th]
  <2>1. ci' = [ci EXCEPT ![L] = F2, ![co] = G]
    BY DEF F2
  <2> QED BY <2>1, <1>2, <1>4, <1>5
<1>10. ASSUME NEW th \in Thread PROVE \E n \in Nat : SameMarks(ci[th], ci'[th], n)
  <2>1. CASE th = L
    BY <2>1, <1>5, <1>9
  <2>2. CASE th = co
    BY <2>2, <1>9
  <2>3. CASE th # L /\ th # co
    <3>1. ci'[th] = ci[th] /\ ci[th] \in Seq(CallInfo)
      BY <2>3, <1>4, <1>9
    <3> QED BY <3>1, SameItself
  <2> QED BY <2>1, <2>2, <2>3
<1>11. \A th \in Thread : status'[th] # "error" => status[th] # "error"
  <2>1. status[co] # "error"
    BY DEF Idle
  <2> QED BY <2>1, <1>2, <1>4
<1>12. \A th \in unstarted' : th \in unstarted /\ ci'[th] = ci[th]
  <2>1. L \notin unstarted /\ unstarted \subseteq Thread
    BY <1>1, RunsOK DEF Inv, Fields, Thread
  <2> QED BY <2>1, <1>9
<1> QED BY <1>1, <1>2, <1>8, <1>9, <1>10, <1>11, <1>12, QuietMoves

LEMMA ContinueCoroutineHandled == ASSUME Inv, Handled, ContinueCoroutine PROVE Handled'
<1>1. PICK co \in Co : /\ status[co] = "LUA_YIELD" /\ EnterResume(co)
                       /\ ci' = [ci EXCEPT ![L] = SetTop(@, "in"), ![co] = Front(@)]
                       /\ cstack' = Append(cstack, ResumeRecord(co)) /\ unstarted' = unstarted
  BY DEF ContinueCoroutine
<1>2. Idle(co) /\ co \notin unstarted /\ Suspended(ci, co) /\ co \in Thread
  BY <1>1 DEF Inv, Threads, Idle, EnterResume, Resumes, Running, Depth, Thread
<1>3. L # co /\ L \in Thread /\ ci[co] \in Seq(CallInfo) /\ ci \in [Thread -> Seq(CallInfo)]
  BY <1>1, <1>2, ResumeCounts DEF Inv, Shaped, StackTypes
<1> DEFINE F == ci[co]
           G == Front(F)
           k == Len(F) - 1
           e == [c |-> "luaV_execute", th |-> co, ci |-> 0]
<1>4. F # <<>> /\ F[Len(F)].fn = "yield" /\ F \in Seq(CallInfo)
  BY <1>2, <1>3 DEF Suspended
<1>5. ci' = [ci EXCEPT ![L] = SetTop(@, "in"), ![co] = G]
  BY <1>1, <1>3
<1> HIDE DEF F
<1>6. G \in Seq(CallInfo) /\ Len(G) = Len(F) - 1 /\ \A p \in 1 .. Len(F) - 1 : G[p] = F[p]
  BY <1>4, FrontFacts
<1> HIDE DEF G
<1>7. Len(F) \in Nat /\ Len(F) > 0
  BY <1>4
<1>8. k \in Nat /\ Len(F) = k + 1 /\ Len(G) = k /\ \A p \in 1 .. k : G[p] = F[p]
  BY <1>6, <1>7
<1> HIDE DEF k
<1>9. SameMarks(F, G, k)
  <2>1. /\ k <= Len(F) /\ k <= Len(G) /\ \A n \in k + 1 .. Len(G) : FALSE
        /\ \A n \in k + 1 .. Len(F) : n = Len(F)
    BY <1>8
  <2>2. ~InPCall(F[Len(F)]) /\ F[Len(F)].st # "out"
    <3>1. F[Len(F)] \in CallInfo
      BY <1>4, <1>7
    <3> QED BY <3>1, <1>4 DEF InPCall, CallInfo, LuaStates
  <2> QED BY <2>1, <2>2, <1>8 DEF SameMarks
<1>10. e \in Entry /\ e.c = "luaV_execute"
  BY <1>2 DEF Entry
<1> HIDE DEF e
<1>11. \A th \in unstarted' : th \in unstarted /\ th # co
  BY <1>1, <1>2
<1>12. SameMarks(ci[co], G, k)
  BY <1>9 DEF F
<1> QED BY <1>1, <1>2, <1>5, <1>6, <1>8, <1>10, <1>11, <1>12, ResumedHandled

LEMMA StartCoroutineHandled == ASSUME Inv, Handled, StartCoroutine PROVE Handled'
<1>1. PICK co \in {c \in unstarted : MaxFrames[c] > 0}, fn \in Fns :
        /\ EnterResume(co)
        /\ unstarted' = unstarted \ {co}
        /\ ci' = [ci EXCEPT ![L] = SetTop(@, "in"),
                            ![co] = <<[Frame(fn) EXCEPT !.fresh = fn = "lua"]>>]
        /\ cstack' = IF fn = "lua" THEN Append(Append(cstack, ResumeRecord(co)),
                                               [c |-> "luaV_execute", th |-> co, ci |-> 0])
                     ELSE Append(cstack, ResumeRecord(co))
  BY DEF StartCoroutine
<1> DEFINE fr == [Frame(fn) EXCEPT !.fresh = fn = "lua"]
           G == <<fr>>
           e == [c |-> "luaV_execute", th |-> co, ci |-> 0]
<1>2. co \in unstarted /\ co \in Co /\ co \in Thread /\ ci[co] = <<>> /\ fn \in Functions
  BY <1>1, FnsFacts DEF Inv, Fields, Handled, Thread
<1>3. Idle(co)
  <2>1. \A i \in 1 .. Depth : cstack[i].th # co
    BY <1>2 DEF Inv, Threads, Depth
  <2>2. status[co] # "error"
    BY <1>2 DEF Inv, Threads
  <2> QED BY <2>1, <2>2, <1>2 DEF Idle
<1>4. /\ fr \in CallInfo /\ fr.fn = fn /\ (fn = "lua" => fr.st = "run") /\ (fn # "lua" => fr.st = "start")
  BY <1>2, FrameType
<1>5. e \in Entry /\ e.c = "luaV_execute"
  BY <1>2 DEF Entry
<1> HIDE DEF fr
<1>6. ~InPCall(fr)
  BY <1>4 DEF InPCall
<1>7. G \in Seq(CallInfo) /\ Len(G) = 1 /\ G[1] = fr
  BY <1>4
<1>8. ci' = [ci EXCEPT ![L] = SetTop(@, "in"), ![co] = G]
  BY <1>1 DEF fr
<1>9. cstack' = Append(cstack, ResumeRecord(co)) \/ cstack' = Append(Append(cstack, ResumeRecord(co)), e)
  BY <1>1
<1> HIDE DEF G, e
<1>10. SameMarks(ci[co], G, 0)
  <2>1. Len(ci[co]) = 0 /\ \A n \in 1 .. 0 : FALSE
    BY <1>2
  <2>2. 0 <= Len(ci[co]) /\ 0 <= Len(G)
    BY <2>1, <1>7
  <2>3. /\ \A n \in 0 + 1 .. Len(ci[co]) : FALSE
        /\ \A n \in 0 + 1 .. Len(G) : n = 1
    BY <1>7, <2>1
  <2> QED BY <2>1, <2>2, <2>3, <1>6, <1>7 DEF SameMarks
<1>11. \A th \in unstarted' : th \in unstarted /\ th # co
  BY <1>1
<1>12. PICK z \in Nat : z = 0
  OBVIOUS
<1>13. SameMarks(ci[co], G, z)
  BY <1>10, <1>12
<1> QED BY <1>1, <1>3, <1>5, <1>7, <1>8, <1>9, <1>11, <1>13, ResumedHandled

-----------------------------------------------------------------------------
(* Every step keeps the message handlers: protected calls and finalizers   *)

(* The frame on top becomes F[Size] and cs the C stack before luaD_call.   *)
Begins(F, cs, b) ==
    /\ Running /\ F \in Seq(CallInfo) /\ Len(F) = Size /\ \A p \in 1 .. Size - 1 : F[p] = ci[L][p]
    /\ ~InPCall(Top) /\ Top.st # "out" /\ b = (F[Size].fn = "xpcall")
    /\ F[Size].ypcall => F[Size].old_errfunc = errfunc[L]
    /\ \/ cs = cstack /\ InPCall(F[Size])
       \/ cs = Append(cstack, PCall(FALSE)) /\ InPCall(F[Size])
       \/ /\ cs = Append(cstack, PCall(TRUE))
          /\ \A i \in DOMAIN cstack : cstack[i].c = "luaD_pcall" => ~cstack[i].gc

LEMMA BeginsPushed ==
    ASSUME Inv, Handled, Running, NEW gc \in BOOLEAN,
           gc => \A i \in DOMAIN cstack : cstack[i].c = "luaD_pcall" => ~cstack[i].gc,
           NEW cs, cs = Append(cstack, PCall(gc))
    PROVE  /\ cs \in Seq(Entry) /\ OneCollects(cs) /\ PCallsOf(cs) \in SUBSET Entry
           /\ PCallsOf(cstack) \subseteq PCallsOf(cs)
           /\ \A r \in PCallsOf(cs) : \/ r \in PCallsOf(cstack)
                                      \/ r.th = L /\ r.ci = Size /\ r.errfunc = errfunc[L]
           /\ gc => Collects(PCallsOf(cs), L, Size)
<1> DEFINE p == PCall(gc)
<1>1. L \in Thread /\ Size \in Nat /\ cstack \in Seq(Entry) /\ OneCollects(cstack)
  BY ActFacts DEF Running, Inv, Shaped, StackTypes, Handled, Size
<1>2. /\ p \in Entry /\ p.c = "luaD_pcall" /\ p.th = L /\ p.ci = Size /\ p.gc = gc
  BY <1>1, InvType, PCallType
<1>3. p.errfunc = errfunc[L]
  BY DEF PCall
<1> HIDE DEF p
<1>4. cs = Append(cstack, p)
  BY DEF p
<1>5. PCallsOf(cs) = PCallsOf(cstack) \cup {p}
  BY <1>1, <1>2, <1>4, PCallsPush
<1>6. cs \in Seq(Entry)
  BY <1>1, <1>2, <1>4
<1>7. OneCollects(cs)
  <2>1. CASE gc
    <3>1. \A i \in 1 .. Len(cstack) : ~CollectsAt(cstack[i])
      BY <2>1, <1>1 DEF CollectsAt
    <3> QED BY <3>1, <1>1, <1>2, <1>4, PCallsPush
  <2>2. CASE ~gc
    <3>1. ~CollectsAt(p)
      BY <2>2, <1>2 DEF CollectsAt
    <3> QED BY <3>1, <1>1, <1>2, <1>4, PCallsPush
  <2> QED BY <2>1, <2>2
<1>8. PCallsOf(cs) \in SUBSET Entry
  BY DEF PCallsOf
<1>9. gc => Collects(PCallsOf(cs), L, Size)
  BY <1>2, <1>5 DEF Collects
<1> QED BY <1>2, <1>3, <1>5, <1>6, <1>7, <1>8, <1>9

LEMMA BeginsHandled ==
    ASSUME Inv, Handled, NEW F, NEW cs, NEW b, Begins(F, cs, b), NEW noyield \in BOOLEAN,
           NEW fn \in Functions, Call(F, cs, noyield, "function", fn),
           errfunc' = [errfunc EXCEPT ![L] = b]
    PROVE  Handled'
<1> DEFINE R == PCallsOf(cstack)
           R2 == PCallsOf(cs)
<1>1. /\ Running /\ F \in Seq(CallInfo) /\ Len(F) = Size /\ \A p \in 1 .. Size - 1 : F[p] = ci[L][p]
      /\ ~InPCall(Top) /\ Top.st # "out" /\ b = (F[Size].fn = "xpcall")
      /\ F[Size].ypcall => F[Size].old_errfunc = errfunc[L]
  BY DEF Begins
<1>2. /\ L \in Thread /\ Size \in Nat /\ Size > 0 /\ Size = Len(ci[L]) /\ Top = ci[L][Size]
      /\ cstack \in Seq(Entry) /\ OneCollects(cstack) /\ cstack # <<>> /\ Shaped
      /\ status[L] # "error" /\ L \notin unstarted
      /\ HandlersOf(R, ci, errfunc, status, cstack # <<>>)
      /\ \A th \in unstarted : ~errfunc[th] /\ ci[th] = <<>>
      /\ ci \in [Thread -> Seq(CallInfo)] /\ errfunc \in [Thread -> BOOLEAN]
      /\ unstarted \subseteq Thread
  BY <1>1, ActFacts, TopFacts, RunsOK DEF Running, Inv, Fields, Shaped, StackTypes, Handled, Size, Thread
<1>3. R \in SUBSET Entry
  BY DEF PCallsOf
<1>4. ~Marked(R, ci[L], L, Size)
  BY <1>1, <1>2, MarkedFrames
<1> HIDE DEF R
<1>5. /\ cs \in Seq(Entry) /\ OneCollects(cs) /\ R2 \in SUBSET Entry /\ R \subseteq R2
      /\ \A r \in R2 : r \in R \/ (r.th = L /\ r.ci = Size /\ r.errfunc = errfunc[L])
      /\ InPCall(F[Size]) \/ Collects(R2, L, Size)
  <2>1. CASE cs = cstack /\ InPCall(F[Size])
    BY <2>1, <1>2, <1>3 DEF R
  <2>2. CASE cs = Append(cstack, PCall(FALSE)) /\ InPCall(F[Size])
    <3>1. PICK gc \in BOOLEAN : gc = FALSE
      OBVIOUS
    <3> QED BY <2>2, <3>1, <1>1, BeginsPushed DEF R
  <2>3. CASE /\ cs = Append(cstack, PCall(TRUE))
             /\ \A i \in DOMAIN cstack : cstack[i].c = "luaD_pcall" => ~cstack[i].gc
    <3>1. PICK gc \in BOOLEAN : gc = TRUE
      OBVIOUS
    <3> QED BY <2>3, <3>1, <1>1, BeginsPushed DEF R
  <2> QED BY <2>1, <2>2, <2>3 DEF Begins
<1>6. PICK F2 \in Seq(CallInfo) : ci' = [ci EXCEPT ![L] = F2] /\ Extends(F2, F)
  BY <1>1, <1>2, <1>5, CallParts
<1>7. /\ PCallsOf(cstack') = R2 /\ OneCollects(cstack') /\ cstack' # <<>>
      /\ status' = status /\ unstarted' = unstarted
  BY <1>1, <1>2, <1>5, CallParts
<1> HIDE DEF R2
<1>8. Marks(L, R2, F2, Size, b)
  <2>1. /\ \A p \in 1 .. Size : F2[p] = F[p]
        /\ Len(F2) = Size \/ (Len(F2) = Size + 1 /\ ~InPCall(F2[Size + 1]))
    BY <1>1, <1>6 DEF Extends
  <2>2. Size \in 1 .. Size /\ \A p \in 1 .. Size - 1 : p \in 1 .. Size
    BY <1>2
  <2>3. F2[Size] = F[Size] /\ \A p \in 1 .. Size - 1 : F2[p] = ci[L][p]
    BY <2>1, <2>2, <1>1
  <2>4. Marked(R2, F2, L, Size)
    BY <2>3, <1>5 DEF Marked
  <2> QED BY <2>1, <2>3, <2>4, <1>1, <1>2, <1>3, <1>4, <1>5, <1>6 DEF Marks, R
<1>9. (cstack # <<>>) = TRUE /\ (cstack' # <<>>) = TRUE
  BY <1>2, <1>7
<1>10. HandlersOf(R2, [ci EXCEPT ![L] = F2], [errfunc EXCEPT ![L] = b], status, TRUE)
  <2>1. HandlersOf(PCallsOf(cstack), ci, errfunc, status, TRUE)
    BY <1>2, <1>9 DEF R
  <2> QED BY <2>1, <1>2, <1>8, MarkStep
<1>11. HandlersOf(PCallsOf(cstack'), ci', errfunc', status', cstack' # <<>>)
  BY <1>6, <1>7, <1>9, <1>10
<1>12. \A th \in unstarted' : ~errfunc'[th] /\ ci'[th] = <<>>
  <2>1. \A th \in unstarted : th # L /\ errfunc'[th] = errfunc[th] /\ ci'[th] = ci[th]
    BY <1>2, <1>6
  <2> QED BY <2>1, <1>2, <1>7
<1> QED BY <1>7, <1>11, <1>12 DEF Handled

LEMMA FinalizerHandled == ASSUME Inv, Handled, Finalizer PROVE Handled'
<1>1. /\ Running /\ Top.fn = "lua" /\ Top.st = "run"
      /\ \A i \in DOMAIN cstack : cstack[i].c = "luaD_pcall" => ~cstack[i].gc
      /\ errfunc' = [errfunc EXCEPT ![L] = FALSE]
      /\ Call(SetTop(ci[L], "out"), Append(cstack, PCall(TRUE)), TRUE, "function", "lua")
  BY DEF Finalizer, RunsLua
<1>2. Top \in CallInfo /\ "out" \in LuaStates /\ "lua" \in Functions
  BY <1>1, TopFacts, FnsFacts DEF Inv, LuaStates
<1>3. ~Top.ypcall
  BY <1>1, <1>2, FrameFields
<1> DEFINE F == SetTop(ci[L], "out")
           cs == Append(cstack, PCall(TRUE))
<1>4. /\ F \in Seq(CallInfo) /\ Len(F) = Size /\ \A p \in 1 .. Size - 1 : F[p] = ci[L][p]
      /\ F[Size].fn = "lua" /\ ~F[Size].ypcall
  BY <1>1, <1>2, <1>3, TopSet DEF Inv
<1> HIDE DEF F
<1>5. PICK b : b = FALSE
  OBVIOUS
<1>6. b = (F[Size].fn = "xpcall") /\ ~InPCall(Top)
  BY <1>1, <1>4, <1>5 DEF InPCall
<1>7. Begins(F, cs, b)
  BY <1>1, <1>4, <1>6 DEF Begins
<1>8. Call(F, cs, TRUE, "function", "lua")
  BY <1>1 DEF F
<1> HIDE DEF cs
<1>9. PICK noyield \in BOOLEAN, fn \in Functions : Call(F, cs, noyield, "function", fn)
  BY <1>2, <1>8
<1> QED BY <1>1, <1>5, <1>7, <1>9, BeginsHandled

LEMMA PCallKHandled == ASSUME Inv, Handled, PCallK PROVE Handled'
<1>1. Running /\ Top.fn \in {"pcall", "xpcall"} /\ Top.st = "start"
      /\ errfunc' = [errfunc EXCEPT ![L] = Top.fn = "xpcall"]
  BY DEF PCallK, RunsC
<1>2. Top \in CallInfo /\ L \in Thread /\ cstack # <<>> /\ errfunc \in [Thread -> BOOLEAN]
      /\ nny[L] \in Nat /\ Fns \subseteq Functions
  BY <1>1, TopFacts, ActFacts, FnsFacts DEF Inv, Fields
<1>3. ~Top.ypcall /\ ~InPCall(Top)
  BY <1>1, <1>2, FrameFields DEF InPCall
<1>4. \E fn \in Fns :
         \/ /\ nny[L] > 0
            /\ Call(SetTop(ci[L], "in"), Append(cstack, PCall(FALSE)), TRUE, "function", fn)
         \/ /\ nny[L] = 0
            /\ Call(Append(Front(ci[L]),
                           [Top EXCEPT !.st = "in", !.ypcall = TRUE, !.old_errfunc = errfunc[L],
                                       !.oah = allowhook[L]]),
                    cstack, FALSE, "function", fn)
  BY Zenon DEF PCallK
<1>5. PICK b : b = (Top.fn = "xpcall")
  OBVIOUS
<1>6. errfunc' = [errfunc EXCEPT ![L] = b]
  BY <1>1, <1>5
<1>7. CASE nny[L] > 0
  <2>1. nny[L] # 0
    BY <1>7
  <2> DEFINE F == SetTop(ci[L], "in")
             cs == Append(cstack, PCall(FALSE))
  <2>2. /\ F \in Seq(CallInfo) /\ Len(F) = Size /\ \A p \in 1 .. Size - 1 : F[p] = ci[L][p]
        /\ F[Size].fn = Top.fn /\ F[Size].st = "in" /\ ~F[Size].ypcall
    BY <1>1, <1>2, <1>3, TopSet DEF Inv
  <2>3. \E fn \in Fns : Call(F, cs, TRUE, "function", fn)
    BY <2>1, <1>4, Zenon
  <2> HIDE DEF F
  <2>4. InPCall(F[Size]) /\ b = (F[Size].fn = "xpcall")
    BY <2>2, <1>1, <1>5 DEF InPCall
  <2>5. Begins(F, cs, b)
    BY <2>2, <2>4, <1>1, <1>3 DEF Begins
  <2> HIDE DEF cs
  <2>6. PICK noyield \in BOOLEAN, fn \in Functions : Call(F, cs, noyield, "function", fn)
    BY <2>3, <1>2
  <2> QED BY <2>5, <2>6, <1>6, BeginsHandled
<1>8. CASE nny[L] = 0
  <2>1. ~(nny[L] > 0)
    BY <1>8
  <2> DEFINE fr == [Top EXCEPT !.st = "in", !.ypcall = TRUE, !.old_errfunc = errfunc[L],
                               !.oah = allowhook[L]]
             F == Append(Front(ci[L]), fr)
  <2>2. fr \in CallInfo /\ fr.fn = Top.fn /\ fr.st = "in" /\ fr.old_errfunc = errfunc[L]
    <3>1. allowhook[L]
      BY <1>2, <1>8, HooksMayRun DEF Inv
    <3>2. errfunc[L] \in BOOLEAN
      BY <1>2
    <3> QED BY <3>1, <3>2, <1>1, <1>2 DEF CallInfo, LuaStates, Resting
  <2>3. \E fn \in Fns : Call(F, cstack, FALSE, "function", fn)
    BY <2>1, <1>4, Zenon
  <2> HIDE DEF fr
  <2>4. /\ F \in Seq(CallInfo) /\ Len(F) = Size /\ \A p \in 1 .. Size - 1 : F[p] = ci[L][p]
        /\ F[Size] = fr
    BY <2>2, <1>1, TopReplaced DEF Inv
  <2> HIDE DEF F
  <2>5. InPCall(F[Size]) /\ b = (F[Size].fn = "xpcall") /\ F[Size].old_errfunc = errfunc[L]
    BY <2>2, <2>4, <1>1, <1>5 DEF InPCall
  <2>6. Begins(F, cstack, b)
    BY <2>4, <2>5, <1>1, <1>3 DEF Begins
  <2>7. PICK noyield \in BOOLEAN, fn \in Functions : Call(F, cstack, noyield, "function", fn)
    BY <2>3, <1>2
  <2> QED BY <2>6, <2>7, <1>6, BeginsHandled
<1> QED BY <1>2, <1>7, <1>8

-----------------------------------------------------------------------------
(* The message handler is that of the innermost call                       *)

LEMMA DoCallHandled == ASSUME Inv, Handled, DoCall PROVE Handled'
<1> DEFINE q == [c |-> "luaD_pcall", th |-> Main, gc |-> FALSE, ci |-> 0, nCcalls |-> 0, nny |-> 1,
                 errfunc |-> FALSE, allowhook |-> TRUE]
           d == [c |-> "luaD_call", th |-> Main, ci |-> 0, noyield |-> TRUE, caller |-> "function"]
           e == [c |-> "luaV_execute", th |-> Main, ci |-> 0]
           fr == [Frame("lua") EXCEPT !.fresh = TRUE]
           f2 == [ci EXCEPT ![Main] = <<fr>>]
           ef2 == [errfunc EXCEPT ![Main] = TRUE]
           c3 == <<q, d, e>>
           R2 == PCallsOf(c3)
           R == PCallsOf(cstack)
<1>1. /\ cstack = <<>> /\ cstack' = c3 /\ ci' = f2 /\ errfunc' = ef2
      /\ status' = status /\ unstarted' = unstarted
  BY DEF DoCall
<1>2. /\ q \in Entry /\ d \in Entry /\ e \in Entry /\ Main \in Thread
  BY DEF Entry, Thread
<1>3. q.ci = 0 /\ ~q.gc /\ d.c # "luaD_pcall" /\ e.c # "luaD_pcall"
  OBVIOUS
<1>4. fr \in CallInfo /\ fr.fn = "lua"
  BY DEF Frame, CallInfo, LuaStates, Resting, Functions
<1> HIDE DEF q, d, e, fr
<1>5. /\ ci \in [Thread -> Seq(CallInfo)] /\ errfunc \in [Thread -> BOOLEAN] /\ unstarted \subseteq Co
      /\ HandlersOf(R, ci, errfunc, status, FALSE)
      /\ \A th \in unstarted : ~errfunc[th] /\ ci[th] = <<>>
  <2>1. (cstack # <<>>) = FALSE
    BY <1>1
  <2> QED BY <2>1 DEF Inv, Fields, Shaped, StackTypes, Handled
<1>6. Len(c3) = 3 /\ \A i \in 1 .. 3 : c3[i] \in {q, d, e}
  BY <1>2, ThreePushed
<1> HIDE DEF c3
<1>7. \A r \in R2 : r = q
  BY <1>3, <1>6 DEF PCallsOf
<1>8. \A r \in R : FALSE
  <2>1. Len(cstack) = 0
    BY <1>1
  <2> QED BY <2>1 DEF PCallsOf
<1>9. OneCollects(c3)
  <2>1. \A i \in 1 .. 3 : ~CollectsAt(c3[i])
    BY <1>3, <1>6 DEF CollectsAt
  <2> QED BY <2>1, <1>6 DEF OneCollects
<1> HIDE DEF R, R2
<1>10. \A th, n : ~Collects(R, th, n) /\ ~Collects(R2, th, n)
  BY <1>3, <1>7, <1>8 DEF Collects
<1>11. /\ f2[Main] = <<fr>> /\ ef2[Main] = TRUE
       /\ \A th \in Thread : th # Main => f2[th] = ci[th] /\ ef2[th] = errfunc[th]
  BY <1>2, <1>5
<1>12. Len(<<fr>>) = 1 /\ <<fr>>[1] = fr
  OBVIOUS
<1> HIDE DEF f2, ef2
<1>13. ~InPCall(fr) /\ ~fr.ypcall
  BY <1>4, FrameFields DEF InPCall
<1>14. ASSUME NEW th \in Thread, th # Main, NEW m \in Nat, NEW b, Handles(R, ci[th], th, m, b)
       PROVE  Handles(R2, f2[th], th, m, b)
  <2>1. Agree(R, ci[th], R2, f2[th], th, m)
    BY <1>10, <1>11, <1>14 DEF Agree, Marked
  <2>2. m \in 0 .. m
    OBVIOUS
  <2> QED BY <2>1, <2>2, <1>14, AgreeHandles
<1>15. ASSUME NEW th \in Thread, status[th] # "error"
       PROVE  Handles(R2, f2[th], th, Len(f2[th]), ef2[th])
  <2>1. CASE th = Main
    <3>1. \A n \in 1 .. 1 : ~Marked(R2, <<fr>>, th, n)
      BY <1>10, <1>12, <1>13 DEF Marked
    <3> QED BY <3>1, <2>1, <1>11, <1>12 DEF Handles
  <2>2. CASE th # Main
    <3>1. Handles(R, ci[th], th, Len(ci[th]), errfunc[th]) /\ Len(ci[th]) \in Nat
      BY <2>2, <1>5, <1>15 DEF HandlersOf
    <3>2. f2[th] = ci[th] /\ ef2[th] = errfunc[th]
      BY <2>2, <1>11
    <3>3. Handles(R2, f2[th], th, Len(ci[th]), errfunc[th])
      BY <3>1, <2>2, <1>14
    <3> QED BY <3>2, <3>3
  <2> QED BY <2>1, <2>2
<1>16. ASSUME NEW th \in Thread, status[th] # "error", NEW p \in 1 .. Len(f2[th]), f2[th][p].ypcall
       PROVE  Handles(R2, f2[th], th, p - 1, f2[th][p].old_errfunc)
  <2>1. th # Main
    <3>1. ASSUME th = Main PROVE FALSE
      <4>1. p = 1
        BY <3>1, <1>11, <1>12
      <4> QED BY <4>1, <3>1, <1>11, <1>12, <1>13, <1>16
    <3> QED BY <3>1
  <2>2. f2[th] = ci[th]
    BY <2>1, <1>11
  <2>3. p \in 1 .. Len(ci[th]) /\ ci[th][p].ypcall
    BY <2>2, <1>16
  <2>4. Handles(R, ci[th], th, p - 1, ci[th][p].old_errfunc)
    BY <2>3, <1>5, <1>16 DEF HandlersOf
  <2>5. p - 1 \in Nat
    OBVIOUS
  <2>6. Handles(R2, f2[th], th, p - 1, ci[th][p].old_errfunc)
    BY <2>1, <2>4, <2>5, <1>14
  <2> QED BY <2>2, <2>6
<1>17. \A r \in R2 : ~(r.ci > 0)
  BY <1>3, <1>7
<1>18. HandlersOf(R2, f2, ef2, status, TRUE)
  BY <1>15, <1>16, <1>17 DEF HandlersOf
<1>19. c3 # <<>>
  BY <1>6, NotEmpty
<1>20. \A th \in unstarted : ~ef2[th] /\ f2[th] = <<>>
  BY <1>5, <1>11, CallsAssumption DEF Thread
<1>21. (cstack' # <<>>) = TRUE
  BY <1>1, <1>19
<1>22. HandlersOf(PCallsOf(cstack'), ci', errfunc', status', cstack' # <<>>)
  BY <1>1, <1>18, <1>21 DEF R2
<1> QED BY <1>1, <1>9, <1>20, <1>21, <1>22 DEF Handled

LEMMA HandledInit == Init => Handled
<1> SUFFICES ASSUME Init PROVE Handled
  OBVIOUS
<1>1. /\ ci = [th \in Thread |-> <<>>] /\ errfunc = [th \in Thread |-> FALSE]
      /\ unstarted = Co /\ cstack = <<>> /\ Main \in Thread /\ Co \subseteq Thread
  BY DEF Init, Thread
<1>2. Len(cstack) = 0 /\ (cstack # <<>>) = FALSE
  BY <1>1
<1>3. \A r \in PCallsOf(cstack) : FALSE
  BY <1>2 DEF PCallsOf
<1>4. \A th \in Thread : ci[th] = <<>> /\ Len(ci[th]) = 0 /\ errfunc[th] = FALSE
  BY <1>1
<1>5. ASSUME NEW th \in Thread, th # Main
      PROVE  Handles(PCallsOf(cstack), ci[th], th, Len(ci[th]), errfunc[th])
  <2>1. errfunc[th] = FALSE /\ (th = Main) = FALSE
    BY <1>4, <1>5
  <2>2. errfunc[th] = (th = Main)
    BY <2>1, Zenon
  <2>3. \A m \in 1 .. Len(ci[th]) : FALSE
    BY <1>4
  <2> QED BY <2>2, <2>3 DEF Handles
<1>6. HandlersOf(PCallsOf(cstack), ci, errfunc, status, FALSE)
  BY <1>3, <1>4, <1>5 DEF HandlersOf
<1>7. OneCollects(cstack)
  BY <1>2 DEF OneCollects
<1> QED BY <1>1, <1>2, <1>4, <1>6, <1>7 DEF Handled

LEMMA HandledNext == ASSUME Inv, Handled, Next PROVE Handled'
<1>1. CASE DoCall
  BY <1>1, DoCallHandled
<1>2. CASE CallTM \/ Hook \/ CallK \/ LuaCall \/ (ErrorMsg /\ errfunc[L])
  BY <1>2, CallsHandled
<1>3. CASE OpCall \/ MemoryError \/ RaiseError \/ ResumeRefused \/ (ErrorMsg /\ ~errfunc[L])
  BY <1>3, StepsHandled
<1>4. CASE Finalizer
  BY <1>4, FinalizerHandled
<1>5. CASE PCallK
  BY <1>5, PCallKHandled
<1>6. CASE ReturnToLua \/ ReturnToResume
  BY <1>6, ReturnsHandled
<1>7. CASE MetamethodEnds \/ HookEnds \/ HandlerEnds
  BY <1>7, EndsHandled
<1>8. CASE CFunctionGoesOn
  BY <1>8, CFunctionGoesOnHandled
<1>9. CASE PCallEnds
  BY <1>9, PCallEndsHandled
<1>10. CASE StartCoroutine
  BY <1>10, StartCoroutineHandled
<1>11. CASE ContinueCoroutine
  BY <1>11, ContinueCoroutineHandled
<1>12. CASE FinishCCall
  BY <1>12, FinishCCallHandled
<1>13. CASE FinishOp
  BY <1>13, FinishOpHandled
<1>14. CASE CoroutineEnds
  BY <1>14, CoroutineEndsHandled
<1>15. CASE CoroutineFails \/ Yield
  BY <1>15, JmpLeavesHandled
<1>16. CASE ThrowToPCall
  BY <1>16, ThrowToPCallHandled
<1>17. CASE Recover
  BY <1>17, RecoverHandled
<1> QED BY <1>1, <1>2, <1>3, <1>4, <1>5, <1>6, <1>7, <1>8, <1>9, <1>10, <1>11, <1>12, <1>13, <1>14,
           <1>15, <1>16, <1>17 DEF Next

(* What HandlerOfCall says of a thread.                                    *)
LEMMA HandledGives ==
    ASSUME Inv, Handled, NEW th \in Thread, status[th] # "error", ci[th] # <<>>
    PROVE  LET collecting == {r \in Records(th, "luaD_pcall") : r.gc}
               P == {n \in InProgress(ci[th]) : \A r \in collecting : n > r.ci}
           IN errfunc[th] = IF P # {} THEN ci[th][Highest(P)].fn = "xpcall"
                            ELSE th = Main /\ collecting = {}
<1> DEFINE R == PCallsOf(cstack)
           F == ci[th]
           collecting == {r \in Records(th, "luaD_pcall") : r.gc}
           P == {n \in InProgress(F) : \A r \in collecting : n > r.ci}
<1>1. /\ cstack \in Seq(Entry) /\ F \in Seq(CallInfo) /\ Len(F) \in Nat /\ errfunc[th] \in BOOLEAN
      /\ Shaped
  BY DEF Inv, Fields, Shaped, StackTypes
<1>2. \A r : r \in collecting <=> r \in R /\ r.th = th /\ r.gc
  <2>1. /\ DOMAIN cstack = 1 .. Len(cstack) /\ \A i \in 1 .. Len(cstack) : cstack[i] \in Entry
    BY <1>1
  <2> QED BY <2>1 DEF Records, PCallsOf
<1>3. \A n : n \in InProgress(F) <=> n \in 1 .. Len(F) /\ InPCall(F[n])
  BY <1>1 DEF InProgress, InPCall
<1>4. th = Main => cstack # <<>>
  BY DEF Handled
<1>5. Handles(R, F, th, Len(F), errfunc[th])
  BY <1>4 DEF Handled, HandlersOf
<1>6. \A r \in collecting : r.ci \in 1 .. Len(F) /\ F[r.ci].fn = "lua" /\ Marked(R, F, th, r.ci)
  <2> SUFFICES ASSUME NEW r \in collecting
               PROVE  r.ci \in 1 .. Len(F) /\ F[r.ci].fn = "lua" /\ Marked(R, F, th, r.ci)
    OBVIOUS
  <2>1. r \in R /\ r.th = th /\ r.gc
    BY <1>2
  <2>2. r.ci \in Nat /\ r.ci <= Len(F) /\ r.ci > 0 /\ F[r.ci].fn = "lua"
    BY <2>1, <1>1, CollectsOnLua
  <2>3. Marked(R, F, th, r.ci)
    BY <2>1 DEF Marked, Collects
  <2> QED BY <2>2, <2>3, <1>1
<1>7. ASSUME NEW n \in 1 .. Len(F), Collects(R, th, n)
      PROVE  \E r \in collecting : r.ci = n
  BY <1>2, <1>7 DEF Collects
<1> HIDE DEF R, F, collecting
<1>8. \A n : n \in P <=> n \in 1 .. Len(F) /\ InPCall(F[n]) /\ \A r \in collecting : n > r.ci
  BY <1>3
<1>9. errfunc[th] = IF P # {} THEN F[Highest(P)].fn = "xpcall" ELSE th = Main /\ collecting = {}
  <2> HIDE DEF P
  <2>1. CASE errfunc[th] = (th = Main) /\ \A m \in 1 .. Len(F) : ~Marked(R, F, th, m)
    <3>1. collecting = {}
      BY <2>1, <1>6
    <3>2. P = {}
      BY <2>1, <1>8 DEF Marked
    <3> QED BY <3>1, <3>2, <2>1, <1>1
  <2>2. ASSUME NEW n \in 1 .. Len(F), Marked(R, F, th, n), errfunc[th] = (F[n].fn = "xpcall"),
               \A m \in n + 1 .. Len(F) : ~Marked(R, F, th, m)
        PROVE  errfunc[th] = IF P # {} THEN F[Highest(P)].fn = "xpcall" ELSE th = Main /\ collecting = {}
    <3>1. \A m \in 1 .. Len(F) : m <= n \/ m \in n + 1 .. Len(F)
      BY <1>1
    <3>2. CASE InPCall(F[n])
      <4>1. ASSUME NEW r \in collecting PROVE n > r.ci
        <5>1. r.ci \in 1 .. Len(F) /\ F[r.ci].fn = "lua" /\ Marked(R, F, th, r.ci)
          BY <1>6
        <5>2. r.ci # n
          BY <5>1, <3>2 DEF InPCall
        <5>3. r.ci <= n
          BY <5>1, <3>1, <2>2
        <5> QED BY <5>1, <5>2, <5>3
      <4>2. n \in P
        BY <4>1, <3>2, <1>8
      <4>3. \A m \in P : m <= n
        BY <3>1, <2>2, <1>8 DEF Marked
      <4>4. P \subseteq Nat
        BY <1>8
      <4>5. Highest(P) = n
        BY <4>2, <4>3, <4>4, HighestIs
      <4> QED BY <4>2, <4>5, <2>2
    <3>3. CASE ~InPCall(F[n])
      <4>1. PICK r \in collecting : r.ci = n
        BY <3>3, <2>2, <1>7 DEF Marked
      <4>2. F[n].fn = "lua"
        BY <4>1, <1>6
      <4>3. ASSUME NEW m \in P PROVE FALSE
        <5>1. m \in 1 .. Len(F) /\ InPCall(F[m]) /\ m > n
          BY <4>1, <1>8
        <5>2. m \in n + 1 .. Len(F)
          BY <5>1, <3>1
        <5> QED BY <5>1, <5>2, <2>2 DEF Marked
      <4>4. P = {} /\ collecting # {}
        BY <4>1, <4>3
      <4> QED BY <4>2, <4>4, <2>2, <1>1
    <3> QED BY <3>2, <3>3
  <2> QED BY <2>1, <2>2, <1>5 DEF Handles
<1> QED BY <1>9 DEF F, P, collecting

(* The message handler is that of the innermost protected call in          *)
(* progress, whatever was called, interrupted, resumed or thrown, for any  *)
(* number of coroutines and any depth of the stacks.                       *)
THEOREM HandlersRestored == Spec => []HandlerOfCall
<1>1. Inv /\ Handled => HandlerOfCall
  BY HandledGives DEF HandlerOfCall
<1>2. Init => Inv /\ Handled
  BY InvInit, HandledInit
<1>3. Inv /\ Handled /\ [Next]_vars => Inv' /\ Handled'
  <2> SUFFICES ASSUME Inv, Handled, [Next]_vars PROVE Inv' /\ Handled'
    OBVIOUS
  <2>1. Inv'
    BY InvNext
  <2>2. CASE Next
    BY <2>1, <2>2, HandledNext
  <2>3. CASE UNCHANGED vars
    BY <2>1, <2>3 DEF vars, fields, Handled
  <2> QED BY <2>1, <2>2, <2>3
<1>4. Spec => [](Inv /\ Handled)
  BY <1>2, <1>3, PTL DEF Spec
<1> QED BY <1>1, <1>4, PTL

-----------------------------------------------------------------------------
(* The protocol of the coroutines                                          *)

RunningIn(cs) == IF cs = <<>> THEN Main ELSE Last(cs).th
ResumersIn(cs) == {<<cs[i].th, cs[i - 1].th>> : i \in {j \in DOMAIN cs : cs[j].c = "lua_resume"}}
CanResume(st, un) == {co \in Co : st[co] = "LUA_YIELD" \/ (st[co] = "LUA_OK" /\ co \in un)}
ThreadsIn(cs) == {cs[i].th : i \in DOMAIN cs}
Ended(cs, st, un) ==
    {co \in Co \ ThreadsIn(cs) :
        st[co] = "error" \/ (st[co] = "LUA_OK" /\ co \notin un)}

(* The C stacks differ only above k, in activations of t.                  *)
Between(cs, cs2, k, t) ==
    /\ k <= Len(cs) /\ k <= Len(cs2) /\ \A i \in 1 .. k : cs2[i] = cs[i]
    /\ \A i \in k + 1 .. Len(cs) : cs[i].th = t /\ cs[i].c # "lua_resume"
    /\ \A i \in k + 1 .. Len(cs2) : cs2[i].th = t /\ cs2[i].c # "lua_resume"
    /\ IF k = 0 THEN t = Main ELSE cs[k].th = t /\ cs[1].c # "lua_resume"

LEMMA StaysIn ==
    ASSUME NEW cs \in Seq(Entry), NEW cs2 \in Seq(Entry), NEW k \in Nat, NEW t,
           Between(cs, cs2, k, t), NEW st, NEW un
    PROVE  /\ RunningIn(cs2) = RunningIn(cs) /\ ResumersIn(cs2) = ResumersIn(cs)
           /\ Ended(cs2, st, un) = Ended(cs, st, un)
<1>0. Len(cs) \in Nat /\ Len(cs2) \in Nat /\ k <= Len(cs) /\ k <= Len(cs2)
  BY DEF Between
<1>1. /\ Len(cs) \in Nat /\ Len(cs2) \in Nat /\ DOMAIN cs = 1 .. Len(cs) /\ DOMAIN cs2 = 1 .. Len(cs2)
      /\ k <= Len(cs) /\ k <= Len(cs2)
      /\ \A i \in 1 .. Len(cs) : i \in 1 .. k \/ i \in k + 1 .. Len(cs)
      /\ \A i \in 1 .. Len(cs2) : i \in 1 .. k \/ i \in k + 1 .. Len(cs2)
      /\ \A i \in 1 .. k : i \in 1 .. Len(cs) /\ i \in 1 .. Len(cs2) /\ (i = 1 \/ i - 1 \in 1 .. k)
      /\ k = 0 \/ (1 \in 1 .. k /\ k \in 1 .. k)
  BY DEF Between
<1>2. RunningIn(cs) = t
  <2>1. CASE cs = <<>>
    <3>1. Len(cs) = 0
      BY <2>1
    <3>2. k = 0
      BY <3>1, <1>1
    <3>3. t = Main
      BY <3>2 DEF Between
    <3> QED BY <2>1, <3>3 DEF RunningIn
  <2>2. CASE cs # <<>>
    <3>1. Len(cs) \in 1 .. Len(cs)
      BY <2>2, <1>1, NotEmpty
    <3>2. cs[Len(cs)].th = t
      <4>1. CASE Len(cs) = k
        BY <4>1, <3>1 DEF Between
      <4>2. CASE Len(cs) # k
        <5>1. Len(cs) \in k + 1 .. Len(cs)
          BY <4>2, <1>0
        <5> QED BY <5>1 DEF Between
      <4> QED BY <4>1, <4>2
    <3> QED BY <3>2, <2>2 DEF RunningIn, Last
  <2> QED BY <2>1, <2>2
<1>3. RunningIn(cs2) = t
  <2>1. CASE cs2 = <<>>
    <3>1. Len(cs2) = 0
      BY <2>1
    <3>2. k = 0
      BY <3>1, <1>1
    <3>3. t = Main
      BY <3>2 DEF Between
    <3> QED BY <2>1, <3>3 DEF RunningIn
  <2>2. CASE cs2 # <<>>
    <3>1. Len(cs2) \in 1 .. Len(cs2)
      BY <2>2, <1>1, NotEmpty
    <3>2. cs2[Len(cs2)].th = t
      <4>1. CASE Len(cs2) = k
        <5>1. k # 0 /\ cs2[k] = cs[k]
          BY <4>1, <3>1, <1>1 DEF Between
        <5> QED BY <5>1, <4>1 DEF Between
      <4>2. CASE Len(cs2) # k
        <5>1. Len(cs2) \in k + 1 .. Len(cs2)
          BY <4>2, <1>0
        <5> QED BY <5>1 DEF Between
      <4> QED BY <4>1, <4>2
    <3> QED BY <3>2, <2>2 DEF RunningIn, Last
  <2> QED BY <2>1, <2>2
<1>4. ASSUME NEW i \in 1 .. Len(cs), cs[i].c = "lua_resume"
      PROVE  i \in 1 .. Len(cs2) /\ cs2[i] = cs[i] /\ cs2[i - 1] = cs[i - 1]
  <2>1. i \in 1 .. k
    BY <1>1, <1>4 DEF Between
  <2>2. i # 1
    BY <2>1, <1>4 DEF Between
  <2>3. i - 1 \in 1 .. k /\ i \in 1 .. Len(cs2)
    BY <2>1, <2>2, <1>1
  <2> QED BY <2>1, <2>3 DEF Between
<1>5. ASSUME NEW i \in 1 .. Len(cs2), cs2[i].c = "lua_resume"
      PROVE  i \in 1 .. Len(cs) /\ cs2[i] = cs[i] /\ cs2[i - 1] = cs[i - 1]
  <2>1. i \in 1 .. k
    BY <1>1, <1>5 DEF Between
  <2>2. cs2[i] = cs[i]
    BY <2>1 DEF Between
  <2>3. i # 1
    BY <2>1, <2>2, <1>5 DEF Between
  <2>4. i - 1 \in 1 .. k /\ i \in 1 .. Len(cs)
    BY <2>1, <2>3, <1>1
  <2> QED BY <2>2, <2>4 DEF Between
<1>6. ResumersIn(cs2) = ResumersIn(cs)
  <2>1. ASSUME NEW x \in ResumersIn(cs) PROVE x \in ResumersIn(cs2)
    <3>1. PICK i \in 1 .. Len(cs) : cs[i].c = "lua_resume" /\ x = <<cs[i].th, cs[i - 1].th>>
      BY <2>1, <1>1, Zenon DEF ResumersIn
    <3>2. i \in DOMAIN cs2 /\ cs2[i].c = "lua_resume" /\ x = <<cs2[i].th, cs2[i - 1].th>>
      BY <3>1, <1>1, <1>4
    <3> QED BY <3>2, Zenon DEF ResumersIn
  <2>2. ASSUME NEW x \in ResumersIn(cs2) PROVE x \in ResumersIn(cs)
    <3>1. PICK i \in 1 .. Len(cs2) : cs2[i].c = "lua_resume" /\ x = <<cs2[i].th, cs2[i - 1].th>>
      BY <2>2, <1>1, Zenon DEF ResumersIn
    <3>2. i \in DOMAIN cs /\ cs[i].c = "lua_resume" /\ x = <<cs[i].th, cs[i - 1].th>>
      BY <3>1, <1>1, <1>5
    <3> QED BY <3>2, Zenon DEF ResumersIn
  <2> QED BY <2>1, <2>2
<1>7. ASSUME NEW co \in Co
      PROVE  (\E i \in 1 .. Len(cs) : cs[i].th = co) <=> (\E i \in 1 .. Len(cs2) : cs2[i].th = co)
  <2>1. CASE co = t
    <3>1. k # 0
      BY <2>1, CallsAssumption DEF Between
    <3>2. k \in 1 .. Len(cs) /\ k \in 1 .. Len(cs2) /\ cs[k].th = t /\ cs2[k] = cs[k]
      BY <3>1, <1>1 DEF Between
    <3> QED BY <3>2, <2>1
  <2>2. CASE co # t
    <3>1. ASSUME NEW i \in 1 .. Len(cs), cs[i].th = co PROVE i \in 1 .. Len(cs2) /\ cs2[i].th = co
      BY <3>1, <2>2, <1>1 DEF Between
    <3>2. ASSUME NEW i \in 1 .. Len(cs2), cs2[i].th = co PROVE i \in 1 .. Len(cs) /\ cs[i].th = co
      BY <3>2, <2>2, <1>1 DEF Between
    <3> QED BY <3>1, <3>2
  <2> QED BY <2>1, <2>2
<1>8. Ended(cs2, st, un) = Ended(cs, st, un)
  BY <1>1, <1>7 DEF Ended, ThreadsIn
<1> QED BY <1>2, <1>3, <1>6, <1>8

(* A step of the running thread.                                           *)
Stays ==
    /\ RunningIn(cstack') = RunningIn(cstack) /\ ResumersIn(cstack') = ResumersIn(cstack)
    /\ CanResume(status', unstarted') = CanResume(status, unstarted)
    /\ Ended(cstack', status', unstarted') = Ended(cstack, status, unstarted)

(* It leaves the first k activations and adds others of its own.           *)
Remains(k) ==
    /\ k <= Depth /\ k <= Len(cstack') /\ \A i \in 1 .. k : cstack'[i] = cstack[i]
    /\ \A i \in k + 1 .. Depth : cstack[i].th = L /\ cstack[i].c # "lua_resume"
    /\ \A i \in k + 1 .. Len(cstack') : cstack'[i].th = L /\ cstack'[i].c # "lua_resume"

LEMMA RemainsStays ==
    ASSUME Inv, Inv', cstack # <<>>, NEW k \in Nat, Remains(k), UNCHANGED <<status, unstarted>>
    PROVE  Stays
<1>1. /\ cstack \in Seq(Entry) /\ cstack' \in Seq(Entry) /\ Depth \in Nat /\ Depth = Len(cstack)
      /\ Shape(cstack, ci) /\ Depth >= 1 /\ L = cstack[Depth].th
  BY ActFacts DEF Inv, Shaped, StackTypes, Depth, Act
<1>2. Linked(cstack, 1)
  BY <1>1 DEF Shape
<1>3. IF k = 0 THEN L = Main ELSE cstack[k].th = L
  <2>1. CASE k = Depth
    BY <2>1, <1>1
  <2>2. CASE k # Depth
    <3> DEFINE j == k + 1
    <3>1. j \in k + 1 .. Depth /\ j \in 1 .. Len(cstack) /\ j - 1 = k /\ (k = 0 <=> j = 1)
      BY <2>2, <1>1 DEF Remains
    <3>2. Linked(cstack, j) /\ cstack[j].th = L /\ cstack[j].c # "lua_resume"
      BY <3>1, <1>1 DEF Shape, Remains
    <3> HIDE DEF j
    <3> QED BY <3>1, <3>2 DEF Linked
  <2> QED BY <2>1, <2>2
<1>4. Between(cstack, cstack', k, L)
  BY <1>1, <1>2, <1>3 DEF Between, Remains, Linked
<1>5. status' = status /\ unstarted' = unstarted
  OBVIOUS
<1>6. PICK cs2 : cs2 = cstack'
  OBVIOUS
<1>7. /\ RunningIn(cs2) = RunningIn(cstack) /\ ResumersIn(cs2) = ResumersIn(cstack)
      /\ Ended(cs2, status, unstarted) = Ended(cstack, status, unstarted)
  BY <1>1, <1>4, <1>6, StaysIn
<1> QED BY <1>5, <1>6, <1>7 DEF Stays

LEMMA CallRemains ==
    ASSUME Inv, L \in Thread, NEW cs \in Seq(Entry), Len(cs) >= Depth,
           \A i \in 1 .. Depth : cs[i] = cstack[i],
           \A i \in Depth + 1 .. Len(cs) : cs[i].th = L /\ cs[i].c # "lua_resume",
           NEW frames, Len(frames) \in Nat, NEW noyield \in BOOLEAN,
           NEW caller \in {"meta", "hook", "handler", "function"}, NEW fn,
           Call(frames, cs, noyield, caller, fn)
    PROVE  Remains(Depth) /\ Depth \in Nat /\ UNCHANGED <<status, unstarted>>
<1> DEFINE d == DCall(Len(frames), noyield, caller)
           e == Execute(Len(frames))
           k == Len(cs)
           n == k + 1
           m == k + 2
           c1 == Append(cs, d)
           c2 == Append(c1, e)
<1>1. (cstack' = c1 \/ cstack' = c2) /\ status' = status /\ unstarted' = unstarted
  BY Zenon DEF Call, Enter
<1>2. /\ d \in Entry /\ e \in Entry /\ d.th = L /\ e.th = L
      /\ d.c # "lua_resume" /\ e.c # "lua_resume"
  BY EntryType
<1> HIDE DEF d, e
<1>3. /\ k \in Nat /\ n \in Nat /\ n = k + 1 /\ m = n + 1 /\ m \in Nat /\ Depth \in Nat
      /\ Depth <= k /\ Depth <= n /\ Depth <= m
      /\ \A i \in Depth + 1 .. n : i \in Depth + 1 .. k \/ i = n
      /\ \A i \in Depth + 1 .. m : i \in Depth + 1 .. n \/ i = m
      /\ \A i \in 1 .. Depth : i \in 1 .. k /\ i \in 1 .. n
  <2>1. k \in Nat /\ Depth \in Nat /\ k >= Depth
    BY DEF Inv, Shaped, StackTypes, Depth
  <2> HIDE DEF k
  <2> QED BY <2>1
<1>4. /\ c1 \in Seq(Entry) /\ Len(c1) = n /\ c1[n] = d /\ \A i \in 1 .. k : c1[i] = cs[i]
  BY <1>2
<1> HIDE DEF n, m, c1
<1>5. Len(c2) = m /\ c2[m] = e /\ \A i \in 1 .. n : c2[i] = c1[i]
  BY <1>2, <1>3, <1>4
<1> HIDE DEF c2, k
<1>6. \A i \in Depth + 1 .. k : cs[i].th = L /\ cs[i].c # "lua_resume"
  BY DEF k
<1>7. /\ \A i \in 1 .. Depth : c1[i] = cstack[i]
      /\ \A i \in Depth + 1 .. n : c1[i].th = L /\ c1[i].c # "lua_resume"
  <2>1. ASSUME NEW i \in Depth + 1 .. n PROVE c1[i].th = L /\ c1[i].c # "lua_resume"
    <3>1. CASE i = n
      BY <3>1, <1>2, <1>4
    <3>2. CASE i # n
      <4>1. i \in Depth + 1 .. k /\ i \in 1 .. k
        BY <3>2, <1>3
      <4> QED BY <4>1, <1>4, <1>6
    <3> QED BY <3>1, <3>2
  <2> QED BY <2>1, <1>3, <1>4
<1>8. /\ \A i \in 1 .. Depth : c2[i] = cstack[i]
      /\ \A i \in Depth + 1 .. m : c2[i].th = L /\ c2[i].c # "lua_resume"
  <2>1. ASSUME NEW i \in Depth + 1 .. m PROVE c2[i].th = L /\ c2[i].c # "lua_resume"
    <3>1. CASE i = m
      BY <3>1, <1>2, <1>5
    <3>2. CASE i # m
      <4>1. i \in Depth + 1 .. n /\ i \in 1 .. n
        BY <3>2, <1>3
      <4> QED BY <4>1, <1>5, <1>7
    <3> QED BY <3>1, <3>2
  <2> QED BY <2>1, <1>3, <1>5, <1>7
<1>9. Depth <= Depth /\ \A i \in Depth + 1 .. Depth : FALSE
  BY <1>3
<1>10. CASE cstack' = c1
  BY <1>10, <1>1, <1>3, <1>4, <1>7, <1>9 DEF Remains
<1>11. CASE cstack' = c2
  BY <1>11, <1>1, <1>3, <1>5, <1>8, <1>9 DEF Remains
<1> QED BY <1>1, <1>3, <1>10, <1>11

(* The steps that call.                                                    *)
LEMMA CallsStay ==
    ASSUME Inv, Inv', CallTM \/ Hook \/ CallK \/ LuaCall \/ ErrorMsg \/ Finalizer \/ PCallK
    PROVE  Stays
<1>1. cstack # <<>>
  BY Raised DEF Inv, CallTM, Hook, CallK, LuaCall, ErrorMsg, Finalizer, PCallK, RunsLua, RunsC, Running
<1>2. /\ L \in Thread /\ cstack \in Seq(Entry) /\ Depth \in Nat /\ Depth = Len(cstack) /\ TypeOK
      /\ ci[L] \in Seq(CallInfo) /\ Size \in Nat
  BY <1>1, ActFacts, InvType DEF Inv, Shaped, StackTypes, Depth
<1>3. \A i \in Depth + 1 .. Depth : FALSE
  BY <1>2
<1>4. ASSUME Running, NEW x
      PROVE  Len(SetTop(ci[L], x)) \in Nat
  BY <1>4, <1>2, TopFacts DEF SetTop, Inv
<1>5. ASSUME Running, NEW fr
      PROVE  Len(Append(Front(ci[L]), fr)) \in Nat
  BY <1>5, <1>2, TopFacts DEF Inv
<1>6. ASSUME NEW frames, Len(frames) \in Nat, NEW noyield \in BOOLEAN,
             NEW caller \in {"meta", "hook", "handler", "function"}, NEW fn,
             Call(frames, cstack, noyield, caller, fn)
      PROVE  Stays
  BY <1>1, <1>2, <1>3, <1>6, CallRemains, RemainsStays
<1>7. ASSUME NEW gc \in BOOLEAN, NEW frames, Len(frames) \in Nat, NEW fn,
             Call(frames, Append(cstack, PCall(gc)), TRUE, "function", fn)
      PROVE  Stays
  <2> DEFINE cs == Append(cstack, PCall(gc))
             n == Depth + 1
  <2>1. PCall(gc) \in Entry /\ PCall(gc).c = "luaD_pcall" /\ PCall(gc).th = L
    BY <1>2, PCallType
  <2>2. /\ cs \in Seq(Entry) /\ Len(cs) = n /\ Len(cs) >= Depth /\ cs[n] = PCall(gc)
        /\ \A i \in 1 .. Depth : cs[i] = cstack[i]
        /\ \A i \in Depth + 1 .. Len(cs) : i = n
    BY <2>1, <1>2
  <2> HIDE DEF cs, n
  <2>3. \A i \in Depth + 1 .. Len(cs) : cs[i].th = L /\ cs[i].c # "lua_resume"
    BY <2>1, <2>2
  <2>4. PICK yes \in BOOLEAN : yes = TRUE
    OBVIOUS
  <2>5. Call(frames, cs, yes, "function", fn)
    BY <2>4, <1>7 DEF cs
  <2>6. Remains(Depth) /\ Depth \in Nat /\ UNCHANGED <<status, unstarted>>
    BY <2>2, <2>3, <2>5, <1>2, <1>7, CallRemains
  <2> QED BY <2>6, <1>1, RemainsStays
<1>8. PICK yes \in BOOLEAN, no \in BOOLEAN : yes = TRUE /\ no = FALSE
  OBVIOUS
<1>9. CASE CallTM
  <2>1. PICK fn : Call(SetTop(ci[L], "meta"), cstack, no, "meta", fn)
    BY <1>8, <1>9, Zenon DEF CallTM
  <2>2. Running
    BY <1>9 DEF CallTM, RunsLua
  <2> QED BY <2>1, <2>2, <1>4, <1>6
<1>10. CASE Hook
  <2>1. Call(SetTop(ci[L], "out"), cstack, yes, "hook", "lua") /\ Running
    BY <1>8, <1>10 DEF Hook, RunsLua
  <2> QED BY <2>1, <1>4, <1>6
<1>11. CASE CallK
  <2>1. PICK fn \in Fns, b \in BOOLEAN : Call(SetTop(ci[L], "in"), cstack, b, "function", fn)
    <3>1. (nny[L] > 0) \in BOOLEAN
      OBVIOUS
    <3>2. \E fn \in Fns : Call(SetTop(ci[L], "in"), cstack, nny[L] > 0, "function", fn)
      BY <1>11, Zenon DEF CallK
    <3> QED BY <3>1, <3>2, Zenon
  <2>2. Running
    BY <1>11 DEF CallK, RunsC
  <2> QED BY <2>1, <2>2, <1>4, <1>6
<1>12. CASE LuaCall
  <2>1. PICK fn : Call(SetTop(ci[L], "in"), cstack, yes, "function", fn)
    BY <1>8, <1>12, Zenon DEF LuaCall
  <2>2. Running
    BY <1>12 DEF LuaCall, RunsC
  <2> QED BY <2>1, <2>2, <1>4, <1>6
<1>13. CASE ErrorMsg
  <2>1. CASE Call(ci[L], cstack, yes, "handler", "lua")
    BY <2>1, <1>2, <1>6 DEF Size
  <2>2. CASE UNCHANGED <<ci, fields, unstarted, cstack>>
    BY <2>2 DEF Stays, fields
  <2> QED BY <2>1, <2>2, <1>8, <1>13 DEF ErrorMsg
<1>14. CASE Finalizer
  <2>1. Call(SetTop(ci[L], "out"), Append(cstack, PCall(yes)), TRUE, "function", "lua") /\ Running
    BY <1>8, <1>14 DEF Finalizer, RunsLua
  <2> QED BY <2>1, <1>4, <1>7
<1>15. CASE PCallK
  <2>1. Running
    BY <1>15 DEF PCallK, RunsC
  <2>2. \E fn \in Fns :
        \/ Call(SetTop(ci[L], "in"), Append(cstack, PCall(no)), TRUE, "function", fn)
        \/ Call(Append(Front(ci[L]),
                          [Top EXCEPT !.st = "in", !.ypcall = TRUE, !.old_errfunc = errfunc[L],
                                      !.oah = allowhook[L]]),
                   cstack, no, "function", fn)
    BY <1>8, <1>15, Zenon DEF PCallK
  <2>3. PICK fn :
        \/ Call(SetTop(ci[L], "in"), Append(cstack, PCall(no)), TRUE, "function", fn)
        \/ \E fr : Call(Append(Front(ci[L]), fr), cstack, no, "function", fn)
    BY <2>2, Zenon
  <2>4. CASE Call(SetTop(ci[L], "in"), Append(cstack, PCall(no)), TRUE, "function", fn)
    BY <2>1, <2>4, <1>4, <1>7
  <2>5. ASSUME NEW fr, Call(Append(Front(ci[L]), fr), cstack, no, "function", fn)
        PROVE  Stays
    BY <2>1, <2>5, <1>5, <1>6
  <2> QED BY <2>3, <2>4, <2>5
<1> QED BY <1>9, <1>10, <1>11, <1>12, <1>13, <1>14, <1>15

(* The activations of the running thread above one of its own, or above    *)
(* all, are dropped.                                                       *)
LEMMA CutStays ==
    ASSUME Inv, Inv', cstack # <<>>, NEW k \in 0 .. Depth, cstack' = SubSeq(cstack, 1, k),
           IF k = 0 THEN L = Main ELSE cstack[k].th = L,
           \A i \in k + 1 .. Depth : cstack[i].th = L, UNCHANGED <<status, unstarted>>
    PROVE  Stays
<1>1. /\ cstack \in Seq(Entry) /\ Depth \in Nat /\ Depth = Len(cstack) /\ k \in Nat /\ k <= Depth
  BY DEF Inv, Shaped, StackTypes, Depth
<1>2. Len(cstack') = k /\ \A i \in 1 .. k : cstack'[i] = cstack[i]
  BY <1>1, PrefixFacts
<1>3. ASSUME NEW i \in k + 1 .. Depth PROVE cstack[i].th = L /\ cstack[i].c # "lua_resume"
  <2>1. i \in 1 .. Depth /\ cstack[i].th = L
    BY <1>1
  <2>2. CASE cstack[i].c = "lua_resume"
    <3>1. (\A l \in 1 .. i - 1 : cstack[l].th # L) /\ L # Main
      BY <2>1, <2>2, NoneBelow DEF Inv
    <3>2. k # 0 => k \in 1 .. i - 1
      BY <1>1
    <3> QED BY <3>1, <3>2
  <2> QED BY <2>1, <2>2
<1>4. \A i \in k + 1 .. k : FALSE
  BY <1>1
<1>5. Remains(k)
  BY <1>1, <1>2, <1>3, <1>4 DEF Remains
<1> QED BY <1>1, <1>5, RemainsStays

LEMMA ReturnsStay ==
    ASSUME Inv, Inv', ReturnToLua \/ ReturnToResume
    PROVE  Stays
<1>1. Returns /\ cstack' = Callers /\ status' = status /\ unstarted' = unstarted
  BY DEF ReturnToLua, ReturnToResume, fields
<1>2. PICK k \in 1 .. Depth : Callers = SubSeq(cstack, 1, k) /\ cstack[k].th = L
  BY <1>1, ReturnFacts DEF Inv
<1>3. \A i \in k + 1 .. Depth : cstack[i].th = L
  BY <1>1, <1>2, CallersFacts
<1>4. cstack # <<>> /\ k \in 0 .. Depth /\ k # 0
  BY <1>1 DEF Returns, Running
<1>5. cstack' = SubSeq(cstack, 1, k)
  BY <1>1, <1>2
<1> QED BY <1>1, <1>2, <1>3, <1>4, <1>5, CutStays

(* The call that ends is dropped, and with it its luaD_pcall.              *)
LEMMA EndsStay ==
    ASSUME Inv, Inv', MetamethodEnds \/ HookEnds \/ HandlerEnds \/ CFunctionGoesOn \/ PCallEnds
    PROVE  Stays
<1>1. PICK caller : /\ CallEnds(caller) /\ status' = status /\ unstarted' = unstarted
                    /\ \/ cstack' = Front(Callers)
                       \/ /\ Last(Front(Callers)).c = "luaD_pcall"
                          /\ cstack' = Front(Front(Callers))
  BY Zenon DEF MetamethodEnds, HookEnds, HandlerEnds, CFunctionGoesOn, PCallEnds, CallEnds
<1>2. PICK k \in 2 .. Depth : EndsAt(k, caller)
  BY <1>1, CallEndsFacts DEF Inv
<1> DEFINE j == k - 1
           i == j - 1
<1>3. /\ Front(Callers) = SubSeq(cstack, 1, j) /\ Last(Front(Callers)) = cstack[j]
      /\ cstack[j].th = L /\ cstack # <<>>
  BY <1>1, <1>2 DEF EndsAt, CallEnds, Returns, Running
<1>4. /\ Depth \in Nat /\ Depth = Len(cstack) /\ cstack \in Seq(Entry) /\ Shape(cstack, ci)
  BY DEF Inv, Shaped, StackTypes, Depth
<1>5. /\ j \in 1 .. Depth /\ j \in 1 .. Len(cstack) /\ j \in 0 .. Depth /\ j # 0 /\ j + 1 = k
      /\ i \in 0 .. Depth /\ i + 1 = j /\ (i = 0 <=> j = 1)
      /\ \A l \in i + 1 .. Depth : l = j \/ l \in k .. Depth
  BY <1>4
<1>6. \A l \in k .. Depth : cstack[l].th = L
  BY <1>1, <1>2, EndsCounts
<1>7. Front(SubSeq(cstack, 1, j)) = SubSeq(cstack, 1, i)
  BY <1>4, <1>5, FrontPrefix
<1>8. Linked(cstack, j)
  BY <1>4, <1>5 DEF Shape
<1> HIDE DEF j
<1>9. cstack[j].c = "luaD_pcall" => IF i = 0 THEN L = Main ELSE cstack[i].th = L
  BY <1>3, <1>5, <1>8 DEF Linked
<1> HIDE DEF i
<1>10. CASE cstack' = Front(Callers)
  BY <1>1, <1>3, <1>5, <1>6, <1>10, CutStays
<1>11. CASE cstack[j].c = "luaD_pcall" /\ cstack' = Front(Front(Callers))
  <2>1. cstack' = SubSeq(cstack, 1, i)
    BY <1>3, <1>7, <1>11
  <2>2. \A l \in i + 1 .. Depth : cstack[l].th = L
    BY <1>3, <1>5, <1>6
  <2> QED BY <2>1, <2>2, <1>1, <1>3, <1>5, <1>9, <1>11, CutStays
<1> QED BY <1>1, <1>3, <1>10, <1>11

LEMMA ThrowsStay ==
    ASSUME Inv, Inv', ThrowToPCall \/ Recover
    PROVE  Stays
<1> DEFINE j == Setjmp
           k == j - 1
<1>1. /\ raise = "throw" /\ status' = status /\ unstarted' = unstarted
      /\ \/ Jmp.c = "luaD_pcall" /\ cstack' = SubSeq(cstack, 1, k)
         \/ cstack' = SubSeq(cstack, 1, j)
  BY Zenon DEF ThrowToPCall, Recover
<1>2. cstack # <<>>
  BY <1>1, Raised DEF Inv
<1>3. /\ j \in 1 .. Depth /\ Jmp = cstack[j] /\ Jmp.th = L
      /\ \A i \in j .. Depth : cstack[i].th = L
      /\ Linked(cstack, j) /\ Depth \in Nat
  BY <1>2, JmpRemembers
<1> HIDE DEF j
<1>4. /\ k \in 0 .. Depth /\ (k = 0 <=> j = 1) /\ \A i \in k + 1 .. Depth : i \in j .. Depth
      /\ j \in 0 .. Depth /\ j # 0 /\ \A i \in j + 1 .. Depth : i \in j .. Depth
  BY <1>3
<1>5. Jmp.c = "luaD_pcall" => IF k = 0 THEN L = Main ELSE cstack[k].th = L
  BY <1>3, <1>4 DEF Linked
<1> HIDE DEF k
<1>6. CASE Jmp.c = "luaD_pcall" /\ cstack' = SubSeq(cstack, 1, k)
  <2>1. \A i \in k + 1 .. Depth : cstack[i].th = L
    BY <1>3, <1>4
  <2> QED BY <2>1, <1>1, <1>2, <1>4, <1>5, <1>6, CutStays
<1>7. CASE cstack' = SubSeq(cstack, 1, j)
  <2>1. \A i \in j + 1 .. Depth : cstack[i].th = L
    BY <1>3, <1>4
  <2> QED BY <2>1, <1>1, <1>2, <1>3, <1>4, <1>7, CutStays
<1> QED BY <1>1, <1>6, <1>7

(* The steps that leave the C stack alone, and FinishOp.                   *)
LEMMA StepsStay ==
    ASSUME Inv, Inv', \/ OpCall \/ MemoryError \/ RaiseError \/ ResumeRefused \/ FinishCCall
                      \/ FinishOp
    PROVE  Stays
<1>1. CASE OpCall \/ MemoryError \/ RaiseError \/ ResumeRefused \/ FinishCCall
  <2>1. cstack' = cstack /\ status' = status /\ unstarted' = unstarted
    BY <1>1, Zenon DEF OpCall, MemoryError, RaiseError, ResumeRefused, FinishCCall, fields
  <2> QED BY <2>1 DEF Stays
<1>2. CASE FinishOp
  <2> DEFINE e == Execute(Len(ci[L]) - 1)
             n == Depth + 1
  <2>1. /\ Unrolls /\ cstack # <<>> /\ cstack' = Append(cstack, e)
        /\ status' = status /\ unstarted' = unstarted
    BY <1>2, Zenon DEF FinishOp, Unrolls, fields
  <2>2. Depth \in Nat /\ Depth = Len(cstack) /\ cstack \in Seq(Entry)
    BY DEF Inv, Shaped, StackTypes, Depth
  <2>3. e.c = "luaV_execute" /\ e.th = L
    BY DEF Execute
  <2> HIDE DEF e
  <2>4. /\ Len(cstack') = n /\ cstack'[n] = e /\ \A i \in 1 .. Depth : cstack'[i] = cstack[i]
        /\ Depth <= Depth /\ Depth <= n
        /\ \A i \in Depth + 1 .. n : i = n
        /\ \A i \in Depth + 1 .. Depth : FALSE
    BY <2>1, <2>2
  <2> HIDE DEF n
  <2>5. Remains(Depth)
    BY <2>3, <2>4 DEF Remains
  <2> QED BY <2>1, <2>2, <2>5, RemainsStays
<1> QED BY <1>1, <1>2

LEMMA DoCallStays == ASSUME Inv, DoCall PROVE Stays
<1> DEFINE p == [c |-> "luaD_pcall", th |-> Main, gc |-> FALSE, ci |-> 0, nCcalls |-> 0, nny |-> 1,
                 errfunc |-> FALSE, allowhook |-> TRUE]
           d == [c |-> "luaD_call", th |-> Main, ci |-> 0, noyield |-> TRUE, caller |-> "function"]
           e == [c |-> "luaV_execute", th |-> Main, ci |-> 0]
           c1 == <<p>>
           c2 == Append(c1, d)
           c3 == Append(c2, e)
<1>1. cstack = <<>> /\ cstack' = <<p, d, e>> /\ status' = status /\ unstarted' = unstarted
  BY Zenon DEF DoCall
<1>2. Main \in Thread
  BY DEF Thread
<1>3. /\ p \in Entry /\ d \in Entry /\ e \in Entry
      /\ p.th = Main /\ d.th = Main /\ e.th = Main
      /\ p.c # "lua_resume" /\ d.c # "lua_resume" /\ e.c # "lua_resume"
  BY <1>2 DEF Entry
<1> HIDE DEF p, d, e
<1>4. c3 \in Seq(Entry) /\ Len(c3) = 3 /\ (\A i \in 1 .. 3 : c3[i] \in {p, d, e}) /\ c3 = <<p, d, e>>
  BY <1>3, ThreePushed
<1>5. PICK cs2 : cs2 = c3
  OBVIOUS
<1> HIDE DEF c3
<1>6. /\ cs2 \in Seq(Entry) /\ Len(cs2) = 3 /\ cstack' = cs2
      /\ \A i \in 1 .. 3 : cs2[i].th = Main /\ cs2[i].c # "lua_resume"
  BY <1>1, <1>3, <1>4, <1>5
<1>7. cstack \in Seq(Entry) /\ Len(cstack) = 0
  BY <1>1
<1>8. PICK k \in Nat : k = 0
  OBVIOUS
<1>9. Between(cstack, cs2, k, Main)
  BY <1>6, <1>7, <1>8 DEF Between
<1>10. /\ RunningIn(cs2) = RunningIn(cstack) /\ ResumersIn(cs2) = ResumersIn(cstack)
       /\ Ended(cs2, status, unstarted) = Ended(cstack, status, unstarted)
  BY <1>6, <1>7, <1>9, StaysIn
<1> QED BY <1>1, <1>6, <1>10 DEF Stays

(* A coroutine is resumed.                                                 *)
LEMMA OnePushed ==
    ASSUME NEW cs \in Seq(Entry), cs # <<>>, cs[1].c # "lua_resume",
           NEW r \in Entry, r.c = "lua_resume",
           \A i \in 1 .. Len(cs) : cs[i].th # r.th
    PROVE  LET cs2 == Append(cs, r)  pair == <<r.th, RunningIn(cs)>> IN
           /\ RunningIn(cs2) = r.th
           /\ ResumersIn(cs2) = ResumersIn(cs) \cup {pair} /\ pair \notin ResumersIn(cs)
           /\ ThreadsIn(cs2) = ThreadsIn(cs) \cup {r.th}
<1> DEFINE cs2 == Append(cs, r)
           pair == <<r.th, RunningIn(cs)>>
           k == Len(cs)
           n == k + 1
<1>1. /\ k \in Nat /\ n \in Nat /\ n - 1 = k /\ cs2 \in Seq(Entry) /\ Len(cs2) = n /\ cs2[n] = r
      /\ \A i \in 1 .. k : cs2[i] = cs[i]
      /\ \A i \in 1 .. n : i \in 1 .. k \/ i = n
      /\ \A i \in 1 .. k : i \in 1 .. n /\ i # n /\ (i = 1 \/ i - 1 \in 1 .. k)
      /\ n \in 1 .. n /\ cs \in Seq(Entry)
  OBVIOUS
<1>2. k # 0
  OBVIOUS
<1>3. k \in 1 .. k /\ n # 1
  BY <1>1, <1>2
<1>4. DOMAIN cs = 1 .. k /\ DOMAIN cs2 = 1 .. n
  BY <1>1
<1>5. cs2 # <<>>
  BY <1>1, NotEmpty
<1>6. RunningIn(cs) = cs[k].th /\ RunningIn(cs2) = r.th
  BY <1>1, <1>5 DEF RunningIn, Last
<1>7. pair = <<cs2[n].th, cs2[n - 1].th>>
  BY <1>1, <1>3, <1>6
<1>8. \A i \in 1 .. k : cs[i].th # r.th
  OBVIOUS
<1> HIDE DEF cs2, n, k
<1>9. pair \notin ResumersIn(cs)
  <2> SUFFICES ASSUME pair \in ResumersIn(cs) PROVE FALSE
    OBVIOUS
  <2>1. PICK i \in 1 .. k : pair = <<cs[i].th, cs[i - 1].th>>
    BY <1>4, Zenon DEF ResumersIn
  <2> QED BY <2>1, <1>8
<1>10. cs[1].c # "lua_resume" /\ r.c = "lua_resume"
  OBVIOUS
<1>11. ASSUME NEW x \in ResumersIn(cs) PROVE x \in ResumersIn(cs2)
  <2>1. PICK i \in 1 .. k : cs[i].c = "lua_resume" /\ x = <<cs[i].th, cs[i - 1].th>>
    BY <1>4, <1>11, Zenon DEF ResumersIn
  <2>2. i # 1
    BY <2>1, <1>10
  <2>3. i \in DOMAIN cs2 /\ cs2[i] = cs[i] /\ cs2[i - 1] = cs[i - 1]
    BY <2>2, <1>1, <1>4
  <2>4. i \in DOMAIN cs2 /\ cs2[i].c = "lua_resume" /\ x = <<cs2[i].th, cs2[i - 1].th>>
    BY <2>1, <2>3
  <2> QED BY <2>4, Zenon DEF ResumersIn
<1>12. pair \in ResumersIn(cs2)
  <2>1. n \in DOMAIN cs2 /\ cs2[n].c = "lua_resume"
    BY <1>1, <1>4, <1>10
  <2> QED BY <2>1, <1>7, Zenon DEF ResumersIn
<1>13. ASSUME NEW x \in ResumersIn(cs2) PROVE x = pair \/ x \in ResumersIn(cs)
  <2>1. PICK i \in 1 .. n : cs2[i].c = "lua_resume" /\ x = <<cs2[i].th, cs2[i - 1].th>>
    BY <1>4, <1>13, Zenon DEF ResumersIn
  <2>2. CASE i = n
    BY <2>1, <2>2, <1>7
  <2>3. CASE i # n
    <3>1. i \in 1 .. k /\ cs2[i] = cs[i]
      BY <2>3, <1>1
    <3>2. i # 1
      BY <2>1, <3>1, <1>10
    <3>3. cs2[i - 1] = cs[i - 1]
      BY <3>1, <3>2, <1>1
    <3>4. i \in DOMAIN cs /\ cs[i].c = "lua_resume" /\ x = <<cs[i].th, cs[i - 1].th>>
      BY <2>1, <3>1, <3>3, <1>4
    <3> QED BY <3>4, Zenon DEF ResumersIn
  <2> QED BY <2>2, <2>3
<1>14. ResumersIn(cs2) = ResumersIn(cs) \cup {pair}
  BY <1>11, <1>12, <1>13
<1>15. ThreadsIn(cs2) = ThreadsIn(cs) \cup {r.th}
  <2>1. ASSUME NEW i \in 1 .. n PROVE cs2[i].th \in ThreadsIn(cs) \cup {r.th}
    BY <1>1, <1>4 DEF ThreadsIn
  <2>2. r.th \in ThreadsIn(cs2)
    BY <1>1, <1>4 DEF ThreadsIn
  <2>3. ASSUME NEW i \in 1 .. k PROVE cs[i].th \in ThreadsIn(cs2)
    BY <1>1, <1>4 DEF ThreadsIn
  <2>4. ThreadsIn(cs2) \subseteq ThreadsIn(cs) \cup {r.th}
    BY <2>1, <1>4 DEF ThreadsIn
  <2>5. ThreadsIn(cs) \subseteq ThreadsIn(cs2)
    BY <2>3, <1>4 DEF ThreadsIn
  <2> QED BY <2>2, <2>4, <2>5
<1> QED BY <1>6, <1>9, <1>14, <1>15 DEF cs2

(* What the protocol says of the step that resumes co.                     *)
ResumesCo(co) ==
    /\ co \in Co /\ co \in CanResume(status, unstarted)
    /\ RunningIn(cstack') = co
    /\ ResumersIn(cstack') = ResumersIn(cstack) \cup {<<co, RunningIn(cstack)>>}
    /\ CanResume(status', unstarted') = CanResume(status, unstarted) \ {co}
    /\ Ended(cstack', status', unstarted') = Ended(cstack, status, unstarted)

LEMMA ResumeFollows ==
    ASSUME Inv, cstack # <<>>, NEW co, Idle(co), co \in CanResume(status, unstarted),
           NEW r \in Entry, r.c = "lua_resume", r.th = co,
           \/ cstack' = Append(cstack, r)
           \/ \E e \in Entry : /\ e.c = "luaV_execute" /\ e.th = co
                              /\ cstack' = Append(Append(cstack, r), e),
           status' = [status EXCEPT ![co] = "LUA_OK"],
           co \notin unstarted', unstarted' \cup {co} = unstarted \cup {co}
    PROVE  ResumesCo(co)
<1> DEFINE cs2 == Append(cstack, r)
           n == Depth + 1
<1>1. /\ cstack \in Seq(Entry) /\ Depth \in Nat /\ Depth = Len(cstack) /\ Shape(cstack, ci)
      /\ Depth >= 1 /\ status \in [Thread -> {"LUA_OK", "LUA_YIELD", "error"}]
  BY ActFacts DEF Inv, Fields, Shaped, StackTypes, Depth
<1>2. co \in Co /\ co \in Thread /\ \A i \in 1 .. Len(cstack) : cstack[i].th # r.th
  BY <1>1 DEF Idle, Thread
<1>3. Linked(cstack, 1)
  BY <1>1 DEF Shape
<1>4. cstack[1].c # "lua_resume"
  BY <1>3 DEF Linked
<1>5. /\ RunningIn(cs2) = co
      /\ ResumersIn(cs2) = ResumersIn(cstack) \cup {<<co, RunningIn(cstack)>>}
      /\ ThreadsIn(cs2) = ThreadsIn(cstack) \cup {co}
  BY <1>1, <1>2, <1>4, OnePushed
<1>6. /\ cs2 \in Seq(Entry) /\ Len(cs2) = n /\ n \in Nat /\ n \in 1 .. n /\ cs2[n].th = co
      /\ cs2[1] = cstack[1]
  BY <1>1
<1> HIDE DEF cs2
<1>7. ASSUME NEW st, NEW un
      PROVE  /\ RunningIn(cstack') = RunningIn(cs2) /\ ResumersIn(cstack') = ResumersIn(cs2)
             /\ Ended(cstack', st, un) = Ended(cs2, st, un)
  <2>1. CASE cstack' = cs2
    BY <2>1
  <2>2. ASSUME NEW e \in Entry, e.c = "luaV_execute", e.th = co, cstack' = Append(cs2, e)
        PROVE  /\ RunningIn(cstack') = RunningIn(cs2) /\ ResumersIn(cstack') = ResumersIn(cs2)
               /\ Ended(cstack', st, un) = Ended(cs2, st, un)
    <3> DEFINE cs3 == Append(cs2, e)
               m == n + 1
    <3>1. /\ cs3 \in Seq(Entry) /\ Len(cs3) = m /\ cs3[m] = e /\ \A i \in 1 .. n : cs3[i] = cs2[i]
          /\ n <= n /\ n <= m /\ n # 0
          /\ \A i \in n + 1 .. m : i = m
          /\ \A i \in n + 1 .. n : FALSE
      BY <1>6
    <3> HIDE DEF cs3, m
    <3>2. Between(cs2, cs3, n, co)
      BY <2>2, <3>1, <1>4, <1>6 DEF Between
    <3> HIDE DEF n
    <3>3. /\ RunningIn(cs3) = RunningIn(cs2) /\ ResumersIn(cs3) = ResumersIn(cs2)
          /\ Ended(cs3, st, un) = Ended(cs2, st, un)
      BY <3>1, <3>2, <1>6, StaysIn
    <3>4. cstack' = cs3
      BY <2>2 DEF cs3
    <3> QED BY <3>3, <3>4
  <2> QED BY <2>1, <2>2 DEF cs2
<1>8. /\ status'[co] = "LUA_OK"
      /\ \A c \in Co : c # co => status'[c] = status[c] /\ (c \in unstarted' <=> c \in unstarted)
  BY <1>1, <1>2 DEF Thread
<1>9. co \notin unstarted' /\ co \in CanResume(status, unstarted)
  OBVIOUS
<1>10. CanResume(status', unstarted') = CanResume(status, unstarted) \ {co}
  BY <1>8, <1>9 DEF CanResume
<1>11. co \notin Ended(cstack, status, unstarted)
  BY <1>9 DEF CanResume, Ended
<1>12. Ended(cs2, status', unstarted') = Ended(cstack, status, unstarted)
  BY <1>5, <1>8, <1>11 DEF Ended
<1> QED BY <1>2, <1>5, <1>7, <1>9, <1>10, <1>12 DEF ResumesCo

LEMMA ContinueFollows ==
    ASSUME Inv, ContinueCoroutine
    PROVE  \E co \in Co : ResumesCo(co)
<1>1. PICK co \in Co : /\ status[co] = "LUA_YIELD" /\ EnterResume(co)
                       /\ cstack' = Append(cstack, ResumeRecord(co)) /\ unstarted' = unstarted
  BY DEF ContinueCoroutine
<1>2. Idle(co) /\ co \notin unstarted /\ cstack # <<>> /\ Depth \in Nat /\ cstack \in Seq(Entry)
  BY <1>1 DEF Inv, Threads, Idle, EnterResume, Resumes, Running, Depth, Shaped, StackTypes
<1> DEFINE r == ResumeRecord(co)
           n == Depth + 1
<1>3. /\ Append(cstack, r) \in Seq(Entry) /\ Append(cstack, r)[n] = r /\ Len(Append(cstack, r)) = n
  <2>1. Append(cstack, r) \in Seq(Entry)
    BY <1>1, <1>2, ResumeCounts
  <2>2. Append(cstack, r)[n] = r /\ Len(Append(cstack, r)) = n
    BY <1>2 DEF Depth
  <2> QED BY <2>1, <2>2
<1>4. n \in 1 .. n
  BY <1>2
<1>5. r \in Entry
  BY <1>3, <1>4
<1>6. r.c = "lua_resume" /\ r.th = co
  BY DEF ResumeRecord
<1>7. co \in CanResume(status, unstarted)
  BY <1>1 DEF CanResume
<1>8. status' = [status EXCEPT ![co] = "LUA_OK"]
  BY <1>1 DEF EnterResume
<1> HIDE DEF r
<1>9. cstack' = Append(cstack, r)
  BY <1>1 DEF r
<1>10. co \notin unstarted' /\ unstarted' \cup {co} = unstarted \cup {co}
  BY <1>1, <1>2
<1>11. ResumesCo(co)
  BY <1>2, <1>5, <1>6, <1>7, <1>8, <1>9, <1>10, ResumeFollows
<1> QED BY <1>11

LEMMA StartFollows ==
    ASSUME Inv, StartCoroutine
    PROVE  \E co \in Co : ResumesCo(co)
<1>1. PICK co \in {c \in unstarted : MaxFrames[c] > 0} :
        /\ EnterResume(co)
        /\ unstarted' = unstarted \ {co}
        /\ \/ cstack' = Append(Append(cstack, ResumeRecord(co)),
                               [c |-> "luaV_execute", th |-> co, ci |-> 0])
           \/ cstack' = Append(cstack, ResumeRecord(co))
  BY DEF StartCoroutine
<1>2. co \in unstarted /\ co \in Co /\ unstarted \subseteq Co
  BY <1>1 DEF Inv, Fields
<1>3. Idle(co) /\ cstack # <<>> /\ status[co] = "LUA_OK" /\ Depth \in Nat /\ cstack \in Seq(Entry)
  <2>1. \A i \in 1 .. Depth : cstack[i].th # co
    BY <1>2 DEF Inv, Threads, Depth
  <2>2. status[co] = "LUA_OK"
    BY <1>2 DEF Inv, Threads
  <2> QED BY <2>1, <2>2, <1>1, <1>2
          DEF Idle, EnterResume, Resumes, Running, Inv, Shaped, StackTypes, Depth
<1> DEFINE r == ResumeRecord(co)
           e == [c |-> "luaV_execute", th |-> co, ci |-> 0]
           n == Depth + 1
<1>4. /\ Append(cstack, r) \in Seq(Entry) /\ Append(cstack, r)[n] = r /\ Len(Append(cstack, r)) = n
  <2>1. Append(cstack, r) \in Seq(Entry)
    BY <1>1, <1>3, ResumeCounts
  <2>2. Append(cstack, r)[n] = r /\ Len(Append(cstack, r)) = n
    BY <1>3 DEF Depth
  <2> QED BY <2>1, <2>2
<1>5. n \in 1 .. n
  BY <1>3
<1>6. r \in Entry
  BY <1>4, <1>5
<1>7. r.c = "lua_resume" /\ r.th = co
  BY DEF ResumeRecord
<1>8. e \in Entry /\ e.c = "luaV_execute" /\ e.th = co
  BY <1>2 DEF Entry, Thread
<1>9. co \in CanResume(status, unstarted)
  BY <1>2, <1>3 DEF CanResume
<1>10. status' = [status EXCEPT ![co] = "LUA_OK"]
  BY <1>1 DEF EnterResume
<1> HIDE DEF r, e
<1>11. \/ cstack' = Append(cstack, r)
       \/ \E x \in Entry : /\ x.c = "luaV_execute" /\ x.th = co
                          /\ cstack' = Append(Append(cstack, r), x)
  BY <1>1, <1>8 DEF r, e
<1>12. co \notin unstarted' /\ unstarted' \cup {co} = unstarted \cup {co}
  BY <1>1, <1>2
<1>13. ResumesCo(co)
  BY <1>3, <1>6, <1>7, <1>9, <1>10, <1>11, <1>12, ResumeFollows
<1> QED BY <1>2, <1>13

(* What it says of the step that leaves the running coroutine.             *)
Leaves ==
    /\ \E t \in {Main} \cup Co :
        /\ <<RunningIn(cstack), t>> \in ResumersIn(cstack)
        /\ RunningIn(cstack') = t
        /\ ResumersIn(cstack') = ResumersIn(cstack) \ {<<RunningIn(cstack), t>>}
    /\ \/ /\ CanResume(status', unstarted') = CanResume(status, unstarted) \cup {RunningIn(cstack)}
          /\ Ended(cstack', status', unstarted') = Ended(cstack, status, unstarted)
       \/ /\ Ended(cstack', status', unstarted')
                = Ended(cstack, status, unstarted) \cup {RunningIn(cstack)}
          /\ CanResume(status', unstarted') = CanResume(status, unstarted)

LEMMA LeaveFollows ==
    ASSUME Inv, cstack # <<>>, NEW j \in 1 .. Depth, cstack[j].c = "lua_resume",
           \A i \in j .. Depth : cstack[i].th = L, cstack' = SubSeq(cstack, 1, j - 1),
           NEW new \in {"LUA_OK", "LUA_YIELD", "error"}, status' = [status EXCEPT ![L] = new],
           unstarted' = unstarted
    PROVE  Leaves
<1> DEFINE k == j - 1
           r == cstack[j]
           rest == SubSeq(cstack, 1, k)
           cut == SubSeq(cstack, 1, j)
<1>1. /\ cstack \in Seq(Entry) /\ Depth \in Nat /\ Depth = Len(cstack) /\ Shape(cstack, ci)
      /\ status \in [Thread -> {"LUA_OK", "LUA_YIELD", "error"}]
  BY DEF Inv, Fields, Shaped, StackTypes, Depth
<1>2. j \in Nat /\ j \in j .. Depth /\ j \in 1 .. j /\ j \in 0 .. Depth /\ k \in Nat /\ k \in 0 .. Depth
  BY <1>1
<1>3. r.th = L /\ r.c = "lua_resume" /\ r \in Entry
  BY <1>1, <1>2
<1>4. /\ \A i \in 1 .. k : cstack[i].th # L
      /\ j > 1 /\ L \in Co /\ L # Main /\ L \in Thread
  <2>1. /\ \A i \in 1 .. j - 1 : cstack[i].th # L
        /\ j > 1 /\ L \in Co /\ L # Main
    BY <1>3, NoneBelow DEF Inv
  <2> QED BY <2>1 DEF Thread
<1>5. Linked(cstack, 1)
  BY <1>1 DEF Shape
<1>6. cstack[1].c # "lua_resume"
  BY <1>5 DEF Linked
<1>7. /\ k + 1 = j /\ k <= j /\ j <= j /\ j <= Depth /\ k \in 1 .. k /\ k # 0 /\ 1 \in 1 .. k /\ j # 0
      /\ \A i \in 1 .. j : i \in 1 .. k \/ i = j
      /\ \A i \in j + 1 .. Depth : i \in j .. Depth /\ i \in 1 .. Depth /\ j \in 1 .. i - 1
      /\ \A i \in j + 1 .. j : FALSE
  BY <1>1, <1>2, <1>4
<1>8. cut \in Seq(Entry) /\ Len(cut) = j /\ \A i \in 1 .. j : cut[i] = cstack[i]
  BY <1>1, <1>2, PrefixFacts DEF Depth
<1>9. rest \in Seq(Entry) /\ Len(rest) = k /\ \A i \in 1 .. k : rest[i] = cstack[i]
  BY <1>1, <1>2, PrefixFacts DEF Depth
<1> HIDE DEF k, rest, cut
<1>10. /\ rest # <<>> /\ rest[1].c # "lua_resume"
       /\ \A i \in 1 .. Len(rest) : rest[i].th # r.th
  <2>1. rest # <<>>
    BY <1>7, <1>9, NotEmpty
  <2> QED BY <2>1, <1>3, <1>4, <1>6, <1>7, <1>9
<1>11. cut = Append(rest, r)
  <2> DEFINE a == Append(rest, r)
  <2>1. /\ a \in Seq(Entry) /\ Len(a) = k + 1 /\ a[k + 1] = r /\ \A i \in 1 .. k : a[i] = rest[i]
    BY <1>3, <1>9
  <2> HIDE DEF a
  <2>2. \A i \in 1 .. j : a[i] = cut[i]
    BY <2>1, <1>7, <1>8, <1>9
  <2>3. a = cut
    BY <2>1, <2>2, <1>7, <1>8, SeqEqual
  <2> QED BY <2>3 DEF a
<1> HIDE DEF r
<1>12. /\ RunningIn(cut) = L
       /\ ResumersIn(cut) = ResumersIn(rest) \cup {<<L, RunningIn(rest)>>}
       /\ <<L, RunningIn(rest)>> \notin ResumersIn(rest)
       /\ ThreadsIn(cut) = ThreadsIn(rest) \cup {L}
  <2> DEFINE a == Append(rest, r)
  <2>1. /\ RunningIn(a) = r.th
        /\ ResumersIn(a) = ResumersIn(rest) \cup {<<r.th, RunningIn(rest)>>}
        /\ <<r.th, RunningIn(rest)>> \notin ResumersIn(rest)
        /\ ThreadsIn(a) = ThreadsIn(rest) \cup {r.th}
    BY <1>3, <1>9, <1>10, OnePushed
  <2> QED BY <2>1, <1>3, <1>11
<1>13. ASSUME NEW i \in j + 1 .. Depth PROVE cstack[i].th = L /\ cstack[i].c # "lua_resume"
  <2>1. i \in 1 .. Depth /\ j \in 1 .. i - 1 /\ cstack[i].th = L
    BY <1>7
  <2>2. cstack[i].c = "lua_resume" => \A l \in 1 .. i - 1 : cstack[l].th # L
    BY <2>1, NoneBelow DEF Inv
  <2>3. cstack[j].th = L
    BY <1>3 DEF r
  <2> QED BY <2>1, <2>2, <2>3
<1>14. Between(cstack, cut, j, L)
  <2>1. cstack[j].th = L
    BY <1>3 DEF r
  <2> QED BY <2>1, <1>1, <1>6, <1>7, <1>8, <1>13 DEF Between
<1>15. /\ RunningIn(cut) = RunningIn(cstack) /\ ResumersIn(cut) = ResumersIn(cstack)
       /\ Ended(cut, status, unstarted) = Ended(cstack, status, unstarted)
  BY <1>1, <1>2, <1>8, <1>14, StaysIn
<1>16. /\ cstack' = rest /\ status' = [status EXCEPT ![L] = new] /\ unstarted' = unstarted
  BY DEF rest, k
<1>17. RunningIn(rest) \in {Main} \cup Co
  <2>1. RunningIn(rest) = rest[k].th
    BY <1>9, <1>10 DEF RunningIn, Last
  <2>2. rest[k] \in Entry
    BY <1>7, <1>9
  <2> QED BY <2>1, <2>2, EntryFields DEF Thread
<1>18. L \notin unstarted
  BY RunsOK
<1>19. /\ status[L] = "LUA_OK" /\ status'[L] = new
       /\ \A c \in Co : c # L => status'[c] = status[c]
  BY <1>1, <1>4, <1>16, RunsOK DEF Thread
<1>20. L \notin ThreadsIn(rest)
  BY <1>3, <1>9, <1>10 DEF ThreadsIn
<1>21. L \in ThreadsIn(cut)
  BY <1>12
<1> DEFINE t == RunningIn(rest)
<1>22. /\ t \in {Main} \cup Co
       /\ <<L, t>> \in ResumersIn(cstack)
       /\ RunningIn(cstack') = t
       /\ ResumersIn(cstack') = ResumersIn(cstack) \ {<<L, t>>}
       /\ RunningIn(cstack) = L
  <2>1. ResumersIn(cstack) = ResumersIn(rest) \cup {<<L, t>>} /\ <<L, t>> \notin ResumersIn(rest)
    BY <1>12, <1>15
  <2>2. ResumersIn(rest) = ResumersIn(cstack) \ {<<L, t>>}
    BY <2>1
  <2> QED BY <2>1, <2>2, <1>12, <1>15, <1>16, <1>17
<1> HIDE DEF t
<1>23. \E x \in {Main} \cup Co :
        /\ <<RunningIn(cstack), x>> \in ResumersIn(cstack)
        /\ RunningIn(cstack') = x
        /\ ResumersIn(cstack') = ResumersIn(cstack) \ {<<RunningIn(cstack), x>>}
  BY <1>22
<1>24. CASE new = "LUA_YIELD"
  <2>1. CanResume(status', unstarted') = CanResume(status, unstarted) \cup {L}
    BY <1>4, <1>16, <1>18, <1>19, <1>24 DEF CanResume
  <2>2. Ended(rest, status', unstarted') = Ended(cut, status, unstarted)
    BY <1>4, <1>12, <1>16, <1>18, <1>19, <1>20, <1>21, <1>24 DEF Ended
  <2> QED BY <2>1, <2>2, <1>15, <1>16, <1>22, <1>23 DEF Leaves
<1>25. CASE new # "LUA_YIELD"
  <2>1. CanResume(status', unstarted') = CanResume(status, unstarted)
    BY <1>4, <1>16, <1>18, <1>19, <1>25 DEF CanResume
  <2>2. Ended(rest, status', unstarted') = Ended(cut, status, unstarted) \cup {L}
    BY <1>4, <1>12, <1>16, <1>18, <1>19, <1>20, <1>21, <1>25 DEF Ended
  <2> QED BY <2>1, <2>2, <1>15, <1>16, <1>22, <1>23 DEF Leaves
<1> QED BY <1>24, <1>25

LEMMA LeavesFollow ==
    ASSUME Inv, CoroutineEnds \/ CoroutineFails \/ Yield
    PROVE  Leaves
<1>1. CASE CoroutineEnds
  <2>1. /\ Unrolls /\ cstack' = Front(cstack) /\ status' = [status EXCEPT ![L] = "LUA_OK"]
        /\ unstarted' = unstarted
    BY <1>1 DEF CoroutineEnds, LeaveResume
  <2>2. cstack # <<>> /\ Act.c = "lua_resume"
    BY <2>1, UnrollFacts DEF Inv
  <2>3. /\ Depth \in 1 .. Depth /\ cstack[Depth].c = "lua_resume" /\ cstack[Depth].th = L
        /\ cstack \in Seq(Entry) /\ Depth = Len(cstack) /\ Depth \in Nat
    BY <2>2, ActFacts DEF Inv, Shaped, StackTypes, Depth, Act
  <2>4. cstack' = SubSeq(cstack, 1, Depth - 1)
    <3>1. SubSeq(cstack, 1, Depth) = cstack
      BY <2>3, WholeSequence
    <3> QED BY <3>1, <2>1, <2>3, FrontPrefix
  <2>5. \A i \in Depth .. Depth : cstack[i].th = L
    <3>1. \A i \in Depth .. Depth : i = Depth
      BY <2>3
    <3> QED BY <3>1, <2>3
  <2>6. PICK new \in {"LUA_OK", "LUA_YIELD", "error"} : new = "LUA_OK"
    OBVIOUS
  <2>7. status' = [status EXCEPT ![L] = new]
    BY <2>1, <2>6
  <2> QED BY <2>1, <2>2, <2>3, <2>4, <2>5, <2>7, LeaveFollows
<1>2. CASE CoroutineFails \/ Yield
  <2>1. PICK new \in {"LUA_OK", "LUA_YIELD", "error"} :
          /\ raise = "throw" \/ RunsC("yield")
          /\ Jmp.c = "lua_resume" /\ cstack' = SubSeq(cstack, 1, Setjmp - 1)
          /\ status' = [status EXCEPT ![L] = new] /\ unstarted' = unstarted
    <3>1. "LUA_YIELD" \in {"LUA_OK", "LUA_YIELD", "error"} /\ "error" \in {"LUA_OK", "LUA_YIELD", "error"}
      OBVIOUS
    <3> QED BY <3>1, <1>2, Zenon DEF CoroutineFails, Yield
  <2>2. cstack # <<>>
    BY <2>1, Raised DEF Inv, RunsC, Running
  <2>3. /\ Setjmp \in 1 .. Depth /\ Jmp = cstack[Setjmp]
        /\ \A i \in Setjmp .. Depth : cstack[i].th = L
    BY <2>2, JmpRemembers
  <2> QED BY <2>1, <2>2, <2>3, LeaveFollows
<1> QED BY <1>1, <1>2

LEMMA NextFollows ==
    ASSUME Inv, Inv', Next
    PROVE  Stays \/ Leaves \/ \E co \in Co : ResumesCo(co)
<1>1. CASE DoCall
  BY <1>1, DoCallStays
<1>2. CASE CallTM \/ Hook \/ CallK \/ LuaCall \/ ErrorMsg \/ Finalizer \/ PCallK
  BY <1>2, CallsStay
<1>3. CASE OpCall \/ MemoryError \/ RaiseError \/ ResumeRefused \/ FinishCCall \/ FinishOp
  BY <1>3, StepsStay
<1>4. CASE ReturnToLua \/ ReturnToResume
  BY <1>4, ReturnsStay
<1>5. CASE MetamethodEnds \/ HookEnds \/ HandlerEnds \/ CFunctionGoesOn \/ PCallEnds
  BY <1>5, EndsStay
<1>6. CASE StartCoroutine
  BY <1>6, StartFollows
<1>7. CASE ContinueCoroutine
  BY <1>7, ContinueFollows
<1>8. CASE CoroutineEnds \/ CoroutineFails \/ Yield
  BY <1>8, LeavesFollow
<1>9. CASE ThrowToPCall \/ Recover
  BY <1>9, ThrowsStay
<1> QED BY <1>1, <1>2, <1>3, <1>4, <1>5, <1>6, <1>7, <1>8, <1>9 DEF Next

(* Each step of the calls is one that the protocol of the coroutines       *)
(* allows, or none of its steps.                                           *)
THEOREM CoroutinesFollow == Spec => FollowsProtocol
<1>1. Init => Protocol!Init
  <2> SUFFICES ASSUME Init PROVE Protocol!Init
    OBVIOUS
  <2>1. /\ cstack = <<>> /\ unstarted = Co /\ \A th \in Thread : status[th] = "LUA_OK"
    BY DEF Init
  <2>2. DOMAIN cstack = {}
    BY <2>1
  <2>3. \A co \in Co : status[co] = "LUA_OK"
    BY <2>1 DEF Thread
  <2> QED BY <2>1, <2>2, <2>3 DEF Protocol!Init, RunningThread, ResumesAt, Active
<1>2. Inv /\ Inv' /\ [Next]_vars =>
        [Protocol!Next]_<<RunningThread, {<<cstack[i].th, cstack[i - 1].th>> : i \in ResumesAt},
                          {co \in Co : \/ status[co] = "LUA_YIELD"
                                       \/ status[co] = "LUA_OK" /\ co \in unstarted},
                          {co \in Co \ Active : \/ status[co] = "error"
                                                \/ status[co] = "LUA_OK" /\ co \notin unstarted}>>
  <2> SUFFICES ASSUME Inv, Inv', [Next]_vars
               PROVE  [Protocol!Next]_<<RunningThread, {<<cstack[i].th, cstack[i - 1].th>> : i \in ResumesAt},
                          {co \in Co : \/ status[co] = "LUA_YIELD"
                                       \/ status[co] = "LUA_OK" /\ co \in unstarted},
                          {co \in Co \ Active : \/ status[co] = "error"
                                                \/ status[co] = "LUA_OK" /\ co \notin unstarted}>>
    OBVIOUS
  <2>1. Stays \/ Leaves \/ \E co \in Co : ResumesCo(co)
    <3>1. CASE UNCHANGED vars
      BY <3>1 DEF vars, fields, Stays
    <3> QED BY <3>1, NextFollows
  <2>2. CASE Stays
    BY <2>2 DEF Stays, RunningIn, ResumersIn, CanResume, Ended, ThreadsIn, RunningThread, ResumesAt, Active, L
  <2>3. CASE Leaves
    <3>1. Protocol!Leave
      BY <2>3 DEF Leaves, RunningIn, ResumersIn, CanResume, Ended, ThreadsIn, RunningThread, ResumesAt, Active, L, Protocol!Leave
    <3> QED BY <3>1 DEF Protocol!Next
  <2>4. ASSUME NEW co \in Co, ResumesCo(co) PROVE Protocol!Resume(co)
    BY <2>4 DEF ResumesCo, RunningIn, ResumersIn, CanResume, Ended, ThreadsIn, RunningThread, ResumesAt, Active, L, Protocol!Resume
  <2> QED BY <2>1, <2>2, <2>3, <2>4 DEF Protocol!Next
<1>3. Spec => []Inv
  BY StacksFit
<1> QED BY <1>1, <1>2, <1>3, PTL DEF Spec, FollowsProtocol, Protocol!Spec

==============================================================================
