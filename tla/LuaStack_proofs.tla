---------------------------- MODULE LuaStack_proofs ----------------------------
(* No value is outside the memory of its stack, for every limit, frame size   *)
(* and number of values.  What a call returns fits because the caller left    *)
(* room for it when it called, and an error finds the frame and the slot that *)
(* lua_pcallk noted because the frames above it were entered later.           *)
EXTENDS LuaStack, WellFoundedInduction, SequenceTheorems, TLAPS

CallInfo == [func : Nat, base : Nat, top : Nat, lua : BOOLEAN, wanted : Nat \cup {MULTRET},
             then : {"continue", "pcall", "tm", "throw"}]
Protected == [ci : Nat, old_top : Nat, old_errfunc : BOOLEAN]

StackTypes ==
  /\ stacksize \in Nat /\ top \in Nat /\ start \in Nat /\ func \in Nat /\ errfunc \in BOOLEAN
  /\ wanted \in Nat \cup {MULTRET} /\ then \in {"continue", "pcall", "tm", "throw", "tail"}
  /\ pc \in {"run", "call", "message", "error", "throw", "dead"}
  /\ frames \in Seq(CallInfo) /\ Len(frames) >= 1 /\ pcalls \in Seq(Protected)

SizeFits == stacksize <= LUAI_MAXSTACK \/ stacksize = ERRORSTACKSIZE

FramesFit ==
  \A k \in DOMAIN frames :
    /\ frames[k].func < frames[k].base /\ frames[k].top <= stacksize
    /\ pc # "dead" => frames[k].base <= frames[k].top /\ frames[k].top + EXTRA_STACK <= stacksize

(* A caller has room for the results it wants: those of an error's handler    *)
(* are not returned to a frame.                                               *)
ResultsFit ==
  pc # "dead" => \A k \in 2 .. Len(frames) :
    /\ frames[k].then # "throw" /\ frames[k].wanted # MULTRET =>
         frames[k].func + frames[k].wanted <= frames[k - 1].top
    /\ frames[k].then = "tm" => frames[k].wanted # MULTRET

(* A metamethod with its arguments is EXTRA_STACK - 1 slots, a handler one.   *)
TopFits ==
  /\ top <= stacksize
  /\ pc \in {"run", "message", "error"} => top + EXTRA_STACK <= stacksize
  /\ pc = "run" /\ ~ci.lua => top <= ci.top
  /\ pc = "message" => start <= top
  /\ pc = "error" => top >= 1
  /\ pc = "call" =>
       /\ top + EXTRA_STACK <= stacksize + 4 /\ func < top
       /\ then # "throw" /\ wanted # MULTRET => func + wanted <= ci.top
       /\ then = "tail" => wanted = MULTRET /\ func >= ci.base
       /\ then = "tm" => wanted # MULTRET
  /\ pc = "throw" => top + 1 <= stacksize

(* The calls of luaD_pcall are those of the frames they have entered, in order*)
(* (the last one may not have entered its frame yet).                         *)
PcallsFit ==
  pc # "dead" =>
    /\ \A e \in DOMAIN pcalls :
         /\ pcalls[e].ci \in 1 .. Len(frames)
         /\ pcalls[e].old_top + 1 <= frames[pcalls[e].ci].top
         /\ pcalls[e].ci < Len(frames) => frames[pcalls[e].ci + 1].then \in {"pcall", "throw"}
         /\ pc = "run" \/ (pc = "call" /\ then \notin {"pcall", "throw"}) => pcalls[e].ci < Len(frames)
    /\ \A d, e \in DOMAIN pcalls : d < e => pcalls[d].ci < pcalls[e].ci
    /\ \A k \in 2 .. Len(frames) : frames[k].then = "pcall" => \E e \in DOMAIN pcalls : pcalls[e].ci = k - 1
    /\ pc = "call" /\ then = "pcall" => \E e \in DOMAIN pcalls : pcalls[e].ci = Len(frames)

(* The inductive invariant.                                                   *)
StackInv == StackTypes /\ SizeFits /\ FramesFit /\ ResultsFit /\ TopFits /\ PcallsFit

--------------------------------------------------------------------------------
(* Facts of use in all steps.                                                 *)

(* A set of numbers up to n has a largest one.                                *)
LEMMA MaxExists ==
  ASSUME NEW n \in Nat, NEW S \in SUBSET (0 .. n), S # {}
  PROVE  \E x \in S : \A y \in S : y <= x
<1> DEFINE T == {n - x : x \in S}
<1>1. T \subseteq Nat /\ T # {}
  <2>1. PICK x \in S : TRUE
    OBVIOUS
  <2>2. n - x \in T
    OBVIOUS
  <2>3. T \subseteq Nat
    OBVIOUS
  <2> QED
    BY <2>2, <2>3
<1>2. PICK least \in T : \A y \in T : ~(<<y, least>> \in OpToRel(<, Nat))
  <2> HIDE DEF T
  <2> QED
    BY <1>1, NatLessThanWellFounded, WFMin
<1>3. \A y \in T : ~(y < least)
  <2> SUFFICES ASSUME NEW y \in T, y < least PROVE FALSE
    OBVIOUS
  <2>1. y \in Nat /\ least \in Nat
    BY <1>1
  <2>2. <<y, least>> \in OpToRel(<, Nat)
    BY <2>1 DEF OpToRel
  <2> QED
    BY <1>2, <2>2
<1>4. PICK x \in S : least = n - x
  OBVIOUS
<1>5. \A y \in S : y <= x
  <2> SUFFICES ASSUME NEW y \in S PROVE y <= x
    OBVIOUS
  <2>1. n - y \in T
    OBVIOUS
  <2>2. ~(n - y < n - x)
    BY <1>3, <1>4, <2>1
  <2> QED
    BY <2>2
<1> QED
  BY <1>5

LEMMA Sizes ==
  /\ LUAI_MAXSTACK \in Nat /\ EXTRA_STACK \in Nat /\ LUA_MINSTACK \in Nat /\ ErrorSpace \in Nat
  /\ BASIC_STACK_SIZE \in Nat /\ ERRORSTACKSIZE \in Nat
  /\ LUAI_MAXSTACK < ERRORSTACKSIZE - EXTRA_STACK
  BY StackAssumption DEF BASIC_STACK_SIZE, ERRORSTACKSIZE

(* What is below something with EXTRA_STACK slots above it has them too.      *)
LEMMA Room ==
  ASSUME NEW t \in Nat, NEW u \in Nat, NEW size \in Nat, t <= u, u + EXTRA_STACK <= size
  PROVE  t + EXTRA_STACK <= size /\ t <= size
  BY StackAssumption

LEMMA CurrentFrame ==
  ASSUME StackInv
  PROVE  /\ Len(frames) \in Nat /\ Len(frames) \in DOMAIN frames /\ DOMAIN frames = 1 .. Len(frames)
         /\ ci \in CallInfo /\ ci.func \in Nat /\ ci.base \in Nat /\ ci.top \in Nat
         /\ ci.func < ci.base /\ ci.top <= stacksize
         /\ pc # "dead" => ci.base <= ci.top /\ ci.top + EXTRA_STACK <= stacksize
<1>1. frames \in Seq(CallInfo) /\ Len(frames) >= 1
  BY DEF StackInv, StackTypes
<1>2. Len(frames) \in Nat /\ Len(frames) \in DOMAIN frames /\ DOMAIN frames = 1 .. Len(frames) /\ ci \in CallInfo
  BY <1>1 DEF ci
<1>3. ci.func \in Nat /\ ci.base \in Nat /\ ci.top \in Nat
  BY <1>2 DEF CallInfo
<1> QED
  BY <1>2, <1>3 DEF StackInv, FramesFit, ci

LEMMA AllFrames ==
  ASSUME StackInv, NEW k \in DOMAIN frames
  PROVE  /\ k \in 1 .. Len(frames) /\ frames[k] \in CallInfo
         /\ frames[k].func \in Nat /\ frames[k].base \in Nat /\ frames[k].top \in Nat
         /\ frames[k].wanted \in Nat \cup {MULTRET}
<1>1. frames \in Seq(CallInfo)
  BY DEF StackInv, StackTypes
<1>2. k \in 1 .. Len(frames) /\ frames[k] \in CallInfo
  BY <1>1
<1> QED
  BY <1>2 DEF CallInfo

(* A stack that grows has room for n more slots below its extra ones.         *)
LEMMA Grows ==
  ASSUME StackInv, NEW n \in Nat, luaD_checkstack(n)
  PROVE  stacksize' \in Nat /\ stacksize' >= stacksize /\ SizeFits' /\ top + n + EXTRA_STACK <= stacksize'
<1>1. stacksize \in Nat /\ top \in Nat /\ SizeFits
  BY DEF StackInv, StackTypes
<1>2. CASE Enough(n) /\ stacksize' = stacksize
  BY <1>1, <1>2, Sizes DEF Enough, stack_last, SizeFits
<1>3. CASE ~Enough(n) /\ newsize(n) <= LUAI_MAXSTACK /\ stacksize' = newsize(n)
  <2>1. newsize(n) \in Nat /\ newsize(n) >= top + n + EXTRA_STACK
    BY <1>1, Sizes DEF newsize
  <2>2. stacksize <= top + n + EXTRA_STACK
    BY <1>1, <1>3, Sizes DEF Enough, stack_last
  <2> QED
    BY <1>1, <1>3, <2>1, <2>2, Sizes DEF SizeFits
<1> QED
  BY <1>2, <1>3 DEF luaD_checkstack

(* The frames of a stack that does not shrink; and the calls of luaD_pcall.   *)
LEMMA FramesStay ==
  ASSUME StackInv, pc # "dead", stacksize' \in Nat, stacksize' >= stacksize, frames' = frames
  PROVE  FramesFit' /\ ResultsFit'
<1>1. FramesFit'
  <2> SUFFICES ASSUME NEW k \in DOMAIN frames
               PROVE  /\ frames[k].func < frames[k].base /\ frames[k].base <= frames[k].top
                      /\ frames[k].top <= stacksize' /\ frames[k].top + EXTRA_STACK <= stacksize'
    BY DEF FramesFit
  <2>1. frames[k].top \in Nat /\ stacksize \in Nat
    BY AllFrames DEF StackInv, StackTypes
  <2>2. /\ frames[k].func < frames[k].base /\ frames[k].base <= frames[k].top
        /\ frames[k].top <= stacksize /\ frames[k].top + EXTRA_STACK <= stacksize
    BY DEF StackInv, FramesFit
  <2> QED
    BY <2>1, <2>2, Sizes
<1> QED
  BY <1>1 DEF StackInv, ResultsFit
LEMMA PcallsStay ==
  ASSUME StackInv, pc # "dead", UNCHANGED <<frames, pcalls>>,
         \/ pc' \in {"message", "error", "throw"}
         \/ pc = "run" /\ pc' = "run"
         \/ pc = "run" /\ pc' = "call" /\ then' # "pcall"
         \/ pc = "call" /\ pc' = "call" /\ then' = then
         \/ pc' = "call" /\ then' = "throw"
  PROVE  PcallsFit'
  BY DEF StackInv, PcallsFit

(* An overflow: the error stack is larger than any other, and a thread that   *)
(* already has it throws.                                                     *)
LEMMA Overflows ==
  ASSUME StackInv, pc \in {"run", "call", "message"}, NEW n \in Nat, Overflow(n)
  PROVE  StackInv'
<1>1. stacksize \in Nat /\ top \in Nat /\ SizeFits /\ StackTypes
  BY DEF StackInv, StackTypes
<1>2. UNCHANGED <<top, frames, free, pcalls, errfunc>> /\ func' = 0 /\ then' = "continue" /\ wanted' = 0
  BY DEF Overflow, Called
<1>3. CASE stacksize > LUAI_MAXSTACK /\ pc' = "throw" /\ start' = 0 /\ UNCHANGED stacksize
  <2>1. StackTypes' /\ SizeFits'
    BY <1>1, <1>2, <1>3 DEF StackTypes, SizeFits, MULTRET
  <2>2. stacksize' \in Nat /\ stacksize' >= stacksize
    BY <1>1, <1>3
  <2>3. FramesFit' /\ ResultsFit'
    BY <1>2, <2>2, FramesStay
  <2>4. PcallsFit'
    BY <1>2, <1>3, PcallsStay
  <2>5. top + 1 <= stacksize
    BY <1>1, Sizes, StackAssumption DEF StackInv, TopFits
  <2>6. TopFits'
    <3>1. top' = top /\ stacksize' = stacksize
      BY <1>2, <1>3
    <3>2. top' + 1 <= stacksize' /\ top' <= stacksize'
      BY <1>1, <2>5, <3>1
    <3>3. pc' = "throw"
      BY <1>3
    <3> QED
      BY <3>2, <3>3 DEF TopFits
  <2> QED
    BY <2>1, <2>3, <2>4, <2>6 DEF StackInv
<1>4. CASE stacksize <= LUAI_MAXSTACK /\ stacksize' = ERRORSTACKSIZE /\ pc' = "message" /\ start' = top
  <2>1. StackTypes' /\ SizeFits'
    BY <1>1, <1>2, <1>4, Sizes DEF StackTypes, SizeFits, MULTRET
  <2>2. stacksize' >= stacksize /\ stacksize' \in Nat
    BY <1>1, <1>4, Sizes
  <2>3. FramesFit' /\ ResultsFit'
    BY <1>2, <2>2, FramesStay
  <2>4. PcallsFit'
    BY <1>2, <1>4, PcallsStay
  <2>5. top + EXTRA_STACK <= stacksize' /\ top <= stacksize'
    BY <1>1, <1>4, Sizes DEF StackInv, TopFits
  <2>6. TopFits'
    <3>1. top' = top /\ start' = top
      BY <1>2, <1>4
    <3>2. top' <= stacksize' /\ top' + EXTRA_STACK <= stacksize' /\ start' <= top'
      BY <1>1, <2>5, <3>1
    <3>3. pc' = "message"
      BY <1>4
    <3> QED
      BY <3>2, <3>3 DEF TopFits
  <2> QED
    BY <2>1, <2>3, <2>4, <2>6 DEF StackInv
<1> QED
  BY <1>3, <1>4 DEF Overflow

(* A step that leaves the frames as they are.                                 *)
LEMMA SameFrames ==
  ASSUME StackInv, pc # "dead", frames' = frames, stacksize' >= stacksize,
         StackTypes', SizeFits', TopFits', PcallsFit'
  PROVE  StackInv'
<1>1. stacksize' \in Nat
  BY DEF StackTypes
<1> QED
  BY <1>1, FramesStay DEF StackInv

--------------------------------------------------------------------------------
(* What runs in a frame.                                                      *)

LEMMA SettopStep ==
  ASSUME StackInv, lua_settop
  PROVE  StackInv'
<1>1. PICK n \in Counts : ci.base + n <= ci.top /\ top' = ci.base + n
  BY DEF lua_settop
<1>2. /\ pc = "run" /\ ~ci.lua /\ UNCHANGED <<stacksize, pc, frames, free, pcalls, errfunc, func, then, wanted, start>>
  BY DEF lua_settop, Running, UNCHANGED_calls, calling
<1>3. n \in Nat /\ stacksize \in Nat /\ StackTypes /\ SizeFits
  BY StackAssumption DEF StackInv, StackTypes
<1>4. ci' = ci
  BY <1>2 DEF ci
<1>5. top' \in Nat /\ top' <= ci.top /\ top' + EXTRA_STACK <= stacksize /\ top' <= stacksize
  BY <1>1, <1>2, <1>3, CurrentFrame, Sizes
<1>6. StackTypes' /\ SizeFits'
  BY <1>2, <1>3, <1>5 DEF StackTypes, SizeFits
<1>7. TopFits'
  BY <1>2, <1>4, <1>5 DEF TopFits
<1>8. PcallsFit'
  BY <1>2, PcallsStay
<1> QED
  BY <1>2, <1>3, <1>6, <1>7, <1>8, SameFrames

LEMMA VarargStep ==
  ASSUME StackInv, OP_VARARG
  PROVE  StackInv'
<1>1. PICK n \in Counts, k \in Counts :
        /\ n < ci.base - ci.func /\ ci.base + k <= ci.top
        /\ \/ luaD_checkstack(n) /\ top' = ci.base + k + n /\ UNCHANGED pc /\ UNCHANGED_calls
           \/ Overflow(n)
  BY DEF OP_VARARG
<1>2. pc = "run" /\ ci.lua /\ top = ci.top
  BY DEF OP_VARARG, Running
<1>3. n \in Nat /\ k \in Nat /\ stacksize \in Nat /\ top \in Nat /\ StackTypes
  BY StackAssumption DEF StackInv, StackTypes
<1>4. CASE luaD_checkstack(n) /\ top' = ci.base + k + n /\ UNCHANGED pc /\ UNCHANGED_calls
  <2>1. UNCHANGED <<pc, frames, free, pcalls, errfunc, func, then, wanted, start>>
    BY <1>4 DEF UNCHANGED_calls, calling
  <2>2. stacksize' \in Nat /\ stacksize' >= stacksize /\ SizeFits' /\ top + n + EXTRA_STACK <= stacksize'
    BY <1>3, <1>4, Grows
  <2>3. ci' = ci
    BY <2>1 DEF ci
  <2>4. top' \in Nat /\ top' + EXTRA_STACK <= stacksize' /\ top' <= stacksize'
    <3>1. /\ ci.base \in Nat /\ n \in Nat /\ k \in Nat /\ top \in Nat
          /\ ci.base + k <= top /\ top' = ci.base + k + n
      BY <1>1, <1>2, <1>3, <1>4, CurrentFrame
    <3>2. top' \in Nat /\ top' <= top + n
      BY <3>1
    <3>3. top + n \in Nat
      BY <3>1
    <3> QED
      BY <2>2, <3>2, <3>3, Room
  <2>5. StackTypes'
    BY <1>3, <2>1, <2>2, <2>4 DEF StackTypes
  <2>6. TopFits'
    BY <1>2, <2>1, <2>3, <2>4 DEF TopFits
  <2>7. PcallsFit'
    BY <1>2, <2>1, PcallsStay
  <2> QED
    BY <1>2, <2>1, <2>2, <2>5, <2>6, <2>7, SameFrames
<1>5. CASE Overflow(n)
  BY <1>2, <1>3, <1>5, Overflows
<1> QED
  BY <1>1, <1>4, <1>5

(* A call notes where the function is, below the top, and how many results    *)
(* there is room for.                                                         *)
LEMMA CallStep ==
  ASSUME StackInv, NEW f \in Nat, NEW t \in Nat, NEW how, NEW w \in Nat \cup {MULTRET},
         how \in {"continue", "pcall", "tm", "throw", "tail"},
         pc # "dead", Call(f, t, how, w), t + EXTRA_STACK <= stacksize + 4, f < t,
         how # "throw" /\ w # MULTRET => f + w <= ci.top,
         how = "tail" => w = MULTRET /\ f >= ci.base,
         how = "tm" => w # MULTRET
  PROVE  /\ frames' = frames /\ stacksize' = stacksize /\ start' = start /\ pc' = "call" /\ then' = how
         /\ SizeFits' /\ TopFits' /\ func' \in Nat /\ top' \in Nat /\ wanted' \in Nat \cup {MULTRET}
<1>1. /\ frames' = frames /\ stacksize' = stacksize /\ start' = start /\ pc' = "call" /\ then' = how
      /\ func' = f /\ top' = t /\ wanted' = w
  BY DEF Call
<1>2. stacksize \in Nat /\ SizeFits
  BY DEF StackInv, StackTypes
<1>3. SizeFits'
  BY <1>1, <1>2 DEF SizeFits
<1>4. ci' = ci
  BY <1>1 DEF ci
<1>5. top' <= stacksize' /\ top' + EXTRA_STACK <= stacksize' + 4 /\ func' < top'
  <2>1. /\ EXTRA_STACK \in Nat /\ EXTRA_STACK >= 5 /\ stacksize \in Nat
    BY <1>2, StackAssumption
  <2> QED
    BY <1>1, <2>1
<1>6. TopFits'
  BY <1>1, <1>4, <1>5 DEF TopFits
<1> QED
  BY <1>1, <1>3, <1>6

LEMMA OpCallStep ==
  ASSUME StackInv, OP_CALL
  PROVE  StackInv'
<1>a. PICK k \in Counts, n \in Counts :
        /\ ci.base + k + n + 1 <= ci.top \/ ci.base + k + n + 1 = top
        /\ \E how \in {"continue", "tail"}, w \in Wanted(ci.base + k) :
             (how = "tail" => w = MULTRET) /\ Call(ci.base + k, ci.base + k + n + 1, how, w)
  BY DEF OP_CALL
<1>1. PICK how \in {"continue", "tail"}, w \in Wanted(ci.base + k) :
        /\ ci.base + k + n + 1 <= ci.top \/ ci.base + k + n + 1 = top
        /\ how = "tail" => w = MULTRET
        /\ Call(ci.base + k, ci.base + k + n + 1, how, w)
  BY <1>a
<1>2. pc = "run" /\ ci.lua /\ UNCHANGED <<pcalls, errfunc>>
  BY DEF OP_CALL, Running
<1>3. /\ n \in Nat /\ k \in Nat /\ stacksize \in Nat /\ top \in Nat /\ StackTypes
      /\ ci.base \in Nat /\ ci.top + EXTRA_STACK <= stacksize /\ top + EXTRA_STACK <= stacksize /\ ci.top \in Nat
  BY <1>2, StackAssumption, CurrentFrame DEF StackInv, StackTypes, TopFits
<1>4. w = MULTRET \/ (w \in Nat /\ ci.base + k + w <= ci.top)
  BY StackAssumption DEF Wanted
<1>5. /\ ci.base + k \in Nat /\ ci.base + k + n + 1 \in Nat /\ ci.base + k >= ci.base
      /\ ci.base + k < ci.base + k + n + 1 /\ ci.base + k + n + 1 + EXTRA_STACK <= stacksize + 4
  BY <1>1, <1>3, Sizes
<1>6. /\ frames' = frames /\ stacksize' = stacksize /\ start' = start /\ pc' = "call" /\ then' = how
      /\ SizeFits' /\ TopFits' /\ func' \in Nat /\ top' \in Nat /\ wanted' \in Nat \cup {MULTRET}
  <2> DEFINE f == ci.base + k
             t == ci.base + k + n + 1
  <2>1. /\ f \in Nat /\ t \in Nat /\ how \in {"continue", "pcall", "tm", "throw", "tail"} /\ w \in Nat \cup {MULTRET}
        /\ pc # "dead" /\ Call(f, t, how, w) /\ t + EXTRA_STACK <= stacksize + 4 /\ f < t
    BY <1>1, <1>2, <1>4, <1>5
  <2>2. how # "throw" /\ w # MULTRET => f + w <= ci.top
    BY <1>4
  <2>3. (how = "tail" => w = MULTRET /\ f >= ci.base) /\ how # "tm"
    BY <1>1, <1>5
  <2> HIDE DEF f, t
  <2> QED
    BY <2>1, <2>2, <2>3, CallStep
<1>7. StackTypes'
  BY <1>2, <1>3, <1>6 DEF StackTypes
<1>8. PcallsFit'
  BY <1>2, <1>6, PcallsStay
<1>9. stacksize' >= stacksize
  <2>1. stacksize \in Nat /\ stacksize' = stacksize
    BY <1>3, <1>6
  <2> QED
    BY <2>1
<1> QED
  BY <1>2, <1>6, <1>7, <1>8, <1>9, SameFrames

LEMMA CallkStep ==
  ASSUME StackInv, lua_callk
  PROVE  StackInv'
<1>a. PICK k \in Counts : ci.base + k < top /\ \E w \in Wanted(ci.base + k) : Call(ci.base + k, top, "continue", w)
  BY DEF lua_callk
<1>1. PICK w \in Wanted(ci.base + k) : ci.base + k < top /\ Call(ci.base + k, top, "continue", w)
  BY <1>a
<1>2. pc = "run" /\ UNCHANGED <<pcalls, errfunc>>
  BY DEF lua_callk, Running
<1>3. k \in Nat /\ stacksize \in Nat /\ top \in Nat /\ StackTypes /\ ci.base \in Nat /\ top + EXTRA_STACK <= stacksize /\ ci.top \in Nat
  BY <1>2, StackAssumption, CurrentFrame DEF StackInv, StackTypes, TopFits
<1>4. w = MULTRET \/ (w \in Nat /\ ci.base + k + w <= ci.top)
  BY StackAssumption DEF Wanted
<1>5. ci.base + k \in Nat /\ top + EXTRA_STACK <= stacksize + 4
  BY <1>3, Sizes
<1>6. /\ frames' = frames /\ stacksize' = stacksize /\ start' = start /\ pc' = "call" /\ then' = "continue"
      /\ SizeFits' /\ TopFits' /\ func' \in Nat /\ top' \in Nat /\ wanted' \in Nat \cup {MULTRET}
  <2> DEFINE f == ci.base + k
  <2>1. /\ f \in Nat /\ top \in Nat /\ w \in Nat \cup {MULTRET}
        /\ pc # "dead" /\ Call(f, top, "continue", w) /\ top + EXTRA_STACK <= stacksize + 4 /\ f < top
    BY <1>1, <1>2, <1>3, <1>4, <1>5
  <2>2. w # MULTRET => f + w <= ci.top
    BY <1>4
  <2> HIDE DEF f
  <2> QED
    BY <2>1, <2>2, CallStep
<1>7. StackTypes'
  BY <1>2, <1>3, <1>6 DEF StackTypes
<1>8. PcallsFit'
  BY <1>2, <1>6, PcallsStay
<1>9. stacksize' >= stacksize
  <2>1. stacksize \in Nat /\ stacksize' = stacksize
    BY <1>3, <1>6
  <2> QED
    BY <2>1
<1> QED
  BY <1>2, <1>6, <1>7, <1>8, <1>9, SameFrames

(* lua_pcallk notes the slot of the function, which is inside its frame.      *)
LEMMA PcallkStep ==
  ASSUME StackInv, lua_pcallk
  PROVE  StackInv'
<1>a. PICK k \in Counts, handler \in BOOLEAN :
        /\ ci.base + k < top /\ \E w \in Wanted(ci.base + k) : Call(ci.base + k, top, "pcall", w)
        /\ pcalls' = Append(pcalls, [ci |-> Len(frames), old_top |-> ci.base + k, old_errfunc |-> errfunc])
        /\ errfunc' = handler
  BY DEF lua_pcallk
<1>1. PICK w \in Wanted(ci.base + k) : ci.base + k < top /\ Call(ci.base + k, top, "pcall", w)
  BY <1>a
<1>2. pc = "run" /\ ~ci.lua
  BY DEF lua_pcallk, Running
<1>3. /\ k \in Nat /\ stacksize \in Nat /\ top \in Nat /\ StackTypes /\ ci.base \in Nat /\ ci.top \in Nat
      /\ top + EXTRA_STACK <= stacksize /\ top <= ci.top
  BY <1>2, StackAssumption, CurrentFrame DEF StackInv, StackTypes, TopFits
<1>4. w = MULTRET \/ (w \in Nat /\ ci.base + k + w <= ci.top)
  BY StackAssumption DEF Wanted
<1>5. ci.base + k \in Nat /\ top + EXTRA_STACK <= stacksize + 4
  BY <1>3, Sizes
<1> DEFINE f == ci.base + k
           new == [ci |-> Len(frames), old_top |-> f, old_errfunc |-> errfunc]
<1>6. /\ frames' = frames /\ stacksize' = stacksize /\ start' = start /\ pc' = "call" /\ then' = "pcall"
      /\ SizeFits' /\ TopFits' /\ func' \in Nat /\ top' \in Nat /\ wanted' \in Nat \cup {MULTRET}
  <2>1. /\ f \in Nat /\ top \in Nat /\ w \in Nat \cup {MULTRET}
        /\ pc # "dead" /\ Call(f, top, "pcall", w) /\ top + EXTRA_STACK <= stacksize + 4 /\ f < top
    BY <1>1, <1>2, <1>3, <1>4, <1>5
  <2>2. w # MULTRET => f + w <= ci.top
    BY <1>4
  <2> HIDE DEF f
  <2> QED
    BY <2>1, <2>2, CallStep
<1>7. new \in Protected /\ pcalls \in Seq(Protected) /\ pcalls' = Append(pcalls, new)
  BY <1>3, <1>5, <1>a, CurrentFrame DEF Protected, StackTypes
<1>8. StackTypes'
  <2>1. pcalls' \in Seq(Protected)
    <3> HIDE DEF new
    <3> QED
      BY <1>7
  <2> QED
    BY <1>3, <1>6, <1>a, <2>1 DEF StackTypes
<1>9. PcallsFit'
  <2> DEFINE n == Len(pcalls)
  <2>1. /\ n \in Nat /\ DOMAIN pcalls = 1 .. n /\ DOMAIN pcalls' = 1 .. n + 1 /\ pcalls'[n + 1] = new
        /\ \A e \in 1 .. n : pcalls'[e] = pcalls[e]
    <3>1. Len(pcalls) \in Nat
      BY <1>7
    <3> HIDE DEF new
    <3> QED
      BY <1>7, <3>1
  <2>2. \A e \in 1 .. n : pcalls'[e].ci < Len(frames)
    BY <1>2, <2>1 DEF StackInv, PcallsFit
  <2>3. new.ci = Len(frames) /\ new.old_top + 1 <= ci.top
    BY <1>1, <1>3
  <2>4. Len(frames) \in Nat /\ Len(frames) \in 1 .. Len(frames)
    BY CurrentFrame
  <2> HIDE DEF new, n
  <2>5. ASSUME NEW e \in DOMAIN pcalls'
        PROVE  /\ pcalls'[e].ci \in 1 .. Len(frames')
               /\ pcalls'[e].old_top + 1 <= frames'[pcalls'[e].ci].top
               /\ pcalls'[e].ci < Len(frames') => frames'[pcalls'[e].ci + 1].then \in {"pcall", "throw"}
    <3>1. CASE e = n + 1
      BY <1>6, <2>1, <2>3, <2>4, <3>1 DEF ci
    <3>2. CASE e # n + 1
      <4>1. e \in 1 .. n /\ e \in DOMAIN pcalls
        BY <2>1, <3>2
      <4> QED
        BY <1>2, <1>6, <2>1, <4>1 DEF StackInv, PcallsFit
    <3> QED
      BY <3>1, <3>2
  <2>6. \A d, e \in DOMAIN pcalls' : d < e => pcalls'[d].ci < pcalls'[e].ci
    <3> SUFFICES ASSUME NEW d \in DOMAIN pcalls', NEW e \in DOMAIN pcalls', d < e
                 PROVE  pcalls'[d].ci < pcalls'[e].ci
      OBVIOUS
    <3>1. d \in 1 .. n
      BY <2>1
    <3>2. CASE e = n + 1
      BY <2>1, <2>2, <2>3, <3>1, <3>2
    <3>3. CASE e # n + 1
      <4>1. e \in 1 .. n
        BY <2>1, <3>3
      <4> QED
        BY <1>2, <2>1, <3>1, <4>1 DEF StackInv, PcallsFit
    <3> QED
      BY <3>2, <3>3
  <2>7. \A k2 \in 2 .. Len(frames) : frames[k2].then = "pcall" => \E e \in DOMAIN pcalls' : pcalls'[e].ci = k2 - 1
    BY <1>2, <2>1 DEF StackInv, PcallsFit
  <2>8. \E e \in DOMAIN pcalls' : pcalls'[e].ci = Len(frames)
    BY <2>1, <2>3
  <2> QED
    BY <1>6, <2>5, <2>6, <2>7, <2>8 DEF PcallsFit
<1>10. stacksize' >= stacksize
  BY <1>3, <1>6
<1> QED
  BY <1>2, <1>6, <1>8, <1>9, <1>10, SameFrames

(* The arguments of a metamethod may reach into the extra slots.              *)
LEMMA CallTMStep ==
  ASSUME StackInv, luaT_callTM
  PROVE  StackInv'
<1>1. PICK n \in {3, 4} : Call(top, top + n, "tm", 0)
  BY DEF luaT_callTM
<1>2. pc = "run" /\ (ci.lua => top = ci.top) /\ UNCHANGED <<pcalls, errfunc>>
  BY DEF luaT_callTM, Running
<1>3. /\ stacksize \in Nat /\ top \in Nat /\ StackTypes /\ ci.top \in Nat
      /\ top + EXTRA_STACK <= stacksize /\ top <= ci.top
  BY <1>2, CurrentFrame DEF StackInv, StackTypes, TopFits
<1>4. n \in Nat /\ n <= 4 /\ 0 \in Nat \cup {MULTRET} /\ 0 # MULTRET
  BY DEF MULTRET
<1>5. top + n \in Nat /\ top + n + EXTRA_STACK <= stacksize + 4 /\ top < top + n /\ top + 0 <= ci.top
  BY <1>3, Sizes
<1>6. /\ frames' = frames /\ stacksize' = stacksize /\ start' = start /\ pc' = "call" /\ then' = "tm"
      /\ SizeFits' /\ TopFits' /\ func' \in Nat /\ top' \in Nat /\ wanted' \in Nat \cup {MULTRET}
  <2> DEFINE t == top + n
  <2>1. /\ t \in Nat /\ pc # "dead" /\ Call(top, t, "tm", 0) /\ t + EXTRA_STACK <= stacksize + 4 /\ top < t
    BY <1>1, <1>2, <1>5
  <2> HIDE DEF t
  <2> QED
    BY <1>3, <1>4, <1>5, <2>1, CallStep
<1>7. StackTypes'
  BY <1>2, <1>3, <1>6 DEF StackTypes
<1>8. PcallsFit'
  BY <1>2, <1>6, PcallsStay
<1>9. stacksize' >= stacksize
  BY <1>3, <1>6
<1> QED
  BY <1>2, <1>6, <1>7, <1>8, <1>9, SameFrames

(* A slot more on a stack that has grown for it.                              *)
LEMMA OneMore ==
  ASSUME StackInv, pc \in {"call", "message"}, luaD_checkstack(1), top' = top + 1, UNCHANGED pc, UNCHANGED_calls
  PROVE  StackInv'
<1>1. UNCHANGED <<pc, frames, free, pcalls, errfunc, func, then, wanted, start>>
  BY DEF UNCHANGED_calls, calling
<1>2. stacksize' \in Nat /\ stacksize' >= stacksize /\ SizeFits' /\ top + 1 + EXTRA_STACK <= stacksize'
  BY Grows
<1>3. top \in Nat /\ func \in Nat /\ start \in Nat /\ StackTypes
  BY DEF StackInv, StackTypes
<1>4. ci' = ci
  BY <1>1 DEF ci
<1>5. top' \in Nat /\ top' + EXTRA_STACK <= stacksize' /\ top' <= stacksize' /\ top' > top
  <2>1. top + 1 \in Nat
    BY <1>3
  <2> QED
    BY <1>2, <1>3, <2>1, Room
<1>6. StackTypes'
  BY <1>1, <1>2, <1>3, <1>5 DEF StackTypes
<1>7. TopFits'
  <2>1. top' + EXTRA_STACK <= stacksize' + 4
    BY <1>2, <1>5, Sizes
  <2>2. pc = "call" => func < top'
    BY <1>3, <1>5 DEF StackInv, TopFits
  <2>3. pc = "message" => start <= top'
    BY <1>3, <1>5 DEF StackInv, TopFits
  <2> QED
    BY <1>1, <1>4, <1>5, <2>1, <2>2, <2>3 DEF StackInv, TopFits
<1>8. PcallsFit'
  BY <1>1 DEF StackInv, PcallsFit
<1> QED
  BY <1>1, <1>2, <1>6, <1>7, <1>8, SameFrames

LEMMA TryfuncStep ==
  ASSUME StackInv, tryfuncTM
  PROVE  StackInv'
<1>1. pc = "call"
  BY DEF tryfuncTM
<1> QED
  BY <1>1, OneMore, Overflows DEF tryfuncTM

LEMMA InctopStep ==
  ASSUME StackInv, luaD_inctop
  PROVE  StackInv'
<1>1. pc = "message"
  BY DEF luaD_inctop
<1> QED
  BY <1>1, OneMore, Overflows DEF luaD_inctop

LEMMA RunerrorStep ==
  ASSUME StackInv, luaG_runerror
  PROVE  StackInv'
<1>1. /\ pc = "run" /\ pc' = "message" /\ start' = top
      /\ UNCHANGED <<stacksize, top, frames, free, pcalls, errfunc, func, then, wanted>>
  BY DEF luaG_runerror, Running, calling
<1>2. stacksize \in Nat /\ top \in Nat /\ StackTypes /\ SizeFits
  BY DEF StackInv, StackTypes
<1>3. StackTypes' /\ SizeFits'
  BY <1>1, <1>2 DEF StackTypes, SizeFits
<1>4. TopFits'
  BY <1>1, <1>2 DEF StackInv, TopFits
<1>5. PcallsFit'
  BY <1>1, PcallsStay
<1> QED
  BY <1>1, <1>2, <1>3, <1>4, <1>5, SameFrames

LEMMA ConcatStep ==
  ASSUME StackInv, luaV_concat
  PROVE  StackInv'
<1>1. PICK more \in BOOLEAN :
        /\ top' = start + 1
        /\ IF more THEN start' = start + 1 /\ pc' = pc ELSE pc' = "error" /\ start' = 0
  BY DEF luaV_concat
<1>2. pc = "message" /\ top > start /\ UNCHANGED <<stacksize, frames, free, pcalls, errfunc, func, then, wanted>>
  BY DEF luaV_concat, calling
<1>3. stacksize \in Nat /\ top \in Nat /\ start \in Nat /\ StackTypes /\ SizeFits
  BY DEF StackInv, StackTypes
<1>4. top' \in Nat /\ top' <= top /\ top' >= 1 /\ start' \in Nat /\ start' <= top'
  BY <1>1, <1>2, <1>3
<1>5. StackTypes' /\ SizeFits'
  BY <1>1, <1>2, <1>3, <1>4 DEF StackTypes, SizeFits
<1>6. TopFits'
  <2>1. top + EXTRA_STACK <= stacksize
    BY <1>2 DEF StackInv, TopFits
  <2>2. top' + EXTRA_STACK <= stacksize' /\ top' <= stacksize'
    BY <1>2, <1>3, <1>4, <2>1, Room
  <2> QED
    BY <1>1, <1>2, <1>4, <2>2 DEF TopFits
<1>7. PcallsFit'
  BY <1>1, <1>2, PcallsStay
<1> QED
  BY <1>2, <1>3, <1>5, <1>6, <1>7, SameFrames

LEMMA ErrorStep ==
  ASSUME StackInv, lua_error
  PROVE  StackInv'
<1>1. /\ pc = "run" /\ ~ci.lua /\ top > ci.base /\ pc' = "error"
      /\ UNCHANGED <<stacksize, top, frames, free, pcalls, errfunc, func, then, wanted, start>>
  BY DEF lua_error, Running, UNCHANGED_calls, calling
<1>2. stacksize \in Nat /\ top \in Nat /\ StackTypes /\ SizeFits
  BY DEF StackInv, StackTypes
<1>3. StackTypes' /\ SizeFits'
  BY <1>1, <1>2 DEF StackTypes, SizeFits
<1>4. TopFits'
  <2>1. top >= 1
    BY <1>1, <1>2, CurrentFrame
  <2> QED
    BY <1>1, <2>1 DEF StackInv, TopFits
<1>5. PcallsFit'
  BY <1>1, PcallsStay
<1> QED
  BY <1>1, <1>2, <1>3, <1>4, <1>5, SameFrames

(* The handler, below the message, takes one slot.                            *)
LEMMA ErrormsgStep ==
  ASSUME StackInv, luaG_errormsg
  PROVE  StackInv'
<1>1. pc = "error" /\ UNCHANGED <<pcalls, errfunc>>
  BY DEF luaG_errormsg
<1>2. /\ stacksize \in Nat /\ top \in Nat /\ top >= 1 /\ top + EXTRA_STACK <= stacksize /\ StackTypes /\ SizeFits
      /\ EXTRA_STACK \in Nat /\ EXTRA_STACK >= 5
  BY <1>1, StackAssumption DEF StackInv, StackTypes, TopFits
<1>3. CASE errfunc
  <2> DEFINE f == top - 1
             t == top + 1
  <2>1. f \in Nat /\ t \in Nat /\ t + EXTRA_STACK <= stacksize + 4 /\ f < t /\ 1 \in Nat \cup {MULTRET}
    BY <1>2
  <2>2. Call(f, t, "throw", 1)
    BY <1>3 DEF luaG_errormsg
  <2>3. /\ frames' = frames /\ stacksize' = stacksize /\ start' = start /\ pc' = "call" /\ then' = "throw"
        /\ SizeFits' /\ TopFits' /\ func' \in Nat /\ top' \in Nat /\ wanted' \in Nat \cup {MULTRET}
    <3> HIDE DEF f, t
    <3> QED
      BY <1>1, <2>1, <2>2, CallStep
  <2>4. StackTypes'
    BY <1>1, <1>2, <2>3 DEF StackTypes
  <2>5. PcallsFit'
    BY <1>1, <2>3, PcallsStay
  <2>6. stacksize' >= stacksize
    BY <1>2, <2>3
  <2> QED
    BY <1>1, <2>3, <2>4, <2>5, <2>6, SameFrames
<1>4. CASE ~errfunc
  <2>1. pc' = "throw" /\ UNCHANGED <<stacksize, top, frames, free, pcalls, errfunc, func, then, wanted, start>>
    BY <1>1, <1>4 DEF luaG_errormsg, calling
  <2>2. StackTypes' /\ SizeFits'
    BY <1>2, <2>1 DEF StackTypes, SizeFits
  <2>3. top + 1 <= stacksize /\ top <= stacksize
    BY <1>2
  <2>4. TopFits'
    BY <2>1, <2>3 DEF TopFits
  <2>5. PcallsFit'
    BY <1>1, <2>1, PcallsStay
  <2> QED
    BY <1>1, <1>2, <2>1, <2>2, <2>4, <2>5, SameFrames
<1> QED
  BY <1>3, <1>4

LEMMA CheckstackStep ==
  ASSUME StackInv, lua_checkstack
  PROVE  StackInv'
<1>1. PICK n \in Counts :
        /\ luaD_checkstack(n)
        /\ frames' = IF ci.top < top + n THEN [frames EXCEPT ![Len(frames)].top = top + n] ELSE frames
  BY DEF lua_checkstack
<1>2. pc = "run" /\ ~ci.lua /\ UNCHANGED <<top, free, pcalls, errfunc, pc, func, then, wanted, start>>
  BY DEF lua_checkstack, Running, calling
<1>3. /\ n \in Nat /\ stacksize \in Nat /\ top \in Nat /\ StackTypes /\ frames \in Seq(CallInfo) /\ Len(frames) >= 1
      /\ top + EXTRA_STACK <= stacksize /\ top <= ci.top
  BY <1>2, StackAssumption DEF StackInv, StackTypes, TopFits
<1>4. stacksize' \in Nat /\ stacksize' >= stacksize /\ SizeFits' /\ top + n + EXTRA_STACK <= stacksize'
  BY <1>1, <1>3, Grows
<1>5. top' = top /\ top' + EXTRA_STACK <= stacksize' /\ top' <= stacksize'
  <2>1. top + n \in Nat /\ top <= top + n
    BY <1>3
  <2> QED
    BY <1>2, <1>3, <1>4, <2>1, Room
<1>6. CASE frames' = frames
  <2>1. ci' = ci
    BY <1>6 DEF ci
  <2>2. StackTypes'
    BY <1>2, <1>3, <1>4, <1>6 DEF StackTypes
  <2>3. TopFits'
    BY <1>2, <1>3, <1>5, <2>1 DEF TopFits
  <2>4. PcallsFit'
    BY <1>2, <1>6, PcallsStay
  <2> QED
    BY <1>2, <1>4, <1>6, <2>2, <2>3, <2>4, SameFrames
<1>7. CASE ci.top < top + n /\ frames' = [frames EXCEPT ![Len(frames)].top = top + n]
  <2> DEFINE last == Len(frames)
  <2>1. last \in Nat /\ last \in 1 .. last /\ DOMAIN frames = 1 .. last /\ ci.top \in Nat /\ frames[last] = ci /\ ci \in CallInfo
    BY CurrentFrame DEF ci
  <2>2. top + n \in Nat
    BY <1>3
  <2>3. /\ frames' \in Seq(CallInfo) /\ Len(frames') = last /\ DOMAIN frames' = 1 .. last
        /\ \A k \in 1 .. last : k # last => frames'[k] = frames[k]
        /\ frames'[last] = [frames[last] EXCEPT !.top = top + n]
    <3>1. [ci EXCEPT !.top = top + n] \in CallInfo
      BY <2>1, <2>2 DEF CallInfo
    <3>2. frames' = [frames EXCEPT ![last] = [ci EXCEPT !.top = top + n]]
      BY <1>7, <2>1
    <3> HIDE DEF last
    <3> QED
      BY <1>3, <2>1, <3>1, <3>2
  <2>4. /\ frames'[last].top = top + n /\ frames'[last].func = ci.func /\ frames'[last].base = ci.base
        /\ frames'[last].lua = ci.lua /\ frames'[last].wanted = ci.wanted /\ frames'[last].then = ci.then
    BY <2>1, <2>3 DEF CallInfo
  <2>5. \A k \in 1 .. last : /\ frames'[k].func = frames[k].func /\ frames'[k].base = frames[k].base
                             /\ frames'[k].wanted = frames[k].wanted /\ frames'[k].then = frames[k].then
                             /\ k # last => frames'[k].top = frames[k].top
    BY <2>1, <2>3, <2>4
  <2> HIDE DEF last
  <2>6. StackTypes'
    BY <1>2, <1>3, <1>4, <2>1, <2>3 DEF StackTypes
  <2>7. FramesFit'
    <3> SUFFICES ASSUME NEW k \in 1 .. last
                 PROVE  /\ frames'[k].func < frames'[k].base /\ frames'[k].top <= stacksize'
                        /\ frames'[k].base <= frames'[k].top /\ frames'[k].top + EXTRA_STACK <= stacksize'
      BY <2>3 DEF FramesFit
    <3>1. k \in DOMAIN frames
      BY <2>1
    <3>2. frames[k].top \in Nat /\ frames[k].base \in Nat
      BY <3>1, AllFrames
    <3>3. /\ frames[k].func < frames[k].base /\ frames[k].base <= frames[k].top
          /\ frames[k].top + EXTRA_STACK <= stacksize
      BY <1>2, <3>1 DEF StackInv, FramesFit
    <3>4. CASE k # last
      <4>1. frames[k].top + EXTRA_STACK <= stacksize'
        BY SMTT(30), <1>3, <1>4, <3>2, <3>3, Sizes
      <4>2. frames[k].top <= stacksize'
        BY <1>4, <3>2, <4>1, Room
      <4> QED
        BY <2>5, <3>3, <3>4, <4>1, <4>2
    <3>5. CASE k = last
      <4>1. top + n <= stacksize'
        BY <1>4, <2>2, Room
      <4>2. ci.base \in Nat /\ ci.base <= top + n
        BY <1>7, <2>1, <2>2, <3>2, <3>3, <3>5
      <4> QED
        BY <1>4, <2>1, <2>4, <3>3, <3>5, <4>1, <4>2
    <3> QED
      BY <3>4, <3>5
  <2>8. ResultsFit'
    <3> SUFFICES ASSUME NEW k \in 2 .. last
                 PROVE  /\ frames'[k].then # "throw" /\ frames'[k].wanted # MULTRET =>
                             frames'[k].func + frames'[k].wanted <= frames'[k - 1].top
                        /\ frames'[k].then = "tm" => frames'[k].wanted # MULTRET
      BY <2>3 DEF ResultsFit
    <3>1. k \in 1 .. last /\ k - 1 \in 1 .. last /\ k - 1 # last /\ last = Len(frames)
      BY <2>1 DEF last
    <3> QED
      BY <1>2, <2>5, <3>1 DEF StackInv, ResultsFit
  <2>9. TopFits'
    <3>1. ci' = frames'[last]
      BY <2>3 DEF ci
    <3>2. top' <= top + n
      BY <1>3, <1>5
    <3> QED
      BY <1>2, <1>5, <2>4, <3>1, <3>2 DEF TopFits
  <2>10. PcallsFit'
    <3>1. \A k \in 1 .. last : frames'[k].top >= frames[k].top /\ frames[k].top \in Nat /\ frames'[k].top \in Nat
      <4> TAKE k \in 1 .. last
      <4>1. k \in DOMAIN frames /\ frames[k].top \in Nat
        BY <2>1, AllFrames
      <4> QED
        BY <1>7, <2>1, <2>2, <2>4, <2>5, <4>1
    <3>2. pcalls \in Seq(Protected) /\ last = Len(frames)
      BY <1>3 DEF StackTypes, last
    <3>3. ASSUME NEW e \in DOMAIN pcalls
          PROVE  pcalls[e].old_top + 1 <= frames'[pcalls[e].ci].top /\ pcalls[e].ci \in 1 .. last
      <4>1. pcalls[e].ci \in 1 .. last /\ pcalls[e].old_top + 1 <= frames[pcalls[e].ci].top
        BY <1>2, <3>2 DEF StackInv, PcallsFit
      <4>2. pcalls[e] \in Protected
        BY <3>2
      <4>3. pcalls[e].old_top \in Nat
        BY <4>2 DEF Protected
      <4> QED
        BY <3>1, <4>1, <4>3
    <3>4. ASSUME NEW e \in DOMAIN pcalls
          PROVE  pcalls[e].ci < last /\ frames'[pcalls[e].ci + 1].then \in {"pcall", "throw"}
      <4>1. pcalls[e].ci < last
        BY <1>2, <3>2 DEF StackInv, PcallsFit
      <4>2. frames[pcalls[e].ci + 1].then \in {"pcall", "throw"}
        BY <1>2, <3>2, <4>1 DEF StackInv, PcallsFit
      <4>3. pcalls[e].ci + 1 \in 1 .. last
        BY <2>1, <3>3, <4>1
      <4> QED
        BY <2>5, <4>1, <4>2, <4>3
    <3>5. \A k \in 2 .. last : frames'[k].then = frames[k].then
      BY <2>1, <2>5
    <3> QED
      BY <1>2, <2>3, <3>2, <3>3, <3>4, <3>5 DEF StackInv, PcallsFit
  <2> QED
    BY <1>4, <2>6, <2>7, <2>8, <2>9, <2>10 DEF StackInv
<1> QED
  BY <1>1, <1>6, <1>7

--------------------------------------------------------------------------------
(* Entering a function: a frame f above the others, with what the call noted. *)

LEMMA Enter ==
  ASSUME StackInv, pc = "call", pc' = "run", pcalls' = pcalls, NEW f \in CallInfo, frames' = Append(frames, f),
         stacksize' \in Nat, stacksize' >= stacksize,
         f.func < f.base, f.base <= f.top, f.top + EXTRA_STACK <= stacksize',
         f.func = func, f.wanted = wanted, f.then = IF then = "tail" THEN "continue" ELSE then
  PROVE  frames' \in Seq(CallInfo) /\ Len(frames') >= 1 /\ ci' = f /\ FramesFit' /\ ResultsFit' /\ PcallsFit'
<1> DEFINE last == Len(frames)
<1>1. /\ frames \in Seq(CallInfo) /\ last \in Nat /\ last >= 1 /\ DOMAIN frames = 1 .. last /\ pcalls \in Seq(Protected)
      /\ stacksize \in Nat
  BY CurrentFrame DEF StackInv, StackTypes
<1>2. /\ frames' \in Seq(CallInfo) /\ Len(frames') = last + 1 /\ DOMAIN frames' = 1 .. last + 1
      /\ frames'[last + 1] = f /\ \A k \in 1 .. last : frames'[k] = frames[k]
  <2> HIDE DEF last
  <2>1. Len(frames) = last
    BY DEF last
  <2> QED
    BY <1>1, <2>1
<1>3. ci' = f
  BY <1>2 DEF ci
<1>4. f.func \in Nat /\ f.base \in Nat /\ f.top \in Nat
  BY DEF CallInfo
<1>5. frames[last] = ci
  BY DEF ci
<1> HIDE DEF last
<1>6. FramesFit'
  <2> SUFFICES ASSUME NEW k \in 1 .. last + 1
               PROVE  /\ frames'[k].func < frames'[k].base /\ frames'[k].top <= stacksize'
                      /\ frames'[k].base <= frames'[k].top /\ frames'[k].top + EXTRA_STACK <= stacksize'
    BY <1>2 DEF FramesFit
  <2>1. CASE k = last + 1
    <3>1. f.top <= stacksize'
      BY <1>4, Room
    <3> QED
      BY <1>2, <2>1, <3>1
  <2>2. CASE k # last + 1
    <3>1. k \in DOMAIN frames /\ k \in 1 .. last
      BY <1>1, <2>2
    <3>2. frames[k].top \in Nat
      BY <3>1, AllFrames
    <3>3. /\ frames[k].func < frames[k].base /\ frames[k].base <= frames[k].top
          /\ frames[k].top + EXTRA_STACK <= stacksize
      BY <3>1 DEF StackInv, FramesFit
    <3>4. frames[k].top + EXTRA_STACK <= stacksize'
      BY <1>1, <3>2, <3>3, Sizes
    <3>5. frames[k].top <= stacksize'
      BY <3>2, <3>4, Room
    <3> QED
      BY <1>2, <3>1, <3>3, <3>4, <3>5
  <2> QED
    BY <2>1, <2>2
<1>7. ResultsFit'
  <2> SUFFICES ASSUME NEW k \in 2 .. last + 1
               PROVE  /\ frames'[k].then # "throw" /\ frames'[k].wanted # MULTRET =>
                           frames'[k].func + frames'[k].wanted <= frames'[k - 1].top
                      /\ frames'[k].then = "tm" => frames'[k].wanted # MULTRET
    BY <1>2 DEF ResultsFit
  <2>1. CASE k = last + 1
    <3>1. k - 1 = last /\ last \in 1 .. last
      BY <1>1, <2>1
    <3>2. frames'[k] = f /\ frames'[k - 1] = ci
      BY <1>2, <1>5, <2>1, <3>1
    <3> QED
      BY <3>2 DEF StackInv, TopFits
  <2>2. CASE k # last + 1
    <3>1. k \in 2 .. last /\ k \in 1 .. last /\ k - 1 \in 1 .. last /\ last = Len(frames)
      BY <1>1, <2>2 DEF last
    <3> QED
      BY <1>2, <3>1 DEF StackInv, ResultsFit
  <2> QED
    BY <2>1, <2>2
<1>8. PcallsFit'
  <2>1. last = Len(frames)
    BY DEF last
  <2>2. ASSUME NEW e \in DOMAIN pcalls
        PROVE  /\ pcalls[e].ci \in 1 .. last + 1 /\ pcalls[e].ci < last + 1
               /\ pcalls[e].old_top + 1 <= frames'[pcalls[e].ci].top
               /\ frames'[pcalls[e].ci + 1].then \in {"pcall", "throw"}
    <3>1. pcalls[e].ci \in 1 .. last /\ pcalls[e].old_top + 1 <= frames[pcalls[e].ci].top
      BY <2>1 DEF StackInv, PcallsFit
    <3>2. frames'[pcalls[e].ci] = frames[pcalls[e].ci] /\ pcalls[e].ci \in 1 .. last + 1 /\ pcalls[e].ci < last + 1
      BY <1>1, <1>2, <3>1
    <3>3. CASE pcalls[e].ci < last
      <4>1. pcalls[e].ci + 1 \in 1 .. last
        BY <1>1, <3>1, <3>3
      <4>2. frames[pcalls[e].ci + 1].then \in {"pcall", "throw"}
        BY <2>1, <3>3 DEF StackInv, PcallsFit
      <4> QED
        BY <1>2, <3>1, <3>2, <4>1, <4>2
    <3>4. CASE ~(pcalls[e].ci < last)
      <4>1. then \in {"pcall", "throw"}
        BY <2>1, <3>4 DEF StackInv, PcallsFit
      <4>2. pcalls[e].ci + 1 = last + 1
        BY <1>1, <3>1, <3>4
      <4> QED
        BY <1>2, <3>1, <3>2, <4>1, <4>2
    <3> QED
      BY <3>3, <3>4
  <2>3. ASSUME NEW k \in 2 .. last + 1, frames'[k].then = "pcall"
        PROVE  \E e \in DOMAIN pcalls : pcalls[e].ci = k - 1
    <3>1. CASE k = last + 1
      <4>1. then = "pcall" /\ k - 1 = last
        BY <1>1, <1>2, <2>3, <3>1 DEF StackInv, StackTypes
      <4> QED
        BY <2>1, <4>1 DEF StackInv, PcallsFit
    <3>2. CASE k # last + 1
      <4>1. k \in 2 .. last /\ k \in 1 .. last
        BY <1>1, <3>2
      <4> QED
        BY <1>2, <2>1, <2>3, <4>1 DEF StackInv, PcallsFit
    <3> QED
      BY <3>1, <3>2
  <2>4. \A d, e \in DOMAIN pcalls : d < e => pcalls[d].ci < pcalls[e].ci
    BY DEF StackInv, PcallsFit
  <2> QED
    BY <1>2, <2>2, <2>3, <2>4 DEF PcallsFit
<1> QED
  BY <1>1, <1>2, <1>3, <1>6, <1>7, <1>8

LEMMA PrecallCStep ==
  ASSUME StackInv, precallC
  PROVE  StackInv'
<1> DEFINE f == [func |-> func, base |-> func + 1, top |-> top + LUA_MINSTACK, lua |-> FALSE,
                 wanted |-> wanted, then |-> IF then = "tail" THEN "continue" ELSE then]
<1>1. pc = "call" /\ StackTypes /\ stacksize \in Nat /\ top \in Nat /\ func \in Nat /\ LUA_MINSTACK \in Nat
  BY Sizes DEF precallC, StackInv, StackTypes
<1>2. CASE Overflow(LUA_MINSTACK)
  BY <1>1, <1>2, Overflows
<1>3. CASE /\ luaD_checkstack(LUA_MINSTACK) /\ next_ci(f)
           /\ pc' = "run" /\ Called /\ UNCHANGED <<top, pcalls, errfunc, start>>
  <2>1. stacksize' \in Nat /\ stacksize' >= stacksize /\ SizeFits' /\ top + LUA_MINSTACK + EXTRA_STACK <= stacksize'
    BY <1>1, <1>3, Grows
  <2>2. func < top
    BY <1>1 DEF StackInv, TopFits
  <2>3. f \in CallInfo
    BY <1>1 DEF CallInfo, StackTypes
  <2>4. /\ f.func < f.base /\ f.base <= f.top /\ f.top + EXTRA_STACK <= stacksize' /\ f.top = top + LUA_MINSTACK
        /\ f.func = func /\ f.wanted = wanted /\ f.then = (IF then = "tail" THEN "continue" ELSE then) /\ ~f.lua
    BY <1>1, <2>1, <2>2
  <2>5. frames' = Append(frames, f) /\ pcalls' = pcalls /\ pc' = "run"
    BY <1>3 DEF next_ci
  <2> HIDE DEF f
  <2>6. frames' \in Seq(CallInfo) /\ Len(frames') >= 1 /\ ci' = f /\ FramesFit' /\ ResultsFit' /\ PcallsFit'
    BY <1>1, <2>1, <2>3, <2>4, <2>5, Enter
  <2>7. StackTypes'
    BY <1>1, <1>3, <2>1, <2>6 DEF StackTypes, Called, MULTRET
  <2>8. TopFits'
    <3>1. top' = top /\ top <= f.top /\ f.top \in Nat
      BY <1>1, <1>3, <2>4
    <3>2. top + EXTRA_STACK <= stacksize' /\ top <= stacksize'
      BY <1>1, <2>1, <2>4, <3>1, Room
    <3> QED
      BY <2>5, <2>6, <3>1, <3>2 DEF TopFits
  <2> QED
    BY <2>1, <2>6, <2>7, <2>8 DEF StackInv
<1> QED
  BY <1>2, <1>3 DEF precallC

(* A Lua function; a tail call lowers its frame to the place of its caller's, *)
(* and what the caller was asked for stays.                                   *)
LEMMA PrecallLuaStep ==
  ASSUME StackInv, precallLua
  PROVE  StackInv'
<1>a. PICK fsize \in FrameSizes, vararg \in BOOLEAN :
        \/ /\ luaD_checkstack(fsize)
           /\ IF then = "tail"
              THEN /\ frames' = [frames EXCEPT ![Len(frames)] = Lowered(Frame(IF vararg THEN top ELSE func + 1, fsize))]
                   /\ top' = Lowered(Frame(IF vararg THEN top ELSE func + 1, fsize)).top
              ELSE /\ next_ci(Frame(IF vararg THEN top ELSE func + 1, fsize))
                   /\ top' = Frame(IF vararg THEN top ELSE func + 1, fsize).top
           /\ pc' = "run" /\ Called /\ UNCHANGED <<pcalls, errfunc, start>>
        \/ Overflow(fsize)
  BY DEF precallLua
<1> DEFINE base == IF vararg THEN top ELSE func + 1
           f == Frame(base, fsize)
<1>1. /\ pc = "call" /\ StackTypes /\ stacksize \in Nat /\ top \in Nat /\ func \in Nat /\ fsize \in Nat
      /\ func < top /\ EXTRA_STACK \in Nat
  BY StackAssumption DEF precallLua, StackInv, StackTypes, TopFits
<1>2. CASE Overflow(fsize)
  BY <1>1, <1>2, Overflows
<1>3. CASE /\ luaD_checkstack(fsize)
           /\ IF then = "tail"
              THEN frames' = [frames EXCEPT ![Len(frames)] = Lowered(f)] /\ top' = Lowered(f).top
              ELSE next_ci(f) /\ top' = f.top
           /\ pc' = "run" /\ Called /\ UNCHANGED <<pcalls, errfunc, start>>
  <2>1. stacksize' \in Nat /\ stacksize' >= stacksize /\ SizeFits' /\ top + fsize + EXTRA_STACK <= stacksize'
    BY <1>1, <1>3, Grows
  <2>2. base \in Nat /\ base <= top /\ func < base
    BY <1>1
  <2>3. /\ f = [func |-> func, base |-> base, top |-> base + fsize, lua |-> TRUE, wanted |-> wanted, then |-> then]
        /\ pcalls' = pcalls /\ pc' = "run" /\ func' = 0 /\ then' = "continue" /\ wanted' = 0
        /\ UNCHANGED <<errfunc, start>>
    BY <1>3 DEF Frame, Called
  <2> HIDE DEF f, base
  <2>4. f.func = func /\ f.base = base /\ f.top = base + fsize /\ f.lua = TRUE /\ f.wanted = wanted /\ f.then = then
    BY <2>3
  <2>5. f.top \in Nat /\ f.func < f.base /\ f.base <= f.top /\ f.top + EXTRA_STACK <= stacksize'
    BY <1>1, <2>1, <2>2, <2>4
  <2>6. CASE then # "tail"
    <3>1. frames' = Append(frames, f) /\ top' = f.top
      BY <1>3, <2>6 DEF next_ci
    <3>2. f \in CallInfo
      <4>1. wanted \in Nat \cup {MULTRET} /\ then \in {"continue", "pcall", "tm", "throw"} /\ base + fsize \in Nat
        BY <1>1, <2>2, <2>6 DEF StackTypes
      <4> QED
        BY <1>1, <2>2, <2>3, <4>1 DEF CallInfo
    <3>3. frames' \in Seq(CallInfo) /\ Len(frames') >= 1 /\ ci' = f /\ FramesFit' /\ ResultsFit' /\ PcallsFit'
      BY <1>1, <2>1, <2>3, <2>4, <2>5, <2>6, <3>1, <3>2, Enter
    <3>4. StackTypes'
      BY <1>1, <2>1, <2>3, <2>5, <3>1, <3>3 DEF StackTypes, MULTRET
    <3>5. TopFits'
      <4>1. f.top <= stacksize'
        BY <2>1, <2>5, Room
      <4> QED
        BY <2>3, <2>4, <2>5, <3>1, <3>3, <4>1 DEF TopFits
    <3> QED
      BY <2>1, <3>3, <3>4, <3>5 DEF StackInv
  <2>7. CASE then = "tail"
    <3> DEFINE last == Len(frames)
               l == Lowered(f)
    <3>1. /\ frames \in Seq(CallInfo) /\ last \in Nat /\ last \in 1 .. last /\ DOMAIN frames = 1 .. last
          /\ ci \in CallInfo /\ ci.func \in Nat /\ ci.base \in Nat /\ ci.func < ci.base /\ func >= ci.base
          /\ pcalls \in Seq(Protected)
      BY <1>1, <2>7, CurrentFrame DEF StackTypes, StackInv, TopFits
    <3>2. /\ l.func = ci.func /\ l.base = f.base - (func - ci.func) /\ l.top = f.top - (func - ci.func)
          /\ l.wanted = ci.wanted /\ l.then = ci.then /\ l.lua = f.lua
      BY DEF Lowered
    <3>3. /\ l.base \in Nat /\ l.top \in Nat /\ l.func < l.base /\ l.base <= l.top /\ l.top <= f.top
      <4>1. func \in Nat /\ ci.func \in Nat /\ func >= ci.func /\ f.base \in Nat /\ f.top \in Nat /\ f.base > func /\ f.base <= f.top
        BY <1>1, <2>2, <2>4, <2>5, <3>1
      <4> HIDE DEF l
      <4> QED
        BY <3>2, <4>1
    <3>4. l \in CallInfo
      <4>1. l = [func |-> l.func, base |-> l.base, top |-> l.top, lua |-> l.lua, wanted |-> l.wanted, then |-> l.then]
        BY DEF Lowered
      <4>2. l.func \in Nat /\ l.lua \in BOOLEAN /\ l.wanted \in Nat \cup {MULTRET} /\ l.then \in {"continue", "pcall", "tm", "throw"}
        BY <2>4, <3>1, <3>2 DEF CallInfo
      <4> HIDE DEF l
      <4> QED
        BY <3>3, <4>1, <4>2 DEF CallInfo
    <3>5. frames' = [frames EXCEPT ![last] = l] /\ top' = l.top
      BY <1>3, <2>7
    <3>6. frames[last] = ci /\ last = Len(frames)
      BY DEF ci
    <3> HIDE DEF l, last
    <3>7. /\ frames' \in Seq(CallInfo) /\ Len(frames') = last /\ DOMAIN frames' = 1 .. last
          /\ frames'[last] = l /\ \A k \in 1 .. last : k # last => frames'[k] = frames[k]
      <4>1. frames' = [frames EXCEPT ![last] = l]
        BY <3>5
      <4>2. Len(frames) = last /\ frames' \in Seq(CallInfo) /\ DOMAIN frames' = DOMAIN frames
        BY <3>1, <3>4, <3>6, <4>1
      <4>3. Len(frames') = last
        BY <3>1, <4>2
      <4> QED
        BY <3>1, <4>1, <4>2, <4>3
    <3>8. l.top + EXTRA_STACK <= stacksize' /\ l.top <= stacksize'
      BY <2>1, <2>5, <3>3, Room
    <3>9. \A k \in 1 .. last : /\ frames'[k].func = frames[k].func
                               /\ frames'[k].wanted = frames[k].wanted /\ frames'[k].then = frames[k].then
      BY <3>2, <3>6, <3>7
    <3>10. StackTypes'
      BY <1>1, <2>1, <2>3, <3>1, <3>3, <3>5, <3>7 DEF StackTypes, MULTRET
    <3>11. FramesFit'
      <4> SUFFICES ASSUME NEW k \in 1 .. last
                   PROVE  /\ frames'[k].func < frames'[k].base /\ frames'[k].top <= stacksize'
                          /\ frames'[k].base <= frames'[k].top /\ frames'[k].top + EXTRA_STACK <= stacksize'
        BY <3>7 DEF FramesFit
      <4>1. CASE k = last
        BY <3>3, <3>7, <3>8, <4>1
      <4>2. CASE k # last
        <5>1. k \in DOMAIN frames
          BY <3>1
        <5>2. frames[k].top \in Nat
          BY <5>1, AllFrames
        <5>3. /\ frames[k].func < frames[k].base /\ frames[k].base <= frames[k].top
              /\ frames[k].top + EXTRA_STACK <= stacksize
          BY <1>1, <5>1 DEF StackInv, FramesFit
        <5>4. frames[k].top + EXTRA_STACK <= stacksize'
          BY <1>1, <2>1, <5>2, <5>3
        <5>5. frames[k].top <= stacksize'
          BY <2>1, <5>2, <5>4, Room
        <5> QED
          BY <3>7, <4>2, <5>3, <5>4, <5>5
      <4> QED
        BY <4>1, <4>2
    <3>12. ResultsFit'
      <4> SUFFICES ASSUME NEW k \in 2 .. last
                   PROVE  /\ frames'[k].then # "throw" /\ frames'[k].wanted # MULTRET =>
                               frames'[k].func + frames'[k].wanted <= frames'[k - 1].top
                          /\ frames'[k].then = "tm" => frames'[k].wanted # MULTRET
        BY <3>7 DEF ResultsFit
      <4>1. k \in 1 .. last /\ k - 1 \in 1 .. last /\ k - 1 # last
        BY <3>1
      <4> QED
        BY <1>1, <3>6, <3>7, <3>9, <4>1 DEF StackInv, ResultsFit
    <3>13. TopFits'
      <4>1. ci' = l
        BY <3>7 DEF ci
      <4> QED
        BY <2>3, <2>4, <3>2, <3>5, <3>8, <4>1 DEF TopFits
    <3>14. PcallsFit'
      <4>1. ASSUME NEW e \in DOMAIN pcalls
            PROVE  /\ pcalls[e].ci \in 1 .. last /\ pcalls[e].ci < last
                   /\ pcalls[e].old_top + 1 <= frames'[pcalls[e].ci].top
                   /\ frames'[pcalls[e].ci + 1].then \in {"pcall", "throw"}
        <5>1. /\ pcalls[e].ci \in 1 .. last /\ pcalls[e].ci < last
              /\ pcalls[e].old_top + 1 <= frames[pcalls[e].ci].top
              /\ frames[pcalls[e].ci + 1].then \in {"pcall", "throw"}
          BY <1>1, <2>7, <3>6 DEF StackInv, PcallsFit
        <5>2. pcalls[e].ci + 1 \in 1 .. last /\ pcalls[e].ci # last
          BY <3>1, <5>1
        <5> QED
          BY <3>7, <3>9, <5>1, <5>2
      <4>2. \A k \in 2 .. last : frames'[k].then = frames[k].then
        BY <3>1, <3>9
      <4> QED
        BY <1>1, <2>3, <3>6, <3>7, <4>1, <4>2 DEF StackInv, PcallsFit
    <3> QED
      BY <2>1, <3>10, <3>11, <3>12, <3>13, <3>14 DEF StackInv
  <2> QED
    BY <2>6, <2>7
<1> QED
  BY <1>a, <1>2, <1>3

--------------------------------------------------------------------------------
(* Leaving functions.                                                         *)

(* The first n elements of a sequence.                                        *)
LEMMA Prefix ==
  ASSUME NEW S, NEW s \in Seq(S), NEW n \in Nat, n <= Len(s)
  PROVE  /\ SubSeq(s, 1, n) \in Seq(S) /\ Len(SubSeq(s, 1, n)) = n /\ DOMAIN SubSeq(s, 1, n) = 1 .. n
         /\ \A k \in 1 .. n : SubSeq(s, 1, n)[k] = s[k]
<1>1. Len(s) \in Nat
  OBVIOUS
<1>2. /\ SubSeq(s, 1, n) \in Seq(S)
      /\ Len(SubSeq(s, 1, n)) = IF 1 <= n THEN n - 1 + 1 ELSE 0
      /\ \A k \in 1 .. n - 1 + 1 : SubSeq(s, 1, n)[k] = s[1 + k - 1]
  <2>1. 1 \in 1 .. Len(s) + 1 /\ n \in 0 .. Len(s)
    BY <1>1
  <2> QED
    BY <2>1, SubSeqProperties
<1>3. Len(SubSeq(s, 1, n)) = n
  BY <1>2
<1> QED
  BY <1>2, <1>3

(* n frames stay, perhaps with more space, and the first m calls of           *)
(* luaD_pcall, which are those of the frames that called them.                *)
LEMMA Leave ==
  ASSUME StackInv, pc # "dead", pc' \in {"run", "throw"}, stacksize' \in Nat,
         NEW n \in Nat, n >= 1, n <= Len(frames), DOMAIN frames' = 1 .. n, Len(frames') = n,
         \A k \in 1 .. n : /\ frames'[k].func = frames[k].func /\ frames'[k].base = frames[k].base
                           /\ frames'[k].wanted = frames[k].wanted /\ frames'[k].then = frames[k].then
                           /\ frames'[k].top \in Nat /\ frames'[k].top >= frames[k].top
                           /\ frames'[k].top + EXTRA_STACK <= stacksize',
         NEW m \in Nat, m <= Len(pcalls), DOMAIN pcalls' = 1 .. m,
         \A e \in 1 .. m : /\ pcalls'[e] = pcalls[e] /\ pcalls[e].ci <= n
                           /\ pc' = "run" => pcalls[e].ci < n,
         \A e \in DOMAIN pcalls : e > m => pcalls[e].ci >= n
  PROVE  FramesFit' /\ ResultsFit' /\ PcallsFit'
<1>1. /\ Len(frames) \in Nat /\ Len(pcalls) \in Nat /\ DOMAIN frames = 1 .. Len(frames)
      /\ DOMAIN pcalls = 1 .. Len(pcalls) /\ pcalls \in Seq(Protected)
  BY CurrentFrame DEF StackInv, StackTypes
<1>2. FramesFit'
  <2> SUFFICES ASSUME NEW k \in 1 .. n
               PROVE  /\ frames'[k].func < frames'[k].base /\ frames'[k].top <= stacksize'
                      /\ frames'[k].base <= frames'[k].top /\ frames'[k].top + EXTRA_STACK <= stacksize'
    BY DEF FramesFit
  <2>1. k \in DOMAIN frames
    BY <1>1
  <2>2. frames[k].top \in Nat /\ frames[k].base \in Nat
    BY <2>1, AllFrames
  <2>3. frames[k].func < frames[k].base /\ frames[k].base <= frames[k].top
    BY <2>1 DEF StackInv, FramesFit
  <2>4. frames'[k].top <= stacksize'
    BY Room
  <2>5. frames[k].base <= frames'[k].top
    BY <2>2, <2>3
  <2> QED
    BY <2>3, <2>4, <2>5
<1>3. ResultsFit'
  <2> SUFFICES ASSUME NEW k \in 2 .. n
               PROVE  /\ frames'[k].then # "throw" /\ frames'[k].wanted # MULTRET =>
                           frames'[k].func + frames'[k].wanted <= frames'[k - 1].top
                      /\ frames'[k].then = "tm" => frames'[k].wanted # MULTRET
    BY DEF ResultsFit
  <2>1. k \in 2 .. Len(frames) /\ k \in 1 .. n /\ k - 1 \in 1 .. n /\ k \in DOMAIN frames /\ k - 1 \in DOMAIN frames
    BY <1>1
  <2>2. /\ frames[k].then # "throw" /\ frames[k].wanted # MULTRET =>
             frames[k].func + frames[k].wanted <= frames[k - 1].top
        /\ frames[k].then = "tm" => frames[k].wanted # MULTRET
    BY <2>1 DEF StackInv, ResultsFit
  <2>3. frames[k - 1].top \in Nat /\ frames[k].func \in Nat /\ frames[k].wanted \in Nat \cup {MULTRET}
    BY <2>1, AllFrames
  <2>4. frames'[k - 1].top \in Nat /\ frames'[k - 1].top >= frames[k - 1].top
    BY <2>1
  <2>5. ASSUME frames[k].then # "throw", frames[k].wanted # MULTRET
        PROVE  frames[k].func + frames[k].wanted <= frames'[k - 1].top
    <3>1. frames[k].wanted \in Nat
      BY <2>3, <2>5
    <3> QED
      BY <2>2, <2>3, <2>4, <2>5, <3>1
  <2> QED
    BY <2>1, <2>2, <2>5
<1>4. PcallsFit'
  <2>1. ASSUME NEW e \in 1 .. m
        PROVE  /\ pcalls'[e].ci \in 1 .. n
               /\ pcalls'[e].old_top + 1 <= frames'[pcalls'[e].ci].top
               /\ pcalls'[e].ci < n => frames'[pcalls'[e].ci + 1].then \in {"pcall", "throw"}
               /\ pc' = "run" => pcalls'[e].ci < n
    <3>1. e \in DOMAIN pcalls /\ pcalls'[e] = pcalls[e]
      BY <1>1
    <3>2. /\ pcalls[e].ci \in 1 .. Len(frames) /\ pcalls[e].old_top + 1 <= frames[pcalls[e].ci].top
          /\ pcalls[e].ci < Len(frames) => frames[pcalls[e].ci + 1].then \in {"pcall", "throw"}
      BY <3>1 DEF StackInv, PcallsFit
    <3>3. pcalls[e].old_top \in Nat
      <4>1. pcalls[e] \in Protected
        BY <1>1, <3>1
      <4> QED
        BY <4>1 DEF Protected
    <3>4. pcalls[e].ci \in 1 .. n /\ pcalls[e].ci \in DOMAIN frames
      BY <1>1, <3>2
    <3>5. frames[pcalls[e].ci].top \in Nat
      BY <3>4, AllFrames
    <3>6. frames'[pcalls[e].ci].top \in Nat /\ frames'[pcalls[e].ci].top >= frames[pcalls[e].ci].top
      BY <3>4
    <3>7. pcalls[e].old_top + 1 <= frames'[pcalls[e].ci].top
      <4>1. \A a, b, c \in Nat : a + 1 <= b /\ c >= b => a + 1 <= c
        OBVIOUS
      <4>2. pcalls[e].old_top + 1 <= frames[pcalls[e].ci].top
        BY <3>2
      <4> QED
        BY <3>3, <3>5, <3>6, <4>1, <4>2
    <3>8. ASSUME pcalls[e].ci < n
          PROVE  frames'[pcalls[e].ci + 1].then \in {"pcall", "throw"}
      <4>1. pcalls[e].ci < Len(frames) /\ pcalls[e].ci + 1 \in 1 .. n
        BY <1>1, <3>2, <3>8
      <4> QED
        BY <3>2, <4>1
    <3> QED
      BY <3>1, <3>4, <3>7, <3>8
  <2>2. ASSUME NEW d \in 1 .. m, NEW e \in 1 .. m, d < e
        PROVE  pcalls'[d].ci < pcalls'[e].ci
    <3>1. d \in DOMAIN pcalls /\ e \in DOMAIN pcalls
      BY <1>1
    <3> QED
      BY <2>2, <3>1 DEF StackInv, PcallsFit
  <2>3. ASSUME NEW k \in 2 .. n, frames'[k].then = "pcall"
        PROVE  \E e \in 1 .. m : pcalls'[e].ci = k - 1
    <3>1. k \in 2 .. Len(frames) /\ k \in 1 .. n
      BY <1>1
    <3>2. PICK e \in DOMAIN pcalls : pcalls[e].ci = k - 1
      BY <2>3, <3>1 DEF StackInv, PcallsFit
    <3>3. ~(e > m)
      BY <3>2
    <3>4. e \in 1 .. m
      BY <1>1, <3>3
    <3> QED
      BY <3>2, <3>4
  <2> QED
    BY <2>1, <2>2, <2>3 DEF PcallsFit
<1> QED
  BY <1>2, <1>3, <1>4

(* The function of the last frame returns n values.  The calls of luaD_pcall  *)
(* are all of lower frames; the last one is of the caller exactly if it       *)
(* called that way.                                                           *)
LEMMA PoscallStep ==
  ASSUME StackInv, luaD_poscall
  PROVE  StackInv'
<1> DEFINE last == Len(frames)
           caller == frames[Len(frames) - 1]
           count == Len(pcalls)
<1>1. PICK n \in Counts :
        /\ n <= top - ci.base
        /\ CASE ci.then = "throw" -> top' = ci.func + 1 /\ pc' = "throw"
             [] ci.then = "tm" -> top' = ci.func /\ pc' = pc
             [] OTHER -> top' = Top(n) /\ pc' = pc
        /\ frames' = IF ci.then \in {"continue", "pcall"} /\ ci.wanted = MULTRET /\ ~caller.lua /\ caller.top < top'
                     THEN [Front(frames) EXCEPT ![Len(frames) - 1].top = top'] ELSE Front(frames)
  BY DEF luaD_poscall
<1>2. /\ pc = "run" /\ last > 1 /\ UNCHANGED <<stacksize, func, then, wanted, start>>
      /\ IF ci.then = "pcall"
         THEN pcalls' = Front(pcalls) /\ errfunc' = Last(pcalls).old_errfunc
         ELSE UNCHANGED <<pcalls, errfunc>>
  BY DEF luaD_poscall, Running, calling
<1>3. /\ n \in Nat /\ stacksize \in Nat /\ top \in Nat /\ StackTypes /\ SizeFits /\ frames \in Seq(CallInfo)
      /\ pcalls \in Seq(Protected) /\ last \in Nat /\ count \in Nat
      /\ DOMAIN frames = 1 .. last /\ DOMAIN pcalls = 1 .. count
      /\ top + EXTRA_STACK <= stacksize /\ EXTRA_STACK \in Nat /\ EXTRA_STACK >= 5
  BY <1>2, StackAssumption, CurrentFrame DEF StackInv, StackTypes, TopFits
<1>4. /\ ci \in CallInfo /\ ci.func \in Nat /\ ci.base \in Nat /\ ci.top \in Nat
      /\ ci.func < ci.base /\ ci.base <= ci.top /\ ci.top + EXTRA_STACK <= stacksize
      /\ ci.wanted \in Nat \cup {MULTRET} /\ ci.then \in {"continue", "pcall", "tm", "throw"}
      /\ ci = frames[last]
  <2>1. ci \in CallInfo
    BY CurrentFrame
  <2> QED
    BY <1>2, <2>1, CurrentFrame DEF ci, CallInfo
<1>5. /\ last - 1 \in Nat /\ last - 1 >= 1 /\ last - 1 \in DOMAIN frames /\ last - 1 < last
      /\ caller \in CallInfo /\ caller.top \in Nat /\ caller.top + EXTRA_STACK <= stacksize
  <2>1. last - 1 \in Nat /\ last - 1 >= 1 /\ last - 1 \in DOMAIN frames /\ last - 1 < last
    BY <1>2, <1>3
  <2> QED
    BY <1>2, <2>1, AllFrames DEF StackInv, FramesFit
<1>6. /\ ci.then # "throw" /\ ci.wanted # MULTRET => ci.func + ci.wanted <= caller.top
      /\ ci.then = "tm" => ci.wanted # MULTRET
  <2>1. last \in 2 .. last
    BY <1>2, <1>3
  <2> QED
    BY <1>2, <1>4, <2>1 DEF StackInv, ResultsFit
<1> HIDE DEF last, count
<1>7. top' \in Nat /\ top' + EXTRA_STACK <= stacksize /\ (ci.then = "throw" => top' + 1 <= stacksize)
  <2>1. CASE ci.then = "throw"
    <3>1. top' = ci.func + 1
      BY <1>1, <2>1
    <3>2. ci.func + 1 \in Nat /\ ci.func + 1 <= ci.top
      BY <1>4
    <3>3. ci.func + 1 + EXTRA_STACK <= stacksize /\ ci.func + 1 + 1 <= stacksize
      <4>1. EXTRA_STACK >= 5 /\ EXTRA_STACK \in Nat /\ stacksize \in Nat
        BY <1>3
      <4> QED
        BY <1>4, <3>2, <4>1
    <3> QED
      BY <3>1, <3>2, <3>3
  <2>2. CASE ci.then = "tm"
    <3>1. top' = ci.func
      BY <1>1, <2>2
    <3> QED
      BY SMTT(30), <1>3, <1>4, <2>2, <3>1
  <2>3. CASE ci.then \in {"continue", "pcall"}
    <3>1. top' = Top(n)
      BY <1>1, <2>3
    <3>2. CASE ci.wanted = MULTRET
      <4>1. top' = ci.func + n
        BY <3>1, <3>2 DEF Top
      <4>2. ci.func + n \in Nat /\ ci.func + n <= top
        <5>1. n <= top - ci.base
          BY <1>1
        <5>2. n \in Nat /\ top \in Nat
          BY <1>3
        <5> QED
          BY <1>4, <5>1, <5>2
      <4> QED
        BY <1>3, <2>3, <4>1, <4>2, Room
    <3>3. CASE ci.wanted # MULTRET /\ caller.lua
      <4>1. top' = caller.top
        BY <3>1, <3>3 DEF Top
      <4> QED
        BY <1>5, <2>3, <4>1
    <3>4. CASE ci.wanted # MULTRET /\ ~caller.lua
      <4>1. top' = ci.func + ci.wanted
        BY <3>1, <3>4 DEF Top
      <4>2. ci.wanted \in Nat
        BY <1>4, <3>4
      <4>3. ci.func + ci.wanted \in Nat /\ ci.func + ci.wanted <= caller.top
        BY <1>4, <1>6, <2>3, <3>4, <4>2
      <4> QED
        BY <1>3, <1>5, <2>3, <4>1, <4>3, Room
    <3> QED
      BY <3>2, <3>3, <3>4
  <2> QED
    BY <1>4, <2>1, <2>2, <2>3
<1>8. pc' = IF ci.then = "throw" THEN "throw" ELSE "run"
  BY <1>1, <1>2
<1> DEFINE left == last - 1
           raised == ci.then \in {"continue", "pcall"} /\ ci.wanted = MULTRET /\ ~caller.lua /\ caller.top < top'
<1>9. /\ Front(frames) \in Seq(CallInfo) /\ Len(Front(frames)) = left /\ DOMAIN Front(frames) = 1 .. left
      /\ \A k \in 1 .. left : Front(frames)[k] = frames[k]
  <2>1. left \in Nat /\ left <= Len(frames) /\ Front(frames) = SubSeq(frames, 1, left)
    BY <1>3, <1>5 DEF Front, last
  <2> HIDE DEF left
  <2> QED
    BY <1>3, <2>1, Prefix
<1>10. /\ frames' \in Seq(CallInfo) /\ Len(frames') = left /\ DOMAIN frames' = 1 .. left
       /\ \A k \in 1 .. left : /\ frames'[k].func = frames[k].func /\ frames'[k].base = frames[k].base
                               /\ frames'[k].wanted = frames[k].wanted /\ frames'[k].then = frames[k].then
                               /\ frames'[k].lua = frames[k].lua
                               /\ k # left => frames'[k].top = frames[k].top
       /\ frames'[left].top = IF raised THEN top' ELSE caller.top
  <2>1. caller = frames[left] /\ left \in Nat /\ left \in 1 .. left
    BY <1>5 DEF last
  <2>2. CASE ~raised
    <3>1. frames' = Front(frames)
      BY <1>1, <2>2
    <3> HIDE DEF left, raised, caller
    <3> QED
      BY <1>9, <2>1, <2>2, <3>1
  <2>3. CASE raised
    <3> DEFINE r == [caller EXCEPT !.top = top']
    <3>1. r \in CallInfo
      BY <1>5, <1>7 DEF CallInfo
    <3>2. frames' = [Front(frames) EXCEPT ![left] = r]
      <4>1. frames' = [Front(frames) EXCEPT ![left].top = top']
        BY <1>1, <2>3 DEF last
      <4>2. Front(frames)[left] = caller
        BY <1>9, <2>1
      <4> HIDE DEF left, caller
      <4> QED
        BY <1>9, <2>1, <4>1, <4>2
    <3>3. /\ r.func = caller.func /\ r.base = caller.base /\ r.wanted = caller.wanted /\ r.then = caller.then
          /\ r.lua = caller.lua /\ r.top = top'
      BY <1>5 DEF CallInfo
    <3> HIDE DEF r, left, raised, caller
    <3>4. DOMAIN frames' = 1 .. left /\ frames'[left] = r /\ \A k \in 1 .. left : k # left => frames'[k] = frames[k]
      BY <1>9, <2>1, <3>2
    <3>5. frames' \in Seq(CallInfo) /\ Len(frames') = left
      BY <1>9, <2>1, <3>1, <3>2
    <3> QED
      BY <2>1, <2>3, <3>3, <3>4, <3>5
  <2> QED
    BY <2>2, <2>3
<1>11. /\ left \in Nat /\ left >= 1 /\ left <= Len(frames) /\ caller = frames[left] /\ left \in 1 .. left
       /\ last = Len(frames) /\ count = Len(pcalls)
  BY <1>5 DEF last, count
<1>12. \A e \in DOMAIN pcalls : pcalls[e].ci \in 1 .. left
  <2> SUFFICES ASSUME NEW e \in DOMAIN pcalls PROVE pcalls[e].ci \in 1 .. left
    OBVIOUS
  <2>1. pcalls[e].ci \in 1 .. last /\ pcalls[e].ci < last
    BY <1>2, <1>11 DEF StackInv, PcallsFit
  <2> QED
    BY <1>3, <2>1
<1>13. \A e \in DOMAIN pcalls : pcalls[e].ci = left => ci.then \in {"pcall", "throw"}
  <2> SUFFICES ASSUME NEW e \in DOMAIN pcalls, pcalls[e].ci = left PROVE ci.then \in {"pcall", "throw"}
    OBVIOUS
  <2>1. pcalls[e].ci < last /\ pcalls[e].ci + 1 = last
    BY <1>3
  <2>2. pcalls[e].ci < Len(frames) /\ frames[pcalls[e].ci + 1] = ci
    BY <1>4, <1>11, <2>1
  <2> QED
    BY <1>2, <2>2 DEF StackInv, PcallsFit
<1>14. ci.then = "pcall" => count >= 1 /\ pcalls[count].ci = left /\ \A e \in 1 .. count - 1 : pcalls[e].ci < left
  <2> SUFFICES ASSUME ci.then = "pcall"
               PROVE  count >= 1 /\ pcalls[count].ci = left /\ \A e \in 1 .. count - 1 : pcalls[e].ci < left
    OBVIOUS
  <2>1. last \in 2 .. last
    BY <1>2, <1>3
  <2>2. PICK e \in DOMAIN pcalls : pcalls[e].ci = left
    BY <1>2, <1>4, <1>11, <2>1 DEF StackInv, PcallsFit
  <2>3. count >= 1 /\ count \in DOMAIN pcalls /\ e \in Nat /\ e <= count
    BY <1>3, <2>2
  <2>4. \A d, d2 \in DOMAIN pcalls : d < d2 => pcalls[d].ci < pcalls[d2].ci
    BY <1>2 DEF StackInv, PcallsFit
  <2>5. e = count
    <3>1. pcalls[count].ci \in 1 .. left
      BY <1>12, <2>3
    <3>2. ~(e < count)
      BY <1>11, <2>2, <2>3, <2>4, <3>1
    <3> QED
      BY <1>3, <2>3, <3>2
  <2>6. \A d \in 1 .. count - 1 : d \in DOMAIN pcalls /\ d < count
    BY <1>3
  <2> QED
    BY <2>2, <2>3, <2>4, <2>5, <2>6
<1> DEFINE remaining == IF ci.then = "pcall" THEN count - 1 ELSE count
<1>15. /\ remaining \in Nat /\ remaining <= count
       /\ pcalls' \in Seq(Protected) /\ DOMAIN pcalls' = 1 .. remaining
       /\ \A e \in 1 .. remaining : pcalls'[e] = pcalls[e]
       /\ errfunc' \in BOOLEAN
  <2>1. CASE ci.then = "pcall"
    <3>1. remaining = count - 1 /\ remaining \in Nat /\ remaining <= count /\ count \in DOMAIN pcalls
      BY <1>3, <1>14, <2>1
    <3>2. pcalls' = SubSeq(pcalls, 1, remaining)
      BY <1>2, <1>11, <2>1, <3>1 DEF Front
    <3>3. errfunc' = pcalls[count].old_errfunc /\ pcalls[count] \in Protected
      BY <1>2, <1>3, <1>11, <2>1, <3>1 DEF Last
    <3>4. errfunc' \in BOOLEAN
      BY <3>3 DEF Protected
    <3> HIDE DEF remaining
    <3> QED
      BY <1>3, <1>11, <3>1, <3>2, <3>4, Prefix
  <2>2. CASE ci.then # "pcall"
    BY <1>2, <1>3, <2>2 DEF StackTypes
  <2> QED
    BY <2>1, <2>2
<1>16. FramesFit' /\ ResultsFit' /\ PcallsFit'
  <2>1. \A k \in 1 .. left : /\ frames'[k].func = frames[k].func /\ frames'[k].base = frames[k].base
                             /\ frames'[k].wanted = frames[k].wanted /\ frames'[k].then = frames[k].then
                             /\ frames'[k].top \in Nat /\ frames'[k].top >= frames[k].top
                             /\ frames'[k].top + EXTRA_STACK <= stacksize'
    <3> SUFFICES ASSUME NEW k \in 1 .. left
                 PROVE  /\ frames'[k].top \in Nat /\ frames'[k].top >= frames[k].top
                        /\ frames'[k].top + EXTRA_STACK <= stacksize'
      BY <1>10
    <3>1. k \in DOMAIN frames
      BY <1>3, <1>11
    <3>2. frames[k].top \in Nat /\ frames[k].top + EXTRA_STACK <= stacksize
      BY <1>2, <3>1, AllFrames DEF StackInv, FramesFit
    <3>3. stacksize' = stacksize
      BY <1>2
    <3>4. CASE k # left
      BY <1>10, <3>2, <3>3, <3>4
    <3>5. CASE k = left
      <4>1. frames'[k].top = IF raised THEN top' ELSE caller.top
        BY <1>10, <3>5
      <4>2. CASE raised
        <5>1. frames'[k].top = top' /\ frames[k].top < top'
          BY <1>11, <3>5, <4>1, <4>2
        <5> QED
          BY <1>7, <3>2, <3>3, <5>1
      <4>3. CASE ~raised
        <5>1. frames'[k].top = frames[k].top
          BY <1>11, <3>5, <4>1, <4>3
        <5> QED
          BY <3>2, <3>3, <5>1
      <4> QED
        BY <4>2, <4>3
    <3> QED
      BY <3>4, <3>5
  <2>2. \A e \in 1 .. remaining : /\ pcalls'[e] = pcalls[e] /\ pcalls[e].ci <= left
                                  /\ pc' = "run" => pcalls[e].ci < left
    <3> SUFFICES ASSUME NEW e \in 1 .. remaining
                 PROVE  pcalls[e].ci <= left /\ (pc' = "run" => pcalls[e].ci < left)
      BY <1>15
    <3>1. e \in DOMAIN pcalls
      BY <1>3, <1>15
    <3>2. pcalls[e].ci \in 1 .. left
      BY <1>12, <3>1
    <3>3. CASE ci.then = "throw"
      BY <1>8, <1>11, <3>2, <3>3
    <3>4. CASE ci.then = "pcall"
      BY <1>14, <3>2, <3>4
    <3>5. CASE ci.then \notin {"pcall", "throw"}
      BY <1>11, <1>13, <3>1, <3>2, <3>5
    <3> QED
      BY <3>3, <3>4, <3>5
  <2>3. \A e \in DOMAIN pcalls : e > remaining => pcalls[e].ci >= left
    <3> SUFFICES ASSUME NEW e \in DOMAIN pcalls, e > remaining PROVE pcalls[e].ci >= left
      OBVIOUS
    <3>1. ci.then = "pcall" /\ e = count
      BY <1>3
    <3> QED
      BY <1>11, <1>14, <3>1
  <2>4. stacksize' \in Nat /\ pc' \in {"run", "throw"} /\ pc # "dead"
    BY <1>2, <1>3, <1>8
  <2> HIDE DEF left, remaining
  <2> QED
    BY <1>10, <1>11, <1>15, <2>1, <2>2, <2>3, <2>4, Leave
<1>17. StackTypes' /\ SizeFits'
  <2>1. Len(frames') >= 1
    BY <1>10, <1>11
  <2> QED
    BY <1>2, <1>3, <1>7, <1>8, <1>10, <1>15, <2>1 DEF StackTypes, SizeFits
<1>18. TopFits'
  <2>1. top' <= stacksize' /\ top' + EXTRA_STACK <= stacksize'
    <3>1. stacksize' = stacksize /\ stacksize' \in Nat /\ top' \in Nat /\ top' + EXTRA_STACK <= stacksize'
      BY <1>2, <1>3, <1>7
    <3> QED
      BY <3>1, Room
  <2>2. ci'.lua = caller.lua /\ ci'.top = IF raised THEN top' ELSE caller.top
    BY <1>10, <1>11 DEF ci
  <2>3. ASSUME pc' = "run", ~ci'.lua PROVE top' <= ci'.top
    <3>1. ~caller.lua /\ ci.then \in {"continue", "pcall", "tm"}
      BY <1>4, <1>8, <2>2, <2>3
    <3>2. CASE raised
      BY <1>7, <2>2, <3>2
    <3>3. CASE ~raised /\ ci.then = "tm"
      <4>1. top' = ci.func /\ ci.wanted \in Nat
        BY <1>1, <1>4, <1>6, <3>3
      <4>2. ci.func + ci.wanted <= caller.top
        BY <1>6, <3>3
      <4>3. top' <= caller.top
        BY <1>4, <1>5, <4>1, <4>2
      <4> QED
        BY <2>2, <3>3, <4>3
    <3>4. CASE ~raised /\ ci.then \in {"continue", "pcall"} /\ ci.wanted = MULTRET
      <4>1. ~(caller.top < top')
        BY <3>1, <3>4
      <4> QED
        BY <1>5, <1>7, <2>2, <3>4, <4>1
    <3>5. CASE ~raised /\ ci.then \in {"continue", "pcall"} /\ ci.wanted # MULTRET
      <4>1. top' = ci.func + ci.wanted
        BY <1>1, <3>1, <3>5 DEF Top
      <4> QED
        BY <1>6, <2>2, <3>5, <4>1
    <3> QED
      BY <3>1, <3>2, <3>3, <3>4, <3>5
  <2>4. pc' = "throw" => top' + 1 <= stacksize'
    BY <1>2, <1>7, <1>8
  <2> QED
    BY <1>8, <2>1, <2>3, <2>4 DEF TopFits
<1> QED
  BY <1>16, <1>17, <1>18 DEF StackInv

--------------------------------------------------------------------------------
(* Shrinking: a stack is made smaller only if its frames and its top have the *)
(* extra slots above them afterwards.                                         *)
LEMMA Inuse ==
  ASSUME NEW fs \in Seq(CallInfo), NEW t \in Nat, NEW size \in Nat, t <= size, \A k \in DOMAIN fs : fs[k].top <= size
  PROVE  stackinuse(fs, t) \in Nat /\ t < stackinuse(fs, t) /\ \A k \in DOMAIN fs : fs[k].top < stackinuse(fs, t)
<1> DEFINE tops == {fs[k].top : k \in DOMAIN fs} \cup {t}
           lim == CHOOSE x \in tops : \A y \in tops : y <= x
<1>1. \A k \in DOMAIN fs : fs[k].top \in Nat
  <2> TAKE k \in DOMAIN fs
  <2>1. fs[k] \in CallInfo
    OBVIOUS
  <2> QED
    BY <2>1 DEF CallInfo
<1>2. tops \subseteq 0 .. size /\ tops # {} /\ t \in tops /\ \A k \in DOMAIN fs : fs[k].top \in tops
  BY <1>1
<1>3. stackinuse(fs, t) = 1 + lim
  BY DEF stackinuse
<1> HIDE DEF tops
<1>4. \E x \in tops : \A y \in tops : y <= x
  BY <1>2, MaxExists
<1>5. lim \in tops /\ \A y \in tops : y <= lim
  BY <1>4
<1> HIDE DEF lim
<1>6. lim \in Nat
  BY <1>2, <1>5
<1>7. \A y \in tops : y \in Nat /\ y < 1 + lim
  BY <1>2, <1>5, <1>6
<1>8. \A k \in DOMAIN fs : fs[k].top < 1 + lim
  <2> TAKE k \in DOMAIN fs
  <2>1. fs[k].top \in tops
    BY <1>2
  <2> QED
    BY <1>7, <2>1
<1>9. 1 + lim \in Nat /\ t < 1 + lim
  BY <1>2, <1>6, <1>7
<1> QED
  BY <1>3, <1>8, <1>9

LEMMA Shrinks ==
  ASSUME stacksize \in Nat, SizeFits, NEW fs \in Seq(CallInfo), NEW t \in Nat, NEW unused,
         t <= stacksize, \A k \in DOMAIN fs : fs[k].top <= stacksize,
         luaD_shrinkstack(fs, t, unused)
  PROVE  /\ stacksize' \in Nat /\ SizeFits'
         /\ \/ stacksize' = stacksize
            \/ /\ t + 1 + EXTRA_STACK <= stacksize'
               /\ \A k \in DOMAIN fs : fs[k].top + EXTRA_STACK <= stacksize'
<1> DEFINE inuse == stackinuse(fs, t)
           good == inuse + (inuse \div 8) + 2 * EXTRA_STACK
           goodsize == IF good > LUAI_MAXSTACK THEN LUAI_MAXSTACK ELSE good
<1>1. inuse \in Nat /\ t < inuse /\ \A k \in DOMAIN fs : fs[k].top < inuse
  BY Inuse
<1>2. stacksize' = IF inuse <= LUAI_MAXSTACK - EXTRA_STACK /\ goodsize < stacksize THEN goodsize ELSE stacksize
  BY DEF luaD_shrinkstack
<1>3. \A k \in DOMAIN fs : fs[k].top \in Nat
  <2> TAKE k \in DOMAIN fs
  <2>1. fs[k] \in CallInfo
    OBVIOUS
  <2> QED
    BY <2>1 DEF CallInfo
<1> HIDE DEF inuse
<1>4. CASE stacksize' = stacksize
  BY <1>4 DEF SizeFits
<1>5. CASE inuse <= LUAI_MAXSTACK - EXTRA_STACK /\ stacksize' = goodsize
  <2>1. inuse \div 8 \in Nat
    BY <1>1
  <2>2. goodsize \in Nat /\ goodsize <= LUAI_MAXSTACK /\ inuse + EXTRA_STACK <= goodsize
    BY <1>1, <1>5, <2>1, Sizes
  <2> HIDE DEF goodsize
  <2>3. t + 1 + EXTRA_STACK <= goodsize
    BY <1>1, <2>2, Sizes
  <2>4. \A k \in DOMAIN fs : fs[k].top + EXTRA_STACK <= goodsize
    <3> TAKE k \in DOMAIN fs
    <3>1. fs[k].top \in Nat /\ fs[k].top < inuse
      BY <1>1, <1>3
    <3> QED
      BY <1>1, <2>2, <3>1, Sizes
  <2> QED
    BY <1>5, <2>2, <2>3, <2>4 DEF SizeFits
<1> QED
  BY <1>2, <1>4, <1>5

LEMMA TraversethreadStep ==
  ASSUME StackInv, traversethread
  PROVE  StackInv'
<1>1. /\ luaD_shrinkstack(frames, top, free)
      /\ UNCHANGED <<top, frames, pcalls, errfunc, pc, func, then, wanted, start>>
  BY DEF traversethread, calling
<1>2. /\ stacksize \in Nat /\ top \in Nat /\ StackTypes /\ SizeFits /\ frames \in Seq(CallInfo) /\ top <= stacksize
      /\ EXTRA_STACK \in Nat
  BY StackAssumption DEF StackInv, StackTypes, TopFits
<1>3. \A k \in DOMAIN frames : frames[k].top <= stacksize
  BY DEF StackInv, FramesFit
<1>4. stacksize' = stacksize => StackInv'
  <2> SUFFICES ASSUME stacksize' = stacksize PROVE StackInv'
    OBVIOUS
  <2>1. ci' = ci
    BY <1>1 DEF ci
  <2> QED
    BY <1>1, <2>1 DEF StackInv, StackTypes, SizeFits, FramesFit, ResultsFit, TopFits, PcallsFit
<1>5. /\ stacksize' \in Nat /\ SizeFits'
      /\ \/ stacksize' = stacksize
         \/ /\ top + 1 + EXTRA_STACK <= stacksize'
            /\ \A k \in DOMAIN frames : frames[k].top + EXTRA_STACK <= stacksize'
  BY <1>1, <1>2, <1>3, Shrinks
<1>6. ASSUME top + 1 + EXTRA_STACK <= stacksize', \A k \in DOMAIN frames : frames[k].top + EXTRA_STACK <= stacksize'
      PROVE  StackInv'
  <2>1. StackTypes'
    BY <1>1, <1>2, <1>5 DEF StackTypes
  <2>2. FramesFit'
    <3> SUFFICES ASSUME NEW k \in DOMAIN frames PROVE frames[k].top <= stacksize'
      BY <1>1, <1>6 DEF StackInv, FramesFit
    <3>1. frames[k].top \in Nat
      BY AllFrames
    <3> QED
      BY <1>5, <1>6, <3>1, Room
  <2>3. ResultsFit'
    BY <1>1 DEF StackInv, ResultsFit
  <2>4. TopFits'
    <3>1. top + 1 <= stacksize' /\ top <= stacksize' /\ top + EXTRA_STACK <= stacksize'
      <4>1. top + 1 \in Nat /\ top <= top + 1
        BY <1>2
      <4>2. top + EXTRA_STACK <= stacksize' /\ top <= stacksize' /\ top + 1 <= stacksize'
        <5>1. top + 1 <= stacksize'
          BY <1>5, <1>6, <4>1, Room
        <5> QED
          BY <1>2, <1>5, <1>6, <4>1, <5>1, Room
      <4> QED
        BY <4>2
    <3>2. ci' = ci
      BY <1>1 DEF ci
    <3>3. top + EXTRA_STACK <= stacksize' + 4
      <4>1. \A a, b, c \in Nat : a + b <= c => a + b <= c + 4
        OBVIOUS
      <4> QED
        BY <1>2, <1>5, <3>1, <4>1
    <3> QED
      BY <1>1, <3>1, <3>2, <3>3 DEF StackInv, TopFits
  <2>5. PcallsFit'
    BY <1>1 DEF StackInv, PcallsFit
  <2> QED
    BY <1>5, <2>1, <2>2, <2>3, <2>4, <2>5 DEF StackInv
<1> QED
  BY <1>4, <1>5, <1>6

(* The error comes to the last luaD_pcall, whose frame still has the slot of  *)
(* the function, for the message.                                             *)
LEMMA PcallStep ==
  ASSUME StackInv, luaD_pcall
  PROVE  StackInv'
<1> DEFINE count == Len(pcalls)
           call == pcalls[Len(pcalls)]
           n == call.ci
<1>1. /\ pc = "throw" /\ pcalls # <<>> /\ pc' = "run" /\ UNCHANGED <<func, then, wanted, start>>
      /\ frames' = SubSeq(frames, 1, n) /\ top' = call.old_top + 1
      /\ luaD_shrinkstack(frames', top', free + Len(frames) - n)
      /\ errfunc' = call.old_errfunc /\ pcalls' = Front(pcalls)
  BY DEF luaD_pcall, Last, calling
<1>2. /\ stacksize \in Nat /\ StackTypes /\ SizeFits /\ frames \in Seq(CallInfo) /\ pcalls \in Seq(Protected)
      /\ EXTRA_STACK \in Nat /\ Len(frames) \in Nat /\ DOMAIN frames = 1 .. Len(frames)
  BY StackAssumption, CurrentFrame DEF StackInv, StackTypes
<1>3. count \in Nat /\ count >= 1 /\ DOMAIN pcalls = 1 .. count /\ count \in DOMAIN pcalls /\ count - 1 \in Nat
  <2>1. Len(pcalls) \in Nat /\ Len(pcalls) # 0 /\ DOMAIN pcalls = 1 .. Len(pcalls)
    BY <1>1, <1>2
  <2> QED
    BY <2>1
<1>4. call \in Protected /\ call.old_top \in Nat /\ call.old_errfunc \in BOOLEAN /\ call.old_top + 1 \in Nat
  <2>1. call \in Protected
    BY <1>2, <1>3
  <2> QED
    BY <2>1 DEF Protected
<1>5. n \in 1 .. Len(frames) /\ call.old_top + 1 <= frames[n].top /\ n \in Nat /\ n >= 1 /\ n <= Len(frames)
  <2>1. n \in 1 .. Len(frames) /\ call.old_top + 1 <= frames[n].top
    BY <1>1, <1>3 DEF StackInv, PcallsFit
  <2> QED
    BY <1>2, <2>1
<1>6. /\ frames' \in Seq(CallInfo) /\ Len(frames') = n /\ DOMAIN frames' = 1 .. n
      /\ \A k \in 1 .. n : frames'[k] = frames[k]
  <2> HIDE DEF n
  <2> QED
    BY <1>1, <1>2, <1>5, Prefix
<1>7. /\ pcalls' \in Seq(Protected) /\ DOMAIN pcalls' = 1 .. count - 1 /\ \A e \in 1 .. count - 1 : pcalls'[e] = pcalls[e]
  <2>1. pcalls' = SubSeq(pcalls, 1, count - 1) /\ count - 1 <= Len(pcalls)
    BY <1>1, <1>3 DEF Front
  <2> DEFINE m == count - 1
  <2>2. m \in Nat /\ m <= Len(pcalls) /\ pcalls' = SubSeq(pcalls, 1, m)
    BY <1>3, <2>1
  <2> HIDE DEF m
  <2>3. pcalls' \in Seq(Protected) /\ DOMAIN pcalls' = 1 .. m /\ \A e \in 1 .. m : pcalls'[e] = pcalls[e]
    BY <1>2, <2>2, Prefix
  <2> QED
    BY <2>3 DEF m
<1>8. \A k \in 1 .. n : frames[k].top \in Nat /\ frames[k].top + EXTRA_STACK <= stacksize /\ frames[k].top <= stacksize
  <2> TAKE k \in 1 .. n
  <2>1. k \in DOMAIN frames
    BY <1>2, <1>5
  <2> QED
    BY <1>1, <2>1, AllFrames DEF StackInv, FramesFit
<1>9. top' \in Nat /\ top' <= frames[n].top /\ top' + EXTRA_STACK <= stacksize /\ top' <= stacksize /\ n \in 1 .. n
  <2>1. n \in 1 .. n
    BY <1>5
  <2>2. top' \in Nat /\ top' <= frames[n].top
    BY <1>1, <1>4, <1>5
  <2> HIDE DEF n
  <2> QED
    BY <1>2, <1>8, <2>1, <2>2, Room
<1>10. /\ stacksize' \in Nat /\ SizeFits'
       /\ \A k \in 1 .. n : frames[k].top + EXTRA_STACK <= stacksize'
  <2>1. \A k \in DOMAIN frames' : frames'[k].top <= stacksize
    BY <1>6, <1>8
  <2>2. \A fs, t, u : fs \in Seq(CallInfo) /\ t \in Nat /\ t <= stacksize /\ (\A k \in DOMAIN fs : fs[k].top <= stacksize)
                      /\ luaD_shrinkstack(fs, t, u) =>
          /\ stacksize' \in Nat /\ SizeFits'
          /\ \/ stacksize' = stacksize
             \/ \A k \in DOMAIN fs : fs[k].top + EXTRA_STACK <= stacksize'
    BY <1>2, Shrinks
  <2>3. /\ stacksize' \in Nat /\ SizeFits'
        /\ \/ stacksize' = stacksize
           \/ \A k \in DOMAIN frames' : frames'[k].top + EXTRA_STACK <= stacksize'
    BY <1>1, <1>6, <1>9, <2>1, <2>2
  <2> QED
    BY <1>6, <1>8, <2>3
<1>11. top' + EXTRA_STACK <= stacksize' /\ top' <= stacksize'
  <2>1. frames[n].top \in Nat /\ frames[n].top + EXTRA_STACK <= stacksize'
    BY <1>8, <1>9, <1>10
  <2> QED
    BY <1>9, <1>10, <2>1, Room
<1>12. FramesFit' /\ ResultsFit' /\ PcallsFit'
  <2>1. \A k \in 1 .. n : /\ frames'[k].func = frames[k].func /\ frames'[k].base = frames[k].base
                          /\ frames'[k].wanted = frames[k].wanted /\ frames'[k].then = frames[k].then
                          /\ frames'[k].top \in Nat /\ frames'[k].top >= frames[k].top
                          /\ frames'[k].top + EXTRA_STACK <= stacksize'
    BY <1>6, <1>8, <1>10
  <2> DEFINE m == count - 1
  <2>2. \A e \in 1 .. m : /\ pcalls'[e] = pcalls[e] /\ pcalls[e].ci <= n
                          /\ pc' = "run" => pcalls[e].ci < n
    <3> SUFFICES ASSUME NEW e \in 1 .. m PROVE pcalls[e].ci <= n /\ pcalls[e].ci < n
      BY <1>7
    <3>1. e \in DOMAIN pcalls /\ e < count
      BY <1>3
    <3>2. pcalls[e].ci < n /\ pcalls[e].ci \in 1 .. Len(frames)
      BY <1>1, <1>3, <3>1 DEF StackInv, PcallsFit
    <3> QED
      BY <1>5, <3>2
  <2>3. \A e \in DOMAIN pcalls : e > m => pcalls[e].ci >= n
    <3> SUFFICES ASSUME NEW e \in DOMAIN pcalls, e > m PROVE pcalls[e].ci >= n
      OBVIOUS
    <3>1. e = count
      BY <1>3
    <3> QED
      BY <1>5, <3>1
  <2>4. m \in Nat /\ m <= Len(pcalls) /\ DOMAIN pcalls' = 1 .. m
    BY <1>3, <1>7
  <2> HIDE DEF n, m
  <2> QED
    BY <1>1, <1>5, <1>6, <1>10, <2>1, <2>2, <2>3, <2>4, Leave
<1>13. StackTypes'
  BY <1>1, <1>2, <1>4, <1>5, <1>6, <1>7, <1>9, <1>10 DEF StackTypes
<1>14. TopFits'
  <2>1. ci' = frames[n]
    BY <1>6, <1>9 DEF ci
  <2> QED
    BY <1>1, <1>9, <1>11, <2>1 DEF TopFits
<1> QED
  BY <1>10, <1>12, <1>13, <1>14 DEF StackInv

(* Or the thread dies, with the message on top.                               *)
LEMMA ResumeStep ==
  ASSUME StackInv, lua_resume
  PROVE  StackInv'
<1> DEFINE last == Len(frames)
           r == [ci EXCEPT !.top = top + 1]
<1>1. /\ pc = "throw" /\ pcalls = <<>> /\ top' = top + 1 /\ pc' = "dead"
      /\ frames' = [frames EXCEPT ![last].top = top + 1]
      /\ UNCHANGED <<stacksize, free, pcalls, errfunc, func, then, wanted, start>>
  BY DEF lua_resume, calling
<1>2. /\ stacksize \in Nat /\ top \in Nat /\ StackTypes /\ SizeFits /\ frames \in Seq(CallInfo) /\ top + 1 <= stacksize
      /\ last \in Nat /\ last \in 1 .. last /\ DOMAIN frames = 1 .. last /\ ci \in CallInfo /\ frames[last] = ci
  BY <1>1, CurrentFrame DEF StackInv, StackTypes, TopFits, ci
<1>3. r \in CallInfo /\ r.func = ci.func /\ r.base = ci.base /\ r.top = top + 1
  <2>1. top + 1 \in Nat
    BY <1>2
  <2> QED
    BY <1>2, <2>1 DEF CallInfo
<1>4. frames' = [frames EXCEPT ![last] = r]
  BY <1>1, <1>2
<1> HIDE DEF r
<1>5. /\ frames' \in Seq(CallInfo) /\ Len(frames') = last /\ DOMAIN frames' = 1 .. last
      /\ frames'[last] = r /\ \A k \in 1 .. last : k # last => frames'[k] = frames[k]
  <2>1. last = Len(frames)
    OBVIOUS
  <2> HIDE DEF last
  <2>2. frames' \in Seq(CallInfo) /\ DOMAIN frames' = DOMAIN frames
    BY <1>2, <1>3, <1>4, <2>1
  <2>3. Len(frames') = last
    BY <1>2, <2>1, <2>2
  <2> QED
    BY <1>2, <1>4, <2>2, <2>3
<1> HIDE DEF last
<1>6. StackTypes' /\ SizeFits'
  BY <1>1, <1>2, <1>5 DEF StackTypes, SizeFits
<1>7. FramesFit'
  <2> SUFFICES ASSUME NEW k \in 1 .. last PROVE frames'[k].func < frames'[k].base /\ frames'[k].top <= stacksize'
    BY <1>1, <1>5 DEF FramesFit
  <2>1. k \in DOMAIN frames
    BY <1>2
  <2>2. frames[k].func < frames[k].base /\ frames[k].top <= stacksize
    BY <2>1 DEF StackInv, FramesFit
  <2>3. CASE k = last
    BY <1>1, <1>2, <1>3, <1>5, <2>2, <2>3
  <2>4. CASE k # last
    BY <1>1, <1>5, <2>2, <2>4
  <2> QED
    BY <2>3, <2>4
<1>8. ResultsFit' /\ PcallsFit'
  BY <1>1 DEF ResultsFit, PcallsFit
<1>9. TopFits'
  <2>1. top' <= stacksize'
    BY <1>1, <1>2
  <2> QED
    BY <1>1, <2>1 DEF TopFits
<1> QED
  BY <1>6, <1>7, <1>8, <1>9 DEF StackInv

--------------------------------------------------------------------------------
LEMMA StackInvInit ==
  StackInit => StackInv
<1> SUFFICES ASSUME StackInit PROVE StackInv
  OBVIOUS
<1> DEFINE f == [func |-> 0, base |-> 1, top |-> 1 + LUA_MINSTACK, lua |-> FALSE, wanted |-> 0, then |-> "continue"]
<1>1. /\ stacksize = BASIC_STACK_SIZE /\ top = 1 /\ frames = <<f>> /\ pcalls = <<>> /\ errfunc = FALSE
      /\ pc = "run" /\ func = 0 /\ then = "continue" /\ wanted = 0 /\ start = 0
  BY DEF StackInit
<1>2. f \in CallInfo /\ f.func = 0 /\ f.base = 1 /\ f.top = 1 + LUA_MINSTACK /\ ~f.lua
  <2>1. 1 + LUA_MINSTACK \in Nat
    BY Sizes
  <2> QED
    BY <2>1 DEF CallInfo
<1>3. /\ BASIC_STACK_SIZE \in Nat /\ 1 + LUA_MINSTACK + EXTRA_STACK <= BASIC_STACK_SIZE /\ BASIC_STACK_SIZE <= LUAI_MAXSTACK
      /\ 1 + LUA_MINSTACK <= BASIC_STACK_SIZE /\ 1 + EXTRA_STACK <= BASIC_STACK_SIZE /\ 1 <= BASIC_STACK_SIZE
      /\ 1 <= 1 + LUA_MINSTACK /\ 0 < 1
  BY StackAssumption DEF BASIC_STACK_SIZE
<1> HIDE DEF f
<1>4. frames \in Seq(CallInfo) /\ Len(frames) = 1 /\ DOMAIN frames = {1} /\ frames[1] = f
  BY <1>1, <1>2
<1>5. StackTypes /\ SizeFits
  <2>1. pcalls \in Seq(Protected) /\ Len(frames) >= 1
    BY <1>1, <1>4
  <2>2. stacksize \in Nat /\ top \in Nat /\ start \in Nat /\ func \in Nat /\ wanted \in Nat /\ stacksize <= LUAI_MAXSTACK
    BY <1>1, <1>3
  <2> QED
    BY <1>1, <1>4, <2>1, <2>2 DEF StackTypes, SizeFits
<1>6. FramesFit
  BY <1>1, <1>2, <1>3, <1>4 DEF FramesFit, stack_last
<1>7. ResultsFit /\ PcallsFit
  <2>1. 2 .. 1 = {} /\ DOMAIN pcalls = {}
    BY <1>1
  <2> QED
    BY <1>1, <1>4, <2>1 DEF ResultsFit, PcallsFit
<1>8. TopFits
  <2>1. ci = f
    BY <1>4 DEF ci
  <2> QED
    BY <1>1, <1>2, <1>3, <2>1 DEF TopFits
<1> QED
  BY <1>5, <1>6, <1>7, <1>8 DEF StackInv

LEMMA StackInvNext ==
  StackInv /\ [StackNext]_stackvars => StackInv'
<1> SUFFICES ASSUME StackInv, [StackNext]_stackvars PROVE StackInv'
  OBVIOUS
<1>1. CASE UNCHANGED stackvars
  <2>1. UNCHANGED <<stacksize, top, frames, free, pcalls, errfunc, pc, func, then, wanted, start>>
    BY <1>1 DEF stackvars
  <2>2. ci' = ci
    BY <2>1 DEF ci
  <2> QED
    BY <2>1, <2>2 DEF StackInv, StackTypes, SizeFits, FramesFit, ResultsFit, TopFits, PcallsFit
<1>2. CASE StackNext
  BY <1>2, SettopStep, CheckstackStep, VarargStep, OpCallStep, CallkStep, PcallkStep, CallTMStep, PrecallCStep,
     PrecallLuaStep, TryfuncStep, PoscallStep, RunerrorStep, InctopStep, ConcatStep, ErrorStep, ErrormsgStep,
     PcallStep, ResumeStep, TraversethreadStep DEF StackNext
<1> QED
  BY <1>1, <1>2

(* Every value of a thread is inside the memory of its stack, the frames of   *)
(* its functions leave the EXTRA_STACK slots above them alone, and the stack  *)
(* has no size but those that luaD_reallocstack asserts (ldo.c): for all the  *)
(* limits, whatever the functions push, call, return and raise, and whenever  *)
(* the collector makes the stack smaller.                                     *)
THEOREM StackAlwaysFits == StackSpec => []StackFits
<1>1. StackInv => StackFits
  <2> SUFFICES ASSUME StackInv PROVE StackFits
    OBVIOUS
  <2>1. stacksize \in Nat /\ top \in Nat /\ EXTRA_STACK \in Nat
    BY Sizes DEF StackInv, StackTypes
  <2>2. top <= stacksize /\ SizeFits /\ (pc = "run" => top + EXTRA_STACK <= stacksize)
    BY DEF StackInv, TopFits
  <2>3. pc = "run" => top <= stack_last
    BY <2>1, <2>2 DEF stack_last
  <2>4. ASSUME pc # "dead", NEW k \in DOMAIN frames PROVE frames[k].top <= stack_last
    <3>1. frames[k].top \in Nat /\ frames[k].top + EXTRA_STACK <= stacksize
      BY <2>4, AllFrames DEF StackInv, FramesFit
    <3> QED
      BY <2>1, <3>1 DEF stack_last
  <2> QED
    BY <2>2, <2>3, <2>4 DEF StackFits, SizeFits
<1> QED
  BY <1>1, StackInvInit, StackInvNext, PTL DEF StackSpec
================================================================================
