------------------------------- MODULE LuaStack -------------------------------
(***************************************************************************)
(* The memory of a thread's stack: luaD_growstack, luaD_shrinkstack and    *)
(* what relies on them (ldo.c, lstate.c, ltm.c, ldebug.c, lapi.c).         *)
(*                                                                         *)
(* A pointer into the stack is its distance from the beginning, so that a  *)
(* stack that moves changes none.  Functions push and call as they like,   *)
(* within what the interpreter and the API allow them; hooks are not set.  *)
(***************************************************************************)
EXTENDS Integers, Sequences, SequencesExt

CONSTANTS
    LUAI_MAXSTACK, EXTRA_STACK, LUA_MINSTACK,
    ErrorSpace,      \* more slots than LUAI_MAXSTACK while an overflow is handled
    FrameSizes,      \* maxstacksize of the functions
    Counts,          \* bound: arguments, results and slots asked for
    MaxFrames        \* bound: functions active at a time

BASIC_STACK_SIZE == 2 * LUA_MINSTACK
ERRORSTACKSIZE == LUAI_MAXSTACK + ErrorSpace

ASSUME StackAssumption ==
    /\ LUAI_MAXSTACK \in Nat /\ EXTRA_STACK \in Nat /\ LUA_MINSTACK \in Nat /\ ErrorSpace \in Nat
    /\ EXTRA_STACK >= 5 /\ LUA_MINSTACK > EXTRA_STACK
    /\ LUAI_MAXSTACK >= BASIC_STACK_SIZE /\ ErrorSpace > EXTRA_STACK
    /\ FrameSizes \subseteq Nat /\ Counts \subseteq Nat /\ MaxFrames \in Nat

VARIABLES
    stacksize, top,
    frames,       \* the CallInfos in use: [func, base, top, lua, wanted, then]
    free,         \* the number of the other CallInfos, which are kept for later calls
    pcalls,       \* the calls of luaD_pcall: [ci, old_top, old_errfunc]
    errfunc,      \* is there a message handler?
    pc,           \* what the thread is doing
    func,         \* "call": the slot of the function, and what happens afterwards
    then, wanted,
    start         \* "message": where it begins
stackvars == <<stacksize, top, frames, free, pcalls, errfunc, pc, func, then, wanted, start>>
calling == <<func, then, wanted>>
Called == func' = 0 /\ then' = "continue" /\ wanted' = 0

stack_last == stacksize - EXTRA_STACK
ci == frames[Len(frames)]
MULTRET == -1

StackInit ==
    /\ stacksize = BASIC_STACK_SIZE /\ top = 1
    /\ frames = <<[func |-> 0, base |-> 1, top |-> 1 + LUA_MINSTACK, lua |-> FALSE,
                   wanted |-> 0, then |-> "continue"]>>
    /\ free = 0 /\ pcalls = <<>> /\ errfunc = FALSE
    /\ pc = "run" /\ func = 0 /\ then = "continue" /\ wanted = 0 /\ start = 0

-----------------------------------------------------------------------------
(* Growing                                                                 *)

(* Mutant: the extra slots are not counted. *)
newsizeTight(n) ==
    LET needed == top + n
        double == IF 2 * stacksize > LUAI_MAXSTACK THEN LUAI_MAXSTACK ELSE 2 * stacksize
    IN IF double < needed THEN needed ELSE double
newsize(n) ==
    LET needed == top + n + EXTRA_STACK
        double == IF 2 * stacksize > LUAI_MAXSTACK THEN LUAI_MAXSTACK ELSE 2 * stacksize
    IN IF double < needed THEN needed ELSE double

(* luaD_checkstack(L, n).  There is space, or the stack grows: stacksize   *)
(* is what it is afterwards.                                               *)
Enough(n) == stack_last - top > n
luaD_checkstack(n) ==
    \/ Enough(n) /\ stacksize' = stacksize
    \/ /\ ~Enough(n) /\ stacksize <= LUAI_MAXSTACK /\ newsize(n) <= LUAI_MAXSTACK
       /\ stacksize' = newsize(n)

(* Or it cannot grow: an overflow while an overflow is handled is thrown,  *)
(* the first one is an error with a message, for which there is more space.*)
Overflow(n) ==
    /\ ~Enough(n)
    /\ \/ stacksize > LUAI_MAXSTACK /\ pc' = "throw" /\ start' = 0 /\ UNCHANGED stacksize
       \/ /\ stacksize <= LUAI_MAXSTACK /\ newsize(n) > LUAI_MAXSTACK
          /\ stacksize' = ERRORSTACKSIZE
          /\ pc' = "message" /\ start' = top
    /\ Called
    /\ UNCHANGED <<top, frames, free, pcalls, errfunc>>

-----------------------------------------------------------------------------
(* Running                                                                 *)

Running == pc = "run"
UNCHANGED_calls == UNCHANGED <<frames, free, pcalls, errfunc, calling, start>>

(* A C function pushes and pops; api_check sees that it stays in its frame.*)
lua_settop ==
    /\ Running /\ ~ci.lua
    /\ \E n \in Counts : ci.base + n <= ci.top /\ top' = ci.base + n
    /\ UNCHANGED <<stacksize, pc>> /\ UNCHANGED_calls

(* The overflow that lua_checkstack might run into it excludes itself; the *)
(* other error it catches.                                                 *)
lua_checkstack ==
    /\ Running /\ ~ci.lua
    /\ \E n \in Counts :
        /\ Enough(n) \/ top + EXTRA_STACK <= LUAI_MAXSTACK - n
        /\ luaD_checkstack(n)
        /\ frames' = IF ci.top < top + n THEN [frames EXCEPT ![Len(frames)].top = top + n] ELSE frames
    /\ UNCHANGED <<top, free, pcalls, errfunc, pc, calling, start>>

(* OP_VARARG puts all the n extra arguments at ra.                         *)
OP_VARARG ==
    /\ Running /\ ci.lua /\ top = ci.top
    /\ \E n \in Counts, k \in Counts :
        /\ n < ci.base - ci.func /\ ci.base + k <= ci.top
        /\ \/ luaD_checkstack(n) /\ top' = ci.base + k + n /\ UNCHANGED pc /\ UNCHANGED_calls
           \/ Overflow(n)

Call(f, t, how, w) ==
    /\ pc' = "call" /\ func' = f /\ top' = t /\ then' = how /\ wanted' = w
    /\ UNCHANGED <<stacksize, frames, free, start>>

(* The number of results that the caller has space for.                    *)
Wanted(f) == {MULTRET} \cup {n \in Counts : f + n <= ci.top}

(* OP_CALL and OP_TAILCALL: the arguments end where the call says, or at   *)
(* the top that an open list of values has left.                           *)
OP_CALL ==
    /\ Running /\ ci.lua
    /\ \E k, n \in Counts :
        LET f == ci.base + k IN
        /\ f + n + 1 <= ci.top \/ f + n + 1 = top
        /\ \E how \in {"continue", "tail"}, w \in Wanted(f) :
               (how = "tail" => w = MULTRET) /\ Call(f, f + n + 1, how, w)
    /\ UNCHANGED <<pcalls, errfunc>>

lua_callk ==
    /\ Running /\ ~ci.lua
    /\ \E k \in Counts :
        LET f == ci.base + k IN
        f < top /\ \E w \in Wanted(f) : Call(f, top, "continue", w)
    /\ UNCHANGED <<pcalls, errfunc>>

lua_pcallk ==
    /\ Running /\ ~ci.lua
    /\ \E k \in Counts, handler \in BOOLEAN :
        LET f == ci.base + k IN
        /\ f < top /\ \E w \in Wanted(f) : Call(f, top, "pcall", w)
        /\ pcalls' = Append(pcalls, [ci |-> Len(frames), old_top |-> f, old_errfunc |-> errfunc])
        /\ errfunc' = handler

(* A metamethod and its arguments go above everything else, unchecked.     *)
luaT_callTM ==
    /\ Running /\ (ci.lua => top = ci.top)
    /\ \E n \in {3, 4} : Call(top, top + n, "tm", 0)
    /\ UNCHANGED <<pcalls, errfunc>>

-----------------------------------------------------------------------------
(* luaD_precall                                                            *)

next_ci(f) ==
    /\ Len(frames) < MaxFrames
    /\ frames' = Append(frames, f)
    /\ free' = IF free > 0 THEN free - 1 ELSE 0

precallC ==
    /\ pc = "call"
    /\ \/ /\ luaD_checkstack(LUA_MINSTACK)
          /\ next_ci([func |-> func, base |-> func + 1, top |-> top + LUA_MINSTACK, lua |-> FALSE,
                      wanted |-> wanted, then |-> IF then = "tail" THEN "continue" ELSE then])
          /\ pc' = "run" /\ Called /\ UNCHANGED <<top, pcalls, errfunc, start>>
       \/ Overflow(LUA_MINSTACK)

(* The frame of a function that a tail call calls takes the place of the   *)
(* caller's.                                                               *)
Frame(base, fsize) ==
    [func |-> func, base |-> base, top |-> base + fsize, lua |-> TRUE, wanted |-> wanted, then |-> then]
Lowered(f) ==
    LET by == func - ci.func IN
    [func |-> ci.func, base |-> f.base - by, top |-> f.top - by, lua |-> f.lua, wanted |-> ci.wanted,
     then |-> ci.then]

precallLua ==
    /\ pc = "call"
    /\ \E fsize \in FrameSizes, vararg \in BOOLEAN :
        LET f == Frame(IF vararg THEN top ELSE func + 1, fsize) IN
        \/ /\ luaD_checkstack(fsize)
           /\ IF then = "tail"
              THEN /\ frames' = [frames EXCEPT ![Len(frames)] = Lowered(f)]
                   /\ top' = Lowered(f).top
                   /\ free' = IF free > 0 THEN free ELSE 1
              ELSE next_ci(f) /\ top' = f.top
           /\ pc' = "run" /\ Called /\ UNCHANGED <<pcalls, errfunc, start>>
        \/ Overflow(fsize)

(* The value called is no function: what it has in its metatable goes      *)
(* below it, and is called.                                                *)
tryfuncTM ==
    /\ pc = "call" /\ top - func < MaxFrames
    /\ \/ luaD_checkstack(1) /\ top' = top + 1 /\ UNCHANGED pc /\ UNCHANGED_calls
       \/ Overflow(1)

(* The result of what the caller does when the function has returned n     *)
(* values: a Lua function has its whole frame again unless it wants all.   *)
Top(n) ==
    LET caller == frames[Len(frames) - 1] IN
    CASE ci.wanted = MULTRET -> ci.func + n
      [] ci.wanted # MULTRET /\ caller.lua -> caller.top
      [] OTHER -> ci.func + ci.wanted

(* luaD_poscall: the values are moved to where the function was.           *)
luaD_poscall ==
    /\ Running /\ Len(frames) > 1
    /\ \E n \in Counts :
        LET caller == frames[Len(frames) - 1] IN
        /\ n <= top - ci.base
        /\ CASE ci.then = "throw" -> top' = ci.func + 1 /\ pc' = "throw"
             [] ci.then = "tm" -> top' = ci.func /\ pc' = pc
             [] OTHER -> top' = Top(n) /\ pc' = pc
        /\ frames' = IF ci.then \in {"continue", "pcall"} /\ ci.wanted = MULTRET /\ ~caller.lua /\ caller.top < top'
                     THEN [Front(frames) EXCEPT ![Len(frames) - 1].top = top'] ELSE Front(frames)
    /\ free' = free + 1
    /\ IF ci.then = "pcall"
       THEN pcalls' = Front(pcalls) /\ errfunc' = Last(pcalls).old_errfunc
       ELSE UNCHANGED <<pcalls, errfunc>>
    /\ UNCHANGED <<stacksize, calling, start>>

-----------------------------------------------------------------------------
(* Errors                                                                  *)

luaG_runerror ==
    /\ Running
    /\ pc' = "message" /\ start' = top
    /\ UNCHANGED <<stacksize, top, frames, free, pcalls, errfunc, calling>>

(* luaO_pushvfstring: the pieces of the message are pushed one by one ...  *)
luaD_inctop ==
    /\ pc = "message" /\ top - start < 3
    /\ \/ luaD_checkstack(1) /\ top' = top + 1 /\ UNCHANGED pc /\ UNCHANGED_calls
       \/ Overflow(1)

(* ... and concatenated; luaG_addinfo makes another message of it.         *)
luaV_concat ==
    /\ pc = "message" /\ top > start
    /\ \E more \in BOOLEAN :
        /\ more => ci.lua
        /\ top' = start + 1
        /\ IF more THEN start' = start + 1 /\ pc' = pc ELSE pc' = "error" /\ start' = 0
    /\ UNCHANGED <<stacksize, frames, free, pcalls, errfunc, calling>>

lua_error ==
    /\ Running /\ ~ci.lua /\ top > ci.base
    /\ pc' = "error"
    /\ UNCHANGED <<stacksize, top>> /\ UNCHANGED_calls

(* luaG_errormsg: the handler goes below the message, unchecked.           *)
luaG_errormsg ==
    /\ pc = "error"
    /\ IF errfunc THEN Call(top - 1, top + 1, "throw", 1)
       ELSE pc' = "throw" /\ UNCHANGED <<stacksize, top, frames, free, calling, start>>
    /\ UNCHANGED <<pcalls, errfunc>>

(* stackinuse: up to the top of any frame.                                 *)
stackinuse(fs, t) ==
    LET tops == {fs[k].top : k \in DOMAIN fs} \cup {t} IN
    1 + CHOOSE lim \in tops : \A x \in tops : x <= lim

(* luaD_shrinkstack of a thread with the frames fs and the top t.          *)
(* Mutant: the frames are not looked at. *)
luaD_shrinkstackTop(fs, t, unused) ==
    LET inuse == t + 1
        good == inuse + (inuse \div 8) + 2 * EXTRA_STACK
        goodsize == IF good > LUAI_MAXSTACK THEN LUAI_MAXSTACK ELSE good
    IN /\ free' = IF stacksize > LUAI_MAXSTACK THEN 0 ELSE unused - (unused \div 2)
       /\ stacksize' = IF inuse <= LUAI_MAXSTACK - EXTRA_STACK /\ goodsize < stacksize
                       THEN goodsize ELSE stacksize
luaD_shrinkstack(fs, t, unused) ==
    LET inuse == stackinuse(fs, t)
        good == inuse + (inuse \div 8) + 2 * EXTRA_STACK
        goodsize == IF good > LUAI_MAXSTACK THEN LUAI_MAXSTACK ELSE good
    IN /\ free' = IF stacksize > LUAI_MAXSTACK THEN 0 ELSE unused - (unused \div 2)
       /\ stacksize' = IF inuse <= LUAI_MAXSTACK - EXTRA_STACK /\ goodsize < stacksize
                       THEN goodsize ELSE stacksize

(* luaD_throw comes to luaD_pcall.                                         *)
luaD_pcall ==
    /\ pc = "throw" /\ pcalls # <<>>
    /\ LET call == Last(pcalls) IN
       /\ frames' = SubSeq(frames, 1, call.ci)
       /\ top' = call.old_top + 1
       /\ luaD_shrinkstack(frames', top', free + Len(frames) - call.ci)
       /\ errfunc' = call.old_errfunc
    /\ pcalls' = Front(pcalls) /\ pc' = "run"
    /\ UNCHANGED <<calling, start>>

(* Or to lua_resume: the thread dies with the message on top.              *)
lua_resume ==
    /\ pc = "throw" /\ pcalls = <<>>
    /\ top' = top + 1 /\ frames' = [frames EXCEPT ![Len(frames)].top = top + 1]
    /\ pc' = "dead"
    /\ UNCHANGED <<stacksize, free, pcalls, errfunc, calling, start>>

(* The collector shrinks the stacks that it traverses, at any time.        *)
traversethread ==
    /\ luaD_shrinkstack(frames, top, free)
    /\ UNCHANGED <<top, frames, pcalls, errfunc, pc, calling, start>>

StackNext ==
    \/ lua_settop \/ lua_checkstack \/ OP_VARARG \/ OP_CALL \/ lua_callk \/ lua_pcallk \/ luaT_callTM
    \/ precallC \/ precallLua \/ tryfuncTM \/ luaD_poscall
    \/ luaG_runerror \/ luaD_inctop \/ luaV_concat \/ lua_error \/ luaG_errormsg
    \/ luaD_pcall \/ lua_resume \/ traversethread
StackSpec == StackInit /\ [][StackNext]_stackvars

-----------------------------------------------------------------------------
(* Every value is inside the memory of the stack, also those that are      *)
(* pushed without a check; the frames leave the extra slots alone, and the *)
(* stack has one of the sizes that luaD_reallocstack asserts.              *)
StackFits ==
    /\ top <= stacksize
    /\ pc = "run" => top <= stack_last
    /\ pc # "dead" => \A k \in DOMAIN frames : frames[k].top <= stack_last
    /\ stacksize <= LUAI_MAXSTACK \/ stacksize = ERRORSTACKSIZE
===============================================================================
