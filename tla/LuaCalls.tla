------------------------------- MODULE LuaCalls -------------------------------
(***************************************************************************)
(* Calls, errors and coroutines: ldo.c and the functions that reach it.    *)
(*                                                                         *)
(* A thread has a list of CallInfo (ci, the last one is its running        *)
(* function).  The C stack is shared by all threads: cstack lists the      *)
(* activations of luaV_execute, luaD_call, luaD_pcall and lua_resume that  *)
(* have not returned.  A longjmp cuts it back to the last setjmp, those of *)
(* luaD_pcall and lua_resume; what the activations it drops had still to   *)
(* do is not done, so a coroutine that yields must not need it.            *)
(*                                                                         *)
(* A CallInfo has the function fn it runs, with st, where it is; for a Lua *)
(* function fresh (CIST_FRESH), for a protected call that a yield may      *)
(* interrupt ypcall (CIST_YPCALL), old_errfunc and oah (CIST_OAH).         *)
(***************************************************************************)
EXTENDS Integers, Sequences, FiniteSets, SequencesExt

CONSTANTS
    Main, Co,     \* the main thread, the coroutines
    Extra,        \* the eighth of LUAI_MAXCCALLS left for error handling
    Bounds        \* the bounds a run may have: see "bound"

Thread == {Main} \cup Co

(* Lua functions; pcall; xpcall; dofile, a C function that calls with a    *)
(* continuation; sort, one that calls without; the others call nothing.    *)
Functions == {"lua", "pcall", "xpcall", "dofile", "sort", "yield", "error", "resume", "wrap"}

ASSUME CallsAssumption ==
    /\ Main \notin Co
    /\ Extra \in Nat
    /\ \A b \in Bounds : /\ "lua" \in b.fns /\ b.fns \subseteq Functions
                        /\ b.calls \in Nat \ {0} /\ b.frames \in [Thread -> Nat]

VARIABLES
    bound,       \* [fns, calls, frames], never changed: see below
    ci,          \* thread -> its frames
    nCcalls, nny, errfunc, allowhook, status,   \* fields of the threads
    unstarted,   \* the coroutines with only their function on the stack
    cstack,      \* the C stack
    raise        \* "errormsg" before luaG_errormsg, "throw" before luaD_throw, else "no"

fields == <<nCcalls, nny, errfunc, allowhook, status>>
vars == <<bound, ci, fields, unstarted, cstack, raise>>

Fns == bound.fns            \* the functions the program uses
MaxCalls == bound.calls     \* LUAI_MAXCCALLS
MaxFrames == bound.frames   \* the number of frames of a thread; 0: it is never started

Protected == {"luaD_pcall", "lua_resume"}
L == Last(cstack).th
Top == Last(ci[L])
Running == cstack # <<>> /\ ci[L] # <<>> /\ raise = "no"

Frame(fn) ==
    [fn |-> fn, st |-> IF fn = "lua" THEN "run" ELSE "start",
     fresh |-> FALSE, ypcall |-> FALSE, old_errfunc |-> FALSE, oah |-> TRUE]

(* The activations.                                                        *)
Entry ==
    [c : {"luaV_execute"}, th : Thread, ci : Nat]
    \cup [c : {"luaD_call"}, th : Thread, ci : Nat, noyield : BOOLEAN,
          caller : {"meta", "hook", "handler", "function"}]
    \cup [c : {"luaD_pcall"}, th : Thread, ci : Nat, gc : BOOLEAN, nCcalls : Nat, nny : Nat,
          errfunc : BOOLEAN, allowhook : BOOLEAN]
    \cup [c : {"lua_resume"}, th : Thread, ci : {0}, nCcalls : Nat, nny : Nat]

(* Where a Lua function is, and a C function: that one is "in" a call, or  *)
(* free to go on.                                                          *)
LuaStates == {"run", "call", "meta", "out"}
Resting == {"start", "back", "caught", "failed"}
CallInfo ==
    {f \in [fn : Functions, st : LuaStates \cup Resting \cup {"in"}, fresh : BOOLEAN,
            ypcall : BOOLEAN, old_errfunc : BOOLEAN, oah : BOOLEAN] :
        /\ f.fn = "lua" <=> f.st \in LuaStates
        /\ f.fresh => f.fn = "lua"
        /\ f.ypcall => f.fn \in {"pcall", "xpcall"} /\ f.st = "in" /\ f.oah}

TypeOK ==
    /\ bound \in Bounds
    /\ ci \in [Thread -> Seq(CallInfo)]
    /\ nCcalls \in [Thread -> Nat] /\ nny \in [Thread -> Nat]
    /\ errfunc \in [Thread -> BOOLEAN] /\ allowhook \in [Thread -> BOOLEAN]
    /\ status \in [Thread -> {"LUA_OK", "LUA_YIELD", "error"}]
    /\ unstarted \in SUBSET Co
    /\ cstack \in Seq(Entry)
    /\ raise \in {"no", "errormsg", "throw"}

Init ==
    /\ bound \in Bounds
    /\ ci = [th \in Thread |-> <<>>]
    /\ nCcalls = [th \in Thread |-> 0]
    /\ nny = [th \in Thread |-> 1]
    /\ errfunc = [th \in Thread |-> FALSE]
    /\ allowhook = [th \in Thread |-> TRUE]
    /\ status = [th \in Thread |-> "LUA_OK"]
    /\ unstarted = Co
    /\ cstack = <<>> /\ raise = "no"

-----------------------------------------------------------------------------
(* The C stack                                                             *)

(* An activation knows the CallInfo it was called from: k frames, or none  *)
(* for lua_resume, that is base_ci.                                        *)
Execute(k) == [c |-> "luaV_execute", th |-> L, ci |-> k]

(* luaD_callnoyield when noyield; the caller says who goes on after it.    *)
DCall(k, noyield, caller) ==
    [c |-> "luaD_call", th |-> L, ci |-> k, noyield |-> noyield, caller |-> caller]

(* luaD_pcall and its luaD_rawrunprotected.                                *)
PCall(gc) ==
    [c |-> "luaD_pcall", th |-> L, gc |-> gc, ci |-> Len(ci[L]),
     nCcalls |-> nCcalls[L], nny |-> nny[L], errfunc |-> errfunc[L], allowhook |-> allowhook[L]]

SetTop(frames, x) == Append(Front(frames), [Last(frames) EXCEPT !.st = x])

(* luaD_precall and, for a Lua function, luaV_execute in the same C call.  *)
Enter(frames, cs, fn) ==
    /\ ci' = [ci EXCEPT ![L] = Append(frames, [Frame(fn) EXCEPT !.fresh = fn = "lua"])]
    /\ cstack' = IF fn = "lua" THEN Append(cs, Execute(Len(frames))) ELSE cs

(* stackerror: the first overflow is an error that the program may handle, *)
(* in the space left for that.                                             *)
StackError(n) == n = MaxCalls \/ n >= MaxCalls + Extra

(* luaD_call on fn, with frames and C stack as the caller left them.       *)
Call(frames, cs, noyield, caller, fn) ==
    LET n == nCcalls[L] + 1 IN
    /\ nCcalls' = [nCcalls EXCEPT ![L] = n]
    /\ nny' = [nny EXCEPT ![L] = IF noyield THEN @ + 1 ELSE @]
    /\ \/ /\ ~StackError(n)
          /\ n < MaxCalls /\ caller # "handler" => Len(frames) < MaxFrames[L]
          /\ Enter(frames, Append(cs, DCall(Len(frames), noyield, caller)), fn)
          /\ raise' = "no"
       \/ /\ StackError(n)
          /\ ci' = [ci EXCEPT ![L] = frames]
          /\ cstack' = Append(cs, DCall(Len(frames), noyield, caller))
          /\ raise' = IF n = MaxCalls THEN "errormsg" ELSE "throw"
    /\ UNCHANGED <<status, unstarted>>

-----------------------------------------------------------------------------
(* A running Lua function                                                  *)

RunsLua == Running /\ Top.fn = "lua" /\ Top.st = "run"

(* OP_CALL: luaD_precall in the same luaV_execute.                         *)
OpCall ==
    /\ RunsLua /\ Len(ci[L]) < MaxFrames[L]
    /\ \E fn \in Fns : ci' = [ci EXCEPT ![L] = Append(SetTop(@, "call"), Frame(fn))]
    /\ UNCHANGED <<fields, unstarted, cstack, raise>>

(* luaT_callTM: an instruction calls a metamethod, and may be interrupted. *)
CallTM ==
    /\ RunsLua
    /\ \E fn \in Fns : Call(SetTop(ci[L], "meta"), cstack, FALSE, "meta", fn)
    /\ UNCHANGED <<errfunc, allowhook>>

(* luaD_hook, with a hook that calls a Lua function (hookf in ldblib.c).   *)
Hook ==
    /\ RunsLua /\ allowhook[L]
    /\ allowhook' = [allowhook EXCEPT ![L] = FALSE]
    /\ Call(SetTop(ci[L], "out"), cstack, TRUE, "hook", "lua")
    /\ UNCHANGED errfunc

(* GCTM, called by an instruction that allocates: gcrunning is 0 inside.   *)
Finalizer ==
    /\ RunsLua /\ \A i \in DOMAIN cstack : cstack[i].c = "luaD_pcall" => ~cstack[i].gc
    /\ allowhook' = [allowhook EXCEPT ![L] = FALSE]
    /\ errfunc' = [errfunc EXCEPT ![L] = FALSE]
    /\ Call(SetTop(ci[L], "out"), Append(cstack, PCall(TRUE)), TRUE, "function", "lua")

(* luaD_throw with no message handler: LUA_ERRMEM.                         *)
MemoryError ==
    /\ Running /\ raise' = "throw"
    /\ Top.st \in {"run", "start", "back", "caught", "failed"}
    /\ UNCHANGED <<ci, fields, unstarted, cstack>>

-----------------------------------------------------------------------------
(* C functions                                                             *)

RunsC(fn) == Running /\ Top.fn = fn /\ Top.st = "start"

(* lua_pcallk: a protected call of its own when yields are not allowed,    *)
(* else one that the luaD_rawrunprotected of lua_resume protects.          *)
PCallK ==
    /\ RunsC("pcall") \/ RunsC("xpcall")
    /\ errfunc' = [errfunc EXCEPT ![L] = Top.fn = "xpcall"]
    /\ \E fn \in Fns :
        \/ /\ nny[L] > 0
           /\ Call(SetTop(ci[L], "in"), Append(cstack, PCall(FALSE)), TRUE, "function", fn)
        \/ /\ nny[L] = 0
           /\ Call(Append(Front(ci[L]),
                          [Top EXCEPT !.st = "in", !.ypcall = TRUE, !.old_errfunc = errfunc[L],
                                      !.oah = allowhook[L]]),
                   cstack, FALSE, "function", fn)
    /\ UNCHANGED allowhook

(* lua_callk with a continuation.                                          *)
CallK ==
    /\ RunsC("dofile")
    /\ \E fn \in Fns : Call(SetTop(ci[L], "in"), cstack, nny[L] > 0, "function", fn)
    /\ UNCHANGED <<errfunc, allowhook>>

(* Mutant: a yield is allowed in it.                                       *)
LuaCallYields ==
    /\ RunsC("sort")
    /\ \E fn \in Fns : Call(SetTop(ci[L], "in"), cstack, FALSE, "function", fn)
    /\ UNCHANGED <<errfunc, allowhook>>

(* lua_call.                                                               *)
LuaCall ==
    /\ RunsC("sort")
    /\ \E fn \in Fns : Call(SetTop(ci[L], "in"), cstack, TRUE, "function", fn)
    /\ UNCHANGED <<errfunc, allowhook>>

(* lua_error; wrap, when the coroutine has failed; yield where it is not   *)
(* allowed.                                                                *)
RaiseError ==
    /\ \/ RunsC("error")
       \/ RunsC("yield") /\ nny[L] > 0
       \/ Running /\ Top.fn = "wrap" /\ Top.st = "failed"
    /\ raise' = "errormsg"
    /\ UNCHANGED <<ci, fields, unstarted, cstack>>

-----------------------------------------------------------------------------
(* Returns                                                                 *)

Returns ==
    /\ Running
    /\ \/ RunsLua
       \/ Top.fn \notin {"lua", "yield", "error"} /\ Top.st \in {"back", "caught"}
       \/ Top.fn = "resume" /\ Top.st = "failed"

(* The frames and the C stack after the return, in the caller.             *)
Frames == Front(ci[L])
Callers == IF Top.fn = "lua" /\ Top.fresh THEN Front(cstack) ELSE cstack

(* OP_RETURN of a function that OP_CALL called, in the same luaV_execute,  *)
(* or OP_CALL on a C function.                                             *)
ReturnToLua ==
    /\ Returns /\ Last(Callers).c = "luaV_execute"
    /\ ci' = [ci EXCEPT ![L] = IF Last(Frames).st = "call" THEN SetTop(Frames, "run") ELSE Frames]
    /\ cstack' = Callers
    /\ UNCHANGED <<fields, unstarted, raise>>

CallEnds(caller) ==
    /\ Returns /\ Last(Callers).c = "luaD_call" /\ Last(Callers).caller = caller
    /\ nny' = [nny EXCEPT ![L] = IF Last(Callers).noyield THEN @ - 1 ELSE @]
    /\ UNCHANGED <<status, unstarted>>
UncountCall == nCcalls' = [nCcalls EXCEPT ![L] = @ - 1]

MetamethodEnds ==
    /\ CallEnds("meta") /\ UncountCall
    /\ ci' = [ci EXCEPT ![L] = SetTop(Frames, "run")]
    /\ cstack' = Front(Callers)
    /\ UNCHANGED <<errfunc, allowhook, raise>>

HookEnds ==
    /\ CallEnds("hook") /\ UncountCall
    /\ ci' = [ci EXCEPT ![L] = SetTop(Frames, "run")]
    /\ cstack' = Front(Callers)
    /\ allowhook' = [allowhook EXCEPT ![L] = TRUE]
    /\ UNCHANGED <<errfunc, raise>>

(* luaG_errormsg, after the message handler.                               *)
HandlerEnds ==
    /\ CallEnds("handler") /\ UncountCall
    /\ ci' = [ci EXCEPT ![L] = Frames]
    /\ cstack' = Front(Callers)
    /\ raise' = "throw"
    /\ UNCHANGED <<errfunc, allowhook>>

(* Mutant: the protected call stays one that recover may find.             *)
CFunctionGoesOnMarked ==
    LET f == Last(Frames) IN
    /\ CallEnds("function") /\ Last(Front(Callers)).c # "luaD_pcall" /\ UncountCall
    /\ ci' = [ci EXCEPT ![L] = SetTop(Frames, "back")]
    /\ errfunc' = [errfunc EXCEPT ![L] = IF f.ypcall THEN f.old_errfunc ELSE @]
    /\ cstack' = Front(Callers)
    /\ UNCHANGED <<allowhook, raise>>

(* Back in a C function from lua_callk or the second half of lua_pcallk.   *)
CFunctionGoesOn ==
    LET f == Last(Frames) IN
    /\ CallEnds("function") /\ Last(Front(Callers)).c # "luaD_pcall" /\ UncountCall
    /\ ci' = [ci EXCEPT ![L] = Append(Front(Frames), [f EXCEPT !.st = "back", !.ypcall = FALSE])]
    /\ errfunc' = [errfunc EXCEPT ![L] = IF f.ypcall THEN f.old_errfunc ELSE @]
    /\ cstack' = Front(Callers)
    /\ UNCHANGED <<allowhook, raise>>

(* The end of luaD_pcall: back in lua_pcallk, in GCTM, in the loop of the  *)
(* interpreter.                                                            *)
PCallEnds ==
    LET p == Last(Front(Callers)) IN
    /\ CallEnds("function") /\ p.c = "luaD_pcall"
    /\ nCcalls' = [nCcalls EXCEPT ![L] = p.nCcalls]
    /\ errfunc' = [errfunc EXCEPT ![L] = p.errfunc]
    /\ ci' = [ci EXCEPT ![L] = IF Frames = <<>> THEN Frames
                               ELSE SetTop(Frames, IF p.gc THEN "run" ELSE "back")]
    /\ allowhook' = [allowhook EXCEPT ![L] = IF p.gc THEN p.allowhook ELSE @]
    /\ cstack' = Front(Front(Callers))
    /\ UNCHANGED raise

ReturnToResume ==
    /\ Returns /\ Last(Callers).c = "lua_resume"
    /\ ci' = [ci EXCEPT ![L] = Frames]
    /\ cstack' = Callers
    /\ UNCHANGED <<fields, unstarted, raise>>

-----------------------------------------------------------------------------
(* Coroutines                                                              *)

Resumes == Running /\ Top.fn \in {"resume", "wrap"} /\ Top.st = "start"

(* auxresume and lua_resume refuse it; lua_resume has set nCcalls when the *)
(* C stack would overflow.                                                 *)
ResumeRefused ==
    /\ Resumes
    /\ \E co \in Thread :
        LET resumable == IF status[co] = "LUA_OK" THEN co \in unstarted ELSE status[co] = "LUA_YIELD"
        IN
        /\ resumable => nCcalls[L] + 1 >= MaxCalls
        /\ nCcalls' = IF resumable THEN [nCcalls EXCEPT ![co] = nCcalls[L] + 1] ELSE nCcalls
    /\ ci' = [ci EXCEPT ![L] = SetTop(@, "failed")]
    /\ UNCHANGED <<nny, errfunc, allowhook, status, unstarted, cstack, raise>>

ResumeRecord(co) ==
    [c |-> "lua_resume", th |-> co, ci |-> 0, nCcalls |-> nCcalls[L] + 1, nny |-> nny[co]]

(* Mutant: a thread that has yielded keeps that status while it runs.      *)
EnterResumeYielded(co) ==
    /\ Resumes /\ nCcalls[L] + 1 < MaxCalls
    /\ nCcalls' = [nCcalls EXCEPT ![co] = nCcalls[L] + 1]
    /\ nny' = [nny EXCEPT ![co] = 0]
    /\ UNCHANGED <<errfunc, allowhook, status, raise>>

(* lua_resume up to its luaD_rawrunprotected.                              *)
EnterResume(co) ==
    /\ Resumes /\ nCcalls[L] + 1 < MaxCalls
    /\ nCcalls' = [nCcalls EXCEPT ![co] = nCcalls[L] + 1]
    /\ nny' = [nny EXCEPT ![co] = 0]
    /\ status' = [status EXCEPT ![co] = "LUA_OK"]
    /\ UNCHANGED <<errfunc, allowhook, raise>>

StartCoroutine ==
    \E co \in {c \in unstarted : MaxFrames[c] > 0}, fn \in Fns :
        LET resumed == Append(cstack, ResumeRecord(co)) IN
        /\ EnterResume(co)
        /\ unstarted' = unstarted \ {co}
        /\ ci' = [ci EXCEPT ![L] = SetTop(@, "in"),
                            ![co] = <<[Frame(fn) EXCEPT !.fresh = fn = "lua"]>>]
        /\ cstack' = IF fn = "lua" THEN Append(resumed, [c |-> "luaV_execute", th |-> co, ci |-> 0]) ELSE resumed

(* resume finishes the call to yield; unroll is to go on.                  *)
ContinueCoroutine ==
    \E co \in Co :
        /\ status[co] = "LUA_YIELD"
        /\ EnterResume(co)
        /\ ci' = [ci EXCEPT ![L] = SetTop(@, "in"), ![co] = Front(@)]
        /\ cstack' = Append(cstack, ResumeRecord(co))
        /\ UNCHANGED unstarted

Unrolls == cstack # <<>> /\ Last(cstack).c = "lua_resume" /\ raise = "no"

(* Mutant: the message handler stays that of the call.                     *)
FinishCCallKeepsHandler ==
    /\ Unrolls /\ ci[L] # <<>> /\ Top.fn # "lua" /\ Top.st = "in"
    /\ ci' = [ci EXCEPT ![L] = Append(Front(@), [Top EXCEPT !.st = "back", !.ypcall = FALSE])]
    /\ UNCHANGED <<nCcalls, nny, errfunc, allowhook, status, unstarted, cstack, raise>>

(* finishCcall: the continuation is called.                                *)
FinishCCall ==
    /\ Unrolls /\ ci[L] # <<>> /\ Top.fn # "lua" /\ Top.st = "in"
    /\ ci' = [ci EXCEPT ![L] = Append(Front(@), [Top EXCEPT !.st = "back", !.ypcall = FALSE])]
    /\ errfunc' = [errfunc EXCEPT ![L] = IF Top.ypcall THEN Top.old_errfunc ELSE @]
    /\ UNCHANGED <<nCcalls, nny, allowhook, status, unstarted, cstack, raise>>

(* Mutant: the instruction is not finished.                                *)
FinishOpSkipped ==
    /\ Unrolls /\ ci[L] # <<>> /\ Top.fn = "lua"
    /\ ci' = [ci EXCEPT ![L] = Append(Front(@), [Top EXCEPT !.fresh = TRUE])]
    /\ cstack' = Append(cstack, Execute(Len(ci[L]) - 1))
    /\ UNCHANGED <<fields, unstarted, raise>>

(* luaV_finishOp and luaV_execute.                                         *)
FinishOp ==
    /\ Unrolls /\ ci[L] # <<>> /\ Top.fn = "lua"
    /\ ci' = [ci EXCEPT ![L] = Append(Front(@), [Top EXCEPT !.st = "run", !.fresh = TRUE])]
    /\ cstack' = Append(cstack, Execute(Len(ci[L]) - 1))
    /\ UNCHANGED <<fields, unstarted, raise>>

(* The end of lua_resume, back in the function that called it.             *)
LeaveResume(st, new) ==
    LET rest == Front(cstack) from == Last(rest).th IN
    /\ cstack' = rest
    /\ ci' = [ci EXCEPT ![from] = SetTop(@, st)]
    /\ nCcalls' = [nCcalls EXCEPT ![L] = Last(cstack).nCcalls - 1]
    /\ nny' = [nny EXCEPT ![L] = Last(cstack).nny]
    /\ status' = [status EXCEPT ![L] = new]
    /\ raise' = "no"
    /\ UNCHANGED <<errfunc, allowhook, unstarted>>

CoroutineEnds ==
    /\ Unrolls /\ ci[L] = <<>>
    /\ LeaveResume("back", "LUA_OK")

-----------------------------------------------------------------------------
(* Errors and yields                                                       *)

(* luaG_errormsg: the message handler runs on top of everything.           *)
ErrorMsg ==
    /\ raise = "errormsg"
    /\ \/ /\ errfunc[L] /\ Call(ci[L], cstack, TRUE, "handler", "lua")
          /\ UNCHANGED <<errfunc, allowhook>>
       \/ /\ ~errfunc[L] /\ raise' = "throw"
          /\ UNCHANGED <<ci, fields, unstarted, cstack>>

Setjmp == CHOOSE n \in DOMAIN cstack :
              cstack[n].c \in Protected /\ \A i \in n + 1 .. Len(cstack) : cstack[i].c \notin Protected
Jmp == cstack[Setjmp]
PCalls(frames) == {i \in DOMAIN frames : frames[i].ypcall}

(* Mutant: the calls that forbid a yield are not uncounted.                *)
ThrowToPCallForbids ==
    /\ raise = "throw" /\ Jmp.c = "luaD_pcall"
    /\ LET frames == SubSeq(ci[L], 1, Jmp.ci) IN
       ci' = [ci EXCEPT ![L] = IF frames = <<>> \/ Jmp.gc THEN frames ELSE SetTop(frames, "caught")]
    /\ nCcalls' = [nCcalls EXCEPT ![L] = Jmp.nCcalls]
    /\ errfunc' = [errfunc EXCEPT ![L] = Jmp.errfunc]
    /\ allowhook' = [allowhook EXCEPT ![L] = Jmp.allowhook]
    /\ cstack' = SubSeq(cstack, 1, Setjmp - 1)
    /\ raise' = IF Jmp.gc THEN "throw" ELSE "no"
    /\ UNCHANGED <<nny, status, unstarted>>

(* luaD_throw to luaD_pcall.  GCTM throws again, as LUA_ERRGCMM.           *)
ThrowToPCall ==
    /\ raise = "throw" /\ Jmp.c = "luaD_pcall"
    /\ LET frames == SubSeq(ci[L], 1, Jmp.ci) IN
       ci' = [ci EXCEPT ![L] = IF frames = <<>> \/ Jmp.gc THEN frames ELSE SetTop(frames, "caught")]
    /\ nCcalls' = [nCcalls EXCEPT ![L] = Jmp.nCcalls]
    /\ nny' = [nny EXCEPT ![L] = Jmp.nny]
    /\ errfunc' = [errfunc EXCEPT ![L] = Jmp.errfunc]
    /\ allowhook' = [allowhook EXCEPT ![L] = Jmp.allowhook]
    /\ cstack' = SubSeq(cstack, 1, Setjmp - 1)
    /\ raise' = IF Jmp.gc THEN "throw" ELSE "no"
    /\ UNCHANGED <<status, unstarted>>

(* Mutant: hooks stay as the error found them.                             *)
RecoverKeepsHooks ==
    /\ raise = "throw" /\ Jmp.c = "lua_resume" /\ PCalls(ci[L]) # {}
    /\ LET n == CHOOSE i \in PCalls(ci[L]) : \A j \in PCalls(ci[L]) : j <= i
           f == ci[L][n]
       IN
       /\ ci' = [ci EXCEPT ![L] = Append(SubSeq(@, 1, n - 1),
                                         [f EXCEPT !.st = "caught", !.ypcall = FALSE])]
       /\ errfunc' = [errfunc EXCEPT ![L] = f.old_errfunc]
    /\ nCcalls' = [nCcalls EXCEPT ![L] = Jmp.nCcalls]
    /\ nny' = [nny EXCEPT ![L] = 0]
    /\ cstack' = SubSeq(cstack, 1, Setjmp)
    /\ raise' = "no"
    /\ UNCHANGED <<allowhook, status, unstarted>>

(* luaD_throw to lua_resume: recover finds a protected call, and unroll    *)
(* finishes it with the error.                                             *)
Recover ==
    /\ raise = "throw" /\ Jmp.c = "lua_resume" /\ PCalls(ci[L]) # {}
    /\ LET n == CHOOSE i \in PCalls(ci[L]) : \A j \in PCalls(ci[L]) : j <= i
           f == ci[L][n]
       IN
       /\ ci' = [ci EXCEPT ![L] = Append(SubSeq(@, 1, n - 1),
                                         [f EXCEPT !.st = "caught", !.ypcall = FALSE])]
       /\ errfunc' = [errfunc EXCEPT ![L] = f.old_errfunc]
       /\ allowhook' = [allowhook EXCEPT ![L] = f.oah]
    /\ nCcalls' = [nCcalls EXCEPT ![L] = Jmp.nCcalls]
    /\ nny' = [nny EXCEPT ![L] = 0]
    /\ cstack' = SubSeq(cstack, 1, Setjmp)
    /\ raise' = "no"
    /\ UNCHANGED <<status, unstarted>>

(* The thread is dead.                                                     *)
CoroutineFails ==
    /\ raise = "throw" /\ Jmp.c = "lua_resume" /\ PCalls(ci[L]) = {}
    /\ LET rest == SubSeq(cstack, 1, Setjmp - 1) from == Last(rest).th IN
       /\ cstack' = rest
       /\ ci' = [ci EXCEPT ![from] = SetTop(@, "failed")]
    /\ nCcalls' = [nCcalls EXCEPT ![L] = Jmp.nCcalls - 1]
    /\ nny' = [nny EXCEPT ![L] = Jmp.nny]
    /\ status' = [status EXCEPT ![L] = "error"]
    /\ raise' = "no"
    /\ UNCHANGED <<errfunc, allowhook, unstarted>>

(* lua_yieldk: luaD_throw(L, LUA_YIELD) reaches the same setjmp.           *)
Yield ==
    /\ RunsC("yield") /\ nny[L] = 0 /\ Jmp.c = "lua_resume"
    /\ LET rest == SubSeq(cstack, 1, Setjmp - 1) from == Last(rest).th IN
       /\ cstack' = rest
       /\ ci' = [ci EXCEPT ![from] = SetTop(@, "back")]
    /\ nCcalls' = [nCcalls EXCEPT ![L] = Jmp.nCcalls - 1]
    /\ nny' = [nny EXCEPT ![L] = Jmp.nny]
    /\ status' = [status EXCEPT ![L] = "LUA_YIELD"]
    /\ UNCHANGED <<errfunc, allowhook, unstarted, raise>>

(* lua.c runs a chunk in a protected call with a message handler.          *)
DoCall ==
    /\ cstack = <<>>
    /\ ci' = [ci EXCEPT ![Main] = <<[Frame("lua") EXCEPT !.fresh = TRUE]>>]
    /\ nCcalls' = [nCcalls EXCEPT ![Main] = 1]
    /\ nny' = [nny EXCEPT ![Main] = 2]
    /\ errfunc' = [errfunc EXCEPT ![Main] = TRUE]
    /\ cstack' =
         <<[c |-> "luaD_pcall", th |-> Main, gc |-> FALSE, ci |-> 0, nCcalls |-> 0, nny |-> 1,
            errfunc |-> FALSE, allowhook |-> TRUE],
           [c |-> "luaD_call", th |-> Main, ci |-> 0, noyield |-> TRUE, caller |-> "function"],
           [c |-> "luaV_execute", th |-> Main, ci |-> 0]>>
    /\ UNCHANGED <<allowhook, status, unstarted, raise>>

Same == UNCHANGED bound
Next ==
    \/ (DoCall /\ Same) \/ (OpCall /\ Same) \/ (CallTM /\ Same) \/ (Hook /\ Same)
    \/ (Finalizer /\ Same) \/ (MemoryError /\ Same) \/ (PCallK /\ Same) \/ (CallK /\ Same)
    \/ (LuaCall /\ Same) \/ (RaiseError /\ Same) \/ (ReturnToLua /\ Same) \/ (MetamethodEnds /\ Same)
    \/ (HookEnds /\ Same) \/ (HandlerEnds /\ Same) \/ (CFunctionGoesOn /\ Same) \/ (PCallEnds /\ Same)
    \/ (ReturnToResume /\ Same) \/ (ResumeRefused /\ Same) \/ (StartCoroutine /\ Same) \/ (ContinueCoroutine /\ Same)
    \/ (FinishCCall /\ Same) \/ (FinishOp /\ Same) \/ (CoroutineEnds /\ Same) \/ (ErrorMsg /\ Same)
    \/ (ThrowToPCall /\ Same) \/ (Recover /\ Same) \/ (CoroutineFails /\ Same) \/ (Yield /\ Same)

Spec == Init /\ [][Next]_vars

-----------------------------------------------------------------------------
(* Properties                                                              *)

Active == {cstack[i].th : i \in DOMAIN cstack}
Upto(th) == CHOOSE n \in DOMAIN cstack : cstack[n].th = th /\ \A i \in DOMAIN cstack : i > n => cstack[i].th # th
CountCalls(n) == Cardinality({i \in 1..n : cstack[i].c \in {"luaD_call", "lua_resume"}})
Records(th, c) == {r \in {cstack[i] : i \in DOMAIN cstack} : r.th = th /\ r.c = c}

(* nCcalls of a thread is the number of C calls below it, those of the     *)
(* threads that wait for it included, and nny counts those that forbid a   *)
(* yield: every way out of a call, by a return, an error at any depth,     *)
(* inside a message handler or a finalizer, or a yield, restores them.     *)
CallsCounted ==
    \A th \in Thread :
        LET forbid == {i \in DOMAIN cstack :
                          cstack[i].th = th /\ cstack[i].c = "luaD_call" /\ cstack[i].noyield}
        IN
        /\ th \in Active => nCcalls[th] = CountCalls(Upto(th))
        /\ nny[th] = (IF th = Main \/ th \notin Active THEN 1 ELSE 0) + Cardinality(forbid)

InProgress(frames) == {i \in DOMAIN frames : frames[i].fn \in {"pcall", "xpcall"} /\ frames[i].st = "in"}
Highest(S) == CHOOSE n \in S : \A i \in S : i <= n

(* An error ends the innermost protected call in progress of its thread,   *)
(* interrupted by yields or not, and only that one; without one it kills   *)
(* the coroutine and reaches the function that resumed it.                 *)
ErrorCaught ==
    [][raise = "throw" =>
        LET P == InProgress(ci[L]) IN
        IF raise' = "throw" THEN \A n \in P : n <= Len(ci'[L])
        ELSE IF P # {} THEN /\ Len(ci'[L]) = Highest(P) /\ Last(ci'[L]).st = "caught"
                            /\ ~Last(ci'[L]).ypcall
        ELSE IF L = Main THEN ci'[Main] = <<>>
        ELSE status'[L] = "error" /\ L' # L /\ Last(ci'[L']).st = "failed"]_vars

(* The message handler is that of the innermost protected call in          *)
(* progress; a finalizer runs with none, the main chunk with lua.c's.      *)
HandlerOfCall ==
    \A th \in {t \in Thread : status[t] # "error" /\ ci[t] # <<>>} :
        LET collecting == {r \in Records(th, "luaD_pcall") : r.gc}
            P == {n \in InProgress(ci[th]) : \A r \in collecting : n > r.ci}
        IN errfunc[th] = IF P # {} THEN ci[th][Highest(P)].fn = "xpcall"
                         ELSE th = Main /\ collecting = {}

(* Hooks are off exactly while a hook or a finalizer of the thread runs.   *)
HooksAllowed ==
    \A th \in {t \in Thread : status[t] # "error"} :
        allowhook[th] <=> /\ \A r \in Records(th, "luaD_call") : r.caller # "hook"
                          /\ \A r \in Records(th, "luaD_pcall") : ~r.gc

(* A yield loses nothing: every function under it can be continued from    *)
(* its frame, and every protected call can be found by recover.            *)
YieldKeepsAll ==
    \A co \in {c \in Co : status[c] = "LUA_YIELD"} :
        LET n == Len(ci[co]) IN
        /\ ci[co][n].fn = "yield"
        /\ \A i \in 1 .. n - 1 :
            \/ ci[co][i].fn = "lua" /\ ci[co][i].st \in {"call", "meta"}
            \/ ci[co][i].fn = "dofile"
            \/ ci[co][i].fn \in {"pcall", "xpcall"} /\ ci[co][i].ypcall

(* luaV_execute only goes on with an instruction that is complete: a       *)
(* function whose metamethod was interrupted by a yield is left to         *)
(* luaV_finishOp (the assertions of OP_RETURN).                            *)
InstructionFinished ==
    Running /\ Last(cstack).c = "luaV_execute" /\ Top.fn = "lua" => Top.st = "run"

(* As luaB_costatus tells it, coroutines follow the protocol.              *)
RunningThread == IF cstack = <<>> THEN Main ELSE L
ResumesAt == {i \in DOMAIN cstack : cstack[i].c = "lua_resume"}
Protocol == INSTANCE LuaCoroutines WITH
    running <- RunningThread,
    resumer <- {<<cstack[i].th, cstack[i - 1].th>> : i \in ResumesAt},
    suspended <- {co \in Co : \/ status[co] = "LUA_YIELD"
                              \/ status[co] = "LUA_OK" /\ co \in unstarted},
    dead <- {co \in Co \ Active : \/ status[co] = "error"
                                  \/ status[co] = "LUA_OK" /\ co \notin unstarted}
FollowsProtocol == Protocol!Spec

==============================================================================
