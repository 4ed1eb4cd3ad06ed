----------------------------- MODULE VmControl -----------------------------
(***************************************************************************)
(* The control skeleton of the register VM (src/vm/VM.cpp): the frame      *)
(* stack, the exception-handler stack, the defer stack, and the host (C++) *)
(* stack of nested interpreter loops and defer-running loops that drive    *)
(* them.  Registers and values are abstracted away (module Upvalues has    *)
(* them); every push, pop, guard and early exit of the control is kept.    *)
(*                                                                         *)
(* The program being interpreted is any well-formed one: a frame carries   *)
(* the stack of lexical scopes its instruction pointer is in, and the      *)
(* actions emit exactly the instruction sequences that IRBuilder emits for *)
(* entering and leaving those scopes.                                      *)
(***************************************************************************)
EXTENDS Naturals, Sequences

CONSTANTS
    MaxFrames,     \* MAX_FRAMES, the length of the frames array
    MaxActs,       \* bound: function activations in one behaviour
    MaxDefers,     \* bound: entries of deferStack
    MaxScopes,     \* bound: nested scopes of one function
    Features       \* which of the program behaviours below may happen

\* "deferThrow":   the body of a defer may throw
\* "returnInTry":  `return` may appear inside a try body
\* "interrupt":    a builtin may raise EngineInterruptError (Ctrl+C)
\* "swallow":      host code may call back and ignore the error (finalizers)
\* "skippedDefer": a defer may be an operand a short-circuit operator skips
AllFeatures == {"deferThrow", "returnInTry", "interrupt", "swallow", "skippedDefer"}

ASSUME BoundsAssumption ==
    /\ MaxFrames \in Nat \ {0}
    /\ MaxActs \in Nat
    /\ MaxDefers \in Nat
    /\ MaxScopes \in Nat
    /\ Features \subseteq AllFeatures

VARIABLES
    frames,      \* frames[0 .. frameCount-1]
    handlers,    \* exceptionHandlers
    deferStack,  \* deferStack; each entry remembers who registered it
    host,        \* the C++ activations in progress, innermost last
    exc,         \* the C++ exception in flight, or "none"
    nextAct      \* the next activation identity (history only)

vars == <<frames, handlers, deferStack, host, exc, nextAct>>

----------------------------------------------------------------------------
(* A scope of the function being executed.  `c' is the number of DEFER      *)
(* instructions compiled so far in this scope and the ones around it, so    *)
(* the count that IRBuilder puts in a RUN_DEFERS is a difference of two.    *)
Scope == [try : BOOLEAN, c : Nat]

\* A call frame: who it is, its deferBase, and the scopes its ip is in.
Frame == [act : Nat, base : Nat, scopes : Seq(Scope)]

\* An ExceptionHandler: the frame that pushed it (1-based), that activation,
\* deferBase, and the scopes around the try (the meaning of handler.ip).
Handler == [frame : Nat, act : Nat, base : Nat, scopes : Seq(Scope)]

NoHandler == [frame |-> 0, act |-> 0, base |-> 0, scopes |-> <<>>]

\* Interpreter loops: run() under execute(), under callVMFunction(), and under
\* a callVMFunction() whose host caller ignores errors.
RunKinds == {"execute", "callVM", "callSwallow"}

\* runDefersDownTo() and the place it was called from: RETURN, a tail call,
\* handleExceptionUnwind, and the two catch clauses of execute().
LoopKinds == {"return", "tail", "catch", "execErr", "execInt"}

\* RUN_DEFERS: at the end of a scope, and for break/continue.
OpKinds == {"endScope", "break"}

\* n: the target depth of a run, the target base of a loop, the count left of
\* a RUN_DEFERS.  h: the handler a "catch" loop is unwinding to.
HostRec == [k : RunKinds \cup LoopKinds \cup OpKinds, n : Nat, h : Handler]

Host(k, n) == [k |-> k, n |-> n, h |-> NoHandler]

Top(s) == s[Len(s)]
Pop(s) == SubSeq(s, 1, Len(s) - 1)
Cut(s, n) == SubSeq(s, 1, n)

\* The frame being interpreted and the scope its ip is in.
Cur == Top(frames)
CurScope == Top(Cur.scopes)

\* The DEFERs compiled in the innermost j scopes of the current frame.
CompiledDefers(j) ==
    LET below == Len(Cur.scopes) - j
    IN  CurScope.c - (IF below = 0 THEN 0 ELSE Cur.scopes[below].c)

\* How many of the innermost j scopes are try bodies, for j in 1..2.
TriesIn(j) ==
    (IF CurScope.try THEN 1 ELSE 0)
    + (IF j = 2 /\ Cur.scopes[Len(Cur.scopes) - 1].try THEN 1 ELSE 0)

\* activeTryCount = 0 at the current instruction.
NotInTry == \A i \in 1..Len(Cur.scopes) : ~Cur.scopes[i].try

\* Some defer body is being executed.
InDefer == \E i \in 1..Len(host) : host[i].k \in LoopKinds \cup OpKinds

\* The while loops `pop while exceptionHandlers.back().frameIndex >= d': i of
\* the handlers stay.
PopHandlers(i, d) ==
    /\ i \in 0..Len(handlers)
    /\ i > 0 => handlers[i].frame <= d
    /\ \A j \in (i + 1)..Len(handlers) : handlers[j].frame > d
    /\ handlers' = Cut(handlers, i)

NewFrame(base) ==
    [act |-> nextAct, base |-> base, scopes |-> <<[try |-> FALSE, c |-> 0]>>]

\* A frame is pushed on the frame stack fs; its deferBase is where ds ends.
PushFrame(fs, ds) ==
    /\ nextAct < MaxActs
    /\ frames' = Append(fs, NewFrame(Len(ds)))
    /\ nextAct' = nextAct + 1

SetScopes(scopes) == frames' = [frames EXCEPT ![Len(frames)].scopes = scopes]

\* No exception is in flight and the innermost C++ activation is of a kind in K.
At(K) == exc = "none" /\ host # <<>> /\ Top(host).k \in K

\* The interpreter is about to execute an instruction of Cur.
Running == At(RunKinds)

----------------------------------------------------------------------------
Init ==
    /\ frames = <<>>
    /\ handlers = <<>>
    /\ deferStack = <<>>
    /\ host = <<>>
    /\ exc = "none"
    /\ nextAct = 0

(* VM::execute: the REPL or script runner evaluates a compiled chunk. *)
Execute ==
    /\ host = <<>>
    /\ Len(frames) < MaxFrames
    /\ PushFrame(frames, deferStack)
    /\ host' = <<Host("execute", Len(frames))>>
    /\ UNCHANGED <<handlers, deferStack, exc>>

(* Instructions.  Entering a block is a compile-time event (pushScope). *)
EnterBlock ==
    /\ Running
    /\ Len(Cur.scopes) < MaxScopes
    /\ SetScopes(Append(Cur.scopes, [try |-> FALSE, c |-> CurScope.c]))
    /\ UNCHANGED <<handlers, deferStack, host, exc, nextAct>>

TryBegin ==
    /\ Running
    /\ Len(Cur.scopes) < MaxScopes
    /\ SetScopes(Append(Cur.scopes, [try |-> TRUE, c |-> CurScope.c]))
    /\ handlers' = Append(handlers, [frame |-> Len(frames), act |-> Cur.act,
                                     base |-> Len(deferStack), scopes |-> Cur.scopes])
    /\ UNCHANGED <<deferStack, host, exc, nextAct>>

\* One more DEFER is compiled in the current scope.
CountDefer ==
    SetScopes([Cur.scopes EXCEPT ![Len(Cur.scopes)].c = @ + 1])

Defer ==
    /\ Running
    /\ Len(deferStack) < MaxDefers
    /\ deferStack' = Append(deferStack, Cur.act)
    /\ CountDefer
    /\ UNCHANGED <<handlers, host, exc, nextAct>>

(* `cond && defer e' with cond false: visitDeferExpr has counted the DEFER  *)
(* in deferCounts, visitBinary opens no scope for it, and it never runs.    *)
DeferSkipped ==
    /\ Running
    /\ "skippedDefer" \in Features
    /\ CurScope.c < MaxDefers
    /\ CountDefer
    /\ UNCHANGED <<handlers, deferStack, host, exc, nextAct>>

(* The end of a scope: popScope emits RUN_DEFERS with the compiled count.   *)
EndScope ==
    /\ Running
    /\ host' = Append(host, Host("endScope", CompiledDefers(1)))
    /\ UNCHANGED <<frames, handlers, deferStack, exc, nextAct>>

(* break/continue out of the innermost j scopes: TRY_END for each try body  *)
(* that is left, then one RUN_DEFERS for all of them.                       *)
Break ==
    /\ Running
    /\ \E j \in 1..2 :
         /\ j < Len(Cur.scopes)
         /\ handlers' = Cut(handlers, IF TriesIn(j) <= Len(handlers)
                                      THEN Len(handlers) - TriesIn(j) ELSE 0)
         /\ host' = Append(host, Host("break", CompiledDefers(j)))
         /\ SetScopes(Cut(Cur.scopes, Len(Cur.scopes) - j))
    /\ UNCHANGED <<deferStack, exc, nextAct>>

(* CALL, INVOKE and friends on a bytecode closure: execCall pushes a frame  *)
(* in the same interpreter loop, or throws when the frames are used up.     *)
Call ==
    /\ Running
    /\ IF Len(frames) >= MaxFrames
       THEN exc' = "value" /\ UNCHANGED <<frames, nextAct>>
       ELSE PushFrame(frames, deferStack) /\ UNCHANGED exc
    /\ UNCHANGED <<handlers, deferStack, host>>

(* A builtin (map, sort, a dunder, a class initializer ...) calls back into *)
(* bytecode: callVMFunction pushes a frame and a nested run().  A finalizer *)
(* is called the same way by code that ignores what it throws.              *)
CallNative ==
    /\ Running
    /\ PushFrame(frames, deferStack)
    /\ \E k \in {"callVM"} \cup (IF "swallow" \in Features THEN {"callSwallow"} ELSE {}) :
          host' = Append(host, Host(k, Len(frames)))
    /\ UNCHANGED <<handlers, deferStack, exc>>

\* RETURN first runs the defers of the frame.
Return ==
    /\ Running
    /\ NotInTry \/ "returnInTry" \in Features
    /\ host' = Append(host, Host("return", Cur.base))
    /\ UNCHANGED <<frames, handlers, deferStack, exc, nextAct>>

\* The frame on top is dropped with its handlers, and run(), whose record is the
\* last of ho, is left when its target depth is reached.
DropFrame(ho) ==
    /\ \E i \in 0..Len(handlers) : PopHandlers(i, Len(frames) - 1)
    /\ frames' = Pop(frames)
    /\ host' = IF Len(frames) - 1 <= Top(ho).n THEN Pop(ho) ELSE ho

\* TAIL_CALL is emitted for `return f(...)' outside every try body, the other tail
\* instructions of the VM never.  For a bytecode callee the defers of the frame are run,
\* and then it is reused (FinishTail).
TailCall ==
    /\ Running
    /\ NotInTry
    /\ host' = Append(host, Host("tail", Cur.base))
    /\ UNCHANGED <<frames, handlers, deferStack, exc, nextAct>>

\* For any other callee (a builtin, a class without an init in bytecode, a type)
\* execCall has the result already (what it called back is CallNative); run() drops
\* the frame like RETURN, but without running its defers: they stay on deferStack.
TailCallNative ==
    /\ Running
    /\ NotInTry
    /\ DropFrame(host)
    /\ UNCHANGED <<deferStack, exc, nextAct>>

\* THROW, or any instruction or builtin that raises an error.
Throw ==
    /\ Running
    /\ InDefer => "deferThrow" \in Features
    /\ exc' = "value"
    /\ UNCHANGED <<frames, handlers, deferStack, host, nextAct>>

\* checkInterrupt() in a builtin finds g_interruptRequested set.
Interrupt ==
    /\ Running
    /\ "interrupt" \in Features
    /\ exc' = "interrupt"
    /\ UNCHANGED <<frames, handlers, deferStack, host, nextAct>>

----------------------------------------------------------------------------
(* The defer-running loops.  Both pop the entry before they call it, so a   *)
(* defer that throws is not run again.                                      *)

\* The innermost loop pops the last defer and calls it through callVMFunction.
PopDefer(n) ==
    /\ deferStack' = Pop(deferStack)
    /\ PushFrame(frames, Pop(deferStack))
    /\ host' = Append([host EXCEPT ![Len(host)].n = n], Host("callVM", Len(frames)))
    /\ UNCHANGED <<handlers, exc>>

\* runDefersDownTo: while deferStack.size() > targetBase.
LoopPopDefer ==
    /\ At(LoopKinds)
    /\ Len(deferStack) > Top(host).n
    /\ PopDefer(Top(host).n)

\* RUN_DEFERS: while count-- > 0.  deferStack.back() of an empty stack is
\* undefined, and has no step here.
OpPopDefer ==
    /\ At(OpKinds)
    /\ Top(host).n > 0
    /\ deferStack # <<>>
    /\ PopDefer(Top(host).n - 1)

\* The innermost loop is of kind k and has no defer left to run.
Done(k) ==
    /\ At({k})
    /\ IF k \in OpKinds THEN Top(host).n = 0 ELSE Len(deferStack) <= Top(host).n

\* After RUN_DEFERS at the end of a scope: TRY_END if it was a try body; the
\* end of the outermost scope is followed by RETURN.
FinishEndScope ==
    /\ Done("endScope")
    /\ IF Len(Cur.scopes) = 1
       THEN /\ host' = Append(Pop(host), Host("return", Cur.base))
            /\ UNCHANGED <<frames, handlers>>
       ELSE /\ host' = Pop(host)
            /\ SetScopes(Pop(Cur.scopes))
            /\ handlers' = IF CurScope.try /\ handlers # <<>> THEN Pop(handlers) ELSE handlers
    /\ UNCHANGED <<deferStack, exc, nextAct>>

FinishBreak ==
    /\ Done("break")
    /\ host' = Pop(host)
    /\ UNCHANGED <<frames, handlers, deferStack, exc, nextAct>>

\* Mutant of FinishReturn: the handlers of the frame are left on the stack.
FinishReturnKeepHandlers ==
    /\ Done("return")
    /\ frames' = Pop(frames)
    /\ host' = IF Len(frames) - 1 <= Top(Pop(host)).n THEN Pop(Pop(host)) ELSE Pop(host)
    /\ UNCHANGED <<handlers, deferStack, exc, nextAct>>

\* The rest of RETURN: the frame is dropped.
FinishReturn ==
    /\ Done("return")
    /\ DropFrame(Pop(host))
    /\ UNCHANGED <<deferStack, exc, nextAct>>

\* The rest of a tail call of bytecode: the frame is reused for the callee, deferBase stays.
FinishTail ==
    /\ Done("tail")
    /\ nextAct < MaxActs
    /\ \E i \in 0..Len(handlers) : PopHandlers(i, Len(frames) - 1)
    /\ frames' = [frames EXCEPT ![Len(frames)] = NewFrame(Cur.base)]
    /\ nextAct' = nextAct + 1
    /\ host' = Pop(host)
    /\ UNCHANGED <<deferStack, exc>>

\* The rest of handleExceptionUnwind: drop the frames above the handler's and
\* continue at the catch branch in the frame that is then on top.  A catch
\* branch has a scope of its own.
FinishCatch ==
    /\ Done("catch")
    /\ LET h == Top(host).h
           d == IF h.frame < Len(frames) THEN h.frame ELSE Len(frames)
       IN  frames' = [Cut(frames, d) EXCEPT ![d].scopes =
                        Append(h.scopes, [try |-> FALSE, c |-> Top(h.scopes).c])]
    /\ host' = Pop(host)
    /\ UNCHANGED <<handlers, deferStack, exc, nextAct>>

\* The rest of execute()'s catch clauses: drop the frames and rethrow to main,
\* which reports the error and prompts again.
FinishExecute ==
    /\ Done("execErr") \/ Done("execInt")
    /\ frames' = Cut(frames, Top(Pop(host)).n)
    /\ host' = Pop(Pop(host))
    /\ UNCHANGED <<handlers, deferStack, exc, nextAct>>

----------------------------------------------------------------------------
(* Propagation of a C++ exception through the host stack.                   *)

\* The exception in flight has reached a C++ activation of a kind in K.
Raised(K) == exc # "none" /\ host # <<>> /\ Top(host).k \in K

\* Mutant of HandlerHere: the target depth of run() is not compared.
HandlerHereAnyDepth == handlers # <<>>

\* The handler run() would use: the last one, if it is not below run()'s target.
HandlerHere == handlers # <<>> /\ Top(handlers).frame > Top(host).n

\* Mutant of CatchInRun: unwinds to the deferBase of the handler's frame
\* instead of the one recorded when the try was entered.
CatchInRunFrameBase ==
    /\ Raised(RunKinds)
    /\ exc = "value"
    /\ HandlerHere
    /\ handlers' = Pop(handlers)
    /\ host' = Append(host, [k |-> "catch", n |-> frames[Top(handlers).frame].base,
                             h |-> Top(handlers)])
    /\ exc' = "none"
    /\ UNCHANGED <<frames, deferStack, nextAct>>

\* run() catches anything but an interrupt and finds a handler of its own.
CatchInRun ==
    /\ Raised(RunKinds)
    /\ exc = "value"
    /\ HandlerHere
    /\ handlers' = Pop(handlers)
    /\ host' = Append(host, [k |-> "catch", n |-> Top(handlers).base, h |-> Top(handlers)])
    /\ exc' = "none"
    /\ UNCHANGED <<frames, deferStack, nextAct>>

\* The exception leaves run().
Escapes == exc = "interrupt" \/ ~HandlerHere

\* catch (...) of callVMFunction: the frames are dropped; handlers and defers
\* are left for the caller.  A finalizer's caller goes on as if nothing happened.
LeaveCallVM ==
    /\ Raised({"callVM", "callSwallow"})
    /\ Escapes
    /\ frames' = Cut(frames, Top(host).n)
    /\ host' = Pop(host)
    /\ exc' = IF Top(host).k = "callSwallow" THEN "none" ELSE exc
    /\ UNCHANGED <<handlers, deferStack, nextAct>>

\* Mutant of LeaveExecute: runs the defers of the top frame only.
LeaveExecuteTopFrame ==
    /\ Raised({"execute"})
    /\ Escapes
    /\ \E i \in 0..Len(handlers) : PopHandlers(i, Top(host).n)
    /\ host' = Append(host, Host(IF exc = "interrupt" THEN "execInt" ELSE "execErr",
                                 Cur.base))
    /\ exc' = "none"
    /\ UNCHANGED <<frames, deferStack, nextAct>>

\* The catch clauses of execute(): drop the handlers, then run the defers, with
\* the error to attach suppressed ones to (ValueException) or without.
LeaveExecute ==
    /\ Raised({"execute"})
    /\ Escapes
    /\ \E i \in 0..Len(handlers) : PopHandlers(i, Top(host).n)
    /\ host' = Append(host, Host(IF exc = "interrupt" THEN "execInt" ELSE "execErr",
                                 frames[Top(host).n + 1].base))
    /\ exc' = "none"
    /\ UNCHANGED <<frames, deferStack, nextAct>>

\* A defer throws while runDefersDownTo has a current exception: the new error
\* (an interrupt too) goes to the suppressed list and the loop continues.
SuppressInDefers ==
    /\ Raised({"catch", "execErr"})
    /\ exc' = "none"
    /\ UNCHANGED <<frames, handlers, deferStack, host, nextAct>>

\* A defer throws in a loop without one: the error leaves the loop.
RethrowFromDefers ==
    /\ Raised({"return", "tail"} \cup OpKinds)
    /\ host' = Pop(host)
    /\ UNCHANGED <<frames, handlers, deferStack, exc, nextAct>>

\* The same in the catch (...) of execute(), which ignores the error: the
\* defers that are left stay on the stack.
AbandonDefers ==
    /\ Raised({"execInt"})
    /\ frames' = Cut(frames, Top(Pop(host)).n)
    /\ host' = Pop(Pop(host))
    /\ exc' = "none"
    /\ UNCHANGED <<handlers, deferStack, nextAct>>

Next ==
    \/ Execute \/ EnterBlock \/ TryBegin \/ Defer \/ DeferSkipped \/ EndScope \/ Break
    \/ Call \/ CallNative \/ Return \/ TailCall \/ TailCallNative \/ Throw \/ Interrupt
    \/ LoopPopDefer \/ OpPopDefer
    \/ FinishEndScope \/ FinishBreak \/ FinishReturn \/ FinishTail \/ FinishCatch
    \/ FinishExecute
    \/ CatchInRun \/ LeaveCallVM \/ LeaveExecute
    \/ SuppressInDefers \/ RethrowFromDefers \/ AbandonDefers

Spec == Init /\ [][Next]_vars

----------------------------------------------------------------------------
(* Properties.                                                              *)

\* Type correctness of the VM's four stacks.
TypeOK ==
    /\ frames \in Seq(Frame)
    /\ handlers \in Seq(Handler)
    /\ deferStack \in Seq(Nat)
    /\ host \in Seq(HostRec)
    /\ exc \in {"none", "value", "interrupt"}
    /\ nextAct \in Nat

\* An error is only ever delivered to a try of a frame that is still on the
\* call stack and that entered that try: every entry of exceptionHandlers
\* belongs to the activation that occupies its frame index, and the indices
\* never decrease (handleExceptionUnwind trusts both).
HandlersLive ==
    exc = "none" =>
      \A i \in 1..Len(handlers) :
        /\ handlers[i].frame \in 1..Len(frames)
        /\ frames[handlers[i].frame].act = handlers[i].act
        /\ i > 1 => handlers[i - 1].frame <= handlers[i].frame

\* RUN_DEFERS pops by a count fixed at compile time; what it pops was
\* registered by the very activation that executes it, never by a caller.
OwnDefersOnly ==
    At(OpKinds) /\ Top(host).n > 0 =>
      /\ deferStack # <<>>
      /\ Top(deferStack) = Cur.act

\* When the REPL prompts again nothing of the evaluated input is left: every
\* defer has run, every handler and frame is gone.
CleanAtPrompt ==
    host = <<>> => frames = <<>> /\ handlers = <<>> /\ deferStack = <<>>

\* Each nested run() works on frames of its own: its target depth is below the
\* frame count and above the depth of the loop that called it, so no return,
\* catch or unwind inside it drops a frame of its caller; and with no loop
\* running the frame stack is empty, whatever happened to defers and handlers.
LoopsOwnFrames ==
    /\ host = <<>> => frames = <<>>
    /\ \A i \in 1..Len(host) :
         host[i].k \in RunKinds =>
           /\ host[i].n < Len(frames)
           /\ \A j \in 1..(i - 1) : host[j].k \in RunKinds => host[j].n < host[i].n
============================================================================
