------------------------------ MODULE Upvalues ------------------------------
(***************************************************************************)
(* Captured variables of the register VM (src/vm/VM.cpp).  A closure that   *)
(* captures a local by reference points at an upvalue.  While the local's   *)
(* frame is on the stack the upvalue is open: it aliases a register.  When  *)
(* the frame goes, closeUpvalues must move the value into the upvalue.      *)
(*                                                                         *)
(* Every frame has a window of W registers, stacked from register 1.  The   *)
(* history variable `cell' is what the language promises: each captured     *)
(* variable is one storage cell that lives as long as a closure needs it    *)
(* (docs/spec/zh-CN.tex, "local capture and closures").                     *)
(***************************************************************************)
EXTENDS Naturals, Sequences

CONSTANTS
    W,           \* registers of a frame (localCount + refCount)
    MaxDepth,    \* bound: frames
    MaxUpvals,   \* bound: upvalues created in one behaviour
    Value,       \* the values a program stores
    None,        \* Value::none(), what a cleared register holds
    Exits        \* the ways besides RETURN in which frames are left

\* "tail":    TAIL_CALL reuses the frame
\* "unwind":  an exception is caught in a lower frame
\* "swallow": host code ignores the exception that left callVMFunction
\* "abort":   an exception leaves execute()
AllExits == {"tail", "unwind", "swallow", "abort"}

ASSUME ParamAssumption ==
    /\ W \in Nat \ {0}
    /\ MaxDepth \in Nat \ {0}
    /\ MaxUpvals \in Nat
    /\ None \notin Value
    /\ Exits \subseteq AllExits

VARIABLES
    depth,       \* frameCount
    regs,        \* registers
    upvals,      \* the upvalues allocated so far
    open,        \* the list from openUpvalues along nextOpen
    cell,        \* history: the captured variable's value, as promised
    bound,       \* history: the upvalues whose variable's frame is live
    left         \* history: the ways besides RETURN in which frames were left

vars == <<depth, regs, upvals, open, cell, bound, left>>

Reg == 1..(W * MaxDepth)
Val == Value \cup {None}

\* An upvalue: the register `location' aliases (0 once closed) and `closed'.
Upval == [reg : Reg \cup {0}, closed : Val]

\* The window of frame d begins after this register.
Base(d) == W * (d - 1)

\* Registers of frame d.
Window(d) == (Base(d) + 1)..(Base(d) + W)

\* VM::readUpvalue.
Read(u) == IF upvals[u].reg = 0 THEN upvals[u].closed ELSE regs[upvals[u].reg]

\* What is left of the registers when those in S are set to None.
Cleared(S) == [r \in Reg |-> IF r \in S THEN None ELSE regs[r]]

(* closeUpvalues(lastRegIndex): from the head of the list, upvalues at or    *)
(* above register r take their value from the register file rf.              *)
CloseUpvalues(r, rf) ==
    \E n \in 0..Len(open) :
      /\ \A i \in 1..n : upvals[open[i]].reg >= r
      /\ n < Len(open) => upvals[open[n + 1]].reg < r
      /\ open' = SubSeq(open, n + 1, Len(open))
      /\ upvals' = [u \in DOMAIN upvals |->
                      IF \E i \in 1..n : open[i] = u
                      THEN [reg |-> 0, closed |-> rf[upvals[u].reg]]
                      ELSE upvals[u]]

\* The variables in registers above r are no longer those of a live frame.
Unbind(r) == bound' = {u \in bound : upvals[u].reg <= r}

\* Frames are left in this way, if the program may leave them so.
Leave(way) == way \in Exits /\ left' = left \cup {way}

----------------------------------------------------------------------------
Init ==
    /\ depth = 0
    /\ regs = [r \in Reg |-> None]
    /\ upvals = <<>>
    /\ open = <<>>
    /\ cell = <<>>
    /\ bound = {}
    /\ left = {}

(* A frame is pushed (execute, execCall, callVMFunction): its first register *)
(* takes an argument, the others start as none.                              *)
Push ==
    /\ depth < MaxDepth
    /\ depth' = depth + 1
    /\ \E v \in Value :
         regs' = [Cleared(Window(depth + 1)) EXCEPT ![Base(depth + 1) + 1] = v]
    /\ UNCHANGED <<upvals, open, cell, bound, left>>

(* The running frame assigns a local. *)
SetLocal ==
    /\ depth > 0
    /\ \E r \in Window(depth), v \in Value :
         /\ regs' = [regs EXCEPT ![r] = v]
         /\ cell' = [u \in DOMAIN cell |->
                       IF u \in bound /\ upvals[u].reg = r THEN v ELSE cell[u]]
    /\ UNCHANGED <<depth, upvals, open, bound, left>>

\* Mutant of Capture: links a new upvalue at the head, whatever the list holds.
CaptureAtHead ==
    /\ depth > 0
    /\ Len(upvals) < MaxUpvals
    /\ \E r \in Window(depth) :
         /\ upvals' = Append(upvals, [reg |-> r, closed |-> None])
         /\ cell' = Append(cell, regs[r])
    /\ open' = <<Len(upvals) + 1>> \o open
    /\ bound' = bound \cup {Len(upvals) + 1}
    /\ UNCHANGED <<depth, regs, left>>

(* CLOSURE captures a local by reference: captureUpvalue walks the list,      *)
(* sorted by descending register, and returns the upvalue of that register    *)
(* or links a new one in its place.                                           *)
Capture ==
    /\ depth > 0
    /\ \E r \in Window(depth), n \in 0..Len(open) :
         /\ \A i \in 1..n : upvals[open[i]].reg > r
         /\ n < Len(open) => upvals[open[n + 1]].reg <= r
         /\ IF n < Len(open) /\ upvals[open[n + 1]].reg = r
            THEN /\ bound' = bound \cup {open[n + 1]}
                 /\ cell' = IF open[n + 1] \in bound THEN cell
                            ELSE [cell EXCEPT ![open[n + 1]] = regs[r]]
                 /\ UNCHANGED <<upvals, open>>
            ELSE /\ Len(upvals) < MaxUpvals
                 /\ upvals' = Append(upvals, [reg |-> r, closed |-> None])
                 /\ open' = SubSeq(open, 1, n) \o <<Len(upvals) + 1>>
                              \o SubSeq(open, n + 1, Len(open))
                 /\ cell' = Append(cell, regs[r])
                 /\ bound' = bound \cup {Len(upvals) + 1}
    /\ UNCHANGED <<depth, regs, left>>

(* A closure assigns a captured variable (SET_UPVAL, writeUpvalue).           *)
SetUpval ==
    /\ depth > 0
    /\ \E u \in DOMAIN upvals, v \in Value :
         /\ cell' = [cell EXCEPT ![u] = v]
         /\ IF upvals[u].reg = 0
            THEN upvals' = [upvals EXCEPT ![u].closed = v] /\ UNCHANGED regs
            ELSE regs' = [regs EXCEPT ![upvals[u].reg] = v] /\ UNCHANGED upvals
    /\ UNCHANGED <<depth, open, bound, left>>

\* Mutant of Return: the window is cleared before its upvalues are closed.
ReturnClearFirst ==
    /\ depth > 0
    /\ regs' = Cleared(Window(depth))
    /\ CloseUpvalues(Base(depth) + 1, regs')
    /\ Unbind(Base(depth))
    /\ depth' = depth - 1
    /\ UNCHANGED <<cell, left>>

(* RETURN: close, then clear the window. *)
Return ==
    /\ depth > 0
    /\ CloseUpvalues(Base(depth) + 1, regs)
    /\ regs' = Cleared(Window(depth))
    /\ Unbind(Base(depth))
    /\ depth' = depth - 1
    /\ UNCHANGED <<cell, left>>

(* TAIL_CALL: execCall writes the callee's arguments into the window it is    *)
(* about to reuse, and only then closes the caller's upvalues.                *)
TailCall ==
    /\ Leave("tail")
    /\ depth > 0
    /\ \E v \in Value :
         regs' = [Cleared(Window(depth)) EXCEPT ![Base(depth) + 1] = v]
    /\ CloseUpvalues(Base(depth) + 1, regs')
    /\ Unbind(Base(depth))
    /\ UNCHANGED <<depth, cell>>

\* Mutant of Unwind: no upvalue is closed.
UnwindKeepOpen ==
    /\ Leave("unwind")
    /\ \E d \in 1..depth :
         /\ depth' = d
         /\ regs' = Cleared(UNION {Window(e) : e \in (d + 1)..depth})
         /\ Unbind(Base(d + 1))
    /\ UNCHANGED <<upvals, open, cell>>

(* handleExceptionUnwind to a handler in frame d: the frames above are        *)
(* cleared and dropped, and then the upvalues above frame d are closed.       *)
Unwind ==
    /\ Leave("unwind")
    /\ \E d \in 1..depth :
         /\ depth' = d
         /\ regs' = Cleared(UNION {Window(e) : e \in (d + 1)..depth})
         /\ CloseUpvalues(Base(d + 1) + 1, regs')
         /\ Unbind(Base(d + 1))
    /\ UNCHANGED cell

(* catch (...) of callVMFunction: the frames above d are cleared and dropped; *)
(* code that ignores the error (a finalizer's caller) continues in frame d.   *)
Swallow ==
    /\ Leave("swallow")
    /\ \E d \in 1..(depth - 1) :
         /\ depth' = d
         /\ regs' = Cleared(UNION {Window(e) : e \in (d + 1)..depth})
         /\ Unbind(Base(d + 1))
    /\ UNCHANGED <<upvals, open, cell>>

(* The catch clauses of execute(): all frames are cleared and dropped.        *)
Abort ==
    /\ Leave("abort")
    /\ depth > 0
    /\ depth' = 0
    /\ regs' = Cleared(UNION {Window(e) : e \in 1..depth})
    /\ bound' = {}
    /\ UNCHANGED <<upvals, open, cell>>

Next ==
    \/ Push \/ SetLocal \/ Capture \/ SetUpval \/ Return
    \/ TailCall \/ Unwind \/ Swallow \/ Abort

Spec == Init /\ [][Next]_vars

----------------------------------------------------------------------------
\* Type correctness of registers, upvalues and the open list.
TypeOK ==
    /\ depth \in 0..MaxDepth
    /\ regs \in [Reg -> Val]
    /\ upvals \in Seq(Upval)
    /\ open \in Seq(DOMAIN upvals)
    /\ cell \in Seq(Val)
    /\ Len(cell) = Len(upvals)
    /\ bound \subseteq DOMAIN upvals
    /\ left \subseteq Exits

\* captureUpvalue's search and closeUpvalues' loop both stop at the first
\* smaller register: the open list is strictly descending, so a register has
\* at most one open upvalue, and it lists exactly the upvalues that are open.
OpenListSorted ==
    /\ \A i, j \in 1..Len(open) : i < j => upvals[open[i]].reg > upvals[open[j]].reg
    /\ \A u \in DOMAIN upvals :
         upvals[u].reg # 0 <=> \E i \in 1..Len(open) : open[i] = u

\* A captured variable is one storage cell, shared by every closure that
\* captured it and by the function that declared it, and it outlives the
\* function: reading the upvalue always gives the last value assigned.
SharedStorage == \A u \in DOMAIN upvals : Read(u) = cell[u]

\* An open upvalue aliases a register of a live frame, never one that a later
\* call will reuse for something else.
OpenInLiveFrame == \A i \in 1..Len(open) : upvals[open[i]].reg <= W * depth

\* While frames are left by RETURN only, captured variables are shared cells.
SharedWhileReturning == left = {} => SharedStorage

\* Tail calls and exceptions caught in bytecode leave no open upvalue above the
\* frame that is running; an aborted or ignored one does.
OpenInLiveFrameWithin == left \subseteq {"tail", "unwind"} => OpenInLiveFrame
============================================================================
