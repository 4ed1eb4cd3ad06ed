-------------------------------- MODULE Jit --------------------------------
(* Tiering between the interpreter and machine code (vm/VM.cpp, jit/): a     *)
(* function called often enough is compiled, a hot loop is replaced on the   *)
(* stack, machine code calls back into the VM through callouts and bails out *)
(* to the interpreter when a guard fails or a callout throws.  One native    *)
(* thread; the state is the chain of activations on its stack, the tables    *)
(* of machine code, and the globals through which machine code and the VM    *)
(* tell each other what happened.                                            *)
EXTENDS Integers, Sequences, SequencesExt, FiniteSets

CONSTANTS Fns,       \* the functions
          HasTry,    \* those with TRY_BEGIN, DEFER or TAIL_CALL in their code
          Main,      \* the script: never compiled, its errors end at the prompt
          Hot,       \* calls (1000) until compilation
          MaxDepth   \* activations on the stack

ASSUME JitAssumption ==
    /\ HasTry \subseteq Fns /\ Main \notin Fns
    /\ Hot \in Nat \ {0} /\ MaxDepth \in Nat \ {0}

VARIABLES stack,     \* the activations
          frames,    \* frameCount
          calls,     \* callCount of each function
          entry,     \* jitEntryPoints, osrEntryPoints: "none", "nullptr" or "code"
          owned,     \* jitCompiledCode, osrCompiledCode: is there a block?
          flag,      \* g_jc2_jit_deoptimized
          pending,   \* g_jit_pending_exception
          throwing,  \* a C++ exception is on its way
          aim        \* history: the depth of the handler it is for, or 0

tables == <<calls, entry, owned>>
vars == <<stack, frames, calls, entry, owned, flag, pending, throwing, aim>>

(* A function has two compiled forms: "call" from its first instruction and  *)
(* "osr" from the header of its loop.                                        *)
Forms == {"call", "osr"}

(* An activation: what it executes (the interpreter, or machine code, which  *)
(* is mapped memory while a table owns that block), where it is, and the     *)
(* object that only a machine register holds while it is in a callout: plain *)
(* data guarded by its place in jitPinList, or a container guarded by a mark.*)
Activation(f, form) ==
    [fn |-> f, form |-> form, mapped |-> TRUE, at |-> "run", bailed |-> FALSE,
     held |-> "none", guarded |-> FALSE, exposed |-> FALSE, lost |-> FALSE]

Depth == Len(stack)
Top == stack[Depth]
Native(a) == a.form \in Forms
Running == ~throwing /\ Top.at = "run"

-----------------------------------------------------------------------------
Init ==
    /\ stack = <<Activation(Main, "interpreter")>>
    /\ frames = 1
    /\ calls = [f \in Fns |-> 0]
    /\ entry = [f \in Fns |-> [k \in Forms |-> "none"]]
    /\ owned = [f \in Fns |-> [k \in Forms |-> FALSE]]
    /\ flag = FALSE
    /\ pending = FALSE
    /\ throwing = FALSE
    /\ aim = 0

(* The tables hold the only reference to a block: replacing or erasing an    *)
(* entry of jitCompiledCode or osrCompiledCode unmaps what it owned.         *)
Unmap(s, f, k) ==
    [d \in DOMAIN s |-> IF s[d].fn = f /\ s[d].form = k THEN [s[d] EXCEPT !.mapped = FALSE]
                                                       ELSE s[d]]

(* Code with handlers is not supported by the back end: the failure is       *)
(* entered as nullptr and not tried again.                                   *)
CompileForm(f, k) ==
    /\ entry' = [entry EXCEPT ![f][k] = IF f \in HasTry THEN "nullptr" ELSE "code"]
    /\ owned' = [owned EXCEPT ![f][k] = @ \/ f \notin HasTry]

AfterCompile(s, f, k) ==
    IF entry'[f][k] = "code" /\ entry[f][k] = "none" THEN Unmap(s, f, k) ELSE s

(* profileFrameStart.                                                        *)
ProfileFrameStart(f) ==
    /\ calls' = [calls EXCEPT ![f] = IF @ < Hot THEN @ + 1 ELSE @]
    /\ IF calls'[f] = Hot /\ entry[f]["call"] = "none"
       THEN CompileForm(f, "call")
       ELSE UNCHANGED <<entry, owned>>

(* e is what the table of entry points said when the call looked into it.    *)
Push(s, f, e) ==
    /\ stack' = Append(AfterCompile(s, f, "call"),
                       Activation(f, IF e = "code" THEN "call" ELSE "interpreter"))
    /\ frames' = frames + 1
    /\ flag' = (flag /\ e # "code")

(* execCall: the interpreter calls a function; the table is consulted before *)
(* the call is counted.                                                      *)
CallFromInterpreter(f) ==
    /\ Running /\ ~Native(Top) /\ Depth < MaxDepth
    /\ ProfileFrameStart(f)
    /\ Push(stack, f, entry[f]["call"])
    /\ UNCHANGED <<pending, throwing, aim>>

(* Mutant of Pin: containers are not marked.                                 *)
PinPlainOnly(a, kind) == [a EXCEPT !.held = kind, !.guarded = kind = "plain"]

(* jc2_jit_gc_pin: a reference more for plain data, a mark for a container.  *)
Pin(a, kind) == [a EXCEPT !.held = kind, !.guarded = TRUE]

(* jc2_jit_call_helper and callVMFunction: machine code calls a function;    *)
(* the call is counted before the table is consulted.                        *)
CallFromMachineCode(f) ==
    /\ Running /\ Native(Top) /\ Depth < MaxDepth
    /\ ProfileFrameStart(f)
    /\ \E kind \in {"plain", "box"} :
         Push([stack EXCEPT ![Depth] = Pin([Top EXCEPT !.at = "callout"], kind)],
              f, entry'[f]["call"])
    /\ UNCHANGED <<pending, throwing, aim>>

Expose(s, kind) ==
    [d \in DOMAIN s |-> IF s[d].held = kind /\ s[d].guarded
                        THEN [s[d] EXCEPT !.guarded = FALSE, !.exposed = TRUE] ELSE s[d]]

(* The activation at the top of s is back from its callout: jc2_jit_gc_unpin *)
(* empties the whole list, with what the activations below have pinned.      *)
BackFromCallout(s, bails) ==
    Expose([s EXCEPT ![Len(s)] = [Activation(@.fn, @.form) EXCEPT
                                      !.mapped = s[Len(s)].mapped,
                                      !.at = IF bails THEN "left" ELSE "run",
                                      !.bailed = bails]],
           "plain")

(* collectGarbage: plain data that has no reference and containers that are  *)
(* not marked are freed; sweep clears the marks of those that stay.          *)
Sweep(s) ==
    Expose([d \in DOMAIN s |-> [s[d] EXCEPT !.lost = @ \/ (s[d].held # "none" /\ ~s[d].guarded)]],
           "box")

(* A callout that calls no function: an allocation, an operator.             *)
LeafCallout ==
    /\ Running /\ Native(Top)
    /\ \E collects \in BOOLEAN :
         stack' = BackFromCallout(IF collects THEN Sweep(stack) ELSE stack, FALSE)
    /\ UNCHANGED <<frames, tables, flag, pending, throwing, aim>>

(* A collection while the interpreter runs.                                  *)
Collect ==
    /\ Running /\ ~Native(Top)
    /\ stack' = Sweep(stack)
    /\ UNCHANGED <<frames, tables, flag, pending, throwing, aim>>

-----------------------------------------------------------------------------
(* Leaving machine code: by its return instruction, or through the           *)
(* trampoline to jc2_jit_deoptimize when a guard fails.                      *)
ReturnInstruction ==
    /\ Running /\ Native(Top)
    /\ stack' = [stack EXCEPT ![Depth].at = "left"]
    /\ UNCHANGED <<frames, tables, flag, pending, throwing, aim>>

BailOut ==
    /\ Running /\ Native(Top)
    /\ stack' = [stack EXCEPT ![Depth].at = "left", ![Depth].bailed = TRUE]
    /\ flag' = TRUE
    /\ UNCHANGED <<frames, tables, pending, throwing, aim>>

(* The caller of an activation that returned goes on.                        *)
ReturnTo(s) == IF s[Len(s)].at = "callout" THEN BackFromCallout(s, FALSE) ELSE s

(* execCall, callVMFunction, ATTEMPT_OSR: func returned and did not bail.    *)
Returned ==
    /\ ~throwing /\ Top.at = "left" /\ ~flag
    /\ stack' = ReturnTo(Front(stack))
    /\ frames' = frames - 1
    /\ UNCHANGED <<tables, flag, pending, throwing, aim>>

(* The frame of a bailed activation goes on in the interpreter; if a callout *)
(* had thrown, the call helpers leave it behind instead.                     *)
Resume(s) ==
    IF pending /\ Top.form = "call" THEN Front(s)
    ELSE [s EXCEPT ![Depth] = Activation(Top.fn, "interpreter")]

GiveUpCode ==
    /\ entry' = [entry EXCEPT ![Top.fn][Top.form] = "nullptr"]
    /\ owned' = [owned EXCEPT ![Top.fn][Top.form] = FALSE]
    /\ calls' = [calls EXCEPT ![Top.fn] = IF Top.form = "call" THEN 0 ELSE @]
    /\ stack' = Resume(Unmap(stack, Top.fn, Top.form))

(* Mutant of Deoptimized: the flag is left set.                              *)
DeoptimizedFlagKept ==
    /\ ~throwing /\ Top.at = "left" /\ flag
    /\ GiveUpCode
    /\ pending' = FALSE
    /\ throwing' = pending
    /\ UNCHANGED <<frames, flag, aim>>

(* The same places when it did: the entry becomes nullptr, the block is      *)
(* given up, and what is pending is thrown again.                            *)
Deoptimized ==
    /\ ~throwing /\ Top.at = "left" /\ flag
    /\ flag' = FALSE
    /\ GiveUpCode
    /\ pending' = FALSE
    /\ throwing' = pending
    /\ UNCHANGED <<frames, aim>>

(* RETURN in the interpreter.                                                *)
ReturnOpcode ==
    /\ Running /\ ~Native(Top) /\ Depth > 1
    /\ stack' = ReturnTo(Front(stack))
    /\ frames' = frames - 1
    /\ UNCHANGED <<tables, flag, pending, throwing, aim>>

-----------------------------------------------------------------------------
(* JMP: the header of a hot loop is reached.  compileForOSR if there is no   *)
(* entry for it, and then the loop goes on in machine code.                  *)
HotLoop ==
    /\ Running /\ ~Native(Top) /\ Top.fn \in Fns
    /\ entry[Top.fn]["osr"] # "nullptr"
    /\ IF entry[Top.fn]["osr"] = "none" THEN CompileForm(Top.fn, "osr")
                                        ELSE UNCHANGED <<entry, owned>>
    /\ LET found == entry'[Top.fn]["osr"] = "code"
       IN  /\ stack' = IF found
                       THEN [AfterCompile(stack, Top.fn, "osr") EXCEPT ![Depth].form = "osr"]
                       ELSE stack
           /\ flag' = (flag /\ ~found)
    /\ UNCHANGED <<frames, calls, pending, throwing, aim>>

(* Mutant of InvalidateJIT: the memory goes with the entries.                *)
InvalidateJITFrees ==
    /\ Running /\ ~Native(Top)
    /\ entry' = [f \in Fns |-> [k \in Forms |-> "none"]]
    /\ owned' = [f \in Fns |-> [k \in Forms |-> FALSE]]
    /\ stack' = [d \in DOMAIN stack |-> [stack[d] EXCEPT !.mapped = ~Native(stack[d])]]
    /\ UNCHANGED <<frames, calls, flag, pending, throwing, aim>>

(* invalidateJIT, when an indexed assignment replaces a container: "only the *)
(* entry pointers are cleared, not the ExecutableMemory, else the memory of  *)
(* machine code that is running would be freed" (VM.cpp:3690).               *)
InvalidateJIT ==
    /\ Running /\ ~Native(Top)
    /\ entry' = [f \in Fns |-> [k \in Forms |-> "none"]]
    /\ UNCHANGED <<stack, frames, calls, owned, flag, pending, throwing, aim>>

-----------------------------------------------------------------------------
(* Exceptions.                                                               *)
Handles(a) == ~Native(a) /\ a.fn \in HasTry \cup {Main}

Nearest(s) == CHOOSE d \in DOMAIN s : Handles(s[d]) /\ \A e \in DOMAIN s : Handles(s[e]) => e <= d

(* The interpreter throws.                                                   *)
Throw ==
    /\ Running /\ ~Native(Top)
    /\ throwing' = TRUE
    /\ aim' = Nearest(stack)
    /\ UNCHANGED <<stack, frames, tables, flag, pending>>

(* A callout throws: JIT_CALLOUT_CATCH keeps the exception, and machine code *)
(* that finds it pending bails out.                                          *)
CalloutThrows ==
    /\ Running /\ Native(Top)
    /\ aim' = Nearest(stack)
    /\ pending' = TRUE
    /\ stack' = BackFromCallout(stack, TRUE)
    /\ flag' = TRUE
    /\ UNCHANGED <<frames, tables, throwing>>

(* An exception from the function that machine code called.                  *)
CalloutCatch ==
    /\ throwing /\ Top.at = "callout"
    /\ throwing' = FALSE
    /\ pending' = TRUE
    /\ stack' = BackFromCallout(stack, TRUE)
    /\ flag' = TRUE
    /\ UNCHANGED <<frames, tables, aim>>

(* An activation of the interpreter without a handler is unwound; where the  *)
(* VM was entered from machine code, callVMFunction drops the frames above.  *)
Unwind ==
    /\ throwing /\ ~Native(Top) /\ ~Handles(Top)
    /\ stack' = Front(stack)
    /\ frames' = IF stack[Depth - 1].at = "callout" THEN Depth - 1 ELSE frames
    /\ UNCHANGED <<tables, flag, pending, throwing, aim>>

(* Mutant of Catch: the frames above the handler stay.                       *)
CatchKeepsFrames ==
    /\ throwing /\ Handles(Top)
    /\ throwing' = FALSE
    /\ aim' = 0
    /\ UNCHANGED <<stack, frames, tables, flag, pending>>

(* The handler: frames above its own are dropped.                            *)
Catch ==
    /\ throwing /\ Handles(Top)
    /\ throwing' = FALSE
    /\ aim' = 0
    /\ frames' = Depth
    /\ UNCHANGED <<stack, tables, flag, pending>>

Next ==
    \/ \E f \in Fns : CallFromInterpreter(f) \/ CallFromMachineCode(f)
    \/ LeafCallout \/ ReturnInstruction \/ BailOut \/ Returned \/ Deoptimized
    \/ ReturnOpcode \/ HotLoop \/ InvalidateJIT \/ Collect
    \/ Throw \/ CalloutThrows \/ CalloutCatch \/ Unwind \/ Catch

Spec == Init /\ [][Next]_vars

-----------------------------------------------------------------------------
(* Machine code on the stack stays mapped without recursion: the step that   *)
(* unmaps the code of an activation is taken by a deeper activation of the   *)
(* same function, which bails out or compiles it again after invalidateJIT;  *)
(* the tables hold the only reference to a block (VM.cpp 1447).              *)
OnlyRecursionUnmaps ==
    [][\A d \in DOMAIN stack \cap DOMAIN stack' :
         Native(stack[d]) /\ stack[d].mapped /\ ~stack'[d].mapped
         => \/ d < Depth /\ Top.fn = stack[d].fn
            \/ d < Len(stack') /\ stack'[Len(stack')].fn = stack[d].fn]_vars

(* An object that only a machine register holds survives the collections     *)
(* during a callout (jc2_jit_gc_pin), until machine code further up the      *)
(* stack empties the common pin list or a first collection used up its mark. *)
HeldObjectsLiveUndisturbed ==
    \A d \in DOMAIN stack : stack[d].lost => stack[d].exposed

(* The caller of machine code takes its result for a bailout if and only if  *)
(* that activation bailed out, whatever ran and bailed in its callouts       *)
(* (g_jc2_jit_deoptimized is one flag for all of them).                      *)
BailoutsToldApart == Top.at = "left" => (flag <=> Top.bailed)

(* An exception crosses machine code and interpreter and reaches the nearest *)
(* handler once: what is pending is thrown again before anything else runs,  *)
(* and when it is handled frameCount is the number of activations again.     *)
ExceptionsArrive ==
    /\ (throwing \/ pending) <=> aim # 0
    /\ aim <= Depth
    /\ aim = 0 => frames = Depth
    /\ throwing /\ Handles(Top) => aim = Depth
=============================================================================
