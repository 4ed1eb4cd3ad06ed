-------------------------------- MODULE Repl --------------------------------
(***************************************************************************)
(* The prompt of the interpreter and Ctrl+C.  The main thread reads and    *)
(* evaluates; sigintHandler runs on a thread of its own (Windows) or on    *)
(* top of the main thread, which then stands still (POSIX).  They share    *)
(* the interrupt flag, the waiting-for-input flag and the press counter.   *)
(* An evaluation notices the flag only where it polls (checkInterrupt).    *)
(* Both threads may end the process: vm.shutdown() first, which collects   *)
(* twice and so runs the finalizers that are left, then std::exit().       *)
(***************************************************************************)
EXTENDS Integers

CONSTANTS
    Programs,      \* kinds of input: "ends", "polls" (may loop, but in builtins
                   \* that poll), "bare" (a loop of bytecode without builtins)
    MaxPresses,    \* bound: presses of Ctrl+C
    MaxFinalizers  \* bound: finalizers started by collections

ASSUME ReplAssumption ==
    /\ Programs \subseteq {"ends", "polls", "bare"}
    /\ MaxPresses \in Nat /\ MaxFinalizers \in Nat

VARIABLES
    platform,    \* "windows" or "posix"
    main,        \* where the main thread is
    handler,     \* where sigintHandler is
    flag,        \* g_interruptRequested
    waiting,     \* g_isWaitingForInput
    count,       \* g_sigintCount
    got,         \* what getline returned: "line", "nothing" or "eof"
    program,     \* what is being evaluated
    finalizing,  \* a finalizer runs: its exceptions are caught and ignored
    alive,       \* the process has not exited
    presses, finalizers,  \* bounds
    hits,        \* history: evaluations that ended with KeyboardInterrupt
    burst        \* history: presses counted in this evaluation, each within
                 \* a second of the one before

shared == <<flag, waiting, count>>
evaluation == <<program, finalizing, finalizers>>
history == <<hits, burst>>
vars == <<platform, main, handler, shared, got, evaluation, alive, presses, history>>

Init ==
    /\ platform \in {"windows", "posix"}
    /\ main = "clear" /\ handler = "idle"
    /\ flag = FALSE /\ waiting = FALSE /\ count = 0
    /\ got = "nothing" /\ program = "none" /\ finalizing = FALSE
    /\ alive = TRUE /\ presses = 0 /\ finalizers = 0
    /\ hits = 0 /\ burst = 0

MainRuns == alive /\ (platform = "posix" => handler = "idle")
At(m, n) == MainRuns /\ main = m /\ main' = n

-----------------------------------------------------------------------------
(* The prompt. *)

\* Mutant of ClearFlag: the request is left for the next evaluation.
ClearFlagNot ==
    /\ At("clear", "reset")
    /\ UNCHANGED <<platform, handler, shared, got, evaluation, alive, presses, history>>

ClearFlag ==
    /\ At("clear", "reset")
    /\ flag' = FALSE
    /\ UNCHANGED <<platform, handler, waiting, count, got, evaluation, alive, presses, history>>

ResetCount ==
    /\ At("reset", "arm")
    /\ count' = 0
    /\ UNCHANGED <<platform, handler, flag, waiting, got, evaluation, alive, presses, history>>

Arm ==
    /\ At("arm", "read")
    /\ waiting' = TRUE
    /\ UNCHANGED <<platform, handler, flag, count, got, evaluation, alive, presses, history>>

\* the user, or the end of a piped input
ReadLine ==
    /\ At("read", "disarm")
    /\ got' \in {"line", "nothing", "eof"}
    /\ UNCHANGED <<platform, handler, shared, evaluation, alive, presses, history>>

Disarm ==
    /\ At("disarm", "input")
    /\ waiting' = FALSE
    /\ UNCHANGED <<platform, handler, flag, count, got, evaluation, alive, presses, history>>

NoInput ==
    /\ main \in {"input", "more"} /\ MainRuns
    /\ IF main = "input" THEN got # "line" /\ got' = got ELSE got' \in {"nothing", "eof"}
    /\ IF ~flag /\ got' = "eof"
       THEN main' = "shutdown"
       ELSE main' = "clear"
    /\ UNCHANGED <<platform, handler, shared, evaluation, alive, presses, history>>

\* a blank line or a command of the prompt
NothingToDo ==
    /\ At("input", "clear")
    /\ got = "line"
    /\ UNCHANGED <<platform, handler, shared, got, evaluation, alive, presses, history>>

Quit ==
    /\ At("input", "shutdown")
    /\ got = "line"
    /\ UNCHANGED <<platform, handler, shared, got, evaluation, alive, presses, history>>

\* a continuation line is read without announcing it in g_isWaitingForInput
ReadMore ==
    /\ At("input", "more")
    /\ got = "line"
    /\ UNCHANGED <<platform, handler, shared, got, evaluation, alive, presses, history>>

Evaluate(p) ==
    /\ \/ At("input", "eval") /\ got = "line"
       \/ At("more", "eval")
    /\ program' = p
    /\ UNCHANGED <<platform, handler, shared, got, finalizing, finalizers, alive, presses, history>>

-----------------------------------------------------------------------------
(* An evaluation. *)

Running == MainRuns /\ main = "eval"

Leave == main' = "clear" /\ program' = "none" /\ finalizing' = FALSE /\ burst' = 0

\* the value is printed, or the error caught by the loop of the prompt
EvaluationEnds ==
    /\ Running /\ program # "bare" /\ ~finalizing
    /\ Leave
    /\ UNCHANGED <<platform, handler, shared, got, alive, presses, finalizers, hits>>

StartFinalizer ==
    /\ Running /\ program # "bare" /\ ~finalizing /\ finalizers < MaxFinalizers
    /\ finalizing' = TRUE /\ finalizers' = finalizers + 1
    /\ UNCHANGED <<platform, main, handler, shared, got, program, alive, presses, history>>

EndFinalizer ==
    /\ Running /\ finalizing
    /\ finalizing' = FALSE
    /\ UNCHANGED <<platform, main, handler, shared, got, program, finalizers, alive, presses, history>>

\* Mutant of CheckInterrupt: delivering the request consumes it.
CheckInterruptOnce ==
    /\ Running /\ program = "polls" /\ flag
    /\ flag' = FALSE
    /\ IF finalizing
       THEN finalizing' = FALSE /\ UNCHANGED <<main, program, history>>
       ELSE Leave /\ hits' = hits + 1
    /\ UNCHANGED <<platform, handler, waiting, count, got, finalizers, alive, presses>>

\* the request stays set, also when the finalizer that polled it is cut short
CheckInterrupt ==
    /\ Running /\ program = "polls" /\ flag
    /\ IF finalizing
       THEN finalizing' = FALSE /\ UNCHANGED <<main, program, history>>
       ELSE Leave /\ hits' = hits + 1
    /\ UNCHANGED <<platform, handler, shared, got, finalizers, alive, presses>>

-----------------------------------------------------------------------------
(* The end of the process.                                                 *)

Shutting == {"shutdown", "last", "stuck"}

\* a thread goes on with its vm.shutdown()
ShutdownStep(from, to) ==
    \/ MainRuns /\ main = from /\ main' = to /\ UNCHANGED handler
    \/ alive /\ handler = from /\ handler' = to /\ UNCHANGED main

\* one of its collections runs a finalizer,
LastFinalizer ==
    /\ finalizers < MaxFinalizers /\ finalizers' = finalizers + 1
    /\ ShutdownStep("shutdown", "last")
    /\ UNCHANGED <<platform, shared, got, program, finalizing, alive, presses, history>>

\* which may end, with a value or with an error, that of a poll too, and need not
LastFinalizerEnds ==
    /\ ShutdownStep("last", "shutdown")
    /\ UNCHANGED <<platform, shared, got, evaluation, alive, presses, history>>

\* The handler's shutdown frees what the main thread is using, which was interrupted
\* anywhere or still runs: it may wait for what that thread holds,
ShutdownStuck ==
    /\ alive /\ handler = "shutdown" /\ handler' = "stuck"
    /\ UNCHANGED <<platform, main, shared, got, evaluation, alive, presses, history>>

\* or either may crash.
ShutdownCrash ==
    /\ handler \in Shutting
    /\ alive /\ alive' = FALSE
    /\ UNCHANGED <<platform, main, handler, shared, got, evaluation, presses, history>>

Exit ==
    /\ \/ main = "shutdown" /\ MainRuns
       \/ handler = "shutdown"
    /\ alive /\ alive' = FALSE
    /\ UNCHANGED <<platform, main, handler, shared, got, evaluation, presses, history>>

-----------------------------------------------------------------------------
(* sigintHandler. *)

Handles(h) == alive /\ handler = h

Press ==
    /\ Handles("idle") /\ presses < MaxPresses
    /\ presses' = presses + 1 /\ handler' = "check"
    /\ UNCHANGED <<platform, main, shared, got, evaluation, alive, history>>

CheckWaiting ==
    /\ Handles("check")
    /\ handler' = IF waiting THEN "shutdown" ELSE "count"
    /\ UNCHANGED <<platform, main, shared, got, evaluation, alive, presses, history>>

\* Mutant of Count: a request that is already pending is not counted again.
CountFirst ==
    /\ Handles("count") /\ handler' = "test"
    /\ \E quick \in BOOLEAN :
        /\ count' = IF ~quick THEN 1 ELSE IF flag THEN count ELSE count + 1
        /\ burst' = IF main # "eval" THEN 0 ELSE IF quick THEN burst + 1 ELSE 1
    /\ UNCHANGED <<platform, main, flag, waiting, got, evaluation, alive, presses, hits>>

Count ==
    /\ Handles("count") /\ handler' = "test"
    /\ \E quick \in BOOLEAN :
        /\ count' = IF quick THEN count + 1 ELSE 1
        /\ burst' = IF main # "eval" THEN 0 ELSE IF quick THEN burst + 1 ELSE 1
    /\ UNCHANGED <<platform, main, flag, waiting, got, evaluation, alive, presses, hits>>

HardKill ==
    /\ Handles("test") /\ count >= 3
    /\ handler' = "shutdown"
    /\ UNCHANGED <<platform, main, shared, got, evaluation, alive, presses, history>>

Request ==
    /\ Handles("test") /\ count < 3
    /\ handler' = "store"
    /\ UNCHANGED <<platform, main, shared, got, evaluation, alive, presses, history>>

Store ==
    /\ Handles("store") /\ handler' = "idle"
    /\ flag' = TRUE
    /\ UNCHANGED <<platform, main, waiting, count, got, evaluation, alive, presses, history>>

-----------------------------------------------------------------------------
Handler == CheckWaiting \/ Count \/ HardKill \/ Request \/ Store

\* what the main thread does without waiting for the user
Prompt == ClearFlag \/ ResetCount \/ Arm \/ Disarm
Dispatch == NoInput \/ NothingToDo \/ Quit \/ ReadMore \/ \E p \in Programs : Evaluate(p)

Next ==
    \/ Prompt \/ ReadLine \/ Dispatch
    \/ EvaluationEnds \/ StartFinalizer \/ EndFinalizer \/ CheckInterrupt
    \/ Press \/ Handler
    \/ LastFinalizer \/ LastFinalizerEnds \/ ShutdownStuck \/ ShutdownCrash \/ Exit

(* The threads are scheduled, and a program that polls keeps polling; it    *)
(* need not end, and the user need not type.  A shutdown goes on when no    *)
(* finalizer holds it up, and those of a shutdown need not end.             *)
Fairness ==
    /\ WF_vars(Handler) /\ WF_vars(Prompt) /\ WF_vars(Exit)
    /\ WF_vars(EndFinalizer) /\ WF_vars(CheckInterrupt)

Spec == Init /\ [][Next]_vars /\ Fairness

-----------------------------------------------------------------------------
(* A press of Ctrl+C ends at most one evaluation: what it requested never   *)
(* survives the prompt into another one, even when the handler is late.     *)
InterruptsOnce == hits <= presses

(* The request is not lost: an evaluation that polls ends after it, also    *)
(* when the first poll to see it is inside a finalizer, whose exceptions    *)
(* the collector ignores, and unless a later press shuts the process down.  *)
PolledInterruptDelivered ==
    (flag /\ main = "eval" /\ program = "polls")
        ~> (main # "eval" \/ handler \in Shutting \/ ~alive)

(* Three presses in quick succession end the process whatever the           *)
(* evaluation does, unless it ends by itself first: the third always gets   *)
(* to vm.shutdown(), and then only a finalizer that does not end, or the    *)
(* thread it interrupted, keeps the process (README.md: immediate).         *)
ThreePressesEnd == burst >= 3 ~> (main # "eval" \/ handler \in {"last", "stuck"} \/ ~alive)
=============================================================================
