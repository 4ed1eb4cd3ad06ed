----------------------------- MODULE MCVmControl -----------------------------
(***************************************************************************)
(* VmControl with a history variable for TLC: which of the disturbances    *)
(* known to break a promise of the language have happened so far.  One run *)
(* over all features then checks each promise up to its first disturbance. *)
(***************************************************************************)
EXTENDS VmControl, FiniteSets

CONSTANTS
    MaxDisturbedActs,   \* bound: activations once a disturbance happened
    MaxHost             \* bound: nested C++ activations

VARIABLE seen

seenVars == <<vars, seen>>

Note(f) == seen' = seen \cup {f}

\* The disturbance, if any, that the step being taken is.
Noted ==
    CASE Running /\ exc' = "interrupt"                        -> Note("interrupt")
      [] Running /\ ~NotInTry /\ Len(host') > Len(host)
           /\ Top(host').k = "return"                         -> Note("returnInTry")
      [] Raised({"callSwallow"}) /\ exc' = "none"
           /\ Len(host') < Len(host)                          -> Note("swallow")
      [] Running /\ frames' # frames /\ Len(frames') = Len(frames)
           /\ nextAct' = nextAct /\ handlers' = handlers
           /\ deferStack' = deferStack /\ host' = host
           /\ Top(Cur'.scopes).c > CurScope.c
           /\ Len(Cur'.scopes) = Len(Cur.scopes)              -> Note("skippedDefer")
      [] Running /\ Len(frames') < Len(frames)
           /\ Len(deferStack) > Cur.base                      -> Note("tailNative")
      [] OTHER                                                -> UNCHANGED seen

SeenInit == Init /\ seen = {}
SeenNext == Next /\ Noted
SeenSpec == SeenInit /\ [][SeenNext]_seenVars

\* Bounds: the nesting of the C++ stack; one kind of disturbance in a behaviour,
\* and then fewer activations, one less again after those that the promises
\* below exclude most of.
OneDisturbance ==
    /\ Len(host) <= MaxHost
    /\ Cardinality(seen) <= 1
    /\ seen # {} => nextAct <= MaxDisturbedActs
    /\ seen \cap {"interrupt", "skippedDefer", "tailNative"} # {} => nextAct < MaxDisturbedActs

----------------------------------------------------------------------------
\* Until Ctrl+C unwinds past its try bodies, no handler outlives its frame.
HandlersLiveUndisturbed == "interrupt" \notin seen => HandlersLive

\* Until Ctrl+C interrupts it, or a tail call of a builtin, class or type drops a
\* frame whose defers have not run, an evaluation leaves nothing behind it, errors
\* thrown by defers and ignored by finalizers' callers included.
CleanAtPromptUndisturbed == seen \cap {"interrupt", "tailNative"} = {} => CleanAtPrompt

\* Until the first disturbance of any kind, RUN_DEFERS never pops a defer that
\* another activation registered, errors thrown in defers and tail calls included.
OwnDefersUndisturbed == seen = {} => OwnDefersOnly
=============================================================================
