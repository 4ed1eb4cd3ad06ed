------------------------------- MODULE Window -------------------------------
(***************************************************************************)
(* One NativeWindow of the window library and its two threads: the         *)
(* interpreter, which constructs, draws, polls and destroys it, and the    *)
(* window thread, which creates the native window and runs its message     *)
(* loop.  They share the atomics hwnd and running, the pixel buffer under  *)
(* bufMutex and the event queue under eventMutex.  The native side         *)
(* (posted messages, invalidation, destruction) is modelled from the calls *)
(* the code makes.                                                         *)
(***************************************************************************)
EXTENDS Naturals, Sequences, SequencesExt

CONSTANTS
    Frames,     \* images the script shows
    MaxShows,   \* bound: calls of show()
    MaxInputs,  \* bound: key and mouse messages
    QueueCap,   \* events kept for the script (256 in the code)
    PostLimit   \* messages the system keeps for a thread (10000)

ASSUME WindowAssumption ==
    /\ MaxShows \in Nat /\ MaxInputs \in Nat
    /\ QueueCap \in Nat \ {0} /\ PostLimit \in Nat \ {0}
    /\ "blank" \notin Frames

VARIABLES
    app,       \* where the interpreter thread is
    thread,    \* where the window thread is
    hwnd,      \* the atomic hwnd has been assigned
    running,   \* the atomic running
    window,    \* the native window: "none", "open" or "destroyed"
    posted,    \* messages posted to it: "app" (WM_APP + 1), "close"
    quit,      \* PostQuitMessage has been called
    dirty,     \* a region is invalid, so that a WM_PAINT is due
    buffer,    \* displayBuffer, as an upper and a lower half
    screen,    \* what SetDIBitsToDevice has drawn, in the same halves
    lock,      \* owner of bufMutex
    frame,     \* the image show() is copying
    events,    \* eventQueue
    shows, inputs,  \* bounds
    closes, polled, \* history: "close" events pushed, and polled
    lostClose  \* history: the destructor's WM_CLOSE found the queue full

appVars == <<buffer, lock, frame, shows>>
msgVars == <<window, posted, quit, dirty>>
eventVars == <<events, inputs, closes, polled>>
windowVars == <<app, thread, hwnd, running, msgVars, appVars, screen, eventVars, lostClose>>

Whole(f) == <<f, f>>

WindowInit ==
    /\ app = "start" /\ thread = "none"
    /\ hwnd = FALSE /\ running = TRUE
    /\ window = "none" /\ posted = <<>> /\ quit = FALSE /\ dirty = FALSE
    /\ buffer = Whole("blank") /\ screen = Whole("blank")
    /\ lock = "free" /\ frame = "blank" /\ shows = 0
    /\ events = <<>> /\ inputs = 0 /\ closes = 0 /\ polled = 0
    /\ lostClose = FALSE

App(m, n) == app = m /\ app' = n
Win(t, u) == thread = t /\ thread' = u

(* PostMessage: fails on a destroyed window and on a full queue; the code   *)
(* ignores the result.                                                      *)
Delivers == window = "open" /\ Len(posted) < PostLimit
PostMessage(m) == posted' = IF Delivers THEN Append(posted, m) ELSE posted

\* Mutant of PushEvent: a full queue refuses the new event.
PushEventDropNewest(e) ==
    events' = IF Len(events) < QueueCap THEN Append(events, e) ELSE events

PushEvent(e) ==
    LET q == Append(events, e)
    IN  events' = IF Len(q) > QueueCap THEN Tail(q) ELSE q

-----------------------------------------------------------------------------
(* The interpreter thread. *)

Construct ==
    /\ App("start", "spin")
    /\ thread' = "create"
    /\ UNCHANGED <<hwnd, running, msgVars, appVars, screen, eventVars, lostClose>>

Spinning == running /\ ~hwnd

Constructed ==
    /\ App("spin", "idle")
    /\ ~Spinning
    /\ UNCHANGED <<thread, hwnd, running, msgVars, appVars, screen, eventVars, lostClose>>

PollEvent ==
    /\ app = "idle" /\ events # <<>>
    /\ events' = Tail(events)
    /\ polled' = polled + (IF Head(events) = "close" THEN 1 ELSE 0)
    /\ UNCHANGED <<app, thread, hwnd, running, msgVars, appVars, screen, inputs, closes, lostClose>>

\* show() tests running and hwnd once, before it waits for the mutex
Show(f) ==
    /\ App("idle", "lock")
    /\ running /\ hwnd /\ shows < MaxShows
    /\ frame' = f /\ shows' = shows + 1
    /\ UNCHANGED <<thread, hwnd, running, msgVars, buffer, lock, screen, eventVars, lostClose>>

CopyUpper ==
    /\ App("lock", "copy")
    /\ lock = "free" /\ lock' = "app"
    /\ buffer' = [buffer EXCEPT ![1] = frame]
    /\ UNCHANGED <<thread, hwnd, running, msgVars, frame, shows, screen, eventVars, lostClose>>

CopyLower ==
    /\ App("copy", "post")
    /\ buffer' = [buffer EXCEPT ![2] = frame]
    /\ lock' = "free"
    /\ UNCHANGED <<thread, hwnd, running, msgVars, frame, shows, screen, eventVars, lostClose>>

\* Mutant of PostRedraw: a frame limiter that skips every second request.
PostRedrawLimited ==
    /\ App("post", "idle")
    /\ IF shows % 2 = 1 THEN PostMessage("app") ELSE UNCHANGED posted
    /\ UNCHANGED <<thread, hwnd, running, window, quit, dirty, appVars, screen, eventVars, lostClose>>

PostRedraw ==
    /\ App("post", "idle")
    /\ PostMessage("app")
    /\ UNCHANGED <<thread, hwnd, running, window, quit, dirty, appVars, screen, eventVars, lostClose>>

Destroy ==
    /\ App("idle", "join")
    /\ IF running /\ hwnd
       THEN /\ PostMessage("close")
            /\ lostClose' = (window = "open" /\ ~Delivers)
       ELSE UNCHANGED <<posted, lostClose>>
    /\ UNCHANGED <<thread, hwnd, running, window, quit, dirty, appVars, screen, eventVars>>

Joinable == thread # "none"

Joined ==
    /\ App("join", "gone")
    /\ Joinable => thread = "done"
    /\ UNCHANGED <<thread, hwnd, running, msgVars, appVars, screen, eventVars, lostClose>>

-----------------------------------------------------------------------------
(* The window thread. *)

\* WS_VISIBLE: the new window is painted as soon as messages are read
CreateWindow ==
    /\ Win("create", "assign")
    /\ window' = "open" /\ dirty' = TRUE
    /\ UNCHANGED <<app, hwnd, running, posted, quit, appVars, screen, eventVars, lostClose>>

\* Mutant of CreateFails: the constructor is not told.
CreateFailsSilently ==
    /\ Win("create", "done")
    /\ UNCHANGED <<app, hwnd, running, msgVars, appVars, screen, eventVars, lostClose>>

CreateFails ==
    /\ Win("create", "done")
    /\ running' = FALSE
    /\ UNCHANGED <<app, hwnd, msgVars, appVars, screen, eventVars, lostClose>>

AssignHwnd ==
    /\ Win("assign", "loop")
    /\ hwnd' = TRUE
    /\ UNCHANGED <<app, running, msgVars, appVars, screen, eventVars, lostClose>>

\* GetMessage: posted messages, then WM_QUIT, then input, then WM_PAINT
DispatchPosted ==
    /\ posted # <<>>
    /\ posted' = Tail(posted)
    /\ \/ /\ Head(posted) = "app"
          /\ dirty' = TRUE
          /\ Win("loop", "loop")
          /\ UNCHANGED <<events, closes>>
       \/ /\ Head(posted) = "close"
          /\ PushEvent("close") /\ closes' = closes + 1
          /\ Win("loop", "closing")
          /\ UNCHANGED dirty
    /\ UNCHANGED <<app, hwnd, running, window, quit, appVars, screen, inputs, polled, lostClose>>

Input ==
    /\ Win("loop", "loop")
    /\ window = "open" /\ posted = <<>> /\ inputs < MaxInputs
    /\ inputs' = inputs + 1
    /\ PushEvent("input")
    /\ UNCHANGED <<app, hwnd, running, msgVars, appVars, screen, closes, polled, lostClose>>

\* the user closes the window: DefWindowProc sends WM_CLOSE
UserCloses ==
    /\ Win("loop", "closing")
    /\ window = "open" /\ posted = <<>>
    /\ PushEvent("close") /\ closes' = closes + 1
    /\ UNCHANGED <<app, hwnd, running, msgVars, appVars, screen, inputs, polled, lostClose>>

\* DestroyWindow discards what is posted and sends WM_DESTROY
DestroyWindow ==
    /\ Win("closing", "loop")
    /\ window' = "destroyed" /\ quit' = TRUE
    /\ posted' = <<>> /\ dirty' = FALSE
    /\ UNCHANGED <<app, hwnd, running, appVars, screen, eventVars, lostClose>>

\* BeginPaint validates the window before the mutex is taken
BeginPaint ==
    /\ Win("loop", "paint")
    /\ dirty /\ posted = <<>> /\ ~quit
    /\ dirty' = FALSE
    /\ UNCHANGED <<app, hwnd, running, window, posted, quit, appVars, screen, eventVars, lostClose>>

\* Mutant of DrawUpper: WM_PAINT reads the buffer without the mutex.
DrawUpperUnlocked ==
    /\ Win("paint", "draw")
    /\ screen' = [screen EXCEPT ![1] = buffer[1]]
    /\ UNCHANGED <<app, hwnd, running, msgVars, appVars, eventVars, lostClose>>

DrawUpper ==
    /\ Win("paint", "draw")
    /\ lock = "free" /\ lock' = "window"
    /\ screen' = [screen EXCEPT ![1] = buffer[1]]
    /\ UNCHANGED <<app, hwnd, running, msgVars, buffer, frame, shows, eventVars, lostClose>>

DrawLower ==
    /\ Win("draw", "loop")
    /\ screen' = [screen EXCEPT ![2] = buffer[2]]
    /\ lock' = "free"
    /\ UNCHANGED <<app, hwnd, running, msgVars, buffer, frame, shows, eventVars, lostClose>>

LoopEnds ==
    /\ Win("loop", "done")
    /\ quit /\ posted = <<>>
    /\ running' = FALSE
    /\ UNCHANGED <<app, hwnd, msgVars, appVars, screen, eventVars, lostClose>>

-----------------------------------------------------------------------------
\* what the interpreter does by itself once the script has called it
MainStep == Constructed \/ CopyUpper \/ CopyLower \/ PostRedraw \/ Joined
Script == Construct \/ PollEvent \/ Destroy \/ \E f \in Frames : Show(f)
Creation == CreateWindow \/ CreateFails
ThreadStep ==
    \/ Creation \/ AssignHwnd \/ DispatchPosted \/ DestroyWindow
    \/ BeginPaint \/ DrawUpper \/ DrawLower \/ LoopEnds
User == Input \/ UserCloses

WindowNext == MainStep \/ Script \/ ThreadStep \/ User

(* Both threads are scheduled; neither the script nor the user has to act.  *)
WindowFairness == WF_windowVars(MainStep) /\ WF_windowVars(ThreadStep)

WindowSpec == WindowInit /\ [][WindowNext]_windowVars /\ WindowFairness

-----------------------------------------------------------------------------
(* A script learns of the end of its window: once the window is destroyed,  *)
(* exactly one "close" has been queued, it is the last event the script     *)
(* will ever get, and the cap of the queue has not dropped it, whether the  *)
(* user, the destructor or both asked for it.                               *)
CloseDelivered ==
    window = "destroyed" =>
        /\ closes = 1
        /\ IF polled = 1 THEN events = <<>> ELSE events # <<>> /\ Last(events) = "close"

(* What is drawn is one image, never the upper half of one and the lower    *)
(* half of another, although show() copies while the window thread paints.  *)
NoTornFrame == thread # "draw" => screen[1] = screen[2]

(* The constructor's busy wait ends although the window may not be created, *)
(* and so does the destructor's join, unless the system had no room for its *)
(* WM_CLOSE: the interpreter never hangs on the window thread.              *)
InterpreterNeverHangs ==
    app \in {"spin", "join"} ~> app \in {"idle", "gone"} \/ lostClose

(* The last image given to show() reaches the screen unless the window is   *)
(* closed, even if the request to redraw found the message queue full.      *)
FrameShown ==
    \A f \in Frames :
        (app = "idle" /\ buffer = Whole(f)) ~>
            (screen = Whole(f) \/ buffer # Whole(f) \/ window = "destroyed")
=============================================================================
