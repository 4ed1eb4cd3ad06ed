---------------------------- MODULE Workspace -----------------------------
(* The REPL session and its .jcw snapshots: evalCode (main.cpp) appends the  *)
(* functions it compiles to VM::compiledFunctions, saveJCW writes all of     *)
(* them and the object graph of the globals, loadJCW reads them back, in     *)
(* place of the session (/ws load) or on top of it (/ws merge).  The file    *)
(* itself is AtomicFile, with the REPL as its one writer.                    *)
(*                                                                           *)
(* Objects are addresses 1..MaxObjs, 0 is the value none; a closure names    *)
(* its function by its index in compiledFunctions.  "code" fields are ghosts *)
(* that say which source a function, a closure or machine code came from.    *)
EXTENDS AtomicFile, Integers, Sequences, SequencesExt, FiniteSets

CONSTANTS Repl,        \* the process
          NGlobals,    \* global slots
          BuiltinSlots, \* those with the name of a builtin, which may be redefined
          MaxObjs,     \* objects alive at a time
          MaxFns,      \* length of compiledFunctions
          MaxCommands, \* commands in a behaviour
          MaxKids,     \* elements of a container
          GcMayRun     \* whether a load allocates up to the collector's threshold

ASSUME WorkspaceAssumption ==
    /\ Repl \in Writers
    /\ {NGlobals, MaxObjs, MaxFns, MaxCommands, MaxKids} \subseteq Nat
    /\ BuiltinSlots \subseteq 1..NGlobals
    /\ None \notin 0..MaxObjs
    /\ GcMayRun \in BOOLEAN

VARIABLES fns,        \* VM::compiledFunctions
          globals,    \* VM::globals: a value, or None where nothing is defined
          heap,       \* the objects
          jit,        \* jitEntryPoints: the code compiled for each index, or 0
          commands,   \* commands so far
          disturbed   \* history: a merge or a load left indices that do not agree

sessionVars == <<fns, globals, heap, jit, commands, disturbed>>
workspaceVars == <<fileVars, sessionVars>>

Slots == 1..NGlobals
Addresses == 1..MaxObjs
NoCode == 0

Obj(kind, idx, code, kids) == [kind |-> kind, idx |-> idx, code |-> code, kids |-> kids]
Free == Obj("free", 0, NoCode, <<>>)

\* A compiled function; nested is the index of the closure it makes, or 0.
Fn(code, nested) == [code |-> code, nested |-> nested]

-----------------------------------------------------------------------------
(* The heap.                                                                 *)
Reach(h, S) ==
    LET within[k \in 0..MaxObjs] ==   \* in k steps; a path meets no object twice
          IF k = 0 THEN S
          ELSE within[k - 1] \cup {p \in Addresses :
                                     \E o \in within[k - 1] : p \in ToSet(h[o].kids)}
    IN  within[MaxObjs]

Refs(g) == {g[n] : n \in Slots} \cap Addresses

\* collectGarbage with the globals as its roots.
Sweep(h, g) == [o \in Addresses |-> IF o \in Reach(h, Refs(g)) THEN h[o] ELSE Free]

FreeIn(h) == {o \in Addresses : h[o].kind = "free"}
Lowest(S) == CHOOSE o \in S : \A p \in S : o <= p

-----------------------------------------------------------------------------
(* saveJCW's writeRuntimeValue.  vs: the values of the globals.  st: how many *)
(* of them were written, the objects met so far (the position of an object   *)
(* is its id, given before its tag is chosen), the containers that are being *)
(* written, innermost first, with the number of elements left, the tokens.   *)
Token(o) ==
    CASE o.kind = "native"  -> [tag |-> 8]
      [] o.kind = "builtin" -> [tag |-> 9]
      [] o.kind = "module"  -> [tag |-> 10]
      [] OTHER -> [tag |-> 7, kind |-> o.kind, idx |-> o.idx, code |-> o.code, n |-> Len(o.kids)]

\* The stack of the containers: one is begun, one element less is to be done.
Opened(at, n, open) == <<[at |-> at, left |-> n]>> \o open
Less(open) == <<[Head(open) EXCEPT !.left = @ - 1]>> \o Tail(open)

\* A value is complete: it was the next element of the innermost container that
\* is being written, or else the next global.
Written(st) ==
    IF st.open = <<>>
    THEN [st EXCEPT !.named = @ + 1]
    ELSE [st EXCEPT !.open = Less(@)]

WriteValue(h, v, st) ==
    LET Put(t) == [st EXCEPT !.out = Append(@, t)]
        Met(t) == [Put(t) EXCEPT !.ids = Append(@, v)]
        t == Token(h[v])
    IN  IF v \notin Addresses THEN Written(Put([tag |-> 0]))
        ELSE IF v \in ToSet(st.ids)
        THEN Written(Put([tag |-> 6, id |-> CHOOSE i \in DOMAIN st.ids : st.ids[i] = v]))
        ELSE IF t.tag = 7
        THEN [Met(t) EXCEPT !.open = Opened(v, t.n, @)]
        ELSE Written(Met(t))

NextElement(h, top) == h[top.at].kids[Len(h[top.at].kids) + 1 - top.left]

WriteNext(h, vs, st) ==
    IF st.open # <<>>
    THEN IF Head(st.open).left = 0 THEN Written([st EXCEPT !.open = Tail(@)])
         ELSE WriteValue(h, NextElement(h, Head(st.open)), st)
    ELSE IF st.named < Len(vs) THEN WriteValue(h, vs[st.named + 1], st) ELSE st

\* Each global and each element is written once, and each container completed
\* once; a closure has the value it captured, even if MaxKids = 0.
MaxSteps == NGlobals + MaxObjs * (MaxKids + 2)

WriteAll(h, vs) ==
    LET after[k \in 0..MaxSteps] ==
          IF k = 0 THEN [named |-> 0, ids |-> <<>>, open |-> <<>>, out |-> <<>>]
          ELSE WriteNext(h, vs, after[k - 1])
    IN  after[MaxSteps].out

\* The globals that are written: not those with the name of a builtin, of PI, E, i,
\* I or ANS, or in angle brackets, whatever they were redefined to.
IsSaved(g, n) == g[n] # None /\ n \notin BuiltinSlots

Names(g) ==
    LET upTo[n \in 0..NGlobals] ==
          IF n = 0 THEN <<>>
          ELSE IF IsSaved(g, n) THEN Append(upTo[n - 1], n) ELSE upTo[n - 1]
    IN  upTo[NGlobals]

NamedValues(g) == [i \in DOMAIN Names(g) |-> g[Names(g)[i]]]

\* saveJCW: every function, and the globals by name; t is a ghost, the history
\* of the session that wrote it.
Snapshot(f, h, g, t) ==
    [fns |-> f, names |-> Names(g), tainted |-> t, out |-> WriteAll(h, NamedValues(g))]

-----------------------------------------------------------------------------
(* loadJCW.  st: the tokens and the globals read so far, the heap, the       *)
(* globals, idToObj (0 for an object that was skipped), the containers that  *)
(* are being read, innermost first, with the number of elements left, the    *)
(* value read last, and the number of allocations until the collector runs   *)
(* (0: it does not).                                                         *)

\* Mutant of ReadFunction: the index of the nested function is not shifted.
ReadFunctionUnshifted(f, baseIdx) == f

\* readFunction / readChunk: the function indices in the bytecode are shifted.
ReadFunction(f, baseIdx) == Fn(f.code, IF f.nested = 0 THEN 0 ELSE f.nested + baseIdx)

\* GcHeap::allocate: a collection first, if the threshold is reached.  The
\* objects of the load are only in idToObj and in C++ locals.
Allocate(st, obj) ==
    LET h == IF st.gc = 1 THEN Sweep(st.heap, st.glob) ELSE st.heap
        o == Lowest(FreeIn(h))
    IN  [st EXCEPT !.heap = [h EXCEPT ![o] = obj],
                   !.gc = IF @ = 0 THEN 0 ELSE @ - 1, !.val = o]

Remember(st, o) == [st EXCEPT !.ids = Append(@, o), !.val = o]

\* Mutant of Skipped: an object that was not saved gets no id.
SkippedUncounted(st) == [st EXCEPT !.val = 0]

\* Tags 8 and 10: a native instance or a module was not saved; none stands for it.
Skipped(st) == Remember(st, 0)

\* getBuiltinClosure: one closure for a builtin.
Builtin(st) ==
    LET B == {o \in Addresses : st.heap[o].kind = "builtin"}
    IN  IF B # {} THEN [st EXCEPT !.val = Lowest(B)]
        ELSE Allocate(st, Obj("builtin", 0, NoCode, <<>>))

WithKid(o, v) == Obj(o.kind, o.idx, o.code, Append(o.kids, v))

\* st.val is complete: it is the next element of the innermost container that
\* is being read, or else the next global.
Deliver(snap, st) ==
    IF st.open = <<>>
    THEN [st EXCEPT !.named = @ + 1, !.glob[snap.names[st.named + 1]] = st.val]
    ELSE [st EXCEPT !.heap[Head(st.open).at] = WithKid(@, st.val), !.open = Less(@)]

\* A container of n elements: it has its id before they are read.  (So do all the
\* kinds that may contain themselves but types, which are left out: see README.md.)
Container(st, n) == [Remember(st, st.val) EXCEPT !.open = Opened(st.val, n, @)]

\* readRuntimeValue, up to the elements of a container.
ReadValue(snap, st) ==
    LET t == snap.out[st.read + 1]
        st1 == [st EXCEPT !.read = @ + 1]
    IN  CASE t.tag = 6        -> Deliver(snap, [st1 EXCEPT !.val = st.ids[t.id]])
          [] t.tag \in {8,10} -> Deliver(snap, Skipped(st1))
          [] t.tag = 9        -> LET st2 == Builtin(st1) IN Deliver(snap, Remember(st2, st2.val))
          [] t.tag = 7        -> Container(Allocate(st1, Obj(t.kind, t.idx, t.code, <<>>)), t.n)
          [] OTHER            -> Deliver(snap, [st1 EXCEPT !.val = 0])

\* A container that has all of its elements is a value; else a value is read.
ReadNext(snap, st) ==
    IF st.open # <<>> /\ Head(st.open).left = 0
    THEN Deliver(snap, [st EXCEPT !.val = Head(st.open).at, !.open = Tail(@)])
    ELSE IF st.read < Len(snap.out) THEN ReadValue(snap, st) ELSE st

\* The globals of a snapshot, read into heap h and globals g, in the steps in
\* which they were written.
ReadSession(snap, h, g, gc) ==
    LET after[k \in 0..MaxSteps] ==
          IF k = 0 THEN [read |-> 0, named |-> 0, heap |-> h, glob |-> g, ids |-> <<>>,
                         open |-> <<>>, val |-> 0, gc |-> gc]
          ELSE ReadNext(snap, after[k - 1])
    IN  after[MaxSteps]

\* The objects a snapshot brings with it.
Weight(snap) == Cardinality({i \in 1..Len(snap.out) : snap.out[i].tag \in {7, 9}})

-----------------------------------------------------------------------------
WorkspaceInit ==
    /\ FileInit
    /\ fns = <<>>
    /\ globals = [n \in Slots |-> None]
    /\ heap = [o \in Addresses |-> Free]
    /\ jit = [i \in 1..MaxFns |-> NoCode]
    /\ commands = 0
    /\ disturbed = FALSE

\* The main thread is at the prompt.
AtPrompt == pc[Repl] = "idle"

\* A line is read there and carried out.
Command == /\ AtPrompt /\ commands < MaxCommands
           /\ commands' = commands + 1

\* A global is set: what is no longer reachable is garbage.
Bind(n, v, h) ==
    /\ globals' = [globals EXCEPT ![n] = v]
    /\ heap' = Sweep(h, globals')

BindNew(n, obj) ==
    /\ FreeIn(heap) # {}
    /\ LET o == Lowest(FreeIn(heap)) IN Bind(n, o, [heap EXCEPT ![o] = obj])

\* evalCode of "f = fn ...": the function, after one nested in it if there is
\* one, is appended; a closure of it captures the value of a global, or none.
Define(n) ==
    /\ Command
    /\ \E nested \in BOOLEAN, kids \in {<<>>} \cup {<<globals[m]>> : m \in {m \in Slots : globals[m] # None}} :
         LET code == commands + 1
             last == Len(fns)
         IN  /\ last + 2 <= MaxFns
             /\ fns' = fns \o IF nested
                              THEN <<Fn(-code, 0), Fn(code, last + 1)>>
                              ELSE <<Fn(code, 0)>>
             /\ BindNew(n, Obj("fn", Len(fns'), code, kids))
    /\ UNCHANGED <<fileVars, jit, disturbed>>

\* Containers, native instances, builtins, and modules that import binds.
MakeObject(n) ==
    /\ Command
    /\ \E k \in {"list", "native", "builtin", "module"} :
         IF k \in {"builtin", "module"} /\ \E o \in Addresses : heap[o].kind = k
         THEN \E o \in Addresses : heap[o].kind = k /\ Bind(n, o, heap)
         ELSE BindNew(n, Obj(k, 0, NoCode, <<>>))
    /\ UNCHANGED <<fileVars, fns, jit, disturbed>>

\* n.push(m): the graph may be shared and cyclic.
Push(n, m) ==
    /\ Command
    /\ globals[n] \notin {0, None} /\ globals[m] # None
    /\ heap[globals[n]].kind = "list"
    /\ Len(heap[globals[n]].kids) < MaxKids
    /\ heap' = [heap EXCEPT ![globals[n]].kids = Append(@, globals[m])]
    /\ UNCHANGED <<fileVars, fns, globals, jit, disturbed>>

\* n = m, and del n.
Assign(n, m) ==
    /\ Command
    /\ globals[n] # globals[m]
    /\ Bind(n, globals[m], heap)
    /\ UNCHANGED <<fileVars, fns, jit, disturbed>>

\* profileFrameStart compiles a function that was called often enough, unless
\* there is an entry for its index.
Compile(n) ==
    /\ Command
    /\ globals[n] \notin {0, None} /\ heap[globals[n]].kind = "fn"
    /\ LET i == heap[globals[n]].idx
       IN  /\ i \in DOMAIN fns /\ jit[i] = NoCode
           /\ jit' = [jit EXCEPT ![i] = fns[i].code]
    /\ UNCHANGED <<fileVars, fns, globals, heap, disturbed>>

\* invalidateJIT, when a container is replaced by an indexed assignment.
InvalidateJIT ==
    /\ Command /\ \E i \in DOMAIN jit : jit[i] # NoCode
    /\ jit' = [i \in 1..MaxFns |-> NoCode]
    /\ UNCHANGED <<fileVars, fns, globals, heap, disturbed>>

\* /clear: clearGlobals; compiledFunctions and the machine code stay.
Clear ==
    /\ Command
    /\ globals' = [n \in Slots |-> None]
    /\ heap' = Sweep(heap, globals')
    /\ UNCHANGED <<fileVars, fns, jit, disturbed>>

\* /ws save: saveJCW hands the snapshot to writeBytesAtomically.
Save ==
    /\ Command
    /\ Open(Repl, Snapshot(fns, heap, globals, disturbed))
    /\ UNCHANGED <<fns, globals, heap, jit, disturbed>>

\* The steps of writeBytesAtomically; if it throws the session goes on.
Write ==
    /\ \/ WriteFirst(Repl) \/ WriteRest(Repl) \/ WriteFails(Repl)
       \/ Replace(Repl) \/ ReplaceFails(Repl)
    /\ UNCHANGED sessionVars

\* The file is there and loadJCW's checks of it succeed; else nothing changes.
Readable == Content \notin {None, Torn}

GcChoices(snap) == IF GcMayRun THEN 0..Weight(snap) ELSE {0}

\* /ws load: compiledFunctions and the globals are replaced; the tables of
\* machine code are not touched.
Load ==
    /\ Command /\ Readable
    /\ \E gc \in GcChoices(Content) :
         LET snap == Content
             st == ReadSession(snap, [o \in Addresses |-> Free], [n \in Slots |-> None], gc)
         IN  /\ fns' = [i \in DOMAIN snap.fns |-> ReadFunction(snap.fns[i], 0)]
             /\ globals' = st.glob
             /\ heap' = st.heap
    /\ disturbed' = (Content.tainted \/ \E i \in DOMAIN jit : jit[i] # NoCode)
    /\ UNCHANGED <<fileVars, jit>>

\* /ws merge: the functions are appended and their indices shifted; the
\* closures among the values keep the index they were saved with.
Merge ==
    /\ Command /\ Readable
    /\ Len(fns) + Len(Content.fns) <= MaxFns
    /\ Weight(Content) <= Cardinality(FreeIn(heap))
    /\ \E gc \in GcChoices(Content) :
         LET snap == Content
             st == ReadSession(snap, heap, globals, gc)
         IN  /\ fns' = fns \o [i \in DOMAIN snap.fns |-> ReadFunction(snap.fns[i], Len(fns))]
             /\ globals' = st.glob
             /\ heap' = Sweep(st.heap, st.glob)
    /\ disturbed' = (\/ disturbed \/ Content.tainted
                     \/ fns # <<>> /\ Content.fns # <<>>)
    /\ UNCHANGED <<fileVars, jit>>

\* /ws delete.
DeleteWorkspace == Command /\ Delete /\ UNCHANGED <<fns, globals, heap, jit, disturbed>>

\* The process ends, at the prompt or in the middle of a save, and a new one
\* starts; only the files are left.
Restart ==
    /\ IF AtPrompt THEN UNCHANGED fileVars ELSE Crash(Repl)
    /\ fns' = <<>>
    /\ globals' = [n \in Slots |-> None]
    /\ heap' = [o \in Addresses |-> Free]
    /\ jit' = [i \in 1..MaxFns |-> NoCode]
    /\ disturbed' = FALSE
    /\ commands < MaxCommands /\ commands' = commands + 1

WorkspaceNext ==
    \/ \E n \in Slots : Define(n) \/ MakeObject(n) \/ Compile(n)
    \/ \E n, m \in Slots : Push(n, m) \/ Assign(n, m)
    \/ InvalidateJIT \/ Clear
    \/ Save \/ Write \/ Load \/ Merge \/ DeleteWorkspace \/ Restart

WorkspaceSpec == WorkspaceInit /\ [][WorkspaceNext]_workspaceVars

-----------------------------------------------------------------------------
Functions == [code : -MaxCommands..MaxCommands, nested : 0..MaxFns]

Reachable == Reach(heap, Refs(globals))

\* The function at index i, interpreted or as machine code, is the source code.
Runs(i, code) == i \in DOMAIN fns /\ fns[i].code = code /\ jit[i] \in {NoCode, code}

\* A call of a closure the user can reach runs the function it was made from,
\* in the interpreter and as machine code, however often the session was
\* saved, loaded, cleared and restarted: until a load finds machine code in
\* place or a merge appends to functions that are there.  The functions a
\* function makes closures of are its own even then.
CallsRunOwnCode ==
    /\ ~disturbed =>
         \A o \in Reachable : heap[o].kind = "fn" => Runs(heap[o].idx, heap[o].code)
    /\ \A i \in DOMAIN fns : fns[i].nested # 0 =>
         fns[i].nested \in DOMAIN fns /\ fns[fns[i].nested].code = -fns[i].code

\* What a snapshot cannot hold is replaced by none.
Lost(v) == v \notin {0, None} /\ heap[v].kind \in {"native", "module"}
Kept(v) == IF Lost(v) THEN 0 ELSE v
KeptHeap == [o \in Addresses |-> [heap[o] EXCEPT !.kids = [i \in DOMAIN @ |-> Kept(@[i])]]]
KeptGlobals == [n \in Slots |-> IF n \in BuiltinSlots THEN None ELSE Kept(globals[n])]

\* A save and a load restore the object graph of the globals: which objects
\* are shared and which contain themselves, and the fields of each, without
\* the objects that cannot be saved (saveJCW, loadJCW).  A redefined builtin
\* is the builtin again.
RoundTrip ==
    AtPrompt =>
    LET snap == Snapshot(fns, heap, globals, FALSE)
    IN  \A gc \in GcChoices(snap) :
          LET st == ReadSession(snap, [o \in Addresses |-> Free], [n \in Slots |-> None], gc)
          IN  /\ Snapshot(fns, st.heap, st.glob, FALSE)
                   = Snapshot(fns, KeptHeap, KeptGlobals, FALSE)
              /\ \A n \in Slots : st.glob[n] = None <=> KeptGlobals[n] = None
=============================================================================
