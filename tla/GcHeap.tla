------------------------------- MODULE GcHeap -------------------------------
(***************************************************************************)
(* The hybrid memory manager of JC2 (src/memory/GcHeap.h, Value.h and the   *)
(* callbacks the VM installs in VM.cpp).  Every Value counts references;    *)
(* plain data is freed when its count drops to zero; containers, strings    *)
(* and type objects are left to a mark-sweep collector, which also runs     *)
(* finalizers and maintains the string intern table.                        *)
(*                                                                         *)
(* The mutator (interpreter and builtins) is any program that only uses     *)
(* objects it can reach.  A collection is one atomic step, except for the   *)
(* finalizers, which run mutator code while the collector is locked.        *)
(***************************************************************************)
EXTENDS Naturals, FiniteSets

CONSTANTS
    Obj,          \* addresses
    Kinds,        \* the kinds of objects the mutator allocates
    Str,          \* string contents
    NoObj,        \* nullptr
    Unguarded,    \* kinds that builtins hold in C++ locals without a guard
    UseTraits     \* whether classes compose traits

\* "list":  LIST, DICT, SET, CLOSURE, NAMESPACE, UPVALUE: containers of Values
\* "class": CLASS, whose instances have a finalize method
\* "inst":  INSTANCE
\* "str":   STRING
\* "num":   BIGINT, FRACTION, matrices, ...: no references, freed at count 0
AllKinds == {"list", "class", "inst", "str", "num"}

\* The kinds sweep() never keeps alive by their reference count.
Container == {"list", "class", "inst"}

ASSUME HeapAssumption ==
    /\ IsFiniteSet(Obj)
    /\ NoObj \notin Obj
    /\ Kinds \subseteq AllKinds
    /\ Unguarded \subseteq AllKinds
    /\ UseTraits \in BOOLEAN

VARIABLES
    kind,        \* what is allocated at each address, or "free"
    vals,        \* the objects each object holds in Value fields
    cls,         \* ObjInstance::classDef, ObjClass::parent, ObjClosure::owner_class
    traits,      \* ObjClass::traits, plain pointers
    content,     \* ObjString::str
    refCount,    \* Obj::refCount
    roots,       \* what markCallback and the temporary roots visit
    locals,      \* Values in C++ locals that the collector does not see
    table,       \* g_internedStrings
    finalized,   \* the instances with is_finalized set
    queue,       \* finalizerQueue, while finalizers run
    running,     \* the instance whose finalizer is running, or NoObj
    runs         \* history: how often the finalizer of an object was called

objVars == <<kind, vals, cls, traits, content>>
gcVars == <<table, finalized, queue, running, runs>>
heapVars == <<kind, vals, cls, traits, content, refCount, roots, locals,
          table, finalized, queue, running, runs>>

Live == {o \in Obj : kind[o] # "free"}

\* gc_locked_: a collection, with the finalizers it runs, is in progress.
Locked == queue # {} \/ running # NoObj

----------------------------------------------------------------------------
(* Reachability: markObj follows Value fields, classDef, parent and          *)
(* owner_class; it does not follow ObjClass::traits.                        *)
Edges(o) == vals[o] \cup (IF cls[o] = NoObj THEN {} ELSE {cls[o]})

Closed(S) == \A o \in S : Edges(o) \subseteq S

\* The smallest closed set that contains S.
Marked(S) == {o \in Obj : \A T \in SUBSET Obj : S \subseteq T /\ Closed(T) => o \in T}

\* What the mutator can get hold of.
Accessible == Marked(roots \cup locals)

\* refCount after holders lose (drop) one reference to each object in D.
DropRefs(D) == [o \in Obj |-> IF o \in D THEN refCount[o] - 1 ELSE refCount[o]]

\* ~Value of the last reference to o calls freeObj: plain data is deleted,
\* everything else waits for a collection.
ReleaseOne(o) ==
    /\ refCount' = DropRefs({o})
    /\ kind' = IF refCount[o] = 1 /\ kind[o] = "num"
               THEN [kind EXCEPT ![o] = "free"] ELSE kind

TakeOne(o) == refCount' = [refCount EXCEPT ![o] = @ + 1]

----------------------------------------------------------------------------
HeapInit ==
    /\ kind = [o \in Obj |-> "free"]
    /\ vals = [o \in Obj |-> {}]
    /\ cls = [o \in Obj |-> NoObj]
    /\ traits = [o \in Obj |-> {}]
    /\ content = [o \in Obj |-> NoObj]
    /\ refCount = [o \in Obj |-> 0]
    /\ roots = {}
    /\ locals = {}
    /\ table = [s \in Str |-> NoObj]
    /\ finalized = {}
    /\ queue = {}
    /\ running = NoObj
    /\ runs = [o \in Obj |-> 0]

\* The Value that receives object o: a root, or a C++ local.
Receive(o, k) ==
    \/ roots' = roots \cup {o} /\ UNCHANGED locals
    \/ k \in Unguarded /\ locals' = locals \cup {o} /\ UNCHANGED roots

\* GcHeap::allocate at a free address; the result is stored in one Value.
New(o, k, c, s) ==
    /\ kind[o] = "free"
    /\ kind' = [kind EXCEPT ![o] = k]
    /\ vals' = [vals EXCEPT ![o] = {}]
    /\ cls' = [cls EXCEPT ![o] = c]
    /\ traits' = [traits EXCEPT ![o] = {}]
    /\ content' = [content EXCEPT ![o] = s]
    /\ refCount' = [refCount EXCEPT ![o] = 1]
    /\ finalized' = finalized \ {o}
    /\ runs' = [runs EXCEPT ![o] = 0]
    /\ Receive(o, k)

Allocate ==
    /\ \E o \in Obj, k \in Kinds \ {"inst", "str"} : New(o, k, NoObj, NoObj)
    /\ UNCHANGED <<table, queue, running>>

\* An instance of class c, or a class that extends it.
NewOfClass ==
    /\ \E o \in Obj, c \in Accessible, k \in Kinds \cap {"inst", "class"} :
         kind[c] = "class" /\ New(o, k, c, NoObj)
    /\ UNCHANGED <<table, queue, running>>

\* internString: the object in the table, or a new one that goes there.
InternString ==
    /\ "str" \in Kinds
    /\ \E s \in Str :
         \/ /\ table[s] = NoObj
            /\ \E o \in Obj :
                 New(o, "str", NoObj, s) /\ table' = [table EXCEPT ![s] = o]
         \/ /\ table[s] # NoObj
            /\ table[s] \notin roots \cup locals
            /\ TakeOne(table[s])
            /\ Receive(table[s], "str")
            /\ UNCHANGED <<objVars, table, finalized, runs>>
    /\ UNCHANGED <<queue, running>>

\* A Value in a register, a global or a guarded local is copied or dropped.
AddRoot ==
    /\ \E o \in Accessible \ roots : roots' = roots \cup {o} /\ TakeOne(o)
    /\ UNCHANGED <<objVars, locals, gcVars>>

DropRoot ==
    /\ \E o \in roots \ {running} : roots' = roots \ {o} /\ ReleaseOne(o)
    /\ UNCHANGED <<vals, cls, traits, content, locals, gcVars>>

DropLocal ==
    /\ \E o \in locals : locals' = locals \ {o} /\ ReleaseOne(o)
    /\ UNCHANGED <<vals, cls, traits, content, roots, gcVars>>

\* A Value is stored in, or removed from, a container, class or instance.
Store ==
    /\ \E o, p \in Accessible :
         /\ kind[o] \in Container
         /\ p \notin vals[o]
         /\ vals' = [vals EXCEPT ![o] = @ \cup {p}]
         /\ TakeOne(p)
    /\ UNCHANGED <<kind, cls, traits, content, roots, locals, gcVars>>

Remove ==
    /\ \E o \in Accessible, p \in Obj :
         /\ p \in vals[o]
         /\ vals' = [vals EXCEPT ![o] = @ \ {p}]
         /\ ReleaseOne(p)
    /\ UNCHANGED <<cls, traits, content, roots, locals, gcVars>>

(* applyTrait: the class records the trait and the traits that one composes, *)
(* takes over some of its members (S), and the copied methods that have no   *)
(* owner yet (F) get the trait as their lexical owner.                       *)
ApplyTrait ==
    /\ UseTraits
    /\ \E c, t \in Accessible :
         /\ kind[c] = "class" /\ kind[t] = "class"
         /\ c # t
         /\ traits' = [traits EXCEPT ![c] = @ \cup traits[t] \cup {t}]
         /\ \E S \in SUBSET (vals[t] \ vals[c]) :
              /\ vals' = [vals EXCEPT ![c] = @ \cup S]
              /\ refCount' = [o \in Obj |-> IF o \in S THEN refCount[o] + 1 ELSE refCount[o]]
              /\ \E F \in SUBSET {m \in S : kind[m] = "list" /\ cls[m] = NoObj} :
                   cls' = [o \in Obj |-> IF o \in F THEN t ELSE cls[o]]
    /\ UNCHANGED <<kind, content, roots, locals, gcVars>>

----------------------------------------------------------------------------
(* collectGarbage.                                                          *)

\* Mutant of ToFinalize: what other garbage refers to is left for later.
ToFinalizeUnheld(m) ==
    {o \in Live \ m : kind[o] = "inst" /\ o \notin finalized /\ \A p \in Live \ m : o \notin vals[p]}

\* Unmarked instances whose finalizer has not been scheduled before.
ToFinalize(m) == {o \in Live \ m : kind[o] = "inst" /\ o \notin finalized}

\* Mutant of Garbage: a pure mark-sweep, without the reference count rule.
GarbageUnmarked(m) == Live \ m

\* The objects sweep() deletes when m is marked.
Garbage(m) ==
    {o \in Live \ m : kind[o] \in Container \/ refCount[o] = 0}

\* Mutant of FromGarbage: garbage is deleted without clearTotal.
NotFromGarbage(G, o) == 0

\* How many Values in garbage containers refer to o (clearTotal drops them).
FromGarbage(G, o) == Cardinality({g \in G : o \in vals[g]})

\* The intern table after sweepCallback drops the unmarked strings and the
\* destructors of the garbage strings erase their contents' entries.
SweptTable(m, G) ==
    [s \in Str |-> IF \/ table[s] = NoObj
                      \/ table[s] \notin m
                      \/ \E g \in G : kind[g] = "str" /\ content[g] = s
                   THEN NoObj ELSE table[s]]

Collect ==
    /\ ~Locked
    /\ LET q == ToFinalize(Marked(roots))
           m == Marked(roots \cup q)
           G == Garbage(m)
       IN  /\ queue' = q
           /\ finalized' = (finalized \cup q) \ G
           /\ table' = SweptTable(m, G)
           /\ kind' = [o \in Obj |-> IF o \in G THEN "free" ELSE kind[o]]
           /\ vals' = [o \in Obj |-> IF o \in G THEN {} ELSE vals[o]]
           /\ cls' = [o \in Obj |-> IF o \in G THEN NoObj ELSE cls[o]]
           /\ traits' = [o \in Obj |-> IF o \in G THEN {} ELSE traits[o]]
           /\ content' = [o \in Obj |-> IF o \in G THEN NoObj ELSE content[o]]
           /\ runs' = [o \in Obj |-> IF o \in G THEN 0 ELSE runs[o]]
           /\ refCount' = [o \in Obj |-> IF o \in G THEN 0
                                         ELSE refCount[o] - FromGarbage(G, o)]
    /\ UNCHANGED <<roots, locals, running>>

\* executeFinalizerCallback: the frame of finalize holds the instance as self.
RunFinalizer ==
    /\ running = NoObj
    /\ \E o \in queue :
         /\ queue' = queue \ {o}
         /\ running' = o
         /\ runs' = [runs EXCEPT ![o] = @ + 1]
         /\ IF o \in roots THEN UNCHANGED <<roots, refCount>>
            ELSE roots' = roots \cup {o} /\ TakeOne(o)
    /\ UNCHANGED <<objVars, locals, table, finalized>>

\* The finalizer is done, or what it threw is ignored.
EndFinalizer ==
    /\ running # NoObj
    /\ running' = NoObj
    /\ \/ roots' = roots \ {running} /\ ReleaseOne(running)
       \/ UNCHANGED <<roots, refCount, kind>>       \* it stored self in a root
    /\ UNCHANGED <<vals, cls, traits, content, locals, table, finalized, queue, runs>>

HeapNext ==
    \/ Allocate \/ NewOfClass \/ InternString \/ AddRoot \/ DropRoot \/ DropLocal
    \/ Store \/ Remove \/ ApplyTrait
    \/ Collect \/ RunFinalizer \/ EndFinalizer

HeapSpec == HeapInit /\ [][HeapNext]_heapVars

----------------------------------------------------------------------------
\* No dangling pointers: whatever the mutator can reach, the finalizer queue
\* and the intern table are still allocated, and the table maps a content to a
\* string with that content.
NoDangling ==
    /\ Accessible \subseteq Live
    /\ queue \subseteq Live
    /\ \A s \in Str : table[s] # NoObj =>
         table[s] \in Live /\ kind[table[s]] = "str" /\ content[table[s]] = s

\* Copy-on-write and freeObj trust refCount: it is exactly the number of
\* Values that hold the object.
RefCountExact ==
    \A o \in Live :
      refCount[o] = Cardinality({h \in Live : o \in vals[h]})
                    + (IF o \in roots THEN 1 ELSE 0) + (IF o \in locals THEN 1 ELSE 0)

\* When an instance is deleted its finalizer has run, and has run once, however
\* often it stored self in a reachable place.
FinalizedOnceBeforeFree ==
    [][\A o \in Obj : kind[o] = "inst" /\ kind'[o] = "free" => runs[o] = 1]_heapVars
============================================================================
