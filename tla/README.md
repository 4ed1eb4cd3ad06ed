# JC2 in TLA+

TLA+ models of the parts of Junk Calculator 2 (a C++20 interpreter, JIT and
computer algebra system) whose state is hard to get right: the control stacks of
the register VM, captured variables, the memory manager, the module loader,
global variables and members with their inline caches, tiering between
interpreter and machine code, the prompt with Ctrl+C, workspace files, the window
thread, the TLS client, and exact numbers. TLC checks the models on small
instances; TLAPS proves theorems about twelve of the modules for every value of their
constants. Paths below are relative to the repository; `PROJECT.json` puts the
directory of the checkout before them (`src/src/vm/VM.cpp` is `src/vm/VM.cpp`
here). Bare numbers in parentheses are lines of `src/vm/VM.cpp`.

1. The system, 2. The modules, 3. What the runs show, 4. Bounds and fairness,
5. What is proved, 6. Where the code and its specification part, 7. What is
abstracted or not modelled, 8. What could come next.

## 1. The system

A line typed at the prompt, a script or `sys.eval` text goes through lexer,
parser, macro expansion, `IRBuilder`, the optimiser, register allocation and
`Emitter` to a bytecode chunk, and `VM::execute` interprets it. Everything below
runs on one thread, except the signal handler, the event thread of the window
library and the reader threads of child processes.

| component | state it keeps | operations | what makes it correct |
|---|---|---|---|
| VM control (`src/vm/VM.cpp`, `VM.h`) | `frames`/`frameCount`, `exceptionHandlers`, `deferStack`, the C++ stack of nested `run()` loops, the exception in flight | call, tail call, return, callback from C++ (`callVMFunction`), `TRY_BEGIN`/`TRY_END`/`THROW`, `DEFER`/`RUN_DEFERS`, `handleExceptionUnwind`, the catch clauses of `execute`, `EngineInterruptError` | loops never touch frames of an outer loop; errors go to a live handler; each defer runs once, for the scope that registered it; nothing is left at the prompt |
| Scopes and jumps (`src/compiler/IRBuilder`) | `scopeLocals`, `deferCounts`, `activeTryCount`, the loop contexts | what to emit on entering and leaving blocks, loops, try bodies, functions | the counts agree with what happens at run time |
| Captured variables (`VM.cpp`) | registers, `openUpvalues`, upvalues | `captureUpvalue`, `closeUpvalues`, `SET_UPVAL`, every way a frame is left | one shared cell per captured variable, which outlives the frame |
| Memory manager (`src/memory`) | per-object reference counts, marks, the intern table, the finalizer queue | allocate, copy/drop a `Value`, `collectGarbage`, finalizers, `applyTrait` | nothing reachable is freed; counts are exact; a finalizer runs once, before deletion |
| Module loader (`VM.cpp`) | `loadedModules`, `loadingPackages`, `includeNamespaceStack` | `import` of files, native libraries and packages, `include`, namespace bodies, `/clear` | cycles end, a module is one object, a failure is forgotten, `include` has the right target |
| Values and dispatch (`VM.cpp`, `Value.h`) | `globals`, `globalNames`, `constGlobals`, one inline cache per instruction, the bag of each object and class templates | read, assign, define and delete globals; read, call, construct, `super`, assign and remove members | a cache never outlives what it caches; `super` knows where to go on |
| REPL and signals (`main.cpp`, `EngineInterrupt.h`) | interrupt flag, waiting flag, press counter | prompt, evaluation, `sigintHandler`, `checkInterrupt` | Ctrl+C stops an evaluation and not the next one |
| Workspace files (`BytecodeSerializer.cpp`) | `compiledFunctions`, the object graph of the globals, the file and its `.tmp` | `/ws save`, `load`, `merge`, `delete`, `/clear` | the file is always one complete snapshot; a snapshot restores the graph |
| JIT (`src/jit`) | call counters, entry tables, code blocks, pins, the deoptimization flag, the pending exception | tier up, on-stack replacement, callout, bail out, invalidate | a bailout and an exception leave the state the interpreter would have |
| Front end, optimiser, emitter | trees and graphs of one compilation | sequential passes | they preserve meaning |
| Numbers (`src/math`, `Value.h`) | none across calls | operators and functions on machine integers, big integers, fractions | exact arithmetic, one representation per number |
| Builtins, CAS (`src/vm/BuiltinRegistry.cpp`, `src/cas`) | none across calls, mostly | library functions | algebra, conversions |
| Window library (`src/lib/window`) | `hwnd`, `running`, pixel buffer, event queue, two threads | construct, show, poll, destroy; create, paint, dispatch, input | no torn image, no lost close event, no hang |
| Sockets and TLS (`src/lib/tls`, `src/lib/internal/net`) | record and handshake buffers, keys, sequence numbers | connect, send, recv, close | both sides agree; `recv` is a stream |
| Language server (`src/utils/lsp`) | open documents | requests and notifications | answers fit the document's version |

They interact in these ways. Builtins, operators, comparators, class
initialisers, defers and finalizers call back into bytecode through
`callVMFunction`, which starts a nested `run()`; C++ exceptions therefore cross
several interpreter loops, each with its target depth. Allocation can start a
collection, which runs finalizers, that is bytecode, at any allocation. Importing
a module runs bytecode inside an instruction of the importer, whose own error
handling is the C++ stack's. The compiler fixes at compile time how many defers
`RUN_DEFERS` pops and how many `TRY_END`s a jump executes, and the VM trusts it.

Machine code calls the VM through callouts and is entered from it, so one native
stack alternates between both. The signal handler and the window thread run
beside the interpreter and share a handful of atomics, a buffer and a queue with
it.

Hard behaviours: exceptions and interrupts at every point of these nestings; one
step of several failing (a defer, a finalizer, an import, a save, a load); state
read before a callback and used after it (caches, slots, pins, handlers);
collections at awkward moments; cyclic imports; limits (1024 frames, 256 window
events); two threads of the window library; a signal between any two steps; a
peer that cuts and joins messages; a process that dies during a save; estimates
and carries at limb boundaries. `PROJECT.json` lists each hazard at its line,
with the properties that cover it or the reason why none does.

## 2. The modules

`VmControl` - the control skeleton of VM and compiler. Its four stacks are
`frames` (`CallFrame[]`), `handlers` (`exceptionHandlers`), `deferStack`, and `host`,
which stands for the C++ stack: one record per `run()` (with the target depth
under which it returns), per `runDefersDownTo` (with its base and its caller) and
per `RUN_DEFERS` (with the count left). `exc` is the C++ exception in flight. The
program is *any* program: a frame carries the stack of lexical scopes its
instruction pointer is in, each with the number of defers the compiler has
counted so far, and the actions `EnterBlock`, `TryBegin`, `Defer`, `EndScope`,
`Break`, `Return`, `TailCall` execute the sequences of instructions that
`IRBuilder` emits for them. `Throw`, `Interrupt` and callbacks (`CallNative`) may
occur at every instruction. A loop that calls code is two actions (`LoopPopDefer`,
`Finish...`), so that everything can happen in between. A tail call has two branches:
bytecode reuses the frame after its defers ran (`TailCall`, `FinishTail`); for a
builtin, a class or a type the frame is dropped and its defers stay (`TailCallNative`).
Interpreter loops that ignore errors (finalizers) are host records of kind "callSwallow".

`Upvalues` - registers, the list of open upvalues and the orders in which
`RETURN`, `TAIL_CALL`, `handleExceptionUnwind`, `callVMFunction` and `execute`
close upvalues and clear registers. The history variable `cell` holds what the
language promises of each captured variable (a storage cell of its own), `bound`
says which cells are still locals of a live frame, `left` which ways besides
`RETURN` have been used.

`GcHeap` - three addresses, a representative of each kind of object, reference
counts, roots, plain data in C++ locals, the intern table, finalizers. Marking is
the smallest closed set over the edges `markObj` follows; one collection is one
step, except that finalizers run in between mutator steps with the collector
locked, as `gc_locked_` has it. A mutator may do anything it can reach.

`Modules` - the caches, `includes` (`includeNamespaceStack`) and `stack`, the
dynamic nesting of chunks, calls, try bodies, namespace bodies and the C++
activations of `execImport` and `execPackageImport`. `ExecImport` is the shared
operator for a file: hit in the cache, not found, a native library, no frame left,
not compiled inside `try {...} catch {}`, or the code of the module starts. A module
ends with its body (`EndModule`), with a `return`, of a namespace or of anything else
(`ReturnNamespace`, `ReturnFromModule`), or with an error. The
variables `built` and `early` are history: modules that ran to their end, and
namespaces that were handed out before that because of a cycle.

`Environment` and `Globals` - `Environment` is what the language promises: a map
from names to values and a set of constants. `Globals` is how the VM keeps it:
slots, the table of names, one cache per instruction (a *site*: `GET_GLOBAL`,
`SET_GLOBAL`, `SET_GLOBAL_REF`, constant definition, `GET_PROP`, `INVOKE`), slots
burnt into machine code, and the walk of `clearAllGlobalICs` over compiled
functions, which misses the script that is running. It implements `Environment`
(`CachesInvisible`) as long as every site is faithful.

`Members` - one member name over a class hierarchy: the bag of each object, the
templates that construction copies, the prototypes of builtin containers, the
method cache of each instruction, and the stack of running bodies with the class
context from which `super` goes on.

`Jit` - the chain of activations on the native stack, each interpreter or machine
code, and the globals through which they tell each other what happened:
`g_jc2_jit_deoptimized`, `g_jit_pending_exception`, the pin list, `frameCount`, the
entry tables and the code blocks they own. What is computed is left out;
that registers hold objects, and that a block of code is mapped, is kept.

`Repl` - the main thread (clear, reset, arm, read, disarm, dispatch, evaluate) and
`sigintHandler`, each of whose reads and writes is a step. On Windows the handler
is a thread; on POSIX the main thread stands still meanwhile. The process ends through
`vm.shutdown()`, on the main thread (end of input, `/exit`) or on the handler's (Ctrl+C
at the prompt, the third press): its collections run finalizers, which may end or not
(`LastFinalizer`); on the handler's thread, over a main thread interrupted
anywhere, it may also get stuck or crash. `std::exit` follows (`Exit`).

`FileRegister`, `AtomicFile`, `Workspace` - `FileRegister` is a register that holds
nothing or one complete snapshot. `AtomicFile` is `writeBytesAtomically`: names,
inodes, a write in two halves, rename, every error and the death of the process.
It implements `FileRegister`. `Workspace` EXTENDS `AtomicFile` with the session:
`compiledFunctions`, objects with their sharing and cycles, closures that name
functions by index, machine code by index, and the commands of the prompt. The
reader and the writer of a snapshot recurse over values in the code; here they are loops
with the stack of containers in progress, written as functions of the
number of steps (`WriteAll`, `ReadSession`). Their bound `MaxSteps` is no restriction:
it counts every global, every element and the completion of every container once
(`WriterEnds` in `HostProofs`), and the reader takes the steps of the writer. Of
the globals, those with the name of a builtin (`BuiltinSlots`) are never written,
redefined or not (`IsSaved`).

`ByteStream` and `Tls` - `ByteStream` is what `recv` promises. `Tls` composes
`TlsClient`, `SocketWrapper` and the TCP connection with a server that follows the
protocol: handshakes of 1.3 and 1.2, joined and cut messages, tickets, alerts,
`close_notify` and the end of TCP. Keys, hashes and signatures are the transcripts
they are computed from. It implements `ByteStream`.

`Window` - one `NativeWindow`: the interpreter's and the window thread's program
counters, the atomics, posted messages, the invalid region, buffer and screen in
two halves each, the event queue.

`BigInt`, `Numbers`, `Arithmetic` - `BigInt` holds the limb algorithms as
operators (schoolbook, Karatsuba, Toom-3, number-theoretic transform, Knuth
division, division by a Newton inverse, powers, gcd, decimal conversion, factorials,
Fibonacci numbers). `Numbers` has a register `value` over the three representations, a second one, `operand`,
for operations of two arguments, and every operator and function that keeps
within the three. `Arithmetic` has the same registers as rational numbers, and
`Numbers` implements it.

`MCVmControl`, `MCModules`, `MCGlobals`, `MCMembers` add a history variable: which
disturbance (see 3) a behaviour has met so far. `MCUpvalues`, `MCGcHeap`, `MCJit`
define symmetry and bounds, `MCWorkspace`, `MCTls`, `MCNumbers` sets of inputs;
`MCWindow` and `MCRepl` take everything from their configurations. `VmControlProofs`,
`MemoryProofs` (captured variables and the heap), `ModulesProofs`, `GlobalsProofs`,
`MembersProofs`, `JitProofs`, `HostProofs` (the prompt, the workspace file, the
session in it and the window) and `TlsProofs` hold the theorems.

Composed: `Workspace` with `AtomicFile`; `BigInt` in `Numbers`; client, socket and
connection in `Tls`; both threads in `Window` and `Repl`. Not composed:
`VmControl` leaves registers out, `Upvalues` leaves out handlers, defers and C++
activations, `Modules` and `Jit` have their own, coarser nesting of calls. What
they say of the same step is kept in agreement by mapping both to the same lines
(`RETURN`, `callVMFunction`, `handleExceptionUnwind`, `execute`).

## 3. What the runs show

Not every promise of the language holds of the code (section 6). The runs
check each promise *until the first disturbance that is known to break it*, over
all behaviours at once, and go on exploring after it for the promises that
survive. A property named `...Undisturbed` or `...UntilDisturbed` says so; the
disturbances are spelt out in its comment.

| run | shows |
|---|---|
| `MCVmControl_all` (1.7 million states) | `LoopsOwnFrames`, always; `HandlersLiveUndisturbed`, until Ctrl+C interrupts an evaluation; `CleanAtPromptUndisturbed`, until that or a tail call of a builtin, class or type drops a frame with pending defers; `OwnDefersUndisturbed`, until one of these, a return inside a try body, an ignored error or a skipped defer |
| `MCUpvalues_all` (0.9 million) | `OpenListSorted`, always; `OpenInLiveFrameWithin`, until an error is ignored or an evaluation aborted; `SharedWhileReturning`, until a frame is left otherwise than by `RETURN` |
| `MCGcHeap_all` (0.14 million) | `NoDangling`, `RefCountExact`, and `FinalizedOnceBeforeFree` of every step, with resurrection, trait composition, interning and plain data the collector does not see |
| `MCModules_all` (0.8 million) | `LoadedOnce` and `LoadingExact`, always; `FilesSoundUndisturbed`, until an import fails where nothing erases its entry; `PackagesSoundUndisturbed`, until moreover a package is taken from an unfinished init module; `IncludeInnermostUndisturbed`, until control leaves a namespace body, that of a module included, by a jump or a `return`, or an error that left one is ignored |
| `MCGlobals_all` (25 thousand states) | `FunctionCachesExact`, always; `FaithfulUntilDisturbed`: no site lies before a name is deleted under a running script or machine code, a name it assigns becomes constant, machine code meets none, or a function is bound to a name whose builtin is pinned; `CachesInvisible`: until then slots, caches and machine code implement `Environment` |
| `MCMembers_all` (61 thousand) | `LookupsExactUndisturbed`: a site that serves one kind of receiver finds what a full lookup finds, whatever was assigned, removed or cleared; `ContextKeptUndisturbed`: until caches are cleared, `super` has a class to go on from; `BodiesOnceUndisturbed`: no body runs twice on a `super` chain whose classes define the name themselves (for `init`, up to the last class that does) |
| `MCJit_all` (2.9 million) | `BailoutsToldApart`: a result is taken for a bailout exactly when that activation bailed out; `ExceptionsArrive` at the nearest handler with the right `frameCount`; `OnlyRecursionUnmaps` running code; `HeldObjectsLiveUndisturbed`, until a nested callout empties the common pin list or a collection uses a mark up |
| `MCRepl_all` (41 thousand) | `InterruptsOnce`: no press ends two evaluations; `PolledInterruptDelivered`: a request reaches a polling evaluation although finalizers swallow exceptions, unless a press at the same time shuts the process down; `ThreePressesEnd`: after three quick presses the evaluation or the process ends, unless a finalizer or the interrupted thread holds the shutdown up |
| `MCWorkspace_all` (0.88 million) | `FileIsAtomic` (refinement of `FileRegister`); `RoundTrip`: save and load restore sharing, cycles and fields of all globals but redefined builtins; `CallsRunOwnCode`: closures run the function they were made from, until a load finds machine code in place or a merge appends to functions that are there |
| `MCWindow_all` (13 thousand) | `CloseDelivered` exactly once and last; `NoTornFrame`; `InterpreterNeverHangs` in constructor or destructor; `FrameShown`: the last image is drawn even if the request to redraw was lost |
| `MCTls_all` (0.10 million) | `PeersAgreeUndisturbed` and `NothingLeftBehindUndisturbed`, unless a TLS 1.2 server puts a second message into its first record (`Mixed`); `RecvIsStream` (refinement of `ByteStream`), always |
| `MCNumbers_all` (6 thousand) | `ExactArithmetic` (refinement of `Arithmetic`); `Canonical`: one representation per number |

Every property has a mutant in `PROJECT.json`: a definition of the model changed
the way a bug would change the code, under which the property fails in the same
instance.

## 4. Bounds and fairness

Every bound is a constant or a named constraint.

* `VmControl`: `MaxActs` activations, `MaxDefers`, `MaxScopes`, `MaxFrames`, and
  `MaxHost` nested C++ activations. Three frames and four activations give a
  caller, a callee with a try, and a callback or defer that throws inside it, while
  a defer runs; every disagreement found needs at most four activations and two
  defers. The frame limit is reached (`Call` then throws).
  `OneDisturbance` allows one kind of disturbance per behaviour, with fewer
  activations after it.
* `Upvalues`: two frames of two registers and three upvalues; with two frames a
  window is reused after being left, with three upvalues the middle of the list
  is reached; `TwoWays` allows two of the four ways besides `RETURN`. Values are
  symmetric.
* `GcHeap`: three objects, at most three references between them, one string
  content. Three objects are an instance, its class and its finalizer's witness;
  a class, its trait and a member; or a cycle with something hanging from it.
  Addresses are symmetric.
* `Modules`: two files (an init module and a submodule), two package paths
  (the package and `pkg.table`), four namespaces in use, nesting of six, at most
  two plain activities. This holds a module importing itself through another one,
  a package imported inside the import of its own init module, and an error at
  every point of these. Addresses that the loader has forgotten are
  reused, lowest first; `View` drops what is known of forgotten ones. No address is
  ever compared except for equality, so the lowest stands for all.

* `Globals`: two names, one a builtin with a site of every instruction in a
  function and some in the running script, one that nothing ever binds; two slots
  (`MaxSlots`), so that a name deleted and bound again has a new one; at most one kind
  of disturbance per behaviour (`OneDisturbance`). `View` drops the last answer, on which no step depends.
* `Members`: a root class, one that overrides, one that inherits the override, a
  native class and one derived from it, a list and a dictionary; one site that
  reads and one that calls. `OneKind` stops where a site has served two kinds of
  receiver, of which nothing is claimed. `super` chains have at most three classes.
* `Jit`: two symmetric functions that can be compiled and one with a handler,
  compiled after one call (`Hot`; 1000 in the code), `MaxDepth` = 4: machine code over
  interpreter over machine code of the same function, above the script. `OneExposed`
  stops where two objects are without a guard or one is lost.
* `Repl`: four presses (`MaxPresses`), one more than the three that end the process,
  and two finalizers (`MaxFinalizers`), those of the shutdown included.
* `Workspace`: three globals, one with the name of a builtin, two objects with up to two elements, four functions, five
  commands: define, save, restart or clear, define again, load or merge. `GcMayRun` =
  FALSE: the thresholds of the collector are not reached while loading (section 6).
  A crash is the death of the process; what a power failure leaves of a file that
  was not synchronised is not modelled.
* `Window`: two images, three calls of `show`, three inputs, an event queue
  (`QueueCap`) and a message queue (`PostLimit`) of two entries, so that both overflow.
* `Tls`: records of a half message, one, one and a half and a whole flight
  (`RecordHalves`, in halves), two records of data each way (`MaxData`), `recv` of one
  unit or of more than a record (`MaxBytes`).
* `Numbers`: limbs of five bits; a machine integer has one limb and an `int64_t` two,
  the proportions of the code (32 and 64 bits). Operands stand at the edges of one,
  two and three limbs, and among them are the pairs 909926076 / 1029, 27323357 / 1071
  and 562529850 / 1407, whose quotient digits are estimated one or two too large or
  have to be taken back. `Limits` sets the lengths at which algorithms change so that
  each algorithm runs. One operation is applied to each number or pair of
  numbers (`MaxSteps`): results are canonical (checked), so a second operation would
  start from a number like those read. `MaxLimbs` keeps values within TLC's integers.

Deadlock is checked in `MCMembers_all`. Elsewhere the system may stop: programs
end, bounds use up activations, upvalues and operations, the process exits.
`deferStack.back()` on an empty stack is undefined behaviour and has no step
(`OwnDefersOnly` is violated before it). That threads do not wait for each other
for ever is `InterpreterNeverHangs`.

Fairness is stated where the code has a scheduler to rely on. `Window`: weak
fairness of the interpreter's own steps inside a library call (`MainStep`) and of
the window thread (`ThreadStep`), that is, both threads are scheduled; the script
need not call anything and the user need not act. `Repl`: weak fairness of the
handler, of the prompt's own steps, of exiting once no finalizer of the shutdown
runs and it is not stuck, of the end of a finalizer in an evaluation and of
the next poll of a program that polls; evaluations and the finalizers of a shutdown
need not end, users need not type, and a bytecode loop has no poll to be fair to. The other modules promise
safety: whether an evaluation ends depends on the program interpreted, whether a
connection proceeds on the peer. `CleanAtPrompt` and `FinalizedOnceBeforeFree`
are the safety halves of "every defer runs" and "every finalizer runs".

## 5. What is proved

All theorems hold for every value of the constants that satisfies the named
assumptions of the module (`BoundsAssumption`, `HeapAssumption` and the like: bounds are
naturals, features are known ones, `None` is no value, and so on). TLC's bounds
(`OneDisturbance`, `OneKind`, `View`, symmetry) play no part in them. Theorems about a
promise that ends with a disturbance are about the specification with the history
variable (`SeenSpec`, `MCSpec`), whose `Next` is that of the module. Each invariant
below was a TLC invariant of the run's instance before it was proved.

* `VmControlProofs`: `TypeCorrect`, `LoopsOwnTheirFrames`, `HandlersStayLive`,
  `PromptStaysClean`, `OwnDefersAlways`. `LoopsOwnFrames` is not
  inductive: `FinishReturn` pops a frame and must know that the record below a
  "return" loop is a `run()` that owns it; `FinishCatch` cuts the frames to a handler's
  index, which must lie above that `run()`'s target. `IInv` adds exactly this shape
  of the host stack (`HostInv`, `HostRecInv`), and `GoodScopes`: stacks of
  scopes are not empty and their defer counts never decrease inwards, so that the
  counts given to `RUN_DEFERS` are natural numbers. That proof needs nothing about
  handlers: a stale handler never makes a loop touch another loop's frames.
  The next two need `UInv`: as long as no interrupt was seen, every handler belongs
  to the activation that is in its frame, and handlers are in the order of their frames
  (`LiveHandlers`); no handler belongs to a frame that a loop in progress is about to
  drop, although the defers run by that loop may push and pop handlers above those
  frames (`ClearOfUnwinding`); and only the evaluation that the prompt started works at the
  bottom: its frame, its error path and its last return have a defer base of 0, so
  that whichever of them ends it leaves no defers (`BottomInv`).
  `PromptStaysClean` needs besides that no tail call of a builtin has dropped a frame
  whose defers had not run: its defers are then the caller's problem, or the prompt's.
  The last one needs `OInv`, until the first disturbance of any kind. A frame *claims* the
  defers that its scope, a handler of its own, or a catch in progress that goes back to it
  has counted (`Claim`): they are its own entries of the defer stack, from its
  base on, and no frame above has its base among them (`ClaimsHeld`). Frames that
  a loop is about to drop claim nothing, and a loop pops only what nobody claims. A frame that will go
  on from where it is has exactly these defers (`ExactlyHeld`), less what a
  `RUN_DEFERS` in progress has run already (`Left`). Handlers record the
  scopes around the `try` that pushed them and the height of the defer stack there
  (`HandlersFit`), and loops go down to such a height or to a frame's base (`LoopsFit`).
* `MemoryProofs`, captured variables: `TypeCorrect`, `OpenListAlwaysSorted`,
  `OpenUpvaluesInLiveFrames`, `CapturedVariablesAreShared`. `ListInv` (types and list) is inductive under
  every action. `FrameInv` adds that an upvalue is open exactly while its variable's
  frame is live; it survives all actions but `Swallow` and `Abort`. `StorageInv`
  adds `SharedStorage` and survives those without `Unwind` and `TailCall`. As `left`
  only grows, the two conditional invariants are inductive.
  The heap: `HeapTypeCorrect`, and `NothingDangles`, `RefCountAlwaysExact`,
  `FinalizedExactlyOnce` under the assumption that builtins keep no container in an
  unguarded C++ local (`GuardedContainers`; plain data and strings they may).
  `HeapInv` says of every live object, reachable or not, that its
  pointers lead to live ones (`EdgesLive`), and that what is kept by its count alone
  points nowhere (`LeavesPlain`); it and the exact counts need each other: freeing
  plain data with its last Value is safe because the count is exact, and a sweep keeps the
  counts exact because a survivor is marked or points nowhere. What a collection
  deletes unmarked was scheduled by an earlier one, and collections do not nest:
  so its finalizer has run (`FinalizeInv`).
* `ModulesProofs`: `TypeCorrect`, `ModulesLoadedOnce`, `PackagesLoadingExact`,
  `FilesStaySound`, `PackagesStaySound`, `IncludesStayInnermost`. `IInv` says
  of each position of the nesting that a file being loaded is in the cache with
  its own namespace, and that directly above an activation of `execPackageImport`
  there is only `execImport`; `Returned` says that what such an activation goes on
  with is a namespace. Without the second, an exception could be caught
  between the two and `loadingPackages` keep a path of an import that has ended.
  `CacheInv` adds that no two files share a namespace (`Apart`: forgetting a failed module
  must not make another entry unsound), that a package being imported is not
  in the cache (`InProgress`), and that the roots in hand are sound (`RootsSound`).
  `IncludeInv` says where in the include stack each activity has its entry: there is a
  function `d` that counts the namespace bodies and modules up to each position
  (`Counts`), the entry `d[i]` is the namespace of position `i`, handlers restore the depth
  of their own position, and only an exception in flight may have left more on
  top (`Fits`); `Shape` says that a module's code is always inside the namespace
  body that `execImport` opened.
* `GlobalsProofs`: `TypeCorrect`, `FunctionCachesStayExact`, `EnvironmentImplemented`,
  `SitesStayFaithful`.
  `IInv` is types, `FunctionCachesExact` and `OwnSlots`: two names never share a slot.
  Without the last, a write to one name could change what `Environment` says of
  another. The refinement goes step by step: every action of `Globals` is the
  action of `Environment` of the same name, or a stutter (filling a cache,
  compiling), because a faithful site reads and writes the slot of its name, and
  the mapped map of names changes in exactly that place. `SitesStayFaithful` says when
  that premise holds: until one of the named disturbances, also for the sites outside functions,
  which the walk of `clearAllGlobalICs` misses, and for the slots in machine code.
* `MembersProofs`: `TypeCorrect`, `LookupsAlwaysExact` (of every step),
  `SuperAlwaysPlaced`, `SuperAlwaysClimbs`. `Bags` says that a class's body in an
  object's own bag is the one construction copied there; `CachesSound` that a cached method
  of a class is the one the cached class gives (with its owner beside it until caches are cleared), and
  of which kind a cached method is as long as the site served one kind of receiver; `OneCall` that the running bodies have one
  receiver and one name; `Climbing` that no body ran twice and that the context of
  the top one, from whose parent its `super` goes on, is at or above every class
  that ran; `ContextKept` that a frame's context
  is a class of its receiver, at or below the one that defines its body. `ChainAssumption` says that the chain of an ancestor is the rest of the
  chain: a class has one parent, set once when the class is created (7224).
  `KindAssumption` says that "instance" is no container's name.
* `JitProofs`: `TypeCorrect`, `HeldObjectsSurvive`, `BailoutsAlwaysToldApart`,
  `ExceptionsAlwaysArrive`, `UnmappedByRecursionOnly` (of every step). `IInv` adds that
  activations alternate as the entries of the VM make them (`Nested`), that a function
  with handlers is never compiled (`NoCodeWithHandlers`: an exception that crosses machine
  code passes over no handler), that at most one of flag, pending and thrown
  exception is up, and whose it is (`Signals`), that the exception is aimed at the nearest
  activation with a handler (`Aimed`), and that machine code waiting in a callout
  is pinned or marked (`Safe`).
* `HostProofs`, the prompt: `PromptTypeCorrect`, `InterruptsAtMostOnce`.
  `PressesSpent` gives every press
  one interrupt to spend: the handler carries it, then the flag, and a flag still
  set at "clear" is worth nothing. The file: `FileTypeCorrect`, and `SaveIsAtomic`
  under the assumption that one
  process writes the file (`OneWriter`; with two it fails, section 6). `FileInv`
  says that the temporary file is never the file itself (`Apart`), that its
  halves follow the writer's progress (`WriterInv`), and that the file is
  complete (`TargetComplete`). A rename is then the register's `Commit`, and errors
  and the death of the process are its `Abort`. The session: `ClosuresKeepTheirCode`
  and `SessionFileIsAtomic`. `CallsRunOwnCode` speaks of closures the session
  can reach now; what a later load makes reachable comes from the file, and what a
  later call enters is the machine code of an index. `SessionInv` therefore says
  of *every* closure of the heap, of all machine code, and of every closure in
  every snapshot (in the file, in the temporary file, in the hands of the writer) that it is
  of the function at its index: until `disturbed` for the session, unless `tainted`
  for a snapshot; and that a nested function stands where its outer one says
  (`FnsOK`). That writing and reading keep this is shown of each step of their loops
  and carried to the whole by `NatSet` (below). `SessionFileIsAtomic` adds the session's
  steps to `SaveIsAtomic`: all but `Save`, `Write`, `DeleteWorkspace` and `Restart` leave the
  file alone. Its hypothesis `SnapshotsAreValues` only says that `Values` was chosen large
  enough: which values the register holds is a parameter of `FileRegister`.
  `RoundTripKeepsTheGraph` says that what is saved of the copy is what is saved of the
  session. `HeapOK` (every reference and every free cell of the session is as the writer
  expects) is inductive, and every snapshot stored was written from such a heap
  (`Graph`). Reader and writer then go in lockstep (`SessionRestored`): after each token the
  reader's containers and ids are the copies of the writer's. A second writer
  over the copy goes in parallel with the first over pairs of an object and its
  copy (`Copies`, `ParallelNext`, `GraphRestored`). The hypothesis `GcMayRun = FALSE` is
  needed: a collection during a load sweeps what only `idToObj` holds (section 6). The window: `WindowTypeCorrect`,
  `NeverTorn`, `CloseAlwaysDelivered`. `Halves` ties
  the owner of the mutex to the two program counters, and to whose halves
  may differ. `Lifetime` says that messages are posted to an open window only, so
  that WM_CLOSE is handled once, by whichever of user and destructor comes first;
  `Queue` that "close" is then the last event, which dropping the oldest keeps.
* `TlsProofs`: `TlsConversation`, `PeersAlwaysAgree`, `NothingIsLeftBehind`,
  `RecvImplementsStream`, for every number of half messages per record, every size of a
  TCP segment and of `recv`'s argument, and any amount of data. The properties are far
  from inductive: what the client will hold depends on bytes it has not read, under keys it
  has not derived. `ConversationOK` orders both directions. What the server
  writes passes through stages (`Stages`: a part of its flight, the half messages of that part
  sent so far, the records under the current key, the units of data), and the
  wire is a path (`Path`): each record leads from one stage to the next (`Takes`),
  the last one to where the server stands. The client is at the stage at the
  beginning of the path (`ClientAt`): a stage fixes its state, keys, sequence numbers,
  transcript, the half message in `hsBuffer_`, and how much data it has handed out or
  holds. So `feed` need only be followed over one record
  (`FeedRecord` takes a client at one stage to the next, or makes it fail for a
  certificate or an alert), whatever was cut where.
  In the other direction what is in `up` and in the client's `out` is what the server has not
  read of all that the client has sent (`OnItsWay`, `HasRead`), each record with its key,
  number and transcript (`IsNth`). A client that gave up on a certificate
  is dropped by `tls.connect` (`GivenUp`). The refinement of `ByteStream`: what was
  handed out and what is at hand are the first numbers the server sent, so `HandOut`
  is a `Read`, and the empty string comes at a `close_notify` or the end of TCP when
  nothing is at hand (`ReadEnd`).

Type correctness is a theorem of every module that has theorems, not a run's
property (of `Tls` within `ConversationOK`; TLC was given that invariant with the path
bounded by what the instance can send). The lemma `Largest` (a set of positions that is not empty has a largest one) goes
by the well-foundedness of strict inclusion of finite sets, because the library's
induction theorems take an operator as a parameter, which the provers used cannot
instantiate. For the same reason the induction over records and messages in `TlsProofs` is
about sets of numbers: a set that has 0 and with each number the next has them all
(`NatSet`), and a function defined by recursion over `0..n` is the one that obeys
its equation. That is also why `HandleMessages` and `FeedRecords` are written as such
functions.

Only model-checked:

* `Canonical` and `ExactArithmetic` of `Numbers`: what recursive operators over
  limbs compute, which is induction over data;
* the liveness of `Repl` and `Window`: fairness is out of reach of the provers used.

## 6. Where the code and its specification part

1. `RETURN` inside a try runs the defers with that try's handler still installed;
   an error of a defer is caught by the function that was returning.
2. A callback's error that is ignored (finalizers) leaves its defers on the stack.
3. `cond && defer e` counts a defer that never runs.
4. Unwinding clears registers before it closes upvalues.
5. `markObj` does not visit `ObjClass::traits`.
6. A string kept by its reference count leaves the intern table.
7. Inside `try {...} catch {}` a module that does not compile stays cached
   (`SilentUnwind` is not a `Jc2Error`).
8. `return`, `break` and `continue` out of a namespace body leave its entry on
   `includeNamespaceStack`. `return` of a namespace at the top level of a module is
   accepted (3324-3334), and leaves the entry of the module's body there.
9. `return f(...)` is compiled to a tail call without regard to defers
   (`IRBuilder.cpp:2447`). If `f` turns out to be a builtin, a class or a type, the frame
   is dropped without `runDefersDownTo` (`VM.cpp:8490-8521`): its defers run late, with
   those of a caller that returns, or are left over at the prompt.

Further, in the same modules:

* an interrupt that leaves `callVMFunction` leaves the handlers of the dropped
  frames; a second interrupt while `execute` runs the defers abandons the rest;
* `callVMFunction` pushes a frame without testing `MAX_FRAMES`;
* a tail call writes its arguments into a window before closing its upvalues, and
  an aborted `execute` closes none;
* `execImport` leaves the cache entry when no frame is left (3257-3286) and when the last
  merge conflicts (3325-3338);
* the cache of package imports keeps the root it took from an init module that was
  still being loaded, also when that one fails later (2979);
* an empty `catch {}` whose handler re-raises passes none instead of the error.

In the modules of values, JIT, sessions, libraries and numbers:

* Globals: `SET_GLOBAL` with a filled cache, and stores of machine code, overwrite a
  global that has become constant (`docs/spec/zh-CN.tex:845` forbids it). Deleting
  a name under a running script or machine code leaves them a dead slot.
  `jc2_jit_get_global` treats a global that holds none as undefined. `GET_PROP` pins
  a builtin (-4) and does not see a function bound to the name later, which the call
  form finds. The compiled `GET_PROP` (9194) accepts types and classes
  as globals, the interpreter's does not. Upvalues that refer to a global keep its slot,
  and `/clear` leaves burnt slots.
* Members: one method cache serves class ids and builtin types, so a site that
  has served an instance of a native class and a list, or a list and dictionaries with
  and without the key, can run the wrong method. `clearAllGlobalICs` empties
  `cachedClass` and not `cachedMethod`: the next hit has no context and `super` fails.
  Assigning to a class's slot brings removed members back. An inherited body copied
  into an instance runs in the instance's class, so `super` runs it a second time
  (`documentation.json:2929` says otherwise).
* JIT: `invalidateJIT` and bailouts free code that other activations of the function
  still run (1447; the comment at 3691 assumes they do not). `jc2_jit_gc_unpin` empties the
  list common to all activations, and a mark survives one sweep only. After a
  deoptimization the entry stays null and the function is never compiled again
  (comments say it is). The call form's return does not close upvalues, the OSR form's
  does. A native helper that rethrows leaves its frame.
* Prompt: a bytecode loop without builtins never polls, so one Ctrl+C does not stop
  it (4714; `README.md:39` says Ctrl+C halts infinite loops). Three are to end the process
  (`README.md:39`: immediate hard exit), but the handler calls `vm.shutdown()` before
  `std::exit` (`main.cpp:113-118`, `VM.h:240-293`), and Ctrl+C at the prompt does, too (100-101):
  two collections, with finalizers in bytecode and the destruction of registers, frames
  and functions, on the handler's thread while the main thread is in the middle of
  anything. A finalizer that does not end keeps the process alive, and so may a lock that the
  main thread holds; or the process crashes. If the press came during a collection,
  those of the shutdown return at once (`Value.h:3667`) and no finalizer runs.
* Workspace: `/ws merge` appends functions without shifting the indices of closures
  (`BytecodeSerializer.cpp:1116`; `documentation.json:134`). Machine code tables
  are not cleared by `/ws load`. A load during which a collection starts may lose
  objects that only `idToObj` holds. `saveJCW` skips PI, E, i, I, ANS, names in angle
  brackets and every name that is a builtin's (870-880), so what the user bound to
  such a name, `sin` say, is gone after a save and a load. A type
  object is entered in `idToObj` only after the classes it names are read (1246-1258), a
  container before its elements: a class that refers back to the type gets none there
  (938-942), as the slot still holds its placeholder. Whether globals are constant, and the traits of
  classes, are not saved. Two processes that save one workspace share `<path>.tmp`.
  Nothing is synchronised to disk.
* TLS: a TLS 1.2 flight in one record is parsed with the handlers of 1.3
  (`TlsClient.cpp:562`; `RELEASE_NOTES_2.6.4.0.md:21`). `recv` after `close_notify`
  waits for the end of TCP or the timeout (`tls_module.cpp:244` says it returns). KeyUpdate,
  HelloRequest, warning alerts and CertificateRequest make the client fail.
  `tls_connect` leaks the socket if sending throws inside its loop. No alert is
  sent on failure.
* Window: a full message queue drops the destructor's WM_CLOSE, and its join waits for
  ever (`lostClose`). The input method cannot be switched on again.
* Numbers: `DIV` and `operator/` evaluate the remainder before they test for
  -2147483648 / -1, a trap of the processor (5461, `Value.h:1636`). `toString` throws for
  10^(9 * 2^k), k >= 2 (`BigInt.h:1350`). Both are stated exactly in `Arithmetic`
  (`Trap`, `Unprintable`). `toInt64` of -(2^63 + k * 2^64), k < 2^31, returns the minimum.
  `math.modpow` uses the magnitude of a negative exponent.

Seen while reading, outside the models: `SilentUnwind` through `Parser::parse`
leaves `parsingDepth` incremented; a cyclic import whose outer module fails leaves
the inner one with an unfinished namespace; `includeNamespaceStack` is not visited
by `markCallback`; `execCompileTimeImport` enters `loadedModules` only at its end
(3385), so macro modules that import each other recurse; `sys.run` leaves its
entry on `g_scriptDirStack` after an error (`BuiltinRegistry.cpp:6197`); `sys.exec`
writes all of the input before it starts the threads that read the output
(`BuiltinRegistry.cpp:5888`), so it and a child that fills its output pipe first
wait for each other, and the timeout does not apply yet.

## 7. What is abstracted, and what is not modelled

* `VmControl`: values, registers and instruction pointers. `SilentUnwind` is an
  ordinary exception. The frames that `execImport`, `execCompileTimeImport` and
  `execSuper` push behave like those of `callVMFunction`, `execute` and `execCall`;
  nested `execute` (`sys.eval`) is left out. Tiering is left out: JIT code has
  the same frames.
* `Upvalues`: all windows have the same size and do not overlap; arguments are in
  the first register. Captures by value copy and are no upvalues.
* `GcHeap`: the temporary-root stacks and the VM's roots are one set. Containers
  held in unguarded C++ locals across an allocation are excluded: this is the
  known defect that `docs/ideas/gc-uaf-defect.md` analyses, and admitting it would
  hide everything else. Immortal objects and thresholds are left out, a collection may
  start at any time. Each holder holds an object at most once.
* `Modules`: members of namespaces, except the submodule a package attaches; the
  text and the search path of modules; `importedModules`; `g_scriptDirStack`;
  imports executed at compile time. A package path has at most one submodule.
  Running macros and compile-time code is not modelled.

* `Globals`: names of classes and namespaces, upvalues that refer to globals.
* `Members`: visibility, static members, getters, dunder methods, traits; one name.
* `Jit`: values, machine registers, which instructions are emitted, and what
  the optimising passes compute.
* `Repl`: line editing, completion and the debugger's commands.
* `Workspace`: the encoding of single values; strings and numbers are leaves. Type objects
  (TYPE_DEF) are left out.
* `Window`: conversion of images and key codes, the input method.
* `Tls`: ciphers, certificates and key exchange are symbolic; the server follows
  the protocol; plain sockets.
* `Numbers`: floating point, Complex, Matrix, `~/` of fractions (which goes through
  double), `nextPrime`, the file of primes that `isPrime` consults, its extra random
  bases, and the threads of the transform (which share nothing).

Not modelled at all, with the reason in `PROJECT.json`: the front end and the
optimiser (sequential translations), CAS and floating point (algebra over
unbounded terms and reals, out of TLC's reach), codecs and ciphers, most builtins,
the extension bridge, the language server, the library written in JC2, the editor
extension. Together these are most of the lines of the repository.

## 8. What could come next

1. `sys.exec`: pipes, reader threads, the timeout and a child that fills a pipe.
2. Compile-time imports and the script-directory stack in `Modules`.
3. In `Workspace`, a load that fails half way, the decoder's exceptions, and type objects.
4. Nested `execute` in `VmControl`, and an abstract structured control (each
   activation a list of its own defers and tries) that it implements.
5. Traits and static members in `Members`.
6. The linear-scan allocation of registers against interference.
