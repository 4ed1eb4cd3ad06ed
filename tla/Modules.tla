------------------------------ MODULE Modules ------------------------------
(***************************************************************************)
(* The module loader of the VM (src/vm/VM.cpp): `import' of files and of    *)
(* packages, the cache loadedModules, and includeNamespaceStack, the stack  *)
(* of namespaces under construction that `include' writes to.              *)
(*                                                                         *)
(* The program is any program.  `stack' is its dynamic nesting: evaluated   *)
(* chunks, calls, try and namespace bodies, and the C++ activations of      *)
(* execImport and execPackageImport around the code of modules.  The fields *)
(* of namespaces are abstracted to the one that packages attach; the list   *)
(* importedModules of sys.loadedModules(), which nothing reads, is left out.*)
(***************************************************************************)
EXTENDS Naturals, Sequences

CONSTANTS
    File,        \* module files, the canonical keys of loadedModules
    Pkg,         \* package paths `import p' or `import p.sub', keys "pkg:..."
    InitOf,      \* the init.jc2 of the package a path starts with
    SubOf,       \* the file of the submodule a path names, or NoFile
    NoFile,
    MaxNs,       \* bound: namespaces in use at the same time
    MaxStack,    \* bound: nesting of the program
    Features     \* which of the program behaviours below may happen

\* "leave":      `return' or `break' may jump out of a namespace body, or make
\*               a namespace the result of a module
\* "silent":     `try ... catch {}': its errors carry no value
\* "swallow":    host code may call back and ignore the error (finalizers)
\* "frameLimit": an import may find the frame stack full
\* "conflict":   members of a module may clash with those written to its
\*               namespace from outside while it was loading
AllFeatures == {"leave", "silent", "swallow", "frameLimit", "conflict"}

ASSUME ParamAssumption ==
    /\ NoFile \notin File
    /\ InitOf \in [Pkg -> File]
    /\ SubOf \in [Pkg -> File \cup {NoFile}]
    /\ MaxNs \in Nat
    /\ MaxStack \in Nat
    /\ Features \subseteq AllFeatures

VARIABLES
    loadedModules,    \* the namespace cached for each file, 0 for none
    packages,         \* the entries "pkg:..." of loadedModules
    loadingPackages,  \* package paths being imported
    includes,         \* includeNamespaceStack
    stack,            \* the dynamic nesting, innermost last
    exc,              \* a C++ exception is in flight
    result,           \* what execImport has just returned to execPackageImport
    sub,              \* the submodule attached to each namespace, 0 for none
    built,            \* history: namespaces of modules that ran to their end
    early             \* history: namespaces handed out before that

cache == <<loadedModules, packages, loadingPackages>>
spaces == <<sub, built, early>>
vars == <<loadedModules, packages, loadingPackages, includes,
          stack, exc, result, sub, built, early>>

Ns == 1..MaxNs

----------------------------------------------------------------------------
(* Activities.                                                              *)
(*   "eval"   evalCode: a chunk of the prompt, a script, or sys.eval;       *)
(*            inc is the includeDepth it restores on an error               *)
(*   "func"   a call                                                        *)
(*   "final"  a call from C++ code that ignores errors                      *)
(*   "try", "silent"   a try body, the latter with an empty catch; inc is   *)
(*            handler.includeStackDepth                                     *)
(*   "ns"     a namespace body between NAMESPACE_BEGIN and BUILD_NAMESPACE  *)
(*   "file"   execImport running the code of a module                       *)
(*   "pkg"    execPackageImport; ns is 0 until the init module is there     *)

Tries == {"try", "silent"}
Calls == {"eval", "func", "final"}

Activity == [k : Tries \cup Calls \cup {"ns", "file", "pkg"},
             of : File \cup Pkg \cup {NoFile}, ns : 0..MaxNs, inc : Nat]

Act(k, of, ns, inc) == [k |-> k, of |-> of, ns |-> ns, inc |-> inc]

Top(s) == s[Len(s)]
Pop(s) == SubSeq(s, 1, Len(s) - 1)
Cut(s, n) == SubSeq(s, 1, n)
Smaller(a, b) == IF a <= b THEN a ELSE b

\* Bytecode is being executed.
Running == stack # <<>> /\ ~exc /\ Top(stack).k \in Tries \cup Calls \cup {"ns"}

\* The position of the innermost call frame.
FrameAt(i) ==
    /\ stack[i].k \in Calls \cup {"file"}
    /\ \A j \in (i + 1)..Len(stack) : stack[j].k \in Tries \cup {"ns"}

\* silentUnwindActive(): the innermost handler belongs to a silent try of the
\* frame that is executing on top of stk.
SilentUnwindActive(stk) ==
    \E i \in 1..Len(stk) :
      /\ stk[i].k = "silent"
      /\ \A j \in (i + 1)..Len(stk) : stk[j].k \in {"ns", "pkg"}

\* The activity on top is the outermost body of a module.
AtModuleBody ==
    /\ Top(stack).k = "ns"
    /\ Len(stack) > 1
    /\ stack[Len(stack) - 1].k = "file"

\* The namespaces the loader refers to.
Held == {loadedModules[f] : f \in File} \cup {packages[p] : p \in Pkg} \cup {result}
        \cup {includes[i] : i \in 1..Len(includes)} \cup {stack[i].ns : i \in 1..Len(stack)}

\* The addresses the allocator may return: those of namespaces that the loader
\* has forgotten.  The lowest one stands for all of them.
Free == Ns \ (Held \cup {sub[n] : n \in Held \cap Ns})

IsLeast(n, S) == n \in S /\ \A m \in S : n <= m

\* Namespace n is new; if it belongs to a module, that has run if b is TRUE.
New(n, b) ==
    /\ sub' = [sub EXCEPT ![n] = 0]
    /\ built' = IF b THEN built \cup {n} ELSE built \ {n}

\* The namespace an INCLUDE executed now writes to, 0 for an error.
IncludeTarget == IF includes = <<>> THEN 0 ELSE Top(includes)

Raise(stk) == exc' = TRUE /\ result' = 0 /\ stack' = stk

\* An import returns namespace n to the activity on top of stk.
Deliver(n, stk) ==
    /\ stack' = stk
    /\ result' = IF Top(stk).k = "pkg" THEN n ELSE 0
    /\ early' = IF n \in built' THEN early ELSE early \cup {n}

----------------------------------------------------------------------------
Init ==
    /\ loadedModules = [f \in File |-> 0]
    /\ packages = [p \in Pkg |-> 0]
    /\ loadingPackages = {}
    /\ includes = <<>>
    /\ stack = <<>>
    /\ exc = FALSE
    /\ result = 0
    /\ sub = [n \in Ns |-> 0]
    /\ built = {}
    /\ early = {}

\* An activity that executes bytecode begins.
Enter(a) ==
    /\ Len(stack) < MaxStack
    /\ stack' = Append(stack, a)
    /\ UNCHANGED <<cache, exc, result>>

\* evalCode, from the prompt or nested in a builtin.
Eval ==
    /\ stack = <<>> \/ Running
    /\ Enter(Act("eval", NoFile, 0, Len(includes)))
    /\ UNCHANGED <<includes, spaces>>

Call ==
    /\ Running
    /\ \E k \in {"func"} \cup (IF "swallow" \in Features THEN {"final"} ELSE {}) :
          Enter(Act(k, NoFile, 0, 0))
    /\ UNCHANGED <<includes, spaces>>

TryBegin ==
    /\ Running
    /\ \E k \in {"try"} \cup (IF "silent" \in Features THEN {"silent"} ELSE {}) :
          Enter(Act(k, NoFile, 0, Len(includes)))
    /\ UNCHANGED <<includes, spaces>>

TryEnd ==
    /\ Running
    /\ Top(stack).k \in Tries
    /\ stack' = Pop(stack)
    /\ UNCHANGED <<cache, includes, exc, result, spaces>>

NamespaceBegin ==
    /\ Running
    /\ \E n \in Free :
         /\ IsLeast(n, Free)
         /\ New(n, FALSE)
         /\ early' = early \ {n}
         /\ Enter(Act("ns", NoFile, n, 0))
         /\ includes' = Append(includes, n)

\* BUILD_NAMESPACE pops an entry of includeNamespaceStack, whichever it is, and
\* may find that a member was included before.
BuildNamespace ==
    /\ Running
    /\ Top(stack).k = "ns"
    /\ ~AtModuleBody
    /\ includes' = IF includes = <<>> THEN <<>> ELSE Pop(includes)
    /\ \/ stack' = Pop(stack) /\ UNCHANGED <<exc, result>>
       \/ Raise(Pop(stack))
    /\ UNCHANGED <<cache, spaces>>

\* RETURN, or the end of a function or chunk.
Return ==
    /\ Running
    /\ \E i \in 1..Len(stack) :
         /\ FrameAt(i)
         /\ stack[i].k # "file"
         /\ "leave" \notin Features => \A j \in i..Len(stack) : stack[j].k # "ns"
         /\ stack' = Cut(stack, i - 1)
    /\ UNCHANGED <<cache, includes, exc, result, spaces>>

\* break/continue out of a namespace body, but not out of a module.
Jump ==
    /\ Running
    /\ "leave" \in Features
    /\ \E i \in 1..Len(stack), n \in 1..Len(stack) :
         /\ FrameAt(i)
         /\ n < Len(stack)
         /\ n >= i + (IF stack[i].k = "file" THEN 1 ELSE 0)
         /\ \E j \in (n + 1)..Len(stack) : stack[j].k = "ns"
         /\ stack' = Cut(stack, n)
    /\ UNCHANGED <<cache, includes, exc, result, spaces>>

Throw ==
    /\ Running
    /\ Raise(stack)
    /\ UNCHANGED <<cache, includes, spaces>>

----------------------------------------------------------------------------
(* execImport of file f for the activity on top of stk.                     *)

\* The cached object, finished or not, is returned.
FromCache(f, stk) ==
    /\ loadedModules[f] # 0
    /\ UNCHANGED <<loadedModules, includes, exc, sub, built>>
    /\ Deliver(loadedModules[f], stk)

\* The file is not found, is not a library, or does not compile: the entry made
\* for cycles is erased again.
NotLoaded(f, stk) ==
    /\ loadedModules[f] = 0
    /\ Raise(stk)
    /\ UNCHANGED <<loadedModules, includes, spaces>>

\* A native library registers its functions at once.
LoadNative(f, stk) ==
    /\ loadedModules[f] = 0
    /\ UNCHANGED <<includes, exc>>
    /\ \E n \in Free :
         /\ IsLeast(n, Free)
         /\ loadedModules' = [loadedModules EXCEPT ![f] = n]
         /\ New(n, TRUE)
         /\ Deliver(n, stk)

\* The import fails, but its entry stays.
Abandon(f, stk) ==
    /\ loadedModules[f] = 0
    /\ \E n \in Free :
         /\ IsLeast(n, Free)
         /\ loadedModules' = [loadedModules EXCEPT ![f] = n]
         /\ New(n, FALSE)
         /\ early' = early \ {n}
    /\ Raise(stk)
    /\ UNCHANGED includes

\* errCallFrameOverflow: nothing erases the entry.
NoFrame(f, stk) == "frameLimit" \in Features /\ Abandon(f, stk)

\* The lexer or the parser raises SilentUnwind: `catch (const Jc2Error&)', which
\* would erase the entry, does not see it.
NotCompiled(f, stk) == SilentUnwindActive(stk) /\ Abandon(f, stk)

\* The code of the module starts: execImport's namespace n and the one that
\* its NAMESPACE_BEGIN creates are under construction.
BeginModule(f, n, stk) ==
    /\ Len(stk) + 2 <= MaxStack
    /\ \E m \in Free :
         /\ IsLeast(m, Free \ {n})
         /\ includes' = includes \o <<n, m>>
         /\ stack' = Append(Append(stk, Act("file", f, n, 0)), Act("ns", NoFile, m, 0))
         /\ sub' = [sub EXCEPT ![n] = 0, ![m] = 0]
         /\ built' = built \ {n, m}
         /\ early' = early \ {n, m}
    /\ result' = 0
    /\ UNCHANGED exc

\* Mutant of RunFile: the module is cached when it is complete only.
RunFileUncached(f, stk) ==
    /\ loadedModules[f] = 0
    /\ \E n \in Free : IsLeast(n, Free) /\ BeginModule(f, n, stk)
    /\ UNCHANGED loadedModules

\* The module goes into the cache before its code runs, for cycles.
RunFile(f, stk) ==
    /\ loadedModules[f] = 0
    /\ \E n \in Free :
         /\ IsLeast(n, Free)
         /\ loadedModules' = [loadedModules EXCEPT ![f] = n]
         /\ BeginModule(f, n, stk)

ExecImport(f, stk) ==
    \/ FromCache(f, stk) \/ NotLoaded(f, stk) \/ LoadNative(f, stk)
    \/ NoFrame(f, stk) \/ NotCompiled(f, stk) \/ RunFile(f, stk)

Import ==
    /\ Running
    /\ \E f \in File : ExecImport(f, stack)
    /\ UNCHANGED <<packages, loadingPackages>>

\* The end of a module: BUILD_NAMESPACE, RETURN, and the rest of execImport,
\* which moves the members to the cached namespace.
EndModule ==
    /\ Running
    /\ AtModuleBody
    /\ LET file == stack[Len(stack) - 1]
           below == Cut(stack, Len(stack) - 2)
       IN  \/ /\ Raise(Pop(stack))                      \* conflict in BUILD_NAMESPACE
              /\ includes' = Pop(includes)
              /\ UNCHANGED <<loadedModules, spaces>>
           \/ /\ "conflict" \in Features                \* conflict in the last merge
              /\ file.ns \in early
              /\ Raise(below)
              /\ includes' = Cut(includes, Len(includes) - 2)
              /\ UNCHANGED <<loadedModules, spaces>>
           \/ /\ includes' = Cut(includes, Len(includes) - 2)
              /\ loadedModules' = [loadedModules EXCEPT ![file.of] = file.ns]
              /\ built' = built \cup {file.ns}
              /\ UNCHANGED <<exc, sub>>
              /\ Deliver(file.ns, below)
    /\ UNCHANGED <<packages, loadingPackages>>

\* Mutant of Forget: a failed import stays in the cache.
ForgetNothing(file) == UNCHANGED loadedModules

\* loadedModules.erase(name) when the code of a module failed.
Forget(file) == loadedModules' = [loadedModules EXCEPT ![file.of] = 0]

\* `return' in the body of a module, of a value that is no namespace.
ReturnFromModule ==
    /\ Running
    /\ \E i \in 1..Len(stack) :
         /\ FrameAt(i)
         /\ stack[i].k = "file"
         /\ Forget(stack[i])
         /\ Raise(Cut(stack, i - 1))
    /\ includes' = Pop(includes)
    /\ UNCHANGED <<packages, loadingPackages, spaces>>

\* The namespace n of a module takes over a member from a namespace that the
\* program has, or none; it keeps the one it has.
Merge(n) ==
    \E s \in {0} \cup {sub[m] : m \in Held \cap Ns} :
      /\ s = 0 \/ sub[n] \in {0, s}
      /\ sub' = [sub EXCEPT ![n] = IF s = 0 THEN @ ELSE s]

\* `return' of a namespace there: execImport takes it for that of the module.
\* The entry of the body, like those of other bodies that are left, stays.
ReturnNamespace ==
    /\ Running
    /\ "leave" \in Features
    /\ \E i \in 1..Len(stack) :
         /\ FrameAt(i)
         /\ stack[i].k = "file"
         /\ \/ /\ "conflict" \in Features
               /\ stack[i].ns \in early
               /\ Raise(Cut(stack, i - 1))
               /\ UNCHANGED <<loadedModules, spaces>>
            \/ /\ loadedModules' = [loadedModules EXCEPT ![stack[i].of] = stack[i].ns]
               /\ built' = built \cup {stack[i].ns}
               /\ Merge(stack[i].ns)
               /\ UNCHANGED exc
               /\ Deliver(stack[i].ns, Cut(stack, i - 1))
    /\ includes' = Pop(includes)
    /\ UNCHANGED <<packages, loadingPackages>>

----------------------------------------------------------------------------
(* execPackageImport.                                                       *)

\* The package is complete; its root goes to the code that imports it.
FinishPackage(p, root) ==
    /\ packages' = [packages EXCEPT ![p] = root]
    /\ loadingPackages' = loadingPackages \ {p}
    /\ Deliver(root, Pop(stack))

StartPackage(p) ==
    /\ p \notin loadingPackages
    /\ loadingPackages' = loadingPackages \cup {p}

ImportPackage ==
    /\ Running
    /\ UNCHANGED packages
    /\ \E p \in Pkg :
         \/ /\ packages[p] # 0
            /\ UNCHANGED <<loadedModules, loadingPackages,
                           includes, exc, sub, built>>
            /\ Deliver(packages[p], stack)
         \/ /\ packages[p] = 0
            /\ p \in loadingPackages                    \* circular package import
            /\ Raise(stack)
            /\ UNCHANGED <<loadedModules, loadingPackages,
                           includes, spaces>>
         \/ /\ packages[p] = 0
            /\ StartPackage(p)
            /\ Len(stack) < MaxStack
            /\ ExecImport(InitOf[p], Append(stack, Act("pkg", p, 0, 0)))

\* execImport of the init module has returned the root.
PackageInit ==
    /\ stack # <<>> /\ ~exc
    /\ LET import == Top(stack)
       IN  /\ import.k = "pkg"
           /\ import.ns = 0
           /\ \/ /\ SubOf[import.of] = NoFile \/ sub[result] # 0
                 /\ UNCHANGED <<loadedModules, includes, exc,
                                sub, built>>
                 /\ FinishPackage(import.of, result)
              \/ /\ SubOf[import.of] # NoFile               \* ambiguous submodule
                 /\ Raise(stack)
                 /\ UNCHANGED <<loadedModules, packages, loadingPackages, includes, spaces>>
              \/ /\ SubOf[import.of] # NoFile
                 /\ sub[result] = 0
                 /\ UNCHANGED <<packages, loadingPackages>>
                 /\ ExecImport(SubOf[import.of],
                               [stack EXCEPT ![Len(stack)].ns = result])

\* execImport of the submodule has returned: packageAttach may find that the
\* root has got another member of that name since.
PackageAttach ==
    /\ stack # <<>> /\ ~exc
    /\ LET import == Top(stack)
       IN  /\ import.k = "pkg"
           /\ import.ns # 0
           /\ UNCHANGED <<loadedModules, includes>>
           /\ \/ /\ sub[import.ns] \in {0, result}
                 /\ sub' = [sub EXCEPT ![import.ns] = result]
                 /\ UNCHANGED <<exc, built>>
                 /\ FinishPackage(import.of, import.ns)
              \/ /\ Raise(stack)
                 /\ UNCHANGED <<packages, loadingPackages, spaces>>

----------------------------------------------------------------------------
(* A C++ exception propagates.                                              *)

Raised(K) == exc /\ stack # <<>> /\ Top(stack).k \in K

\* Mutant of RestoreIncludes: the include stack is left as it is.
RestoreNothing(depth) == UNCHANGED includes

\* includeNamespaceStack.resize(depth), if it is longer.
RestoreIncludes(depth) == includes' = Cut(includes, Smaller(depth, Len(includes)))

\* handleExceptionUnwind; an empty catch raises none again.
Catch ==
    /\ Raised(Tries)
    /\ RestoreIncludes(Top(stack).inc)
    /\ exc' = (Top(stack).k = "silent")
    /\ stack' = Pop(stack)
    /\ UNCHANGED <<cache, result, spaces>>

\* Frames and namespace bodies are left; C++ code that ignores errors goes on.
Leave ==
    /\ Raised({"ns", "func", "final"})
    /\ exc' = (Top(stack).k # "final")
    /\ stack' = Pop(stack)
    /\ UNCHANGED <<cache, includes, result, spaces>>

\* catch (...) of execImport.
FailFile ==
    /\ Raised({"file"})
    /\ includes' = Pop(includes)
    /\ Forget(Top(stack))
    /\ stack' = Pop(stack)
    /\ UNCHANGED <<packages, loadingPackages, exc, result, spaces>>

\* Mutant of FailPackage: the package path stays in loadingPackages.
FailPackageKeep ==
    /\ Raised({"pkg"})
    /\ stack' = Pop(stack)
    /\ UNCHANGED <<cache, includes, exc, result, spaces>>

\* catch (...) of execPackageImport.
FailPackage ==
    /\ Raised({"pkg"})
    /\ loadingPackages' = loadingPackages \ {Top(stack).of}
    /\ stack' = Pop(stack)
    /\ UNCHANGED <<loadedModules, packages, includes, exc, result, spaces>>

\* catch (...) of evalCode.  The prompt reports the error, and so does the
\* debugger; any other host of a nested evaluation lets it pass.
FailEval ==
    /\ Raised({"eval"})
    /\ RestoreIncludes(Top(stack).inc)
    /\ stack' = Pop(stack)
    /\ exc' = (Len(stack) > 1)
    /\ UNCHANGED <<cache, result, spaces>>

\* /clear at the prompt.
ClearGlobals ==
    /\ stack = <<>>
    /\ loadedModules' = [f \in File |-> 0]
    /\ packages' = [p \in Pkg |-> 0]
    /\ UNCHANGED <<loadingPackages, includes, stack, exc, result, spaces>>

Next ==
    \/ Eval \/ Call \/ TryBegin \/ TryEnd \/ NamespaceBegin \/ BuildNamespace
    \/ Return \/ Jump \/ Throw
    \/ Import \/ EndModule \/ ReturnFromModule \/ ReturnNamespace
    \/ ImportPackage \/ PackageInit \/ PackageAttach
    \/ Catch \/ Leave \/ FailFile \/ FailPackage \/ FailEval \/ ClearGlobals

Spec == Init /\ [][Next]_vars

----------------------------------------------------------------------------
\* Type correctness of the loader's state.
TypeOK ==
    /\ loadedModules \in [File -> 0..MaxNs]
    /\ packages \in [Pkg -> 0..MaxNs]
    /\ loadingPackages \subseteq Pkg
    /\ includes \in Seq(Ns)
    /\ stack \in Seq(Activity)
    /\ exc \in BOOLEAN
    /\ result \in 0..MaxNs
    /\ sub \in [Ns -> 0..MaxNs]
    /\ built \subseteq Ns
    /\ early \subseteq Ns

\* Namespace n belongs to a module that ran to its end, or is running.
Sound(n) ==
    n \in built \/ \E i \in 1..Len(stack) : stack[i].k = "file" /\ stack[i].ns = n

\* A failed import is executed again by the next one: what `import' finds in
\* the cache was loaded completely, or is being loaded right now (a cycle).
FilesSound == \A f \in File : loadedModules[f] # 0 => Sound(loadedModules[f])

\* The same for the cache of package imports.
PackagesSound == \A p \in Pkg : packages[p] # 0 => Sound(packages[p])

\* Cyclic imports end: the code of a module never starts again inside itself,
\* because every module being loaded is in the cache with its own namespace.
LoadedOnce ==
    \A i \in 1..Len(stack) : stack[i].k = "file" =>
      /\ loadedModules[stack[i].of] = stack[i].ns
      /\ \A j \in 1..(i - 1) : stack[j].k = "file" => stack[j].of # stack[i].of

\* `Circular package import' is reported exactly for the packages whose import
\* is in progress, however other imports of them failed.
LoadingExact ==
    /\ loadingPackages = {stack[i].of : i \in {j \in 1..Len(stack) : stack[j].k = "pkg"}}
    /\ \A i, j \in 1..Len(stack) :
         stack[i].k = "pkg" /\ stack[j].k = "pkg" /\ stack[i].of = stack[j].of => i = j

\* The innermost namespace under construction, 0 if there is none.
Innermost ==
    LET I == {i \in 1..Len(stack) : stack[i].k = "ns"}
    IN  IF I = {} THEN 0 ELSE stack[CHOOSE i \in I : \A j \in I : j <= i].ns

\* `include' writes to the innermost namespace that is being constructed, and
\* is an error where there is none.
IncludeInnermost == Running => IncludeTarget = Innermost
=============================================================================
