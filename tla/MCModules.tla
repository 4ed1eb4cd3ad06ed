------------------------------ MODULE MCModules ------------------------------
(***************************************************************************)
(* Modules with a package of one submodule, and a history variable: which   *)
(* of the disturbances known to break a promise have happened so far.       *)
(***************************************************************************)
EXTENDS Modules, FiniteSets

CONSTANTS init, table, pkg, pkg_table, MaxPlain, MaxDisturbed

MCInitOf == [p \in Pkg |-> init]
MCSubOf == [p \in Pkg |-> IF p = pkg_table THEN table ELSE NoFile]

VARIABLE seen

\* The step being taken leaves an activity of kind k.
Dropped(k) == \E j \in 1..Len(stack) : j > Len(stack') /\ stack[j].k = k

\* The disturbances among what the step being taken does: control leaves a
\* namespace body, that of a module included, by a jump or a return; host code ignores an error; a failed
\* import leaves its entry; the last merge of a module fails; a package import
\* takes its root from an init module that is still running.
Happened ==
    {d \in {"leave", "swallow", "abandon", "conflict", "unfinished"} :
       \/ /\ d = "leave"
          /\ Running /\ ~exc'
          /\ \/ includes' = includes /\ Dropped("ns")
             \/ includes' = Pop(includes) /\ Dropped("file")
       \/ /\ d = "swallow"
          /\ stack # <<>> /\ Raised({"final"})
       \/ /\ d = "abandon"
          /\ ~exc /\ exc' /\ \E f \in File : loadedModules[f] = 0 /\ loadedModules'[f] # 0
       \/ /\ d = "conflict"
          /\ ~exc /\ exc' /\ loadedModules' = loadedModules /\ Dropped("file")
       \/ /\ d = "unfinished"
          /\ \E p \in Pkg, j \in 1..Len(stack') :
               /\ packages[p] = 0
               /\ stack'[j].k = "file" /\ packages'[p] = stack'[j].ns}

SeenInit == Init /\ seen = {}
SeenNext == Next /\ seen' = seen \cup Happened
SeenSpec == SeenInit /\ [][SeenNext]_<<vars, seen>>

\* Bounds: one kind of disturbance in a behaviour, and less nesting after it
\* (a package taken from an unfinished module leaves room for a try);
\* chunks, calls and try bodies in progress; one namespace left unfinished.
OneDisturbance ==
    /\ Cardinality(seen) <= 1
    /\ seen # {} => Len(stack) <= MaxDisturbed + (IF seen = {"unfinished"} THEN 1 ELSE 0)
    /\ Cardinality({i \in 1..Len(stack) : stack[i].k \in Calls \cup Tries})
         <= MaxPlain
    /\ Len(includes) <= Cardinality({i \in 1..Len(stack) : stack[i].k \in {"ns", "file"}}) + 1

\* What is known of namespaces that the loader has forgotten does not matter.
View ==
    <<cache, includes, stack, exc, result, [n \in Held \cap Ns |-> sub[n]],
      built \ Free, early \ Free, seen>>

----------------------------------------------------------------------------
\* The cache of files is sound until an import fails where nothing erases its
\* entry: no frame is left, its errors carry no value, or the members of the
\* module clash with those written to it while it was loading.
FilesSoundUndisturbed == seen \cap {"abandon", "conflict"} = {} => FilesSound

\* The cache of packages is sound until, moreover, an unfinished init module
\* was taken for the root of a package.
PackagesSoundUndisturbed ==
    seen \cap {"abandon", "conflict", "unfinished"} = {} => PackagesSound

\* `include' has the right target until control jumps out of a namespace body,
\* or C++ code ignores an error that left one.
IncludeInnermostUndisturbed == seen \cap {"leave", "swallow"} = {} => IncludeInnermost
=============================================================================
