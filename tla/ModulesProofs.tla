--------------------------- MODULE ModulesProofs ---------------------------
(***************************************************************************)
(* Theorems about Modules for every set of files and packages, every bound  *)
(* and every set of program behaviours.                                     *)
(*  - The loader's state stays well typed, no module is executed inside     *)
(*    itself, and loadingPackages lists exactly the package imports in      *)
(*    progress.  They follow from IInv, which adds two facts about C++      *)
(*    activations of execPackageImport: only execImport runs above one of   *)
(*    them, and when the latter has returned, its result is a namespace.    *)
(*  - The caches are sound until the first disturbance (CacheInv).          *)
(*  - `include' finds the innermost namespace until the first disturbance   *)
(*    (IncludeInv).                                                         *)
(***************************************************************************)
EXTENDS MCModules, SequenceTheorems, FiniteSetTheorems, WellFoundedInduction, TLAPS

\* The state beside the nesting of the program.
Typed ==
    /\ loadedModules \in [File -> 0..MaxNs]
    /\ packages \in [Pkg -> 0..MaxNs]
    /\ loadingPackages \subseteq Pkg
    /\ includes \in Seq(Ns)
    /\ exc \in BOOLEAN
    /\ result \in 0..MaxNs
    /\ sub \in [Ns -> 0..MaxNs]
    /\ built \subseteq Ns
    /\ early \subseteq Ns

\* Position i of the nesting st, when lm is the cache of files: a module being
\* loaded is in the cache, and is not being loaded below.
FileInv(st, lm, i) ==
    st[i].k = "file" =>
      /\ st[i].of \in File
      /\ st[i].ns \in Ns
      /\ lm[st[i].of] = st[i].ns
      /\ \A j \in 1..(i - 1) : st[j].k = "file" => st[j].of # st[i].of

\* The package paths imported by the nesting st.
PkgsOf(st) == {st[i].of : i \in {j \in 1..Len(st) : st[j].k = "pkg"}}

\* execPackageImport does not nest for one path, and only runs execImport.
PkgInv(st, i) ==
    st[i].k = "pkg" =>
      /\ \A j \in 1..(i - 1) : st[j].k = "pkg" => st[j].of # st[i].of
      /\ i < Len(st) => st[i + 1].k = "file"

StackInv(st, lm, lp) ==
    /\ st \in Seq(Activity)
    /\ lp = PkgsOf(st)
    /\ \A i \in 1..Len(st) : FileInv(st, lm, i) /\ PkgInv(st, i)

\* What execPackageImport goes on with is a namespace.
Returned == ~exc /\ stack # <<>> /\ Top(stack).k = "pkg" => result \in Ns

IInv ==
    /\ Typed
    /\ StackInv(stack, loadedModules, loadingPackages)
    /\ Returned

----------------------------------------------------------------------------
(* Stacks as sequences.                                                     *)

\* The last element of a stack is an element.
LEMMA TopType ==
    ASSUME NEW S, NEW s \in Seq(S), s # <<>>
    PROVE  Top(s) \in S /\ Len(s) \in Nat /\ Len(s) > 0
BY EmptySeq DEF Top

\* Cutting a stack (dropping what is above n) keeps what is below.
LEMMA CutType ==
    ASSUME NEW S, NEW s \in Seq(S), NEW n \in 0..Len(s)
    PROVE  /\ Cut(s, n) \in Seq(S)
           /\ Len(Cut(s, n)) = n
           /\ \A i \in 1..n : Cut(s, n)[i] = s[i]
<1>1. \A i \in 1..n : s[i] \in S
  BY LenProperties
<1>2. 1 \in Int /\ n \in Int
  BY LenProperties
<1> QED
  BY <1>1, <1>2, SubSeqProperties DEF Cut

\* Cutting below the bottom leaves a stack of the same type, the empty one.
LEMMA CutBelow ==
    ASSUME NEW S, NEW s \in Seq(S), NEW n \in Int, n <= Len(s)
    PROVE  Cut(s, n) \in Seq(S)
<1>1. \A i \in 1..n : s[i] \in S
  BY LenProperties
<1> QED
  BY <1>1, SubSeqProperties DEF Cut

\* Popping, which is safe on an empty includeNamespaceStack, too.
LEMMA PopType ==
    ASSUME NEW S, NEW s \in Seq(S)
    PROVE  Pop(s) \in Seq(S)
<1>1. Len(s) - 1 \in Int /\ Len(s) - 1 <= Len(s)
  BY LenProperties
<1> QED
  BY <1>1, CutBelow DEF Pop, Cut

\* Popping is cutting above the last element but one.
LEMMA PopIsCut ==
    ASSUME NEW S, NEW s \in Seq(S), s # <<>>
    PROVE  Pop(s) = Cut(s, Len(s) - 1) /\ Len(s) - 1 \in 0..Len(s)
BY EmptySeq DEF Pop, Cut

\* Pushing one element.
LEMMA PushType ==
    ASSUME NEW S, NEW s \in Seq(S), NEW e \in S
    PROVE  /\ Append(s, e) \in Seq(S)
           /\ Append(s, e) # <<>>
           /\ Len(Append(s, e)) = Len(s) + 1
           /\ Append(s, e)[Len(s) + 1] = e
           /\ Top(Append(s, e)) = e
           /\ \A i \in 1..Len(s) : Append(s, e)[i] = s[i]
BY LenProperties DEF Top

----------------------------------------------------------------------------
(* The nesting of the program.                                              *)

\* What PkgInv says of a position depends on the nesting up to the next one.
LEMMA SamePkg ==
    ASSUME NEW st, NEW q, NEW i \in Nat \ {0}, PkgInv(st, i),
           \A j \in 1..i : q[j].k = st[j].k /\ q[j].of = st[j].of,
           i < Len(q) => i < Len(st) /\ q[i + 1].k = st[i + 1].k
    PROVE  PkgInv(q, i)
<1>1. i \in 1..i /\ \A j \in 1..(i - 1) : j \in 1..i
  OBVIOUS
<1> QED
  BY <1>1 DEF PkgInv

\* Dropping activities other than package imports from the top.
LEMMA CutKeeps ==
    ASSUME NEW st, NEW lm, NEW lp, StackInv(st, lm, lp), NEW n \in 0..Len(st),
           \A j \in (n + 1)..Len(st) : st[j].k # "pkg"
    PROVE  StackInv(Cut(st, n), lm, lp)
<1> DEFINE q == Cut(st, n)
<1>1. st \in Seq(Activity) /\ Len(st) \in Nat
  BY LenProperties DEF StackInv
<1>2. q \in Seq(Activity) /\ Len(q) = n /\ \A i \in 1..n : q[i] = st[i]
  BY <1>1, CutType
<1> HIDE DEF q
<1>3. PkgsOf(q) = PkgsOf(st)
  BY <1>1, <1>2 DEF PkgsOf
<1>4. \A i \in 1..Len(q) : FileInv(q, lm, i)
  BY <1>1, <1>2 DEF StackInv, FileInv
<1>5. ASSUME NEW i \in 1..Len(q)
      PROVE  PkgInv(q, i)
  <2>1. PkgInv(st, i) /\ i \in Nat \ {0}
    BY <1>1, <1>2 DEF StackInv
  <2>2. \A j \in 1..i : q[j] = st[j]
    BY <1>1, <1>2
  <2>3. i < Len(q) => i < Len(st) /\ q[i + 1] = st[i + 1]
    BY <1>1, <1>2
  <2> QED
    BY <2>1, <2>2, <2>3, SamePkg
<1> QED
  BY <1>2, <1>3, <1>4, <1>5 DEF StackInv, q

\* A module is left and forgotten: the modules below are other files.
LEMMA CutForgets ==
    ASSUME NEW st, NEW lm \in [File -> 0..MaxNs], NEW lp, StackInv(st, lm, lp),
           NEW i \in 1..Len(st), st[i].k = "file",
           \A j \in (i + 1)..Len(st) : st[j].k # "pkg"
    PROVE  StackInv(Cut(st, i - 1), [lm EXCEPT ![st[i].of] = 0], lp)
<1> DEFINE q == Cut(st, i - 1)
           m == [lm EXCEPT ![st[i].of] = 0]
<1>1. st \in Seq(Activity) /\ Len(st) \in Nat
  BY LenProperties DEF StackInv
<1>2. i - 1 \in 0..Len(st) /\ \A j \in ((i - 1) + 1)..Len(st) : st[j].k # "pkg"
  BY <1>1
<1>3. StackInv(q, lm, lp)
  BY <1>2, CutKeeps
<1>4. Len(q) = i - 1 /\ \A j \in 1..(i - 1) : q[j] = st[j]
  BY <1>1, <1>2, CutType
<1>5. \A j \in 1..(i - 1) : st[j].k = "file" => st[j].of # st[i].of
  BY <1>1 DEF StackInv, FileInv
<1>6. \A f \in File : f # st[i].of => m[f] = lm[f]
  OBVIOUS
<1> HIDE DEF q, m
<1>7. ASSUME NEW j \in 1..Len(q)
      PROVE  FileInv(q, m, j)
  <2>1. FileInv(q, lm, j) /\ q[j] = st[j]
    BY <1>3, <1>4 DEF StackInv
  <2>2. q[j].k = "file" => q[j].of # st[i].of
    BY <1>4, <1>5, <2>1
  <2> QED
    BY <1>6, <2>1, <2>2 DEF FileInv
<1> QED
  BY <1>3, <1>7 DEF StackInv, q, m

\* A file that is not in the cache gets an entry: it was not being loaded.
LEMMA CacheNew ==
    ASSUME NEW st, NEW lm \in [File -> 0..MaxNs], NEW lp, StackInv(st, lm, lp),
           NEW f \in File, lm[f] = 0, NEW n
    PROVE  /\ StackInv(st, [lm EXCEPT ![f] = n], lp)
           /\ \A i \in 1..Len(st) : st[i].k = "file" => st[i].of # f
<1>1. ASSUME NEW i \in 1..Len(st), st[i].k = "file"
      PROVE  st[i].of # f
  <2>1. lm[st[i].of] \in Ns
    BY <1>1 DEF StackInv, FileInv
  <2>2. 0 \notin Ns
    BY DEF Ns
  <2> QED
    BY <2>1, <2>2
<1> DEFINE m == [lm EXCEPT ![f] = n]
<1>2. \A g \in File : g # f => m[g] = lm[g]
  OBVIOUS
<1> HIDE DEF m
<1>3. \A i \in 1..Len(st) : FileInv(st, m, i)
  BY <1>1, <1>2 DEF StackInv, FileInv
<1> QED
  BY <1>1, <1>3 DEF StackInv, m

\* An activity of the program, pushed on code that is being executed.
LEMMA PushPlain ==
    ASSUME NEW st, NEW lm, NEW lp, StackInv(st, lm, lp),
           NEW a \in Activity, a.k \notin {"file", "pkg"},
           st # <<>> => Top(st).k # "pkg"
    PROVE  StackInv(Append(st, a), lm, lp)
<1> DEFINE q == Append(st, a)
<1>1. st \in Seq(Activity) /\ Len(st) \in Nat /\ (st = <<>> <=> Len(st) = 0)
  BY LenProperties, EmptySeq DEF StackInv
<1>2. /\ q \in Seq(Activity)
      /\ Len(q) = Len(st) + 1
      /\ q[Len(st) + 1] = a
      /\ \A i \in 1..Len(st) : q[i] = st[i]
  BY <1>1, PushType
<1> HIDE DEF q
<1>3. Len(st) > 0 => st[Len(st)].k # "pkg"
  BY <1>1 DEF Top
<1>4. PkgsOf(q) = PkgsOf(st)
  <2>1. {j \in 1..Len(q) : q[j].k = "pkg"} = {j \in 1..Len(st) : st[j].k = "pkg"}
    BY <1>1, <1>2
  <2> QED
    BY <1>1, <1>2, <2>1 DEF PkgsOf
<1>5. \A i \in 1..Len(q) : FileInv(q, lm, i)
  BY <1>1, <1>2 DEF StackInv, FileInv
<1>6. ASSUME NEW i \in 1..Len(q)
      PROVE  PkgInv(q, i)
  <2>1. CASE i = Len(st) + 1
    BY <1>2, <2>1 DEF PkgInv
  <2>2. CASE i \in 1..Len(st)
    <3>1. PkgInv(st, i) /\ i \in Nat \ {0} /\ \A j \in 1..i : q[j] = st[j]
      BY <1>1, <1>2, <2>2 DEF StackInv
    <3>2. CASE i < Len(st)
      BY <1>1, <1>2, <3>1, <3>2, SamePkg
    <3>3. CASE i = Len(st)
      BY <1>1, <1>2, <1>3, <3>3, <2>2 DEF PkgInv
    <3> QED
      BY <1>1, <2>2, <3>2, <3>3
  <2> QED
    BY <1>1, <1>2, <2>1, <2>2
<1> QED
  BY <1>2, <1>4, <1>5, <1>6 DEF StackInv, q

\* execImport starts to run a file that was not being loaded.
LEMMA PushFile ==
    ASSUME NEW st, NEW lm, NEW lp, StackInv(st, lm, lp),
           NEW f \in File, NEW n \in Ns, lm[f] = n,
           \A i \in 1..Len(st) : st[i].k = "file" => st[i].of # f
    PROVE  StackInv(Append(st, Act("file", f, n, 0)), lm, lp)
<1> DEFINE a == Act("file", f, n, 0)
           q == Append(st, a)
<1>1. st \in Seq(Activity) /\ Len(st) \in Nat
  BY LenProperties DEF StackInv
<1>2. a \in Activity /\ a.k = "file" /\ a.of = f /\ a.ns = n
  BY ParamAssumption DEF Act, Activity, Ns
<1> HIDE DEF a
<1>3. /\ q \in Seq(Activity)
      /\ Len(q) = Len(st) + 1
      /\ q[Len(st) + 1] = a
      /\ \A i \in 1..Len(st) : q[i] = st[i]
  BY <1>1, <1>2, PushType
<1> HIDE DEF q
<1>4. PkgsOf(q) = PkgsOf(st)
  <2>1. {j \in 1..Len(q) : q[j].k = "pkg"} = {j \in 1..Len(st) : st[j].k = "pkg"}
    BY <1>1, <1>2, <1>3
  <2> QED
    BY <1>1, <1>3, <2>1 DEF PkgsOf
<1>5. \A i \in 1..Len(q) : FileInv(q, lm, i)
  BY <1>1, <1>2, <1>3 DEF StackInv, FileInv
<1>6. ASSUME NEW i \in 1..Len(q)
      PROVE  PkgInv(q, i)
  <2>1. CASE i = Len(st) + 1
    BY <1>2, <1>3, <2>1 DEF PkgInv
  <2>2. CASE i \in 1..Len(st)
    <3>1. PkgInv(st, i) /\ i \in Nat \ {0} /\ \A j \in 1..i : q[j] = st[j]
      BY <1>1, <1>3, <2>2 DEF StackInv
    <3>2. CASE i < Len(st)
      BY <1>1, <1>3, <3>1, <3>2, SamePkg
    <3>3. CASE i = Len(st)
      <4>1. q[i] = st[i] /\ q[i + 1].k = "file" /\ \A j \in 1..(i - 1) : q[j] = st[j]
        BY <1>1, <1>2, <1>3, <3>3, <2>2
      <4> QED
        BY <3>1, <4>1 DEF PkgInv
    <3> QED
      BY <1>1, <2>2, <3>2, <3>3
  <2> QED
    BY <1>1, <1>3, <2>1, <2>2
<1> QED
  BY <1>3, <1>4, <1>5, <1>6 DEF StackInv, a, q

\* execPackageImport starts for a path that is not being imported.
LEMMA PushPkg ==
    ASSUME NEW st, NEW lm, NEW lp, StackInv(st, lm, lp),
           NEW p \in Pkg, p \notin lp,
           st # <<>> => Top(st).k # "pkg"
    PROVE  StackInv(Append(st, Act("pkg", p, 0, 0)), lm, lp \cup {p})
<1> DEFINE a == Act("pkg", p, 0, 0)
           q == Append(st, a)
<1>1. st \in Seq(Activity) /\ Len(st) \in Nat /\ (st = <<>> <=> Len(st) = 0)
  BY LenProperties, EmptySeq DEF StackInv
<1>2. a \in Activity /\ a.k = "pkg" /\ a.of = p
  BY ParamAssumption DEF Act, Activity
<1> HIDE DEF a
<1>3. /\ q \in Seq(Activity)
      /\ Len(q) = Len(st) + 1
      /\ q[Len(st) + 1] = a
      /\ \A i \in 1..Len(st) : q[i] = st[i]
  BY <1>1, <1>2, PushType
<1> HIDE DEF q
<1>4. Len(st) > 0 => st[Len(st)].k # "pkg"
  BY <1>1 DEF Top
<1>5. \A i \in 1..Len(st) : st[i].k = "pkg" => st[i].of # p
  BY DEF StackInv, PkgsOf
<1>6. PkgsOf(q) = lp \cup {p}
  <2>1. {j \in 1..Len(q) : q[j].k = "pkg"}
          = {j \in 1..Len(st) : st[j].k = "pkg"} \cup {Len(st) + 1}
    BY <1>1, <1>2, <1>3
  <2>2. lp = {st[i].of : i \in {j \in 1..Len(st) : st[j].k = "pkg"}}
    BY DEF StackInv, PkgsOf
  <2> QED
    BY <1>1, <1>2, <1>3, <2>1, <2>2 DEF PkgsOf
<1>7. \A i \in 1..Len(q) : FileInv(q, lm, i)
  BY <1>1, <1>2, <1>3 DEF StackInv, FileInv
<1>8. ASSUME NEW i \in 1..Len(q)
      PROVE  PkgInv(q, i)
  <2>1. CASE i = Len(st) + 1
    <3>1. \A j \in 1..(i - 1) : q[j].k = "pkg" => q[j].of # q[i].of
      BY <1>1, <1>2, <1>3, <1>5, <2>1
    <3> QED
      BY <1>1, <1>3, <2>1, <3>1 DEF PkgInv
  <2>2. CASE i \in 1..Len(st)
    <3>1. PkgInv(st, i) /\ i \in Nat \ {0} /\ \A j \in 1..i : q[j] = st[j]
      BY <1>1, <1>3, <2>2 DEF StackInv
    <3>2. CASE i < Len(st)
      BY <1>1, <1>3, <3>1, <3>2, SamePkg
    <3>3. CASE i = Len(st)
      BY <1>1, <1>3, <1>4, <3>3, <2>2 DEF PkgInv
    <3> QED
      BY <1>1, <2>2, <3>2, <3>3
  <2> QED
    BY <1>1, <1>3, <2>1, <2>2
<1> QED
  BY <1>3, <1>6, <1>7, <1>8 DEF StackInv, a, q

\* execPackageImport ends; what called it is no execPackageImport.
LEMMA PopPkg ==
    ASSUME NEW st, NEW lm, NEW lp, StackInv(st, lm, lp),
           st # <<>>, Top(st).k = "pkg"
    PROVE  /\ StackInv(Pop(st), lm, lp \ {Top(st).of})
           /\ Pop(st) # <<>> => Top(Pop(st)).k # "pkg"
<1> DEFINE q == Pop(st)
<1>1. /\ st \in Seq(Activity)
      /\ Len(st) \in Nat
      /\ Len(st) > 0
      /\ Top(st) = st[Len(st)]
  BY TopType DEF StackInv, Top
<1>2. q \in Seq(Activity) /\ Len(q) = Len(st) - 1 /\ \A i \in 1..Len(q) : q[i] = st[i]
  <2>1. st # <<>>
    OBVIOUS
  <2>2. q = Cut(st, Len(st) - 1) /\ Len(st) - 1 \in 0..Len(st)
    BY <1>1, <2>1, PopIsCut
  <2> HIDE DEF q
  <2> QED
    BY <1>1, <2>2, CutType
<1> HIDE DEF q
<1>3. \A j \in 1..Len(q) : st[j].k = "pkg" => st[j].of # Top(st).of
  BY <1>1, <1>2 DEF StackInv, PkgInv
<1>4. PkgsOf(q) = lp \ {Top(st).of}
  <2>1. {j \in 1..Len(st) : st[j].k = "pkg"}
          = {j \in 1..Len(q) : q[j].k = "pkg"} \cup {Len(st)}
    BY <1>1, <1>2
  <2>2. lp = {st[i].of : i \in {j \in 1..Len(st) : st[j].k = "pkg"}}
    BY DEF StackInv, PkgsOf
  <2>3. lp = {st[i].of : i \in {j \in 1..Len(q) : q[j].k = "pkg"}} \cup {Top(st).of}
    BY <1>1, <2>1, <2>2
  <2>4. \A j \in {j \in 1..Len(q) : q[j].k = "pkg"} : q[j].of = st[j].of /\ st[j].of # Top(st).of
    BY <1>1, <1>2, <1>3
  <2> QED
    BY <2>3, <2>4 DEF PkgsOf
<1>5. \A i \in 1..Len(q) : FileInv(q, lm, i)
  BY SMTT(30), <1>1, <1>2 DEF StackInv, FileInv
<1>6. ASSUME NEW i \in 1..Len(q)
      PROVE  PkgInv(q, i)
  <2>1. PkgInv(st, i) /\ i \in Nat \ {0} /\ \A j \in 1..i : q[j] = st[j]
    BY <1>1, <1>2 DEF StackInv
  <2>2. i < Len(q) => i < Len(st) /\ q[i + 1] = st[i + 1]
    BY <1>1, <1>2
  <2> QED
    BY <2>1, <2>2, SamePkg
<1>7. q # <<>> => Top(q).k # "pkg"
  <2>1. q # <<>> => Len(q) \in 1..(Len(st) - 1) /\ Top(q) = st[Len(q)]
    BY <1>1, <1>2, TopType DEF Top
  <2>2. st[Len(q) + 1].k = "pkg"
    BY <1>1, <1>2
  <2>3. Len(q) \in 1..(Len(st) - 1) => st[Len(q)].k # "pkg"
    BY <1>1, <1>2, <2>2 DEF StackInv, PkgInv
  <2> QED
    BY <2>1, <2>3
<1> QED
  BY <1>2, <1>4, <1>5, <1>6, <1>7 DEF StackInv, q

\* execPackageImport keeps the root that its init module returned.
LEMMA SetRoot ==
    ASSUME NEW st, NEW lm, NEW lp, StackInv(st, lm, lp),
           st # <<>>, Top(st).k = "pkg", NEW n \in 0..MaxNs
    PROVE  /\ StackInv([st EXCEPT ![Len(st)].ns = n], lm, lp)
           /\ [st EXCEPT ![Len(st)].ns = n] # <<>>
<1> DEFINE q == [st EXCEPT ![Len(st)].ns = n]
           a == [Top(st) EXCEPT !.ns = n]
<1>1. /\ st \in Seq(Activity)
      /\ Len(st) \in Nat
      /\ Len(st) > 0
      /\ Top(st) = st[Len(st)]
      /\ Top(st) \in Activity
  BY TopType DEF StackInv, Top
<1>2. a \in Activity /\ a.k = "pkg" /\ a.of = Top(st).of
  BY <1>1 DEF Activity
<1>3. q = [st EXCEPT ![Len(st)] = a]
  BY <1>1
<1> HIDE DEF a
<1>4. /\ q \in Seq(Activity)
      /\ Len(q) = Len(st)
      /\ q[Len(st)] = a
      /\ \A i \in 1..(Len(st) - 1) : q[i] = st[i]
  BY SMTT(30), <1>1, <1>2, <1>3, ExceptSeq
<1> HIDE DEF q
<1>5. \A i \in 1..Len(st) : q[i].k = st[i].k /\ q[i].of = st[i].of
                           /\ (st[i].k = "file" => q[i] = st[i])
  BY <1>1, <1>2, <1>4
<1>6. PkgsOf(q) = PkgsOf(st)
  BY <1>4, <1>5 DEF PkgsOf
<1>7. \A i \in 1..Len(q) : FileInv(q, lm, i)
  BY <1>1, <1>4, <1>5 DEF StackInv, FileInv
<1>8. \A i \in 1..Len(q) : PkgInv(q, i)
  BY <1>1, <1>4, <1>5 DEF StackInv, PkgInv
<1>9. q # <<>>
  BY <1>1, <1>4, EmptySeq
<1> QED
  BY <1>4, <1>6, <1>7, <1>8, <1>9 DEF StackInv, q

\* An activity that ends leaves one that is no package import on top, unless it
\* is execImport's.
LEMMA CutOnCode ==
    ASSUME NEW st, NEW lm, NEW lp, StackInv(st, lm, lp),
           NEW n \in 0..(Len(st) - 1), st[n + 1].k # "file",
           \A j \in (n + 1)..Len(st) : st[j].k # "pkg"
    PROVE  /\ StackInv(Cut(st, n), lm, lp)
           /\ Cut(st, n) # <<>> => Top(Cut(st, n)).k # "pkg"
<1> DEFINE q == Cut(st, n)
<1>1. st \in Seq(Activity) /\ Len(st) \in Nat /\ n \in 0..Len(st)
  BY LenProperties DEF StackInv
<1>2. StackInv(q, lm, lp)
  BY <1>1, CutKeeps
<1>3. q \in Seq(Activity) /\ Len(q) = n /\ \A i \in 1..n : q[i] = st[i]
  BY <1>1, CutType
<1> HIDE DEF q
<1>4. q # <<>> => n \in 1..(Len(st) - 1) /\ Top(q) = st[n]
  BY <1>1, <1>3, TopType DEF Top
<1>5. n \in 1..(Len(st) - 1) => st[n].k # "pkg"
  BY <1>1 DEF StackInv, PkgInv
<1> QED
  BY <1>2, <1>4, <1>5 DEF q

----------------------------------------------------------------------------
(* Steps.                                                                   *)

\* The part of the state that execImport changes, when it was called for a
\* nesting with the package paths lp.
Imported(lp) ==
    /\ loadedModules \in [File -> 0..MaxNs]
    /\ includes \in Seq(Ns)
    /\ exc \in BOOLEAN
    /\ result \in 0..MaxNs
    /\ sub \in [Ns -> 0..MaxNs]
    /\ built \subseteq Ns
    /\ early \subseteq Ns
    /\ StackInv(stack, loadedModules, lp)
    /\ Returned

\* A namespace that an import returns is what the importer goes on with.
LEMMA DeliverStep ==
    ASSUME Typed, NEW n \in Ns, NEW stk, Deliver(n, stk)
    PROVE  stack' = stk /\ result' \in 0..MaxNs /\ early' \subseteq Ns /\ Returned'
BY ParamAssumption DEF Deliver, Returned, Typed, Ns

\* A raised error.
LEMMA RaiseStep ==
    ASSUME NEW stk, Raise(stk)
    PROVE  stack' = stk /\ result' \in 0..MaxNs /\ exc' \in BOOLEAN /\ Returned'
BY ParamAssumption DEF Raise, Returned

\* The code of a module begins.
LEMMA BeginStep ==
    ASSUME Typed, NEW stk, NEW lp, StackInv(stk, loadedModules', lp),
           loadedModules' \in [File -> 0..MaxNs],
           NEW f \in File, NEW n \in Ns, loadedModules'[f] = n,
           \A i \in 1..Len(stk) : stk[i].k = "file" => stk[i].of # f,
           BeginModule(f, n, stk)
    PROVE  Imported(lp)'
<1>1. PICK m \in Free :
        /\ includes' = includes \o <<n, m>>
        /\ stack' = Append(Append(stk, Act("file", f, n, 0)), Act("ns", NoFile, m, 0))
        /\ sub' = [sub EXCEPT ![n] = 0, ![m] = 0]
        /\ built' = built \ {n, m}
        /\ early' = early \ {n, m}
  BY DEF BeginModule
<1>2. m \in Ns
  BY DEF Free
<1>3. includes' \in Seq(Ns)
  <2>1. <<n, m>> \in Seq(Ns)
    BY <1>2
  <2> QED
    BY <1>1, <2>1, ConcatProperties DEF Typed
<1> DEFINE q == Append(stk, Act("file", f, n, 0))
           a == Act("ns", NoFile, m, 0)
<1>4. StackInv(q, loadedModules', lp)
  BY PushFile
<1>5. q # <<>> /\ Top(q).k = "file"
  <2>1. Act("file", f, n, 0) \in Activity /\ Act("file", f, n, 0).k = "file"
    BY ParamAssumption DEF Act, Activity, Ns
  <2>2. stk \in Seq(Activity)
    BY DEF StackInv
  <2> QED
    BY <2>1, <2>2, PushType
<1>6. a \in Activity /\ a.k = "ns"
  BY <1>2, ParamAssumption DEF Act, Activity, Ns
<1>7. StackInv(Append(q, a), loadedModules', lp)
  <2> HIDE DEF q, a
  <2> QED
    BY <1>4, <1>5, <1>6, PushPlain
<1>8. Top(stack') = a
  <2>1. q \in Seq(Activity)
    BY <1>4 DEF StackInv
  <2> HIDE DEF q, a
  <2>2. Top(Append(q, a)) = a
    BY <1>6, <2>1, PushType
  <2> QED
    BY <1>1, <2>2 DEF q, a
<1>9. result' \in 0..MaxNs /\ exc' \in BOOLEAN
  BY ParamAssumption DEF BeginModule, Typed
<1>10. sub' \in [Ns -> 0..MaxNs] /\ built' \subseteq Ns /\ early' \subseteq Ns
  <2>1. 0 \in 0..MaxNs
    BY ParamAssumption
  <2> QED
    BY <1>1, <2>1 DEF Typed
<1>11. stack' = Append(q, a)
  BY <1>1
<1> HIDE DEF q, a
<1>12. StackInv(stack', loadedModules', lp) /\ Returned'
  BY <1>6, <1>7, <1>8, <1>11 DEF Returned
<1> QED
  BY <1>3, <1>9, <1>10, <1>12 DEF Imported

\* execImport, whoever calls it and however it ends.
LEMMA ImportStep ==
    ASSUME Typed, NEW stk, NEW lp, StackInv(stk, loadedModules, lp),
           NEW f \in File, ExecImport(f, stk)
    PROVE  Imported(lp)'
<1>1. CASE FromCache(f, stk)
  <2>1. loadedModules[f] \in Ns
    BY <1>1 DEF FromCache, Typed, Ns
  <2>2. Deliver(loadedModules[f], stk)
    BY <1>1 DEF FromCache
  <2>3. stack' = stk /\ result' \in 0..MaxNs /\ early' \subseteq Ns /\ Returned'
    BY <2>1, <2>2, DeliverStep
  <2> QED
    BY <1>1, <2>3 DEF FromCache, Imported, Typed
<1>2. CASE NotLoaded(f, stk)
  <2>1. stack' = stk /\ result' \in 0..MaxNs /\ exc' \in BOOLEAN /\ Returned'
    BY <1>2, RaiseStep DEF NotLoaded
  <2> QED
    BY <1>2, <2>1 DEF NotLoaded, Imported, Typed, spaces
<1>3. ASSUME NEW n \in Free, loadedModules[f] = 0,
             loadedModules' = [loadedModules EXCEPT ![f] = n]
      PROVE  /\ n \in Ns
             /\ loadedModules' \in [File -> 0..MaxNs]
             /\ loadedModules'[f] = n
             /\ StackInv(stk, loadedModules', lp)
             /\ \A i \in 1..Len(stk) : stk[i].k = "file" => stk[i].of # f
  <2>1. n \in Ns /\ n \in 0..MaxNs
    BY ParamAssumption DEF Free, Ns
  <2>2. loadedModules \in [File -> 0..MaxNs]
    BY DEF Typed
  <2>3. /\ StackInv(stk, [loadedModules EXCEPT ![f] = n], lp)
        /\ \A i \in 1..Len(stk) : stk[i].k = "file" => stk[i].of # f
    BY <1>3, <2>2, CacheNew
  <2> QED
    BY <1>3, <2>1, <2>2, <2>3
<1>4. ASSUME NEW n \in Ns, NEW b \in BOOLEAN, New(n, b)
      PROVE  sub' \in [Ns -> 0..MaxNs] /\ built' \subseteq Ns
  BY <1>4, ParamAssumption DEF New, Typed
<1>5. CASE LoadNative(f, stk)
  <2>1. PICK n \in Free : /\ loadedModules' = [loadedModules EXCEPT ![f] = n]
                          /\ New(n, TRUE)
                          /\ Deliver(n, stk)
    BY <1>5 DEF LoadNative
  <2>2. loadedModules[f] = 0
    BY <1>5 DEF LoadNative
  <2>3. /\ n \in Ns
        /\ loadedModules' \in [File -> 0..MaxNs]
        /\ StackInv(stk, loadedModules', lp)
    BY <1>3, <2>1, <2>2
  <2>4. sub' \in [Ns -> 0..MaxNs] /\ built' \subseteq Ns
    BY <1>4, <2>1, <2>3
  <2>5. stack' = stk /\ result' \in 0..MaxNs /\ early' \subseteq Ns /\ Returned'
    BY <2>1, <2>3, DeliverStep
  <2> QED
    BY <1>5, <2>3, <2>4, <2>5 DEF LoadNative, Imported, Typed
<1>6. CASE Abandon(f, stk)
  <2>1. PICK n \in Free : /\ loadedModules' = [loadedModules EXCEPT ![f] = n]
                          /\ New(n, FALSE)
                          /\ early' = early \ {n}
    BY <1>6 DEF Abandon
  <2>2. loadedModules[f] = 0
    BY <1>6 DEF Abandon
  <2>3. /\ n \in Ns
        /\ loadedModules' \in [File -> 0..MaxNs]
        /\ StackInv(stk, loadedModules', lp)
    BY <1>3, <2>1, <2>2
  <2>4. sub' \in [Ns -> 0..MaxNs] /\ built' \subseteq Ns
    BY <1>4, <2>1, <2>3
  <2>5. stack' = stk /\ result' \in 0..MaxNs /\ exc' \in BOOLEAN /\ Returned'
    BY <1>6, RaiseStep DEF Abandon
  <2> QED
    BY <1>6, <2>1, <2>3, <2>4, <2>5 DEF Abandon, Imported, Typed
<1>7. CASE RunFile(f, stk)
  <2>1. PICK n \in Free : /\ loadedModules' = [loadedModules EXCEPT ![f] = n]
                          /\ BeginModule(f, n, stk)
    BY <1>7 DEF RunFile
  <2>2. loadedModules[f] = 0
    BY <1>7 DEF RunFile
  <2> QED
    BY <1>3, <2>1, <2>2, BeginStep
<1> QED
  BY <1>1, <1>2, <1>5, <1>6, <1>7 DEF ExecImport, NoFrame, NotCompiled

\* What a step of the program may start from.
LEMMA RunningFacts ==
    ASSUME IInv
    PROVE  /\ Running => ~exc /\ stack # <<>> /\ Top(stack).k \notin {"file", "pkg"}
           /\ stack \in Seq(Activity)
           /\ Len(stack) \in Nat
           /\ stack # <<>> => Len(stack) > 0 /\ Top(stack) = stack[Len(stack)]
                             /\ Top(stack) \in Activity
<1>1. stack \in Seq(Activity)
  BY DEF IInv, StackInv
<1> QED
  BY <1>1, TopType, LenProperties DEF Running, Tries, Calls, Top

\* An activity of the program begins.
LEMMA EnterStep ==
    ASSUME IInv, stack = <<>> \/ Running,
           NEW a \in Activity, a.k \notin {"file", "pkg"}, Enter(a)
    PROVE  StackInv(stack, loadedModules, loadingPackages)' /\ Returned'
<1>1. stack # <<>> => Top(stack).k # "pkg"
  BY RunningFacts
<1>2. StackInv(Append(stack, a), loadedModules, loadingPackages)
  BY <1>1, PushPlain DEF IInv
<1>3. Top(Append(stack, a)) = a
  BY RunningFacts, PushType
<1> QED
  BY <1>2, <1>3 DEF Enter, cache, Returned

\* Activities of the program end, above position n.
LEMMA LeaveStep ==
    ASSUME IInv, NEW n \in 0..(Len(stack) - 1), stack[n + 1].k # "file",
           \A j \in (n + 1)..Len(stack) : stack[j].k # "pkg",
           stack' = Cut(stack, n), UNCHANGED <<loadedModules, loadingPackages>>
    PROVE  StackInv(stack, loadedModules, loadingPackages)' /\ Returned'
<1>1. StackInv(stack, loadedModules, loadingPackages)
  BY DEF IInv
<1>2. /\ StackInv(Cut(stack, n), loadedModules, loadingPackages)
      /\ Cut(stack, n) # <<>> => Top(Cut(stack, n)).k # "pkg"
  BY <1>1, CutOnCode
<1> QED
  BY <1>2 DEF Returned

\* The one on top ends.
LEMMA PopStep ==
    ASSUME IInv, stack # <<>>, Top(stack).k \notin {"file", "pkg"},
           stack' = Pop(stack), UNCHANGED <<loadedModules, loadingPackages>>
    PROVE  StackInv(stack, loadedModules, loadingPackages)' /\ Returned'
<1>1. Pop(stack) = Cut(stack, Len(stack) - 1) /\ Len(stack) - 1 \in 0..(Len(stack) - 1)
  BY RunningFacts, PopIsCut
<1>2. stack[(Len(stack) - 1) + 1] = Top(stack)
  BY RunningFacts
<1>3. \A j \in ((Len(stack) - 1) + 1)..Len(stack) : stack[j] = Top(stack)
  BY RunningFacts
<1> QED
  BY <1>1, <1>2, <1>3, LeaveStep

\* The program steps that begin an activity.
LEMMA BeginSteps ==
    /\ IInv /\ Eval => IInv'
    /\ IInv /\ Call => IInv'
    /\ IInv /\ TryBegin => IInv'
    /\ IInv /\ NamespaceBegin => IInv'
<1>1. ASSUME IInv
      PROVE  Len(includes) \in Nat
  BY <1>1, LenProperties DEF IInv, Typed
<1>2. ASSUME NEW k \in Tries \cup Calls \cup {"ns"}, NEW n \in 0..MaxNs, NEW d \in Nat
      PROVE  Act(k, NoFile, n, d) \in Activity /\ Act(k, NoFile, n, d).k \notin {"file", "pkg"}
  BY <1>2 DEF Act, Activity, Tries, Calls
<1>3. 0 \in 0..MaxNs /\ 0 \in Nat
  BY ParamAssumption
<1>4. IInv /\ Eval => IInv'
  <2> SUFFICES ASSUME IInv, Eval PROVE IInv'
    OBVIOUS
  <2>1. "eval" \in Tries \cup Calls \cup {"ns"}
    BY DEF Calls
  <2>2. StackInv(stack, loadedModules, loadingPackages)' /\ Returned'
    BY <1>1, <1>2, <1>3, <2>1, EnterStep DEF Eval
  <2> QED
    BY <2>2 DEF Eval, Enter, cache, spaces, IInv, Typed
<1>5. IInv /\ Call => IInv'
  <2> SUFFICES ASSUME IInv, Call PROVE IInv'
    OBVIOUS
  <2>1. PICK k \in Tries \cup Calls \cup {"ns"} : Enter(Act(k, NoFile, 0, 0))
    BY DEF Call, Calls
  <2>2. StackInv(stack, loadedModules, loadingPackages)' /\ Returned'
    BY <1>2, <1>3, <2>1, EnterStep DEF Call
  <2> QED
    BY <2>1, <2>2 DEF Call, Enter, cache, spaces, IInv, Typed
<1>6. IInv /\ TryBegin => IInv'
  <2> SUFFICES ASSUME IInv, TryBegin PROVE IInv'
    OBVIOUS
  <2>1. PICK k \in Tries \cup Calls \cup {"ns"} :
          Enter(Act(k, NoFile, 0, Len(includes)))
    BY DEF TryBegin, Tries
  <2>2. StackInv(stack, loadedModules, loadingPackages)' /\ Returned'
    BY <1>1, <1>2, <1>3, <2>1, EnterStep DEF TryBegin
  <2> QED
    BY <2>1, <2>2 DEF TryBegin, Enter, cache, spaces, IInv, Typed
<1>7. IInv /\ NamespaceBegin => IInv'
  <2> SUFFICES ASSUME IInv, NamespaceBegin PROVE IInv'
    OBVIOUS
  <2>1. PICK n \in Free : /\ New(n, FALSE)
                          /\ early' = early \ {n}
                          /\ Enter(Act("ns", NoFile, n, 0))
                          /\ includes' = Append(includes, n)
    BY DEF NamespaceBegin
  <2>2. n \in Ns /\ n \in 0..MaxNs
    BY ParamAssumption DEF Free, Ns
  <2>3. StackInv(stack, loadedModules, loadingPackages)' /\ Returned'
    BY <1>2, <1>3, <2>1, <2>2, EnterStep DEF NamespaceBegin
  <2>4. includes' \in Seq(Ns)
    BY <2>1, <2>2, PushType DEF IInv, Typed
  <2>5. sub' \in [Ns -> 0..MaxNs] /\ built' \subseteq Ns /\ early' \subseteq Ns
    BY <1>3, <2>1 DEF New, IInv, Typed
  <2> QED
    BY <2>1, <2>3, <2>4, <2>5 DEF Enter, cache, IInv, Typed
<1> QED
  BY <1>4, <1>5, <1>6, <1>7

\* Those that end one, however control leaves it.
LEMMA EndSteps ==
    /\ IInv /\ TryEnd => IInv'
    /\ IInv /\ BuildNamespace => IInv'
    /\ IInv /\ Return => IInv'
    /\ IInv /\ Jump => IInv'
    /\ IInv /\ Throw => IInv'
<1>1. IInv /\ TryEnd => IInv'
  <2> SUFFICES ASSUME IInv, TryEnd PROVE IInv'
    OBVIOUS
  <2>1. stack # <<>> /\ Top(stack).k \notin {"file", "pkg"} /\ stack' = Pop(stack)
    BY RunningFacts DEF TryEnd
  <2>2. UNCHANGED <<loadedModules, loadingPackages>>
    BY DEF TryEnd, cache
  <2>3. StackInv(stack, loadedModules, loadingPackages)' /\ Returned'
    BY <2>1, <2>2, PopStep
  <2> QED
    BY <2>3 DEF TryEnd, cache, spaces, IInv, Typed
<1>2. IInv /\ BuildNamespace => IInv'
  <2> SUFFICES ASSUME IInv, BuildNamespace PROVE IInv'
    OBVIOUS
  <2>1. stack # <<>> /\ Top(stack).k \notin {"file", "pkg"} /\ stack' = Pop(stack)
    BY RunningFacts DEF BuildNamespace, Raise
  <2>2. UNCHANGED <<loadedModules, loadingPackages>>
    BY DEF BuildNamespace, cache
  <2>3. StackInv(stack, loadedModules, loadingPackages)' /\ Returned'
    BY <2>1, <2>2, PopStep
  <2>4. includes' \in Seq(Ns)
    BY PopType, EmptySeq DEF BuildNamespace, IInv, Typed
  <2>5. exc' \in BOOLEAN /\ result' \in 0..MaxNs
    <3>1. CASE exc' = TRUE /\ result' = 0
      BY <3>1, ParamAssumption
    <3>2. CASE exc' = exc /\ result' = result
      BY <3>2 DEF IInv, Typed
    <3> QED
      BY <3>1, <3>2 DEF BuildNamespace, Raise
  <2> QED
    BY <2>3, <2>4, <2>5 DEF BuildNamespace, cache, spaces, IInv, Typed
<1>3. IInv /\ Return => IInv'
  <2> SUFFICES ASSUME IInv, Return PROVE IInv'
    OBVIOUS
  <2>1. PICK i \in 1..Len(stack) :
          /\ FrameAt(i)
          /\ stack[i].k # "file"
          /\ stack' = Cut(stack, i - 1)
    BY DEF Return
  <2>2. i - 1 \in 0..(Len(stack) - 1) /\ stack[(i - 1) + 1] = stack[i]
    BY RunningFacts
  <2>3. \A j \in ((i - 1) + 1)..Len(stack) : stack[j].k # "pkg"
    BY <2>1, RunningFacts DEF FrameAt, Tries, Calls
  <2>4. UNCHANGED <<loadedModules, loadingPackages>>
    BY DEF Return, cache
  <2>5. StackInv(stack, loadedModules, loadingPackages)' /\ Returned'
    BY <2>1, <2>2, <2>3, <2>4, LeaveStep
  <2> QED
    BY <2>5 DEF Return, cache, spaces, IInv, Typed
<1>4. IInv /\ Jump => IInv'
  <2> SUFFICES ASSUME IInv, Jump PROVE IInv'
    OBVIOUS
  <2>1. PICK i \in 1..Len(stack), n \in 1..Len(stack) :
          /\ FrameAt(i)
          /\ n < Len(stack)
          /\ n >= i + (IF stack[i].k = "file" THEN 1 ELSE 0)
          /\ stack' = Cut(stack, n)
    BY DEF Jump
  <2>2. n \in 0..(Len(stack) - 1) /\ n + 1 \in (i + 1)..Len(stack)
    BY <2>1, RunningFacts
  <2>3. \A j \in (n + 1)..Len(stack) : stack[j].k \in Tries \cup {"ns"}
    BY <2>1, <2>2, RunningFacts DEF FrameAt
  <2>4. UNCHANGED <<loadedModules, loadingPackages>>
    BY DEF Jump, cache
  <2>5. stack[n + 1].k # "file" /\ \A j \in (n + 1)..Len(stack) : stack[j].k # "pkg"
    BY <2>1, <2>2, <2>3 DEF FrameAt, Tries
  <2>6. StackInv(stack, loadedModules, loadingPackages)' /\ Returned'
    BY <2>1, <2>2, <2>4, <2>5, LeaveStep
  <2> QED
    BY <2>6 DEF Jump, cache, spaces, IInv, Typed
<1>5. IInv /\ Throw => IInv'
  <2> SUFFICES ASSUME IInv, Throw PROVE IInv'
    OBVIOUS
  <2>1. stack' = stack /\ result' \in 0..MaxNs /\ exc' \in BOOLEAN /\ Returned'
    BY RaiseStep DEF Throw
  <2> QED
    BY <2>1 DEF Throw, cache, spaces, IInv, Typed
<1> QED
  BY <1>1, <1>2, <1>3, <1>4, <1>5

\* What execImport leaves behind, with the rest of the state.
LEMMA ImportedSuffices ==
    ASSUME Imported(loadingPackages)', packages' \in [Pkg -> 0..MaxNs],
           loadingPackages' \subseteq Pkg
    PROVE  IInv'
BY DEF Imported, IInv, Typed

\* A module returns a namespace: the nesting is left from its execImport on,
\* and its entry in the cache is the one it has.
LEMMA ReturnShape ==
    ASSUME IInv, ReturnNamespace
    PROVE  \E i \in 1..Len(stack) :
             /\ i - 1 \in 0..Len(stack)
             /\ stack[i].k = "file" /\ stack[i].ns \in Ns
             /\ \A j \in (i + 1)..Len(stack) : stack[j].k \in Tries \cup {"ns"}
             /\ loadedModules' = loadedModules
             /\ \/ Raise(Cut(stack, i - 1)) /\ UNCHANGED spaces
                \/ /\ built' = built \cup {stack[i].ns}
                   /\ sub' \in [Ns -> 0..MaxNs]
                   /\ UNCHANGED exc
                   /\ Deliver(stack[i].ns, Cut(stack, i - 1))
<1>1. PICK i \in 1..Len(stack) :
        /\ FrameAt(i)
        /\ stack[i].k = "file"
        /\ \/ Raise(Cut(stack, i - 1)) /\ UNCHANGED <<loadedModules, spaces>>
           \/ /\ loadedModules' = [loadedModules EXCEPT ![stack[i].of] = stack[i].ns]
              /\ built' = built \cup {stack[i].ns}
              /\ Merge(stack[i].ns)
              /\ UNCHANGED exc
              /\ Deliver(stack[i].ns, Cut(stack, i - 1))
  BY DEF ReturnNamespace
<1>2. /\ stack[i].of \in File /\ stack[i].ns \in Ns
      /\ loadedModules[stack[i].of] = stack[i].ns
      /\ loadedModules \in [File -> 0..MaxNs] /\ sub \in [Ns -> 0..MaxNs]
      /\ Len(stack) \in Nat
  BY <1>1, RunningFacts DEF IInv, Typed, StackInv, FileInv
<1>3. [loadedModules EXCEPT ![stack[i].of] = stack[i].ns] = loadedModules
  BY <1>2
<1>4. \A j \in (i + 1)..Len(stack) : stack[j].k \in Tries \cup {"ns"}
  BY <1>1 DEF FrameAt
<1>5. i - 1 \in 0..Len(stack)
  BY <1>2
<1>6. ASSUME Merge(stack[i].ns)
      PROVE  sub' \in [Ns -> 0..MaxNs]
  <2>1. PICK s \in {0} \cup {sub[m] : m \in Held \cap Ns} :
          sub' = [sub EXCEPT ![stack[i].ns] = IF s = 0 THEN @ ELSE s]
    BY <1>6 DEF Merge
  <2>2. s \in 0..MaxNs
    BY <1>2, <2>1, ParamAssumption
  <2> QED
    BY <1>2, <2>1, <2>2
<1> QED
  BY <1>1, <1>2, <1>3, <1>4, <1>5, <1>6

\* Importing a file, and the end of its code.
LEMMA FileSteps ==
    /\ IInv /\ Import => IInv'
    /\ IInv /\ EndModule => IInv'
    /\ IInv /\ ReturnFromModule => IInv'
    /\ IInv /\ ReturnNamespace => IInv'
<1>1. IInv /\ Import => IInv'
  <2> SUFFICES ASSUME IInv, Import PROVE IInv'
    OBVIOUS
  <2>1. PICK f \in File : ExecImport(f, stack)
    BY DEF Import
  <2>2. Typed /\ StackInv(stack, loadedModules, loadingPackages)
    BY DEF IInv
  <2>3. loadingPackages' = loadingPackages /\ packages' = packages
    BY DEF Import
  <2>4. Imported(loadingPackages)'
    BY <2>1, <2>2, <2>3, ImportStep DEF Imported
  <2> QED
    BY <2>2, <2>3, <2>4, ImportedSuffices DEF Typed
<1>2. IInv /\ EndModule => IInv'
  <2> SUFFICES ASSUME IInv, EndModule PROVE IInv'
    OBVIOUS
  <2> DEFINE n == Len(stack) - 2
             file == stack[Len(stack) - 1]
  <2>1. /\ n \in 0..Len(stack)
        /\ Len(stack) - 1 \in 1..Len(stack)
        /\ file.k = "file"
        /\ \A j \in (n + 1)..Len(stack) : stack[j].k \in {"file", "ns"}
    BY RunningFacts DEF EndModule, AtModuleBody
  <2>2. Typed /\ StackInv(stack, loadedModules, loadingPackages)
    BY DEF IInv
  <2>3. StackInv(Cut(stack, n), loadedModules, loadingPackages)
    <3> HIDE DEF n
    <3> QED
      BY <2>1, <2>2, CutKeeps
  <2>4. file.of \in File /\ file.ns \in Ns /\ loadedModules[file.of] = file.ns
    BY <2>1, <2>2 DEF StackInv, FileInv
  <2>5. /\ Pop(includes) \in Seq(Ns)
        /\ Cut(includes, Len(includes) - 2) \in Seq(Ns)
    <3>1. includes \in Seq(Ns) /\ Len(includes) \in Nat
      BY <2>2, LenProperties DEF Typed
    <3>2. Len(includes) - 2 \in Int /\ Len(includes) - 2 <= Len(includes)
      BY <3>1
    <3> QED
      BY <3>1, <3>2, PopType, CutBelow
  <2>6. UNCHANGED <<packages, loadingPackages>>
    BY DEF EndModule
  <2>7. CASE /\ Raise(Pop(stack))
             /\ includes' = Pop(includes)
             /\ UNCHANGED <<loadedModules, spaces>>
    <3>1. stack # <<>> /\ Pop(stack) = Cut(stack, Len(stack) - 1)
      BY RunningFacts, PopIsCut DEF EndModule
    <3>2. StackInv(Pop(stack), loadedModules, loadingPackages)
      <4>1. Len(stack) - 1 \in 0..Len(stack)
        BY RunningFacts, <3>1
      <4>2. \A j \in ((Len(stack) - 1) + 1)..Len(stack) : stack[j].k # "pkg"
        BY <2>1, RunningFacts
      <4> QED
        BY <2>2, <3>1, <4>1, <4>2, CutKeeps
    <3>3. stack' = Pop(stack) /\ result' \in 0..MaxNs /\ exc' \in BOOLEAN /\ Returned'
      BY <2>7, RaiseStep
    <3> QED
      BY <2>2, <2>5, <2>6, <2>7, <3>2, <3>3 DEF spaces, IInv, Typed
  <2>8. CASE /\ Raise(Cut(stack, n))
             /\ includes' = Cut(includes, Len(includes) - 2)
             /\ UNCHANGED <<loadedModules, spaces>>
    <3>1. stack' = Cut(stack, n) /\ result' \in 0..MaxNs /\ exc' \in BOOLEAN /\ Returned'
      BY <2>8, RaiseStep
    <3> QED
      BY <2>2, <2>3, <2>5, <2>6, <2>8, <3>1 DEF spaces, IInv, Typed
  <2>9. CASE /\ includes' = Cut(includes, Len(includes) - 2)
             /\ loadedModules' = [loadedModules EXCEPT ![file.of] = file.ns]
             /\ built' = built \cup {file.ns}
             /\ UNCHANGED <<exc, sub>>
             /\ Deliver(file.ns, Cut(stack, n))
    <3>1. loadedModules' = loadedModules
      BY <2>2, <2>4, <2>9 DEF Typed
    <3>2. /\ stack' = Cut(stack, n)
          /\ result' \in 0..MaxNs
          /\ early' \subseteq Ns
          /\ Returned'
      BY <2>2, <2>4, <2>9, DeliverStep
    <3>3. built' \subseteq Ns
      BY <2>2, <2>4, <2>9 DEF Typed
    <3> QED
      BY <2>2, <2>3, <2>5, <2>6, <2>9, <3>1, <3>2, <3>3 DEF IInv, Typed
  <2> QED
    BY <2>7, <2>8, <2>9 DEF EndModule
<1>3. IInv /\ ReturnFromModule => IInv'
  <2> SUFFICES ASSUME IInv, ReturnFromModule PROVE IInv'
    OBVIOUS
  <2>1. PICK i \in 1..Len(stack) :
          /\ FrameAt(i)
          /\ stack[i].k = "file"
          /\ Forget(stack[i])
          /\ Raise(Cut(stack, i - 1))
    BY DEF ReturnFromModule
  <2>2. Typed /\ StackInv(stack, loadedModules, loadingPackages)
    BY DEF IInv
  <2>3. \A j \in (i + 1)..Len(stack) : stack[j].k # "pkg"
    BY <2>1 DEF FrameAt, Tries
  <2>4. StackInv(Cut(stack, i - 1), loadedModules', loadingPackages)
    BY <2>1, <2>2, <2>3, CutForgets DEF Forget, Typed
  <2>5. /\ stack' = Cut(stack, i - 1)
        /\ result' \in 0..MaxNs
        /\ exc' \in BOOLEAN
        /\ Returned'
    BY <2>1, RaiseStep
  <2>6. includes' \in Seq(Ns)
    BY <2>2, PopType DEF ReturnFromModule, Typed
  <2>7. loadedModules' \in [File -> 0..MaxNs]
    <3>1. 0 \in 0..MaxNs
      BY ParamAssumption
    <3> QED
      BY <2>1, <2>2, <3>1 DEF Forget, Typed
  <2> QED
    BY <2>2, <2>4, <2>5, <2>6, <2>7 DEF ReturnFromModule, spaces, IInv, Typed
<1>4. IInv /\ ReturnNamespace => IInv'
  <2> SUFFICES ASSUME IInv, ReturnNamespace PROVE IInv'
    OBVIOUS
  <2>1. PICK i \in 1..Len(stack) :
          /\ i - 1 \in 0..Len(stack)
          /\ stack[i].k = "file" /\ stack[i].ns \in Ns
          /\ \A j \in (i + 1)..Len(stack) : stack[j].k \in Tries \cup {"ns"}
          /\ loadedModules' = loadedModules
          /\ \/ Raise(Cut(stack, i - 1)) /\ UNCHANGED spaces
             \/ /\ built' = built \cup {stack[i].ns}
                /\ sub' \in [Ns -> 0..MaxNs]
                /\ UNCHANGED exc
                /\ Deliver(stack[i].ns, Cut(stack, i - 1))
    BY ReturnShape
  <2>2. Typed /\ StackInv(stack, loadedModules, loadingPackages)
    BY DEF IInv
  <2> DEFINE n == i - 1
  <2>3. StackInv(Cut(stack, n), loadedModules, loadingPackages)
    <3>1. \A j \in (n + 1)..Len(stack) : stack[j].k # "pkg"
      BY <2>1, RunningFacts DEF Tries
    <3>2. n \in 0..Len(stack)
      BY <2>1
    <3> HIDE DEF n
    <3> QED
      BY <2>2, <3>1, <3>2, CutKeeps
  <2>4. includes' \in Seq(Ns) /\ UNCHANGED <<packages, loadingPackages>>
    BY <2>2, PopType DEF ReturnNamespace, Typed
  <2>5. CASE Raise(Cut(stack, n)) /\ UNCHANGED spaces
    <3>1. stack' = Cut(stack, n) /\ result' \in 0..MaxNs /\ exc' \in BOOLEAN /\ Returned'
      BY <2>5, RaiseStep
    <3> QED
      BY <2>1, <2>2, <2>3, <2>4, <2>5, <3>1 DEF spaces, IInv, Typed
  <2>6. CASE /\ built' = built \cup {stack[i].ns}
             /\ sub' \in [Ns -> 0..MaxNs]
             /\ UNCHANGED exc
             /\ Deliver(stack[i].ns, Cut(stack, n))
    <3>1. /\ stack' = Cut(stack, n)
          /\ result' \in 0..MaxNs
          /\ early' \subseteq Ns
          /\ Returned'
      BY <2>1, <2>2, <2>6, DeliverStep
    <3>2. built' \subseteq Ns
      BY <2>1, <2>2, <2>6 DEF Typed
    <3> QED
      BY <2>1, <2>2, <2>3, <2>4, <2>6, <3>1, <3>2 DEF IInv, Typed
  <2> QED
    BY <2>1, <2>5, <2>6
<1> QED
  BY <1>1, <1>2, <1>3, <1>4

\* A package import ends with a namespace.
LEMMA FinishStep ==
    ASSUME IInv, stack # <<>>, Top(stack).k = "pkg", NEW n \in Ns,
           FinishPackage(Top(stack).of, n), loadedModules' = loadedModules
    PROVE  /\ packages' \in [Pkg -> 0..MaxNs]
           /\ loadingPackages' \subseteq Pkg
           /\ result' \in 0..MaxNs
           /\ early' \subseteq Ns
           /\ StackInv(stack, loadedModules, loadingPackages)'
           /\ Returned'
<1>1. Typed /\ StackInv(stack, loadedModules, loadingPackages)
  BY DEF IInv
<1>2. StackInv(Pop(stack), loadedModules, loadingPackages \ {Top(stack).of})
  BY <1>1, PopPkg
<1>3. /\ stack' = Pop(stack)
      /\ result' \in 0..MaxNs
      /\ early' \subseteq Ns
      /\ Returned'
  BY <1>1, DeliverStep DEF FinishPackage
<1>4. n \in 0..MaxNs
  BY ParamAssumption DEF Ns
<1>5. packages' \in [Pkg -> 0..MaxNs]
  BY <1>1, <1>4 DEF FinishPackage, Typed
<1>6. loadingPackages' = loadingPackages \ {Top(stack).of} /\ loadingPackages' \subseteq Pkg
  BY <1>1 DEF FinishPackage, Typed
<1> QED
  BY <1>2, <1>3, <1>5, <1>6

\* Importing a package: its init module, its submodule, and their order.
LEMMA PackageSteps ==
    /\ IInv /\ ImportPackage => IInv'
    /\ IInv /\ PackageInit => IInv'
    /\ IInv /\ PackageAttach => IInv'
<1>1. IInv /\ ImportPackage => IInv'
  <2> SUFFICES ASSUME IInv, ImportPackage PROVE IInv'
    OBVIOUS
  <2>1. Typed /\ StackInv(stack, loadedModules, loadingPackages)
    BY DEF IInv
  <2>2. packages' = packages
    BY DEF ImportPackage
  <2>3. CASE \E p \in Pkg :
               /\ packages[p] # 0
               /\ UNCHANGED <<loadedModules, loadingPackages, includes, exc, sub, built>>
               /\ Deliver(packages[p], stack)
    <3>1. PICK p \in Pkg : packages[p] # 0 /\ Deliver(packages[p], stack)
      BY <2>3
    <3>2. packages[p] \in Ns
      BY <2>1, <3>1 DEF Typed, Ns
    <3>3. /\ stack' = stack
          /\ result' \in 0..MaxNs
          /\ early' \subseteq Ns
          /\ Returned'
      BY <2>1, <3>1, <3>2, DeliverStep
    <3> QED
      BY <2>1, <2>2, <2>3, <3>3 DEF IInv, Typed
  <2>4. CASE /\ Raise(stack)
             /\ UNCHANGED <<loadedModules, loadingPackages, includes, spaces>>
    <3>1. stack' = stack /\ result' \in 0..MaxNs /\ exc' \in BOOLEAN /\ Returned'
      BY <2>4, RaiseStep
    <3> QED
      BY <2>1, <2>2, <2>4, <3>1 DEF spaces, IInv, Typed
  <2>5. CASE \E p \in Pkg :
               /\ StartPackage(p)
               /\ ExecImport(InitOf[p], Append(stack, Act("pkg", p, 0, 0)))
    <3>1. PICK p \in Pkg : /\ StartPackage(p)
                           /\ ExecImport(InitOf[p], Append(stack, Act("pkg", p, 0, 0)))
      BY <2>5
    <3>2. stack # <<>> => Top(stack).k # "pkg"
      BY RunningFacts DEF ImportPackage
    <3>3. StackInv(Append(stack, Act("pkg", p, 0, 0)), loadedModules, loadingPackages \cup {p})
      BY <2>1, <3>1, <3>2, PushPkg DEF StartPackage
    <3>4. InitOf[p] \in File
      BY ParamAssumption
    <3>5. loadingPackages' = loadingPackages \cup {p} /\ loadingPackages' \subseteq Pkg
      BY <2>1, <3>1 DEF StartPackage, Typed
    <3>6. Imported(loadingPackages)'
      BY <2>1, <3>1, <3>3, <3>4, <3>5, ImportStep DEF Imported
    <3> QED
      BY <2>1, <2>2, <3>5, <3>6, ImportedSuffices DEF Typed
  <2> QED
    BY <2>3, <2>4, <2>5 DEF ImportPackage
<1>2. IInv /\ PackageInit => IInv'
  <2> SUFFICES ASSUME IInv, PackageInit PROVE IInv'
    OBVIOUS
  <2>1. Typed /\ StackInv(stack, loadedModules, loadingPackages)
    BY DEF IInv
  <2>2. stack # <<>> /\ Top(stack).k = "pkg" /\ result \in Ns
    BY DEF PackageInit, IInv, Returned
  <2>3. CASE /\ UNCHANGED <<loadedModules, includes, exc, sub, built>>
             /\ FinishPackage(Top(stack).of, result)
    <3>1. /\ packages' \in [Pkg -> 0..MaxNs]
          /\ loadingPackages' \subseteq Pkg
          /\ result' \in 0..MaxNs
          /\ early' \subseteq Ns
          /\ StackInv(stack, loadedModules, loadingPackages)'
          /\ Returned'
      BY <2>2, <2>3, FinishStep
    <3> QED
      BY <2>1, <2>3, <3>1 DEF IInv, Typed
  <2>4. CASE /\ SubOf[Top(stack).of] # NoFile
             /\ UNCHANGED <<packages, loadingPackages>>
             /\ ExecImport(SubOf[Top(stack).of], [stack EXCEPT ![Len(stack)].ns = result])
    <3>1. Top(stack).of \in Pkg
      <4>1. Len(stack) \in 1..Len(stack) /\ Top(stack) = stack[Len(stack)]
        BY <2>2, RunningFacts
      <4>2. Top(stack).of \in loadingPackages
        BY <2>1, <2>2, <4>1 DEF StackInv, PkgsOf
      <4> QED
        BY <2>1, <4>2 DEF Typed
    <3>2. SubOf[Top(stack).of] \in File
      BY <2>4, <3>1, ParamAssumption
    <3>3. result \in 0..MaxNs
      BY <2>1 DEF Typed
    <3>4. StackInv([stack EXCEPT ![Len(stack)].ns = result], loadedModules, loadingPackages)
      BY <2>1, <2>2, <3>3, SetRoot
    <3>5. Imported(loadingPackages)'
      BY <2>1, <2>4, <3>2, <3>4, ImportStep DEF Imported
    <3> QED
      BY <2>1, <2>4, <3>5, ImportedSuffices DEF Typed
  <2>5. CASE /\ Raise(stack)
             /\ UNCHANGED <<loadedModules, packages, loadingPackages, includes, spaces>>
    <3>1. stack' = stack /\ result' \in 0..MaxNs /\ exc' \in BOOLEAN /\ Returned'
      BY <2>5, RaiseStep
    <3> QED
      BY <2>1, <2>5, <3>1 DEF spaces, IInv, Typed
  <2> QED
    BY <2>3, <2>4, <2>5 DEF PackageInit
<1>3. IInv /\ PackageAttach => IInv'
  <2> SUFFICES ASSUME IInv, PackageAttach PROVE IInv'
    OBVIOUS
  <2>1. Typed /\ StackInv(stack, loadedModules, loadingPackages)
    BY DEF IInv
  <2>2. stack # <<>> /\ Top(stack).k = "pkg" /\ Top(stack).ns # 0
    BY DEF PackageAttach
  <2>3. UNCHANGED <<loadedModules, includes>>
    BY DEF PackageAttach
  <2>4. CASE /\ sub' = [sub EXCEPT ![Top(stack).ns] = result]
             /\ UNCHANGED <<exc, built>>
             /\ FinishPackage(Top(stack).of, Top(stack).ns)
    <3>1. Top(stack).ns \in Ns
      BY <2>2, RunningFacts DEF Activity, Ns
    <3>2. /\ packages' \in [Pkg -> 0..MaxNs]
          /\ loadingPackages' \subseteq Pkg
          /\ result' \in 0..MaxNs
          /\ early' \subseteq Ns
          /\ StackInv(stack, loadedModules, loadingPackages)'
          /\ Returned'
      BY <2>2, <2>3, <2>4, <3>1, FinishStep
    <3>3. sub' \in [Ns -> 0..MaxNs]
      BY <2>1, <2>4 DEF Typed
    <3> QED
      BY <2>1, <2>3, <2>4, <3>2, <3>3 DEF IInv, Typed
  <2>5. CASE /\ Raise(stack)
             /\ UNCHANGED <<packages, loadingPackages, spaces>>
    <3>1. stack' = stack /\ result' \in 0..MaxNs /\ exc' \in BOOLEAN /\ Returned'
      BY <2>5, RaiseStep
    <3> QED
      BY <2>1, <2>3, <2>5, <3>1 DEF spaces, IInv, Typed
  <2> QED
    BY <2>4, <2>5 DEF PackageAttach
<1> QED
  BY <1>1, <1>2, <1>3

\* includeNamespaceStack.resize() to a smaller depth.
LEMMA RestoreType ==
    ASSUME includes \in Seq(Ns), NEW d \in Nat, RestoreIncludes(d)
    PROVE  includes' \in Seq(Ns)
<1>1. /\ Smaller(d, Len(includes)) \in Int
      /\ Smaller(d, Len(includes)) <= Len(includes)
  BY LenProperties DEF Smaller
<1> QED
  BY <1>1, CutBelow DEF RestoreIncludes

\* An exception propagates, or is caught; /clear at the prompt.
LEMMA ExceptionSteps ==
    /\ IInv /\ Catch => IInv'
    /\ IInv /\ Leave => IInv'
    /\ IInv /\ FailFile => IInv'
    /\ IInv /\ FailPackage => IInv'
    /\ IInv /\ FailEval => IInv'
    /\ IInv /\ ClearGlobals => IInv'
<1>1. ASSUME IInv
      PROVE  /\ Typed
             /\ StackInv(stack, loadedModules, loadingPackages)
             /\ stack # <<>> => Top(stack).inc \in Nat
  BY <1>1, RunningFacts DEF IInv, Activity
<1>2. IInv /\ Catch => IInv'
  <2> SUFFICES ASSUME IInv, Catch PROVE IInv'
    OBVIOUS
  <2>1. stack # <<>> /\ Top(stack).k \notin {"file", "pkg"} /\ stack' = Pop(stack)
    BY DEF Catch, Raised, Tries
  <2>2. UNCHANGED <<loadedModules, loadingPackages>>
    BY DEF Catch, cache
  <2>3. StackInv(stack, loadedModules, loadingPackages)' /\ Returned'
    BY <2>1, <2>2, PopStep
  <2>4. includes' \in Seq(Ns)
    BY <1>1, <2>1, RestoreType DEF Catch, Typed
  <2> QED
    BY <2>3, <2>4 DEF Catch, cache, spaces, IInv, Typed
<1>3. IInv /\ Leave => IInv'
  <2> SUFFICES ASSUME IInv, Leave PROVE IInv'
    OBVIOUS
  <2>1. stack # <<>> /\ Top(stack).k \notin {"file", "pkg"} /\ stack' = Pop(stack)
    BY DEF Leave, Raised
  <2>2. UNCHANGED <<loadedModules, loadingPackages>>
    BY DEF Leave, cache
  <2>3. StackInv(stack, loadedModules, loadingPackages)' /\ Returned'
    BY <2>1, <2>2, PopStep
  <2>4. exc' \in BOOLEAN
    BY DEF Leave
  <2> QED
    BY <2>3, <2>4 DEF Leave, cache, spaces, IInv, Typed
<1>4. IInv /\ FailFile => IInv'
  <2> SUFFICES ASSUME IInv, FailFile PROVE IInv'
    OBVIOUS
  <2>1. stack # <<>> /\ Top(stack).k = "file" /\ exc
    BY DEF FailFile, Raised
  <2>2. /\ Len(stack) \in 1..Len(stack)
        /\ Top(stack) = stack[Len(stack)]
        /\ Pop(stack) = Cut(stack, Len(stack) - 1)
        /\ \A j \in (Len(stack) + 1)..Len(stack) : stack[j].k # "pkg"
    BY <2>1, RunningFacts, PopIsCut
  <2>3. StackInv(Pop(stack), [loadedModules EXCEPT ![Top(stack).of] = 0], loadingPackages)
    BY <1>1, <2>1, <2>2, CutForgets DEF Typed
  <2>4. /\ stack' = Pop(stack)
        /\ loadedModules' = [loadedModules EXCEPT ![Top(stack).of] = 0]
        /\ loadingPackages' = loadingPackages
    BY DEF FailFile, Forget
  <2>5. loadedModules' \in [File -> 0..MaxNs]
    <3>1. 0 \in 0..MaxNs
      BY ParamAssumption
    <3> QED
      BY <1>1, <2>4, <3>1 DEF Typed
  <2>6. includes' \in Seq(Ns)
    BY <1>1, PopType DEF FailFile, Typed
  <2>7. Returned'
    BY <2>1 DEF FailFile, Returned
  <2> QED
    BY <1>1, <2>3, <2>4, <2>5, <2>6, <2>7 DEF FailFile, spaces, IInv, Typed
<1>5. IInv /\ FailPackage => IInv'
  <2> SUFFICES ASSUME IInv, FailPackage PROVE IInv'
    OBVIOUS
  <2>1. stack # <<>> /\ Top(stack).k = "pkg" /\ exc
    BY DEF FailPackage, Raised
  <2>2. StackInv(Pop(stack), loadedModules, loadingPackages \ {Top(stack).of})
    BY <1>1, <2>1, PopPkg
  <2>3. Returned'
    BY <2>1 DEF FailPackage, Returned
  <2>4. loadingPackages' \subseteq Pkg
    BY <1>1 DEF FailPackage, Typed
  <2> QED
    BY <1>1, <2>2, <2>3, <2>4 DEF FailPackage, spaces, IInv, Typed
<1>6. IInv /\ FailEval => IInv'
  <2> SUFFICES ASSUME IInv, FailEval PROVE IInv'
    OBVIOUS
  <2>1. stack # <<>> /\ Top(stack).k \notin {"file", "pkg"} /\ stack' = Pop(stack)
    BY DEF FailEval, Raised
  <2>2. UNCHANGED <<loadedModules, loadingPackages>>
    BY DEF FailEval, cache
  <2>3. StackInv(stack, loadedModules, loadingPackages)' /\ Returned'
    BY <2>1, <2>2, PopStep
  <2>4. includes' \in Seq(Ns)
    BY <1>1, <2>1, RestoreType DEF FailEval, Typed
  <2>5. exc' \in BOOLEAN
    BY DEF FailEval
  <2> QED
    BY <2>3, <2>4, <2>5 DEF FailEval, cache, spaces, IInv, Typed
<1>7. IInv /\ ClearGlobals => IInv'
  <2> SUFFICES ASSUME IInv, ClearGlobals PROVE IInv'
    OBVIOUS
  <2>1. stack = <<>> /\ stack' = <<>> /\ Len(stack) = 0
    BY EmptySeq DEF ClearGlobals
  <2>2. StackInv(stack', loadedModules', loadingPackages')
    BY <1>1, <2>1 DEF ClearGlobals, StackInv
  <2>3. Returned'
    BY <2>1 DEF Returned
  <2>4. loadedModules' \in [File -> 0..MaxNs] /\ packages' \in [Pkg -> 0..MaxNs]
    BY ParamAssumption DEF ClearGlobals
  <2> QED
    BY <1>1, <2>2, <2>3, <2>4 DEF ClearGlobals, spaces, IInv, Typed
<1> QED
  BY <1>2, <1>3, <1>4, <1>5, <1>6, <1>7

----------------------------------------------------------------------------
(* The theorems.                                                            *)

\* The invariant holds initially,
LEMMA IInvInit == Init => IInv
<1> SUFFICES ASSUME Init PROVE IInv
  OBVIOUS
<1>1. stack = <<>> /\ stack \in Seq(Activity) /\ Len(stack) = 0
  BY EmptySeq DEF Init
<1>2. StackInv(stack, loadedModules, loadingPackages)
  BY <1>1 DEF Init, StackInv, PkgsOf
<1>3. Typed
  <2>1. 0 \in 0..MaxNs
    BY ParamAssumption
  <2>2. includes \in Seq(Ns)
    BY EmptySeq DEF Init
  <2>3. exc \in BOOLEAN /\ loadingPackages \subseteq Pkg /\ built \subseteq Ns /\ early \subseteq Ns
    BY DEF Init
  <2> QED
    BY <2>1, <2>2, <2>3 DEF Init, Typed
<1> QED
  BY <1>1, <1>2, <1>3 DEF IInv, Returned

\* every step of the loader and of the program preserves it,
LEMMA IInvNext == IInv /\ [Next]_vars => IInv'
<1> SUFFICES ASSUME IInv, [Next]_vars PROVE IInv'
  OBVIOUS
<1>1. CASE UNCHANGED vars
  BY <1>1 DEF vars, IInv, Typed, Returned
<1>2. CASE Next
  BY <1>2, BeginSteps, EndSteps, FileSteps, PackageSteps, ExceptionSteps DEF Next
<1> QED
  BY <1>1, <1>2

\* and it implies the three properties.
LEMMA IInvProperties == IInv => TypeOK /\ LoadedOnce /\ LoadingExact
<1> SUFFICES ASSUME IInv PROVE TypeOK /\ LoadedOnce /\ LoadingExact
  OBVIOUS
<1>1. TypeOK
  BY DEF TypeOK, IInv, Typed, StackInv
<1>2. LoadedOnce
  BY DEF LoadedOnce, IInv, StackInv, FileInv
<1>3. LoadingExact
  <2>1. ASSUME NEW i \in 1..Len(stack), NEW j \in 1..Len(stack), j < i,
               stack[i].k = "pkg", stack[j].k = "pkg"
        PROVE  stack[j].of # stack[i].of
    <3>1. j \in 1..(i - 1)
      BY <2>1, RunningFacts
    <3> QED
      BY <2>1, <3>1 DEF IInv, StackInv, PkgInv
  <2>2. \A i, j \in 1..Len(stack) :
          stack[i].k = "pkg" /\ stack[j].k = "pkg" /\ stack[i].of = stack[j].of => i = j
    <3> SUFFICES ASSUME NEW i \in 1..Len(stack), NEW j \in 1..Len(stack),
                        stack[i].k = "pkg", stack[j].k = "pkg", i # j
                 PROVE  stack[i].of # stack[j].of
      OBVIOUS
    <3>1. i < j \/ j < i
      BY RunningFacts
    <3> QED
      BY <2>1, <3>1
  <2> QED
    BY <2>2 DEF LoadingExact, IInv, StackInv, PkgsOf
<1> QED
  BY <1>1, <1>2, <1>3

\* The loader's state stays well typed, whatever modules do while they load:
\* in particular execPackageImport always goes on with a namespace.
THEOREM TypeCorrect == Spec => []TypeOK
<1>1. Init => IInv
  BY IInvInit
<1>2. IInv /\ [Next]_vars => IInv'
  BY IInvNext
<1>3. IInv => TypeOK
  BY IInvProperties
<1> QED
  BY <1>1, <1>2, <1>3, PTL DEF Spec

\* No module is executed inside itself, so cyclic imports end: every module
\* being loaded is in loadedModules with its own namespace, although imports
\* inside it fail, are caught, and erase entries.
THEOREM ModulesLoadedOnce == Spec => []LoadedOnce
<1>1. Init => IInv
  BY IInvInit
<1>2. IInv /\ [Next]_vars => IInv'
  BY IInvNext
<1>3. IInv => LoadedOnce
  BY IInvProperties
<1> QED
  BY <1>1, <1>2, <1>3, PTL DEF Spec

\* loadingPackages is the set of package imports in progress, each once: a
\* package whose import failed can be imported again, and one in progress is
\* always reported as circular.
THEOREM PackagesLoadingExact == Spec => []LoadingExact
<1>1. Init => IInv
  BY IInvInit
<1>2. IInv /\ [Next]_vars => IInv'
  BY IInvNext
<1>3. IInv => LoadingExact
  BY IInvProperties
<1> QED
  BY <1>1, <1>2, <1>3, PTL DEF Spec
----------------------------------------------------------------------------
(* The caches are sound until one of the listed disturbances.               *)

\* No two files share a namespace.
Apart ==
    \A f, g \in File :
      loadedModules[f] = loadedModules[g] /\ loadedModules[f] # 0 => f = g

\* A package that is being imported is not in the cache yet.
InProgress == \A p \in loadingPackages : packages[p] = 0

\* Below position i of st, the module of namespace n is running; or it has run.
LoadedBelow(st, b, n, i) ==
    n \in b \/ \E j \in 1..(i - 1) : st[j].k = "file" /\ st[j].ns = n

\* The roots that package imports in progress will hand out.
RootsOn(st, b) ==
    \A i \in 1..Len(st) :
      st[i].k = "pkg" /\ st[i].ns # 0 => LoadedBelow(st, b, st[i].ns, i)

RootReturned ==
    ~exc /\ stack # <<>> /\ Top(stack).k = "pkg"
      => LoadedBelow(stack, built, result, Len(stack))

RootsCached == \A p \in Pkg : packages[p] # 0 => packages[p] \in built

RootsSound == RootsOn(stack, built) /\ RootReturned /\ RootsCached

CacheInv ==
    /\ IInv /\ Apart /\ InProgress
    /\ FilesSoundUndisturbed
    /\ seen \cap {"abandon", "conflict", "unfinished"} = {} => RootsSound

\* The modules being loaded are at the same places of st.
FilesStay(st) ==
    \A i \in 1..Len(stack) :
      stack[i].k = "file" => i \in 1..Len(st) /\ st[i] = stack[i]

\* What the loader refers to is not handed out again.
LEMMA FreeFacts ==
    ASSUME NEW n \in Free
    PROVE  /\ n \in Ns /\ n # 0 /\ n # result
           /\ \A f \in File : loadedModules[f] # n
           /\ \A p \in Pkg : packages[p] # n
           /\ \A i \in 1..Len(stack) : stack[i].ns # n
BY DEF Free, Held, Ns

\* A module that has run stays so while the loader refers to it.
LEMMA BuiltKept ==
    ASSUME [Next]_vars, NEW n \in built, n \notin Free
    PROVE  n \in built'
<1>1. ASSUME NEW f, NEW stk, ExecImport(f, stk)
      PROVE  n \in built'
  <2>1. CASE FromCache(f, stk) \/ NotLoaded(f, stk)
    BY <2>1 DEF FromCache, NotLoaded, spaces
  <2>2. CASE LoadNative(f, stk) \/ Abandon(f, stk)
    BY <2>2 DEF LoadNative, Abandon, New
  <2>3. CASE RunFile(f, stk)
    BY <2>3 DEF RunFile, BeginModule, IsLeast
  <2> QED
    BY <1>1, <2>1, <2>2, <2>3 DEF ExecImport, NoFrame, NotCompiled
<1>2. CASE Import
  BY <1>1, <1>2 DEF Import
<1>3. CASE ImportPackage
  BY <1>1, <1>3, ParamAssumption DEF ImportPackage, spaces
<1>4. CASE PackageInit /\ ~UNCHANGED built
  <2>1. PICK f, stk : ExecImport(f, stk)
    BY <1>4 DEF PackageInit, spaces
  <2> QED
    BY <1>1, <2>1
<1>5. CASE NamespaceBegin
  BY <1>5 DEF NamespaceBegin, New
<1>6. CASE EndModule \/ ReturnNamespace
  BY <1>6 DEF EndModule, ReturnNamespace, spaces
<1> QED
  BY <1>2, <1>3, <1>4, <1>5, <1>6
  DEF Next, vars, spaces, Eval, Call, TryBegin, TryEnd, BuildNamespace, Return,
      Jump, Throw, ReturnFromModule, PackageInit, PackageAttach, Catch, Leave, FailFile,
      FailPackage, FailEval, ClearGlobals

\* Nothing changes what is below in the nesting of the program.
LEMMA SamePrefix ==
    ASSUME NEW st \in Seq(Activity), NEW q \in Seq(Activity), NEW b, NEW c,
           RootsOn(st, b), Len(q) <= Len(st),
           \A i \in 1..Len(q) : q[i] = st[i],
           \A i \in 1..Len(st) : st[i].k = "pkg" /\ st[i].ns \in b => st[i].ns \in c
    PROVE  RootsOn(q, c)
<1>1. Len(st) \in Nat /\ Len(q) \in Nat
  BY LenProperties
<1>2. SUFFICES ASSUME NEW i \in 1..Len(q), q[i].k = "pkg", q[i].ns # 0
               PROVE  LoadedBelow(q, c, q[i].ns, i)
  BY DEF RootsOn
<1>3. i \in 1..Len(st) /\ LoadedBelow(st, b, q[i].ns, i)
  BY <1>1, <1>2 DEF RootsOn
<1>4. \A j \in 1..(i - 1) : q[j] = st[j]
  BY <1>1, <1>2
<1> QED
  BY <1>2, <1>3, <1>4 DEF LoadedBelow

\* A new activity is no package import that has its root already.
LEMMA RootsPush ==
    ASSUME NEW st \in Seq(Activity), NEW b, RootsOn(st, b),
           NEW a \in Activity, a.k = "pkg" => a.ns = 0
    PROVE  RootsOn(Append(st, a), b)
<1> DEFINE q == Append(st, a)
<1>1. /\ Len(st) \in Nat
      /\ Len(q) = Len(st) + 1
      /\ q[Len(st) + 1] = a
      /\ \A i \in 1..Len(st) : q[i] = st[i]
  BY PushType, LenProperties
<1> HIDE DEF q
<1>2. SUFFICES ASSUME NEW i \in 1..Len(q), q[i].k = "pkg", q[i].ns # 0
               PROVE  LoadedBelow(q, b, q[i].ns, i)
  BY DEF RootsOn, q
<1>3. i \in 1..Len(st) /\ LoadedBelow(st, b, q[i].ns, i)
  BY <1>1, <1>2 DEF RootsOn
<1>4. \A j \in 1..(i - 1) : q[j] = st[j]
  BY <1>1, <1>3
<1> QED
  BY <1>3, <1>4 DEF LoadedBelow

\* execPackageImport keeps a root that is sound.
LEMMA RootsSet ==
    ASSUME NEW st \in Seq(Activity), NEW b, RootsOn(st, b), st # <<>>,
           Top(st).k = "pkg", NEW n \in 0..MaxNs, LoadedBelow(st, b, n, Len(st))
    PROVE  /\ RootsOn([st EXCEPT ![Len(st)].ns = n], b)
           /\ Len([st EXCEPT ![Len(st)].ns = n]) = Len(st)
           /\ \A i \in 1..(Len(st) - 1) : [st EXCEPT ![Len(st)].ns = n][i] = st[i]
           /\ Top([st EXCEPT ![Len(st)].ns = n]).k = "pkg"
           /\ Top([st EXCEPT ![Len(st)].ns = n]).ns = n
<1> DEFINE q == [st EXCEPT ![Len(st)].ns = n]
           a == [Top(st) EXCEPT !.ns = n]
<1>1. Len(st) \in Nat /\ Len(st) > 0 /\ Top(st) = st[Len(st)] /\ Top(st) \in Activity
  BY TopType DEF Top
<1>2. a \in Activity /\ a.k = "pkg" /\ a.ns = n
  BY <1>1 DEF Activity
<1>3. q = [st EXCEPT ![Len(st)] = a]
  BY <1>1
<1> HIDE DEF a
<1>4. /\ Len(q) = Len(st)
      /\ q[Len(st)] = a
      /\ \A i \in 1..(Len(st) - 1) : q[i] = st[i]
  BY <1>1, <1>2, <1>3, ExceptSeq
<1> HIDE DEF q
<1>5. ASSUME NEW i \in 1..Len(q), q[i].k = "pkg", q[i].ns # 0
      PROVE  LoadedBelow(q, b, q[i].ns, i)
  <2>1. \A j \in 1..(i - 1) : q[j] = st[j]
    BY <1>1, <1>4
  <2>2. LoadedBelow(st, b, q[i].ns, i)
    BY <1>1, <1>2, <1>4, <1>5 DEF RootsOn
  <2> QED
    BY <2>1, <2>2 DEF LoadedBelow
<1>6. Top(q) = a
  BY <1>4 DEF Top
<1> QED
  BY <1>2, <1>4, <1>5, <1>6 DEF RootsOn, q

\* What was sound stays so while no module ends.
LEMMA SoundStays ==
    ASSUME FilesSound, FilesStay(stack'),
           \A n \in built : n \notin Free => n \in built',
           \A f \in File :
             \/ loadedModules'[f] \in {0, loadedModules[f]} \cup built'
             \/ \E i \in 1..Len(stack') :
                  stack'[i].k = "file" /\ stack'[i].ns = loadedModules'[f]
    PROVE  FilesSound'
<1> SUFFICES ASSUME NEW f \in File, loadedModules'[f] # 0, loadedModules'[f] \notin built'
             PROVE  \E i \in 1..Len(stack') :
                      stack'[i].k = "file" /\ stack'[i].ns = loadedModules'[f]
  BY DEF FilesSound, Sound
<1> SUFFICES ASSUME loadedModules'[f] \in {0, loadedModules[f]} \cup built'
             PROVE  \E i \in 1..Len(stack') :
                      stack'[i].k = "file" /\ stack'[i].ns = loadedModules'[f]
  OBVIOUS
<1>1. loadedModules'[f] = loadedModules[f] /\ Sound(loadedModules[f])
  BY DEF FilesSound
<1>2. loadedModules[f] \notin built
  BY <1>1, FreeFacts
<1>3. PICK i \in 1..Len(stack) : stack[i].k = "file" /\ stack[i].ns = loadedModules[f]
  BY <1>1, <1>2 DEF Sound
<1> QED
  BY <1>1, <1>3 DEF FilesStay

\* Cutting the nesting above the modules that are being loaded.
LEMMA StayCut ==
    ASSUME IInv, NEW n \in 0..Len(stack),
           \A j \in (n + 1)..Len(stack) : stack[j].k # "file"
    PROVE  /\ FilesStay(Cut(stack, n))
           /\ Cut(stack, n) \in Seq(Activity) /\ Len(Cut(stack, n)) = n
           /\ \A i \in 1..n : Cut(stack, n)[i] = stack[i]
<1>1. stack \in Seq(Activity) /\ Len(stack) \in Nat
  BY RunningFacts
<1>2. /\ Cut(stack, n) \in Seq(Activity) /\ Len(Cut(stack, n)) = n
      /\ \A i \in 1..n : Cut(stack, n)[i] = stack[i]
  BY <1>1, CutType
<1> QED
  BY <1>1, <1>2 DEF FilesStay

LEMMA StayPush ==
    ASSUME NEW st \in Seq(Activity), FilesStay(st), NEW a \in Activity
    PROVE  FilesStay(Append(st, a))
BY PushType, LenProperties DEF FilesStay

LEMMA StayPop ==
    ASSUME IInv, stack # <<>>, Top(stack).k # "file"
    PROVE  /\ FilesStay(Pop(stack))
           /\ Pop(stack) \in Seq(Activity) /\ Len(Pop(stack)) = Len(stack) - 1
           /\ \A i \in 1..(Len(stack) - 1) : Pop(stack)[i] = stack[i]
<1>1. Pop(stack) = Cut(stack, Len(stack) - 1) /\ Len(stack) - 1 \in 0..Len(stack)
  BY RunningFacts, PopIsCut
<1>2. \A j \in ((Len(stack) - 1) + 1)..Len(stack) : stack[j].k # "file"
  BY RunningFacts
<1> QED
  BY <1>1, <1>2, StayCut

\* Each step of the program outside the loader keeps the modules being loaded
\* where they are, and adds no package import.
LEMMA ProgramStays ==
    ASSUME IInv,
           \/ Eval \/ Call \/ TryBegin \/ TryEnd \/ NamespaceBegin \/ BuildNamespace
           \/ Return \/ Jump \/ Throw \/ Catch \/ Leave \/ FailEval \/ FailPackage
    PROVE  /\ FilesStay(stack')
           /\ \/ /\ Len(stack') <= Len(stack)
                 /\ \A i \in 1..Len(stack') : stack'[i] = stack[i]
                 /\ exc' \/ Len(stack') < Len(stack)
              \/ \E a \in Activity : a.k \notin {"file", "pkg"} /\ stack' = Append(stack, a)
<1>0. stack \in Seq(Activity) /\ Len(stack) \in Nat /\ Len(includes) \in Nat
      /\ FilesStay(stack)
  BY RunningFacts, LenProperties DEF IInv, Typed, FilesStay
<1>1. ASSUME NEW k \in Tries \cup Calls \cup {"ns"}, NEW n \in 0..MaxNs, NEW d \in Nat,
             Enter(Act(k, NoFile, n, d))
      PROVE  /\ FilesStay(stack')
             /\ \E a \in Activity : a.k \notin {"file", "pkg"} /\ stack' = Append(stack, a)
  <2>1. /\ Act(k, NoFile, n, d) \in Activity
        /\ Act(k, NoFile, n, d).k \notin {"file", "pkg"}
    BY <1>1 DEF Act, Activity, Tries, Calls
  <2> QED
    BY <1>0, <1>1, <2>1, StayPush DEF Enter
<1>2. CASE Eval \/ Call \/ TryBegin \/ NamespaceBegin
  <2>1. PICK k \in Tries \cup Calls \cup {"ns"}, n \in 0..MaxNs, d \in Nat :
          Enter(Act(k, NoFile, n, d))
    <3>1. 0 \in 0..MaxNs /\ 0 \in Nat /\ Free \subseteq 0..MaxNs
      BY ParamAssumption DEF Free, Ns
    <3> QED
      BY <1>0, <1>2, <3>1 DEF Eval, Call, TryBegin, NamespaceBegin, Tries, Calls
  <2> QED
    BY <1>1, <2>1
<1>3. CASE stack # <<>> /\ Top(stack).k # "file" /\ stack' = Pop(stack)
  BY <1>0, <1>3, StayPop
<1>4. CASE TryEnd \/ BuildNamespace \/ Catch \/ Leave \/ FailEval \/ FailPackage
  BY <1>3, <1>4, RunningFacts
  DEF TryEnd, BuildNamespace, Raise, Catch, Leave, FailEval, FailPackage, Raised, Tries
<1>5. ASSUME NEW n \in 0..Len(stack), n < Len(stack), stack' = Cut(stack, n),
             \A j \in (n + 1)..Len(stack) : stack[j].k # "file"
      PROVE  /\ FilesStay(stack')
             /\ Len(stack') < Len(stack)
             /\ \A i \in 1..Len(stack') : stack'[i] = stack[i]
  BY <1>0, <1>5, StayCut
<1>6. CASE Return
  <2>1. PICK i \in 1..Len(stack) :
          FrameAt(i) /\ stack[i].k # "file" /\ stack' = Cut(stack, i - 1)
    BY <1>6 DEF Return
  <2>2. i - 1 \in 0..Len(stack) /\ i - 1 < Len(stack)
        /\ \A j \in ((i - 1) + 1)..Len(stack) : stack[j].k # "file"
    BY <1>0, <2>1 DEF FrameAt, Tries
  <2> QED
    BY <1>5, <2>1, <2>2
<1>7. CASE Jump
  <2>1. PICK i \in 1..Len(stack), n \in 1..Len(stack) :
          /\ FrameAt(i)
          /\ n < Len(stack)
          /\ n >= i + (IF stack[i].k = "file" THEN 1 ELSE 0)
          /\ stack' = Cut(stack, n)
    BY <1>7 DEF Jump
  <2>2. n \in 0..Len(stack) /\ \A j \in (n + 1)..Len(stack) : stack[j].k # "file"
    BY SMTT(30), <1>0, <2>1 DEF FrameAt, Tries
  <2> QED
    BY <1>5, <2>1, <2>2
<1>8. CASE Throw
  BY <1>0, <1>8 DEF Throw, Raise
<1> QED
  BY <1>2, <1>4, <1>6, <1>7, <1>8

\* The ways an import of file f by the activity on top of stk goes.
LEMMA ImportShape ==
    ASSUME Typed, NEW f \in File, NEW stk, ExecImport(f, stk)
    PROVE  \/ /\ stack' = stk /\ exc' = TRUE
              /\ UNCHANGED <<loadedModules, includes>>
           \/ /\ stack' = stk /\ loadedModules[f] # 0
              /\ result' = IF Top(stk).k = "pkg" THEN loadedModules[f] ELSE 0
              /\ UNCHANGED <<loadedModules, includes, exc>>
           \/ \E n \in Free :
                /\ stack' = stk /\ n \in built'
                /\ loadedModules[f] = 0
                /\ loadedModules' = [loadedModules EXCEPT ![f] = n]
                /\ result' = IF Top(stk).k = "pkg" THEN n ELSE 0
                /\ UNCHANGED <<includes, exc>>
           \/ \E n \in Free :
                /\ stack' = stk /\ exc' = TRUE
                /\ loadedModules[f] = 0
                /\ loadedModules' = [loadedModules EXCEPT ![f] = n]
                /\ UNCHANGED includes
           \/ \E n, m \in Free :
                /\ stack' = Append(Append(stk, Act("file", f, n, 0)), Act("ns", NoFile, m, 0))
                /\ loadedModules[f] = 0
                /\ loadedModules' = [loadedModules EXCEPT ![f] = n]
                /\ includes' = includes \o <<n, m>>
                /\ UNCHANGED exc
<1>1. CASE FromCache(f, stk)
  BY <1>1 DEF FromCache, Deliver
<1>2. CASE NotLoaded(f, stk)
  BY <1>2 DEF NotLoaded, Raise
<1>3. CASE LoadNative(f, stk)
  BY <1>3 DEF LoadNative, Deliver, New
<1>4. CASE Abandon(f, stk)
  BY <1>4 DEF Abandon, Raise
<1>5. CASE RunFile(f, stk)
  BY <1>5 DEF RunFile, BeginModule
<1> QED
  BY <1>1, <1>2, <1>3, <1>4, <1>5 DEF ExecImport, NoFrame, NotCompiled

\* The three places where execImport is called, the nesting it is called for,
\* and the other ways the steps go that may call it.
Importing(f, stk) ==
    /\ f \in File /\ ExecImport(f, stk)
    /\ ~exc /\ stk \in Seq(Activity) /\ stk # <<>> /\ FilesStay(stk)
    /\ \A i \in 1..Len(stk) : stk[i].ns \notin Free

ImportByCode ==
    /\ Running /\ UNCHANGED <<packages, loadingPackages>>
    /\ \E f \in File : Importing(f, stack)

ImportInit ==
    /\ Running /\ UNCHANGED packages
    /\ \E p \in Pkg :
         /\ packages[p] = 0 /\ loadingPackages' = loadingPackages \cup {p}
         /\ \E f \in File : Importing(f, Append(stack, Act("pkg", p, 0, 0)))

ImportSub ==
    /\ ~exc /\ stack # <<>> /\ Top(stack).k = "pkg"
    /\ UNCHANGED <<packages, loadingPackages>>
    /\ \E f \in File : Importing(f, [stack EXCEPT ![Len(stack)].ns = result])

NoImport ==
    /\ UNCHANGED <<loadedModules, includes, built>>
    /\ \/ Running /\ stack' = stack /\ UNCHANGED <<packages, loadingPackages, exc>>
       \/ Raise(stack) /\ UNCHANGED <<packages, loadingPackages>>
       \/ /\ ~exc /\ stack # <<>> /\ Top(stack).k = "pkg" /\ UNCHANGED exc
          /\ \/ FinishPackage(Top(stack).of, result)
             \/ Top(stack).ns # 0 /\ FinishPackage(Top(stack).of, Top(stack).ns)

LEMMA ImportSteps ==
    ASSUME IInv, Import \/ ImportPackage \/ PackageInit \/ PackageAttach
    PROVE  ImportByCode \/ ImportInit \/ ImportSub \/ NoImport
<1>0. /\ stack \in Seq(Activity) /\ Len(stack) \in Nat /\ result \in 0..MaxNs
      /\ FilesStay(stack) /\ \A i \in 1..Len(stack) : stack[i].ns \notin Free
      /\ 0 \notin Free /\ result \notin Free
  BY RunningFacts, FreeFacts DEF IInv, Typed, FilesStay
<1>1. CASE Import
  BY <1>0, <1>1, RunningFacts DEF Import, ImportByCode, Importing
<1>2. CASE ImportPackage
  <2>1. ASSUME NEW p \in Pkg, packages[p] = 0, StartPackage(p),
               ExecImport(InitOf[p], Append(stack, Act("pkg", p, 0, 0)))
        PROVE  ImportInit
    <3>1. /\ Act("pkg", p, 0, 0) \in Activity /\ Act("pkg", p, 0, 0).ns = 0
          /\ InitOf[p] \in File
      BY ParamAssumption DEF Act, Activity
    <3>2. Importing(InitOf[p], Append(stack, Act("pkg", p, 0, 0)))
      BY <1>0, <1>2, <2>1, <3>1, PushType, StayPush, RunningFacts DEF Importing, ImportPackage
    <3> QED
      BY <1>2, <2>1, <3>1, <3>2 DEF ImportInit, ImportPackage, StartPackage
  <2> QED
    BY <1>2, <2>1 DEF ImportPackage, NoImport, Deliver, spaces
<1>3. CASE PackageInit
  <2>1. ~exc /\ stack # <<>> /\ Top(stack).k = "pkg"
    BY <1>3 DEF PackageInit
  <2>2. ASSUME SubOf[Top(stack).of] # NoFile,
               ExecImport(SubOf[Top(stack).of], [stack EXCEPT ![Len(stack)].ns = result]),
               UNCHANGED <<packages, loadingPackages>>
        PROVE  ImportSub
    <3> DEFINE q == [stack EXCEPT ![Len(stack)].ns = result]
    <3>1. Top(stack) = stack[Len(stack)] /\ Len(stack) \in 1..Len(stack)
      BY <2>1, RunningFacts
    <3>2. Top(stack).of \in Pkg
      BY <2>1, <3>1 DEF IInv, Typed, StackInv, PkgsOf
    <3>3. SubOf[Top(stack).of] \in File
      BY <2>2, <3>2, ParamAssumption
    <3>4. q \in Seq(Activity) /\ q # <<>>
      BY <1>0, <2>1, SetRoot DEF IInv, StackInv
    <3>5. /\ Len(q) = Len(stack) /\ q[Len(stack)].ns = result
          /\ \A i \in 1..Len(stack) : i # Len(stack) => q[i] = stack[i]
      BY <1>0, <3>1, ExceptSeq DEF Activity
    <3>6. FilesStay(q)
      BY <1>0, <2>1, <3>1, <3>5 DEF FilesStay
    <3>7. \A i \in 1..Len(q) : q[i].ns \notin Free
      BY <1>0, <3>5
    <3> HIDE DEF q
    <3>8. Importing(SubOf[Top(stack).of], q)
      BY <2>1, <2>2, <3>3, <3>4, <3>6, <3>7 DEF Importing, q
    <3> QED
      BY <2>1, <2>2, <3>3, <3>8 DEF ImportSub, q
  <2> QED
    BY <1>3, <2>1, <2>2 DEF PackageInit, NoImport, spaces
<1>4. CASE PackageAttach
  BY <1>4 DEF PackageAttach, NoImport, spaces
<1> QED
  BY <1>1, <1>2, <1>3, <1>4

\* A module is cached under a new namespace, forgotten, or stays as it is.
LEMMA CacheChanges ==
    ASSUME IInv, [Next]_vars
    PROVE  \/ UNCHANGED loadedModules
           \/ \E f \in File, n \in Free : loadedModules' = [loadedModules EXCEPT ![f] = n]
           \/ \E f \in File : loadedModules' = [loadedModules EXCEPT ![f] = 0]
           \/ loadedModules' = [f \in File |-> 0]
<1>1. ASSUME NEW f \in File, NEW stk, ExecImport(f, stk)
      PROVE  \/ UNCHANGED loadedModules
             \/ \E n \in Free : loadedModules' = [loadedModules EXCEPT ![f] = n]
  <2>1. Typed
    BY DEF IInv
  <2> QED
    BY <1>1, <2>1, ImportShape
<1>2. CASE Import \/ ImportPackage \/ PackageInit \/ PackageAttach
  BY <1>1, <1>2, ImportSteps
  DEF ImportByCode, ImportInit, ImportSub, NoImport, Importing
<1>3. CASE EndModule
  <2>1. Len(stack) - 1 \in 1..Len(stack) /\ stack[Len(stack) - 1].k = "file"
    BY <1>3, RunningFacts DEF EndModule, AtModuleBody
  <2>2. /\ loadedModules \in [File -> 0..MaxNs]
        /\ stack[Len(stack) - 1].of \in File
        /\ loadedModules[stack[Len(stack) - 1].of] = stack[Len(stack) - 1].ns
    BY <2>1 DEF IInv, Typed, StackInv, FileInv
  <2>3. [loadedModules EXCEPT ![stack[Len(stack) - 1].of] = stack[Len(stack) - 1].ns]
          = loadedModules
    BY <2>2
  <2> QED
    BY <1>3, <2>3 DEF EndModule
<1>4. CASE ReturnFromModule \/ FailFile
  <2>1. PICK i \in 1..Len(stack) : stack[i].k = "file" /\ Forget(stack[i])
    BY <1>4, RunningFacts DEF ReturnFromModule, FailFile, Raised
  <2> QED
    BY <2>1 DEF Forget, IInv, StackInv, FileInv
<1>5. CASE ClearGlobals
  BY <1>5 DEF ClearGlobals
<1>6. CASE ReturnNamespace
  BY <1>6, ReturnShape
<1> QED
  BY <1>2, <1>3, <1>4, <1>5, <1>6
  DEF Next, vars, cache, Eval, Call, Enter, TryBegin, TryEnd, NamespaceBegin,
      BuildNamespace, Return, Jump, Throw, Catch, Leave, FailPackage, FailEval

LEMMA ApartNext ==
    ASSUME IInv, Apart, [Next]_vars
    PROVE  Apart'
<1>1. loadedModules \in [File -> 0..MaxNs]
  BY DEF IInv, Typed
<1> QED
  BY <1>1, CacheChanges, FreeFacts DEF Apart

LEMMA InProgressNext ==
    ASSUME IInv, InProgress, [Next]_vars
    PROVE  InProgress'
<1>0. packages \in [Pkg -> 0..MaxNs] /\ loadingPackages \subseteq Pkg
  BY DEF IInv, Typed
<1>1. ASSUME NEW p, NEW n, FinishPackage(p, n)
      PROVE  InProgress'
  BY <1>0, <1>1 DEF FinishPackage, InProgress
<1>2. CASE Import \/ ImportPackage \/ PackageInit \/ PackageAttach
  BY <1>1, <1>2, ImportSteps DEF ImportByCode, ImportInit, ImportSub, NoImport, InProgress
<1>3. CASE ClearGlobals
  BY <1>0, <1>3 DEF ClearGlobals, InProgress
<1>4. CASE FailPackage
  BY <1>4 DEF FailPackage, InProgress
<1> QED
  BY <1>2, <1>3, <1>4
  DEF InProgress, Next, vars, cache, Eval, Call, Enter, TryBegin, TryEnd, NamespaceBegin,
      BuildNamespace, Return, Jump, Throw, Catch, Leave, FailEval, EndModule,
      ReturnFromModule, ReturnNamespace, FailFile

\* An import that is not abandoned leaves nothing unsound behind.
LEMMA ImportSound ==
    ASSUME IInv, [Next]_vars, FilesSound, "abandon" \notin Happened,
           NEW f, NEW stk, Importing(f, stk)
    PROVE  /\ FilesSound'
           /\ RootsOn(stk, built) => RootsOn(stack', built')
           /\ RootReturned'
<1>0. /\ f \in File /\ ExecImport(f, stk) /\ ~exc
      /\ stk \in Seq(Activity) /\ stk # <<>> /\ FilesStay(stk)
      /\ Len(stk) \in Nat /\ Len(stk) > 0 /\ Top(stk) = stk[Len(stk)]
      /\ loadedModules \in [File -> 0..MaxNs] /\ result' \in 0..MaxNs
  BY IInvNext, TopType DEF Importing, IInv, Typed, Top
<1>1. \A n \in built : n \notin Free => n \in built'
  BY BuiltKept
<1>2. ~(exc' /\ \E g \in File : loadedModules[g] = 0 /\ loadedModules'[g] # 0)
  BY <1>0 DEF Happened
<1>3. RootsOn(stk, built) => RootsOn(stk, built')
  <2>1. \A i \in 1..Len(stk) : stk[i].ns \notin Free
    BY DEF Importing
  <2> QED
    BY <1>0, <1>1, <2>1, SamePrefix
<1>4. \A i \in 1..Len(stack) : stack[i].k = "file" =>
        /\ i \in 1..Len(stk) /\ stk[i] = stack[i]
        /\ Top(stk).k = "pkg" => i \in 1..(Len(stk) - 1)
  BY <1>0 DEF FilesStay
<1>5. CASE /\ stack' = stk /\ exc' = TRUE
           /\ UNCHANGED <<loadedModules, includes>>
  BY <1>0, <1>1, <1>3, <1>5, SoundStays DEF RootReturned
<1>6. CASE /\ stack' = stk /\ loadedModules[f] # 0
           /\ result' = IF Top(stk).k = "pkg" THEN loadedModules[f] ELSE 0
           /\ UNCHANGED <<loadedModules, includes, exc>>
  <2>1. FilesSound'
    BY <1>0, <1>1, <1>6, SoundStays
  <2>2. loadedModules[f] \in built' \/ \E i \in 1..Len(stack) :
          stack[i].k = "file" /\ stack[i].ns = loadedModules[f]
    BY <1>0, <1>1, <1>6, FreeFacts DEF FilesSound, Sound
  <2>3. RootReturned'
    BY <1>4, <1>6, <2>2 DEF RootReturned, LoadedBelow
  <2> QED
    BY <1>3, <1>6, <2>1, <2>3
<1>7. ASSUME NEW n \in Free, stack' = stk, n \in built',
             loadedModules' = [loadedModules EXCEPT ![f] = n],
             result' = IF Top(stk).k = "pkg" THEN n ELSE 0
      PROVE  /\ FilesSound'
             /\ RootsOn(stk, built) => RootsOn(stack', built')
             /\ RootReturned'
  <2>1. FilesSound'
    BY <1>0, <1>1, <1>7, SoundStays
  <2>2. RootReturned'
    BY <1>7 DEF RootReturned, LoadedBelow
  <2> QED
    BY <1>3, <1>7, <2>1, <2>2
<1>8. ASSUME NEW n \in Free, loadedModules[f] = 0,
             loadedModules' = [loadedModules EXCEPT ![f] = n]
      PROVE  loadedModules[f] = 0 /\ loadedModules'[f] # 0
  BY <1>0, <1>8, FreeFacts
<1>9. ASSUME NEW n \in Free, NEW m \in Free,
             stack' = Append(Append(stk, Act("file", f, n, 0)), Act("ns", NoFile, m, 0)),
             loadedModules' = [loadedModules EXCEPT ![f] = n]
      PROVE  /\ FilesSound'
             /\ RootsOn(stk, built) => RootsOn(stack', built')
             /\ RootReturned'
  <2> DEFINE a == Act("file", f, n, 0)
             c == Act("ns", NoFile, m, 0)
             q == Append(stk, a)
  <2>1. /\ a \in Activity /\ a.k = "file" /\ a.ns = n
        /\ c \in Activity /\ c.k = "ns"
    BY <1>0, ParamAssumption DEF Act, Activity, Free, Ns
  <2> HIDE DEF a, c
  <2>2. /\ q \in Seq(Activity) /\ FilesStay(q) /\ Len(q) = Len(stk) + 1
        /\ q[Len(stk) + 1] = a
    BY <1>0, <2>1, PushType, StayPush
  <2>3. RootsOn(stk, built) => RootsOn(q, built')
    BY <1>0, <1>3, <2>1, RootsPush
  <2>3a. stack' = Append(q, c)
    BY <1>9 DEF a, c
  <2> HIDE DEF q
  <2>4. /\ FilesStay(stack')
        /\ RootsOn(stk, built) => RootsOn(stack', built')
        /\ Len(stk) + 1 \in 1..Len(stack') /\ stack'[Len(stk) + 1] = a
        /\ Top(stack') = c
    <3>1. FilesStay(stack') /\ Top(stack') = c
      BY <2>1, <2>2, <2>3a, PushType, StayPush
    <3>2. RootsOn(stk, built) => RootsOn(stack', built')
      BY <2>1, <2>2, <2>3, <2>3a, RootsPush
    <3>3. Len(stack') = Len(stk) + 2 /\ stack'[Len(stk) + 1] = a
      BY <1>0, <2>1, <2>2, <2>3a, PushType
    <3> QED
      BY <1>0, <3>1, <3>2, <3>3
  <2>5. FilesSound'
    BY <1>0, <1>1, <1>9, <2>1, <2>4, SoundStays
  <2>6. RootReturned'
    BY <2>1, <2>4 DEF RootReturned
  <2> QED
    BY <2>4, <2>5, <2>6
<1>10. Typed
  BY DEF IInv
<1> QED
  BY <1>0, <1>2, <1>5, <1>6, <1>7, <1>8, <1>9, <1>10, ImportShape

\* Files in the cache stay sound.
LEMMA FilesNext ==
    ASSUME IInv, Apart, FilesSound, [Next]_vars,
           Happened \cap {"abandon", "conflict"} = {}
    PROVE  FilesSound'
<1>0. /\ stack \in Seq(Activity) /\ Len(stack) \in Nat
      /\ loadedModules \in [File -> 0..MaxNs] /\ FilesStay(stack)
      /\ \A n \in built : n \notin Free => n \in built'
      /\ "abandon" \notin Happened /\ "conflict" \notin Happened
  BY RunningFacts, BuiltKept DEF IInv, Typed, FilesStay
<1>1. ASSUME UNCHANGED loadedModules, FilesStay(stack')
      PROVE  FilesSound'
  BY <1>0, <1>1, SoundStays
<1>2. CASE \/ Eval \/ Call \/ TryBegin \/ TryEnd \/ NamespaceBegin \/ BuildNamespace
           \/ Return \/ Jump \/ Throw \/ Catch \/ Leave \/ FailEval \/ FailPackage
  <2>1. UNCHANGED loadedModules
    BY <1>2 DEF cache, Eval, Call, Enter, TryBegin, TryEnd, NamespaceBegin, BuildNamespace,
                Return, Jump, Throw, Catch, Leave, FailEval, FailPackage
  <2> QED
    BY <1>1, <1>2, <2>1, ProgramStays
<1>3. CASE Import \/ ImportPackage \/ PackageInit \/ PackageAttach
  <2>1. CASE ImportByCode \/ ImportInit \/ ImportSub
    BY <1>0, <2>1, ImportSound DEF ImportByCode, ImportInit, ImportSub
  <2>2. CASE NoImport
    <3>1. stack' = stack \/ (stack # <<>> /\ Top(stack).k = "pkg" /\ stack' = Pop(stack))
      BY <2>2 DEF NoImport, Raise, FinishPackage, Deliver
    <3>2. FilesStay(stack')
      BY <1>0, <3>1, StayPop
    <3> QED
      BY <1>1, <2>2, <3>2 DEF NoImport
  <2> QED
    BY <1>3, <2>1, <2>2, ImportSteps
\* The module that ends is forgotten; no other one has its namespace.
<1>4. ASSUME NEW i \in 1..Len(stack), stack[i].k = "file",
             \A j \in (i + 1)..Len(stack) : stack[j].k # "file",
             stack' = Cut(stack, i - 1), Forget(stack[i])
      PROVE  FilesSound'
  <2>1. /\ stack[i].of \in File /\ loadedModules[stack[i].of] = stack[i].ns
        /\ loadedModules' = [loadedModules EXCEPT ![stack[i].of] = 0]
        /\ stack[i].ns # 0
    BY <1>4 DEF IInv, StackInv, FileInv, Forget, Ns
  <2>2. Len(stack') = i - 1 /\ \A j \in 1..(i - 1) : stack'[j] = stack[j]
    <3>1. i - 1 \in 0..Len(stack)
      BY <1>0
    <3> QED
      BY <1>0, <1>4, <3>1, CutType
  <2> SUFFICES ASSUME NEW f \in File, loadedModules'[f] # 0
               PROVE  \/ loadedModules'[f] \in built'
                      \/ \E j \in 1..Len(stack') :
                           stack'[j].k = "file" /\ stack'[j].ns = loadedModules'[f]
    BY DEF FilesSound, Sound
  <2>3. f # stack[i].of /\ loadedModules'[f] = loadedModules[f]
    BY <1>0, <2>1
  <2>4. loadedModules[f] # stack[i].ns
    BY <2>1, <2>3 DEF Apart
  <2>5. CASE loadedModules[f] \in built
    BY <1>0, <2>3, <2>5, FreeFacts
  <2>6. CASE \E j \in 1..Len(stack) : stack[j].k = "file" /\ stack[j].ns = loadedModules[f]
    <3>1. PICK j \in 1..Len(stack) : stack[j].k = "file" /\ stack[j].ns = loadedModules[f]
      BY <2>6
    <3>2. j \in 1..(i - 1)
      BY <1>0, <1>4, <2>4, <3>1
    <3> QED
      BY <2>2, <2>3, <3>1, <3>2
  <2> QED
    BY <2>3, <2>5, <2>6 DEF FilesSound, Sound
<1>5. CASE EndModule
  <2> DEFINE file == stack[Len(stack) - 1]
  <2>1. /\ Len(stack) - 1 \in 1..Len(stack) /\ file.k = "file"
        /\ stack # <<>> /\ Top(stack) = stack[Len(stack)] /\ Top(stack).k = "ns"
        /\ ~exc /\ Len(stack) - 2 \in 0..Len(stack)
    BY <1>5, RunningFacts DEF EndModule, AtModuleBody
  <2>2. CASE stack' = Pop(stack) /\ UNCHANGED loadedModules
    BY <1>1, <2>1, <2>2, StayPop
  <2>3. CASE Raise(Cut(stack, Len(stack) - 2)) /\ UNCHANGED loadedModules
    <3>1. Len(stack') = Len(stack) - 2 /\ exc'
      BY ZenonT(60), <1>0, <2>1, <2>3, CutType DEF Raise
    <3>2. Len(stack) - 1 > Len(stack')
      BY <1>0, <3>1
    <3> QED
      BY <1>0, <2>1, <2>3, <3>1, <3>2 DEF Happened, Dropped
  <2>4. CASE /\ stack' = Cut(stack, Len(stack) - 2) /\ file.ns \in built'
             /\ loadedModules' = [loadedModules EXCEPT ![file.of] = file.ns]
    <3>1. Len(stack') = Len(stack) - 2 /\ \A j \in 1..(Len(stack) - 2) : stack'[j] = stack[j]
      BY ZenonT(60), <1>0, <2>1, <2>4, CutType
    <3> SUFFICES ASSUME NEW f \in File, loadedModules'[f] # 0, loadedModules'[f] \notin built'
                 PROVE  \E j \in 1..Len(stack') :
                          stack'[j].k = "file" /\ stack'[j].ns = loadedModules'[f]
      BY DEF FilesSound, Sound
    <3>2. loadedModules'[f] = loadedModules[f] /\ loadedModules[f] # file.ns
          /\ loadedModules[f] \notin built
      BY <1>0, <2>4, FreeFacts
    <3>3. PICK j \in 1..Len(stack) : stack[j].k = "file" /\ stack[j].ns = loadedModules[f]
      BY <3>2 DEF FilesSound, Sound
    <3>4. j \in 1..(Len(stack) - 2)
      BY <1>0, <2>1, <3>2, <3>3
    <3> QED
      BY <3>1, <3>2, <3>3, <3>4
  <2> QED
    BY <1>5, <2>2, <2>3, <2>4 DEF EndModule, Raise, Deliver
<1>6. CASE ReturnFromModule
  <2>1. PICK i \in 1..Len(stack) : FrameAt(i) /\ stack[i].k = "file" /\ Forget(stack[i])
                                   /\ stack' = Cut(stack, i - 1)
    BY <1>6 DEF ReturnFromModule, Raise
  <2> QED
    BY <1>4, <2>1 DEF FrameAt, Tries
<1>7. CASE FailFile
  <2>1. /\ Len(stack) \in 1..Len(stack) /\ stack[Len(stack)] = Top(stack)
        /\ Top(stack).k = "file" /\ stack' = Cut(stack, Len(stack) - 1)
        /\ Forget(Top(stack))
    BY <1>7, RunningFacts, PopIsCut DEF FailFile, Raised
  <2> QED
    BY <1>0, <1>4, <2>1
<1>8. CASE ClearGlobals
  BY <1>8 DEF ClearGlobals, FilesSound
<1>9. CASE UNCHANGED vars
  BY <1>0, <1>1, <1>9 DEF vars
\* The module that returns a namespace has run; no other one is left.
<1>10. CASE ReturnNamespace
  <2>1. PICK i \in 1..Len(stack) :
          /\ i - 1 \in 0..Len(stack)
          /\ stack[i].k = "file" /\ stack[i].ns \in Ns
          /\ \A j \in (i + 1)..Len(stack) : stack[j].k \in Tries \cup {"ns"}
          /\ loadedModules' = loadedModules
          /\ stack' = Cut(stack, i - 1)
          /\ exc' = TRUE \/ built' = built \cup {stack[i].ns}
    BY <1>10, ReturnShape DEF Raise, Deliver
  <2>2. /\ Len(stack') = i - 1 /\ i > Len(stack')
        /\ \A j \in 1..(i - 1) : stack'[j] = stack[j]
    <3>1. stack \in Seq(Activity) /\ i - 1 \in 0..Len(stack)
      BY <1>0, <2>1
    <3>2. /\ Len(Cut(stack, i - 1)) = i - 1
          /\ \A j \in 1..(i - 1) : Cut(stack, i - 1)[j] = stack[j]
      BY <3>1, CutType
    <3>3. stack' = Cut(stack, i - 1)
      BY <2>1
    <3>4. Len(stack') = i - 1 /\ \A j \in 1..(i - 1) : stack'[j] = stack[j]
      BY <3>2, <3>3
    <3> QED
      BY <1>0, <3>4
  <2>3. exc' # TRUE
    <3>1. ~exc
      BY <1>10, RunningFacts DEF ReturnNamespace
    <3> QED
      BY <1>0, <2>1, <2>2, <3>1 DEF Happened, Dropped
  <2> SUFFICES ASSUME NEW f \in File, loadedModules[f] # 0, loadedModules[f] \notin built'
               PROVE  \E j \in 1..Len(stack') :
                        stack'[j].k = "file" /\ stack'[j].ns = loadedModules[f]
    BY <2>1 DEF FilesSound, Sound
  <2>4. loadedModules[f] # stack[i].ns /\ loadedModules[f] \notin built
    BY <2>1, <2>3
  <2>5. PICK j \in 1..Len(stack) : stack[j].k = "file" /\ stack[j].ns = loadedModules[f]
    BY <2>4 DEF FilesSound, Sound
  <2>6. j \in 1..(i - 1)
    BY <1>0, <2>1, <2>4, <2>5 DEF Tries
  <2> QED
    BY <2>2, <2>5, <2>6
<1> QED
  BY <1>2, <1>3, <1>5, <1>6, <1>7, <1>8, <1>9, <1>10 DEF Next

\* A shorter nesting in which the modules being loaded are all left has no
\* package import on top.
LEMMA ShorterTop ==
    ASSUME IInv, stack' \in Seq(Activity), Len(stack') < Len(stack), stack' # <<>>,
           \A i \in 1..Len(stack') : stack'[i] = stack[i], FilesStay(stack')
    PROVE  Top(stack').k # "pkg"
<1>1. /\ Len(stack) \in Nat /\ Len(stack') \in Nat /\ Len(stack') > 0
      /\ Top(stack') = stack'[Len(stack')]
  BY RunningFacts, TopType, LenProperties DEF Top
<1>2. Len(stack') \in 1..Len(stack) /\ Len(stack') + 1 \in 1..Len(stack)
  BY <1>1
<1>3. stack[Len(stack') + 1].k # "file"
  BY <1>1, <1>2 DEF FilesStay
<1> QED
  BY <1>1, <1>2, <1>3 DEF IInv, StackInv, PkgInv

\* A package import that ends puts its root into the cache: the module of the
\* root has run, or was still running below.
LEMMA FinishSound ==
    ASSUME IInv, InProgress, RootsCached, "unfinished" \notin Happened,
           \A n \in built : n \notin Free => n \in built',
           stack # <<>>, Top(stack).k = "pkg", NEW n,
           LoadedBelow(stack, built, n, Len(stack)), n \notin Free,
           FinishPackage(Top(stack).of, n)
    PROVE  RootsCached'
<1>1. /\ Len(stack) \in Nat /\ Len(stack) \in 1..Len(stack)
      /\ Top(stack) = stack[Len(stack)]
      /\ packages \in [Pkg -> 0..MaxNs]
      /\ stack' = Pop(stack)
      /\ packages' = [packages EXCEPT ![Top(stack).of] = n]
  BY RunningFacts DEF IInv, Typed, FinishPackage, Deliver
<1>2. Top(stack).of \in Pkg /\ packages[Top(stack).of] = 0
  BY <1>1 DEF IInv, Typed, StackInv, PkgsOf, InProgress
<1>3. n \in built
  <2> SUFFICES ASSUME NEW j \in 1..(Len(stack) - 1), stack[j].k = "file", stack[j].ns = n
               PROVE  FALSE
    BY DEF LoadedBelow
  <2>1. j \in 1..Len(stack') /\ stack'[j] = stack[j]
    BY <1>1, StayPop
  <2> QED
    BY <1>1, <1>2, <2>1 DEF Happened
<1>4. ASSUME NEW p \in Pkg, packages'[p] # 0
      PROVE  packages'[p] \in built'
  BY <1>1, <1>3, <1>4, FreeFacts DEF RootsCached
<1> QED
  BY <1>4 DEF RootsCached

\* Roots of packages stay sound.
LEMMA RootsNext ==
    ASSUME IInv, InProgress, FilesSound, RootsSound, [Next]_vars,
           Happened \cap {"abandon", "conflict", "unfinished"} = {}
    PROVE  RootsSound'
<1>0. /\ stack \in Seq(Activity) /\ Len(stack) \in Nat /\ FilesStay(stack)
      /\ stack' \in Seq(Activity) /\ Len(stack') \in Nat
      /\ \A n \in built : n \notin Free => n \in built'
      /\ "abandon" \notin Happened /\ "unfinished" \notin Happened
      /\ RootsOn(stack, built) /\ RootReturned /\ RootsCached
      /\ result \in 0..MaxNs
  BY RunningFacts, BuiltKept, IInvNext, LenProperties
  DEF IInv, Typed, StackInv, FilesStay, RootsSound
<1>1. ASSUME Len(stack') <= Len(stack), \A i \in 1..Len(stack') : stack'[i] = stack[i]
      PROVE  RootsOn(stack', built')
  BY <1>0, <1>1, FreeFacts, SamePrefix
<1>2. RootsOn(stack, built')
  BY <1>0, FreeFacts, SamePrefix
<1>3. ASSUME UNCHANGED packages
      PROVE  RootsCached'
  BY <1>0, <1>3, FreeFacts DEF RootsCached
<1>4. CASE \/ Eval \/ Call \/ TryBegin \/ TryEnd \/ NamespaceBegin \/ BuildNamespace
           \/ Return \/ Jump \/ Throw \/ Catch \/ Leave \/ FailEval \/ FailPackage
  <2>1. UNCHANGED packages
    BY <1>4 DEF cache, Eval, Call, Enter, TryBegin, TryEnd, NamespaceBegin, BuildNamespace,
                Return, Jump, Throw, Catch, Leave, FailEval, FailPackage
  <2>2. CASE /\ FilesStay(stack') /\ Len(stack') <= Len(stack)
             /\ \A i \in 1..Len(stack') : stack'[i] = stack[i]
             /\ exc' \/ Len(stack') < Len(stack)
    <3>1. RootReturned'
      BY <1>0, <2>2, ShorterTop DEF RootReturned
    <3> QED
      BY <1>1, <1>3, <2>1, <2>2, <3>1 DEF RootsSound
  <2>3. ASSUME NEW a \in Activity, a.k \notin {"file", "pkg"}, stack' = Append(stack, a)
        PROVE  RootsSound'
    <3>1. Top(stack') = a /\ RootsOn(stack', built')
      BY <1>0, <1>2, <2>3, PushType, RootsPush
    <3> QED
      BY <1>3, <2>1, <2>3, <3>1 DEF RootsSound, RootReturned
  <2> QED
    BY <1>4, <2>2, <2>3, ProgramStays
<1>5. ASSUME NEW f, NEW stk, Importing(f, stk), RootsOn(stk, built), UNCHANGED packages
      PROVE  RootsSound'
  BY <1>0, <1>3, <1>5, ImportSound DEF RootsSound
<1>6. CASE ImportByCode
  BY <1>0, <1>5, <1>6 DEF ImportByCode
<1>7. CASE ImportInit
  <2>1. PICK p \in Pkg, f \in File : Importing(f, Append(stack, Act("pkg", p, 0, 0)))
    BY <1>7 DEF ImportInit
  <2>2. Act("pkg", p, 0, 0) \in Activity /\ Act("pkg", p, 0, 0).ns = 0
    BY ParamAssumption DEF Act, Activity
  <2>3. RootsOn(Append(stack, Act("pkg", p, 0, 0)), built)
    BY <1>0, <2>2, RootsPush
  <2> QED
    BY <1>5, <1>7, <2>1, <2>3 DEF ImportInit
<1>8. CASE ImportSub
  <2>1. RootsOn([stack EXCEPT ![Len(stack)].ns = result], built)
    BY <1>0, <1>8, RootsSet DEF ImportSub, RootReturned
  <2> QED
    BY <1>5, <1>8, <2>1 DEF ImportSub
<1>9. CASE NoImport
  <2>1. stack' = stack \/ (stack # <<>> /\ Top(stack).k = "pkg" /\ stack' = Pop(stack))
    BY <1>9 DEF NoImport, Raise, FinishPackage, Deliver
  <2>2. RootsOn(stack', built') /\ FilesStay(stack')
    BY <1>0, <1>1, <1>2, <2>1, StayPop
  <2>3. CASE Running /\ stack' = stack /\ UNCHANGED <<packages, exc>>
    <3>1. RootReturned'
      BY <2>3, RunningFacts DEF RootReturned
    <3> QED
      BY <1>3, <2>2, <2>3, <3>1 DEF RootsSound
  <2>4. CASE Raise(stack) /\ UNCHANGED packages
    <3>1. RootReturned'
      BY <2>4 DEF RootReturned, Raise
    <3> QED
      BY <1>3, <2>2, <2>4, <3>1 DEF RootsSound
  <2>5. ASSUME ~exc, stack # <<>>, Top(stack).k = "pkg", NEW n,
               n = result \/ (Top(stack).ns # 0 /\ n = Top(stack).ns),
               FinishPackage(Top(stack).of, n)
        PROVE  RootsSound'
    <3>1. Len(stack) \in 1..Len(stack) /\ Top(stack) = stack[Len(stack)]
      BY <2>5, RunningFacts
    <3>2. LoadedBelow(stack, built, n, Len(stack)) /\ n \notin Free
      BY <1>0, <2>5, <3>1, FreeFacts DEF RootReturned, RootsOn
    <3>3. RootsCached'
      BY <1>0, <2>5, <3>2, FinishSound
    <3>4. stack' = Pop(stack)
      BY <2>5 DEF FinishPackage, Deliver
    <3>5. RootReturned'
      BY <2>5, <3>4, PopPkg DEF RootReturned, IInv
    <3> QED
      BY <2>2, <3>3, <3>5 DEF RootsSound
  <2> QED
    BY <1>9, <2>3, <2>4, <2>5 DEF NoImport
<1>10. CASE Import \/ ImportPackage \/ PackageInit \/ PackageAttach
  BY <1>6, <1>7, <1>8, <1>9, <1>10, ImportSteps
<1>11. ASSUME NEW n \in 0..Len(stack), stack' = Cut(stack, n)
       PROVE  RootsOn(stack', built')
  BY SMTT(30), <1>0, <1>1, <1>11, CutType
<1>12. CASE EndModule
  <2>1. /\ Len(stack) - 1 \in 0..Len(stack) /\ Len(stack) - 2 \in 0..Len(stack)
        /\ stack # <<>>
    BY <1>0, <1>12, RunningFacts DEF EndModule, AtModuleBody
  <2>2. RootsOn(stack', built')
    BY <1>11, <1>12, <2>1, PopIsCut, <1>0 DEF EndModule, Raise, Deliver
  <2>3. RootReturned'
    BY <1>12 DEF EndModule, Raise, Deliver, RootReturned, LoadedBelow
  <2> QED
    BY <1>3, <1>12, <2>2, <2>3 DEF EndModule, RootsSound
<1>13. CASE ReturnFromModule \/ FailFile
  <2>1. \E n \in 0..Len(stack) : stack' = Cut(stack, n)
    <3>1. CASE ReturnFromModule
      <4>1. PICK i \in 1..Len(stack) : stack' = Cut(stack, i - 1)
        BY <3>1 DEF ReturnFromModule, Raise
      <4>2. i - 1 \in 0..Len(stack)
        BY <1>0
      <4> QED
        BY <4>1, <4>2
    <3>2. CASE FailFile
      BY <1>0, <3>2, PopIsCut DEF FailFile, Raised
    <3> QED
      BY <1>13, <3>1, <3>2
  <2>2. RootReturned'
    BY <1>13 DEF ReturnFromModule, FailFile, Raise, Raised, RootReturned
  <2>3. UNCHANGED packages
    BY <1>13 DEF ReturnFromModule, FailFile
  <2> QED
    BY <1>3, <1>11, <2>1, <2>2, <2>3 DEF RootsSound
<1>14. CASE ClearGlobals
  BY <1>1, <1>14 DEF ClearGlobals, RootsSound, RootReturned, RootsCached
<1>15. CASE UNCHANGED vars
  BY <1>15 DEF vars, RootsSound, RootReturned, RootsCached
<1>16. CASE ReturnNamespace
  <2>1. PICK i \in 1..Len(stack) :
          /\ i - 1 \in 0..Len(stack)
          /\ \/ Raise(Cut(stack, i - 1))
             \/ /\ built' = built \cup {stack[i].ns}
                /\ Deliver(stack[i].ns, Cut(stack, i - 1))
    BY <1>16, ReturnShape
  <2>2. RootReturned'
    BY <2>1 DEF Raise, Deliver, RootReturned, LoadedBelow
  <2>3. stack' = Cut(stack, i - 1) /\ UNCHANGED packages
    BY <1>16, <2>1 DEF ReturnNamespace, Raise, Deliver
  <2> QED
    BY <1>3, <1>11, <2>1, <2>2, <2>3 DEF RootsSound
<1> QED
  BY <1>4, <1>10, <1>12, <1>13, <1>14, <1>15, <1>16 DEF Next

LEMMA CacheInit == SeenInit => CacheInv
<1> SUFFICES ASSUME SeenInit PROVE CacheInv
  OBVIOUS
<1>1. IInv
  BY IInvInit DEF SeenInit
<1>2. Apart /\ InProgress /\ FilesSound /\ RootsCached
  BY DEF SeenInit, Init, Apart, InProgress, FilesSound, RootsCached
<1>3. RootsOn(stack, built) /\ RootReturned
  BY DEF SeenInit, Init, RootsOn, RootReturned
<1> QED
  BY <1>1, <1>2, <1>3 DEF CacheInv, FilesSoundUndisturbed, RootsSound

LEMMA CacheNext == CacheInv /\ [SeenNext]_<<vars, seen>> => CacheInv'
<1> SUFFICES ASSUME CacheInv, [SeenNext]_<<vars, seen>> PROVE CacheInv'
  OBVIOUS
<1>1. /\ IInv /\ Apart /\ InProgress /\ [Next]_vars
      /\ seen \subseteq seen'
      /\ UNCHANGED vars \/ Happened \subseteq seen'
  BY DEF CacheInv, SeenNext
<1>2. IInv' /\ Apart' /\ InProgress'
  BY <1>1, IInvNext, ApartNext, InProgressNext
<1>3. ASSUME seen' \cap {"abandon", "conflict"} = {}
      PROVE  FilesSound'
  <2>1. FilesSound
    BY <1>1, <1>3 DEF CacheInv, FilesSoundUndisturbed
  <2>2. CASE UNCHANGED vars
    BY <2>1, <2>2 DEF vars, FilesSound, Sound
  <2>3. CASE Happened \subseteq seen'
    BY <1>1, <1>3, <2>1, <2>3, FilesNext
  <2> QED
    BY <1>1, <2>2, <2>3
<1>4. ASSUME seen' \cap {"abandon", "conflict", "unfinished"} = {}
      PROVE  RootsSound'
  <2>1. FilesSound /\ RootsSound
    BY <1>1, <1>4 DEF CacheInv, FilesSoundUndisturbed
  <2>2. CASE UNCHANGED vars
    BY <2>1, <2>2 DEF vars, RootsSound, RootReturned, RootsCached
  <2>3. CASE Happened \subseteq seen'
    BY <1>1, <1>4, <2>1, <2>3, RootsNext
  <2> QED
    BY <1>1, <2>2, <2>3
<1> QED
  BY <1>2, <1>3, <1>4 DEF CacheInv, FilesSoundUndisturbed

\* What `import' finds in the cache of files was loaded completely or is being
\* loaded, for every set of modules and whatever they do while they load, until
\* an import is abandoned or its last merge conflicts.
THEOREM FilesStaySound == SeenSpec => []FilesSoundUndisturbed
<1>1. CacheInv => FilesSoundUndisturbed
  BY DEF CacheInv
<1> QED
  BY <1>1, CacheInit, CacheNext, PTL DEF SeenSpec

\* The same for the cache of packages, until a root was moreover taken from an
\* init module that was still running.
THEOREM PackagesStaySound == SeenSpec => []PackagesSoundUndisturbed
<1>1. CacheInv => PackagesSoundUndisturbed
  BY DEF CacheInv, RootsSound, RootsCached, PackagesSoundUndisturbed, PackagesSound, Sound
<1> QED
  BY <1>1, CacheInit, CacheNext, PTL DEF SeenSpec

----------------------------------------------------------------------------
(* `include' has the right target until control jumps out of a namespace    *)
(* body or an error that left one is ignored.                               *)

\* Activities that have an entry in includeNamespaceStack.
Opens(a) == a.k \in {"ns", "file"}

\* Only a namespace body runs above execImport of a file, and bytecode never
\* runs directly in it; chunks are at the bottom, where exceptions end.
Shape(st, ex) ==
    /\ \A i \in 1..(Len(st) - 1) : st[i].k = "file" => st[i + 1].k = "ns"
    /\ ~ex /\ st # <<>> => Top(st).k # "file"
    /\ st # <<>> => st[1].k = "eval"
    /\ ex => st # <<>>

\* d counts the activities of st that have an entry, from the bottom.
Counts(d, st) ==
    /\ d \in [0..Len(st) -> Nat]
    /\ d[0] = 0
    /\ \A i \in 1..Len(st) : Opens(st[i]) => d[i] = d[i - 1] + 1
    /\ \A i, j \in 0..Len(st) : i <= j => d[i] <= d[j]
    /\ \A i, j \in 0..Len(st) :
         i <= j /\ (\A k \in (i + 1)..j : ~Opens(st[k])) => d[i] = d[j]

\* inc, the include stack, has their entries in order, and on top of them
\* perhaps those of activities that an exception has left; the depths that
\* handlers restore are those of their own position.
Fits(d, st, inc, ex) ==
    /\ Counts(d, st)
    /\ \A i \in 1..Len(st) :
         /\ Opens(st[i]) => inc[d[i]] = st[i].ns
         /\ st[i].k \in Tries \cup {"eval"} => st[i].inc = d[i - 1]
    /\ d[Len(st)] <= Len(inc)
    /\ ~ex => Len(inc) = d[Len(st)]

IncludeInv ==
    /\ IInv
    /\ Shape(stack, exc)
    /\ seen \cap {"leave", "swallow"} = {} => \E d : Fits(d, stack, includes, exc)

\* What is left of a nesting that is cut.
LEMMA ShapeCut ==
    ASSUME NEW st \in Seq(Activity), NEW ex, Shape(st, ex),
           NEW q \in Seq(Activity), NEW x \in BOOLEAN,
           Len(q) <= Len(st), \A i \in 1..Len(q) : q[i] = st[i],
           x => Len(q) > 0,
           ~x /\ Len(q) > 0 => \/ Len(q) < Len(st) /\ st[Len(q) + 1].k # "ns"
                               \/ st[Len(q)].k # "file"
    PROVE  Shape(q, x)
<1>1. /\ Len(st) \in Nat /\ Len(q) \in Nat
      /\ (q = <<>> <=> Len(q) = 0) /\ (st = <<>> <=> Len(st) = 0)
  BY LenProperties, EmptySeq
<1>2. \A i \in 1..(Len(q) - 1) : i \in 1..(Len(st) - 1) /\ i \in 1..Len(q) /\ i + 1 \in 1..Len(q)
  BY <1>1
<1>3. Len(q) > 0 => /\ Top(q) = st[Len(q)] /\ q[1] = st[1] /\ Len(st) > 0
                    /\ Len(q) < Len(st) => Len(q) \in 1..(Len(st) - 1)
  BY <1>1 DEF Top
<1> QED
  BY <1>1, <1>2, <1>3 DEF Shape

\* An activity that bytecode begins.
LEMMA ShapePush ==
    ASSUME NEW st \in Seq(Activity), Shape(st, FALSE),
           NEW a \in Activity, a.k # "file", st = <<>> => a.k = "eval"
    PROVE  Shape(Append(st, a), FALSE)
<1> DEFINE q == Append(st, a)
<1>1. /\ Len(st) \in Nat /\ (st = <<>> <=> Len(st) = 0)
      /\ q # <<>> /\ Len(q) = Len(st) + 1 /\ q[Len(st) + 1] = a /\ Top(q) = a
      /\ \A i \in 1..Len(st) : q[i] = st[i]
  BY LenProperties, EmptySeq, PushType
<1> HIDE DEF q
<1>2. ASSUME NEW i \in 1..(Len(q) - 1), q[i].k = "file"
      PROVE  q[i + 1].k = "ns"
  <2>1. i \in 1..Len(st) /\ st[i].k = "file"
    BY <1>1, <1>2
  <2>2. i # Len(st)
    BY <1>1, <2>1 DEF Shape, Top
  <2>3. i \in 1..(Len(st) - 1) /\ i + 1 \in 1..Len(st)
    BY <1>1, <2>1, <2>2
  <2> QED
    BY <1>1, <2>1, <2>3 DEF Shape
<1>3. q[1].k = "eval"
  BY <1>1 DEF Shape
<1> QED
  BY <1>1, <1>2, <1>3 DEF Shape, q

\* execImport and the outermost body of its module.
LEMMA ShapeModule ==
    ASSUME NEW st \in Seq(Activity), st # <<>>, Shape(st, FALSE),
           NEW a \in Activity, a.k = "file", NEW b \in Activity, b.k = "ns"
    PROVE  Shape(Append(Append(st, a), b), FALSE)
<1> DEFINE p == Append(st, a)
           q == Append(p, b)
<1>1. /\ Len(st) \in Nat /\ Len(st) > 0
      /\ p \in Seq(Activity) /\ Len(p) = Len(st) + 1 /\ p[Len(st) + 1] = a
      /\ \A i \in 1..Len(st) : p[i] = st[i]
  BY TopType, PushType
<1> HIDE DEF p
<1>2. /\ q # <<>> /\ Len(q) = Len(st) + 2 /\ q[Len(st) + 2] = b /\ Top(q) = b
      /\ q[Len(st) + 1] = a /\ \A i \in 1..Len(st) : q[i] = st[i]
  BY <1>1, PushType
<1> HIDE DEF q
<1>3. ASSUME NEW i \in 1..(Len(q) - 1), q[i].k = "file"
      PROVE  q[i + 1].k = "ns"
  <2>1. CASE i = Len(st) + 1
    BY <1>2, <2>1
  <2>2. CASE i = Len(st)
    BY <1>1, <1>2, <1>3, <2>2 DEF Shape, Top
  <2>3. CASE i \in 1..(Len(st) - 1)
    <3>1. i + 1 \in 1..Len(st) /\ i \in 1..Len(st)
      BY <1>1, <2>3
    <3> QED
      BY <1>2, <1>3, <2>3, <3>1 DEF Shape
  <2> QED
    BY <1>1, <1>2, <2>1, <2>2, <2>3
<1>4. q[1].k = "eval"
  BY <1>1, <1>2 DEF Shape
<1> QED
  BY <1>2, <1>3, <1>4 DEF Shape, q, p

----------------------------------------------------------------------------
\* A nesting and an include stack that are cut.
LEMMA FitCut ==
    ASSUME NEW st \in Seq(Activity), NEW d, NEW inc \in Seq(Ns), NEW ex, NEW x,
           Fits(d, st, inc, ex),
           NEW q \in Seq(Activity), NEW r \in Seq(Ns),
           Len(q) <= Len(st), \A i \in 1..Len(q) : q[i] = st[i],
           Len(r) <= Len(inc), \A i \in 1..Len(r) : r[i] = inc[i],
           d[Len(q)] <= Len(r), ~x => Len(r) = d[Len(q)]
    PROVE  \E e : Fits(e, q, r, x)
<1> DEFINE e == [i \in 0..Len(q) |-> d[i]]
<1>1. Len(st) \in Nat /\ Len(q) \in Nat /\ Len(inc) \in Nat /\ Len(r) \in Nat
  BY LenProperties
<1>2. /\ \A i \in 0..Len(q) : i \in 0..Len(st) /\ e[i] = d[i] /\ e[i] \in Nat
      /\ \A i \in 1..Len(q) : i \in 1..Len(st) /\ i - 1 \in 0..Len(q) /\ i \in 0..Len(q)
  <2>1. d \in [0..Len(st) -> Nat]
    BY DEF Fits, Counts
  <2>2. \A i \in 0..Len(q) : i \in 0..Len(st)
    BY <1>1
  <2>3. \A i \in 1..Len(q) : i \in 1..Len(st) /\ i - 1 \in 0..Len(q) /\ i \in 0..Len(q)
    BY <1>1
  <2> QED
    BY <2>1, <2>2, <2>3
<1>3. e \in [0..Len(q) -> Nat] /\ 0 \in 0..Len(q) /\ Len(q) \in 0..Len(q)
  BY <1>1, <1>2
<1> HIDE DEF e
<1>4. Counts(e, q)
  <2>1. \A i \in 1..Len(q) : Opens(q[i]) => e[i] = e[i - 1] + 1
    BY <1>2 DEF Fits, Counts
  <2>2. \A i, j \in 0..Len(q) : i <= j => e[i] <= e[j]
    BY <1>2 DEF Fits, Counts
  <2>3. ASSUME NEW i \in 0..Len(q), NEW j \in 0..Len(q), i <= j,
               \A k \in (i + 1)..j : ~Opens(q[k])
        PROVE  e[i] = e[j]
    <3>1. \A k \in (i + 1)..j : k \in 1..Len(q)
      BY <1>1
    <3>2. \A k \in (i + 1)..j : ~Opens(st[k])
      BY <2>3, <3>1
    <3>3. i \in 0..Len(st) /\ j \in 0..Len(st) /\ d[i] = e[i] /\ d[j] = e[j]
      BY <1>2
    <3> QED
      BY <2>3, <3>2, <3>3 DEF Fits, Counts
  <2> QED
    BY <1>2, <1>3, <2>1, <2>2, <2>3 DEF Fits, Counts
<1>5. ASSUME NEW i \in 1..Len(q), Opens(q[i])
      PROVE  r[e[i]] = q[i].ns
  <2>1. d[i] \in 1..Len(r)
    <3>1. d[i] = d[i - 1] + 1 /\ d[i - 1] \in Nat /\ d[i] \in Nat
      BY <1>2, <1>5 DEF Fits, Counts
    <3>2. d[i] <= d[Len(q)] /\ d[Len(q)] \in Nat
      BY <1>1, <1>2, <1>3 DEF Fits, Counts
    <3> QED
      BY <1>1, <3>1, <3>2
  <2> QED
    BY <1>2, <1>5, <2>1 DEF Fits
<1>6. \A i \in 1..Len(q) : q[i].k \in Tries \cup {"eval"} => q[i].inc = e[i - 1]
  BY <1>2 DEF Fits
<1>7. e[Len(q)] = d[Len(q)]
  BY <1>2, <1>3
<1> QED
  BY <1>4, <1>5, <1>6, <1>7 DEF Fits

\* A new activity, with its entry if it has one.
LEMMA FitPush ==
    ASSUME NEW st \in Seq(Activity), NEW d, NEW inc \in Seq(Ns), Fits(d, st, inc, FALSE),
           NEW a \in Activity, a.k \in Tries \cup {"eval"} => a.inc = Len(inc),
           NEW r \in Seq(Ns), \A i \in 1..Len(inc) : r[i] = inc[i],
           IF Opens(a) THEN Len(r) = Len(inc) + 1 /\ r[Len(inc) + 1] = a.ns
           ELSE Len(r) = Len(inc)
    PROVE  \E e : Fits(e, Append(st, a), r, FALSE)
<1> DEFINE q == Append(st, a)
           e == [i \in 0..(Len(st) + 1) |-> IF i = Len(st) + 1 THEN Len(r) ELSE d[i]]
<1>1. /\ Len(st) \in Nat /\ Len(inc) \in Nat /\ Len(r) \in Nat
      /\ Len(q) = Len(st) + 1 /\ q[Len(st) + 1] = a
      /\ \A i \in 1..Len(st) : q[i] = st[i]
  BY PushType, LenProperties
<1>2. /\ d \in [0..Len(st) -> Nat] /\ d[0] = 0 /\ d[Len(st)] = Len(inc)
      /\ \A i \in 0..Len(st) : e[i] = d[i]
      /\ e[Len(st) + 1] = Len(r)
      /\ e \in [0..(Len(st) + 1) -> Nat]
      /\ Len(st) \in 0..Len(st) /\ (Len(st) + 1) - 1 = Len(st)
      /\ e[Len(st)] = Len(inc) /\ e[0] = 0
      /\ \A i \in 0..Len(q) : i \in 0..Len(st) \/ i = Len(st) + 1
      /\ \A i \in 1..Len(q) : i \in 1..Len(st) \/ i = Len(st) + 1
  BY <1>1 DEF Fits, Counts
<1> HIDE DEF q, e
<1>3. Counts(e, q)
  <2>1. \A i \in 1..Len(q) : Opens(q[i]) => e[i] = e[i - 1] + 1
    <3>1. ASSUME NEW i \in 1..Len(st), Opens(q[i]) PROVE e[i] = e[i - 1] + 1
      <4>1. i \in 0..Len(st) /\ i - 1 \in 0..Len(st) /\ Opens(st[i])
        BY <1>1, <3>1
      <4> QED
        BY <1>2, <4>1 DEF Fits, Counts
    <3>2. Opens(q[Len(st) + 1]) => e[Len(st) + 1] = e[(Len(st) + 1) - 1] + 1
      BY <1>1, <1>2
    <3> QED
      BY <1>1, <3>1, <3>2
  <2>2. ASSUME NEW i \in 0..Len(st)
        PROVE  d[i] <= Len(inc) /\ d[i] \in Nat
    <3>1. i <= Len(st)
      BY <1>1
    <3> QED
      BY <1>2, <3>1 DEF Fits, Counts
  <2>3. Len(inc) <= Len(r)
    BY <1>1
  <2>4. \A i, j \in 0..Len(q) : i <= j => e[i] <= e[j]
    <3>1. \A i, j \in 0..Len(st) : i <= j => e[i] <= e[j]
      BY <1>2 DEF Fits, Counts
    <3>2. ASSUME NEW i \in 0..Len(st)
          PROVE  e[i] <= Len(r)
      <4>1. e[i] = d[i]
        BY <1>2
      <4>2. Len(inc) \in Nat /\ Len(r) \in Nat
        BY <1>1
      <4> QED
        BY <2>2, <2>3, <4>1, <4>2
    <3>3. \A i \in 0..Len(st) : ~(Len(st) + 1 <= i)
      BY <1>1
    <3>4. Len(r) <= Len(r)
      BY <1>1
    <3> QED
      BY <1>2, <3>1, <3>2, <3>3, <3>4
  <2>5. ASSUME NEW i \in 0..Len(q), NEW j \in 0..Len(q), i <= j,
               \A k \in (i + 1)..j : ~Opens(q[k])
        PROVE  e[i] = e[j]
    <3>1. ASSUME NEW m \in 0..Len(st), i <= m, m <= j
          PROVE  d[i] = d[m]
      <4>1. \A k \in (i + 1)..m : k \in (i + 1)..j /\ k \in 1..Len(st)
        BY <1>1, <3>1
      <4>2. i \in 0..Len(st)
        BY <1>1, <3>1
      <4> QED
        BY <1>1, <2>5, <3>1, <4>1, <4>2 DEF Fits, Counts
    <3>2. CASE j \in 0..Len(st)
      BY <1>1, <1>2, <2>5, <3>1, <3>2
    <3>3. CASE j = Len(st) + 1 /\ i # j
      <4>1. ~Opens(a) /\ Len(st) \in 0..Len(st) /\ i \in 0..Len(st)
        BY <1>1, <2>5, <3>3
      <4> QED
        BY <1>1, <1>2, <3>1, <3>3, <4>1
    <3> QED
      BY <1>1, <3>2, <3>3
  <2> QED
    BY <1>1, <1>2, <2>1, <2>4, <2>5 DEF Counts
<1>4. ASSUME NEW i \in 1..Len(q)
      PROVE  /\ Opens(q[i]) => r[e[i]] = q[i].ns
             /\ q[i].k \in Tries \cup {"eval"} => q[i].inc = e[i - 1]
  <2>1. CASE i = Len(st) + 1
    BY <1>1, <1>2, <2>1
  <2>2. CASE i \in 1..Len(st)
    <3>1. i \in 0..Len(st) /\ i - 1 \in 0..Len(st) /\ Len(st) \in 0..Len(st) /\ i <= Len(st)
      BY <1>1, <2>2
    <3>2. Opens(q[i]) => d[i] \in 1..Len(inc)
      <4>1. Opens(q[i]) => d[i] = d[i - 1] + 1
        BY <1>1, <2>2 DEF Fits, Counts
      <4>2. d[i] <= d[Len(st)] /\ d[i - 1] \in Nat
        BY <1>2, <3>1 DEF Fits, Counts
      <4> QED
        BY <1>1, <1>2, <4>1, <4>2
    <3> QED
      BY <1>1, <1>2, <2>2, <3>1, <3>2 DEF Fits
  <2> QED
    BY <1>1, <2>1, <2>2
<1>5. e[Len(q)] = Len(r)
  BY <1>1, <1>2
<1>6. Fits(e, q, r, FALSE)
  BY <1>1, <1>3, <1>4, <1>5 DEF Fits
<1> QED
  BY <1>6 DEF q

\* The code of a module begins.
LEMMA FitModule ==
    ASSUME NEW st \in Seq(Activity), NEW d, NEW inc \in Seq(Ns), Fits(d, st, inc, FALSE),
           NEW f \in File, NEW n \in Ns, NEW m \in Ns
    PROVE  \E e : Fits(e, Append(Append(st, Act("file", f, n, 0)), Act("ns", NoFile, m, 0)),
                       inc \o <<n, m>>, FALSE)
<1> DEFINE a == Act("file", f, n, 0)
           b == Act("ns", NoFile, m, 0)
           p == Append(st, a)
           r == Append(inc, n)
           t == inc \o <<n, m>>
<1>1. /\ a \in Activity /\ a.k = "file" /\ a.ns = n
      /\ b \in Activity /\ b.k = "ns" /\ b.ns = m
  BY ParamAssumption DEF Act, Activity, Ns
<1>2. /\ Len(inc) \in Nat
      /\ r \in Seq(Ns) /\ Len(r) = Len(inc) + 1 /\ r[Len(inc) + 1] = n
      /\ \A i \in 1..Len(inc) : r[i] = inc[i]
  BY LenProperties, PushType
<1>3. /\ t \in Seq(Ns) /\ Len(t) = Len(inc) + 2
      /\ t[Len(inc) + 1] = n /\ t[Len(inc) + 2] = m
      /\ \A i \in 1..Len(inc) : t[i] = inc[i]
  <2>1. <<n, m>> \in Seq(Ns) /\ Len(<<n, m>>) = 2 /\ <<n, m>>[1] = n /\ <<n, m>>[2] = m
    OBVIOUS
  <2> HIDE DEF t
  <2>2. /\ t \in Seq(Ns) /\ Len(t) = Len(inc) + 2
        /\ \A i \in 1..Len(t) : t[i] = IF i <= Len(inc) THEN inc[i] ELSE <<n, m>>[i - Len(inc)]
    BY <2>1, ConcatProperties DEF t
  <2>3. Len(inc) + 1 \in 1..Len(t) /\ Len(inc) + 2 \in 1..Len(t)
        /\ (Len(inc) + 1) - Len(inc) = 1 /\ (Len(inc) + 2) - Len(inc) = 2
        /\ ~(Len(inc) + 1 <= Len(inc)) /\ ~(Len(inc) + 2 <= Len(inc))
        /\ \A i \in 1..Len(inc) : i \in 1..Len(t) /\ i <= Len(inc)
    BY <1>2, <2>2
  <2> QED
    BY <2>1, <2>2, <2>3
<1>4. p \in Seq(Activity)
  BY <1>1, PushType
<1> HIDE DEF a, b, r, t
<1>5. Opens(a) /\ a.k \notin Tries \cup {"eval"} /\ Opens(b) /\ b.k \notin Tries \cup {"eval"}
  BY <1>1 DEF Opens, Tries
<1>6. PICK e : Fits(e, p, r, FALSE)
  BY <1>1, <1>2, <1>5, FitPush
<1> HIDE DEF p
<1>7. (\A i \in 1..Len(r) : t[i] = r[i]) /\ Len(t) = Len(r) + 1 /\ t[Len(r) + 1] = b.ns
  BY <1>1, <1>2, <1>3
<1>8. \E x : Fits(x, Append(p, b), t, FALSE)
  BY <1>1, <1>2, <1>3, <1>4, <1>5, <1>6, <1>7, FitPush
<1> QED
  BY <1>8 DEF a, b, p, r, t

\* execPackageImport keeps its root.
LEMMA FitSet ==
    ASSUME NEW st, NEW d, NEW inc, NEW ex, Fits(d, st, inc, ex), NEW q,
           Len(q) = Len(st),
           \A i \in 1..Len(st) : /\ q[i].k = st[i].k /\ q[i].inc = st[i].inc
                                 /\ Opens(st[i]) => q[i] = st[i],
           Len(st) \in Nat
    PROVE  Fits(d, q, inc, ex)
<1>1. \A i \in 1..Len(st) : Opens(q[i]) <=> Opens(st[i])
  BY DEF Opens
<1>2. ASSUME NEW i \in 0..Len(st), NEW j \in 0..Len(st)
      PROVE  \A k \in (i + 1)..j : Opens(q[k]) <=> Opens(st[k])
  BY <1>1
<1>3. Counts(d, q)
  BY SMTT(30), <1>1, <1>2 DEF Fits, Counts
<1> QED
  BY <1>1, <1>3 DEF Fits

----------------------------------------------------------------------------
\* What each step keeps.
Undisturbed == Happened \cap {"leave", "swallow"} = {}

Kept ==
    /\ Shape(stack', exc')
    /\ Undisturbed /\ (\E d : Fits(d, stack, includes, exc))
         => \E e : Fits(e, stack', includes', exc')

\* The include stack is cut to the entries of what is left of the nesting;
\* with an exception in flight more may stay.
Trims(d) ==
    \E m \in 0..Len(includes) :
      /\ \/ includes' = Cut(includes, m)
         \/ m = Len(includes) /\ includes' = includes
      /\ d[Len(stack')] <= m
      /\ ~exc' => m = d[Len(stack')]

\* What is known of a state before a step.
LEMMA Before ==
    ASSUME IInv, Shape(stack, exc), [Next]_vars
    PROVE  /\ stack \in Seq(Activity) /\ Len(stack) \in Nat /\ (stack = <<>> <=> Len(stack) = 0)
           /\ stack' \in Seq(Activity) /\ Len(stack') \in Nat
           /\ includes \in Seq(Ns) /\ Len(includes) \in Nat /\ includes' \in Seq(Ns)
           /\ exc' \in BOOLEAN
           /\ stack # <<>> => Len(stack) > 0 /\ Top(stack) = stack[Len(stack)]
           /\ stack # <<>> /\ Top(stack).k # "eval" => Len(stack) > 1
BY SMTT(30), RunningFacts, IInvNext, LenProperties, EmptySeq DEF IInv, Typed, StackInv, Shape

\* The number of entries next to the top, and below it.
LEMMA Depths ==
    ASSUME NEW st \in Seq(Activity), NEW d, NEW inc, NEW ex, Fits(d, st, inc, ex),
           Len(inc) \in Nat
    PROVE  /\ \A n \in 0..Len(st) : d[n] \in Nat /\ d[n] <= d[Len(st)] /\ d[n] <= Len(inc)
           /\ \A i \in 1..Len(st) :
                /\ d[i] = IF Opens(st[i]) THEN d[i - 1] + 1 ELSE d[i - 1]
                /\ st[i].k \in Tries \cup {"eval"} => st[i].inc = d[i - 1]
           /\ \A n \in 0..Len(st) :
                (\A k \in (n + 1)..Len(st) : ~Opens(st[k])) => d[n] = d[Len(st)]
<1>1. Len(st) \in Nat /\ Len(st) \in 0..Len(st)
  BY LenProperties
<1>2. ASSUME NEW n \in 0..Len(st)
      PROVE  /\ d[n] \in Nat /\ d[n] <= d[Len(st)] /\ d[n] <= Len(inc)
             /\ (\A k \in (n + 1)..Len(st) : ~Opens(st[k])) => d[n] = d[Len(st)]
  <2>1. n <= Len(st) /\ d[n] \in Nat /\ d[Len(st)] \in Nat /\ d[Len(st)] <= Len(inc)
    BY SMTT(30), <1>1 DEF Fits, Counts
  <2>2. d[n] <= d[Len(st)]
    BY <1>1, <2>1 DEF Fits, Counts
  <2>3. (\A k \in (n + 1)..Len(st) : ~Opens(st[k])) => d[n] = d[Len(st)]
    BY <1>1, <2>1 DEF Fits, Counts
  <2> QED
    BY <2>1, <2>2, <2>3
<1>3. ASSUME NEW i \in 1..Len(st), ~Opens(st[i])
      PROVE  d[i] = d[i - 1]
  <2>1. i \in 0..Len(st) /\ i - 1 \in 0..Len(st) /\ i - 1 <= i
        /\ \A k \in ((i - 1) + 1)..i : k = i
    BY <1>1
  <2> QED
    BY <1>3, <2>1 DEF Fits, Counts
<1>4. \A i \in 1..Len(st) : Opens(st[i]) => d[i] = d[i - 1] + 1
  BY DEF Fits, Counts
<1> QED
  BY <1>2, <1>3, <1>4 DEF Fits

\* Activities end.
LEMMA KeepCut ==
    ASSUME IInv, Shape(stack, exc), [Next]_vars,
           Len(stack') <= Len(stack), \A i \in 1..Len(stack') : stack'[i] = stack[i],
           exc' => Len(stack') > 0,
           ~exc' /\ Len(stack') > 0 =>
             \/ Len(stack') < Len(stack) /\ stack[Len(stack') + 1].k # "ns"
             \/ stack[Len(stack')].k # "file",
           \A d : Fits(d, stack, includes, exc) /\ Undisturbed => Trims(d)
    PROVE  Kept
<1>1. Shape(stack', exc')
  BY Before, ShapeCut
<1>2. ASSUME NEW d, Fits(d, stack, includes, exc), Undisturbed
      PROVE  \E e : Fits(e, stack', includes', exc')
  <2>1. PICK m \in 0..Len(includes) :
          /\ \/ includes' = Cut(includes, m)
             \/ m = Len(includes) /\ includes' = includes
          /\ d[Len(stack')] <= m
          /\ ~exc' => m = d[Len(stack')]
    BY <1>2 DEF Trims
  <2>2. Len(includes') = m /\ \A i \in 1..m : includes'[i] = includes[i]
    <3>1. includes \in Seq(Ns) /\ Len(includes) \in Nat
      BY Before
    <3>2. Len(Cut(includes, m)) = m /\ \A i \in 1..m : Cut(includes, m)[i] = includes[i]
      BY <3>1, CutType
    <3> QED
      BY <2>1, <3>2
  <2>3. Len(includes') <= Len(includes)
    BY <2>2, Before
  <2> QED
    BY <1>2, <2>1, <2>2, <2>3, Before, FitCut
<1> QED
  BY <1>1, <1>2 DEF Kept

\* Bytecode begins an activity.
LEMMA KeepPush ==
    ASSUME IInv, Shape(stack, exc), [Next]_vars, stack = <<>> \/ Running,
           NEW a \in Activity, a.k \notin {"file", "pkg"},
           stack' = Append(stack, a), UNCHANGED exc,
           stack = <<>> => a.k = "eval",
           a.k \in Tries \cup {"eval"} => a.inc = Len(includes),
           includes' = IF a.k = "ns" THEN Append(includes, a.ns) ELSE includes,
           a.k = "ns" => a.ns \in Ns
    PROVE  Kept
<1>1. exc = FALSE /\ exc' = FALSE
  BY RunningFacts DEF Shape, IInv, Typed
<1>2. Shape(stack', exc')
  BY <1>1, Before, ShapePush
<1>3. Opens(a) <=> a.k = "ns"
  BY DEF Opens
<1>4. IF Opens(a) THEN Len(includes') = Len(includes) + 1 /\ includes'[Len(includes) + 1] = a.ns
      ELSE Len(includes') = Len(includes)
  BY <1>3, Before, PushType
<1>5. \A i \in 1..Len(includes) : includes'[i] = includes[i]
  BY Before, PushType
<1>6. ASSUME NEW d, Fits(d, stack, includes, exc)
      PROVE  \E e : Fits(e, stack', includes', exc')
  BY ZenonT(60), <1>1, <1>4, <1>5, <1>6, Before, FitPush
<1> QED
  BY <1>2, <1>6 DEF Kept

\* execImport of a file for the nesting stk.
LEMMA KeepImport ==
    ASSUME IInv, Shape(stack, exc), [Next]_vars, NEW f, NEW stk, Importing(f, stk),
           Shape(stk, FALSE),
           \A d : Fits(d, stack, includes, exc) => \E e : Fits(e, stk, includes, FALSE)
    PROVE  Kept
<1>1. stk \in Seq(Activity) /\ stk # <<>> /\ exc = FALSE /\ f \in File /\ ExecImport(f, stk)
  BY DEF Importing, IInv, Typed
<1>2. Shape(stk, TRUE)
  BY <1>1 DEF Shape
<1>3. \A e : Fits(e, stk, includes, FALSE) => Fits(e, stk, includes, TRUE)
  BY DEF Fits
<1>4. CASE stack' = stk /\ (exc' = TRUE \/ exc' = exc) /\ UNCHANGED includes
  BY <1>1, <1>2, <1>3, <1>4 DEF Kept
<1>5. ASSUME NEW n \in Free, NEW m \in Free,
             stack' = Append(Append(stk, Act("file", f, n, 0)), Act("ns", NoFile, m, 0)),
             includes' = includes \o <<n, m>>, UNCHANGED exc
      PROVE  Kept
  <2>1. n \in Ns /\ m \in Ns
    BY FreeFacts
  <2>2. /\ Act("file", f, n, 0) \in Activity /\ Act("file", f, n, 0).k = "file"
        /\ Act("ns", NoFile, m, 0) \in Activity /\ Act("ns", NoFile, m, 0).k = "ns"
    BY <1>1, <2>1, ParamAssumption DEF Act, Activity, Ns
  <2>3. Shape(stack', exc')
    BY <1>1, <1>5, <2>2, ShapeModule
  <2>4. ASSUME NEW d, Fits(d, stk, includes, FALSE)
        PROVE  \E e : Fits(e, stack', includes', FALSE)
    BY <1>1, <1>5, <2>1, <2>4, Before, FitModule
  <2> QED
    BY <1>1, <1>5, <2>3, <2>4 DEF Kept
<1>6. Typed
  BY DEF IInv
<1> QED
  BY <1>1, <1>4, <1>5, <1>6, ImportShape

\* The include stack stays, loses its last entry, or is restored.
LEMMA TrimFacts ==
    ASSUME includes \in Seq(Ns), NEW d, NEW n \in Nat, d[Len(stack')] = n, n <= Len(includes),
           \/ includes' = includes /\ (~exc' => n = Len(includes))
           \/ /\ includes' = Pop(includes) /\ n < Len(includes)
              /\ ~exc' => n = Len(includes) - 1
           \/ /\ includes' = Cut(includes, Len(includes) - 2) /\ n <= Len(includes) - 2
              /\ ~exc' => n = Len(includes) - 2
           \/ RestoreIncludes(n)
    PROVE  Trims(d)
<1>1. Len(includes) \in Nat /\ Len(includes) \in 0..Len(includes)
  BY LenProperties
<1>2. CASE includes' = includes /\ (~exc' => n = Len(includes))
  BY <1>1, <1>2 DEF Trims
<1>3. CASE includes' = Pop(includes) /\ n < Len(includes) /\ (~exc' => n = Len(includes) - 1)
  <2>1. Len(includes) - 1 \in 0..Len(includes) /\ n <= Len(includes) - 1
    BY <1>1, <1>3
  <2>2. includes' = Cut(includes, Len(includes) - 1)
    BY <1>3 DEF Pop, Cut
  <2> QED
    BY <1>3, <2>1, <2>2 DEF Trims
<1>4. CASE /\ includes' = Cut(includes, Len(includes) - 2) /\ n <= Len(includes) - 2
           /\ ~exc' => n = Len(includes) - 2
  <2>1. Len(includes) - 2 \in 0..Len(includes)
    BY <1>1, <1>4
  <2> QED
    BY <1>4, <2>1 DEF Trims
<1>5. CASE RestoreIncludes(n)
  <2>1. Smaller(n, Len(includes)) = n
    BY DEF Smaller
  <2>2. includes' = Cut(includes, n)
    BY <1>5, <2>1 DEF RestoreIncludes
  <2> QED
    BY <1>1, <2>2 DEF Trims
<1> QED
  BY <1>2, <1>3, <1>4, <1>5

\* The activity on top ends.
LEMMA KeepPop ==
    ASSUME IInv, Shape(stack, exc), [Next]_vars, stack # <<>>, stack' = Pop(stack),
           exc' => Len(stack) > 1,
           ~exc' => Top(stack).k # "ns" \/ ~AtModuleBody,
           \A d : \A n \in Nat :
             /\ Fits(d, stack, includes, exc) /\ Undisturbed
             /\ n < Len(includes) \/ (n = Len(includes) /\ ~Opens(Top(stack)))
             /\ ~exc => Len(includes) = IF Opens(Top(stack)) THEN n + 1 ELSE n
             /\ Top(stack).k \in Tries \cup {"eval"} => Top(stack).inc = n
             => \/ includes' = includes /\ (~exc' => n = Len(includes))
                \/ /\ includes' = Pop(includes) /\ n < Len(includes)
                   /\ ~exc' => n = Len(includes) - 1
                \/ RestoreIncludes(n)
    PROVE  Kept
<1>1. /\ stack \in Seq(Activity) /\ Len(stack) \in Nat /\ Len(stack) > 0
      /\ Top(stack) = stack[Len(stack)] /\ Len(stack) \in 1..Len(stack)
      /\ includes \in Seq(Ns) /\ Len(includes) \in Nat
  BY Before
<1>2. /\ Len(stack') = Len(stack) - 1 /\ \A i \in 1..Len(stack') : stack'[i] = stack[i]
      /\ Len(stack) - 1 \in 0..Len(stack)
  <2>1. Len(stack) - 1 \in 0..Len(stack) /\ stack' = Cut(stack, Len(stack) - 1)
    BY <1>1, PopIsCut
  <2>2. stack \in Seq(Activity) /\ Len(stack) - 1 \in 0..Len(stack)
    BY <1>1, <2>1
  <2>3. LET q == Cut(stack, Len(stack) - 1)
        IN  Len(q) = Len(stack) - 1 /\ \A i \in 1..(Len(stack) - 1) : q[i] = stack[i]
    BY <2>2, CutType
  <2> QED
    BY <2>1, <2>3
<1>3. ~exc' /\ Len(stack') > 0 =>
        \/ Len(stack') < Len(stack) /\ stack[Len(stack') + 1].k # "ns"
        \/ stack[Len(stack')].k # "file"
  BY <1>1, <1>2 DEF AtModuleBody
<1>4. ASSUME NEW d, Fits(d, stack, includes, exc), Undisturbed
      PROVE  Trims(d)
  <2> DEFINE n == d[Len(stack) - 1]
  <2>1. /\ d[Len(stack)] = IF Opens(Top(stack)) THEN n + 1 ELSE n
        /\ Top(stack).k \in Tries \cup {"eval"} => Top(stack).inc = n
        /\ n \in Nat /\ d[Len(stack)] \in Nat /\ d[Len(stack)] <= Len(includes)
        /\ ~exc => Len(includes) = d[Len(stack)]
        /\ d[Len(stack')] = n
    <3>1. /\ d[Len(stack)] = IF Opens(stack[Len(stack)]) THEN n + 1 ELSE n
          /\ stack[Len(stack)].k \in Tries \cup {"eval"} => stack[Len(stack)].inc = n
          /\ n \in Nat
      BY <1>1, <1>2, <1>4, Depths
    <3>2. d[Len(stack)] <= Len(includes) /\ (~exc => Len(includes) = d[Len(stack)])
      BY <1>4 DEF Fits
    <3> QED
      BY <1>1, <1>2, <3>1, <3>2
  <2> HIDE DEF n
  <2>2. /\ n < Len(includes) \/ (n = Len(includes) /\ ~Opens(Top(stack)))
        /\ ~exc => Len(includes) = IF Opens(Top(stack)) THEN n + 1 ELSE n
        /\ n <= Len(includes)
    BY <1>1, <2>1
  <2>3. \/ includes' = includes /\ (~exc' => n = Len(includes))
        \/ /\ includes' = Pop(includes) /\ n < Len(includes)
           /\ ~exc' => n = Len(includes) - 1
        \/ RestoreIncludes(n)
    BY <1>4, <2>1, <2>2
  <2> QED
    BY <1>1, <2>1, <2>2, <2>3, TrimFacts
<1> QED
  BY <1>1, <1>2, <1>3, <1>4, KeepCut

\* Steps of the program.
LEMMA KeepProgram ==
    ASSUME IInv, Shape(stack, exc), [Next]_vars,
           \/ Eval \/ Call \/ TryBegin \/ TryEnd \/ NamespaceBegin \/ BuildNamespace
           \/ Return \/ Jump \/ Throw
    PROVE  Kept
<1>0. /\ stack \in Seq(Activity) /\ Len(stack) \in Nat /\ (stack = <<>> <=> Len(stack) = 0)
      /\ includes \in Seq(Ns) /\ Len(includes) \in Nat
      /\ stack # <<>> => Len(stack) > 0 /\ Top(stack) = stack[Len(stack)]
      /\ stack # <<>> /\ Top(stack).k # "eval" => Len(stack) > 1
      /\ Running => ~exc /\ stack # <<>>
  BY Before, RunningFacts
<1>1. ASSUME NEW k \in Tries \cup Calls \cup {"ns"}, NEW n \in 0..MaxNs, NEW d \in Nat,
             Enter(Act(k, NoFile, n, d)), stack = <<>> \/ Running,
             stack = <<>> => k = "eval",
             k \in Tries \cup {"eval"} => d = Len(includes),
             includes' = IF k = "ns" THEN Append(includes, n) ELSE includes,
             k = "ns" => n \in Ns
      PROVE  Kept
  <2>1. /\ Act(k, NoFile, n, d) \in Activity
        /\ Act(k, NoFile, n, d).k = k /\ k \notin {"file", "pkg"}
        /\ Act(k, NoFile, n, d).ns = n /\ Act(k, NoFile, n, d).inc = d
    BY <1>1 DEF Act, Activity, Tries, Calls
  <2> QED
    BY <1>1, <2>1, KeepPush DEF Enter
<1>2. 0 \in 0..MaxNs /\ 0 \in Nat /\ Free \subseteq 0..MaxNs /\ Free \subseteq Ns
  BY ParamAssumption DEF Free, Ns
<1>3. CASE Eval
  BY <1>0, <1>1, <1>2, <1>3 DEF Eval, Calls
<1>4. CASE Call
  <2>1. PICK k \in {"func", "final"} : Enter(Act(k, NoFile, 0, 0))
    BY <1>4 DEF Call
  <2> QED
    BY <1>0, <1>1, <1>2, <1>4, <2>1 DEF Call, Calls, Tries
<1>5. CASE TryBegin
  <2>1. PICK k \in Tries : Enter(Act(k, NoFile, 0, Len(includes)))
    BY <1>5 DEF TryBegin, Tries
  <2> QED
    BY <1>0, <1>1, <1>2, <1>5, <2>1 DEF TryBegin, Tries
<1>6. CASE NamespaceBegin
  <2>1. PICK n \in Free : /\ Enter(Act("ns", NoFile, n, 0))
                          /\ includes' = Append(includes, n)
    BY <1>6 DEF NamespaceBegin
  <2> QED
    BY <1>0, <1>1, <1>2, <1>6, <2>1 DEF NamespaceBegin, Tries
<1>7. CASE TryEnd
  <2>1. ~Opens(Top(stack)) /\ Top(stack).k # "ns"
    BY <1>7 DEF TryEnd, Tries, Opens
  <2> QED
    BY <1>0, <1>7, <2>1, KeepPop DEF TryEnd
<1>8. CASE BuildNamespace
  <2>1. Opens(Top(stack)) /\ Len(stack) > 1 /\ stack' = Pop(stack) /\ exc' \in BOOLEAN
    BY <1>0, <1>8, Before DEF BuildNamespace, Opens, Raise
  <2>2. \A n \in Nat : Len(includes) = n + 1 => includes' = Pop(includes)
    BY <1>0, <1>8, EmptySeq DEF BuildNamespace
  <2> QED
    BY <1>0, <1>8, <2>1, <2>2, KeepPop DEF BuildNamespace
<1>9. CASE Return
  <2>1. PICK i \in 1..Len(stack) :
          FrameAt(i) /\ stack[i].k # "file" /\ stack' = Cut(stack, i - 1)
    BY <1>9 DEF Return
  <2>2. /\ i - 1 \in 0..Len(stack) /\ Len(stack') = i - 1
        /\ \A j \in 1..Len(stack') : stack'[j] = stack[j]
        /\ (i - 1) + 1 = i
    BY SMTT(30), <1>0, <2>1, CutType
  <2>3. ~exc /\ ~exc' /\ includes' = includes /\ Running
    BY <1>0, <1>9 DEF Return
  <2>4. ASSUME Undisturbed, NEW j \in i..Len(stack)
        PROVE  ~Opens(stack[j])
    <3>1. stack[j].k # "ns"
      <4>1. "leave" \notin Happened /\ j \in 1..Len(stack) /\ j > Len(stack')
        BY <1>0, <2>2, <2>4 DEF Undisturbed
      <4> QED
        BY <2>3, <4>1 DEF Happened, Dropped
    <3>2. stack[j].k # "file"
      BY <1>0, <2>1 DEF FrameAt, Tries
    <3> QED
      BY <3>1, <3>2 DEF Opens
  <2>5. ASSUME NEW d, Fits(d, stack, includes, exc), Undisturbed
        PROVE  Trims(d)
    <3>1. d[i - 1] = Len(includes)
      BY <1>0, <2>2, <2>3, <2>4, <2>5, Depths DEF Fits
    <3> QED
      BY <1>0, <2>2, <2>3, <3>1, TrimFacts
  <2>6. Len(stack') < Len(stack) /\ stack[Len(stack') + 1].k # "ns"
    BY <1>0, <2>1, <2>2 DEF FrameAt, Calls
  <2>7. Len(stack') <= Len(stack)
    BY <1>0, <2>2
  <2> QED
    BY <2>2, <2>3, <2>5, <2>6, <2>7, KeepCut
<1>10. CASE Jump
  <2>1. PICK i \in 1..Len(stack), n \in 1..Len(stack) :
          /\ FrameAt(i) /\ n < Len(stack)
          /\ n >= i + (IF stack[i].k = "file" THEN 1 ELSE 0)
          /\ \E j \in (n + 1)..Len(stack) : stack[j].k = "ns"
          /\ stack' = Cut(stack, n)
    BY <1>10 DEF Jump
  <2>2. /\ n \in 0..Len(stack) /\ Len(stack') = n /\ Len(stack') <= Len(stack)
        /\ \A j \in 1..Len(stack') : stack'[j] = stack[j]
    <3>1. n \in 0..Len(stack) /\ n <= Len(stack)
      BY <1>0
    <3> QED
      BY <1>0, <2>1, <3>1, CutType
  <2>3. ~exc /\ ~exc' /\ includes' = includes /\ Running
    BY <1>0, <1>10 DEF Jump
  <2>4. ~Undisturbed
    <3>1. PICK j \in (n + 1)..Len(stack) : stack[j].k = "ns"
      BY <2>1
    <3>2. j \in 1..Len(stack) /\ j > Len(stack')
      BY <1>0, <2>2
    <3> QED
      BY <2>3, <3>1, <3>2 DEF Undisturbed, Happened, Dropped
  <2>5. stack[Len(stack')].k # "file"
    BY <1>0, <2>1, <2>2 DEF FrameAt, Tries
  <2> QED
    BY <2>2, <2>3, <2>4, <2>5, KeepCut
<1>11. CASE Throw
  <2>1. stack' = stack /\ exc' = TRUE /\ includes' = includes /\ stack # <<>>
    BY <1>0, <1>11 DEF Throw, Raise
  <2>2. ASSUME NEW d, Fits(d, stack, includes, exc), Undisturbed
        PROVE  Trims(d)
    <3>1. Len(stack) \in 0..Len(stack)
      BY <1>0
    <3>2. d[Len(stack)] \in Nat /\ d[Len(stack)] <= Len(includes)
      BY <1>0, <2>2, <3>1, Depths
    <3> QED
      BY <1>0, <2>1, <3>2, TrimFacts
  <2>3. Len(stack') <= Len(stack) /\ Len(stack') > 0
    BY <1>0, <2>1
  <2> QED
    BY <2>1, <2>2, <2>3, KeepCut
<1> QED
  BY <1>3, <1>4, <1>5, <1>6, <1>7, <1>8, <1>9, <1>10, <1>11

\* Steps of an exception.
LEMMA KeepUnwind ==
    ASSUME IInv, Shape(stack, exc), [Next]_vars,
           Catch \/ Leave \/ FailFile \/ FailPackage \/ FailEval
    PROVE  Kept
<1>0. /\ stack # <<>> /\ exc /\ stack' = Pop(stack)
      /\ Len(stack) \in Nat /\ Top(stack).k # "eval" => Len(stack) > 1
  BY Before DEF Catch, Leave, FailFile, FailPackage, FailEval, Raised
<1>1. CASE Catch \/ FailEval
  <2>1. /\ Top(stack).k \in Tries \cup {"eval"} /\ Top(stack).k # "ns"
        /\ RestoreIncludes(Top(stack).inc)
        /\ exc' => Len(stack) > 1
    <3>1. CASE Catch
      <4>1. Top(stack).k \in {"try", "silent"} /\ RestoreIncludes(Top(stack).inc)
        BY <3>1 DEF Catch, Raised, Tries
      <4> QED
        BY <1>0, <4>1 DEF Tries
    <3>2. CASE FailEval
      <4>1. Top(stack).k = "eval" /\ RestoreIncludes(Top(stack).inc)
        BY <3>2 DEF FailEval, Raised
      <4>2. exc' => Len(stack) > 1
        BY <3>2, Zenon DEF FailEval
      <4> QED
        BY <4>1, <4>2
    <3> QED
      BY <1>1, <3>1, <3>2
  <2> QED
    BY <1>0, <2>1, KeepPop
<1>2. CASE FailFile
  <2>1. /\ Opens(Top(stack)) /\ exc' /\ includes' = Pop(includes)
        /\ Len(stack) > 1
    BY <1>0, <1>2 DEF FailFile, Raised, Opens
  <2> QED
    BY <1>0, <2>1, KeepPop
<1>3. CASE FailPackage \/ (Leave /\ Top(stack).k # "final")
  <2>1. exc' /\ includes' = includes /\ Len(stack) > 1
    <3>1. CASE FailPackage
      BY <1>0, <3>1 DEF FailPackage, Raised
    <3>2. CASE Leave /\ Top(stack).k # "final"
      <4>1. exc' /\ includes' = includes
        BY <3>2 DEF Leave
      <4>2. Top(stack).k \in {"ns", "func", "final"}
        BY <3>2 DEF Leave, Raised
      <4> QED
        BY <1>0, <4>1, <4>2
    <3> QED
      BY <1>3, <3>1, <3>2
  <2> QED
    BY <1>0, <2>1, KeepPop
<1>4. CASE Leave /\ Top(stack).k = "final"
  <2>1. ~exc' /\ "swallow" \in Happened
    BY <1>0, <1>4 DEF Leave, Raised, Happened
  <2> QED
    BY <1>0, <1>4, <2>1, KeepPop DEF Undisturbed
<1> QED
  BY <1>1, <1>2, <1>3, <1>4

\* A module ends: with it go two entries, or the first of them is left to the
\* exception.
LEMMA KeepModule ==
    ASSUME IInv, Shape(stack, exc), [Next]_vars,
           EndModule \/ ReturnFromModule \/ ReturnNamespace
    PROVE  Kept
<1>0. /\ stack \in Seq(Activity) /\ Len(stack) \in Nat
      /\ includes \in Seq(Ns) /\ Len(includes) \in Nat
      /\ stack # <<>> /\ ~exc /\ Top(stack) = stack[Len(stack)]
      /\ stack[1].k = "eval"
  BY Before, RunningFacts DEF EndModule, ReturnFromModule, ReturnNamespace, Shape
<1>1. ASSUME NEW d, Fits(d, stack, includes, exc)
      PROVE  /\ d[Len(stack)] = Len(includes)
             /\ \A i \in 1..Len(stack) :
                  Opens(stack[i]) => /\ d[i] = d[i - 1] + 1 /\ d[i - 1] \in Nat
                                     /\ d[i] <= Len(includes)
  <2>1. \A i \in 1..Len(stack) : i \in 0..Len(stack) /\ i - 1 \in 0..Len(stack)
    BY <1>0
  <2>2. d[Len(stack)] = Len(includes)
    BY <1>0, <1>1 DEF Fits
  <2> QED
    BY <1>0, <1>1, <2>1, <2>2, Depths
<1>2. CASE EndModule
  <2>1. /\ stack[Len(stack)].k = "ns" /\ Len(stack) > 1 /\ stack[Len(stack) - 1].k = "file"
        /\ Len(stack) \in 1..Len(stack) /\ Len(stack) - 1 \in 1..Len(stack)
        /\ Len(stack) - 1 # 1
    BY <1>0, <1>2 DEF EndModule, AtModuleBody
  <2>2. CASE Raise(Pop(stack)) /\ includes' = Pop(includes)
    <3>1. stack' = Pop(stack) /\ exc' = TRUE /\ Opens(Top(stack))
      BY <1>0, <2>1, <2>2 DEF Raise, Opens
    <3> QED
      BY <1>0, <2>1, <2>2, <3>1, KeepPop
  <2>3. CASE /\ stack' = Cut(stack, Len(stack) - 2)
             /\ includes' = Cut(includes, Len(includes) - 2)
    <3>1. Len(stack) - 2 \in 0..Len(stack) /\ Len(stack) - 2 > 0
      BY <1>0, <2>1
    <3>2. Len(stack') = Len(stack) - 2 /\ \A j \in 1..Len(stack') : stack'[j] = stack[j]
      BY <1>0, <2>3, <3>1, CutType
    <3>3. ASSUME NEW d, Fits(d, stack, includes, exc), Undisturbed
          PROVE  Trims(d)
      <4>1. /\ d[Len(stack)] = d[Len(stack) - 1] + 1
            /\ d[Len(stack) - 1] = d[(Len(stack) - 1) - 1] + 1
            /\ d[(Len(stack) - 1) - 1] \in Nat
            /\ d[Len(stack)] = Len(includes)
        BY <1>1, <2>1, <3>3 DEF Opens
      <4>2. (Len(stack) - 1) - 1 = Len(stack')
        BY <1>0, <3>2
      <4>3. d[Len(stack')] \in Nat /\ d[Len(stack')] = Len(includes) - 2
        BY <1>0, <4>1, <4>2
      <4> QED
        BY <1>0, <2>3, <4>3, TrimFacts
    <3>4. /\ Len(stack') <= Len(stack) /\ Len(stack') > 0 /\ Len(stack') < Len(stack)
          /\ stack[Len(stack') + 1].k # "ns"
      <4>1. Len(stack') + 1 = Len(stack) - 1
        BY <1>0, <3>2
      <4> QED
        BY <1>0, <2>1, <3>1, <3>2, <4>1
    <3> QED
      BY <3>2, <3>3, <3>4, KeepCut
  <2> QED
    BY <1>2, <2>2, <2>3 DEF EndModule, Raise, Deliver
<1>3. ASSUME NEW i \in 1..Len(stack), stack[i].k = "file", Raise(Cut(stack, i - 1)),
             includes' = Pop(includes)
      PROVE  Kept
  <2>1. stack[i].k = "file"
    BY <1>3
  <2>2. /\ stack' = Cut(stack, i - 1) /\ exc' = TRUE /\ includes' = Pop(includes)
        /\ i - 1 \in 0..Len(stack) /\ i # 1
    BY <1>0, <1>3 DEF Raise
  <2>3. /\ Len(stack') = i - 1 /\ \A j \in 1..Len(stack') : stack'[j] = stack[j]
        /\ Len(stack') <= Len(stack) /\ Len(stack') > 0
    BY <1>0, <2>2, CutType
  <2>4. ASSUME NEW d, Fits(d, stack, includes, exc), Undisturbed
        PROVE  Trims(d)
    <3>1. /\ d[i] = d[i - 1] + 1 /\ d[i - 1] \in Nat /\ d[i] <= Len(includes)
          /\ d[Len(stack')] = d[i - 1]
      BY <1>1, <2>1, <2>3, <2>4 DEF Opens
    <3> QED
      BY SMTT(30), <1>0, <2>2, <3>1, TrimFacts
  <2> QED
    BY <2>2, <2>3, <2>4, KeepCut
<1>4. CASE ReturnFromModule
  BY <1>3, <1>4 DEF ReturnFromModule
\* The entry of the body stays if it returns a namespace.
<1>5. CASE ReturnNamespace
  <2>1. PICK i \in 1..Len(stack) :
          /\ i - 1 \in 0..Len(stack) /\ stack[i].k = "file"
          /\ \/ Raise(Cut(stack, i - 1))
             \/ UNCHANGED exc /\ Deliver(stack[i].ns, Cut(stack, i - 1))
    BY <1>5, ReturnShape
  <2>2. includes' = Pop(includes) /\ Running
    BY <1>5 DEF ReturnNamespace
  <2>3. CASE exc' = exc /\ stack' = Cut(stack, i - 1)
    <3>1. /\ Len(stack') = i - 1 /\ \A j \in 1..Len(stack') : stack'[j] = stack[j]
          /\ Len(stack') < Len(stack) /\ Len(stack') > 0 /\ i > Len(stack')
          /\ stack[Len(stack') + 1].k # "ns"
      <4>1. Len(stack') = i - 1 /\ \A j \in 1..Len(stack') : stack'[j] = stack[j]
        BY <1>0, <2>1, <2>3, CutType
      <4>2. i # 1 /\ (i - 1) + 1 = i
        BY <1>0, <2>1
      <4> QED
        BY <1>0, <2>1, <4>1, <4>2
    <3>2. ~Undisturbed
      BY <1>0, <2>1, <2>2, <2>3, <3>1 DEF Undisturbed, Happened, Dropped
    <3> QED
      BY <1>0, <2>3, <3>1, <3>2, KeepCut
  <2> QED
    BY <1>3, <2>1, <2>2, <2>3 DEF Deliver
<1> QED
  BY <1>2, <1>4, <1>5

\* Imports.
LEMMA KeepLoader ==
    ASSUME IInv, Shape(stack, exc), [Next]_vars,
           Import \/ ImportPackage \/ PackageInit \/ PackageAttach
    PROVE  Kept
<1>0. /\ stack \in Seq(Activity) /\ Len(stack) \in Nat
      /\ includes \in Seq(Ns) /\ Len(includes) \in Nat
      /\ stack # <<>> => Len(stack) > 0 /\ Top(stack) = stack[Len(stack)]
      /\ stack # <<>> /\ Top(stack).k # "eval" => Len(stack) > 1
      /\ Running => ~exc /\ stack # <<>> /\ Top(stack).k \notin {"file", "pkg"}
      /\ exc \in BOOLEAN
  BY Before, RunningFacts DEF IInv, Typed
<1>1. CASE ImportByCode
  <2>1. exc = FALSE
    BY <1>0, <1>1 DEF ImportByCode
  <2> QED
    BY <1>1, <2>1, KeepImport DEF ImportByCode
<1>2. CASE ImportInit
  <2>1. exc = FALSE /\ stack # <<>>
    BY <1>0, <1>2 DEF ImportInit
  <2>2. PICK p \in Pkg, f \in File : Importing(f, Append(stack, Act("pkg", p, 0, 0)))
    BY <1>2 DEF ImportInit
  <2>3. Act("pkg", p, 0, 0) \in Activity /\ Act("pkg", p, 0, 0).k = "pkg"
    BY ParamAssumption DEF Act, Activity
  <2>4. Shape(Append(stack, Act("pkg", p, 0, 0)), FALSE)
    BY <1>0, <2>1, <2>3, ShapePush
  <2>5. /\ ~Opens(Act("pkg", p, 0, 0))
        /\ Act("pkg", p, 0, 0).k \notin Tries \cup {"eval"}
    BY <2>3 DEF Opens, Tries
  <2>6. ASSUME NEW d, Fits(d, stack, includes, exc)
        PROVE  \E e : Fits(e, Append(stack, Act("pkg", p, 0, 0)), includes, FALSE)
    BY <1>0, <2>1, <2>3, <2>5, <2>6, FitPush
  <2> QED
    BY <2>2, <2>4, <2>6, KeepImport
<1>3. CASE ImportSub
  <2> DEFINE q == [stack EXCEPT ![Len(stack)].ns = result]
  <2>1. exc = FALSE /\ stack # <<>> /\ Top(stack).k = "pkg" /\ Len(stack) \in 1..Len(stack)
    BY <1>0, <1>3 DEF ImportSub
  <2>2. PICK f \in File : Importing(f, q)
    BY <1>3 DEF ImportSub
  <2>3. /\ Len(q) = Len(stack)
        /\ \A i \in 1..Len(stack) : i # Len(stack) => q[i] = stack[i]
        /\ q[Len(stack)] = [Top(stack) EXCEPT !.ns = result]
    BY SMTT(30), <1>0, <2>1, ExceptSeq
  <2>4. q[Len(stack)].k = "pkg" /\ q[Len(stack)].inc = Top(stack).inc
    BY <1>0, <2>1, <2>3 DEF Activity
  <2>5. q \in Seq(Activity) /\ q # <<>>
    BY <2>2 DEF Importing
  <2> HIDE DEF q
  <2>6. \A i \in 1..Len(stack) :
          /\ q[i].k = stack[i].k /\ q[i].inc = stack[i].inc
          /\ Opens(stack[i]) => q[i] = stack[i]
    BY <1>0, <2>1, <2>3, <2>4 DEF Opens
  <2>7. \A d : Fits(d, stack, includes, exc) => Fits(d, q, includes, FALSE)
    <3> SUFFICES ASSUME NEW d, Fits(d, stack, includes, exc)
                 PROVE  Fits(d, q, includes, FALSE)
      OBVIOUS
    <3>1. Fits(d, q, includes, exc)
      BY <1>0, <2>3, <2>6, FitSet
    <3> QED
      BY <2>1, <3>1
  <2>8. Shape(q, FALSE)
    <3>1. \A i \in 1..(Len(stack) - 1) : i \in 1..Len(stack) /\ i + 1 \in 1..Len(stack)
      BY <1>0
    <3>2. Top(q).k = "pkg" /\ 1 \in 1..Len(stack)
      BY <1>0, <2>1, <2>3, <2>4 DEF Top
    <3>3. \A i \in 1..(Len(q) - 1) : q[i].k = "file" => q[i + 1].k = "ns"
      BY <2>3, <2>6, <3>1 DEF Shape
    <3>4. q[1].k = "eval"
      BY <2>1, <2>6, <3>2 DEF Shape
    <3> QED
      BY <3>2, <3>3, <3>4 DEF Shape
  <2> QED
    BY <2>2, <2>7, <2>8, KeepImport
<1>4. CASE NoImport
  <2>0. /\ stack # <<>> /\ ~exc /\ includes' = includes /\ Len(stack) > 0
        /\ Len(stack) \in 0..Len(stack)
    BY <1>0, <1>4 DEF NoImport, Import, ImportPackage, PackageInit, PackageAttach
  <2>1. CASE stack' = stack
    <3>1. ASSUME NEW d, Fits(d, stack, includes, exc), Undisturbed
          PROVE  Trims(d)
      <4>1. d[Len(stack)] = Len(includes)
        BY <2>0, <3>1 DEF Fits
      <4> QED
        BY <1>0, <2>0, <2>1, <4>1, TrimFacts
    <3>2. ~exc' => stack[Len(stack)].k # "file"
      BY <1>0, <2>0 DEF Shape
    <3> QED
      BY <1>0, <2>0, <2>1, <3>1, <3>2, KeepCut
  <2>2. CASE Top(stack).k = "pkg" /\ ~exc' /\ stack' = Pop(stack)
    <3>1. ~Opens(Top(stack)) /\ Top(stack).k # "ns"
      BY <2>2 DEF Opens
    <3> QED
      BY <1>0, <2>0, <2>2, <3>1, KeepPop
  <2> QED
    BY <1>4, <2>0, <2>1, <2>2 DEF NoImport, Raise, FinishPackage, Deliver
<1> QED
  BY <1>1, <1>2, <1>3, <1>4, ImportSteps

LEMMA KeepNext ==
    ASSUME IInv, Shape(stack, exc), [Next]_vars
    PROVE  Kept
<1>1. CASE ClearGlobals \/ UNCHANGED vars
  BY <1>1 DEF ClearGlobals, vars, Kept
<1> QED
  BY <1>1, KeepProgram, KeepUnwind, KeepModule, KeepLoader DEF Next

----------------------------------------------------------------------------
\* A set of positions that is not empty has a largest one.
LEMMA Largest ==
  ASSUME NEW n \in Nat, NEW S, S \subseteq 1..n, S # {}
  PROVE  \E m \in S : \A k \in S : k <= m
<1> DEFINE Above(k) == {j \in S : j > k}
           F == {Above(k) : k \in S}
           R == StrictSubsetOrdering(S)
<1>1. \A k \in S : k \in Nat
  OBVIOUS
<1>2. F \subseteq FiniteSubsetsOf(S)
  <2>1. IsFiniteSet(1..n)
    BY FS_Interval
  <2>2. IsFiniteSet(S)
    BY <2>1, FS_Subset
  <2> QED BY <2>2, FS_Subset DEF FiniteSubsetsOf
<1>3. F # {}
  OBVIOUS
<1>4. \E x \in F : \A y \in F : ~(<<y, x>> \in R)
  <2> HIDE DEF R, F
  <2>1. IsWellFoundedOn(R, FiniteSubsetsOf(S))
    BY FS_StrictSubsetOrderingWellFounded DEF R
  <2> QED BY <1>2, <1>3, <2>1, WFMin, Zenon
<1>5. PICK m \in S : \A k \in S : ~(<<Above(k), Above(m)>> \in R)
  BY <1>4
<1>6. ASSUME NEW k \in S, k > m PROVE FALSE
  <2>1. \A j \in S : j > k => j > m
    BY <1>1, <1>6
  <2>2. k \in Above(m) /\ k \notin Above(k)
    BY <1>1, <1>6
  <2>3. Above(k) \subseteq Above(m)
    BY <2>1
  <2>4. Above(k) \in SUBSET S /\ Above(m) \in SUBSET S /\ Above(k) # Above(m)
    BY <2>2
  <2> HIDE DEF Above
  <2>5. <<Above(k), Above(m)>> \in R
    BY <2>3, <2>4 DEF StrictSubsetOrdering
  <2> QED BY <2>5, <1>5
<1> QED BY <1>1, <1>6

\* While bytecode runs, the last entry of the include stack is the namespace
\* body that is innermost.
LEMMA FitsInnermost ==
    ASSUME IInv, Shape(stack, exc), Running, NEW d, Fits(d, stack, includes, exc)
    PROVE  IncludeTarget = Innermost
<1> DEFINE I == {i \in 1..Len(stack) : stack[i].k = "ns"}
<1>1. /\ stack \in Seq(Activity) /\ Len(stack) \in Nat /\ stack # <<>> /\ ~exc
      /\ includes \in Seq(Ns) /\ Len(includes) \in Nat
      /\ Len(stack) > 0 /\ Top(stack) = stack[Len(stack)] /\ Top(stack).k # "file"
      /\ (includes = <<>> <=> Len(includes) = 0)
  BY RunningFacts, LenProperties, EmptySeq DEF IInv, Typed
<1>2. d[Len(stack)] = Len(includes) /\ d[0] = 0
  BY <1>1 DEF Fits, Counts
\* Above the last namespace body nothing has an entry.
<1>3. ASSUME NEW n \in 0..Len(stack), \A j \in I : j <= n
      PROVE  d[n] = Len(includes)
  <2>1. ASSUME NEW k \in (n + 1)..Len(stack)
        PROVE  ~Opens(stack[k])
    <3>1. k \in 1..Len(stack) /\ ~(k <= n) /\ ~(k + 1 <= n)
      BY <1>1
    <3>2. stack[k].k # "ns"
      BY <1>3, <3>1
    <3>3. stack[k].k # "file"
      <4>1. CASE k = Len(stack)
        BY <1>1, <4>1
      <4>2. CASE k \in 1..(Len(stack) - 1)
        <5>1. k + 1 \in 1..Len(stack)
          BY <1>1, <4>2
        <5>2. stack[k + 1].k # "ns"
          BY <1>3, <3>1, <5>1
        <5> QED
          BY <4>2, <5>2 DEF Shape
      <4> QED
        BY <1>1, <3>1, <4>1, <4>2
    <3> QED
      BY <3>2, <3>3 DEF Opens
  <2> QED
    BY <1>1, <1>2, <2>1, Depths
<1>4. CASE I = {}
  <2>1. 0 \in 0..Len(stack) /\ \A j \in I : j <= 0
    BY <1>1, <1>4
  <2>2. Len(includes) = 0
    BY <1>2, <1>3, <2>1
  <2> QED
    BY <1>1, <1>4, <2>2 DEF IncludeTarget, Innermost
<1>5. CASE I # {}
  <2>1. I \subseteq 1..Len(stack)
    OBVIOUS
  <2> DEFINE m == CHOOSE i \in I : \A j \in I : j <= i
  <2>2. m \in I /\ \A j \in I : j <= m
    <3> HIDE DEF I
    <3>1. \E i \in I : \A j \in I : j <= i
      BY <1>1, <1>5, <2>1, Largest
    <3> QED
      BY <3>1
  <2>3. Innermost = stack[m].ns
    BY <1>5 DEF Innermost
  <2> HIDE DEF m
  <2>4. m \in 1..Len(stack) /\ m \in 0..Len(stack) /\ stack[m].k = "ns"
    BY <1>1, <2>2
  <2>5. d[m] = Len(includes)
    BY <1>3, <2>2, <2>4
  <2>6. includes[d[m]] = stack[m].ns /\ d[m] = d[m - 1] + 1 /\ d[m - 1] \in Nat
    <3>1. Opens(stack[m]) /\ m - 1 \in 0..Len(stack)
      BY <1>1, <2>4 DEF Opens
    <3> QED
      BY <2>4, <3>1 DEF Fits, Counts
  <2>7. Top(includes) = stack[m].ns /\ includes # <<>>
    BY <1>1, <2>5, <2>6 DEF Top
  <2> QED
    BY <2>3, <2>7 DEF IncludeTarget
<1> QED
  BY <1>4, <1>5

LEMMA IncludeInit == SeenInit => IncludeInv
<1> SUFFICES ASSUME SeenInit PROVE IncludeInv
  OBVIOUS
<1>1. IInv
  BY IInvInit DEF SeenInit
<1>2. stack = <<>> /\ includes = <<>> /\ exc = FALSE
  BY DEF SeenInit, Init
<1>3. Shape(stack, exc)
  BY <1>2 DEF Shape
<1>4. \E d : Fits(d, stack, includes, exc)
  <2> DEFINE e == [i \in 0..0 |-> 0]
  <2>1. Len(stack) = 0 /\ Len(includes) = 0
    BY <1>2
  <2>2. Fits(e, stack, includes, exc)
    BY <2>1 DEF Fits, Counts
  <2> QED
    BY <2>2
<1> QED
  BY <1>1, <1>3, <1>4 DEF IncludeInv

LEMMA IncludeNext == IncludeInv /\ [SeenNext]_<<vars, seen>> => IncludeInv'
<1> SUFFICES ASSUME IncludeInv, [SeenNext]_<<vars, seen>> PROVE IncludeInv'
  OBVIOUS
<1>1. /\ IInv /\ Shape(stack, exc) /\ [Next]_vars /\ seen \subseteq seen'
      /\ UNCHANGED vars \/ Happened \subseteq seen'
  BY DEF IncludeInv, SeenNext
<1>2. IInv' /\ Kept
  BY <1>1, IInvNext, KeepNext
<1>3. ASSUME seen' \cap {"leave", "swallow"} = {}
      PROVE  \E e : Fits(e, stack', includes', exc')
  <2>1. \E d : Fits(d, stack, includes, exc)
    BY <1>1, <1>3 DEF IncludeInv
  <2>2. CASE UNCHANGED vars
    BY <2>1, <2>2 DEF vars
  <2>3. CASE Happened \subseteq seen'
    BY <1>2, <1>3, <2>1, <2>3 DEF Kept, Undisturbed
  <2> QED
    BY <1>1, <2>2, <2>3
<1> QED
  BY <1>2, <1>3 DEF IncludeInv, Kept

\* `include' writes to the innermost namespace under construction, whatever
\* modules, packages, tries and evaluations are nested and however they fail,
\* until a jump leaves a namespace body or C++ code ignores an error.
THEOREM IncludesStayInnermost == SeenSpec => []IncludeInnermostUndisturbed
<1>1. IncludeInv => IncludeInnermostUndisturbed
  BY FitsInnermost DEF IncludeInv, IncludeInnermostUndisturbed, IncludeInnermost
<1> QED
  BY <1>1, IncludeInit, IncludeNext, PTL DEF SeenSpec
=============================================================================
