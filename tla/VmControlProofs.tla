-------------------------- MODULE VmControlProofs --------------------------
(***************************************************************************)
(* Theorems about VmControl for every value of its constants: the types of  *)
(* the VM's stacks, and that nested interpreter loops never drop a frame of *)
(* the loop that called them.  Both follow from one inductive invariant,    *)
(* IInv, which adds the shape of the C++ host stack to them.  As long as no *)
(* interrupt was raised, UInv holds as well: handlers belong to frames that *)
(* are there, and the prompt finds everything gone, unless a tail call of a *)
(* builtin has dropped a frame with its defers.  And until the first        *)
(* disturbance OInv holds: the defer stack holds what each frame in it will *)
(* still run, so that RUN_DEFERS pops defers of its own activation only.    *)
(***************************************************************************)
EXTENDS MCVmControl, SequenceTheorems, TLAPS

\* A stack of scopes: never empty, and the count of DEFERs never decreases
\* inwards, so every count that IRBuilder puts in a RUN_DEFERS is a natural.
GoodScopes ==
    {ss \in Seq(Scope) :
       ss # <<>> /\ \A i, j \in 1..Len(ss) : i <= j => ss[i].c <= ss[j].c}

GoodFrame == [act : Nat, base : Nat, scopes : GoodScopes]

GoodHandler == [frame : Nat, act : Nat, base : Nat, scopes : GoodScopes]

\* The record at position i of a host stack ho over d frames: a loop that runs
\* defers is on top of a run(), and when it unwinds to a handler that is one of
\* the frames of this run(); a run() is as LoopsOwnFrames says.
HostRecInv(ho, i, d) ==
    /\ ho[i].k \notin RunKinds => i > 1 /\ ho[i - 1].k \in RunKinds
    /\ ho[i].k = "catch" => ho[i].h \in GoodHandler /\ ho[i - 1].n < ho[i].h.frame
    /\ ho[i].k \in RunKinds =>
         /\ ho[i].n < d
         /\ \A j \in 1..(i - 1) : ho[j].k \in RunKinds => ho[j].n < ho[i].n

\* The shape of a host stack ho over d frames: run() at the bottom.
HostInv(ho, d) ==
    /\ ho \in Seq(HostRec)
    /\ ho = <<>> => d = 0
    /\ ho # <<>> => ho[1].k \in RunKinds /\ ho[1].n = 0
    /\ \A i \in 1..Len(ho) : HostRecInv(ho, i, d)

IInv ==
    /\ frames \in Seq(GoodFrame)
    /\ handlers \in Seq(GoodHandler)
    /\ deferStack \in Seq(Nat)
    /\ HostInv(host, Len(frames))
    /\ exc \in {"none", "value", "interrupt"}
    /\ nextAct \in Nat

----------------------------------------------------------------------------
(* Stacks as sequences.                                                     *)

\* The last element of a stack is an element.
LEMMA TopType ==
    ASSUME NEW S, NEW s \in Seq(S), s # <<>>
    PROVE  Top(s) \in S /\ Len(s) \in Nat /\ Len(s) > 0
BY EmptySeq DEF Top

\* Cutting a stack (dropping what is above n) keeps what is below.
LEMMA CutType ==
    ASSUME NEW S, NEW s \in Seq(S), NEW n \in 0..Len(s)
    PROVE  /\ Cut(s, n) \in Seq(S)
           /\ Len(Cut(s, n)) = n
           /\ \A i \in 1..n : Cut(s, n)[i] = s[i]
<1>1. \A i \in 1..n : s[i] \in S
  BY LenProperties
<1>2. 1 \in Int /\ n \in Int
  BY LenProperties
<1> QED
  BY <1>1, <1>2, SubSeqProperties DEF Cut

\* So does popping one element.
LEMMA PopType ==
    ASSUME NEW S, NEW s \in Seq(S), s # <<>>
    PROVE  /\ Pop(s) \in Seq(S)
           /\ Len(Pop(s)) = Len(s) - 1
           /\ \A i \in 1..(Len(s) - 1) : Pop(s)[i] = s[i]
<1>1. Len(s) - 1 \in 0..Len(s)
  BY EmptySeq
<1>2. Pop(s) = Cut(s, Len(s) - 1)
  BY DEF Pop, Cut
<1> QED
  BY <1>1, <1>2, CutType

\* And pushing one.
LEMMA PushType ==
    ASSUME NEW S, NEW s \in Seq(S), NEW e \in S
    PROVE  /\ Append(s, e) \in Seq(S)
           /\ Append(s, e) # <<>>
           /\ Len(Append(s, e)) = Len(s) + 1
           /\ Append(s, e)[Len(s) + 1] = e
           /\ Top(Append(s, e)) = e
           /\ \A i \in 1..Len(s) : Append(s, e)[i] = s[i]
BY LenProperties DEF Top

----------------------------------------------------------------------------
(* The host stack.                                                          *)

\* What HostRecInv says of a position depends only on the stack up to there.
LEMMA SameBelow ==
    ASSUME NEW ho, NEW q, NEW i \in Nat \ {0}, NEW d, HostRecInv(ho, i, d),
           \A j \in 1..i : q[j] = ho[j]
    PROVE  HostRecInv(q, i, d)
<1>1. q[i] = ho[i] /\ (i > 1 => q[i - 1] = ho[i - 1])
  OBVIOUS
<1>2. ho[i].k = "catch" => i > 1
  BY DEF HostRecInv, RunKinds
<1>3. \A j \in 1..(i - 1) : q[j] = ho[j]
  OBVIOUS
<1> QED
  BY <1>1, <1>2, <1>3 DEF HostRecInv

\* ... and on the depth only through the target depth of a run().
LEMMA OtherDepth ==
    ASSUME NEW ho, NEW i, NEW d, NEW e, HostRecInv(ho, i, d),
           ho[i].k \in RunKinds => ho[i].n < e
    PROVE  HostRecInv(ho, i, e)
BY DEF HostRecInv

\* A loop that runs defers starts on top of a run().
LEMMA HostPushLoop ==
    ASSUME NEW ho, NEW d \in Nat, HostInv(ho, d), ho # <<>>,
           Top(ho).k \in RunKinds,
           NEW r \in HostRec, r.k \notin RunKinds,
           r.k = "catch" => r.h \in GoodHandler /\ Top(ho).n < r.h.frame
    PROVE  HostInv(Append(ho, r), d)
<1> DEFINE q == Append(ho, r)
<1>1. /\ ho \in Seq(HostRec)
      /\ Len(ho) \in Nat
      /\ Len(ho) > 0
      /\ ho[Len(ho)].k \in RunKinds
  BY TopType DEF HostInv, HostRecInv, Top
<1>2. /\ q \in Seq(HostRec)
      /\ q # <<>>
      /\ Len(q) = Len(ho) + 1
      /\ q[Len(ho) + 1] = r
      /\ \A i \in 1..Len(ho) : q[i] = ho[i]
  BY <1>1, PushType
<1>3. q[1].k \in RunKinds /\ q[1].n = 0
  BY <1>1, <1>2 DEF HostInv, HostRecInv
<1>4. ASSUME NEW i \in 1..Len(q)
      PROVE  HostRecInv(q, i, d)
  <2>1. CASE i = Len(ho) + 1
    <3>1. q[i] = r /\ i - 1 = Len(ho) /\ i > 1 /\ q[i - 1] = Top(ho)
      BY <1>1, <1>2, <2>1 DEF Top
    <3> HIDE DEF q
    <3> QED
      BY <3>1 DEF HostRecInv
  <2>2. CASE i \in 1..Len(ho)
    <3>1. HostRecInv(ho, i, d)
      BY <2>2 DEF HostInv
    <3>2. i \in Nat \ {0} /\ \A j \in 1..i : q[j] = ho[j]
      BY <1>1, <1>2, <2>2
    <3> HIDE DEF q
    <3> QED
      BY <3>1, <3>2, SameBelow
  <2> QED
    BY <1>1, <1>2, <2>1, <2>2
<1> QED
  BY <1>2, <1>3, <1>4 DEF HostInv, HostRecInv

\* A run() starts for a frame that was pushed for it.
LEMMA HostPushRun ==
    ASSUME NEW ho, NEW d \in Nat, HostInv(ho, d),
           NEW r \in HostRec, r.k \in RunKinds, r.n = d
    PROVE  HostInv(Append(ho, r), d + 1)
<1> DEFINE q == Append(ho, r)
<1>1. ho \in Seq(HostRec) /\ Len(ho) \in Nat
  BY LenProperties DEF HostInv, HostRecInv
<1>2. /\ q \in Seq(HostRec)
      /\ q # <<>>
      /\ Len(q) = Len(ho) + 1
      /\ q[Len(ho) + 1] = r
      /\ \A i \in 1..Len(ho) : q[i] = ho[i]
  BY <1>1, PushType
<1>3. q[1].k \in RunKinds /\ q[1].n = 0
  <2>1. CASE ho = <<>>
    <3>1. d = 0 /\ Len(ho) = 0
      BY <2>1 DEF HostInv, HostRecInv
    <3> QED
      BY <1>2, <3>1
  <2>2. CASE ho # <<>>
    <3>1. 1 \in 1..Len(ho)
      BY <1>1, <2>2, EmptySeq
    <3> QED
      BY <1>2, <2>2, <3>1 DEF HostInv, HostRecInv
  <2> QED
    BY <2>1, <2>2
<1>4. \A i \in 1..Len(ho) : ho[i].n \in Nat
  <2>1. \A i \in 1..Len(ho) : ho[i] \in HostRec
    BY <1>1, ElementOfSeq
  <2> QED
    BY <2>1 DEF HostRec
<1>5. ASSUME NEW i \in 1..Len(q)
      PROVE  HostRecInv(q, i, d + 1)
  <2>1. CASE i = Len(ho) + 1
    <3>1. q[i].k # "catch"
      BY <1>2, <2>1 DEF RunKinds
    <3>2. \A j \in 1..(i - 1) : q[j].k \in RunKinds => q[j].n < d
      BY <1>1, <1>2, <2>1 DEF HostInv, HostRecInv
    <3>3. q[i] = r
      BY <1>2, <2>1
    <3> HIDE DEF q
    <3> QED
      BY <3>1, <3>2, <3>3 DEF HostRecInv
  <2>2. CASE i \in 1..Len(ho)
    <3>1. HostRecInv(ho, i, d)
      BY <2>2 DEF HostInv
    <3>2. ho[i].k \in RunKinds => ho[i].n < d
      BY <3>1 DEF HostRecInv
    <3>3. HostRecInv(ho, i, d + 1)
      BY <1>4, <2>2, <3>1, <3>2, OtherDepth
    <3>4. \A j \in 1..i : q[j] = ho[j]
      BY <1>1, <1>2, <2>2
    <3> HIDE DEF q
    <3> QED
      BY <1>1, <2>2, <3>3, <3>4, SameBelow
  <2> QED
    BY <1>1, <1>2, <2>1, <2>2
<1> QED
  BY <1>2, <1>3, <1>5 DEF HostInv, HostRecInv

\* A defer loop ends, or an exception leaves it.
LEMMA HostPopLoop ==
    ASSUME NEW ho, NEW d \in Nat, HostInv(ho, d), ho # <<>>,
           Top(ho).k \notin RunKinds
    PROVE  /\ HostInv(Pop(ho), d)
           /\ Pop(ho) # <<>>
           /\ Top(Pop(ho)).k \in RunKinds
<1> DEFINE q == Pop(ho)
<1>1. /\ ho \in Seq(HostRec)
      /\ Len(ho) \in Nat
      /\ Len(ho) > 0
      /\ ho[Len(ho)].k \notin RunKinds
  BY TopType DEF HostInv, HostRecInv, Top
<1>2. Len(ho) > 1 /\ ho[Len(ho) - 1].k \in RunKinds
  BY <1>1 DEF HostInv, HostRecInv
<1>3. /\ q \in Seq(HostRec)
      /\ Len(q) = Len(ho) - 1
      /\ \A i \in 1..Len(q) : q[i] = ho[i]
  BY <1>1, PopType
<1>4. q # <<>> /\ Top(q).k \in RunKinds
  BY <1>1, <1>2, <1>3 DEF Top
<1>5. q[1].k \in RunKinds /\ q[1].n = 0
  BY <1>1, <1>2, <1>3 DEF HostInv, HostRecInv
<1>6. ASSUME NEW i \in 1..Len(q)
      PROVE  HostRecInv(q, i, d)
  <2>1. HostRecInv(ho, i, d) /\ i \in Nat \ {0}
    BY SMTT(30), <1>1, <1>3 DEF HostInv
  <2>2. \A j \in 1..i : q[j] = ho[j]
    BY <1>1, <1>3
  <2> HIDE DEF q
  <2> QED
    BY <2>1, <2>2, SameBelow
<1> QED
  BY <1>3, <1>4, <1>5, <1>6 DEF HostInv, HostRecInv

\* A run() ends: the frames it worked on are gone.
LEMMA HostPopRun ==
    ASSUME NEW ho, NEW d \in Nat, HostInv(ho, d), ho # <<>>,
           Top(ho).k \in RunKinds
    PROVE  /\ HostInv(Pop(ho), Top(ho).n)
           /\ Top(ho).n \in Nat
           /\ Top(ho).n < d
<1> DEFINE q == Pop(ho)
           e == Top(ho).n
<1>1. /\ ho \in Seq(HostRec)
      /\ Len(ho) \in Nat
      /\ Len(ho) > 0
      /\ Top(ho) \in HostRec
      /\ Top(ho) = ho[Len(ho)]
  BY TopType DEF HostInv, HostRecInv, Top
<1>2. e \in Nat
  BY <1>1 DEF HostRec
<1>3. /\ q \in Seq(HostRec)
      /\ Len(q) = Len(ho) - 1
      /\ \A i \in 1..Len(q) : q[i] = ho[i]
  BY <1>1, PopType
<1>4. e < d /\ \A j \in 1..Len(q) : ho[j].k \in RunKinds => ho[j].n < e
  BY SMTT(30), <1>1, <1>3 DEF HostInv, HostRecInv
<1>5. q = <<>> => e = 0
  <2>1. q = <<>> => Len(ho) = 1
    BY <1>1, <1>3
  <2>2. ho[1].n = 0
    BY <1>1 DEF HostInv, HostRecInv
  <2> QED
    BY <1>1, <2>1, <2>2
<1>6. q # <<>> => q[1].k \in RunKinds /\ q[1].n = 0
  <2>1. q # <<>> => 1 \in 1..Len(q)
    BY <1>3, EmptySeq
  <2> QED
    BY <1>3, <2>1 DEF HostInv, HostRecInv
<1>7. ASSUME NEW i \in 1..Len(q)
      PROVE  HostRecInv(q, i, e)
  <2>1. HostRecInv(ho, i, d) /\ i \in Nat \ {0}
    BY <1>1, <1>3 DEF HostInv
  <2>2. HostRecInv(ho, i, e)
    BY <1>4, <2>1, OtherDepth
  <2>3. \A j \in 1..i : q[j] = ho[j]
    BY <1>1, <1>3
  <2> HIDE DEF q, e
  <2> QED
    BY <2>1, <2>2, <2>3, SameBelow
<1> QED
  BY <1>2, <1>3, <1>4, <1>5, <1>6, <1>7 DEF HostInv, HostRecInv

\* Frames may come and go above the target depth of the innermost run().
LEMMA HostDepth ==
    ASSUME NEW ho, NEW d \in Nat, HostInv(ho, d), ho # <<>>,
           Top(ho).k \in RunKinds, NEW e \in Nat, Top(ho).n < e
    PROVE  HostInv(ho, e)
<1>1. /\ ho \in Seq(HostRec)
      /\ Len(ho) \in Nat
      /\ Len(ho) > 0
      /\ Top(ho) = ho[Len(ho)]
      /\ \A i \in 1..Len(ho) : ho[i] \in HostRec
  BY TopType, ElementOfSeq DEF HostInv, HostRecInv, Top
<1>2. \A i \in 1..Len(ho) : ho[i].n \in Nat
  BY <1>1 DEF HostRec
<1>3. \A i \in 1..Len(ho) : ho[i].k \in RunKinds => ho[i].n < e
  BY <1>1, <1>2 DEF HostInv, HostRecInv
<1>4. \A i \in 1..Len(ho) : HostRecInv(ho, i, e)
  BY <1>3, OtherDepth DEF HostInv
<1> QED
  BY <1>4 DEF HostInv

\* The innermost loop counts down.
LEMMA HostCount ==
    ASSUME NEW ho, NEW d \in Nat, HostInv(ho, d), ho # <<>>,
           Top(ho).k \notin RunKinds, NEW n \in Nat
    PROVE  HostInv([ho EXCEPT ![Len(ho)].n = n], d)
<1> DEFINE q == [ho EXCEPT ![Len(ho)].n = n]
           r == [Top(ho) EXCEPT !.n = n]
<1>1. /\ ho \in Seq(HostRec)
      /\ Len(ho) \in Nat
      /\ Len(ho) > 0
      /\ Top(ho) \in HostRec
      /\ Top(ho) = ho[Len(ho)]
  BY TopType DEF HostInv, HostRecInv, Top
<1>2. r \in HostRec /\ r.k = Top(ho).k /\ r.h = Top(ho).h
  BY <1>1 DEF HostRec
<1>3. q = [ho EXCEPT ![Len(ho)] = r]
  BY <1>1
<1>4. /\ q \in Seq(HostRec)
      /\ Len(q) = Len(ho)
      /\ \A j \in 1..Len(ho) : q[j] = IF j = Len(ho) THEN r ELSE ho[j]
  <2>1. Len(ho) \in 1..Len(ho)
    BY <1>1
  <2> HIDE DEF q, r
  <2> QED
    BY <1>1, <1>2, <1>3, <2>1, ExceptSeq
<1>5. q[1] = ho[1] /\ Len(ho) > 1
  <2>1. Len(ho) > 1
    BY <1>1 DEF HostInv, HostRecInv
  <2> QED
    BY <1>1, <1>4, <2>1
<1>6. ASSUME NEW i \in 1..Len(q)
      PROVE  HostRecInv(q, i, d)
  <2> HIDE DEF q
  <2>1. HostRecInv(ho, i, d) /\ i \in Nat \ {0}
    BY <1>1, <1>4 DEF HostInv
  <2>2. \A j \in 1..(i - 1) : q[j] = ho[j]
    BY <1>1, <1>4
  <2>3. i > 1 => q[i - 1] = ho[i - 1]
    BY <2>1, <2>2
  <2>4. q[i].k = ho[i].k /\ q[i].h = ho[i].h /\ (ho[i].k \in RunKinds => q[i] = ho[i])
    <3> HIDE DEF r
    <3> QED
      BY <1>1, <1>2, <1>4
  <2>5. ho[i].k = "catch" => i > 1
    BY <2>1 DEF HostRecInv, RunKinds
  <2> QED
    BY <2>1, <2>2, <2>3, <2>4, <2>5 DEF HostRecInv
<1>7. q # <<>>
  BY <1>1, <1>4
<1>8. HostInv(q, d)
  <2> HIDE DEF q, r
  <2> QED
    BY <1>1, <1>4, <1>5, <1>6, <1>7 DEF HostInv, HostRecInv
<1> QED
  BY <1>8

----------------------------------------------------------------------------
(* Scopes and frames.                                                       *)

\* The scope of a whole function.
LEMMA FirstScope == <<[try |-> FALSE, c |-> 0]>> \in GoodScopes
BY DEF GoodScopes, Scope

\* Entering a scope starts from the count of the scope around it.
LEMMA EnterScope ==
    ASSUME NEW ss \in GoodScopes, NEW t \in BOOLEAN
    PROVE  Append(ss, [try |-> t, c |-> Top(ss).c]) \in GoodScopes
<1> DEFINE e == [try |-> t, c |-> Top(ss).c]
           q == Append(ss, e)
<1>1. /\ ss \in Seq(Scope)
      /\ ss # <<>>
      /\ \A i, j \in 1..Len(ss) : i <= j => ss[i].c <= ss[j].c
  BY DEF GoodScopes
<1>2. /\ Top(ss) \in Scope
      /\ Top(ss) = ss[Len(ss)]
      /\ Len(ss) \in Nat
      /\ Len(ss) > 0
  BY <1>1, TopType DEF Top
<1>3. e \in Scope /\ e.c = Top(ss).c /\ e.c \in Nat
  BY <1>2 DEF Scope
<1>4. /\ q \in Seq(Scope)
      /\ q # <<>>
      /\ Len(q) = Len(ss) + 1
      /\ q[Len(ss) + 1] = e
      /\ \A i \in 1..Len(ss) : q[i] = ss[i]
  <2> HIDE DEF e
  <2> QED
    BY <1>1, <1>3, PushType
<1>5. ASSUME NEW i \in 1..Len(q), NEW j \in 1..Len(q), i <= j
      PROVE  q[i].c <= q[j].c
  <2> HIDE DEF e, q
  <2>1. CASE j = Len(ss) + 1
    BY <1>1, <1>2, <1>3, <1>4, <1>5, <2>1
  <2>2. CASE j \in 1..Len(ss)
    BY <1>1, <1>2, <1>4, <1>5, <2>2
  <2> QED
    BY <1>2, <1>4, <2>1, <2>2
<1> HIDE DEF e, q
<1>6. q \in GoodScopes
  BY <1>4, <1>5 DEF GoodScopes
<1> QED
  BY <1>6 DEF q, e

\* Leaving scopes, but never the outermost one.
LEMMA LeaveScopes ==
    ASSUME NEW ss \in GoodScopes, NEW n \in 1..Len(ss)
    PROVE  Cut(ss, n) \in GoodScopes
<1>1. /\ ss \in Seq(Scope)
      /\ Len(ss) \in Nat
      /\ \A i, j \in 1..Len(ss) : i <= j => ss[i].c <= ss[j].c
  BY LenProperties DEF GoodScopes
<1>2. /\ Cut(ss, n) \in Seq(Scope)
      /\ Len(Cut(ss, n)) = n
      /\ \A i \in 1..n : Cut(ss, n)[i] = ss[i]
  BY <1>1, CutType
<1>3. Cut(ss, n) # <<>>
  BY <1>1, <1>2
<1> QED
  BY <1>1, <1>2, <1>3 DEF GoodScopes

\* Compiling one more DEFER.
LEMMA CountOneDefer ==
    ASSUME NEW ss \in GoodScopes
    PROVE  [ss EXCEPT ![Len(ss)].c = @ + 1] \in GoodScopes
<1> DEFINE e == [Top(ss) EXCEPT !.c = @ + 1]
           q == [ss EXCEPT ![Len(ss)] = e]
<1>1. /\ ss \in Seq(Scope)
      /\ ss # <<>>
      /\ \A i, j \in 1..Len(ss) : i <= j => ss[i].c <= ss[j].c
      /\ \A i \in 1..Len(ss) : ss[i] \in Scope
  BY ElementOfSeq DEF GoodScopes
<1>2. /\ Top(ss) \in Scope
      /\ Top(ss) = ss[Len(ss)]
      /\ Len(ss) \in Nat
      /\ Len(ss) > 0
  BY <1>1, TopType DEF Top
<1>3. e \in Scope /\ e.c = ss[Len(ss)].c + 1
  BY <1>2 DEF Scope
<1>4. \A i \in 1..Len(ss) : ss[i].c \in Nat
  BY <1>1 DEF Scope
<1>5. [ss EXCEPT ![Len(ss)].c = @ + 1] = q
  BY <1>2
<1>6. /\ q \in Seq(Scope)
      /\ Len(q) = Len(ss)
      /\ \A j \in 1..Len(ss) : q[j] = IF j = Len(ss) THEN e ELSE ss[j]
  <2>1. Len(ss) \in 1..Len(ss)
    BY <1>2
  <2> HIDE DEF e
  <2> QED
    BY <1>1, <1>3, <2>1, ExceptSeq
<1>7. q \in GoodScopes
  <2> HIDE DEF e, q
  <2>1. q # <<>>
    BY <1>2, <1>6
  <2>2. \A i, j \in 1..Len(q) : i <= j => q[i].c <= q[j].c
    BY <1>1, <1>2, <1>3, <1>4, <1>6
  <2> QED
    BY <1>6, <2>1, <2>2 DEF GoodScopes
<1> QED
  BY <1>5, <1>7

\* The program counter of the top frame moves to other scopes.
LEMMA MoveTopFrame ==
    ASSUME NEW fs \in Seq(GoodFrame), fs # <<>>, NEW ss \in GoodScopes
    PROVE  /\ [fs EXCEPT ![Len(fs)].scopes = ss] \in Seq(GoodFrame)
           /\ Len([fs EXCEPT ![Len(fs)].scopes = ss]) = Len(fs)
<1> DEFINE f == [Top(fs) EXCEPT !.scopes = ss]
<1>1. /\ Top(fs) \in GoodFrame
      /\ Top(fs) = fs[Len(fs)]
      /\ Len(fs) \in 1..Len(fs)
  BY TopType DEF Top
<1>2. f \in GoodFrame
  BY <1>1 DEF GoodFrame
<1>3. [fs EXCEPT ![Len(fs)].scopes = ss] = [fs EXCEPT ![Len(fs)] = f]
  BY <1>1
<1> HIDE DEF f
<1> QED
  BY <1>1, <1>2, <1>3, ExceptSeq

\* A frame of a new activation.
LEMMA NewFrameType ==
    ASSUME NEW base \in Nat, nextAct \in Nat
    PROVE  NewFrame(base) \in GoodFrame
BY FirstScope DEF NewFrame, GoodFrame

\* PushFrame adds one frame.
LEMMA PushFrameType ==
    ASSUME NEW fs \in Seq(GoodFrame), NEW ds \in Seq(Nat), nextAct \in Nat,
           PushFrame(fs, ds)
    PROVE  /\ frames' \in Seq(GoodFrame)
           /\ Len(frames') = Len(fs) + 1
           /\ nextAct' \in Nat
<1>1. Len(ds) \in Nat
  BY LenProperties
<1>2. NewFrame(Len(ds)) \in GoodFrame
  BY <1>1, NewFrameType
<1> QED
  BY <1>2, PushType DEF PushFrame

\* The count of a RUN_DEFERS is a natural number.
LEMMA CompiledDefersType ==
    ASSUME Cur.scopes \in GoodScopes, NEW j \in 1..Len(Cur.scopes)
    PROVE  CompiledDefers(j) \in Nat
<1> DEFINE ss == Cur.scopes
<1>1. /\ ss \in Seq(Scope)
      /\ ss # <<>>
      /\ \A i, k \in 1..Len(ss) : i <= k => ss[i].c <= ss[k].c
      /\ \A i \in 1..Len(ss) : ss[i] \in Scope
  BY ElementOfSeq DEF GoodScopes
<1>2. /\ Len(ss) \in Nat
      /\ Len(ss) > 0
      /\ CurScope = ss[Len(ss)]
  BY <1>1, TopType DEF Top, CurScope
<1>3. \A i \in 1..Len(ss) : ss[i].c \in Nat
  BY <1>1 DEF Scope
<1> HIDE DEF ss
<1>4. Len(ss) - j # 0 => Len(ss) - j \in 1..Len(ss)
  BY <1>2 DEF ss
<1>5. Len(ss) - j # 0 => ss[Len(ss) - j].c <= ss[Len(ss)].c
  BY <1>1, <1>2, <1>4
<1> QED
  BY SMTT(30), <1>2, <1>3, <1>4, <1>5 DEF CompiledDefers, ss

\* Popping handlers off the handler stack.
LEMMA PopHandlersType ==
    ASSUME handlers \in Seq(GoodHandler), NEW i, NEW d, PopHandlers(i, d)
    PROVE  handlers' \in Seq(GoodHandler)
BY CutType DEF PopHandlers

----------------------------------------------------------------------------
(* Consequences of the invariant.                                           *)

\* While some C++ activation is in progress there is a frame.
LEMMA FrameFacts ==
    ASSUME IInv, host # <<>>
    PROVE  /\ frames # <<>>
           /\ Len(frames) \in Nat \ {0}
           /\ Cur \in GoodFrame
           /\ Cur.scopes \in GoodScopes
           /\ Cur.base \in Nat
           /\ Cur.act \in Nat
           /\ CurScope \in Scope
           /\ Len(Cur.scopes) \in Nat \ {0}
           /\ Top(host) \in HostRec
           /\ Top(host).n \in Nat
<1>1. Len(frames) \in Nat
  BY LenProperties DEF IInv
<1>2. host \in Seq(HostRec) /\ 1 \in 1..Len(host)
  BY EmptySeq DEF IInv, HostInv
<1>3. 0 < Len(frames)
  <2>1. HostRecInv(host, 1, Len(frames)) /\ host[1].k \in RunKinds /\ host[1].n = 0
    BY <1>2 DEF IInv, HostInv
  <2> QED
    BY <2>1 DEF HostRecInv
<1>4. frames # <<>> /\ frames \in Seq(GoodFrame)
  BY <1>3 DEF IInv
<1>5. Cur \in GoodFrame
  BY <1>4, TopType DEF Cur
<1>6. Cur.scopes \in GoodScopes /\ Cur.base \in Nat /\ Cur.act \in Nat
  BY <1>5 DEF GoodFrame
<1>7. Cur.scopes \in Seq(Scope) /\ Cur.scopes # <<>>
  BY <1>6 DEF GoodScopes
<1>8. CurScope \in Scope /\ Len(Cur.scopes) \in Nat \ {0}
  BY <1>7, TopType DEF CurScope
<1>9. Top(host) \in HostRec
  BY <1>2, TopType
<1>10. Top(host).n \in Nat
  BY <1>9 DEF HostRec
<1> QED
  BY <1>1, <1>3, <1>4, <1>5, <1>6, <1>8, <1>9, <1>10

\* The records pushed on the host stack.
LEMMA HostType ==
    ASSUME NEW k \in RunKinds \cup LoopKinds \cup OpKinds, NEW n \in Nat
    PROVE  Host(k, n) \in HostRec /\ Host(k, n).k = k /\ Host(k, n).n = n
<1>1. NoHandler \in Handler
  BY DEF NoHandler, Handler
<1> QED
  BY <1>1 DEF Host, HostRec

\* A handler of the program is a handler.
LEMMA GoodHandlerType == GoodHandler \subseteq Handler
BY DEF GoodHandler, GoodScopes, Handler

\* The kinds of runs, loops and RUN_DEFERS are different.
LEMMA KindsDiffer ==
    /\ \A k \in LoopKinds \cup OpKinds : k \notin RunKinds
    /\ \A k \in OpKinds : k # "catch"
    /\ \A k \in RunKinds : k # "catch"
BY DEF LoopKinds, OpKinds, RunKinds

\* The interpreter is in the innermost run().
LEMMA RunningFacts ==
    ASSUME IInv, Running
    PROVE  /\ host # <<>>
           /\ Top(host).k \in RunKinds
           /\ Top(host).n < Len(frames)
<1>1. host # <<>> /\ Top(host).k \in RunKinds
  BY DEF Running, At
<1>2. Len(frames) \in Nat
  BY LenProperties DEF IInv
<1> QED
  BY <1>1, <1>2, HostPopRun DEF IInv

\* What is needed to show the invariant again after the frames have changed
\* above the depth of the innermost run().
LEMMA RunningStep ==
    ASSUME IInv, Running, UNCHANGED host,
           frames' \in Seq(GoodFrame), Top(host).n < Len(frames'),
           handlers' \in Seq(GoodHandler), deferStack' \in Seq(Nat),
           exc' \in {"none", "value", "interrupt"}, nextAct' \in Nat
    PROVE  IInv'
<1>1. Len(frames) \in Nat /\ Len(frames') \in Nat
  BY LenProperties DEF IInv
<1>2. HostInv(host, Len(frames'))
  BY <1>1, RunningFacts, HostDepth DEF IInv
<1> QED
  BY <1>2 DEF IInv

\* ... and after a loop that runs defers was started.
LEMMA StartLoopStep ==
    ASSUME IInv, Running,
           NEW k \in LoopKinds \cup OpKinds, k # "catch", NEW n \in Nat,
           host' = Append(host, Host(k, n)),
           frames' \in Seq(GoodFrame), Len(frames') = Len(frames),
           handlers' \in Seq(GoodHandler),
           UNCHANGED <<deferStack, exc, nextAct>>
    PROVE  IInv'
<1>1. Len(frames) \in Nat
  BY LenProperties DEF IInv
<1>2. Host(k, n) \in HostRec /\ Host(k, n).k \notin RunKinds /\ Host(k, n).k # "catch"
  BY HostType, KindsDiffer
<1>3. HostInv(Append(host, Host(k, n)), Len(frames))
  BY <1>1, <1>2, RunningFacts, HostPushLoop DEF IInv
<1> QED
  BY <1>3 DEF IInv

----------------------------------------------------------------------------
(* The actions.                                                             *)

\* A new evaluation preserves the invariant.
LEMMA ExecuteStep == IInv /\ Execute => IInv'
<1> SUFFICES ASSUME IInv, Execute PROVE IInv'
  OBVIOUS
<1>1. /\ frames \in Seq(GoodFrame)
      /\ deferStack \in Seq(Nat)
      /\ nextAct \in Nat
      /\ Len(frames) \in Nat
      /\ host = <<>>
  BY LenProperties DEF IInv, Execute
<1>2. frames' \in Seq(GoodFrame) /\ Len(frames') = Len(frames) + 1 /\ nextAct' \in Nat
  BY <1>1, PushFrameType DEF Execute
<1>3. host' = Append(host, Host("execute", Len(frames)))
  BY <1>1 DEF Execute
<1>4. HostInv(host', Len(frames) + 1)
  <2>1. "execute" \in RunKinds
    BY DEF RunKinds
  <2>2. /\ Host("execute", Len(frames)) \in HostRec
        /\ Host("execute", Len(frames)).k \in RunKinds
        /\ Host("execute", Len(frames)).n = Len(frames)
    BY <1>1, <2>1, HostType
  <2>3. HostInv(host, Len(frames))
    BY DEF IInv
  <2> QED
    BY <1>1, <1>3, <2>2, <2>3, HostPushRun
<1> QED
  BY <1>2, <1>4 DEF IInv, Execute

\* So do the instructions that stay in the same interpreter loop,
LEMMA InstructionStep ==
    /\ IInv /\ EnterBlock => IInv'
    /\ IInv /\ TryBegin => IInv'
    /\ IInv /\ Defer => IInv'
    /\ IInv /\ DeferSkipped => IInv'
    /\ IInv /\ Call => IInv'
    /\ IInv /\ Throw => IInv'
    /\ IInv /\ Interrupt => IInv'
<1>1. ASSUME IInv, Running
      PROVE  /\ frames \in Seq(GoodFrame)
             /\ frames # <<>>
             /\ Len(frames) \in Nat
             /\ handlers \in Seq(GoodHandler)
             /\ deferStack \in Seq(Nat)
             /\ Len(deferStack) \in Nat
             /\ exc \in {"none", "value", "interrupt"}
             /\ nextAct \in Nat
             /\ Cur.scopes \in GoodScopes
             /\ Cur.act \in Nat
             /\ Top(host).n \in Nat
             /\ Top(host).n < Len(frames)
  BY <1>1, RunningFacts, FrameFacts, LenProperties DEF IInv
<1>2. ASSUME IInv, Running, NEW ss \in GoodScopes, SetScopes(ss)
      PROVE  frames' \in Seq(GoodFrame) /\ Len(frames') = Len(frames)
  BY <1>1, <1>2, MoveTopFrame DEF SetScopes
<1>3. IInv /\ EnterBlock => IInv'
  <2> SUFFICES ASSUME IInv, EnterBlock PROVE IInv'
    OBVIOUS
  <2>1. Running
    BY DEF EnterBlock
  <2>2. Append(Cur.scopes, [try |-> FALSE, c |-> CurScope.c]) \in GoodScopes
    BY <1>1, <2>1, EnterScope DEF CurScope
  <2>3. frames' \in Seq(GoodFrame) /\ Len(frames') = Len(frames)
    BY <1>2, <2>1, <2>2 DEF EnterBlock
  <2> QED
    BY <1>1, <2>1, <2>3, RunningStep DEF EnterBlock
<1>4. IInv /\ TryBegin => IInv'
  <2> SUFFICES ASSUME IInv, TryBegin PROVE IInv'
    OBVIOUS
  <2>1. Running
    BY DEF TryBegin
  <2>2. Append(Cur.scopes, [try |-> TRUE, c |-> CurScope.c]) \in GoodScopes
    BY <1>1, <2>1, EnterScope DEF CurScope
  <2>3. frames' \in Seq(GoodFrame) /\ Len(frames') = Len(frames)
    BY <1>2, <2>1, <2>2 DEF TryBegin
  <2>4. [frame |-> Len(frames), act |-> Cur.act, base |-> Len(deferStack),
         scopes |-> Cur.scopes] \in GoodHandler
    BY <1>1, <2>1 DEF GoodHandler
  <2>5. handlers' \in Seq(GoodHandler)
    BY <1>1, <2>1, <2>4, PushType DEF TryBegin
  <2> QED
    BY <1>1, <2>1, <2>3, <2>5, RunningStep DEF TryBegin
<1>5. IInv /\ Defer => IInv'
  <2> SUFFICES ASSUME IInv, Defer PROVE IInv'
    OBVIOUS
  <2>1. Running
    BY DEF Defer
  <2>2. [Cur.scopes EXCEPT ![Len(Cur.scopes)].c = @ + 1] \in GoodScopes
    BY <1>1, <2>1, CountOneDefer
  <2>3. frames' \in Seq(GoodFrame) /\ Len(frames') = Len(frames)
    BY <1>2, <2>1, <2>2 DEF Defer, CountDefer
  <2>4. deferStack' \in Seq(Nat)
    BY <1>1, <2>1, PushType DEF Defer
  <2> QED
    BY <1>1, <2>1, <2>3, <2>4, RunningStep DEF Defer
<1>6. IInv /\ DeferSkipped => IInv'
  <2> SUFFICES ASSUME IInv, DeferSkipped PROVE IInv'
    OBVIOUS
  <2>1. Running
    BY DEF DeferSkipped
  <2>2. [Cur.scopes EXCEPT ![Len(Cur.scopes)].c = @ + 1] \in GoodScopes
    BY <1>1, <2>1, CountOneDefer
  <2>3. frames' \in Seq(GoodFrame) /\ Len(frames') = Len(frames)
    BY <1>2, <2>1, <2>2 DEF DeferSkipped, CountDefer
  <2> QED
    BY <1>1, <2>1, <2>3, RunningStep DEF DeferSkipped
<1>7. IInv /\ Call => IInv'
  <2> SUFFICES ASSUME IInv, Call PROVE IInv'
    OBVIOUS
  <2>1. Running
    BY DEF Call
  <2>2. CASE Len(frames) >= MaxFrames
    BY <1>1, <2>1, <2>2, RunningStep DEF Call
  <2>3. CASE ~(Len(frames) >= MaxFrames)
    <3>1. frames' \in Seq(GoodFrame) /\ Len(frames') = Len(frames) + 1 /\ nextAct' \in Nat
      BY <1>1, <2>1, <2>3, PushFrameType DEF Call
    <3> QED
      BY <1>1, <2>1, <2>3, <3>1, RunningStep DEF Call
  <2> QED
    BY <2>2, <2>3
<1>8. IInv /\ Throw => IInv'
  BY <1>1, RunningStep DEF Throw
<1>9. IInv /\ Interrupt => IInv'
  BY <1>1, RunningStep DEF Interrupt
<1> QED
  BY <1>3, <1>4, <1>5, <1>6, <1>7, <1>8, <1>9

\* the ones that run defers first,
LEMMA StartLoop ==
    /\ IInv /\ EndScope => IInv'
    /\ IInv /\ Break => IInv'
    /\ IInv /\ Return => IInv'
    /\ IInv /\ TailCall => IInv'
<1>1. ASSUME IInv, Running
      PROVE  /\ frames \in Seq(GoodFrame)
             /\ frames # <<>>
             /\ handlers \in Seq(GoodHandler)
             /\ Len(handlers) \in Nat
             /\ Cur.scopes \in GoodScopes
             /\ Len(Cur.scopes) \in Nat \ {0}
             /\ Cur.base \in Nat
  BY <1>1, RunningFacts, FrameFacts, LenProperties DEF IInv
<1>2. IInv /\ EndScope => IInv'
  <2> SUFFICES ASSUME IInv, EndScope PROVE IInv'
    OBVIOUS
  <2>1. Running
    BY DEF EndScope
  <2>2. CompiledDefers(1) \in Nat
    BY <1>1, <2>1, CompiledDefersType
  <2>3. "endScope" \in LoopKinds \cup OpKinds
    BY DEF OpKinds
  <2> QED
    BY <1>1, <2>1, <2>2, <2>3, StartLoopStep DEF EndScope
<1>3. IInv /\ Break => IInv'
  <2> SUFFICES ASSUME IInv, Running, NEW j \in 1..2,
                      j < Len(Cur.scopes),
                      handlers' = Cut(handlers, IF TriesIn(j) <= Len(handlers)
                                                THEN Len(handlers) - TriesIn(j) ELSE 0),
                      host' = Append(host, Host("break", CompiledDefers(j))),
                      SetScopes(Cut(Cur.scopes, Len(Cur.scopes) - j)),
                      UNCHANGED <<deferStack, exc, nextAct>>
               PROVE  IInv'
    BY DEF Break
  <2>1. j \in 1..Len(Cur.scopes) /\ Len(Cur.scopes) - j \in 1..Len(Cur.scopes)
    BY <1>1
  <2>2. CompiledDefers(j) \in Nat
    BY <1>1, <2>1, CompiledDefersType
  <2>3. TriesIn(j) \in Nat
    BY DEF TriesIn
  <2>4. handlers' \in Seq(GoodHandler)
    <3> DEFINE n == IF TriesIn(j) <= Len(handlers)
                    THEN Len(handlers) - TriesIn(j) ELSE 0
    <3>1. n \in 0..Len(handlers)
      BY <1>1, <2>3
    <3> HIDE DEF n
    <3>2. Cut(handlers, n) \in Seq(GoodHandler)
      BY <1>1, <3>1, CutType
    <3> QED
      BY <3>2 DEF n
  <2>5. Cut(Cur.scopes, Len(Cur.scopes) - j) \in GoodScopes
    BY <1>1, <2>1, LeaveScopes
  <2>6. frames' \in Seq(GoodFrame) /\ Len(frames') = Len(frames)
    BY <1>1, <2>5, MoveTopFrame DEF SetScopes
  <2>7. "break" \in LoopKinds \cup OpKinds
    BY DEF OpKinds
  <2> QED
    BY <2>2, <2>4, <2>6, <2>7, StartLoopStep
<1>4. IInv /\ Return => IInv'
  <2> SUFFICES ASSUME IInv, Return PROVE IInv'
    OBVIOUS
  <2>1. "return" \in LoopKinds \cup OpKinds
    BY DEF LoopKinds
  <2> QED
    BY <1>1, <2>1, StartLoopStep DEF Return
<1>5. IInv /\ TailCall => IInv'
  <2> SUFFICES ASSUME IInv, TailCall PROVE IInv'
    OBVIOUS
  <2>1. "tail" \in LoopKinds \cup OpKinds
    BY DEF LoopKinds
  <2> QED
    BY <1>1, <2>1, StartLoopStep DEF TailCall
<1> QED
  BY <1>2, <1>3, <1>4, <1>5

\* What the host stack looks like under a loop that runs defers.
LEMMA LoopFacts ==
    ASSUME IInv, host # <<>>, Top(host).k \notin RunKinds
    PROVE  /\ HostInv(Pop(host), Len(frames))
           /\ Pop(host) # <<>>
           /\ Top(Pop(host)).k \in RunKinds
           /\ Top(Pop(host)).n \in Nat
           /\ Top(Pop(host)).n < Len(frames)
           /\ HostInv(Pop(Pop(host)), Top(Pop(host)).n)
<1>1. Len(frames) \in Nat /\ HostInv(host, Len(frames))
  BY LenProperties DEF IInv
<1>2. /\ HostInv(Pop(host), Len(frames))
      /\ Pop(host) # <<>>
      /\ Top(Pop(host)).k \in RunKinds
  BY <1>1, HostPopLoop
<1> QED
  BY <1>1, <1>2, HostPopRun

\* the calls into a nested interpreter loop,
LEMMA NestedRun ==
    /\ IInv /\ CallNative => IInv'
    /\ IInv /\ LoopPopDefer => IInv'
    /\ IInv /\ OpPopDefer => IInv'
<1>1. ASSUME IInv, NEW ho, HostInv(ho, Len(frames)), NEW ds \in Seq(Nat),
             PushFrame(frames, ds), NEW k \in RunKinds,
             host' = Append(ho, Host(k, Len(frames))), deferStack' = ds,
             UNCHANGED <<handlers, exc>>
      PROVE  IInv'
  <2>1. Len(frames) \in Nat
    BY <1>1, LenProperties DEF IInv
  <2>2. frames' \in Seq(GoodFrame) /\ Len(frames') = Len(frames) + 1 /\ nextAct' \in Nat
    BY <1>1, PushFrameType DEF IInv
  <2>3. /\ Host(k, Len(frames)) \in HostRec
        /\ Host(k, Len(frames)).k \in RunKinds
        /\ Host(k, Len(frames)).n = Len(frames)
    BY <1>1, <2>1, HostType
  <2>4. HostInv(host', Len(frames'))
    BY <1>1, <2>1, <2>2, <2>3, HostPushRun
  <2> QED
    BY <1>1, <2>2, <2>4 DEF IInv
<1>2. IInv /\ CallNative => IInv'
  <2> SUFFICES ASSUME IInv, CallNative PROVE IInv'
    OBVIOUS
  <2>1. PICK k \in {"callVM", "callSwallow"} : host' = Append(host, Host(k, Len(frames)))
    BY DEF CallNative
  <2>2. k \in RunKinds
    BY DEF RunKinds
  <2> QED
    BY <1>1, <2>1, <2>2 DEF CallNative, IInv
<1>3. ASSUME IInv, host # <<>>, Top(host).k \notin RunKinds, deferStack # <<>>,
             NEW n \in Nat, PopDefer(n)
      PROVE  IInv'
  <2>1. Pop(deferStack) \in Seq(Nat)
    BY <1>3, PopType DEF IInv
  <2>2. HostInv([host EXCEPT ![Len(host)].n = n], Len(frames))
    BY <1>3, LenProperties, HostCount DEF IInv
  <2>3. "callVM" \in RunKinds
    BY DEF RunKinds
  <2> QED
    BY <1>1, <1>3, <2>1, <2>2, <2>3 DEF PopDefer
<1>4. IInv /\ LoopPopDefer => IInv'
  <2> SUFFICES ASSUME IInv, LoopPopDefer PROVE IInv'
    OBVIOUS
  <2>1. host # <<>> /\ Top(host).k \notin RunKinds
    BY KindsDiffer DEF LoopPopDefer, At
  <2>2. Top(host).n \in Nat
    BY <2>1, FrameFacts
  <2>3. deferStack # <<>>
    BY <2>2, LenProperties DEF LoopPopDefer, IInv
  <2> QED
    BY <1>3, <2>1, <2>2, <2>3 DEF LoopPopDefer
<1>5. IInv /\ OpPopDefer => IInv'
  <2> SUFFICES ASSUME IInv, OpPopDefer PROVE IInv'
    OBVIOUS
  <2>1. host # <<>> /\ Top(host).k \notin RunKinds
    BY KindsDiffer DEF OpPopDefer, At
  <2>2. Top(host).n \in Nat /\ Top(host).n > 0
    BY <2>1, FrameFacts DEF OpPopDefer
  <2>3. Top(host).n - 1 \in Nat
    BY <2>2
  <2> QED
    BY <1>3, <2>1, <2>3 DEF OpPopDefer
<1> QED
  BY <1>2, <1>4, <1>5

\* the ends of loops that run defers,
LEMMA FinishLoop ==
    /\ IInv /\ FinishEndScope => IInv'
    /\ IInv /\ FinishBreak => IInv'
    /\ IInv /\ FinishReturn => IInv'
    /\ IInv /\ FinishTail => IInv'
    /\ IInv /\ FinishCatch => IInv'
    /\ IInv /\ FinishExecute => IInv'
<1>1. ASSUME IInv, NEW k \in LoopKinds \cup OpKinds, Done(k)
      PROVE  /\ frames \in Seq(GoodFrame)
             /\ frames # <<>>
             /\ Len(frames) \in Nat \ {0}
             /\ handlers \in Seq(GoodHandler)
             /\ host # <<>>
             /\ Top(host).k = k
             /\ Top(host).k \notin RunKinds
             /\ HostInv(Pop(host), Len(frames))
             /\ Pop(host) # <<>>
             /\ Top(Pop(host)).k \in RunKinds
             /\ Top(Pop(host)).n \in Nat
             /\ Top(Pop(host)).n < Len(frames)
             /\ HostInv(Pop(Pop(host)), Top(Pop(host)).n)
             /\ Cur.scopes \in GoodScopes
             /\ Len(Cur.scopes) \in Nat \ {0}
             /\ Cur.base \in Nat
  <2>1. host # <<>> /\ Top(host).k = k /\ Top(host).k \notin RunKinds
    BY <1>1, KindsDiffer DEF Done, At
  <2> QED
    BY <1>1, <2>1, FrameFacts, LoopFacts DEF IInv
<1>2. IInv /\ FinishEndScope => IInv'
  <2> SUFFICES ASSUME IInv, FinishEndScope PROVE IInv'
    OBVIOUS
  <2>1. "endScope" \in LoopKinds \cup OpKinds /\ Done("endScope")
    BY DEF OpKinds, FinishEndScope
  <2>2. CASE Len(Cur.scopes) = 1
    <3>1. /\ Host("return", Cur.base) \in HostRec
          /\ Host("return", Cur.base).k \notin RunKinds
          /\ Host("return", Cur.base).k # "catch"
      <4>1. "return" \in LoopKinds \cup OpKinds /\ "return" # "catch"
        BY DEF LoopKinds
      <4> QED
        BY <1>1, <2>1, <4>1, HostType, KindsDiffer
    <3>2. HostInv(Append(Pop(host), Host("return", Cur.base)), Len(frames))
      BY <1>1, <2>1, <3>1, HostPushLoop
    <3> QED
      BY <2>2, <3>2 DEF FinishEndScope, IInv
  <2>3. CASE Len(Cur.scopes) # 1
    <3>1. Len(Cur.scopes) - 1 \in 1..Len(Cur.scopes)
      <4> DEFINE l == Len(Cur.scopes)
      <4>1. l \in Nat \ {0} /\ l # 1
        BY <1>1, <2>1, <2>3
      <4> HIDE DEF l
      <4>2. l - 1 \in 1..l
        BY <4>1
      <4> QED
        BY <4>2 DEF l
    <3>2. Pop(Cur.scopes) \in GoodScopes
      BY <1>1, <2>1, <3>1, LeaveScopes DEF Pop, Cut
    <3>3. frames' \in Seq(GoodFrame) /\ Len(frames') = Len(frames)
      BY <1>1, <2>1, <2>3, <3>2, MoveTopFrame DEF FinishEndScope, SetScopes
    <3>4. handlers' \in Seq(GoodHandler)
      BY <1>1, <2>1, <2>3, PopType DEF FinishEndScope
    <3> QED
      BY <1>1, <2>1, <2>3, <3>3, <3>4 DEF FinishEndScope, IInv
  <2> QED
    BY <2>2, <2>3
<1>3. IInv /\ FinishBreak => IInv'
  <2> SUFFICES ASSUME IInv, FinishBreak PROVE IInv'
    OBVIOUS
  <2>1. "break" \in LoopKinds \cup OpKinds /\ Done("break")
    BY DEF OpKinds, FinishBreak
  <2> QED
    BY <1>1, <2>1 DEF FinishBreak, IInv
<1>4. IInv /\ FinishReturn => IInv'
  <2> SUFFICES ASSUME IInv, FinishReturn PROVE IInv'
    OBVIOUS
  <2>1. "return" \in LoopKinds \cup OpKinds /\ Done("return")
    BY DEF LoopKinds, FinishReturn, DropFrame
  <2>2. handlers' \in Seq(GoodHandler)
    BY <1>1, <2>1, PopHandlersType DEF FinishReturn, DropFrame
  <2>3. frames' \in Seq(GoodFrame) /\ Len(frames') = Len(frames) - 1
    BY <1>1, <2>1, PopType DEF FinishReturn, DropFrame
  <2>4. CASE Len(frames) - 1 <= Top(Pop(host)).n
    <3>1. Len(frames') = Top(Pop(host)).n /\ host' = Pop(Pop(host))
      BY <1>1, <2>1, <2>3, <2>4 DEF FinishReturn, DropFrame
    <3> QED
      BY <1>1, <2>1, <2>2, <2>3, <3>1 DEF FinishReturn, DropFrame, IInv
  <2>5. CASE ~(Len(frames) - 1 <= Top(Pop(host)).n)
    <3>1. Top(Pop(host)).n < Len(frames') /\ Len(frames') \in Nat /\ host' = Pop(host)
      BY <1>1, <2>1, <2>3, <2>5 DEF FinishReturn, DropFrame
    <3>2. HostInv(Pop(host), Len(frames'))
      BY <1>1, <2>1, <3>1, HostDepth
    <3> QED
      BY <2>2, <2>3, <3>1, <3>2 DEF FinishReturn, DropFrame, IInv
  <2> QED
    BY <2>4, <2>5
<1>5. IInv /\ FinishTail => IInv'
  <2> SUFFICES ASSUME IInv, FinishTail PROVE IInv'
    OBVIOUS
  <2>1. "tail" \in LoopKinds \cup OpKinds /\ Done("tail")
    BY DEF LoopKinds, FinishTail
  <2>2. handlers' \in Seq(GoodHandler)
    BY <1>1, <2>1, PopHandlersType DEF FinishTail
  <2>3. NewFrame(Cur.base) \in GoodFrame
    BY <1>1, <2>1, NewFrameType DEF IInv
  <2>4. frames' \in Seq(GoodFrame) /\ Len(frames') = Len(frames)
    <3>1. Len(frames) \in 1..Len(frames)
      BY <1>1, <2>1
    <3>2. frames' = [frames EXCEPT ![Len(frames)] = NewFrame(Cur.base)]
      BY DEF FinishTail
    <3> QED
      BY <1>1, <2>1, <2>3, <3>1, <3>2, ExceptSeq
  <2>5. nextAct' \in Nat
    BY DEF FinishTail, IInv
  <2> QED
    BY <1>1, <2>1, <2>2, <2>4, <2>5 DEF FinishTail, IInv
<1>6. IInv /\ FinishCatch => IInv'
  <2> SUFFICES ASSUME IInv, FinishCatch PROVE IInv'
    OBVIOUS
  <2> DEFINE h == Top(host).h
             d == IF h.frame < Len(frames) THEN h.frame ELSE Len(frames)
             ss == Append(h.scopes, [try |-> FALSE, c |-> Top(h.scopes).c])
             fs == Cut(frames, d)
  <2>1. "catch" \in LoopKinds \cup OpKinds /\ Done("catch")
    BY DEF LoopKinds, FinishCatch
  <2>2. h \in GoodHandler /\ Top(Pop(host)).n < h.frame
    <3>1. /\ host \in Seq(HostRec)
          /\ Len(host) \in Nat
          /\ Len(host) > 0
          /\ Top(host) = host[Len(host)]
      BY <1>1, <2>1, TopType DEF IInv, HostInv, Top
    <3>2. HostRecInv(host, Len(host), Len(frames))
      BY <3>1 DEF IInv, HostInv
    <3>3. h \in GoodHandler /\ host[Len(host) - 1].n < h.frame
      BY <1>1, <2>1, <3>1, <3>2 DEF HostRecInv
    <3>4. Len(host) > 1
      BY <1>1, <2>1, <3>1, <3>2 DEF HostRecInv
    <3>5. Top(Pop(host)) = host[Len(host) - 1]
      BY SMTT(30), <1>1, <2>1, <3>1, <3>4, PopType DEF Top
    <3> QED
      BY <3>3, <3>5
  <2>3. h.frame \in Nat /\ h.scopes \in GoodScopes
    BY <2>2 DEF GoodHandler
  <2>4. d \in 1..Len(frames) /\ Top(Pop(host)).n < d
    <3> HIDE DEF h
    <3> QED
      BY <1>1, <2>1, <2>2, <2>3
  <2>5. ss \in GoodScopes
    <3> HIDE DEF h
    <3> QED
      BY <2>3, EnterScope
  <2>6. fs \in Seq(GoodFrame) /\ Len(fs) = d
    <3> HIDE DEF d
    <3> QED
      BY <1>1, <2>1, <2>4, CutType
  <2>7. frames' = [fs EXCEPT ![Len(fs)].scopes = ss]
    BY <2>6 DEF FinishCatch
  <2>8. frames' \in Seq(GoodFrame) /\ Len(frames') = d
    <3> HIDE DEF d, fs, ss
    <3>1. fs # <<>>
      BY <2>4, <2>6
    <3> QED
      BY <2>5, <2>6, <2>7, <3>1, MoveTopFrame
  <2>9. HostInv(Pop(host), d)
    <3> HIDE DEF d
    <3> QED
      BY <1>1, <2>1, <2>4, HostDepth
  <2> HIDE DEF d, fs, ss, h
  <2> QED
    BY <2>8, <2>9 DEF FinishCatch, IInv
<1>7. IInv /\ FinishExecute => IInv'
  <2> SUFFICES ASSUME IInv, FinishExecute PROVE IInv'
    OBVIOUS
  <2>1. PICK k \in LoopKinds \cup OpKinds : Done(k)
    BY DEF LoopKinds, FinishExecute
  <2>2. frames' \in Seq(GoodFrame) /\ Len(frames') = Top(Pop(host)).n
    BY <1>1, <2>1, CutType DEF FinishExecute
  <2> QED
    BY <1>1, <2>1, <2>2 DEF FinishExecute, IInv
<1> QED
  BY <1>2, <1>3, <1>4, <1>5, <1>6, <1>7

\* A tail call of anything but bytecode drops the frame on top.
LEMMA TailCallNativeStep == IInv /\ TailCallNative => IInv'
<1> SUFFICES ASSUME IInv, TailCallNative PROVE IInv'
  OBVIOUS
<1>1. /\ host # <<>> /\ Top(host).k \in RunKinds
      /\ frames' = Pop(frames)
      /\ host' = IF Len(frames) - 1 <= Top(host).n THEN Pop(host) ELSE host
      /\ UNCHANGED <<deferStack, exc, nextAct>>
  BY RunningFacts DEF TailCallNative, DropFrame
<1>2. /\ frames \in Seq(GoodFrame) /\ frames # <<>> /\ Len(frames) \in Nat \ {0}
      /\ handlers \in Seq(GoodHandler)
      /\ HostInv(host, Len(frames))
  BY <1>1, FrameFacts DEF IInv
<1>3. /\ HostInv(Pop(host), Top(host).n)
      /\ Top(host).n \in Nat
      /\ Top(host).n < Len(frames)
  BY <1>1, <1>2, HostPopRun
<1>4. handlers' \in Seq(GoodHandler)
  BY <1>2, PopHandlersType DEF TailCallNative, DropFrame
<1>5. frames' \in Seq(GoodFrame) /\ Len(frames') = Len(frames) - 1
  BY <1>1, <1>2, PopType
<1>6. CASE Len(frames) - 1 <= Top(host).n
  <2>1. Len(frames') = Top(host).n /\ host' = Pop(host)
    BY <1>1, <1>2, <1>3, <1>5, <1>6
  <2> QED
    BY <1>1, <1>3, <1>4, <1>5, <2>1 DEF IInv
<1>7. CASE ~(Len(frames) - 1 <= Top(host).n)
  <2>1. Top(host).n < Len(frames') /\ Len(frames') \in Nat /\ host' = host
    BY <1>1, <1>2, <1>3, <1>5, <1>7
  <2>2. HostInv(host, Len(frames'))
    BY <1>1, <1>2, <2>1, HostDepth
  <2> QED
    BY <1>1, <1>4, <1>5, <2>1, <2>2 DEF IInv
<1> QED
  BY <1>6, <1>7

\* and the propagation of an exception.
LEMMA Propagation ==
    /\ IInv /\ CatchInRun => IInv'
    /\ IInv /\ LeaveCallVM => IInv'
    /\ IInv /\ LeaveExecute => IInv'
    /\ IInv /\ SuppressInDefers => IInv'
    /\ IInv /\ RethrowFromDefers => IInv'
    /\ IInv /\ AbandonDefers => IInv'
<1>1. ASSUME IInv
      PROVE  /\ frames \in Seq(GoodFrame)
             /\ Len(frames) \in Nat
             /\ handlers \in Seq(GoodHandler)
             /\ HostInv(host, Len(frames))
  BY <1>1, LenProperties DEF IInv
<1>2. ASSUME IInv, host # <<>>, Top(host).k \in RunKinds
      PROVE  /\ HostInv(Pop(host), Top(host).n)
             /\ Top(host).n \in Nat
             /\ Top(host).n < Len(frames)
             /\ Cut(frames, Top(host).n) \in Seq(GoodFrame)
             /\ Len(Cut(frames, Top(host).n)) = Top(host).n
  <2>1. /\ HostInv(Pop(host), Top(host).n)
        /\ Top(host).n \in Nat
        /\ Top(host).n < Len(frames)
    BY <1>1, <1>2, HostPopRun
  <2> QED
    BY <1>1, <1>2, <2>1, CutType
<1>3. IInv /\ CatchInRun => IInv'
  <2> SUFFICES ASSUME IInv, CatchInRun PROVE IInv'
    OBVIOUS
  <2> DEFINE h == Top(handlers)
             r == [k |-> "catch", n |-> h.base, h |-> h]
  <2>1. /\ host # <<>>
        /\ Top(host).k \in RunKinds
        /\ handlers # <<>>
        /\ h.frame > Top(host).n
    BY DEF CatchInRun, Raised, HandlerHere
  <2>2. h \in GoodHandler /\ h \in Handler /\ h.frame \in Nat /\ h.base \in Nat
    <3>1. h \in GoodHandler
      BY <1>1, <2>1, TopType
    <3> HIDE DEF h
    <3> QED
      BY <3>1, GoodHandlerType DEF GoodHandler
  <2>3. /\ r \in HostRec
        /\ r.k \notin RunKinds
        /\ r.h \in GoodHandler
        /\ Top(host).n < r.h.frame
    <3> HIDE DEF h
    <3>1. "catch" \in RunKinds \cup LoopKinds \cup OpKinds /\ "catch" \notin RunKinds
      BY DEF LoopKinds, RunKinds
    <3>2. r \in HostRec
      BY <2>2, <3>1 DEF HostRec
    <3>3. Top(host).n < h.frame
      BY <1>2, <2>1, <2>2
    <3> QED
      BY <2>2, <3>1, <3>2, <3>3
  <2>4. HostInv(Append(host, r), Len(frames))
    <3> HIDE DEF r
    <3> QED
      BY <1>1, <2>1, <2>3, HostPushLoop
  <2>5. handlers' \in Seq(GoodHandler)
    BY <1>1, <2>1, PopType DEF CatchInRun
  <2> QED
    BY <2>4, <2>5 DEF CatchInRun, IInv
<1>4. IInv /\ LeaveCallVM => IInv'
  <2> SUFFICES ASSUME IInv, LeaveCallVM PROVE IInv'
    OBVIOUS
  <2>1. host # <<>> /\ Top(host).k \in RunKinds
    BY DEF LeaveCallVM, Raised, RunKinds
  <2>2. exc' \in {"none", "value", "interrupt"}
    BY DEF LeaveCallVM, IInv
  <2> QED
    BY <1>2, <2>1, <2>2 DEF LeaveCallVM, IInv
<1>5. IInv /\ LeaveExecute => IInv'
  <2> SUFFICES ASSUME IInv, LeaveExecute PROVE IInv'
    OBVIOUS
  <2>1. host # <<>> /\ Top(host).k \in RunKinds
    BY DEF LeaveExecute, Raised, RunKinds
  <2>2. frames[Top(host).n + 1].base \in Nat
    <3>1. Top(host).n + 1 \in 1..Len(frames)
      BY <1>1, <1>2, <2>1
    <3>2. frames[Top(host).n + 1] \in GoodFrame
      BY <1>1, <3>1, ElementOfSeq
    <3> QED
      BY <3>2 DEF GoodFrame
  <2>3. PICK k \in {"execInt", "execErr"} :
          host' = Append(host, Host(k, frames[Top(host).n + 1].base))
    BY DEF LeaveExecute
  <2>4. /\ Host(k, frames[Top(host).n + 1].base) \in HostRec
        /\ Host(k, frames[Top(host).n + 1].base).k \notin RunKinds
        /\ Host(k, frames[Top(host).n + 1].base).k # "catch"
    <3>1. k \in LoopKinds \cup OpKinds /\ k # "catch"
      BY DEF LoopKinds
    <3> QED
      BY <2>2, <3>1, HostType, KindsDiffer
  <2>5. HostInv(host', Len(frames))
    BY <1>1, <2>1, <2>3, <2>4, HostPushLoop
  <2>6. handlers' \in Seq(GoodHandler)
    BY <1>1, PopHandlersType DEF LeaveExecute
  <2> QED
    BY <2>5, <2>6 DEF LeaveExecute, IInv
<1>6. IInv /\ SuppressInDefers => IInv'
  BY DEF SuppressInDefers, IInv
<1>7. IInv /\ RethrowFromDefers => IInv'
  <2> SUFFICES ASSUME IInv, RethrowFromDefers PROVE IInv'
    OBVIOUS
  <2>1. host # <<>> /\ Top(host).k \notin RunKinds
    BY DEF RethrowFromDefers, Raised, OpKinds, RunKinds
  <2> QED
    BY <2>1, LoopFacts DEF RethrowFromDefers, IInv
<1>8. IInv /\ AbandonDefers => IInv'
  <2> SUFFICES ASSUME IInv, AbandonDefers PROVE IInv'
    OBVIOUS
  <2>1. host # <<>> /\ Top(host).k \notin RunKinds
    BY DEF AbandonDefers, Raised, RunKinds
  <2>2. /\ Top(Pop(host)).n \in 0..Len(frames)
        /\ HostInv(Pop(Pop(host)), Top(Pop(host)).n)
    BY <1>1, <2>1, LoopFacts
  <2>3. frames' \in Seq(GoodFrame) /\ Len(frames') = Top(Pop(host)).n
    BY <1>1, <2>2, CutType DEF AbandonDefers
  <2> QED
    BY <2>2, <2>3 DEF AbandonDefers, IInv
<1> QED
  BY <1>3, <1>4, <1>5, <1>6, <1>7, <1>8

----------------------------------------------------------------------------
(* The theorems.                                                            *)

\* The invariant holds initially,
LEMMA IInvInit == Init => IInv
BY EmptySeq DEF Init, IInv, HostInv

\* every step of the VM preserves it,
LEMMA IInvNext == IInv /\ [Next]_vars => IInv'
<1> SUFFICES ASSUME IInv, [Next]_vars PROVE IInv'
  OBVIOUS
<1>1. CASE UNCHANGED vars
  BY <1>1 DEF vars, IInv
<1>2. CASE Next
  BY <1>2, ExecuteStep, InstructionStep, StartLoop, TailCallNativeStep, NestedRun, FinishLoop,
     Propagation
     DEF Next
<1> QED
  BY <1>1, <1>2

\* and it implies the two properties.
LEMMA IInvTypes == IInv => TypeOK
<1> SUFFICES ASSUME IInv PROVE TypeOK
  OBVIOUS
<1>1. GoodScopes \subseteq Seq(Scope)
  BY DEF GoodScopes
<1>2. GoodFrame \subseteq Frame
  BY <1>1 DEF GoodFrame, Frame
<1>3. frames \in Seq(Frame)
  BY <1>2, SeqMonotonic DEF IInv
<1>4. handlers \in Seq(Handler)
  BY GoodHandlerType, SeqMonotonic DEF IInv
<1> QED
  BY <1>3, <1>4 DEF TypeOK, IInv, HostInv

LEMMA IInvLoops == IInv => LoopsOwnFrames
<1> SUFFICES ASSUME IInv PROVE LoopsOwnFrames
  OBVIOUS
<1>1. host = <<>> => frames = <<>>
  <2>1. host = <<>> => Len(frames) = 0
    BY DEF IInv, HostInv
  <2> QED
    BY <2>1, EmptySeq DEF IInv
<1>2. \A i \in 1..Len(host) : HostRecInv(host, i, Len(frames))
  BY DEF IInv, HostInv
<1> QED
  BY <1>1, <1>2 DEF HostRecInv, LoopsOwnFrames

\* For every limit on frames, defers and scopes, and whatever the program does:
\* the VM's four stacks stay well-typed; in particular the count in a
\* RUN_DEFERS and every saved deferBase is a natural number.
THEOREM TypeCorrect == Spec => []TypeOK
<1>1. Init => IInv
  BY IInvInit
<1>2. IInv /\ [Next]_vars => IInv'
  BY IInvNext
<1>3. IInv => TypeOK
  BY IInvTypes
<1> QED
  BY <1>1, <1>2, <1>3, PTL DEF Spec

\* Every nested interpreter loop works on frames of its own, and with no loop
\* running there is no frame: no return, catch, unwinding, failing defer or
\* interrupt in callVMFunction's run() drops a frame of the run() below it.
THEOREM LoopsOwnTheirFrames == Spec => []LoopsOwnFrames
<1>1. Init => IInv
  BY IInvInit
<1>2. IInv /\ [Next]_vars => IInv'
  BY IInvNext
<1>3. IInv => LoopsOwnFrames
  BY IInvLoops
<1> QED
  BY <1>1, <1>2, <1>3, PTL DEF Spec

----------------------------------------------------------------------------
(* The stacks until an interrupt: handlers never outlive their frames, and  *)
(* nothing is left at the prompt.                                           *)

\* The depth of the frames that the record at position i of a host stack ho
\* over d frames works on.
Ceil(ho, i, d) == IF i = Len(ho) THEN d ELSE ho[i + 1].n

\* An unwinding record drops the frames above its floor when it is done.
Unwinding == {"catch", "execErr", "execInt"}
Floor(ho, i) == IF ho[i].k = "catch" THEN ho[i].h.frame ELSE ho[i - 1].n

\* Handlers hs belong to frames fs that are there, in order.
LiveHandlers(hs, fs) ==
    /\ \A i \in 1..Len(hs) :
         /\ hs[i].frame \in 1..Len(fs)
         /\ fs[hs[i].frame].act = hs[i].act
    /\ \A i, j \in 1..Len(hs) : i <= j => hs[i].frame <= hs[j].frame

\* No handler belongs to a frame that an unwinding in progress will drop.
ClearOfUnwinding(hs, ho, d) ==
    \A i \in 1..Len(ho) : ho[i].k \in Unwinding =>
      \A j \in 1..Len(hs) : hs[j].frame <= Floor(ho, i) \/ Ceil(ho, i, d) < hs[j].frame

\* The bottom of the stacks: the evaluation that the prompt started.  When mode is
\* "tidy" (no frame was dropped with defers of its own), its frame found no defers
\* below it.
BottomRec(ho, i, d, mode) ==
    /\ ho[i].k = "execute" <=> i = 1
    /\ ho[i].k # "execInt"
    /\ mode = "tidy" =>
         /\ ho[i].k = "execErr" => ho[i].n = 0
         /\ ho[i].k = "return" /\ Ceil(ho, i, d) = 1 => ho[i].n = 0

BottomInv(ho, fs, ds, mode) ==
    /\ \A i \in 1..Len(ho) : BottomRec(ho, i, Len(fs), mode)
    /\ mode = "tidy" =>
         /\ ho = <<>> => ds = <<>>
         /\ fs # <<>> => fs[1].base = 0

\* What holds in addition to IInv as long as no interrupt was raised.
UInv(mode) ==
    /\ exc # "interrupt"
    /\ LiveHandlers(handlers, frames)
    /\ ClearOfUnwinding(handlers, host, Len(frames))
    /\ BottomInv(host, frames, deferStack, mode)

----------------------------------------------------------------------------
(* Lemmas.                                                                  *)

\* Dropping the last handlers, when those that stay belong to frames that do.
LEMMA LiveCut ==
    ASSUME NEW hs \in Seq(GoodHandler), NEW fs, NEW gs, LiveHandlers(hs, fs),
           NEW n \in 0..Len(hs), Len(fs) \in Nat, Len(gs) \in Nat,
           NEW e \in 0..Len(gs),
           \A i \in 1..e : gs[i].act = fs[i].act,
           \A i \in 1..n : hs[i].frame <= e
    PROVE  LiveHandlers(Cut(hs, n), gs)
<1> DEFINE q == Cut(hs, n)
<1>1. Len(q) = n /\ \A i \in 1..n : q[i] = hs[i]
  BY CutType
<1>2. Len(hs) \in Nat /\ n <= Len(hs) /\ \A i \in 1..n : i \in 1..Len(hs)
  BY LenProperties
<1> HIDE DEF q
<1>3. ASSUME NEW i \in 1..Len(q)
      PROVE  q[i].frame \in 1..Len(gs) /\ gs[q[i].frame].act = q[i].act
  <2>1. i \in 1..n /\ q[i] = hs[i] /\ i \in 1..Len(hs)
    BY <1>1, <1>2
  <2>2. hs[i].frame \in 1..Len(fs) /\ fs[hs[i].frame].act = hs[i].act /\ hs[i].frame <= e
    BY <2>1 DEF LiveHandlers
  <2>3. hs[i].frame \in 1..e /\ hs[i].frame \in 1..Len(gs)
    BY <2>2
  <2> QED
    BY <2>1, <2>2, <2>3
<1>4. \A i, j \in 1..Len(q) : i <= j => q[i].frame <= q[j].frame
  BY <1>1, <1>2 DEF LiveHandlers
<1> QED
  BY <1>3, <1>4 DEF LiveHandlers, q

\* Cutting nothing off.
LEMMA CutAll ==
    ASSUME NEW S, NEW s \in Seq(S)
    PROVE  Cut(s, Len(s)) = s /\ Len(s) \in 0..Len(s)
<1>1. Len(s) \in Nat
  BY LenProperties
<1>2. Len(s) \in 0..Len(s)
  BY <1>1
<1>3. Cut(s, Len(s)) \in Seq(S) /\ Len(Cut(s, Len(s))) = Len(s)
      /\ \A i \in 1..Len(s) : Cut(s, Len(s))[i] = s[i]
  BY <1>2, CutType
<1>4. Cut(s, Len(s)) = s
  BY <1>3, SeqEqual
<1> QED
  BY <1>2, <1>4

\* The loops that pop the handlers above frame d.
LEMMA PopsAbove ==
    ASSUME NEW fs, Len(fs) \in Nat, handlers \in Seq(GoodHandler),
           LiveHandlers(handlers, fs), NEW i, NEW d \in Nat, PopHandlers(i, d)
    PROVE  /\ i \in 0..Len(handlers)
           /\ handlers' = Cut(handlers, i)
           /\ \A j \in 1..i : handlers[j].frame <= d
<1>1. i \in 0..Len(handlers) /\ (i > 0 => handlers[i].frame <= d)
      /\ handlers' = Cut(handlers, i)
  BY DEF PopHandlers
<1>2. Len(handlers) \in Nat
  BY LenProperties
<1>3. ASSUME NEW j \in 1..i PROVE handlers[j].frame <= d
  <2>1. i > 0 /\ i \in 1..Len(handlers) /\ j \in 1..Len(handlers) /\ j <= i
    BY <1>1, <1>2
  <2>2. /\ handlers[j].frame <= handlers[i].frame
        /\ handlers[j].frame \in 1..Len(fs) /\ handlers[i].frame \in 1..Len(fs)
    BY <2>1 DEF LiveHandlers
  <2> QED
    BY <1>1, <2>1, <2>2
<1> QED
  BY <1>1, <1>3

\* Fewer handlers are no worse.
LEMMA ClearCut ==
    ASSUME NEW hs \in Seq(GoodHandler), NEW n \in 0..Len(hs), NEW ho, NEW d,
           ClearOfUnwinding(hs, ho, d)
    PROVE  ClearOfUnwinding(Cut(hs, n), ho, d)
<1> DEFINE q == Cut(hs, n)
<1>1. Len(q) = n /\ \A i \in 1..n : q[i] = hs[i]
  BY CutType
<1>2. Len(hs) \in Nat /\ \A i \in 1..n : i \in 1..Len(hs)
  BY LenProperties
<1> HIDE DEF q
<1>3. ClearOfUnwinding(q, ho, d)
  BY <1>1, <1>2 DEF ClearOfUnwinding
<1> QED
  BY <1>3 DEF q

----------------------------------------------------------------------------
(* Host stacks before and after a step.                                     *)

\* A host stack q over e frames has at the positions up to m what ho over d
\* frames has there, and the loops work on frames of the same depths.
SamePlaces(ho, d, q, e, m) ==
    \A i \in 1..m :
      /\ q[i].k = ho[i].k
      /\ q[i].h = ho[i].h
      /\ ho[i].k \notin OpKinds => q[i].n = ho[i].n
      /\ ho[i].k \notin RunKinds => Ceil(q, i, e) = Ceil(ho, i, d)

\* What a host stack over d frames looks like at its positions.
LEMMA HostShape ==
    ASSUME NEW ho, NEW d, HostInv(ho, d)
    PROVE  /\ ho \in Seq(HostRec)
           /\ Len(ho) \in Nat
           /\ \A i \in 1..Len(ho) :
                /\ ho[i] \in HostRec
                /\ ho[i].n \in Nat
                /\ ho[i].k \notin RunKinds => i > 1 /\ ho[i - 1].k \in RunKinds
                /\ ho[i].k \in RunKinds => ho[i].n < d
                /\ ho[i].k = "catch" => ho[i].h \in GoodHandler
<1>1. ho \in Seq(HostRec) /\ Len(ho) \in Nat
  BY LenProperties DEF HostInv
<1>2. \A i \in 1..Len(ho) : ho[i] \in HostRec /\ ho[i].n \in Nat
  <2>1. \A i \in 1..Len(ho) : ho[i] \in HostRec
    BY <1>1, ElementOfSeq
  <2> QED
    BY <2>1 DEF HostRec
<1>3. \A i \in 1..Len(ho) : HostRecInv(ho, i, d)
  BY DEF HostInv
<1> QED
  BY <1>1, <1>2, <1>3 DEF HostRecInv

\* A step leaves the places of a stack alone whose frames change above a run().
LEMMA PlacesDepth ==
    ASSUME NEW ho, NEW d \in Nat, HostInv(ho, d), ho # <<>>,
           Top(ho).k \in RunKinds, NEW e
    PROVE  SamePlaces(ho, d, ho, e, Len(ho))
BY HostShape DEF SamePlaces, Ceil, Top

\* A run() is pushed; the innermost loop may have counted down.
LEMMA PlacesPushRun ==
    ASSUME NEW ho, NEW d \in Nat, HostInv(ho, d), NEW ho1 \in Seq(HostRec),
           Len(ho1) = Len(ho),
           \A i \in 1..Len(ho) : ho1[i].k = ho[i].k /\ ho1[i].h = ho[i].h
                                 /\ (ho[i].k \notin OpKinds => ho1[i].n = ho[i].n),
           NEW r \in HostRec, r.k \in RunKinds, r.n = d, NEW e
    PROVE  /\ Len(Append(ho1, r)) = Len(ho) + 1
           /\ Append(ho1, r)[Len(ho) + 1] = r
           /\ SamePlaces(ho, d, Append(ho1, r), e, Len(ho))
<1> DEFINE q == Append(ho1, r)
<1>1. /\ Len(ho) \in Nat
      /\ Len(q) = Len(ho) + 1
      /\ q[Len(ho) + 1] = r
      /\ \A i \in 1..Len(ho) : q[i] = ho1[i]
  BY HostShape, PushType
<1> HIDE DEF q
<1>2. ASSUME NEW i \in 1..Len(ho), ho[i].k \notin RunKinds
      PROVE  Ceil(q, i, e) = Ceil(ho, i, d)
  <2>1. CASE i = Len(ho)
    BY <1>1, <2>1 DEF Ceil
  <2>2. CASE i # Len(ho)
    <3>1. i + 1 \in 1..Len(ho) /\ i \in Nat
      BY <1>1, <2>2
    <3>2. ho[i + 1].k \in RunKinds
      <4>1. ho[i + 1].k \notin RunKinds => ho[(i + 1) - 1].k \in RunKinds
        BY <3>1, HostShape
      <4>2. (i + 1) - 1 = i
        BY <3>1
      <4> QED
        BY <1>2, <4>1, <4>2
    <3>3. ho[i + 1].k \notin OpKinds
      BY <3>2, KindsDiffer
    <3>4. q[i + 1].n = ho[i + 1].n
      BY <1>1, <3>1, <3>3
    <3> QED
      BY <1>1, <2>2, <3>4 DEF Ceil
  <2> QED
    BY <2>1, <2>2
<1>3. SamePlaces(ho, d, q, e, Len(ho))
  BY <1>1, <1>2 DEF SamePlaces
<1> QED
  BY <1>1, <1>3 DEF q

\* A loop that runs defers is pushed on a run().
LEMMA PlacesPushLoop ==
    ASSUME NEW ho, NEW d \in Nat, HostInv(ho, d), ho # <<>>,
           Top(ho).k \in RunKinds, NEW r \in HostRec, NEW e
    PROVE  /\ Len(Append(ho, r)) = Len(ho) + 1
           /\ Append(ho, r)[Len(ho) + 1] = r
           /\ Append(ho, r)[Len(ho)] = Top(ho)
           /\ SamePlaces(ho, d, Append(ho, r), e, Len(ho))
<1> DEFINE q == Append(ho, r)
<1>1. /\ ho \in Seq(HostRec)
      /\ Len(ho) \in Nat
      /\ Len(ho) > 0
      /\ Top(ho) = ho[Len(ho)]
      /\ Len(q) = Len(ho) + 1
      /\ q[Len(ho) + 1] = r
      /\ \A i \in 1..Len(ho) : q[i] = ho[i]
  BY HostShape, PushType, TopType DEF Top
<1> HIDE DEF q
<1>2. SamePlaces(ho, d, q, e, Len(ho))
  BY <1>1 DEF SamePlaces, Ceil
<1> QED
  BY <1>1, <1>2 DEF q

\* A loop that runs defers ends.
LEMMA PlacesPopLoop ==
    ASSUME NEW ho, NEW d \in Nat, HostInv(ho, d), ho # <<>>,
           Top(ho).k \notin RunKinds, NEW e
    PROVE  /\ Len(Pop(ho)) = Len(ho) - 1
           /\ SamePlaces(ho, d, Pop(ho), e, Len(Pop(ho)))
<1> DEFINE q == Pop(ho)
<1>1. /\ ho \in Seq(HostRec)
      /\ Len(ho) \in Nat
      /\ Len(ho) > 0
      /\ Top(ho) = ho[Len(ho)]
      /\ Len(q) = Len(ho) - 1
      /\ \A i \in 1..Len(q) : q[i] = ho[i]
  BY HostShape, PopType, TopType DEF Top
<1>2. q # <<>> /\ Top(q).k \in RunKinds
  BY HostPopLoop
<1>3. ho[Len(q)].k \in RunKinds
  <2>1. Len(q) \in 1..Len(q)
    <3>1. Len(q) # 0
      <4>1. q \in Seq(HostRec)
        BY <1>1, PopType
      <4> QED
        BY <1>2, <4>1, EmptySeq
    <3> QED
      BY <1>1, <3>1
  <2> QED
    BY <1>1, <1>2, <2>1 DEF Top
<1> HIDE DEF q
<1>4. SamePlaces(ho, d, q, e, Len(q))
  BY SMTT(30), <1>1, <1>3 DEF SamePlaces, Ceil
<1> QED
  BY <1>1, <1>4 DEF q

\* A run() ends, and with it the frames it worked on.
LEMMA PlacesPopRun ==
    ASSUME NEW ho, NEW d \in Nat, HostInv(ho, d), ho # <<>>
    PROVE  /\ Len(Pop(ho)) = Len(ho) - 1
           /\ SamePlaces(ho, d, Pop(ho), Top(ho).n, Len(Pop(ho)))
<1> DEFINE q == Pop(ho)
<1>1. /\ ho \in Seq(HostRec)
      /\ Len(ho) \in Nat
      /\ Len(ho) > 0
      /\ Top(ho) = ho[Len(ho)]
      /\ Len(q) = Len(ho) - 1
      /\ \A i \in 1..Len(q) : q[i] = ho[i]
  BY HostShape, PopType, TopType DEF Top
<1> HIDE DEF q
<1>2. SamePlaces(ho, d, q, Top(ho).n, Len(q))
  BY <1>1 DEF SamePlaces, Ceil
<1> QED
  BY <1>1, <1>2 DEF q

\* One change after another.
LEMMA PlacesTrans ==
    ASSUME NEW ho, NEW d, NEW p, NEW c, NEW q, NEW e, NEW l \in Nat, NEW m \in 0..l,
           SamePlaces(ho, d, p, c, l), SamePlaces(p, c, q, e, m)
    PROVE  SamePlaces(ho, d, q, e, m)
<1>1. \A i \in 1..m : i \in 1..l
  OBVIOUS
<1> QED
  BY <1>1 DEF SamePlaces

\* A record of an unwinding has a run() below it.
LEMMA UnwindingKinds ==
    /\ \A k \in Unwinding : k \notin RunKinds /\ k \notin OpKinds
    /\ "return" \notin RunKinds /\ "return" \notin OpKinds
    /\ "execute" \notin OpKinds
BY DEF Unwinding, RunKinds, OpKinds

\* Places that stay keep handlers clear of unwinding; a new record must see to it.
LEMMA ClearStep ==
    ASSUME NEW hs, NEW ho, NEW d, HostInv(ho, d), ClearOfUnwinding(hs, ho, d),
           NEW q, NEW e, NEW m \in 0..Len(ho), SamePlaces(ho, d, q, e, m),
           Len(q) \in {m, m + 1},
           Len(q) = m + 1 /\ q[m + 1].k \in Unwinding =>
             \A j \in 1..Len(hs) : hs[j].frame <= Floor(q, m + 1)
    PROVE  ClearOfUnwinding(hs, q, e)
<1>1. Len(ho) \in Nat
  BY HostShape
<1> SUFFICES ASSUME NEW i \in 1..Len(q), q[i].k \in Unwinding, NEW j \in 1..Len(hs)
             PROVE  hs[j].frame <= Floor(q, i) \/ Ceil(q, i, e) < hs[j].frame
  BY DEF ClearOfUnwinding
<1>2. CASE i = m + 1
  <2>1. Len(q) = m + 1
    BY <1>1, <1>2
  <2> QED
    BY <1>2, <2>1
<1>3. CASE i \in 1..m
  <2>1. i \in 1..Len(ho) /\ i \in Nat
    BY <1>1, <1>3
  <2>2. /\ q[i].k = ho[i].k
        /\ q[i].h = ho[i].h
        /\ ho[i].k \notin RunKinds
        /\ Ceil(q, i, e) = Ceil(ho, i, d)
    BY <1>3, UnwindingKinds DEF SamePlaces
  <2>3. i > 1 /\ ho[i - 1].k \in RunKinds
    BY <2>1, <2>2, HostShape
  <2>4. i - 1 \in 1..m
    BY <1>3, <2>3
  <2>5. q[i - 1].n = ho[i - 1].n
    BY <2>3, <2>4, KindsDiffer DEF SamePlaces
  <2>6. Floor(q, i) = Floor(ho, i)
    BY <2>2, <2>5 DEF Floor
  <2>7. hs[j].frame <= Floor(ho, i) \/ Ceil(ho, i, d) < hs[j].frame
    BY <2>1, <2>2 DEF ClearOfUnwinding
  <2> QED
    BY <2>2, <2>6, <2>7
<1> QED
  BY <1>1, <1>2, <1>3

\* The same of what is said of the bottom of the stacks.
LEMMA BottomStep ==
    ASSUME NEW mode, NEW ho, NEW d, HostInv(ho, d), NEW q, NEW e,
           \A i \in 1..Len(ho) : BottomRec(ho, i, d, mode),
           NEW m \in 0..Len(ho), SamePlaces(ho, d, q, e, m),
           Len(q) \in {m, m + 1},
           Len(q) = m + 1 => BottomRec(q, m + 1, e, mode)
    PROVE  \A i \in 1..Len(q) : BottomRec(q, i, e, mode)
<1>1. Len(ho) \in Nat
  BY HostShape
<1> SUFFICES ASSUME NEW i \in 1..Len(q) PROVE BottomRec(q, i, e, mode)
  OBVIOUS
<1>2. CASE i = m + 1
  <2>1. Len(q) = m + 1
    BY <1>1, <1>2
  <2> QED
    BY <1>2, <2>1
<1>3. CASE i \in 1..m
  <2>1. i \in 1..Len(ho) /\ BottomRec(ho, i, d, mode)
    BY <1>1, <1>3
  <2>2. /\ q[i].k = ho[i].k
        /\ ho[i].k \notin OpKinds => q[i].n = ho[i].n
        /\ ho[i].k \notin RunKinds => Ceil(q, i, e) = Ceil(ho, i, d)
    BY <1>3 DEF SamePlaces
  <2>3. "execErr" \in Unwinding
    BY DEF Unwinding
  <2> QED
    BY <2>1, <2>2, <2>3, UnwindingKinds DEF BottomRec
<1> QED
  BY <1>1, <1>2, <1>3

----------------------------------------------------------------------------
(* Frames before and after a step.                                          *)

\* The first e frames are those of the same activations.
SameFrames(fs, gs, e) ==
    \A i \in 1..e : gs[i].act = fs[i].act /\ gs[i].base = fs[i].base

\* Moving the top frame's program counter, pushing a frame and dropping the frames
\* above n leave the frames below alone.
LEMMA MoveTopSame ==
    ASSUME NEW fs \in Seq(GoodFrame), fs # <<>>, NEW ss
    PROVE  SameFrames(fs, [fs EXCEPT ![Len(fs)].scopes = ss], Len(fs))
<1>1. \A i \in 1..Len(fs) : fs[i] \in GoodFrame
  BY ElementOfSeq
<1>2. /\ DOMAIN fs = 1..Len(fs)
      /\ Len(fs) \in Nat
  BY LenProperties
<1>3. \A i \in 1..Len(fs) : fs[i] = [act |-> fs[i].act, base |-> fs[i].base, scopes |-> fs[i].scopes]
  BY <1>1 DEF GoodFrame
<1>4. \A i \in 1..Len(fs) : [fs EXCEPT ![Len(fs)].scopes = ss][i] =
         IF i = Len(fs) THEN [fs[Len(fs)] EXCEPT !.scopes = ss] ELSE fs[i]
  BY <1>2
<1> QED
  BY <1>3, <1>4 DEF SameFrames

\* (pushing)
LEMMA PushFrameSame ==
    ASSUME NEW fs \in Seq(GoodFrame), NEW ds \in Seq(Nat), nextAct \in Nat,
           PushFrame(fs, ds)
    PROVE  /\ SameFrames(fs, frames', Len(fs))
           /\ frames'[Len(fs) + 1].base = Len(ds)
<1>1. Len(ds) \in Nat
  BY LenProperties
<1>2. NewFrame(Len(ds)) \in GoodFrame
  BY <1>1, NewFrameType
<1>3. /\ frames'[Len(fs) + 1] = NewFrame(Len(ds))
      /\ \A i \in 1..Len(fs) : frames'[i] = fs[i]
  BY <1>2, PushType DEF PushFrame
<1> QED
  BY <1>3 DEF SameFrames, NewFrame

\* (dropping)
LEMMA CutSame ==
    ASSUME NEW fs \in Seq(GoodFrame), NEW n \in 0..Len(fs)
    PROVE  SameFrames(fs, Cut(fs, n), n)
BY CutType DEF SameFrames

----------------------------------------------------------------------------
(* The actions.                                                             *)

\* What is needed of a step that pushes no handler.
LEMMA UStep ==
    ASSUME NEW mode, IInv, UInv(mode), IInv', exc' # "interrupt",
           NEW n \in 0..Len(handlers), handlers' = Cut(handlers, n),
           NEW e \in 0..Len(frames), e <= Len(frames'), SameFrames(frames, frames', e),
           \A i \in 1..n : handlers[i].frame <= e,
           mode = "tidy" /\ e = 0 /\ frames' # <<>> => frames'[1].base = 0,
           NEW m \in 0..Len(host),
           SamePlaces(host, Len(frames), host', Len(frames'), m),
           Len(host') \in {m, m + 1},
           Len(host') = m + 1 =>
             /\ BottomRec(host', m + 1, Len(frames'), mode)
             /\ host'[m + 1].k \in Unwinding =>
                  \A j \in 1..n : handlers[j].frame <= Floor(host', m + 1),
           mode = "tidy" /\ host' = <<>> => deferStack' = <<>>
    PROVE  UInv(mode)'
<1>1. /\ frames \in Seq(GoodFrame) /\ frames' \in Seq(GoodFrame)
      /\ Len(frames) \in Nat /\ Len(frames') \in Nat
      /\ handlers \in Seq(GoodHandler)
      /\ HostInv(host, Len(frames))
  BY LenProperties DEF IInv
<1>2. LiveHandlers(handlers', frames')
  <2>1. LiveHandlers(handlers, frames) /\ e \in 0..Len(frames')
    BY <1>1 DEF UInv
  <2>2. \A i \in 1..e : frames'[i].act = frames[i].act
    BY DEF SameFrames
  <2> QED
    BY <1>1, <2>1, <2>2, LiveCut
<1>3. ClearOfUnwinding(handlers', host', Len(frames'))
  <2>1. Len(handlers') = n /\ \A j \in 1..n : handlers'[j] = handlers[j]
    BY <1>1, CutType
  <2>2. ClearOfUnwinding(handlers', host, Len(frames))
    BY <1>1, ClearCut DEF UInv
  <2> QED
    BY <1>1, <2>1, <2>2, ClearStep
<1>4. BottomInv(host', frames', deferStack', mode)
  <2>1. \A i \in 1..Len(host') : BottomRec(host', i, Len(frames'), mode)
    <3>1. \A i \in 1..Len(host) : BottomRec(host, i, Len(frames), mode)
      BY DEF UInv, BottomInv
    <3> QED
      BY <1>1, <3>1, BottomStep
  <2>2. mode = "tidy" /\ frames' # <<>> => frames'[1].base = 0
    <3> SUFFICES ASSUME mode = "tidy", frames' # <<>> PROVE frames'[1].base = 0
      OBVIOUS
    <3>1. CASE e > 0
      <4>1. Len(frames) # 0 /\ 1 \in 1..e
        BY <1>1, <3>1
      <4>2. frames # <<>>
        BY <4>1
      <4>3. frames[1].base = 0
        BY <4>2 DEF UInv, BottomInv
      <4> QED
        BY <4>1, <4>3 DEF SameFrames
    <3> QED
      BY <1>1, <3>1
  <2> QED
    BY <2>1, <2>2 DEF BottomInv
<1> QED
  BY <1>2, <1>3, <1>4 DEF UInv

\* All handlers belong to frames that are there.
LEMMA HandlersBelow ==
    ASSUME NEW mode, IInv, UInv(mode)
    PROVE  /\ handlers = Cut(handlers, Len(handlers))
           /\ Len(handlers) \in 0..Len(handlers)
           /\ Len(handlers) \in Nat
           /\ \A i \in 1..Len(handlers) : handlers[i].frame <= Len(frames)
           /\ Len(frames) \in 0..Len(frames)
           /\ Len(frames) \in Nat
           /\ HostInv(host, Len(frames))
           /\ Len(host) \in Nat
           /\ Len(host) \in 0..Len(host)
<1>1. /\ frames \in Seq(GoodFrame) /\ handlers \in Seq(GoodHandler)
      /\ HostInv(host, Len(frames))
  BY DEF IInv
<1>2. Len(frames) \in Nat /\ Len(handlers) \in Nat /\ Len(host) \in Nat
  BY <1>1, LenProperties, HostShape
<1>3. \A i \in 1..Len(handlers) : handlers[i].frame <= Len(frames)
  BY <1>2 DEF UInv, LiveHandlers
<1> QED
  BY <1>1, <1>2, <1>3, CutAll

\* Instructions that stay in the same interpreter loop.
LEMMA URunning ==
    ASSUME NEW mode, IInv, UInv(mode), IInv', Running, exc' # "interrupt", UNCHANGED <<host, handlers>>,
           Len(frames') >= Len(frames), SameFrames(frames, frames', Len(frames))
    PROVE  UInv(mode)'
<1>1. host # <<>> /\ Top(host).k \in RunKinds
  BY DEF Running, At
<1>2. SamePlaces(host, Len(frames), host', Len(frames'), Len(host))
  BY <1>1, HandlersBelow, PlacesDepth
<1>3. Len(frames) # 0
  BY <1>1, FrameFacts
<1> QED
  BY <1>1, <1>2, <1>3, HandlersBelow, UStep

\* Pushing the record of a loop that runs defers.
LEMMA UStartLoop ==
    ASSUME NEW mode, IInv, UInv(mode), IInv', exc' # "interrupt", host # <<>>, Top(host).k \in RunKinds,
           NEW n \in 0..Len(handlers), handlers' = Cut(handlers, n),
           NEW r \in HostRec, host' = Append(host, r),
           Len(frames') = Len(frames), SameFrames(frames, frames', Len(frames)),
           r.k \notin {"execute", "execInt"},
           mode = "tidy" /\ r.k = "execErr" => r.n = 0,
           mode = "tidy" /\ r.k = "return" /\ Len(frames) = 1 => r.n = 0,
           r.k = "catch" => \A j \in 1..n : handlers[j].frame <= r.h.frame,
           r.k = "execErr" => \A j \in 1..n : handlers[j].frame <= Top(host).n
    PROVE  UInv(mode)'
<1> DEFINE l == Len(host)
<1>1. /\ Len(host') = l + 1
      /\ host'[l + 1] = r
      /\ host'[l] = Top(host)
      /\ SamePlaces(host, Len(frames), host', Len(frames'), l)
  BY HandlersBelow, PlacesPushLoop
<1>2. l \in Nat \ {0} /\ l + 1 - 1 = l
  BY HandlersBelow, TopType DEF HostInv
<1> HIDE DEF l
<1>3. BottomRec(host', l + 1, Len(frames'), mode)
  BY <1>1, <1>2 DEF BottomRec, Ceil
<1>4. r.k \in Unwinding => \A j \in 1..n : handlers[j].frame <= Floor(host', l + 1)
  <2>1. r.k \in Unwinding => r.k \in {"catch", "execErr"}
    BY DEF Unwinding
  <2>2. Floor(host', l + 1) = IF r.k = "catch" THEN r.h.frame ELSE Top(host).n
    BY <1>1, <1>2 DEF Floor
  <2> QED
    BY <2>1, <2>2
<1>5. \A i \in 1..n : handlers[i].frame <= Len(frames)
  BY HandlersBelow
<1>6. Len(frames) # 0
  BY FrameFacts
<1>7. host' # <<>>
  <2>1. Len(host') # 0
    BY <1>1, <1>2
  <2> QED
    BY <2>1
<1>8. /\ l \in 0..Len(host)
      /\ Len(host') \in {l, l + 1}
      /\ Len(frames) \in 0..Len(frames)
      /\ Len(frames) <= Len(frames')
  BY <1>1, HandlersBelow DEF l
<1> HIDE DEF Unwinding
<1> QED
  BY <1>1, <1>3, <1>4, <1>5, <1>6, <1>7, <1>8, UStep

\* A new evaluation.
LEMMA UExecute ==
    ASSUME NEW mode, IInv, UInv(mode), IInv', Execute
    PROVE  UInv(mode)'
<1>1. /\ frames = <<>> /\ host = <<>> /\ (mode = "tidy" => deferStack = <<>>)
      /\ Len(frames) = 0 /\ Len(host) = 0
      /\ UNCHANGED <<handlers, deferStack, exc>>
      /\ PushFrame(frames, deferStack)
      /\ host' = <<Host("execute", 0)>>
  <2>1. host = <<>>
    BY DEF Execute
  <2>2. frames = <<>>
    BY <2>1, IInvLoops DEF LoopsOwnFrames
  <2> QED
    BY <2>1, <2>2 DEF Execute, UInv, BottomInv
<1>2. handlers = Cut(handlers, 0) /\ 0 \in 0..Len(handlers)
  <2>1. Len(handlers) = 0
    <3>1. \A i \in 1..Len(handlers) : handlers[i].frame \in 1..0
      BY <1>1 DEF UInv, LiveHandlers
    <3> QED
      BY <3>1, HandlersBelow
  <2> QED
    BY <2>1, HandlersBelow
<1>3. Len(frames') \in Nat /\ (mode = "tidy" => frames'[1].base = 0)
  <2>1. frames \in Seq(GoodFrame) /\ deferStack \in Seq(Nat) /\ nextAct \in Nat
    BY DEF IInv
  <2>2. frames'[Len(frames) + 1].base = Len(deferStack)
    BY <1>1, <2>1, PushFrameSame
  <2>3. frames' \in Seq(GoodFrame)
    BY DEF IInv
  <2> QED
    BY <1>1, <2>2, <2>3, LenProperties
<1>4. Len(host') = 1 /\ host'[1] = Host("execute", 0)
  BY <1>1
<1>5. BottomRec(host', 1, Len(frames'), mode) /\ host'[1].k \notin Unwinding
  BY <1>4 DEF BottomRec, Host, Unwinding
<1>6. SamePlaces(host, Len(frames), host', Len(frames'), 0)
  BY DEF SamePlaces
<1>7. SameFrames(frames, frames', 0)
  BY DEF SameFrames
<1>8. exc' # "interrupt" /\ host' # <<>>
  BY <1>1, <1>4 DEF UInv
<1>9. 0 \in 0..Len(frames) /\ 0 <= Len(frames') /\ 0 \in 0..Len(host) /\ Len(host') \in {0, 0 + 1}
      /\ \A i \in 1..0 : handlers[i].frame <= 0
  BY <1>1, <1>3, <1>4
<1> HIDE DEF Unwinding
<1>10. 0 + 1 = 1
  OBVIOUS
<1> QED
  BY <1>1, <1>2, <1>3, <1>5, <1>6, <1>7, <1>8, <1>9, <1>10, UStep

\* Instructions that stay in the same interpreter loop.
LEMMA UInstruction ==
    ASSUME NEW mode, IInv, UInv(mode), IInv', exc' # "interrupt",
           EnterBlock \/ Defer \/ DeferSkipped \/ Call \/ Throw \/ Interrupt
    PROVE  UInv(mode)'
<1>1. Running /\ UNCHANGED <<host, handlers>>
  BY DEF EnterBlock, Defer, DeferSkipped, Call, Throw, Interrupt
<1>2. /\ frames \in Seq(GoodFrame) /\ deferStack \in Seq(Nat) /\ nextAct \in Nat
      /\ frames # <<>>
      /\ Len(frames) \in Nat
  BY <1>1, RunningFacts, FrameFacts DEF IInv
<1>3. ASSUME NEW ss, SetScopes(ss)
      PROVE  Len(frames') >= Len(frames) /\ SameFrames(frames, frames', Len(frames))
  <2>1. SameFrames(frames, frames', Len(frames))
    BY <1>2, <1>3, MoveTopSame DEF SetScopes
  <2>2. Len(frames') = Len(frames)
    <3>1. frames' = [frames EXCEPT ![Len(frames)].scopes = ss] /\ frames' \in Seq(GoodFrame)
      BY <1>3 DEF SetScopes, IInv
    <3>2. DOMAIN frames' = 1..Len(frames)
      BY <1>2, <3>1, LenProperties
    <3> QED
      BY <1>2, <3>1, <3>2, LenProperties
  <2> QED
    BY <1>2, <2>1, <2>2
<1>4. ASSUME UNCHANGED frames
      PROVE  Len(frames') >= Len(frames) /\ SameFrames(frames, frames', Len(frames))
  BY <1>2, <1>4 DEF SameFrames
<1>5. ASSUME PushFrame(frames, deferStack)
      PROVE  Len(frames') >= Len(frames) /\ SameFrames(frames, frames', Len(frames))
  BY <1>2, <1>5, PushFrameSame, PushFrameType
<1>6. Len(frames') >= Len(frames) /\ SameFrames(frames, frames', Len(frames))
  BY <1>3, <1>4, <1>5
     DEF EnterBlock, Defer, DeferSkipped, CountDefer, Call, Throw, Interrupt
<1> QED
  BY <1>1, <1>6, URunning

\* Entering a try: its handler belongs to the frame on top.
LEMMA UTryBegin ==
    ASSUME NEW mode, IInv, UInv(mode), IInv', TryBegin
    PROVE  UInv(mode)'
<1> DEFINE h == [frame |-> Len(frames), act |-> Cur.act,
                 base |-> Len(deferStack), scopes |-> Cur.scopes]
           ss == Append(Cur.scopes, [try |-> TRUE, c |-> CurScope.c])
           l == Len(handlers)
           d == Len(frames)
<1>1. /\ Running /\ host # <<>> /\ Top(host).k \in RunKinds
      /\ SetScopes(ss)
      /\ handlers' = Append(handlers, h)
      /\ UNCHANGED <<deferStack, host, exc, nextAct>>
  BY RunningFacts DEF TryBegin
<1>2. /\ frames \in Seq(GoodFrame) /\ handlers \in Seq(GoodHandler)
      /\ frames # <<>>
      /\ d \in Nat \ {0}
      /\ Cur \in GoodFrame
      /\ Cur = frames[d]
      /\ l \in Nat
      /\ frames' \in Seq(GoodFrame)
      /\ handlers' \in Seq(GoodHandler)
      /\ HostInv(host, d)
      /\ Top(host).n < d
      /\ Top(host).n \in Nat
      /\ \A i \in 1..l : handlers[i].frame <= d
  BY <1>1, FrameFacts, HandlersBelow, RunningFacts DEF IInv, Cur, Top
<1>3. Len(frames') = d /\ SameFrames(frames, frames', d)
  <2>1. SameFrames(frames, frames', d)
    BY <1>1, <1>2, MoveTopSame DEF SetScopes
  <2>2. DOMAIN frames' = 1..d
    BY <1>1, <1>2, LenProperties DEF SetScopes
  <2> QED
    BY <1>2, <2>1, <2>2, LenProperties
<1>4. /\ Len(handlers') = l + 1
      /\ handlers'[l + 1] = h
      /\ \A i \in 1..l : handlers'[i] = handlers[i]
  <2> HIDE DEF h
  <2> QED
    BY <1>1, <1>2, AppendProperties
<1>5. h.frame = d /\ h.act = frames[d].act
  BY <1>2
<1> HIDE DEF h, ss, l, d
<1>6. LiveHandlers(handlers', frames')
  <2>1. ASSUME NEW i \in 1..Len(handlers')
        PROVE  handlers'[i].frame \in 1..Len(frames')
               /\ frames'[handlers'[i].frame].act = handlers'[i].act
    <3>1. CASE i = l + 1
      BY <1>2, <1>3, <1>4, <1>5, <3>1 DEF SameFrames
    <3>2. CASE i \in 1..l
      <4>1. handlers[i].frame \in 1..d /\ frames[handlers[i].frame].act = handlers[i].act
        BY <3>2 DEF UInv, LiveHandlers, l, d
      <4> QED
        BY <1>3, <1>4, <3>2, <4>1 DEF SameFrames
    <3> QED
      BY <1>2, <1>4, <3>1, <3>2
  <2>2. ASSUME NEW i \in 1..Len(handlers'), NEW j \in 1..Len(handlers'), i <= j
        PROVE  handlers'[i].frame <= handlers'[j].frame
    <3>1. CASE j = l + 1
      BY <1>2, <1>4, <1>5, <2>2, <3>1
    <3>2. CASE j \in 1..l
      <4>1. i \in 1..l
        BY <1>2, <2>2, <3>2
      <4>2. handlers[i].frame <= handlers[j].frame
        BY <2>2, <3>2, <4>1 DEF UInv, LiveHandlers, l
      <4> QED
        BY <1>4, <3>2, <4>1, <4>2
    <3> QED
      BY <1>2, <1>4, <3>1, <3>2
  <2> QED
    BY <2>1, <2>2 DEF LiveHandlers
<1>7. ClearOfUnwinding(handlers', host, d)
  <2> SUFFICES ASSUME NEW i \in 1..Len(host), host[i].k \in Unwinding,
                      NEW j \in 1..Len(handlers')
               PROVE  \/ handlers'[j].frame <= Floor(host, i)
                      \/ Ceil(host, i, d) < handlers'[j].frame
    BY DEF ClearOfUnwinding
  <2>1. CASE j \in 1..l
    BY <1>4, <2>1 DEF UInv, ClearOfUnwinding, l, d
  <2>2. CASE j = l + 1
    <3>1. handlers'[j].frame = d
      BY <1>4, <1>5, <2>2
    <3>2. Ceil(host, i, d) < d
      <4>1. Len(host) \in Nat /\ Top(host) = host[Len(host)]
        BY <1>2, HostShape DEF Top
      <4>2. i # Len(host)
        BY <1>1, <4>1, UnwindingKinds
      <4>3. i + 1 \in 1..Len(host) /\ (i + 1) - 1 = i
        BY <4>1, <4>2
      <4>4. host[i + 1].k \in RunKinds
        BY <1>2, <4>3, HostShape, UnwindingKinds
      <4>5. host[i + 1].n < d
        BY <1>2, <4>3, <4>4, HostShape
      <4> QED
        BY <4>2, <4>5 DEF Ceil
    <3> QED
      BY <3>1, <3>2
  <2> QED
    BY <1>2, <1>4, <2>1, <2>2
<1>8. BottomInv(host, frames', deferStack, mode)
  <2>1. 1 \in 1..d
    BY <1>2
  <2>2. mode = "tidy" => frames[1].base = 0
    BY <1>2 DEF UInv, BottomInv
  <2>3. mode = "tidy" => frames'[1].base = 0
    BY <1>3, <2>1, <2>2 DEF SameFrames
  <2>4. Len(frames') = Len(frames)
    BY <1>3 DEF d
  <2> QED
    BY <1>1, <2>3, <2>4 DEF UInv, BottomInv
<1> QED
  BY <1>1, <1>3, <1>6, <1>7, <1>8 DEF UInv

\* The instructions that run defers first.
LEMMA UStartDefers ==
    ASSUME NEW mode, IInv, UInv(mode), IInv', exc' # "interrupt",
           EndScope \/ Break \/ Return \/ TailCall
    PROVE  UInv(mode)'
<1>1. Running /\ host # <<>> /\ Top(host).k \in RunKinds
  BY RunningFacts DEF EndScope, Break, Return, TailCall
<1>2. /\ frames \in Seq(GoodFrame) /\ frames' \in Seq(GoodFrame)
      /\ frames # <<>>
      /\ Len(frames) \in Nat \ {0}
      /\ Cur.scopes \in GoodScopes
      /\ Len(Cur.scopes) \in Nat \ {0}
      /\ Cur.base \in Nat
      /\ Cur = frames[Len(frames)]
  BY <1>1, FrameFacts DEF IInv, Cur, Top
<1>3. UNCHANGED frames => SameFrames(frames, frames', Len(frames))
  BY DEF SameFrames
<1>4. ASSUME NEW k \in {"endScope", "break", "return", "tail"}, NEW n \in Nat,
             host' = Append(host, Host(k, n)),
             NEW m \in 0..Len(handlers), handlers' = Cut(handlers, m),
             Len(frames') = Len(frames), SameFrames(frames, frames', Len(frames)),
             mode = "tidy" /\ k = "return" /\ Len(frames) = 1 => n = 0
      PROVE  UInv(mode)'
  <2>1. k \in RunKinds \cup LoopKinds \cup OpKinds /\ k \notin {"execute", "execInt", "execErr", "catch"}
    BY DEF LoopKinds, OpKinds
  <2>2. Host(k, n) \in HostRec /\ Host(k, n).k = k /\ Host(k, n).n = n
    BY <2>1, HostType
  <2> QED
    BY <1>1, <1>4, <2>1, <2>2, UStartLoop
<1>5. CASE EndScope
  <2>1. CompiledDefers(1) \in Nat
    BY <1>2, CompiledDefersType
  <2>2. /\ host' = Append(host, Host("endScope", CompiledDefers(1)))
        /\ UNCHANGED <<frames, handlers>>
    BY <1>5 DEF EndScope
  <2> QED
    BY <1>3, <1>4, <2>1, <2>2, HandlersBelow
<1>6. CASE Break
  <2>1. PICK j \in 1..2 :
          /\ j < Len(Cur.scopes)
          /\ handlers' = Cut(handlers, IF TriesIn(j) <= Len(handlers)
                                       THEN Len(handlers) - TriesIn(j) ELSE 0)
          /\ host' = Append(host, Host("break", CompiledDefers(j)))
          /\ SetScopes(Cut(Cur.scopes, Len(Cur.scopes) - j))
    BY <1>6 DEF Break
  <2>2. CompiledDefers(j) \in Nat
    <3>1. j \in 1..Len(Cur.scopes)
      BY <1>2, <2>1
    <3> QED
      BY <1>2, <3>1, CompiledDefersType
  <2>3. PICK m \in 0..Len(handlers) : handlers' = Cut(handlers, m)
    <3>1. TriesIn(j) \in Nat
      BY DEF TriesIn
    <3>2. (IF TriesIn(j) <= Len(handlers) THEN Len(handlers) - TriesIn(j) ELSE 0)
            \in 0..Len(handlers)
      BY <3>1, HandlersBelow
    <3> QED
      BY <2>1, <3>2
  <2>4. Len(frames') = Len(frames) /\ SameFrames(frames, frames', Len(frames))
    <3>1. SameFrames(frames, frames', Len(frames))
      BY <1>2, <2>1, MoveTopSame DEF SetScopes
    <3>2. DOMAIN frames' = 1..Len(frames)
      BY <1>2, <2>1, LenProperties DEF SetScopes
    <3> QED
      BY <1>2, <3>1, <3>2, LenProperties
  <2> QED
    BY <1>4, <2>1, <2>2, <2>3, <2>4
<1>7. CASE Return
  <2>1. mode = "tidy" /\ Len(frames) = 1 => Cur.base = 0
    BY <1>2 DEF UInv, BottomInv
  <2>2. /\ host' = Append(host, Host("return", Cur.base))
        /\ UNCHANGED <<frames, handlers>>
    BY <1>7 DEF Return
  <2> QED
    BY <1>2, <1>3, <1>4, <2>1, <2>2, HandlersBelow
<1>8. CASE TailCall
  <2>1. /\ host' = Append(host, Host("tail", Cur.base))
        /\ UNCHANGED <<frames, handlers>>
    BY <1>8 DEF TailCall
  <2> QED
    BY <1>2, <1>3, <1>4, <2>1, HandlersBelow
<1> QED
  BY <1>5, <1>6, <1>7, <1>8

\* An exception finds a handler: it was the last, so no other is above it.
LEMMA UCatchInRun ==
    ASSUME NEW mode, IInv, UInv(mode), IInv', CatchInRun
    PROVE  UInv(mode)'
<1> DEFINE h == Top(handlers)
           r == [k |-> "catch", n |-> h.base, h |-> h]
           l == Len(handlers)
<1>1. /\ host # <<>>
      /\ Top(host).k \in RunKinds
      /\ handlers # <<>>
      /\ handlers \in Seq(GoodHandler)
      /\ handlers' = Pop(handlers)
      /\ host' = Append(host, r)
      /\ exc' = "none"
      /\ UNCHANGED frames
  BY DEF CatchInRun, Raised, HandlerHere, IInv
<1>2. l \in Nat \ {0} /\ h = handlers[l] /\ h \in GoodHandler
  BY <1>1, TopType DEF Top
<1>3. handlers' = Cut(handlers, l - 1) /\ l - 1 \in 0..l
  BY <1>1, <1>2 DEF Pop, Cut
<1>4. \A j \in 1..(l - 1) : handlers[j].frame <= h.frame
  BY <1>2 DEF UInv, LiveHandlers
<1>5. r \in HostRec
  <2>1. h \in Handler /\ h.base \in Nat
    <3> HIDE DEF h
    <3> QED
      BY <1>2, GoodHandlerType DEF GoodHandler
  <2>2. "catch" \in RunKinds \cup LoopKinds \cup OpKinds
    BY DEF LoopKinds
  <2> HIDE DEF h
  <2> QED
    BY <2>1, <2>2 DEF HostRec
<1>6. Len(frames') = Len(frames) /\ SameFrames(frames, frames', Len(frames))
  BY <1>1 DEF SameFrames
<1>7. r.k = "catch" /\ r.h = h
  OBVIOUS
<1> HIDE DEF h, r
<1> QED
  BY <1>1, <1>3, <1>4, <1>5, <1>6, <1>7, UStartLoop

\* No handler is there: execute() starts to run the defers.
LEMMA ULeaveExecute ==
    ASSUME NEW mode, IInv, UInv(mode), IInv', LeaveExecute
    PROVE  UInv(mode)'
<1>1. /\ host # <<>>
      /\ Top(host).k = "execute"
      /\ Top(host).k \in RunKinds
      /\ exc' = "none"
      /\ UNCHANGED <<frames, deferStack>>
      /\ host' = Append(host, Host("execErr", frames[Top(host).n + 1].base))
  BY DEF LeaveExecute, Raised, UInv, RunKinds
<1>2. PICK i \in 0..Len(handlers) : PopHandlers(i, Top(host).n)
  BY DEF LeaveExecute
<1>3. /\ Top(host).n \in Nat /\ handlers \in Seq(GoodHandler)
      /\ Len(frames) \in Nat \ {0} /\ frames # <<>>
  BY <1>1, FrameFacts DEF IInv
<1>4. handlers' = Cut(handlers, i) /\ \A j \in 1..i : handlers[j].frame <= Top(host).n
  BY <1>2, <1>3, PopsAbove DEF UInv
<1>5. Top(host).n = 0
  <2>1. Len(host) \in 1..Len(host) /\ Top(host) = host[Len(host)]
    BY <1>1, HandlersBelow, TopType DEF Top, HostInv
  <2>2. Len(host) = 1
    BY <1>1, <2>1 DEF UInv, BottomInv, BottomRec
  <2> QED
    BY <1>1, <2>1, <2>2 DEF IInv, HostInv
<1>6. mode = "tidy" => frames[Top(host).n + 1].base = 0
  BY <1>3, <1>5 DEF UInv, BottomInv
<1>7. "execErr" \in RunKinds \cup LoopKinds \cup OpKinds
  BY DEF LoopKinds
<1>8. LET r == Host("execErr", frames[Top(host).n + 1].base)
      IN  r \in HostRec /\ r.k = "execErr" /\ r.n = frames[Top(host).n + 1].base
  <2>1. Top(host).n + 1 \in 1..Len(frames)
    BY <1>3, <1>5
  <2>2. frames \in Seq(GoodFrame)
    BY DEF IInv
  <2>3. frames[Top(host).n + 1] \in GoodFrame
    BY <2>1, <2>2, ElementOfSeq
  <2>4. frames[Top(host).n + 1].base \in Nat
    BY <2>3 DEF GoodFrame
  <2> QED
    BY <1>7, <2>4, HostType
<1>9. Len(frames') = Len(frames) /\ SameFrames(frames, frames', Len(frames))
  BY <1>1 DEF SameFrames
<1> QED
  BY <1>1, <1>4, <1>6, <1>8, <1>9, UStartLoop

\* Calls into a nested interpreter loop.
LEMMA UNested ==
    ASSUME NEW mode, IInv, UInv(mode), IInv', exc' # "interrupt",
           CallNative \/ LoopPopDefer \/ OpPopDefer
    PROVE  UInv(mode)'
<1> DEFINE l == Len(host)
<1>1. /\ host # <<>>
      /\ frames \in Seq(GoodFrame)
      /\ deferStack \in Seq(Nat)
      /\ nextAct \in Nat
      /\ Len(frames) \in Nat \ {0}
      /\ HostInv(host, Len(frames))
      /\ l \in Nat \ {0}
      /\ Top(host) = host[l]
      /\ Top(host).n \in Nat
  <2>1. host # <<>>
    BY DEF CallNative, Running, LoopPopDefer, OpPopDefer, At
  <2> QED
    BY <2>1, FrameFacts, HandlersBelow, TopType DEF IInv, HostInv, Top
<1>2. ASSUME NEW ds \in Seq(Nat), PushFrame(frames, ds), UNCHANGED handlers,
             NEW ho1 \in Seq(HostRec), Len(ho1) = l,
             \A i \in 1..l : ho1[i].k = host[i].k /\ ho1[i].h = host[i].h
                             /\ (host[i].k \notin OpKinds => ho1[i].n = host[i].n),
             NEW k \in {"callVM", "callSwallow"},
             host' = Append(ho1, Host(k, Len(frames)))
      PROVE  UInv(mode)'
  <2>1. k \in RunKinds /\ k \notin {"execute", "execErr", "return", "execInt"}
    BY DEF RunKinds
  <2>2. /\ Host(k, Len(frames)) \in HostRec
        /\ Host(k, Len(frames)).k = k
        /\ Host(k, Len(frames)).n = Len(frames)
    BY <1>1, <2>1, HostType
  <2>3. /\ Len(host') = l + 1
        /\ host'[l + 1] = Host(k, Len(frames))
        /\ SamePlaces(host, Len(frames), host', Len(frames'), l)
    BY ZenonT(60), <1>1, <1>2, <2>1, <2>2, PlacesPushRun
  <2>4. Len(frames') = Len(frames) + 1 /\ SameFrames(frames, frames', Len(frames))
    BY <1>1, <1>2, PushFrameType, PushFrameSame
  <2> HIDE DEF l
  <2>5. BottomRec(host', l + 1, Len(frames'), mode) /\ host'[l + 1].k \notin Unwinding
    <3>1. host'[l + 1].k = k /\ l + 1 # 1
      BY <1>1, <2>2, <2>3
    <3> QED
      BY <2>1, <3>1, UnwindingKinds DEF BottomRec
  <2>6. l \in 0..l /\ Len(host') \in {l, l + 1} /\ Len(host') # 0
        /\ Len(frames) <= Len(frames') /\ Len(frames) # 0
    BY <1>1, <2>3, <2>4
  <2>7. host' # <<>>
    BY <2>6
  <2>8. l \in 0..Len(host)
    BY <2>6 DEF l
  <2>9. Len(host') = l + 1 =>
             /\ BottomRec(host', l + 1, Len(frames'), mode)
             /\ host'[l + 1].k \in Unwinding =>
                  \A j \in 1..Len(handlers) : handlers[j].frame <= Floor(host', l + 1)
    BY <2>5
  <2>10. handlers' = Cut(handlers, Len(handlers))
    BY <1>2, HandlersBelow
  <2> QED
    BY <2>3, <2>4, <2>6, <2>7, <2>8, <2>9, <2>10, HandlersBelow, UStep
<1>3. CASE CallNative
  <2>1. PICK k \in {"callVM", "callSwallow"} : host' = Append(host, Host(k, Len(frames)))
    BY <1>3 DEF CallNative
  <2>2. PushFrame(frames, deferStack) /\ UNCHANGED handlers
    BY <1>3 DEF CallNative
  <2> QED
    BY <1>1, <1>2, <2>1, <2>2 DEF HostInv
<1>4. ASSUME NEW n \in Nat, PopDefer(n), deferStack # <<>>,
             host[l].k \notin OpKinds => n = host[l].n
      PROVE  UInv(mode)'
  <2> DEFINE ho1 == [host EXCEPT ![Len(host)].n = n]
             r == [Top(host) EXCEPT !.n = n]
  <2>1. Pop(deferStack) \in Seq(Nat)
    BY <1>1, <1>4, PopType
  <2>2. Top(host) \in HostRec
    BY <1>1, TopType DEF HostInv
  <2>3. r \in HostRec /\ r.k = Top(host).k /\ r.h = Top(host).h /\ r.n = n
    BY <2>2 DEF HostRec
  <2>4. ho1 = [host EXCEPT ![l] = r]
    BY <1>1
  <2>5. /\ ho1 \in Seq(HostRec)
        /\ Len(ho1) = l
        /\ \A j \in 1..l : ho1[j] = IF j = l THEN r ELSE host[j]
    <3>1. l \in 1..Len(host) /\ host \in Seq(HostRec)
      BY <1>1 DEF HostInv
    <3> HIDE DEF ho1, r
    <3> QED
      BY <2>3, <2>4, <3>1, ExceptSeq
  <2> HIDE DEF ho1, r
  <2>6. \A i \in 1..l : ho1[i].k = host[i].k /\ ho1[i].h = host[i].h
                        /\ (host[i].k \notin OpKinds => ho1[i].n = host[i].n)
    BY <1>1, <1>4, <2>3, <2>5
  <2>7. /\ PushFrame(frames, Pop(deferStack))
        /\ host' = Append(ho1, Host("callVM", Len(frames)))
        /\ UNCHANGED handlers
    BY <1>4 DEF PopDefer, ho1
  <2> HIDE DEF l
  <2> QED
    BY <1>2, <2>1, <2>5, <2>6, <2>7
<1>5. CASE LoopPopDefer
  <2>1. deferStack # <<>>
    <3>1. Len(deferStack) > Top(host).n
      BY <1>5 DEF LoopPopDefer
    <3>2. Len(deferStack) # 0
      BY <1>1, <3>1, LenProperties
    <3> QED
      BY <3>2
  <2> QED
    BY <1>1, <1>4, <1>5, <2>1 DEF LoopPopDefer
<1>6. CASE OpPopDefer
  <2>1. host[l].k \in OpKinds /\ Top(host).n - 1 \in Nat /\ deferStack # <<>>
    BY <1>1, <1>6 DEF OpPopDefer, At
  <2> QED
    BY <1>4, <1>6, <2>1 DEF OpPopDefer
<1> QED
  BY <1>3, <1>5, <1>6

\* What is known when the innermost loop has ended or is left.
LEMMA ULoopFacts ==
    ASSUME NEW mode, IInv, UInv(mode), host # <<>>, Top(host).k \notin RunKinds
    PROVE  /\ frames \in Seq(GoodFrame)
           /\ frames # <<>>
           /\ Len(frames) \in Nat \ {0}
           /\ handlers \in Seq(GoodHandler)
           /\ Len(Pop(host)) = Len(host) - 1
           /\ Len(Pop(host)) \in Nat \ {0}
           /\ Pop(host) # <<>>
           /\ HostInv(Pop(host), Len(frames))
           /\ Top(Pop(host)) = host[Len(host) - 1]
           /\ Top(Pop(host)).n \in Nat
           /\ Top(Pop(host)).n < Len(frames)
           /\ Len(Pop(Pop(host))) = Len(host) - 2
           /\ \A e : SamePlaces(host, Len(frames), Pop(host), e, Len(host) - 1)
           /\ SamePlaces(host, Len(frames), Pop(Pop(host)), Top(Pop(host)).n, Len(host) - 2)
<1>1. /\ frames \in Seq(GoodFrame)
      /\ frames # <<>>
      /\ Len(frames) \in Nat \ {0}
      /\ handlers \in Seq(GoodHandler)
      /\ host \in Seq(HostRec)
      /\ HostInv(host, Len(frames))
      /\ Len(host) \in Nat
  BY FrameFacts, HandlersBelow DEF IInv, HostInv
<1>2. /\ HostInv(Pop(host), Len(frames))
      /\ Pop(host) # <<>>
      /\ Top(Pop(host)).n \in Nat
      /\ Top(Pop(host)).n < Len(frames)
  BY LoopFacts
<1>3. /\ Len(Pop(host)) = Len(host) - 1
      /\ \A e : SamePlaces(host, Len(frames), Pop(host), e, Len(host) - 1)
  BY <1>1, PlacesPopLoop
<1>4. Len(Pop(host)) \in Nat \ {0}
  BY <1>2, TopType DEF HostInv
<1>5. Top(Pop(host)) = host[Len(host) - 1]
  <2>1. \A i \in 1..(Len(host) - 1) : Pop(host)[i] = host[i]
    BY <1>1, PopType
  <2> QED
    BY <1>3, <1>4, <2>1 DEF Top
<1>6. /\ Len(Pop(Pop(host))) = Len(Pop(host)) - 1
      /\ SamePlaces(Pop(host), Len(frames), Pop(Pop(host)), Top(Pop(host)).n, Len(Pop(Pop(host))))
  BY <1>1, <1>2, PlacesPopRun
<1>7. Len(Pop(Pop(host))) = Len(host) - 2
  BY <1>1, <1>3, <1>6
<1>8. SamePlaces(host, Len(frames), Pop(Pop(host)), Top(Pop(host)).n, Len(host) - 2)
  <2>1. Len(host) - 1 \in Nat /\ Len(host) - 2 \in 0..(Len(host) - 1)
    BY <1>1, <1>3, <1>4
  <2>2. SamePlaces(host, Len(frames), Pop(host), Len(frames), Len(host) - 1)
    BY <1>3
  <2>3. SamePlaces(Pop(host), Len(frames), Pop(Pop(host)), Top(Pop(host)).n, Len(host) - 2)
    BY <1>6, <1>7
  <2> HIDE DEF SamePlaces
  <2> QED
    BY <2>1, <2>2, <2>3, PlacesTrans
<1> QED
  BY <1>1, <1>2, <1>3, <1>4, <1>5, <1>7, <1>8

\* The innermost loop ends, and the run() below it goes on.
LEMMA UPopLoop ==
    ASSUME NEW mode, IInv, UInv(mode), IInv', exc' # "interrupt", host # <<>>, Top(host).k \notin RunKinds,
           host' = Pop(host),
           NEW n \in 0..Len(handlers), handlers' = Cut(handlers, n),
           NEW e \in 0..Len(frames), e <= Len(frames'), SameFrames(frames, frames', e),
           \A i \in 1..n : handlers[i].frame <= e,
           mode = "tidy" /\ e = 0 /\ frames' # <<>> => frames'[1].base = 0
    PROVE  UInv(mode)'
<1> DEFINE m == Len(host) - 1
<1>1. /\ SamePlaces(host, Len(frames), host', Len(frames'), m)
      /\ Len(host') = m
      /\ m \in Nat \ {0}
      /\ host' # <<>>
  BY ULoopFacts
<1>2. m \in 0..Len(host) /\ Len(host) \in Nat
  BY HandlersBelow, <1>1
<1> HIDE DEF m
<1>3. Len(host') \in {m, m + 1} /\ Len(host') # m + 1
  BY <1>1
<1> QED
  BY <1>1, <1>2, <1>3, UStep

\* The innermost loop ends, and the run() below it with all its frames.
LEMMA UPopRun ==
    ASSUME NEW mode, IInv, UInv(mode), IInv', exc' # "interrupt", host # <<>>, Top(host).k \notin RunKinds,
           host' = Pop(Pop(host)),
           NEW n \in 0..Len(handlers), handlers' = Cut(handlers, n),
           Len(frames') = Top(Pop(host)).n,
           SameFrames(frames, frames', Len(frames')),
           \A i \in 1..n : handlers[i].frame <= Len(frames'),
           mode = "tidy" /\ host' = <<>> => deferStack' = <<>>
    PROVE  UInv(mode)'
<1> DEFINE m == Len(host) - 2
<1>1. /\ SamePlaces(host, Len(frames), host', Len(frames'), m)
      /\ Len(host') = m
      /\ m + 1 \in Nat \ {0}
      /\ Len(frames') < Len(frames)
      /\ Len(frames') \in Nat
      /\ Len(frames) \in Nat
  <2>1. /\ Len(frames) \in Nat
        /\ Len(Pop(host)) = Len(host) - 1
        /\ Len(Pop(host)) \in Nat \ {0}
        /\ Top(Pop(host)).n \in Nat
        /\ Top(Pop(host)).n < Len(frames)
        /\ Len(Pop(Pop(host))) = Len(host) - 2
        /\ SamePlaces(host, Len(frames), Pop(Pop(host)), Top(Pop(host)).n, Len(host) - 2)
    BY ULoopFacts
  <2>2. Len(host) \in Nat
    BY HandlersBelow
  <2>3. m + 1 \in Nat \ {0} /\ Len(host') = m
    BY <2>1, <2>2
  <2> HIDE DEF SamePlaces
  <2> QED
    BY <2>1, <2>3
<1>2. m \in 0..Len(host) /\ Len(host) \in Nat
  BY HandlersBelow, <1>1
<1> HIDE DEF m
<1>3. Len(host') \in {m, m + 1} /\ Len(host') # m + 1
  BY <1>1, <1>2
<1>4. Len(frames') \in 0..Len(frames) /\ Len(frames') <= Len(frames')
  BY <1>1
<1>5. Len(frames') = 0 => frames' = <<>>
  <2>1. frames' \in Seq(GoodFrame)
    BY DEF IInv
  <2> QED
    BY <2>1, EmptySeq
<1> QED
  BY <1>1, <1>2, <1>3, <1>4, <1>5, UStep

\* The end of a scope.
LEMMA UFinishEndScope ==
    ASSUME NEW mode, IInv, UInv(mode), IInv', FinishEndScope
    PROVE  UInv(mode)'
<1>1. host # <<>> /\ Top(host).k \notin RunKinds /\ UNCHANGED <<deferStack, exc>> /\ exc' # "interrupt"
  BY DEF FinishEndScope, Done, At, RunKinds, UInv
<1>2. /\ frames \in Seq(GoodFrame) /\ frames # <<>>
      /\ Len(frames) \in Nat \ {0}
      /\ Cur.base \in Nat
      /\ Cur = frames[Len(frames)]
      /\ handlers \in Seq(GoodHandler)
  BY <1>1, FrameFacts, ULoopFacts DEF Cur, Top
<1>3. CASE Len(Cur.scopes) = 1
  <2> DEFINE r == Host("return", Cur.base)
             m == Len(host) - 1
  <2>1. host' = Append(Pop(host), r) /\ UNCHANGED <<frames, handlers>>
    BY <1>3 DEF FinishEndScope
  <2>2. "return" \in RunKinds \cup LoopKinds \cup OpKinds
    BY DEF LoopKinds
  <2>3. r \in HostRec /\ r.k = "return" /\ r.n = Cur.base
    BY <1>2, <2>2, HostType
  <2>4. Top(Pop(host)).k \in RunKinds
    BY <1>1, LoopFacts
  <2>5. /\ Len(Pop(host)) = m /\ m \in Nat \ {0}
        /\ HostInv(Pop(host), Len(frames)) /\ Pop(host) # <<>>
        /\ SamePlaces(host, Len(frames), Pop(host), Len(frames), m)
    BY <1>1, ULoopFacts
  <2> HIDE DEF r, m
  <2>6. /\ Len(host') = m + 1
        /\ host'[m + 1] = r
        /\ SamePlaces(Pop(host), Len(frames), host', Len(frames), m)
    BY <1>2, <2>1, <2>3, <2>4, <2>5, PlacesPushLoop
  <2>7. SamePlaces(host, Len(frames), host', Len(frames'), m)
    <3>1. m \in 0..m /\ m \in Nat /\ Len(frames') = Len(frames)
      BY <2>1, <2>5
    <3> HIDE DEF SamePlaces
    <3> QED
      BY <2>5, <2>6, <3>1, PlacesTrans
  <2>8. BottomRec(host', m + 1, Len(frames'), mode) /\ host'[m + 1].k \notin Unwinding
    <3>1. mode = "tidy" /\ Len(frames) = 1 => Cur.base = 0
      BY <1>2 DEF UInv, BottomInv
    <3>2. m + 1 # 1
      BY <2>5
    <3> QED
      BY <2>1, <2>3, <2>6, <3>1, <3>2 DEF BottomRec, Ceil, Unwinding
  <2>9. m \in 0..Len(host) /\ Len(host') \in {m, m + 1} /\ Len(host') # 0
    BY <2>5, <2>6, HandlersBelow DEF m
  <2>10. host' # <<>>
    BY <2>9
  <2>11. SameFrames(frames, frames', Len(frames)) /\ Len(frames) <= Len(frames')
         /\ handlers' = Cut(handlers, Len(handlers))
    BY <1>2, <2>1, HandlersBelow DEF SameFrames
  <2>12. exc' # "interrupt"
    BY <1>1
  <2>13. Len(host') = m + 1 =>
             /\ BottomRec(host', m + 1, Len(frames'), mode)
             /\ host'[m + 1].k \in Unwinding =>
                  \A j \in 1..Len(handlers) : handlers[j].frame <= Floor(host', m + 1)
    BY <2>8
  <2> QED
    BY <1>2, <2>7, <2>9, <2>10, <2>11, <2>12, <2>13, HandlersBelow, UStep
<1>4. CASE Len(Cur.scopes) # 1
  <2>1. /\ host' = Pop(host)
        /\ SetScopes(Pop(Cur.scopes))
        /\ handlers' = IF CurScope.try /\ handlers # <<>> THEN Pop(handlers) ELSE handlers
    BY <1>4 DEF FinishEndScope
  <2>2. Len(frames') = Len(frames) /\ SameFrames(frames, frames', Len(frames))
    <3>1. SameFrames(frames, frames', Len(frames))
      BY <1>2, <2>1, MoveTopSame DEF SetScopes
    <3>2. DOMAIN frames' = 1..Len(frames) /\ frames' \in Seq(GoodFrame)
      BY <1>2, <2>1, LenProperties DEF SetScopes, IInv
    <3> QED
      BY <1>2, <3>1, <3>2, LenProperties
  <2>3. PICK n \in 0..Len(handlers) : handlers' = Cut(handlers, n)
    <3>1. handlers # <<>> => Pop(handlers) = Cut(handlers, Len(handlers) - 1)
                             /\ Len(handlers) - 1 \in 0..Len(handlers)
      BY <1>2, TopType DEF Pop, Cut
    <3> QED
      BY <2>1, <3>1, HandlersBelow
  <2>4. \A i \in 1..n : handlers[i].frame <= Len(frames)
    BY HandlersBelow
  <2> QED
    BY <1>1, <1>2, <2>1, <2>2, <2>3, <2>4, HandlersBelow, UPopLoop
<1> QED
  BY <1>3, <1>4

\* RETURN drops the handlers of its frame with it.
LEMMA UFinishReturn ==
    ASSUME NEW mode, IInv, UInv(mode), IInv', FinishReturn
    PROVE  UInv(mode)'
<1>1. /\ host # <<>> /\ Top(host).k = "return" /\ Top(host).k \notin RunKinds
      /\ exc' # "interrupt"
      /\ frames' = Pop(frames)
      /\ UNCHANGED deferStack
      /\ Len(deferStack) <= Top(host).n
  BY DEF FinishReturn, DropFrame, Done, At, RunKinds, UInv, OpKinds
<1>2. /\ frames \in Seq(GoodFrame) /\ frames # <<>>
      /\ Len(frames) \in Nat \ {0}
      /\ handlers \in Seq(GoodHandler)
      /\ Top(Pop(host)).n \in Nat
      /\ Top(Pop(host)).n < Len(frames)
      /\ Len(host) \in Nat /\ Len(host) - 1 \in Nat \ {0}
      /\ Top(Pop(host)) = host[Len(host) - 1]
  BY <1>1, ULoopFacts, HandlersBelow
<1>3. PICK n \in 0..Len(handlers) : PopHandlers(n, Len(frames) - 1)
  BY DEF FinishReturn, DropFrame
<1>4. handlers' = Cut(handlers, n) /\ \A j \in 1..n : handlers[j].frame <= Len(frames) - 1
  BY <1>2, <1>3, PopsAbove DEF UInv
<1>5. Len(frames') = Len(frames) - 1 /\ SameFrames(frames, frames', Len(frames'))
  BY ZenonT(60), <1>1, <1>2, PopType DEF SameFrames
<1>6. CASE Len(frames) - 1 <= Top(Pop(host)).n
  <2>1. host' = Pop(Pop(host)) /\ Len(frames') = Top(Pop(host)).n
    BY <1>2, <1>5, <1>6 DEF FinishReturn, DropFrame
  <2>2. ASSUME mode = "tidy", host' = <<>> PROVE deferStack' = <<>>
    <3>1. Len(host) = 2
      <4>1. Len(host') = 0 /\ Len(Pop(Pop(host))) = Len(host) - 2
        BY <1>1, <2>2, ULoopFacts
      <4> QED
        BY <1>2, <2>1, <4>1
    <3>2. Top(Pop(host)).n = 0
      <4>1. host # <<>> => host[1].n = 0
        BY DEF IInv, HostInv
      <4> QED
        BY <1>1, <1>2, <3>1, <4>1
    <3>3. Len(frames) = 1
      BY <1>2, <1>5, <2>1, <3>2
    <3>4. Top(host) = host[Len(host)] /\ Len(host) \in 1..Len(host)
      BY <3>1 DEF Top
    <3>5. Top(host).n = 0
      BY <1>1, <2>2, <3>3, <3>4 DEF UInv, BottomInv, BottomRec, Ceil
    <3>6. deferStack \in Seq(Nat)
      BY DEF IInv
    <3>7. Len(deferStack) = 0
      BY <1>1, <3>5, <3>6, LenProperties
    <3> QED
      BY <1>1, <3>6, <3>7, EmptySeq
  <2> QED
    BY <1>1, <1>4, <1>5, <2>1, <2>2, UPopRun
<1>7. CASE ~(Len(frames) - 1 <= Top(Pop(host)).n)
  <2>1. host' = Pop(host)
    BY <1>7 DEF FinishReturn, DropFrame
  <2>2. Len(frames') # 0 /\ Len(frames') \in 0..Len(frames) /\ Len(frames') <= Len(frames')
    BY <1>2, <1>5, <1>7
  <2> QED
    BY <1>1, <1>4, <1>5, <2>1, <2>2, UPopLoop
<1> QED
  BY <1>6, <1>7

\* A tail call of anything but bytecode does too; the frame must have no defers left
\* if it is to count as tidy.
LEMMA UTailCallNative ==
    ASSUME NEW mode, IInv, UInv(mode), IInv', TailCallNative,
           mode = "tidy" => Len(deferStack) <= Cur.base
    PROVE  UInv(mode)'
<1> DEFINE m == Len(host) - 1
<1>1. /\ host # <<>> /\ Top(host).k \in RunKinds
      /\ exc' # "interrupt"
      /\ frames' = Pop(frames)
      /\ host' = IF Len(frames) - 1 <= Top(host).n THEN Pop(host) ELSE host
      /\ UNCHANGED deferStack
  BY RunningFacts DEF TailCallNative, DropFrame, UInv
<1>2. /\ frames \in Seq(GoodFrame) /\ frames # <<>>
      /\ Len(frames) \in Nat \ {0}
      /\ handlers \in Seq(GoodHandler)
      /\ HostInv(host, Len(frames))
      /\ Top(host).n \in Nat
      /\ Top(host).n < Len(frames)
      /\ Len(host) \in Nat \ {0}
      /\ Top(host) = host[Len(host)]
      /\ Cur = frames[Len(frames)]
  BY SMTT(30), <1>1, FrameFacts, HostPopRun, HandlersBelow, TopType DEF Top, HostInv, IInv, Cur
<1>3. PICK n \in 0..Len(handlers) : PopHandlers(n, Len(frames) - 1)
  BY DEF TailCallNative, DropFrame
<1>4. handlers' = Cut(handlers, n) /\ \A j \in 1..n : handlers[j].frame <= Len(frames) - 1
  BY <1>2, <1>3, PopsAbove DEF UInv
<1>5. Len(frames') = Len(frames) - 1 /\ SameFrames(frames, frames', Len(frames'))
  BY <1>1, <1>2, PopType DEF SameFrames
<1>6. Len(frames') \in 0..Len(frames) /\ Len(frames') <= Len(frames')
  BY <1>2, <1>5
<1>7. Len(frames') = 0 => frames' = <<>>
  <2>1. frames' \in Seq(GoodFrame)
    BY DEF IInv
  <2> QED
    BY <2>1, EmptySeq
<1>8. \A i \in 1..n : handlers[i].frame <= Len(frames')
  BY <1>4, <1>5
<1>9. CASE Len(frames) - 1 <= Top(host).n
  <2>1. host' = Pop(host) /\ Len(frames') = Top(host).n
    BY <1>1, <1>2, <1>5, <1>9
  <2>2. SamePlaces(host, Len(frames), host', Len(frames'), m) /\ Len(host') = m
    BY <1>1, <1>2, <2>1, PlacesPopRun
  <2>3. ASSUME mode = "tidy", host' = <<>> PROVE deferStack' = <<>>
    <3>1. Len(host) = 1
      BY <1>2, <2>2, <2>3
    <3>2. Top(host).n = 0
      BY <1>1, <1>2, <3>1 DEF HostInv
    <3>3. Cur.base = 0
      <4>1. Len(frames) = 1
        BY <1>2, <1>5, <2>1, <3>2
      <4> QED
        BY <1>2, <2>3, <4>1 DEF UInv, BottomInv
    <3>4. deferStack \in Seq(Nat)
      BY DEF IInv
    <3>5. Len(deferStack) = 0
      BY <2>3, <3>3, <3>4, LenProperties
    <3> QED
      BY <1>1, <3>4, <3>5, EmptySeq
  <2>4. m \in 0..Len(host)
    BY <1>2
  <2> HIDE DEF m
  <2>5. Len(host') \in {m, m + 1} /\ Len(host') # m + 1
    BY <2>2, <2>4
  <2> QED
    BY <1>1, <1>4, <1>5, <1>6, <1>7, <1>8, <2>2, <2>3, <2>4, <2>5, UStep
<1>10. CASE ~(Len(frames) - 1 <= Top(host).n)
  <2>1. host' = host /\ Top(host).n < Len(frames')
    BY <1>1, <1>2, <1>5, <1>10
  <2>2. SamePlaces(host, Len(frames), host', Len(frames'), Len(host))
    BY <1>1, <2>1, HandlersBelow, PlacesDepth
  <2>3. /\ Len(host) \in 0..Len(host)
        /\ Len(host') \in {Len(host), Len(host) + 1} /\ Len(host') # Len(host) + 1
        /\ host' # <<>>
    BY <1>1, <1>2, <2>1
  <2> QED
    BY <1>1, <1>4, <1>5, <1>6, <1>7, <1>8, <2>2, <2>3, UStep
<1> QED
  BY <1>9, <1>10

\* A tail call of bytecode hands the frame to another activation, without handlers.
LEMMA UFinishTail ==
    ASSUME NEW mode, IInv, UInv(mode), IInv', FinishTail
    PROVE  UInv(mode)'
<1> DEFINE d == Len(frames)
<1>1. /\ host # <<>> /\ Top(host).k \notin RunKinds
      /\ exc' # "interrupt"
      /\ frames' = [frames EXCEPT ![d] = NewFrame(Cur.base)]
      /\ host' = Pop(host)
  BY DEF FinishTail, Done, At, RunKinds, UInv
<1>2. /\ frames \in Seq(GoodFrame) /\ frames # <<>>
      /\ d \in Nat \ {0}
      /\ Cur = frames[d]
      /\ Cur.base \in Nat
  BY <1>1, FrameFacts, ULoopFacts DEF Cur, Top
<1>3. PICK n \in 0..Len(handlers) : PopHandlers(n, d - 1)
  BY DEF FinishTail
<1>4. handlers' = Cut(handlers, n) /\ \A j \in 1..n : handlers[j].frame <= d - 1
  BY <1>2, <1>3, PopsAbove DEF UInv, IInv
<1>5. /\ Len(frames') = d
      /\ \A i \in 1..d : frames'[i] = IF i = d THEN NewFrame(Cur.base) ELSE frames[i]
  <2>1. NewFrame(Cur.base) \in GoodFrame
    BY <1>2, NewFrameType DEF IInv
  <2>2. d \in 1..Len(frames)
    BY <1>2
  <2> QED
    BY <1>1, <1>2, <2>1, <2>2, ExceptSeq
<1> HIDE DEF d
<1>6. SameFrames(frames, frames', d - 1)
  <2>1. \A i \in 1..(d - 1) : i \in 1..d /\ i # d
    BY <1>2
  <2> QED
    BY <1>5, <2>1 DEF SameFrames
<1>7. mode = "tidy" /\ d - 1 = 0 => frames'[1].base = 0
  <2>1. mode = "tidy" /\ d = 1 => frames'[1].base = Cur.base /\ Cur.base = 0
    BY <1>2, <1>5 DEF NewFrame, UInv, BottomInv
  <2> QED
    BY <1>2, <2>1
<1>8. d - 1 \in 0..Len(frames) /\ d - 1 <= Len(frames')
  BY <1>2, <1>5 DEF d
<1> QED
  BY <1>1, <1>4, <1>6, <1>7, <1>8, UPopLoop

\* RUN_DEFERS is done after a break, or an error leaves a loop.
LEMMA ULeaveLoop ==
    ASSUME NEW mode, IInv, UInv(mode), IInv', FinishBreak \/ RethrowFromDefers
    PROVE  UInv(mode)'
<1>1. /\ host # <<>> /\ Top(host).k \notin RunKinds
      /\ exc' # "interrupt"
      /\ host' = Pop(host)
      /\ UNCHANGED <<frames, handlers>>
  BY DEF FinishBreak, RethrowFromDefers, Raised, Done, At, RunKinds, OpKinds, UInv
<1>2. SameFrames(frames, frames', Len(frames)) /\ Len(frames) # 0
  BY <1>1, ULoopFacts DEF SameFrames
<1> QED
  BY <1>1, <1>2, HandlersBelow, UPopLoop

\* The frames above the handler's are dropped: no handler is left among them.
LEMMA UFinishCatch ==
    ASSUME NEW mode, IInv, UInv(mode), IInv', FinishCatch
    PROVE  UInv(mode)'
<1> DEFINE h == Top(host).h
           d == IF h.frame < Len(frames) THEN h.frame ELSE Len(frames)
           fs == Cut(frames, d)
           ss == Append(h.scopes, [try |-> FALSE, c |-> Top(h.scopes).c])
<1>1. /\ host # <<>> /\ Top(host).k = "catch" /\ Top(host).k \notin RunKinds
      /\ exc' # "interrupt"
      /\ host' = Pop(host)
      /\ frames' = [fs EXCEPT ![d].scopes = ss]
      /\ UNCHANGED <<handlers, deferStack>>
  BY DEF FinishCatch, Done, At, RunKinds, UInv
<1>2. /\ frames \in Seq(GoodFrame) /\ frames # <<>>
      /\ Len(frames) \in Nat \ {0}
      /\ handlers \in Seq(GoodHandler)
      /\ Len(host) \in Nat \ {0}
      /\ Top(host) = host[Len(host)]
  BY SMTT(30), <1>1, ULoopFacts, HandlersBelow, TopType DEF Top, HostInv
<1>3. h \in GoodHandler /\ h.frame \in Nat /\ h.frame > 0
  <2>1. HostRecInv(host, Len(host), Len(frames)) /\ host[Len(host)].k = "catch"
    BY SMTT(30), <1>1, <1>2, HandlersBelow DEF HostInv
  <2>2. h \in GoodHandler /\ host[Len(host) - 1].n < h.frame
    BY <1>2, <2>1 DEF HostRecInv
  <2>3. host[Len(host) - 1].n \in Nat
    BY <1>1, ULoopFacts
  <2>4. h.frame \in Nat
    <3> HIDE DEF h
    <3> QED
      BY <2>2 DEF GoodHandler
  <2> HIDE DEF h
  <2> QED
    BY <2>2, <2>3, <2>4
<1>4. d \in 1..Len(frames) /\ (d = h.frame \/ d = Len(frames))
  <2> HIDE DEF h
  <2> QED
    BY <1>2, <1>3
<1>5. fs \in Seq(GoodFrame) /\ Len(fs) = d /\ \A i \in 1..d : fs[i] = frames[i]
  <2> HIDE DEF d
  <2> QED
    BY <1>2, <1>4, CutType
<1>6. frames' = [fs EXCEPT ![Len(fs)].scopes = ss]
  BY <1>1, <1>5
<1>7. SameFrames(fs, frames', d) /\ Len(frames') = d
  <2> HIDE DEF fs, d, ss
  <2>1. fs # <<>>
    BY <1>4, <1>5
  <2>2. SameFrames(fs, frames', Len(fs))
    BY <1>5, <1>6, <2>1, MoveTopSame
  <2>3. DOMAIN frames' = 1..Len(fs) /\ frames' \in Seq(GoodFrame)
    BY <1>5, <1>6, LenProperties DEF IInv
  <2>4. Len(fs) \in Nat
    BY <1>5, LenProperties
  <2> QED
    BY <1>5, <2>2, <2>3, <2>4, LenProperties
<1>8. SameFrames(frames, frames', d)
  <2> HIDE DEF fs, d
  <2> QED
    BY <1>5, <1>7 DEF SameFrames
<1>9. \A j \in 1..Len(handlers) : handlers[j].frame <= d
  <2>1. \A j \in 1..Len(handlers) : handlers[j].frame <= Len(frames)
    BY HandlersBelow
  <2>2. CASE d = h.frame
    <3>1. Len(host) \in 1..Len(host) /\ host[Len(host)].k \in Unwinding
      BY SMTT(30), <1>1, <1>2 DEF Unwinding
    <3>2. Floor(host, Len(host)) = h.frame /\ Ceil(host, Len(host), Len(frames)) = Len(frames)
      BY <1>1, <1>2 DEF Floor, Ceil
    <3>3. \A j \in 1..Len(handlers) :
             handlers[j].frame <= h.frame \/ Len(frames) < handlers[j].frame
      BY <3>1, <3>2 DEF UInv, ClearOfUnwinding
    <3>4. \A j \in 1..Len(handlers) : handlers[j].frame \in 1..Len(frames)
      BY DEF UInv, LiveHandlers
    <3> HIDE DEF h, d
    <3> QED
      BY <1>2, <2>2, <3>3, <3>4
  <2>3. CASE d = Len(frames)
    BY <2>1, <2>3
  <2> QED
    BY <1>4, <2>2, <2>3
<1>10. d # 0 /\ d \in 0..Len(frames) /\ d <= Len(frames')
  <2> HIDE DEF d
  <2> QED
    BY <1>2, <1>4, <1>7
<1> HIDE DEF d, fs, ss, h
<1> QED
  BY <1>1, <1>8, <1>9, <1>10, HandlersBelow, UPopLoop

\* execute() gives up: it has dropped all handlers, and no defer is left.
LEMMA UFinishExecute ==
    ASSUME NEW mode, IInv, UInv(mode), IInv', FinishExecute
    PROVE  UInv(mode)'
<1> DEFINE n == Top(Pop(host)).n
<1>1. /\ host # <<>> /\ Top(host).k \in {"execErr", "execInt"}
      /\ Top(host).k \notin RunKinds
      /\ exc' # "interrupt"
      /\ frames' = Cut(frames, n)
      /\ host' = Pop(Pop(host))
      /\ UNCHANGED <<handlers, deferStack>>
      /\ Len(deferStack) <= Top(host).n
  BY DEF FinishExecute, Done, At, RunKinds, OpKinds, UInv
<1>2. /\ frames \in Seq(GoodFrame)
      /\ Len(frames) \in Nat \ {0}
      /\ handlers \in Seq(GoodHandler)
      /\ n \in Nat /\ n < Len(frames)
      /\ n = host[Len(host) - 1].n
      /\ Len(host) \in Nat \ {0}
      /\ Top(host) = host[Len(host)]
  BY <1>1, ULoopFacts, HandlersBelow, TopType DEF Top, HostInv
<1>3. Len(frames') = n /\ SameFrames(frames, frames', n)
  <2>1. n \in 0..Len(frames)
    BY <1>2
  <2> QED
    BY <1>1, <1>2, <2>1, CutType, CutSame
<1>4. \A j \in 1..Len(handlers) : handlers[j].frame <= n
  <2>1. Len(host) \in 1..Len(host) /\ host[Len(host)].k \in Unwinding
    BY <1>1, <1>2 DEF Unwinding
  <2>2. Floor(host, Len(host)) = n /\ Ceil(host, Len(host), Len(frames)) = Len(frames)
    BY <1>1, <1>2 DEF Floor, Ceil
  <2>3. \A j \in 1..Len(handlers) : handlers[j].frame <= n \/ Len(frames) < handlers[j].frame
    BY <2>1, <2>2 DEF UInv, ClearOfUnwinding
  <2>4. \A j \in 1..Len(handlers) : handlers[j].frame \in 1..Len(frames)
    BY DEF UInv, LiveHandlers
  <2> HIDE DEF n
  <2> QED
    BY <1>2, <2>3, <2>4
<1>5. mode = "tidy" => deferStack' = <<>>
  <2> SUFFICES ASSUME mode = "tidy" PROVE deferStack' = <<>>
    OBVIOUS
  <2>1. Len(host) \in 1..Len(host)
    BY <1>2
  <2>2. Top(host).n = 0
    BY <1>1, <1>2, <2>1 DEF UInv, BottomInv, BottomRec
  <2>3. deferStack \in Seq(Nat)
    BY DEF IInv
  <2>4. Len(deferStack) = 0
    BY <1>1, <2>2, <2>3, LenProperties
  <2> QED
    BY <1>1, <2>3, <2>4, EmptySeq
<1> QED
  BY <1>1, <1>3, <1>4, <1>5, HandlersBelow, UPopRun

\* An exception leaves callVMFunction: no handler is above its frames.
LEMMA ULeaveCallVM ==
    ASSUME NEW mode, IInv, UInv(mode), IInv', LeaveCallVM
    PROVE  UInv(mode)'
<1> DEFINE n == Top(host).n
           m == Len(host) - 1
<1>1. /\ host # <<>> /\ Top(host).k \in {"callVM", "callSwallow"}
      /\ Top(host).k \in RunKinds
      /\ exc' # "interrupt"
      /\ frames' = Cut(frames, n)
      /\ host' = Pop(host)
      /\ UNCHANGED <<handlers, deferStack>>
      /\ ~HandlerHere
  BY DEF LeaveCallVM, Raised, Escapes, RunKinds, UInv
<1>2. /\ frames \in Seq(GoodFrame)
      /\ Len(frames) \in Nat \ {0}
      /\ handlers \in Seq(GoodHandler)
      /\ HostInv(host, Len(frames))
      /\ n \in Nat /\ n < Len(frames)
      /\ Len(host) \in Nat \ {0}
      /\ Top(host) = host[Len(host)]
  <2>1. /\ frames \in Seq(GoodFrame)
        /\ handlers \in Seq(GoodHandler)
        /\ HostInv(host, Len(frames))
    BY DEF IInv
  <2>2. Len(frames) \in Nat \ {0}
    BY <1>1, FrameFacts
  <2>3. n \in Nat /\ n < Len(frames)
    <3>1. Len(frames) \in Nat
      BY <2>2
    <3> QED
      BY <1>1, <2>1, <3>1, HostPopRun
  <2>4. Len(host) \in Nat \ {0}
    <3>1. host \in Seq(HostRec)
      BY <2>1 DEF HostInv
    <3> QED
      BY <1>1, <3>1, TopType
  <2>5. Top(host) = host[Len(host)]
    BY DEF Top
  <2> QED
    BY <2>1, <2>2, <2>3, <2>4, <2>5
<1>3. n \in 0..Len(frames)
  BY <1>2
<1>4. Len(frames') = n /\ SameFrames(frames, frames', n)
  BY <1>1, <1>2, <1>3, CutType, CutSame
<1>5. \A j \in 1..Len(handlers) : handlers[j].frame <= n
  <2> SUFFICES ASSUME NEW j \in 1..Len(handlers) PROVE handlers[j].frame <= n
    OBVIOUS
  <2>1. Len(handlers) \in Nat \ {0} /\ Len(handlers) \in 1..Len(handlers)
    BY HandlersBelow
  <2>2. handlers # <<>> /\ Top(handlers) = handlers[Len(handlers)]
    BY <2>1 DEF Top
  <2>3. ~(handlers[Len(handlers)].frame > n)
    BY <1>1, <2>2 DEF HandlerHere
  <2>4. /\ handlers[j].frame <= handlers[Len(handlers)].frame
        /\ handlers[j].frame \in 1..Len(frames)
        /\ handlers[Len(handlers)].frame \in 1..Len(frames)
    BY <2>1 DEF UInv, LiveHandlers
  <2> HIDE DEF n
  <2> QED
    BY <1>2, <2>3, <2>4
<1>6. Len(host) # 1
  <2>1. Len(host) = 1 => host[1].k = "execute"
    BY <1>2 DEF UInv, BottomInv, BottomRec
  <2> QED
    BY <1>1, <1>2, <2>1
<1>7. /\ SamePlaces(host, Len(frames), host', n, m)
      /\ Len(host') = m
      /\ m \in Nat \ {0}
  BY <1>1, <1>2, <1>6, PlacesPopRun
<1>8. m \in 0..Len(host)
  BY <1>2
<1> HIDE DEF m, n
<1>9. Len(host') \in {m, m + 1} /\ Len(host') # m + 1 /\ Len(host') # 0
  BY <1>7
<1>10. host' # <<>>
  BY <1>9
<1>11. n = 0 => frames' = <<>>
  <2>1. frames' \in Seq(GoodFrame)
    BY DEF IInv
  <2> QED
    BY <1>4, <2>1, EmptySeq
<1>12. n <= Len(frames')
  BY <1>2, <1>4
<1> QED
  BY <1>1, <1>3, <1>4, <1>5, <1>7, <1>8, <1>9, <1>10, <1>11, <1>12, HandlersBelow, UStep

\* A loop that has an error to attach others to goes on; one that has not is
\* never reached without an interrupt.
LEMMA USuppress ==
    ASSUME NEW mode, IInv, UInv(mode), SuppressInDefers \/ AbandonDefers
    PROVE  UInv(mode)'
<1>1. CASE SuppressInDefers
  BY <1>1 DEF SuppressInDefers, UInv
<1>2. CASE AbandonDefers
  <2>1. host # <<>> /\ Top(host).k = "execInt"
    BY <1>2 DEF AbandonDefers, Raised
  <2>2. Len(host) \in 1..Len(host) /\ Top(host) = host[Len(host)]
    BY <2>1, HandlersBelow, TopType DEF Top, HostInv
  <2> QED
    BY <2>1, <2>2 DEF UInv, BottomInv, BottomRec
<1> QED
  BY <1>1, <1>2

\* Every step that is not Ctrl+C.
LEMMA UInvNext ==
    ASSUME NEW mode, IInv, UInv(mode), [Next]_vars, exc' # "interrupt",
           mode = "tidy" /\ TailCallNative => Len(deferStack) <= Cur.base
    PROVE  UInv(mode)'
<1>1. IInv'
  BY IInvNext
<1>2. CASE UNCHANGED vars
  BY <1>2 DEF vars, UInv
<1>3. CASE Next
  BY <1>1, <1>3, UExecute, UInstruction, UTryBegin, UStartDefers, UCatchInRun, ULeaveExecute,
     UNested, UFinishEndScope, UFinishReturn, UTailCallNative, UFinishTail, ULeaveLoop,
     UFinishCatch, UFinishExecute, ULeaveCallVM, USuppress
     DEF Next
<1> QED
  BY <1>2, <1>3

\* The invariant holds before the first evaluation.
LEMMA UInvInit ==
    ASSUME NEW mode, Init
    PROVE  UInv(mode)
<1>1. Len(handlers) = 0 /\ Len(host) = 0 /\ frames = <<>> /\ deferStack = <<>>
  BY DEF Init
<1>2. LiveHandlers(handlers, frames)
  BY <1>1 DEF LiveHandlers
<1>3. ClearOfUnwinding(handlers, host, Len(frames))
  BY <1>1 DEF ClearOfUnwinding
<1>4. BottomInv(host, frames, deferStack, mode)
  BY <1>1 DEF BottomInv
<1> QED
  BY <1>2, <1>3, <1>4 DEF UInv, Init

----------------------------------------------------------------------------
\* The history only grows, and knows of an interrupt and of a frame that a tail call
\* dropped with defers of its own.
LEMMA SeenGrows ==
    ASSUME IInv, [SeenNext]_seenVars
    PROVE  /\ seen \subseteq seen'
           /\ Interrupt => "interrupt" \in seen'
           /\ TailCallNative /\ "tailNative" \notin seen' => Len(deferStack) <= Cur.base
<1>1. TailCallNative => /\ Running /\ Len(frames') < Len(frames)
                        /\ exc' = "none"
                        /\ ~(Len(host') > Len(host))
                        /\ exc = "none" /\ Len(frames') # Len(frames)
                        /\ Len(deferStack) \in Nat /\ Cur.base \in Nat
  <2> SUFFICES ASSUME TailCallNative
               PROVE  /\ Running /\ Len(frames') < Len(frames)
                      /\ exc' = "none"
                      /\ ~(Len(host') > Len(host))
                      /\ exc = "none" /\ Len(frames') # Len(frames)
                      /\ Len(deferStack) \in Nat /\ Cur.base \in Nat
    OBVIOUS
  <2>1. /\ Running /\ host # <<>> /\ exc = "none" /\ exc' = "none"
        /\ frames' = Pop(frames) /\ (host' = Pop(host) \/ host' = host)
    BY DEF TailCallNative, DropFrame, Running, At
  <2>2. /\ frames \in Seq(GoodFrame) /\ frames # <<>> /\ Len(frames) \in Nat \ {0}
        /\ Cur.base \in Nat
        /\ host \in Seq(HostRec) /\ Len(host) \in Nat
        /\ Len(deferStack) \in Nat
    BY <2>1, FrameFacts, RunningFacts, LenProperties DEF IInv, HostInv
  <2>3. Len(frames') = Len(frames) - 1 /\ Len(Pop(host)) = Len(host) - 1
    BY <2>1, <2>2, PopType
  <2> QED
    BY <2>1, <2>2, <2>3
<1>2. CASE UNCHANGED seenVars
  <2>1. UNCHANGED <<frames, exc, seen>>
    BY <1>2 DEF seenVars, vars
  <2> QED
    BY <1>1, <2>1 DEF Interrupt, Running, At
<1>3. CASE SeenNext
  <2>1. Noted
    BY <1>3 DEF SeenNext
  <2>2. seen \subseteq seen' /\ (Interrupt => "interrupt" \in seen')
    BY <2>1 DEF Noted, Note, Interrupt
  <2>3. ASSUME TailCallNative, "tailNative" \notin seen' PROVE Len(deferStack) <= Cur.base
    <3>1. /\ ~(Running /\ exc' = "interrupt")
          /\ ~(Running /\ ~NotInTry /\ Len(host') > Len(host) /\ Top(host').k = "return")
          /\ ~Raised({"callSwallow"})
          /\ Len(frames') # Len(frames)
      BY <1>1, <2>3 DEF Raised
    <3> QED
      BY <1>1, <2>1, <2>3, <3>1 DEF Noted, Note
  <2> QED
    BY <2>2, <2>3
<1> QED
  BY <1>2, <1>3

\* An interrupt is in flight only after one was raised.
LEMMA OnlyInterruptRaises ==
    ASSUME [Next]_vars, exc # "interrupt", exc' = "interrupt"
    PROVE  Interrupt
BY DEF Next, vars, Execute, EnterBlock, TryBegin, Defer, DeferSkipped, EndScope, Break,
   Call, CallNative, Return, TailCall, TailCallNative, DropFrame, Throw, LoopPopDefer, OpPopDefer,
   PopDefer, FinishEndScope, FinishBreak, FinishReturn, FinishTail, FinishCatch, FinishExecute,
   CatchInRun, LeaveCallVM, LeaveExecute, SuppressInDefers, RethrowFromDefers, AbandonDefers

\* The inductive invariant of the two theorems below.
UninterruptedInv ==
    /\ IInv
    /\ "interrupt" \notin seen => UInv("untidy")
    /\ seen \cap {"interrupt", "tailNative"} = {} => UInv("tidy")

\* It is inductive,
LEMMA UninterruptedNext ==
    UninterruptedInv /\ [SeenNext]_seenVars => UninterruptedInv'
<1> SUFFICES ASSUME UninterruptedInv, [SeenNext]_seenVars PROVE UninterruptedInv'
  OBVIOUS
<1>1. [Next]_vars
  BY DEF SeenNext, seenVars
<1>2. IInv /\ IInv'
  BY <1>1, IInvNext DEF UninterruptedInv
<1>3. /\ seen \subseteq seen'
      /\ Interrupt => "interrupt" \in seen'
      /\ TailCallNative /\ "tailNative" \notin seen' => Len(deferStack) <= Cur.base
  BY <1>2, SeenGrows
<1>4. ASSUME NEW mode, UInv(mode), "interrupt" \notin seen' PROVE exc' # "interrupt"
  <2>1. exc # "interrupt"
    BY <1>4 DEF UInv
  <2> QED
    BY <1>1, <1>3, <1>4, <2>1, OnlyInterruptRaises
<1>5. ASSUME "interrupt" \notin seen' PROVE UInv("untidy")'
  <2>1. UInv("untidy")
    BY <1>3, <1>5 DEF UninterruptedInv
  <2>2. exc' # "interrupt" /\ "untidy" # "tidy"
    BY <1>4, <1>5, <2>1
  <2> QED
    BY <1>1, <1>2, <2>1, <2>2, UInvNext
<1>6. ASSUME seen' \cap {"interrupt", "tailNative"} = {} PROVE UInv("tidy")'
  <2>1. UInv("tidy")
    BY <1>3, <1>6 DEF UninterruptedInv
  <2>2. exc' # "interrupt"
    BY <1>4, <1>6, <2>1
  <2>3. TailCallNative => Len(deferStack) <= Cur.base
    BY <1>3, <1>6
  <2> QED
    BY <1>1, <1>2, <2>1, <2>2, <2>3, UInvNext
<1> QED
  BY <1>2, <1>5, <1>6 DEF UninterruptedInv

\* and holds always.
LEMMA UninterruptedAlways == SeenSpec => []UninterruptedInv
<1>1. SeenInit => UninterruptedInv
  BY IInvInit, UInvInit DEF SeenInit, UninterruptedInv
<1> QED
  BY <1>1, UninterruptedNext, PTL DEF SeenSpec

\* Until Ctrl+C unwinds past its try bodies, every handler belongs to the activation
\* at its frame index, and the indices never decrease: errors thrown anywhere, in
\* defers, callbacks, finalizers and skipped defers too, and tail calls that drop a
\* frame with its defers, never make a handler outlive its frame.
THEOREM HandlersStayLive == SeenSpec => []HandlersLiveUndisturbed
<1>1. UninterruptedInv => HandlersLiveUndisturbed
  <2> SUFFICES ASSUME IInv, UInv("untidy"), "interrupt" \notin seen PROVE HandlersLive
    BY DEF UninterruptedInv, HandlersLiveUndisturbed
  <2>1. ASSUME NEW i \in 1..Len(handlers), i > 1
        PROVE  handlers[i - 1].frame <= handlers[i].frame
    <3>1. i - 1 \in 1..Len(handlers) /\ i - 1 <= i
      BY <2>1, HandlersBelow
    <3> QED
      BY <3>1 DEF UInv, LiveHandlers
  <2> QED
    BY <2>1 DEF UInv, LiveHandlers, HandlersLive
<1> QED
  BY <1>1, UninterruptedAlways, PTL

\* Until Ctrl+C interrupts it, or a tail call of a builtin, class or type drops a frame
\* whose defers have not run, every evaluation, however it ends, has run all defers and
\* left no handler and no frame when the prompt returns.
THEOREM PromptStaysClean == SeenSpec => []CleanAtPromptUndisturbed
<1>1. UninterruptedInv => CleanAtPromptUndisturbed
  <2> SUFFICES ASSUME IInv, UInv("tidy"), host = <<>>
               PROVE  frames = <<>> /\ handlers = <<>> /\ deferStack = <<>>
    BY DEF UninterruptedInv, CleanAtPromptUndisturbed, CleanAtPrompt
  <2>1. frames = <<>>
    BY IInvLoops DEF LoopsOwnFrames
  <2>2. Len(handlers) = 0
    <3>1. \A i \in 1..Len(handlers) : handlers[i].frame \in 1..0
      BY <2>1 DEF UInv, LiveHandlers
    <3> QED
      BY <3>1, HandlersBelow
  <2>3. handlers = <<>>
    BY <2>2, EmptySeq DEF IInv
  <2> QED
    BY <2>1, <2>3 DEF UInv, BottomInv
<1> QED
  BY <1>1, UninterruptedAlways, PTL

----------------------------------------------------------------------------
(* The defer stack until the first disturbance: every entry that a          *)
(* RUN_DEFERS may pop was registered by the activation that executes it.    *)

\* The loops that run defers of a host stack ho over d frames: what they are, the
\* frame they work on, and the frame that an unwinding one goes back to.
Loop(ho, i, d) == [k |-> ho[i].k, n |-> ho[i].n, h |-> ho[i].h,
                   at |-> Ceil(ho, i, d), from |-> Floor(ho, i)]
Loops(ho, d) == {Loop(ho, i, d) : i \in {j \in 1..Len(ho) : ho[j].k \notin RunKinds}}

\* A loop in L will drop frame f.
Dropped(L, f) == \E l \in L : l.k \in Unwinding /\ l.from < f /\ f <= l.at

\* Frame f is to go on from where it is.
GoesOn(L, f) ==
    /\ ~Dropped(L, f)
    /\ \A l \in L : /\ l.k \in {"return", "tail"} => l.at # f
                    /\ l.k = "catch" => l.from # f

\* The defers of an activation in the scopes ss that are left when the RUN_DEFERS
\* l has run some of them.
Left(l, ss) ==
    l.n + (IF l.k = "break" THEN Top(ss).c
           ELSE IF Len(ss) = 1 THEN 0 ELSE ss[Len(ss) - 1].c)

\* Frame f of fs has exactly m defers on the defer stack; of the one on top this is
\* not known while an exception x is in flight.
Exact(fs, L, x, f, m) ==
    /\ f = Len(fs) => x = "none"
    /\ GoesOn(L, f)
    /\ \/ \E l \in L : l.k \in OpKinds /\ l.at = f /\ m = Left(l, fs[f].scopes)
       \/ /\ \A l \in L : l.k \in OpKinds => l.at # f
          /\ m = Top(fs[f].scopes).c

\* Frame f counts on the m lowest of its defers.
Claim(fs, hs, L, x, f, m) ==
    \/ m = 0 /\ ~Dropped(L, f)
    \/ Exact(fs, L, x, f, m)
    \/ \E j \in 1..Len(hs) : hs[j].frame = f /\ m = Top(hs[j].scopes).c
    \/ \E l \in L : l.k = "catch" /\ l.from = f /\ m = Top(l.h.scopes).c

\* They are its own, and no other frame counts on them.
Held(fs, ds, L, f, m) ==
    /\ fs[f].base + m <= Len(ds)
    /\ \A p \in (fs[f].base + 1)..(fs[f].base + m) : ds[p] = fs[f].act
    /\ \A g \in (f + 1)..Len(fs) : Dropped(L, g) \/ fs[f].base + m <= fs[g].base

ClaimsHeld(fs, hs, ds, L, x) ==
    \A f \in 1..Len(fs), m \in Nat : Claim(fs, hs, L, x, f, m) => Held(fs, ds, L, f, m)

\* Where the defers of the next frame begin.
NextBase(fs, ds, f) == IF f = Len(fs) THEN Len(ds) ELSE fs[f + 1].base

ExactlyHeld(fs, ds, L, x) ==
    \A f \in 1..Len(fs), m \in Nat :
      Exact(fs, L, x, f, m) => fs[f].base + m = NextBase(fs, ds, f)

\* Handler h was pushed by the try that is in the scopes ss of frame fr.
PushedIn(h, fr, ss) ==
    /\ Len(h.scopes) < Len(ss)
    /\ ss[Len(h.scopes) + 1].try
    /\ h.scopes = Cut(ss, Len(h.scopes))
    /\ h.base = fr.base + Top(h.scopes).c

\* The scopes that frame f will be in when it goes on.
ScopesOf(fs, L, f) ==
    IF \E l \in L : l.k = "catch" /\ l.from = f
    THEN {l.h.scopes : l \in {c \in L : c.k = "catch" /\ c.from = f}}
    ELSE {fs[f].scopes}

HandlersFit(fs, hs, L) ==
    /\ \A j \in 1..Len(hs) : \A ss \in ScopesOf(fs, L, hs[j].frame) :
         PushedIn(hs[j], fs[hs[j].frame], ss)
    /\ \A i, j \in 1..Len(hs) :
         i < j /\ hs[i].frame = hs[j].frame => Len(hs[i].scopes) < Len(hs[j].scopes)

\* Loops go down to where the defers of a frame, or of the scopes around a try, begin;
\* a frame is left outside its try bodies, and an evaluation with all its frames.
LoopFits(fs, l) ==
    /\ l.k = "catch" => /\ l.from \in 1..l.at
                        /\ l.n = fs[l.from].base + Top(l.h.scopes).c
    /\ l.k \in {"return", "tail"} =>
         /\ l.n = fs[l.at].base
         /\ \A i \in 2..Len(fs[l.at].scopes) : ~fs[l.at].scopes[i].try
    /\ l.k = "execErr" => l.n = 0 /\ l.from = 0

LoopsFit(fs, L) == \A l \in L : LoopFits(fs, l)

OwnInv(fs, hs, ds, L, x) ==
    /\ ClaimsHeld(fs, hs, ds, L, x)
    /\ ExactlyHeld(fs, ds, L, x)
    /\ HandlersFit(fs, hs, L)
    /\ LoopsFit(fs, L)

\* The loops that run defers now.
CurLoops == Loops(host, Len(frames))

\* What holds in addition to IInv and UInv("tidy") until the first disturbance.
OInv == OwnInv(frames, handlers, deferStack, CurLoops, exc)

\* Loop l has nothing to do with frame f.
Apart(l, f) ==
    /\ l.at # f
    /\ l.k \in Unwinding => l.from # f /\ ~(l.from < f /\ f <= l.at)

\* Frame f is as before, and so are the loops that have to do with it.
AlikeAt(fs, L, gs, M, f) ==
    /\ gs[f].scopes = fs[f].scopes
    /\ \A l \in L \cup M : l \in L \cap M \/ Apart(l, f)

\* What a loop may be; d is the number of frames.
GoodLoop(l, d) ==
    /\ l.k \in LoopKinds \cup OpKinds
    /\ l.n \in Nat
    /\ l.at \in 1..d
    /\ l.from \in Nat
    /\ l.k = "catch" => l.h \in GoodHandler

\* Kinds of loops.
LEMMA LoopKindsDiffer ==
    /\ \A k \in OpKinds : k \notin Unwinding /\ k \notin {"return", "tail", "catch"}
    /\ "catch" \in Unwinding /\ "return" \notin Unwinding /\ "tail" \notin Unwinding
    /\ "execErr" \in Unwinding
BY DEF OpKinds, Unwinding

\* Where frames and loops are alike, they go on alike.
LEMMA AlikeDropped ==
    ASSUME NEW fs, NEW gs, NEW L, NEW M, NEW f, AlikeAt(fs, L, gs, M, f)
    PROVE  /\ Dropped(M, f) <=> Dropped(L, f)
           /\ GoesOn(M, f) <=> GoesOn(L, f)
           /\ ScopesOf(gs, M, f) = ScopesOf(fs, L, f)
<1>1. \A l : l \in M /\ ~Apart(l, f) <=> l \in L /\ ~Apart(l, f)
  BY DEF AlikeAt
<1>2. gs[f].scopes = fs[f].scopes
  BY DEF AlikeAt
<1>3. \A l : l.k \in Unwinding /\ l.from < f /\ f <= l.at => ~Apart(l, f)
  BY DEF Apart
<1>4. \A l : l.k = "catch" /\ l.from = f => ~Apart(l, f)
  BY LoopKindsDiffer DEF Apart
<1>5. \A l : l.at = f => ~Apart(l, f)
  BY DEF Apart
<1>6. Dropped(M, f) <=> Dropped(L, f)
  BY <1>1, <1>3 DEF Dropped
<1>7. GoesOn(M, f) <=> GoesOn(L, f)
  BY <1>1, <1>4, <1>5, <1>6 DEF GoesOn
<1>8. {c \in M : c.k = "catch" /\ c.from = f} = {c \in L : c.k = "catch" /\ c.from = f}
  BY <1>1, <1>4
<1>9. (\E l \in M : l.k = "catch" /\ l.from = f) <=> (\E l \in L : l.k = "catch" /\ l.from = f)
  BY <1>1, <1>4
<1>10. ScopesOf(gs, M, f) = ScopesOf(fs, L, f)
  BY <1>2, <1>8, <1>9 DEF ScopesOf
<1> QED
  BY <1>6, <1>7, <1>10

\* ... and count on no more than before, when the frame is not on top.
LEMMA AlikeClaim ==
    ASSUME NEW fs, NEW gs, NEW L, NEW M, NEW f, AlikeAt(fs, L, gs, M, f),
           NEW x, NEW y, f # Len(fs), f # Len(gs), NEW m
    PROVE  /\ Exact(gs, M, y, f, m) => Exact(fs, L, x, f, m)
           /\ \A hs, hs1 : (\A j \in 1..Len(hs1) : hs1[j].frame = f =>
                                j \in 1..Len(hs) /\ hs[j] = hs1[j])
                           /\ Claim(gs, hs1, M, y, f, m) => Claim(fs, hs, L, x, f, m)
<1>1. \A l : l \in M /\ ~Apart(l, f) <=> l \in L /\ ~Apart(l, f)
  BY DEF AlikeAt
<1>2. gs[f].scopes = fs[f].scopes
  BY DEF AlikeAt
<1>3. /\ Dropped(M, f) <=> Dropped(L, f)
      /\ GoesOn(M, f) <=> GoesOn(L, f)
  BY AlikeDropped
<1>4. \A l : l.at = f => ~Apart(l, f)
  BY DEF Apart
<1>5. Exact(gs, M, y, f, m) => Exact(fs, L, x, f, m)
  BY <1>1, <1>2, <1>3, <1>4 DEF Exact
<1>6. \A l : l.k = "catch" /\ l.from = f => ~Apart(l, f)
  BY LoopKindsDiffer DEF Apart
<1>7. ASSUME NEW hs, NEW hs1,
             \A j \in 1..Len(hs1) : hs1[j].frame = f => j \in 1..Len(hs) /\ hs[j] = hs1[j],
             Claim(gs, hs1, M, y, f, m)
      PROVE  Claim(fs, hs, L, x, f, m)
  BY <1>1, <1>3, <1>5, <1>6, <1>7 DEF Claim
<1> QED
  BY <1>5, <1>7

----------------------------------------------------------------------------
(* What the parts of OwnInv need of a step.                                 *)

\* The frames up to e stay; those below s and the loops that have to do with
\* them are as before.
SameUpTo(fs, L, gs, M, s, e) ==
    /\ e \in Nat /\ e <= Len(fs) /\ e <= Len(gs) /\ s \in 1..(e + 1)
    /\ SameFrames(fs, gs, e)
    /\ \A f \in 1..(s - 1) : /\ f # Len(fs) /\ f # Len(gs)
                             /\ AlikeAt(fs, L, gs, M, f)
                             /\ gs[f + 1].base = fs[f + 1].base

\* Nothing below K changes when the defer stack ds becomes ds1.
Unchanged(ds, ds1, K) ==
    K \in Nat /\ K <= Len(ds) /\ K <= Len(ds1) /\ \A p \in 1..K : ds1[p] = ds[p]

\* The frames from s to e count on no more below K than before, or on what they have.
\* A frame above them has its defers above K, and counts on none yet.
ClaimsMay(fs, hs, ds, L, x, gs, hs1, ds1, M, y, s, e, K) ==
    /\ K = Len(ds) \/ s = 1 \/ (s <= Len(fs) /\ fs[s].base <= K /\ ~Dropped(L, s))
    /\ \A j \in 1..Len(hs1) : hs1[j].frame < s => j \in 1..Len(hs) /\ hs1[j] = hs[j]
    /\ Len(gs) \in {e, e + 1}
    /\ Len(gs) = e + 1 =>
         /\ K <= gs[e + 1].base /\ gs[e + 1].base <= Len(ds1)
         /\ \A m \in Nat : Claim(gs, hs1, M, y, e + 1, m) => m = 0
    /\ \A f \in s..e : Dropped(L, f) => Dropped(M, f)
    /\ \A f \in s..e, m \in Nat : Claim(gs, hs1, M, y, f, m) =>
         \/ Held(gs, ds1, M, f, m)
         \/ Claim(fs, hs, L, x, f, m) /\ (K = Len(ds) \/ fs[f].base + m <= K)

\* Claims stay held when only frames in s..e, and entries above K, change.
LEMMA ClaimsKept ==
    ASSUME NEW fs \in Seq(GoodFrame), NEW gs \in Seq(GoodFrame),
           NEW ds \in Seq(Nat), NEW ds1 \in Seq(Nat),
           NEW L, NEW M, NEW x, NEW y, NEW hs, NEW hs1,
           ClaimsHeld(fs, hs, ds, L, x),
           NEW s, NEW e, SameUpTo(fs, L, gs, M, s, e),
           NEW K, Unchanged(ds, ds1, K),
           ClaimsMay(fs, hs, ds, L, x, gs, hs1, ds1, M, y, s, e, K)
    PROVE  ClaimsHeld(gs, hs1, ds1, M, y)
<1> USE DEF Unchanged, ClaimsMay
<1>1. /\ e \in Nat /\ e <= Len(fs) /\ e <= Len(gs) /\ s \in 1..(e + 1)
      /\ Len(fs) \in Nat /\ Len(gs) \in Nat /\ Len(ds) \in Nat /\ Len(ds1) \in Nat
  BY LenProperties DEF SameUpTo
<1>2. \A f \in 1..Len(fs) : fs[f] \in GoodFrame /\ fs[f].base \in Nat
  <2>1. \A f \in 1..Len(fs) : fs[f] \in GoodFrame
    BY ElementOfSeq
  <2> QED
    BY <2>1 DEF GoodFrame
<1>3. \A f \in 1..Len(gs) : gs[f] \in GoodFrame /\ gs[f].base \in Nat
  <2>1. \A f \in 1..Len(gs) : gs[f] \in GoodFrame
    BY ElementOfSeq
  <2> QED
    BY <2>1 DEF GoodFrame
<1>4. \A f \in 1..e : gs[f].base = fs[f].base /\ gs[f].act = fs[f].act
  BY DEF SameUpTo, SameFrames
<1>5. \A f \in 1..e : Dropped(L, f) => Dropped(M, f)
  <2>1. \A f \in 1..(s - 1) : AlikeAt(fs, L, gs, M, f)
    BY DEF SameUpTo
  <2>2. \A f \in 1..(s - 1) : Dropped(L, f) => Dropped(M, f)
    BY <2>1, AlikeDropped
  <2>3. \A f \in 1..e : f \in 1..(s - 1) \/ f \in s..e
    BY <1>1
  <2> QED
    BY <2>2, <2>3
<1>6. ASSUME NEW f \in 1..e, NEW m \in Nat, Held(fs, ds, L, f, m), fs[f].base + m <= K
      PROVE  Held(gs, ds1, M, f, m)
  <2>1. f \in 1..Len(fs) /\ f \in 1..Len(gs)
    BY <1>1
  <2>2. fs[f].base \in Nat /\ gs[f].base = fs[f].base /\ gs[f].act = fs[f].act
    BY <1>2, <1>4, <2>1
  <2>3. gs[f].base + m <= Len(ds1)
    BY <1>1, <1>6, <2>2
  <2>4. ASSUME NEW p \in (gs[f].base + 1)..(gs[f].base + m) PROVE ds1[p] = gs[f].act
    <3>1. p \in 1..K /\ p \in (fs[f].base + 1)..(fs[f].base + m)
      BY SMTT(30), <1>6, <2>2
    <3> QED
      BY <1>6, <2>2, <3>1 DEF Held
  <2>5. ASSUME NEW g \in (f + 1)..Len(gs) PROVE Dropped(M, g) \/ gs[f].base + m <= gs[g].base
    <3>1. CASE g <= e
      <4>1. g \in (f + 1)..Len(fs) /\ g \in 1..e
        BY <1>1, <3>1
      <4>2. Dropped(L, g) \/ fs[f].base + m <= fs[g].base
        BY <1>6, <4>1 DEF Held
      <4> QED
        BY <1>4, <1>5, <2>2, <4>1, <4>2
    <3>2. CASE g = e + 1
      <4>1. /\ e + 1 \in 1..Len(gs) /\ Len(gs) = e + 1
            /\ K \in Nat
        BY <1>1, <3>2
      <4>2. K <= gs[e + 1].base /\ gs[e + 1].base \in Nat
        BY <1>3, <4>1
      <4> HIDE DEF ClaimsMay, Unchanged
      <4> QED
        BY <1>6, <2>2, <3>2, <4>1, <4>2
    <3> QED
      BY <1>1, <3>1, <3>2
  <2> QED
    BY <2>3, <2>4, <2>5 DEF Held
<1>7. ASSUME NEW f \in 1..Len(gs), NEW m \in Nat, Claim(gs, hs1, M, y, f, m)
      PROVE  Held(gs, ds1, M, f, m)
  <2>1. CASE f \in 1..(s - 1)
    <3>1. f \in 1..e /\ f \in 1..Len(fs)
      BY <1>1, <2>1
    <3>2. Claim(fs, hs, L, x, f, m)
      <4>1. f # Len(fs) /\ f # Len(gs) /\ AlikeAt(fs, L, gs, M, f)
        BY <2>1 DEF SameUpTo
      <4>2. f < s
        BY <1>1, <2>1
      <4>3. \A j \in 1..Len(hs1) : hs1[j].frame = f => j \in 1..Len(hs) /\ hs[j] = hs1[j]
        BY <4>2
      <4> QED
        BY <1>7, <4>1, <4>3, AlikeClaim
    <3>3. Held(fs, ds, L, f, m)
      BY <3>1, <3>2 DEF ClaimsHeld
    <3>4. fs[f].base + m <= K
      <4>1. fs[f].base + m <= Len(ds)
        BY <3>3 DEF Held
      <4>2. ASSUME s <= Len(fs), fs[s].base <= K, ~Dropped(L, s) PROVE fs[f].base + m <= K
        <5>1. s \in (f + 1)..Len(fs) /\ s \in 1..Len(fs)
          BY <1>1, <2>1, <4>2
        <5>2. fs[f].base + m <= fs[s].base
          BY <3>3, <4>2, <5>1 DEF Held
        <5> QED
          BY SMTT(30), <1>2, <3>1, <4>2, <5>1, <5>2
      <4>3. s # 1
        BY <1>1, <2>1
      <4> QED
        BY <4>1, <4>2, <4>3
    <3> QED
      BY <1>6, <3>1, <3>3, <3>4
  <2>2. CASE f \in s..e
    <3>1. f \in 1..e /\ f \in 1..Len(fs)
      BY <1>1, <2>2
    <3>2. ASSUME Claim(fs, hs, L, x, f, m), K = Len(ds) \/ fs[f].base + m <= K
          PROVE  Held(gs, ds1, M, f, m)
      <4>1. Held(fs, ds, L, f, m)
        BY <3>1, <3>2 DEF ClaimsHeld
      <4>2. fs[f].base + m <= K
        BY <3>2, <4>1 DEF Held
      <4> QED
        BY <1>6, <3>1, <4>1, <4>2
    <3> QED
      BY <1>7, <2>2, <3>2
  <2>3. CASE f = e + 1
    <3>1. Len(gs) = e + 1
      BY <1>1, <2>3
    <3>2. m = 0 /\ gs[f].base <= Len(ds1) /\ gs[f].base \in Nat
      BY <1>3, <1>7, <2>3, <3>1
    <3>3. /\ gs[f].base + m <= Len(ds1)
          /\ (gs[f].base + 1)..(gs[f].base + m) = {}
          /\ (f + 1)..Len(gs) = {}
      BY <1>1, <2>3, <3>1, <3>2
    <3> QED
      BY <3>3 DEF Held
  <2> QED
    BY <1>1, <2>1, <2>2, <2>3
<1> QED
  BY <1>7 DEF ClaimsHeld

\* The frames from s up have exactly what they are said to have.
LEMMA ExactKept ==
    ASSUME NEW fs, NEW gs, NEW ds, NEW ds1, NEW L, NEW M, NEW x, NEW y,
           Len(fs) \in Nat, Len(gs) \in Nat,
           ExactlyHeld(fs, ds, L, x),
           NEW s, NEW e, SameUpTo(fs, L, gs, M, s, e),
           \A f \in s..Len(gs), m \in Nat :
             Exact(gs, M, y, f, m) => gs[f].base + m = NextBase(gs, ds1, f)
    PROVE  ExactlyHeld(gs, ds1, M, y)
<1> SUFFICES ASSUME NEW f \in 1..Len(gs), NEW m \in Nat, Exact(gs, M, y, f, m)
             PROVE  gs[f].base + m = NextBase(gs, ds1, f)
  BY DEF ExactlyHeld
<1>1. e \in Nat /\ e <= Len(fs) /\ e <= Len(gs) /\ s \in 1..(e + 1)
  BY DEF SameUpTo
<1>2. CASE f \in 1..(s - 1)
  <2>1. /\ f # Len(fs) /\ f # Len(gs)
        /\ AlikeAt(fs, L, gs, M, f)
        /\ gs[f + 1].base = fs[f + 1].base
    BY <1>2 DEF SameUpTo
  <2>2. f \in 1..Len(fs) /\ f \in 1..e
    BY <1>1, <1>2
  <2>3. Exact(fs, L, x, f, m)
    BY <2>1, AlikeClaim
  <2>4. fs[f].base + m = NextBase(fs, ds, f)
    BY <2>2, <2>3 DEF ExactlyHeld
  <2>5. gs[f].base = fs[f].base
    BY <2>2 DEF SameUpTo, SameFrames
  <2> QED
    BY <2>1, <2>4, <2>5 DEF NextBase
<1>3. CASE f \in s..Len(gs)
  BY <1>3
<1> QED
  BY <1>1, <1>2, <1>3

\* The first n handlers stay, and those of frames from s up fit into the scopes of
\* their frames.
HandlersMay(fs, L, gs, M, hs, n, hs1, s, e) ==
    /\ Len(hs1) = n /\ \A j \in 1..n : hs1[j] = hs[j]
    /\ \A j \in 1..n : hs[j].frame \in Nat /\ hs[j].frame > 0
    /\ \A j \in 1..n : hs[j].frame >= s =>
         /\ hs[j].frame <= e
         /\ \/ ScopesOf(gs, M, hs[j].frame) \subseteq ScopesOf(fs, L, hs[j].frame)
            \/ \A ss \in ScopesOf(gs, M, hs[j].frame) : PushedIn(hs[j], gs[hs[j].frame], ss)

\* Handlers that are not of frames s..e still fit.
LEMMA HandlersKept ==
    ASSUME NEW fs, NEW gs, NEW L, NEW M, NEW hs, NEW n \in 0..Len(hs), Len(hs) \in Nat,
           NEW hs1, HandlersFit(fs, hs, L),
           NEW s, NEW e, SameUpTo(fs, L, gs, M, s, e),
           HandlersMay(fs, L, gs, M, hs, n, hs1, s, e)
    PROVE  HandlersFit(gs, hs1, M)
<1> USE DEF HandlersMay
<1>1. e \in Nat /\ s \in 1..(e + 1) /\ \A j \in 1..n : j \in 1..Len(hs)
  BY DEF SameUpTo
<1>2. ASSUME NEW j \in 1..n, NEW ss \in ScopesOf(gs, M, hs[j].frame)
      PROVE  PushedIn(hs[j], gs[hs[j].frame], ss)
  <2> DEFINE f == hs[j].frame
  <2>1. f \in Nat /\ f > 0 /\ j \in 1..Len(hs)
    BY <1>1
  <2>2. ASSUME ss \in ScopesOf(fs, L, f), f <= e PROVE PushedIn(hs[j], gs[f], ss)
    <3>1. f \in 1..e
      BY <1>1, <2>1, <2>2
    <3>2. gs[f].base = fs[f].base
      BY <3>1 DEF SameUpTo, SameFrames
    <3>3. PushedIn(hs[j], fs[f], ss)
      BY <2>1, <2>2 DEF HandlersFit
    <3> QED
      BY <3>2, <3>3 DEF PushedIn
  <2>3. CASE f < s
    <3>1. f \in 1..(s - 1) /\ f <= e
      BY <1>1, <2>1, <2>3
    <3>2. AlikeAt(fs, L, gs, M, f)
      BY <3>1 DEF SameUpTo
    <3>3. ScopesOf(gs, M, f) = ScopesOf(fs, L, f)
      BY <3>2, AlikeDropped
    <3> QED
      BY <1>2, <2>2, <3>1, <3>3
  <2>4. CASE f >= s
    BY <1>2, <2>2, <2>4
  <2> QED
    BY <1>1, <2>1, <2>3, <2>4
<1>3. \A i, j \in 1..n :
        i < j /\ hs[i].frame = hs[j].frame => Len(hs[i].scopes) < Len(hs[j].scopes)
  BY <1>1 DEF HandlersFit
<1> QED
  BY <1>2, <1>3 DEF HandlersFit

\* A loop fits if it does after the step, or did and works on frames below s.
LEMMA LoopsKept ==
    ASSUME NEW fs, NEW gs, NEW L, NEW M, LoopsFit(fs, L),
           NEW s, NEW e, SameUpTo(fs, L, gs, M, s, e),
           \A l \in M : \/ l \in L /\ l.at \in 1..(s - 1)
                        \/ LoopFits(gs, l)
    PROVE  LoopsFit(gs, M)
<1>1. e \in Nat /\ s \in 1..(e + 1)
  BY DEF SameUpTo
<1>2. ASSUME NEW l \in M, l \in L, l.at \in 1..(s - 1) PROVE LoopFits(gs, l)
  <2>1. /\ gs[l.at].scopes = fs[l.at].scopes
        /\ \A f \in 1..e : gs[f].base = fs[f].base
    BY <1>2 DEF SameUpTo, AlikeAt, SameFrames
  <2>2. l.at \in 1..e /\ \A f \in 1..l.at : f \in 1..e
    BY <1>1, <1>2
  <2> QED
    BY <1>2, <2>1, <2>2 DEF LoopsFit, LoopFits
<1> QED
  BY <1>2 DEF LoopsFit, LoopFits

----------------------------------------------------------------------------
(* The loops of a host stack before and after a step.                       *)

\* A loop in a place that stays is the same loop.
LEMMA SameLoop ==
    ASSUME NEW ho, NEW d, HostInv(ho, d), NEW q, NEW e, NEW m \in 0..Len(ho),
           SamePlaces(ho, d, q, e, m),
           NEW i \in 1..m, ho[i].k \notin RunKinds, q[i].n = ho[i].n
    PROVE  Loop(q, i, e) = Loop(ho, i, d)
<1>1. Len(ho) \in Nat /\ i \in 1..Len(ho)
  BY HostShape
<1>2. i > 1 /\ ho[i - 1].k \in RunKinds
  BY <1>1, HostShape
<1>3. q[i - 1].n = ho[i - 1].n
  <2>1. i - 1 \in 1..m
    BY <1>2
  <2> QED
    BY <1>2, <2>1, KindsDiffer DEF SamePlaces
<1>4. q[i].k = ho[i].k /\ q[i].h = ho[i].h /\ Ceil(q, i, e) = Ceil(ho, i, d)
  BY DEF SamePlaces
<1>5. Floor(q, i) = Floor(ho, i)
  BY <1>3, <1>4 DEF Floor
<1> QED
  BY <1>4, <1>5 DEF Loop

\* The loops below position m.
LEMMA LoopsBelow ==
    ASSUME NEW ho, NEW d, HostInv(ho, d), NEW q, NEW e, NEW m \in 0..Len(ho),
           SamePlaces(ho, d, q, e, m), Len(q) \in {m, m + 1},
           \A i \in 1..m : ho[i].k \notin RunKinds => q[i].n = ho[i].n
    PROVE  /\ Len(ho) = m \/ (Len(ho) = m + 1 /\ ho[m + 1].k \in RunKinds) =>
                 Loops(ho, d) \subseteq Loops(q, e)
           /\ Len(q) = m \/ (Len(q) = m + 1 /\ q[m + 1].k \in RunKinds) =>
                 Loops(q, e) \subseteq Loops(ho, d)
<1>1. Len(ho) \in Nat
  BY HostShape
<1>2. \A i \in 1..m : /\ ho[i].k \notin RunKinds => Loop(q, i, e) = Loop(ho, i, d)
                      /\ q[i].k = ho[i].k
                      /\ i \in 1..Len(ho) /\ i \in 1..Len(q)
  BY <1>1, SameLoop DEF SamePlaces
<1>3. ASSUME Len(ho) = m \/ (Len(ho) = m + 1 /\ ho[m + 1].k \in RunKinds)
      PROVE  Loops(ho, d) \subseteq Loops(q, e)
  <2>1. \A i \in 1..Len(ho) : ho[i].k \notin RunKinds => i \in 1..m
    BY <1>1, <1>3
  <2> QED
    BY <1>2, <2>1 DEF Loops
<1>4. ASSUME Len(q) = m \/ (Len(q) = m + 1 /\ q[m + 1].k \in RunKinds)
      PROVE  Loops(q, e) \subseteq Loops(ho, d)
  <2>1. \A i \in 1..Len(q) : q[i].k \notin RunKinds => i \in 1..m
    BY <1>1, <1>4
  <2> QED
    BY <1>2, <2>1 DEF Loops
<1> QED
  BY <1>3, <1>4

\* What the loops of a host stack are.
LEMMA LoopsType ==
    ASSUME NEW ho, NEW d \in Nat, HostInv(ho, d)
    PROVE  /\ \A l \in Loops(ho, d) : GoodLoop(l, d) /\ (l.k = "catch" => l.from = l.h.frame)
           /\ ho # <<>> /\ Top(ho).k \in RunKinds =>
                Top(ho).n \in Nat /\ \A l \in Loops(ho, d) : l.at <= Top(ho).n
<1>1. Len(ho) \in Nat /\ ho \in Seq(HostRec)
  BY HostShape
<1>2. ASSUME NEW l \in Loops(ho, d)
      PROVE  /\ GoodLoop(l, d) /\ (l.k = "catch" => l.from = l.h.frame)
             /\ ho # <<>> /\ Top(ho).k \in RunKinds => l.at <= Top(ho).n
  <2>1. PICK i \in 1..Len(ho) : ho[i].k \notin RunKinds /\ l = Loop(ho, i, d)
    BY DEF Loops
  <2>2. /\ l.k = ho[i].k /\ l.n = ho[i].n /\ l.h = ho[i].h
        /\ l.at = Ceil(ho, i, d) /\ l.from = Floor(ho, i)
    BY <2>1 DEF Loop
  <2>3. /\ ho[i] \in HostRec /\ ho[i].n \in Nat
        /\ i > 1 /\ ho[i - 1].k \in RunKinds /\ ho[i - 1].n < d
        /\ ho[i].k = "catch" => ho[i].h \in GoodHandler
        /\ i - 1 \in 1..Len(ho) /\ ho[i - 1].n \in Nat
    <3>1. i > 1 /\ ho[i - 1].k \in RunKinds
      BY <2>1, HostShape
    <3>2. i - 1 \in 1..Len(ho)
      BY <1>1, <3>1
    <3> QED
      BY <2>1, <3>1, <3>2, HostShape
  <2>4. l.k \in LoopKinds \cup OpKinds
    BY <2>1, <2>2, <2>3 DEF HostRec
  <2>5. l.from \in Nat
    <3>1. ho[i].k = "catch" => ho[i].h.frame \in Nat
      BY <2>3 DEF GoodHandler
    <3> QED
      BY <2>2, <2>3, <3>1 DEF Floor
  <2>6. l.k = "catch" => l.from = l.h.frame
    BY <2>2 DEF Floor
  <2>7. CASE i = Len(ho)
    <3>1. l.at = d
      BY <2>2, <2>7 DEF Ceil
    <3>2. Top(ho).k \notin RunKinds
      BY <2>1, <2>7 DEF Top
    <3>3. d > 0
      BY <2>3
    <3> QED
      BY <2>2, <2>3, <2>4, <2>5, <2>6, <3>1, <3>2, <3>3 DEF GoodLoop
  <2>8. CASE i # Len(ho)
    <3>1. i + 1 \in 1..Len(ho) /\ (i + 1) - 1 = i
      BY <1>1, <2>8
    <3>2. ho[i + 1].k \in RunKinds
      BY <2>1, <3>1, HostShape
    <3>3. l.at = ho[i + 1].n
      BY <2>2, <2>8 DEF Ceil
    <3>4. HostRecInv(ho, i + 1, d)
      BY <3>1 DEF HostInv
    <3>5. ho[i + 1].n < d /\ ho[i - 1].n < ho[i + 1].n /\ ho[i + 1].n \in Nat
      <4>1. i - 1 \in 1..((i + 1) - 1)
        BY <2>3
      <4> QED
        BY <2>3, <3>1, <3>2, <3>4, <4>1, HostShape DEF HostRecInv
    <3>6. ho # <<>> /\ Top(ho).k \in RunKinds => l.at <= Top(ho).n
      <4> SUFFICES ASSUME Top(ho).k \in RunKinds PROVE l.at <= Top(ho).n
        OBVIOUS
      <4>1. CASE i + 1 = Len(ho)
        BY <3>3, <3>5, <4>1 DEF Top
      <4>2. CASE i + 1 # Len(ho)
        <5>1. i + 1 \in 1..(Len(ho) - 1) /\ Len(ho) \in 1..Len(ho)
          BY <1>1, <3>1, <4>2
        <5>2. HostRecInv(ho, Len(ho), d) /\ ho[Len(ho)].n \in Nat
          BY <5>1, HostShape DEF HostInv
        <5>3. ho[i + 1].n < ho[Len(ho)].n
          BY <3>2, <5>1, <5>2 DEF HostRecInv, Top
        <5> QED
          BY <3>3, <3>5, <5>2, <5>3 DEF Top
      <4> QED
        BY <4>1, <4>2
    <3> QED
      BY <2>2, <2>3, <2>4, <2>5, <2>6, <3>3, <3>5, <3>6 DEF GoodLoop
  <2> QED
    BY <2>7, <2>8
<1>3. ho # <<>> /\ Top(ho).k \in RunKinds => Top(ho).n \in Nat
  BY <1>1, HostPopRun
<1> QED
  BY <1>2, <1>3

\* The frames above a run() change.
LEMMA LoopsDepth ==
    ASSUME NEW ho, NEW d \in Nat, HostInv(ho, d), ho # <<>>, Top(ho).k \in RunKinds, NEW e
    PROVE  Loops(ho, e) = Loops(ho, d)
<1>1. Len(ho) \in Nat /\ Len(ho) \in 0..Len(ho) /\ Len(ho) \in {Len(ho), Len(ho) + 1}
  BY HostShape
<1>2. SamePlaces(ho, d, ho, e, Len(ho))
  BY PlacesDepth
<1>3. Loops(ho, d) \subseteq Loops(ho, e)
  BY <1>1, <1>2, LoopsBelow
<1>4. Loops(ho, e) \subseteq Loops(ho, d)
  BY <1>1, <1>2, LoopsBelow
<1> QED
  BY <1>3, <1>4

\* A run() starts or ends.
LEMMA LoopsPushRun ==
    ASSUME NEW ho, NEW d \in Nat, HostInv(ho, d),
           NEW r \in HostRec, r.k \in RunKinds, r.n = d, NEW e
    PROVE  Loops(Append(ho, r), e) = Loops(ho, d)
<1>1. Len(ho) \in Nat /\ Len(ho) \in 0..Len(ho) /\ ho \in Seq(HostRec)
  BY HostShape
<1>2. /\ Len(Append(ho, r)) = Len(ho) + 1
      /\ Append(ho, r)[Len(ho) + 1] = r
      /\ SamePlaces(ho, d, Append(ho, r), e, Len(ho))
  BY <1>1, PlacesPushRun
<1>3. \A i \in 1..Len(ho) : Append(ho, r)[i] = ho[i]
  BY <1>1, PushType
<1> DEFINE q == Append(ho, r)
<1> HIDE DEF q
<1>4. /\ Len(q) = Len(ho) + 1 /\ q[Len(ho) + 1].k \in RunKinds
      /\ SamePlaces(ho, d, q, e, Len(ho))
      /\ \A i \in 1..Len(ho) : ho[i].k \notin RunKinds => q[i].n = ho[i].n
      /\ Len(q) \in {Len(ho), Len(ho) + 1}
  BY <1>1, <1>2, <1>3 DEF q
<1>5. Loops(ho, d) \subseteq Loops(q, e)
  BY <1>1, <1>4, LoopsBelow
<1>6. Loops(q, e) \subseteq Loops(ho, d)
  BY <1>1, <1>4, LoopsBelow
<1> QED
  BY <1>5, <1>6 DEF q

\* (ends)
LEMMA LoopsPopRun ==
    ASSUME NEW ho, NEW d \in Nat, HostInv(ho, d), ho # <<>>, Top(ho).k \in RunKinds
    PROVE  Loops(Pop(ho), Top(ho).n) = Loops(ho, d)
<1> DEFINE m == Len(Pop(ho))
<1>1. Len(ho) \in Nat /\ ho \in Seq(HostRec) /\ Len(ho) > 0
  BY HostShape, TopType
<1>2. /\ m = Len(ho) - 1
      /\ SamePlaces(ho, d, Pop(ho), Top(ho).n, m)
  BY PlacesPopRun
<1>3. \A i \in 1..m : Pop(ho)[i] = ho[i]
  BY <1>1, PopType
<1> HIDE DEF m
<1>4. m \in 0..Len(ho) /\ Len(ho) = m + 1 /\ ho[m + 1].k \in RunKinds
  BY <1>1, <1>2 DEF Top
<1>5. Len(Pop(ho)) \in {m, m + 1} /\ Len(Pop(ho)) = m
  BY DEF m
<1>6. \A i \in 1..m : ho[i].k \notin RunKinds => Pop(ho)[i].n = ho[i].n
  BY <1>3
<1>7. Loops(ho, d) \subseteq Loops(Pop(ho), Top(ho).n)
  BY <1>2, <1>4, <1>5, <1>6, LoopsBelow
<1>8. Loops(Pop(ho), Top(ho).n) \subseteq Loops(ho, d)
  BY <1>2, <1>4, <1>5, <1>6, LoopsBelow
<1> QED
  BY <1>7, <1>8

\* The loop on top of a host stack.
TopLoop(ho, d) == Loop(ho, Len(ho), d)

\* A loop starts.
LEMMA LoopsPushLoop ==
    ASSUME NEW ho, NEW d \in Nat, HostInv(ho, d), ho # <<>>, Top(ho).k \in RunKinds,
           NEW r \in HostRec, r.k \notin RunKinds
    PROVE  Loops(Append(ho, r), d) =
             Loops(ho, d) \cup
               {[k |-> r.k, n |-> r.n, h |-> r.h, at |-> d,
                 from |-> IF r.k = "catch" THEN r.h.frame ELSE Top(ho).n]}
<1> DEFINE q == Append(ho, r)
           l == Len(ho)
           t == [k |-> r.k, n |-> r.n, h |-> r.h, at |-> d,
                 from |-> IF r.k = "catch" THEN r.h.frame ELSE Top(ho).n]
<1>1. l \in Nat /\ ho \in Seq(HostRec) /\ l \in 0..l /\ l > 0
  BY HostShape, TopType
<1>2. /\ Len(q) = l + 1
      /\ q[l + 1] = r
      /\ q[l] = Top(ho)
      /\ SamePlaces(ho, d, q, d, l)
  BY PlacesPushLoop
<1>3. \A i \in 1..l : q[i] = ho[i]
  BY <1>1, PushType
<1> HIDE DEF q
<1>4. Loop(q, l + 1, d) = t
  <2>1. Ceil(q, l + 1, d) = d
    BY <1>2 DEF Ceil
  <2>2. (l + 1) - 1 = l
    BY <1>1
  <2>3. Floor(q, l + 1) = IF r.k = "catch" THEN r.h.frame ELSE Top(ho).n
    BY <1>2, <2>2 DEF Floor
  <2> QED
    BY <1>2, <2>1, <2>3 DEF Loop
<1>5. \A i \in 1..l : /\ ho[i].k \notin RunKinds => Loop(q, i, d) = Loop(ho, i, d)
                      /\ q[i].k = ho[i].k
  BY <1>1, <1>2, <1>3, SameLoop
<1>6. \A i : i \in 1..Len(q) <=> i \in 1..l \/ i = l + 1
  BY <1>1, <1>2
<1> HIDE DEF l, t
<1>7. Loops(q, d) \subseteq Loops(ho, d) \cup {t}
  BY <1>4, <1>5, <1>6 DEF Loops, l
<1>8. Loops(ho, d) \cup {t} \subseteq Loops(q, d)
  BY <1>2, <1>4, <1>5, <1>6 DEF Loops, l
<1> QED
  BY <1>7, <1>8 DEF q, t

\* A loop ends: it was the one on top, and all others work on frames of other run()s.
LEMMA LoopsPopLoop ==
    ASSUME NEW ho, NEW d \in Nat, HostInv(ho, d), ho # <<>>, Top(ho).k \notin RunKinds, NEW e
    PROVE  /\ Loops(ho, d) = Loops(Pop(ho), e) \cup {TopLoop(ho, d)}
           /\ TopLoop(ho, d).k = Top(ho).k
           /\ TopLoop(ho, d).n = Top(ho).n
           /\ TopLoop(ho, d).h = Top(ho).h
           /\ TopLoop(ho, d).at = d
           /\ TopLoop(ho, d).from =
                IF Top(ho).k = "catch" THEN Top(ho).h.frame ELSE Top(Pop(ho)).n
           /\ \A l \in Loops(Pop(ho), e) : l.at <= Top(Pop(ho)).n
<1> DEFINE q == Pop(ho)
<1>1. Len(ho) \in Nat /\ ho \in Seq(HostRec) /\ Len(ho) > 0 /\ Len(q) = Len(ho) - 1
      /\ q \in Seq(HostRec)
  BY HostShape, TopType, PopType
<1>2. HostInv(q, d) /\ q # <<>> /\ Top(q).k \in RunKinds
  BY HostPopLoop
<1>3. Append(q, Top(ho)) = ho
  <2>1. \A i \in 1..Len(q) : q[i] = ho[i]
    BY <1>1, PopType
  <2>2. Top(ho) \in HostRec
    BY <1>1, TopType
  <2>3. /\ Append(q, Top(ho)) \in Seq(HostRec)
        /\ Len(Append(q, Top(ho))) = Len(ho)
        /\ \A i \in 1..Len(q) : Append(q, Top(ho))[i] = q[i]
        /\ Append(q, Top(ho))[Len(ho)] = Top(ho)
    BY <1>1, <2>2, PushType
  <2>4. \A i \in 1..Len(ho) : Append(q, Top(ho))[i] = ho[i]
    BY <1>1, <2>1, <2>3 DEF Top
  <2> QED
    BY <1>1, <2>3, <2>4, SeqEqual
<1>4. Loops(q, e) = Loops(q, d)
  BY <1>2, LoopsDepth
<1>5. Top(ho) \in HostRec
  BY <1>1, TopType
<1>6. TopLoop(ho, d) =
        [k |-> Top(ho).k, n |-> Top(ho).n, h |-> Top(ho).h, at |-> d,
         from |-> IF Top(ho).k = "catch" THEN Top(ho).h.frame ELSE Top(q).n]
  <2>1. Top(q) = ho[Len(ho) - 1]
    <3>1. q # <<>> /\ Len(q) \in 1..Len(q)
      BY <1>1, <1>2, TopType
    <3>2. q[Len(q)] = ho[Len(q)]
      BY <1>1, <3>1, PopType
    <3> QED
      BY <1>1, <3>2 DEF Top
  <2> QED
    BY <2>1 DEF TopLoop, Loop, Ceil, Floor, Top
<1> HIDE DEF q
<1>7. Loops(ho, d) = Loops(q, d) \cup {TopLoop(ho, d)}
  <2> DEFINE r == Top(ho)
  <2> HIDE DEF r
  <2>1. r \in HostRec /\ r.k \notin RunKinds
    BY <1>5 DEF r
  <2>2. Loops(Append(q, r), d) = Loops(q, d) \cup
               {[k |-> r.k, n |-> r.n, h |-> r.h, at |-> d,
                 from |-> IF r.k = "catch" THEN r.h.frame ELSE Top(q).n]}
    BY <1>2, <2>1, LoopsPushLoop
  <2> QED
    BY <1>3, <1>6, <2>2 DEF r
<1>8. \A l \in Loops(q, d) : l.at <= Top(q).n
  BY <1>2, LoopsType
<1> QED
  BY <1>4, <1>6, <1>7, <1>8 DEF q

\* A loop has n defers left to run.
Counted(ho, n) == [ho EXCEPT ![Len(ho)].n = n]
CountedLoop(l, n) == [l EXCEPT !.n = n]

\* A loop takes a defer off the stack and calls it.
LEMMA LoopsCount ==
    ASSUME NEW ho, NEW d \in Nat, HostInv(ho, d), ho # <<>>, Top(ho).k \notin RunKinds,
           NEW n \in Nat, NEW e
    PROVE  /\ Top(ho).n = n => Loops(Counted(ho, n), d) = Loops(ho, d)
           /\ Loops(Counted(ho, n), d) =
                Loops(Pop(ho), e) \cup {CountedLoop(TopLoop(ho, d), n)}
<1> USE DEF Counted, CountedLoop
<1> DEFINE q == [ho EXCEPT ![Len(ho)].n = n]
           l == Len(ho)
<1>1. l \in Nat /\ ho \in Seq(HostRec) /\ l > 0 /\ l \in 1..l /\ Top(ho) = ho[l]
  BY HostShape, TopType DEF Top
<1>2. /\ \A i \in 1..l : ho[i] \in HostRec
      /\ DOMAIN ho = 1..l
  BY <1>1, ElementOfSeq, LenProperties
<1>3. /\ \A i \in 1..(l - 1) : q[i] = ho[i]
      /\ q[l] = [ho[l] EXCEPT !.n = n]
      /\ DOMAIN q = 1..l
  BY <1>1, <1>2
<1>4. q \in Seq(HostRec) /\ Len(q) = l
  <2>1. \A i \in 1..l : q[i] \in HostRec
    <3>1. [ho[l] EXCEPT !.n = n] \in HostRec
      BY <1>1, <1>2 DEF HostRec
    <3> QED
      BY <1>1, <1>2, <1>3, <3>1
  <2>2. q = [i \in 1..l |-> q[i]]
    BY <1>1, <1>2, <1>3
  <2> HIDE DEF q
  <2>3. q \in [1..l -> HostRec]
    BY <2>1, <2>2
  <2>4. q \in Seq(HostRec)
    BY <1>1, <2>3, SeqDef
  <2> QED
    BY <1>1, <1>3, <2>4, LenProperties
<1>5. \A i \in 1..l : q[i].k = ho[i].k /\ q[i].h = ho[i].h
  <2>1. [ho[l] EXCEPT !.n = n].k = ho[l].k /\ [ho[l] EXCEPT !.n = n].h = ho[l].h
    BY <1>1, <1>2 DEF HostRec
  <2>2. \A i \in 1..l : i \in 1..(l - 1) \/ i = l
    BY <1>1
  <2> HIDE DEF q
  <2> QED
    BY <1>3, <2>1, <2>2
<1>6. q[l].n = n
  BY <1>1, <1>2, <1>3 DEF HostRec
<1>7. \A i \in 1..l : Ceil(q, i, d) = Ceil(ho, i, d) \/ i = l - 1
  BY <1>1, <1>3, <1>4 DEF Ceil
<1>8. l > 1 /\ ho[l - 1].k \in RunKinds
  BY <1>1, HostShape
<1> HIDE DEF q, l
<1>9. \A i \in 1..(l - 1) : q[i].k \notin RunKinds => Loop(q, i, d) = Loop(ho, i, d)
  <2> SUFFICES ASSUME NEW i \in 1..(l - 1), q[i].k \notin RunKinds
               PROVE  Loop(q, i, d) = Loop(ho, i, d)
    OBVIOUS
  <2>1. i \in 1..l /\ q[i] = ho[i]
    BY <1>1, <1>3
  <2>2. i # l - 1
    BY <1>8, <2>1
  <2>3. Ceil(q, i, d) = Ceil(ho, i, d)
    BY <1>7, <2>1, <2>2
  <2>4. i > 1
    BY <2>1, HostShape DEF l
  <2>5. q[i - 1] = ho[i - 1]
    BY <1>1, <1>3, <2>1, <2>4
  <2>6. Floor(q, i) = Floor(ho, i)
    BY <2>1, <2>5 DEF Floor
  <2> QED
    BY <2>1, <2>3, <2>6 DEF Loop
<1>10. Loop(q, l, d) = CountedLoop(TopLoop(ho, d), n)
  <2>1. l \in 1..l /\ Ceil(q, l, d) = Ceil(ho, l, d)
    BY <1>1, <1>4 DEF Ceil, l
  <2>2. q[l - 1] = ho[l - 1]
    BY <1>1, <1>3, <1>8
  <2>3. Floor(q, l) = Floor(ho, l)
    BY <1>1, <1>5, <2>2 DEF Floor
  <2> QED
    BY <1>1, <1>5, <1>6, <2>1, <2>3 DEF Loop, TopLoop, l
<1>11. Loops(q, d) = {Loop(ho, i, d) : i \in {j \in 1..(l - 1) : ho[j].k \notin RunKinds}}
                     \cup {CountedLoop(TopLoop(ho, d), n)}
  <2>1. \A i : i \in 1..l <=> i \in 1..(l - 1) \/ i = l
    BY <1>1
  <2>2. q[l].k \notin RunKinds
    BY <1>1, <1>5
  <2>3. \A i \in 1..(l - 1) : q[i].k = ho[i].k
    BY <2>1, <1>5
  <2> QED
    BY <1>4, <1>9, <1>10, <2>1, <2>2, <2>3 DEF Loops
<1>12. Loops(Pop(ho), e) = {Loop(ho, i, d) : i \in {j \in 1..(l - 1) : ho[j].k \notin RunKinds}}
  <2>1. Len(Pop(ho)) = l - 1 /\ \A i \in 1..(l - 1) : Pop(ho)[i] = ho[i]
    BY <1>1, PopType DEF l
  <2>2. SamePlaces(ho, d, Pop(ho), e, l - 1)
    BY <2>1, PlacesPopLoop DEF l
  <2>3. \A i \in 1..(l - 1) : ho[i].k \notin RunKinds => Loop(Pop(ho), i, e) = Loop(ho, i, d)
    <3>1. l - 1 \in 0..Len(ho)
      BY <1>1 DEF l
    <3> QED
      BY <2>1, <2>2, <3>1, SameLoop
  <2> QED
    BY <2>1, <2>3 DEF Loops
<1>13. Top(ho).n = n => q = ho
  <2>1. Top(ho).n = n => \A i \in 1..l : q[i] = ho[i]
    <3>1. Top(ho).n = n => [ho[l] EXCEPT !.n = n] = ho[l]
      BY <1>1, <1>2 DEF HostRec
    <3>2. \A i \in 1..l : i \in 1..(l - 1) \/ i = l
      BY <1>1
    <3> QED
      BY <1>3, <3>1, <3>2
  <2> QED
    BY <1>1, <1>4, <2>1, SeqEqual DEF l
<1> QED
  BY <1>11, <1>12, <1>13 DEF q

----------------------------------------------------------------------------
(* The two kinds of steps.                                                  *)

\* What a frame that stays counts on was some frame's claim before.
FrameStays(fs, hs, L, x, gs, ds, M, y, f) ==
    /\ Dropped(L, f) => Dropped(M, f)
    /\ \A m \in Nat : Exact(gs, M, y, f, m) =>
         Claim(fs, hs, L, x, f, m) /\ gs[f].base + m = NextBase(gs, ds, f)
    /\ \A l \in M : l.k = "catch" /\ l.from = f => Claim(fs, hs, L, x, f, Top(l.h.scopes).c)

\* A handler that stays fits into the scopes of its frame.
HandlerStays(fs, L, gs, M, h) ==
    \/ ScopesOf(gs, M, h.frame) \subseteq ScopesOf(fs, L, h.frame)
    \/ \A ss \in ScopesOf(gs, M, h.frame) : PushedIn(h, gs[h.frame], ss)

\* A loop works on frames below s as before, or fits.
LoopStays(L, gs, s, l) == (l \in L /\ l.at \in 1..(s - 1)) \/ LoopFits(gs, l)

\* A step that calls nothing: the frames from s up count on what some frame's claim
\* already was, and the loops fit.
LEMMA OwnStay ==
    ASSUME NEW fs \in Seq(GoodFrame), NEW gs \in Seq(GoodFrame),
           NEW ds \in Seq(Nat), NEW hs \in Seq(GoodHandler),
           NEW n \in 0..Len(hs), NEW hs1, hs1 = Cut(hs, n),
           NEW L, NEW M, NEW x, NEW y,
           OwnInv(fs, hs, ds, L, x),
           NEW s, SameUpTo(fs, L, gs, M, s, Len(gs)),
           \A j \in 1..n : hs[j].frame \in 1..Len(gs),
           \A f \in s..Len(gs) : FrameStays(fs, hs, L, x, gs, ds, M, y, f),
           \A j \in 1..n : hs[j].frame >= s => HandlerStays(fs, L, gs, M, hs[j]),
           \A l \in M : LoopStays(L, gs, s, l)
    PROVE  OwnInv(gs, hs1, ds, M, y)
<1>1. Len(fs) \in Nat /\ Len(gs) \in Nat /\ Len(ds) \in Nat /\ Len(hs) \in Nat
  BY LenProperties
<1>2. /\ Len(hs1) = n /\ \A j \in 1..n : hs1[j] = hs[j]
      /\ \A j \in 1..n : j \in 1..Len(hs)
  <2>1. Len(Cut(hs, n)) = n /\ \A j \in 1..n : Cut(hs, n)[j] = hs[j]
    BY CutType
  <2> QED
    BY <1>1, <2>1
<1>3. \A f \in s..Len(gs), m \in Nat : Claim(gs, hs1, M, y, f, m) => Claim(fs, hs, L, x, f, m)
  <2> SUFFICES ASSUME NEW f \in s..Len(gs), NEW m \in Nat, Claim(gs, hs1, M, y, f, m)
               PROVE  Claim(fs, hs, L, x, f, m)
    OBVIOUS
  <2>1. ASSUME m = 0, ~Dropped(M, f) PROVE Claim(fs, hs, L, x, f, m)
    BY <2>1 DEF Claim, FrameStays
  <2>2. ASSUME NEW j \in 1..Len(hs1), hs1[j].frame = f, m = Top(hs1[j].scopes).c
        PROVE  Claim(fs, hs, L, x, f, m)
    BY <1>2, <2>2 DEF Claim
  <2>3. ASSUME NEW l \in M, l.k = "catch", l.from = f, m = Top(l.h.scopes).c
        PROVE  Claim(fs, hs, L, x, f, m)
    BY <2>3 DEF FrameStays
  <2>4. Exact(gs, M, y, f, m) => Claim(fs, hs, L, x, f, m)
    BY DEF FrameStays
  <2>5. Dropped(L, f) => Dropped(M, f)
    BY DEF FrameStays
  <2>6. \/ m = 0 /\ ~Dropped(M, f)
        \/ Exact(gs, M, y, f, m)
        \/ \E j \in 1..Len(hs1) : hs1[j].frame = f /\ m = Top(hs1[j].scopes).c
        \/ \E l \in M : l.k = "catch" /\ l.from = f /\ m = Top(l.h.scopes).c
    BY DEF Claim
  <2> QED
    BY <2>1, <2>2, <2>3, <2>4, <2>5, <2>6
<1>4. ClaimsHeld(gs, hs1, ds, M, y)
  <2>1. ClaimsHeld(fs, hs, ds, L, x)
    BY DEF OwnInv
  <2>2. Unchanged(ds, ds, Len(ds))
    BY <1>1 DEF Unchanged
  <2>3. Len(gs) \in {Len(gs), Len(gs) + 1} /\ Len(gs) # Len(gs) + 1
    BY <1>1
  <2>4. \A f \in s..Len(gs) : Dropped(L, f) => Dropped(M, f)
    BY DEF FrameStays
  <2>5. ClaimsMay(fs, hs, ds, L, x, gs, hs1, ds, M, y, s, Len(gs), Len(ds))
    BY <1>2, <1>3, <2>3, <2>4 DEF ClaimsMay
  <2> QED
    BY <2>1, <2>2, <2>5, ClaimsKept
<1>5. ExactlyHeld(gs, ds, M, y)
  <2>1. \A f \in s..Len(gs), m \in Nat :
          Exact(gs, M, y, f, m) => gs[f].base + m = NextBase(gs, ds, f)
    BY DEF FrameStays
  <2> QED
    BY <1>1, <2>1, ExactKept DEF OwnInv
<1>6. HandlersFit(gs, hs1, M)
  <2>1. \A j \in 1..n : /\ hs[j].frame \in Nat /\ hs[j].frame > 0
                        /\ hs[j].frame <= Len(gs)
    BY <1>1
  <2>2. HandlersFit(fs, hs, L)
    BY DEF OwnInv
  <2>3. \A j \in 1..n : hs[j].frame >= s =>
          /\ hs[j].frame <= Len(gs)
          /\ \/ ScopesOf(gs, M, hs[j].frame) \subseteq ScopesOf(fs, L, hs[j].frame)
             \/ \A ss \in ScopesOf(gs, M, hs[j].frame) : PushedIn(hs[j], gs[hs[j].frame], ss)
    BY <2>1 DEF HandlerStays
  <2>4. \A j \in 1..n : hs[j].frame \in Nat /\ hs[j].frame > 0
    BY <2>1
  <2>5. HandlersMay(fs, L, gs, M, hs, n, hs1, s, Len(gs))
    BY <1>2, <2>3, <2>4 DEF HandlersMay
  <2> QED
    BY <1>1, <2>2, <2>5, HandlersKept
<1>7. LoopsFit(gs, M)
  BY LoopsKept DEF OwnInv, LoopStays
<1> QED
  BY <1>4, <1>5, <1>6, <1>7 DEF OwnInv

\* A frame on which no loop works.
FreeIn(M, f) ==
    \A l \in M : l.at \in Nat /\ l.at < f /\ (l.k = "catch" => l.from \in 1..l.at)

\* A frame that no loop works on goes on, and counts on what its scope has compiled.
LEMMA FreeFrame ==
    ASSUME NEW gs, NEW M, NEW f \in Nat, FreeIn(M, f)
    PROVE  /\ ~Dropped(M, f)
           /\ GoesOn(M, f)
           /\ ScopesOf(gs, M, f) = {gs[f].scopes}
           /\ \A l \in M : l.at # f /\ (l.k = "catch" => l.from # f)
<1> USE DEF FreeIn
<1>1. ~Dropped(M, f)
  BY DEF Dropped
<1>2. \A l \in M : l.at # f /\ (l.k = "catch" => l.from # f)
  OBVIOUS
<1>3. GoesOn(M, f)
  BY <1>1, <1>2 DEF GoesOn
<1>4. ScopesOf(gs, M, f) = {gs[f].scopes}
  BY <1>2 DEF ScopesOf
<1> QED
  BY <1>1, <1>2, <1>3, <1>4

\* What such a frame has on the defer stack.
LEMMA FreeExact ==
    ASSUME NEW gs, NEW M, NEW f \in Nat, FreeIn(M, f), NEW x
    PROVE  /\ \A m : Exact(gs, M, x, f, m) => m = Top(gs[f].scopes).c
           /\ f = Len(gs) /\ x # "none" => \A m : ~Exact(gs, M, x, f, m)
           /\ f # Len(gs) \/ x = "none" => Exact(gs, M, x, f, Top(gs[f].scopes).c)
<1>1. GoesOn(M, f) /\ \A l \in M : l.at # f
  BY FreeFrame
<1> QED
  BY <1>1 DEF Exact

\* What a frame below a new one counts on is held, or was some frame's claim before.
FrameCalls(fs, hs, ds, L, x, gs, ds1, M, y, f) ==
    /\ Dropped(L, f) => Dropped(M, f)
    /\ ScopesOf(gs, M, f) \subseteq ScopesOf(fs, L, f)
    /\ \A m \in Nat : Claim(gs, hs, M, y, f, m) =>
         \/ Held(gs, ds1, M, f, m)
         \/ Claim(fs, hs, L, x, f, m) /\ (Len(ds1) = Len(ds) \/ fs[f].base + m <= Len(ds1))
    /\ \A m \in Nat : Exact(gs, M, y, f, m) => fs[f].base + m = gs[f + 1].base

\* A step that pushes a frame: the defers from K up are gone, and those below count for
\* the frames from s up only as far as K.
LEMMA OwnPush ==
    ASSUME NEW fs \in Seq(GoodFrame), NEW gs \in Seq(GoodFrame),
           NEW ds \in Seq(Nat), NEW ds1 \in Seq(Nat), NEW hs \in Seq(GoodHandler),
           NEW L, NEW M, NEW x, NEW y,
           OwnInv(fs, hs, ds, L, x),
           Len(gs) = Len(fs) + 1, \A f \in 1..Len(fs) : gs[f] = fs[f],
           gs[Len(gs)].base = Len(ds1), Top(gs[Len(gs)].scopes).c = 0,
           Len(ds1) <= Len(ds), \A p \in 1..Len(ds1) : ds1[p] = ds[p],
           \A j \in 1..Len(hs) : hs[j].frame \in 1..Len(fs),
           \A l \in M : l.at \in 1..Len(fs) /\ (l.k = "catch" => l.from \in 1..l.at),
           NEW s, s \in 1..Len(fs) \/ (s = 1 /\ Len(fs) = 0),
           \A f \in 1..(s - 1) : AlikeAt(fs, L, gs, M, f),
           Len(ds1) = Len(ds) \/ s = 1 \/ (fs[s].base <= Len(ds1) /\ ~Dropped(L, s)),
           \A f \in s..Len(fs) : FrameCalls(fs, hs, ds, L, x, gs, ds1, M, y, f),
           \A l \in M : LoopStays(L, gs, s, l)
    PROVE  OwnInv(gs, hs, ds1, M, y)
<1> DEFINE e == Len(fs)
           K == Len(ds1)
<1>1. /\ e \in Nat /\ Len(gs) \in Nat /\ Len(ds) \in Nat /\ K \in Nat /\ Len(hs) \in Nat
      /\ s \in 1..(e + 1) /\ (s <= e \/ s = 1) /\ Len(gs) = e + 1
  BY LenProperties
<1> HIDE DEF e
<1>2. SameUpTo(fs, L, gs, M, s, e)
  <2>1. SameFrames(fs, gs, e)
    BY DEF SameFrames, e
  <2>2. \A f \in 1..(s - 1) : /\ f # Len(fs) /\ f # Len(gs)
                              /\ gs[f + 1].base = fs[f + 1].base
    <3>1. \A f \in 1..(s - 1) : f # e /\ f # e + 1 /\ f + 1 \in 1..e
      BY <1>1
    <3> QED
      BY <1>1, <3>1 DEF e
  <2> QED
    BY <1>1, <2>1, <2>2 DEF SameUpTo, e
<1>3. FreeIn(M, e + 1)
  BY <1>1 DEF e, FreeIn
<1>4. /\ \A l \in M : l.k = "catch" => l.from # e + 1
      /\ \A m : Exact(gs, M, y, e + 1, m) => m = 0
  <2> DEFINE g == e + 1
  <2>1. g \in Nat /\ Top(gs[g].scopes).c = 0
    BY <1>1
  <2> HIDE DEF g
  <2>2. FreeIn(M, g)
    BY <1>3 DEF g
  <2>3. \A l \in M : l.k = "catch" => l.from # g
    <3>1. \A l \in M : l.at # g /\ (l.k = "catch" => l.from # g)
      BY <2>1, <2>2, FreeFrame
    <3> QED
      BY <3>1
  <2>4. \A m : Exact(gs, M, y, g, m) => m = Top(gs[g].scopes).c
    BY <2>1, <2>2, FreeExact
  <2> QED
    BY <2>1, <2>3, <2>4 DEF g
<1>5. \A m \in Nat : Claim(gs, hs, M, y, e + 1, m) => m = 0
  <2>1. \A j \in 1..Len(hs) : hs[j].frame # e + 1
    BY <1>1 DEF e
  <2> QED
    BY <1>4, <2>1 DEF Claim
<1>6. ClaimsHeld(gs, hs, ds1, M, y)
  <2>1. ClaimsHeld(fs, hs, ds, L, x)
    BY DEF OwnInv
  <2>2. K <= K /\ gs[e + 1].base = K /\ (s <= Len(fs) \/ s = 1)
    BY <1>1 DEF e
  <2>3. \A f \in s..e : Dropped(L, f) => Dropped(M, f)
    BY DEF e, FrameCalls
  <2>4. \A f \in s..e, m \in Nat : Claim(gs, hs, M, y, f, m) =>
             \/ Held(gs, ds1, M, f, m)
             \/ Claim(fs, hs, L, x, f, m) /\ (K = Len(ds) \/ fs[f].base + m <= K)
    BY DEF e, FrameCalls
  <2>5. \A j \in 1..Len(hs) : hs[j].frame < s => j \in 1..Len(hs) /\ hs[j] = hs[j]
    OBVIOUS
  <2>6. K = Len(ds) \/ s = 1 \/ (s <= Len(fs) /\ fs[s].base <= K /\ ~Dropped(L, s))
    BY <2>2
  <2>7. Len(gs) \in {e, e + 1}
    BY <1>1
  <2>8. Unchanged(ds, ds1, K)
    BY <1>1 DEF Unchanged
  <2>9. ClaimsMay(fs, hs, ds, L, x, gs, hs, ds1, M, y, s, e, K)
    BY <1>5, <2>2, <2>3, <2>4, <2>5, <2>6, <2>7 DEF ClaimsMay
  <2> HIDE DEF K
  <2> QED
    BY <1>2, <2>1, <2>8, <2>9, ClaimsKept
<1>7. ExactlyHeld(gs, ds1, M, y)
  <2>1. ASSUME NEW f \in s..Len(gs), NEW m \in Nat, Exact(gs, M, y, f, m)
        PROVE  gs[f].base + m = NextBase(gs, ds1, f)
    <3>1. CASE f \in s..e
      <4>1. f # Len(gs) /\ f \in 1..Len(fs)
        BY <1>1, <3>1 DEF e
      <4>2. fs[f].base + m = gs[f + 1].base
        BY <2>1, <3>1 DEF e, FrameCalls
      <4> QED
        BY <4>1, <4>2 DEF NextBase
    <3>2. CASE f = e + 1
      <4>1. m = 0 /\ f = Len(gs)
        BY <1>1, <1>4, <2>1, <3>2
      <4>2. gs[f].base = Len(ds1) /\ Len(ds1) \in Nat
        BY <1>1, <4>1
      <4> QED
        BY <4>1, <4>2 DEF NextBase
    <3> QED
      BY <1>1, <3>1, <3>2
  <2>2. ExactlyHeld(fs, ds, L, x)
    BY DEF OwnInv
  <2> QED
    BY <1>1, <1>2, <2>1, <2>2, ExactKept DEF e
<1>8. HandlersFit(gs, hs, M)
  <2>1. \A j \in 1..Len(hs) : hs[j].frame \in Nat /\ hs[j].frame > 0 /\ hs[j].frame <= e
    BY <1>1 DEF e
  <2>2. \A j \in 1..Len(hs) : hs[j].frame >= s =>
          /\ hs[j].frame <= e
          /\ ScopesOf(gs, M, hs[j].frame) \subseteq ScopesOf(fs, L, hs[j].frame)
    BY <1>1, <2>1 DEF e, FrameCalls
  <2>4. \A j \in 1..Len(hs) : hs[j].frame \in Nat /\ hs[j].frame > 0
    BY <2>1
  <2>3. HandlersFit(fs, hs, L) /\ Len(hs) \in 0..Len(hs)
    BY <1>1 DEF OwnInv
  <2>5. HandlersMay(fs, L, gs, M, hs, Len(hs), hs, s, e)
    BY <2>2, <2>4 DEF HandlersMay
  <2> QED
    BY <1>1, <1>2, <2>3, <2>5, HandlersKept
<1>9. LoopsFit(gs, M)
  BY <1>2, LoopsKept DEF OwnInv, LoopStays
<1> QED
  BY <1>6, <1>7, <1>8, <1>9 DEF OwnInv

----------------------------------------------------------------------------
(* Steps of the frame on top while the interpreter is running it.           *)

\* A step that changes only the frame on top, may drop handlers, and ends the loops S
\* on that frame and starts the loops T.
LEMMA OwnTopStep ==
    ASSUME NEW fs \in Seq(GoodFrame), NEW gs \in Seq(GoodFrame),
           NEW d \in Nat \ {0}, Len(fs) = d, Len(gs) = d,
           NEW ds \in Seq(Nat), NEW hs \in Seq(GoodHandler),
           SameFrames(fs, gs, d),
           \A f \in 1..(d - 1) : gs[f].scopes = fs[f].scopes,
           NEW n \in 0..Len(hs),
           \A j \in 1..Len(hs) : hs[j].frame \in 1..d,
           \A j \in 1..n : hs[j].frame = d => PushedIn(hs[j], fs[d], gs[d].scopes),
           NEW P, \A l \in P : l.at \in 1..(d - 1) /\ (l.k = "catch" => l.from \in 1..l.at),
           NEW S, NEW T, \A t \in S \cup T : t.at = d /\ t.k \notin Unwinding,
           \A t \in T : LoopFits(gs, t),
           NEW x, NEW y, OwnInv(fs, hs, ds, P \cup S, x),
           \A m \in Nat : Exact(gs, P \cup T, y, d, m) =>
             Claim(fs, hs, P \cup S, x, d, m) /\ fs[d].base + m = Len(ds)
    PROVE  OwnInv(gs, Cut(hs, n), ds, P \cup T, y)
<1> DEFINE L == P \cup S
           M == P \cup T
<1>1. FreeIn(P, d) /\ Len(hs) \in Nat
  BY LenProperties DEF FreeIn
<1>2. d \in 1..d /\ gs[d].base = fs[d].base
  BY DEF SameFrames
<1>3. \A l \in L \cup M : l \in L \cap M \/ (l.at = d /\ l.k \notin Unwinding)
  OBVIOUS
<1>4. /\ ~Dropped(L, d) /\ \A l \in L : l.k = "catch" => l.from # d
      /\ ~Dropped(M, d) /\ \A l \in M : l.k = "catch" => l.from # d
  <2>1. ~Dropped(P, d) /\ \A l \in P : l.k = "catch" => l.from # d
    BY <1>1, FreeFrame
  <2>2. \A l \in L \cup M : l \in P \/ l.k \notin Unwinding
    OBVIOUS
  <2> HIDE DEF L, M
  <2> QED
    BY <2>1, <2>2, LoopKindsDiffer DEF Dropped
<1>5. \A l \in M : LoopStays(L, gs, d, l)
  BY DEF LoopStays
<1>6. /\ OwnInv(fs, hs, ds, L, x)
      /\ \A m \in Nat : Exact(gs, M, y, d, m) => Claim(fs, hs, L, x, d, m) /\ fs[d].base + m = Len(ds)
  OBVIOUS
<1> HIDE DEF L, M
<1>7. \A f \in 1..(d - 1) : AlikeAt(fs, L, gs, M, f)
  <2>1. \A f \in 1..(d - 1) : f # d /\ gs[f].scopes = fs[f].scopes
    OBVIOUS
  <2> QED
    BY <1>3, <2>1 DEF AlikeAt, Apart
<1>8. SameUpTo(fs, L, gs, M, d, d)
  <2>1. \A f \in 1..(d - 1) : f # d /\ f + 1 \in 1..d
    OBVIOUS
  <2>2. \A f \in 1..(d - 1) : gs[f + 1].base = fs[f + 1].base
    BY <2>1 DEF SameFrames
  <2>3. d \in 1..(d + 1) /\ d \in Nat /\ d <= d
    OBVIOUS
  <2> QED
    BY <1>7, <2>1, <2>2, <2>3 DEF SameUpTo
<1>9. FrameStays(fs, hs, L, x, gs, ds, M, y, d)
  <2>1. NextBase(gs, ds, d) = Len(ds)
    BY DEF NextBase
  <2> QED
    BY <1>2, <1>4, <1>6, <2>1 DEF FrameStays
<1>10. \A j \in 1..n : hs[j].frame >= d => HandlerStays(fs, L, gs, M, hs[j])
  <2> SUFFICES ASSUME NEW j \in 1..n, hs[j].frame >= d
               PROVE  HandlerStays(fs, L, gs, M, hs[j])
    OBVIOUS
  <2>1. hs[j].frame = d
    BY <1>1
  <2>2. PushedIn(hs[j], gs[d], gs[d].scopes)
    BY <1>2, <2>1 DEF PushedIn
  <2>3. ScopesOf(gs, M, d) = {gs[d].scopes}
    BY <1>4 DEF ScopesOf
  <2> QED
    BY <2>1, <2>2, <2>3 DEF HandlerStays
<1>11. /\ \A j \in 1..n : hs[j].frame \in 1..d
       /\ \A f \in d..d : FrameStays(fs, hs, L, x, gs, ds, M, y, f)
  BY <1>1, <1>9
<1>12. OwnInv(gs, Cut(hs, n), ds, M, y)
  BY <1>5, <1>6, <1>8, <1>10, <1>11, OwnStay
<1> QED
  BY <1>12 DEF M

\* What the invariants say while the interpreter runs the frame on top.
LEMMA OwnRunning ==
    ASSUME IInv, UInv("tidy"), OInv, Running
    PROVE  /\ frames \in Seq(GoodFrame) /\ frames # <<>> /\ Len(frames) \in Nat \ {0}
           /\ handlers \in Seq(GoodHandler) /\ Len(handlers) \in Nat
           /\ handlers = Cut(handlers, Len(handlers)) /\ Len(handlers) \in 0..Len(handlers)
           /\ \A j \in 1..Len(handlers) : handlers[j].frame \in 1..Len(frames)
           /\ deferStack \in Seq(Nat) /\ Len(deferStack) \in Nat
           /\ HostInv(host, Len(frames)) /\ host # <<>> /\ Top(host).k \in RunKinds
           /\ Top(host).n \in Nat /\ Top(host).n < Len(frames)
           /\ \A l \in CurLoops : /\ GoodLoop(l, Len(frames))
                                  /\ l.at \in 1..(Len(frames) - 1)
                                  /\ l.k = "catch" => l.from \in 1..l.at
           /\ FreeIn(CurLoops, Len(frames))
           /\ Cur = frames[Len(frames)]
           /\ exc = "none"
           /\ Exact(frames, CurLoops, exc, Len(frames), CurScope.c)
           /\ Cur.base \in Nat /\ CurScope.c \in Nat
           /\ Cur.base + CurScope.c = Len(deferStack)
<1>1. /\ host # <<>> /\ Top(host).k \in RunKinds /\ Top(host).n < Len(frames)
      /\ exc = "none" /\ Top(host).n \in Nat
  BY RunningFacts, FrameFacts DEF Running, At
<1>2. /\ frames \in Seq(GoodFrame) /\ handlers \in Seq(GoodHandler)
      /\ deferStack \in Seq(Nat) /\ HostInv(host, Len(frames))
  BY DEF IInv
<1>3. /\ frames # <<>> /\ Len(frames) \in Nat \ {0} /\ Len(deferStack) \in Nat
      /\ Cur.base \in Nat /\ CurScope \in Scope /\ Cur = frames[Len(frames)]
  BY <1>1, <1>2, FrameFacts, LenProperties DEF Cur, Top
<1>4. CurScope.c \in Nat
  BY <1>3 DEF Scope
<1>5. /\ handlers = Cut(handlers, Len(handlers)) /\ Len(handlers) \in 0..Len(handlers)
      /\ Len(handlers) \in Nat
  BY HandlersBelow
<1>6. \A j \in 1..Len(handlers) : handlers[j].frame \in 1..Len(frames)
  BY DEF UInv, LiveHandlers
<1>7. \A l \in CurLoops : GoodLoop(l, Len(frames)) /\ l.at <= Top(host).n
  BY <1>1, <1>2, <1>3, LoopsType DEF CurLoops
<1>8. \A l \in CurLoops : l.at \in 1..(Len(frames) - 1)
  BY <1>1, <1>3, <1>7 DEF GoodLoop
<1>9. \A l \in CurLoops : l.k = "catch" => l.from \in 1..l.at
  BY DEF OInv, OwnInv, LoopsFit, LoopFits
<1>10. FreeIn(CurLoops, Len(frames))
  BY <1>3, <1>8, <1>9 DEF FreeIn
<1>11. Exact(frames, CurLoops, exc, Len(frames), CurScope.c)
  BY <1>1, <1>3, <1>10, FreeExact DEF CurScope
<1>12. Cur.base + CurScope.c = Len(deferStack)
  BY <1>3, <1>4, <1>11 DEF OInv, OwnInv, ExactlyHeld, NextBase
<1> QED
  BY <1>1, <1>2, <1>3, <1>4, <1>5, <1>6, <1>7, <1>8, <1>9, <1>10, <1>11, <1>12

\* A step that changes only the frame on top, may drop handlers, and may start loops
\* on that frame.
LEMMA OwnTop ==
    ASSUME IInv, UInv("tidy"), OInv, Running,
           NEW gs \in Seq(GoodFrame), Len(gs) = Len(frames),
           SameFrames(frames, gs, Len(frames)),
           \A f \in 1..(Len(frames) - 1) : gs[f].scopes = frames[f].scopes,
           NEW n \in 0..Len(handlers),
           \A j \in 1..n : handlers[j].frame = Len(frames) =>
             PushedIn(handlers[j], frames[Len(frames)], gs[Len(frames)].scopes),
           NEW T, \A t \in T : /\ t.at = Len(frames)
                               /\ t.k \notin Unwinding
                               /\ LoopFits(gs, t),
           NEW y,
           \A m \in Nat : Exact(gs, CurLoops \cup T, y, Len(frames), m) => m = CurScope.c
    PROVE  OwnInv(gs, Cut(handlers, n), deferStack, CurLoops \cup T, y)
<1> DEFINE d == Len(frames)
<1>1. /\ d \in Nat \ {0} /\ handlers \in Seq(GoodHandler)
      /\ frames \in Seq(GoodFrame) /\ deferStack \in Seq(Nat)
      /\ \A j \in 1..Len(handlers) : handlers[j].frame \in 1..d
      /\ \A l \in CurLoops : l.at \in 1..(d - 1) /\ (l.k = "catch" => l.from \in 1..l.at)
      /\ Exact(frames, CurLoops, exc, d, CurScope.c)
      /\ frames[d].base + CurScope.c = Len(deferStack)
  BY OwnRunning
<1>2. OwnInv(frames, handlers, deferStack, CurLoops \cup {}, exc)
  BY DEF OInv
<1>3. \A m \in Nat : Exact(gs, CurLoops \cup T, y, d, m) =>
        Claim(frames, handlers, CurLoops \cup {}, exc, d, m) /\ frames[d].base + m = Len(deferStack)
  <2>1. \A m \in Nat : Exact(gs, CurLoops \cup T, y, d, m) => m = CurScope.c
    OBVIOUS
  <2>2. Claim(frames, handlers, CurLoops \cup {}, exc, d, CurScope.c)
    BY <1>1 DEF Claim
  <2> QED
    BY <1>1, <2>1, <2>2
<1>4. /\ \A t \in {} \cup T : t.at = d /\ t.k \notin Unwinding
      /\ \A t \in T : LoopFits(gs, t)
      /\ Len(gs) = d /\ SameFrames(frames, gs, d) /\ Len(frames) = d
      /\ \A f \in 1..(d - 1) : gs[f].scopes = frames[f].scopes
      /\ \A j \in 1..n : handlers[j].frame = d =>
           PushedIn(handlers[j], frames[d], gs[d].scopes)
  OBVIOUS
<1> HIDE DEF d
<1> QED
  BY ZenonT(60), <1>1, <1>2, <1>3, <1>4, OwnTopStep

\* A handler still fits when the scopes around its try stay, and the try.
LEMMA PushedSame ==
    ASSUME NEW h \in GoodHandler, NEW fr, NEW ss \in GoodScopes, NEW qq \in GoodScopes,
           PushedIn(h, fr, ss), Len(h.scopes) < Len(qq),
           \A i \in 1..Len(h.scopes) : qq[i] = ss[i],
           qq[Len(h.scopes) + 1].try = ss[Len(h.scopes) + 1].try
    PROVE  PushedIn(h, fr, qq)
<1> DEFINE n == Len(h.scopes)
<1>1. n \in Nat /\ ss \in Seq(Scope) /\ qq \in Seq(Scope) /\ Len(ss) \in Nat /\ Len(qq) \in Nat
  <2>1. h.scopes \in Seq(Scope)
    BY DEF GoodHandler, GoodScopes
  <2> QED
    BY <2>1, LenProperties DEF GoodScopes
<1>2. n < Len(ss) /\ n < Len(qq)
  BY DEF PushedIn
<1> HIDE DEF n
<1>3. n \in 0..Len(ss) /\ n \in 0..Len(qq)
  BY <1>1, <1>2
<1>4. /\ Cut(ss, n) \in Seq(Scope) /\ Len(Cut(ss, n)) = n
      /\ \A i \in 1..n : Cut(ss, n)[i] = ss[i]
  BY <1>1, <1>3, CutType
<1>5. /\ Cut(qq, n) \in Seq(Scope) /\ Len(Cut(qq, n)) = n
      /\ \A i \in 1..n : Cut(qq, n)[i] = qq[i]
  BY <1>1, <1>3, CutType
<1>6. \A i \in 1..n : Cut(qq, n)[i] = Cut(ss, n)[i]
  BY <1>4, <1>5 DEF n
<1>7. Cut(qq, n) = Cut(ss, n)
  BY <1>4, <1>5, <1>6, SeqEqual
<1> QED
  BY <1>7 DEF PushedIn, n

\* The program counter of the top frame moves to other scopes.
LEMMA MovedScopes ==
    ASSUME NEW fs \in Seq(GoodFrame), fs # <<>>, NEW ss \in GoodScopes,
           NEW gs, gs = [fs EXCEPT ![Len(fs)].scopes = ss]
    PROVE  /\ gs \in Seq(GoodFrame) /\ Len(gs) = Len(fs)
           /\ SameFrames(fs, gs, Len(fs))
           /\ gs[Len(fs)].scopes = ss
           /\ \A f \in 1..(Len(fs) - 1) : gs[f] = fs[f]
<1>1. gs \in Seq(GoodFrame) /\ Len(gs) = Len(fs) /\ SameFrames(fs, gs, Len(fs))
  BY MoveTopFrame, MoveTopSame
<1>2. Len(fs) \in 1..Len(fs) /\ DOMAIN fs = 1..Len(fs) /\ fs[Len(fs)] \in GoodFrame
  BY TopType, LenProperties DEF Top
<1>3. gs[Len(fs)].scopes = ss
  BY <1>2 DEF GoodFrame
<1>4. \A f \in 1..(Len(fs) - 1) : gs[f] = fs[f]
  BY <1>2
<1> QED
  BY <1>1, <1>3, <1>4

\* Scopes, and the last of them.
LEMMA ScopeFacts ==
    ASSUME NEW ss \in GoodScopes
    PROVE  /\ ss \in Seq(Scope) /\ Len(ss) \in Nat \ {0} /\ Top(ss) = ss[Len(ss)]
           /\ \A i \in 1..Len(ss) : ss[i] \in Scope /\ ss[i].c \in Nat /\ ss[i].try \in BOOLEAN
           /\ \A i, j \in 1..Len(ss) : i <= j => ss[i].c <= ss[j].c
<1>1. /\ ss \in Seq(Scope) /\ ss # <<>>
      /\ \A i, j \in 1..Len(ss) : i <= j => ss[i].c <= ss[j].c
  BY DEF GoodScopes
<1>2. Len(ss) \in Nat \ {0} /\ Top(ss) = ss[Len(ss)]
  BY <1>1, TopType DEF Top
<1>3. \A i \in 1..Len(ss) : ss[i] \in Scope
  BY <1>1, ElementOfSeq
<1>4. \A i \in 1..Len(ss) : ss[i].c \in Nat /\ ss[i].try \in BOOLEAN
  BY <1>3 DEF Scope
<1> QED
  BY <1>1, <1>2, <1>3, <1>4

\* The handlers of the frame on top, while it runs.
LEMMA TopHandlers ==
    ASSUME IInv, UInv("tidy"), OInv, Running, NEW j \in 1..Len(handlers),
           handlers[j].frame = Len(frames)
    PROVE  /\ handlers[j] \in GoodHandler
           /\ PushedIn(handlers[j], frames[Len(frames)], frames[Len(frames)].scopes)
           /\ frames[Len(frames)].scopes \in GoodScopes
           /\ Len(handlers[j].scopes) \in Nat
<1>1. /\ Len(frames) \in Nat /\ FreeIn(CurLoops, Len(frames))
      /\ handlers \in Seq(GoodHandler) /\ Cur = frames[Len(frames)] /\ host # <<>>
  BY OwnRunning
<1>2. ScopesOf(frames, CurLoops, Len(frames)) = {frames[Len(frames)].scopes}
  BY <1>1, FreeFrame
<1>3. HandlersFit(frames, handlers, CurLoops)
  BY DEF OInv, OwnInv
<1>4. handlers[j] \in GoodHandler
  BY <1>1, ElementOfSeq
<1>5. Len(handlers[j].scopes) \in Nat
  <2>1. handlers[j].scopes \in Seq(Scope)
    BY <1>4 DEF GoodHandler, GoodScopes
  <2> QED
    BY <2>1, LenProperties
<1>6. PushedIn(handlers[j], frames[Len(frames)], frames[Len(frames)].scopes)
  BY <1>2, <1>3 DEF HandlersFit
<1> QED
  BY <1>1, <1>4, <1>5, <1>6, FrameFacts

\* Entering a block: where it can be left to, nothing changes.
LEMMA DeeperFits ==
    ASSUME IInv, UInv("tidy"), OInv, Running, NEW t \in BOOLEAN,
           NEW gs, gs = [frames EXCEPT ![Len(frames)].scopes =
                           Append(Cur.scopes, [try |-> t, c |-> CurScope.c])]
    PROVE  /\ OwnInv(gs, handlers, deferStack, CurLoops, exc)
           /\ Len(gs) = Len(frames)
           /\ gs \in Seq(GoodFrame)
           /\ SameFrames(frames, gs, Len(frames))
           /\ gs[Len(frames)].scopes = Append(Cur.scopes, [try |-> t, c |-> CurScope.c])
           /\ Top(gs[Len(frames)].scopes).c = CurScope.c
<1> DEFINE d == Len(frames)
           e == [try |-> t, c |-> CurScope.c]
           ss == Append(Cur.scopes, e)
<1>1. /\ frames \in Seq(GoodFrame) /\ frames # <<>> /\ d \in Nat \ {0}
      /\ handlers = Cut(handlers, Len(handlers)) /\ Len(handlers) \in 0..Len(handlers)
      /\ Cur = frames[d] /\ Cur.scopes \in GoodScopes /\ CurScope.c \in Nat
      /\ FreeIn(CurLoops, d)
  BY OwnRunning, FrameFacts
<1>2. ss \in GoodScopes
  BY <1>1, EnterScope DEF CurScope
<1>3. /\ Cur.scopes \in Seq(Scope) /\ Len(Cur.scopes) \in Nat /\ e \in Scope
  BY <1>1, ScopeFacts DEF Scope
<1>4. /\ Len(ss) = Len(Cur.scopes) + 1 /\ Top(ss) = e
      /\ \A i \in 1..Len(Cur.scopes) : ss[i] = Cur.scopes[i]
  <2> HIDE DEF e
  <2> QED
    BY <1>3, PushType
<1>12. gs = [frames EXCEPT ![Len(frames)].scopes = ss] /\ e.c = CurScope.c
  OBVIOUS
<1> HIDE DEF ss, e
<1>5. /\ gs \in Seq(GoodFrame) /\ Len(gs) = d /\ SameFrames(frames, gs, d)
      /\ gs[d].scopes = ss /\ \A f \in 1..(d - 1) : gs[f].scopes = frames[f].scopes
  <2>1. \A f \in 1..(Len(frames) - 1) : gs[f] = frames[f]
    BY <1>1, <1>2, <1>12, MovedScopes
  <2> QED
    BY <1>1, <1>2, <1>12, <2>1, MovedScopes
<1>6. \A j \in 1..Len(handlers) : handlers[j].frame = d =>
        PushedIn(handlers[j], frames[d], gs[d].scopes)
  <2> SUFFICES ASSUME NEW j \in 1..Len(handlers), handlers[j].frame = d
               PROVE  PushedIn(handlers[j], frames[d], ss)
    BY <1>5
  <2>1. /\ handlers[j] \in GoodHandler /\ Len(handlers[j].scopes) \in Nat
        /\ PushedIn(handlers[j], frames[d], Cur.scopes)
    BY <1>1, TopHandlers
  <2>2. Len(handlers[j].scopes) < Len(Cur.scopes)
    BY <2>1 DEF PushedIn
  <2>3. \A i \in 1..(Len(handlers[j].scopes) + 1) : ss[i] = Cur.scopes[i]
    BY <1>3, <1>4, <2>1, <2>2
  <2>4. /\ Len(handlers[j].scopes) < Len(ss)
        /\ ss[Len(handlers[j].scopes) + 1] = Cur.scopes[Len(handlers[j].scopes) + 1]
        /\ \A i \in 1..Len(handlers[j].scopes) : ss[i] = Cur.scopes[i]
    <3> DEFINE k == Len(handlers[j].scopes)
    <3>1. k \in Nat /\ k < Len(Cur.scopes) /\ \A i \in 1..(k + 1) : ss[i] = Cur.scopes[i]
      BY <2>1, <2>2, <2>3
    <3> HIDE DEF k
    <3>2. k < Len(ss) /\ k + 1 \in 1..(k + 1) /\ \A i \in 1..k : i \in 1..(k + 1)
      BY <1>3, <1>4, <3>1
    <3>3. k < Len(ss) /\ ss[k + 1] = Cur.scopes[k + 1] /\ \A i \in 1..k : ss[i] = Cur.scopes[i]
      BY <3>1, <3>2
    <3> QED
      BY <3>3 DEF k
  <2> QED
    BY <1>1, <1>2, <2>1, <2>4, PushedSame
<1>7. Top(gs[d].scopes).c = CurScope.c
  BY <1>4, <1>5, <1>12
<1>8. \A m \in Nat : Exact(gs, CurLoops \cup {}, exc, d, m) => m = CurScope.c
  <2>1. \A m : Exact(gs, CurLoops, exc, d, m) => m = Top(gs[d].scopes).c
    BY <1>1, FreeExact
  <2>2. CurLoops \cup {} = CurLoops
    OBVIOUS
  <2> QED
    BY <1>7, <2>1, <2>2
<1>9. \A x \in {} : x.at = Len(frames) /\ x.k \notin Unwinding /\ LoopFits(gs, x)
  OBVIOUS
<1>10. OwnInv(gs, Cut(handlers, Len(handlers)), deferStack, CurLoops \cup {}, exc)
  BY <1>1, <1>5, <1>6, <1>8, <1>9, OwnTop
<1>11. CurLoops \cup {} = CurLoops
  OBVIOUS
<1> QED
  BY <1>1, <1>5, <1>7, <1>10, <1>11 DEF ss, e

\* A block begins with the count of the scope around it.
LEMMA OwnEnterBlock ==
    ASSUME IInv, UInv("tidy"), OInv, EnterBlock
    PROVE  OInv'
<1>1. /\ Running /\ UNCHANGED <<handlers, deferStack, host, exc>>
      /\ frames' = [frames EXCEPT ![Len(frames)].scopes =
                           Append(Cur.scopes, [try |-> FALSE, c |-> CurScope.c])]
  BY DEF EnterBlock, SetScopes
<1>2. OwnInv(frames', handlers, deferStack, CurLoops, exc) /\ Len(frames') = Len(frames)
  BY <1>1, DeeperFits
<1>3. CurLoops' = CurLoops
  BY <1>1, <1>2 DEF CurLoops
<1> QED
  BY <1>1, <1>2, <1>3 DEF OInv

\* An error leaves open how many defers the frame on top has.
LEMMA OwnThrow ==
    ASSUME IInv, UInv("tidy"), OInv, Running, exc' = "value",
           UNCHANGED <<frames, handlers, deferStack, host>>
    PROVE  OInv'
<1> DEFINE d == Len(frames)
<1>1. /\ frames \in Seq(GoodFrame) /\ frames # <<>> /\ d \in Nat \ {0}
      /\ handlers = Cut(handlers, Len(handlers)) /\ Len(handlers) \in 0..Len(handlers)
      /\ FreeIn(CurLoops, d)
  BY OwnRunning
<1>2. SameFrames(frames, frames, d)
  BY DEF SameFrames
<1>3. \A j \in 1..Len(handlers) : handlers[j].frame = d =>
        PushedIn(handlers[j], frames[d], frames[d].scopes)
  BY TopHandlers
<1>4. CurLoops \cup {} = CurLoops /\ CurLoops' = CurLoops
  BY DEF CurLoops
<1>5. \A m \in Nat : Exact(frames, CurLoops \cup {}, exc', d, m) => m = CurScope.c
  BY <1>1, <1>4, FreeExact
<1>6. \A x \in {} : x.at = Len(frames) /\ x.k \notin Unwinding /\ LoopFits(frames, x)
  OBVIOUS
<1>7. OwnInv(frames, Cut(handlers, Len(handlers)), deferStack, CurLoops \cup {}, exc')
  BY <1>1, <1>2, <1>3, <1>5, <1>6, OwnTop
<1> QED
  BY <1>1, <1>4, <1>7 DEF OInv

\* The frame on top is what a loop started by it works on.
LEMMA TopCounts ==
    ASSUME NEW gs, NEW L, NEW f \in Nat, FreeIn(L, f), NEW t, t.at = f, NEW y
    PROVE  /\ t.k \in OpKinds => \A m : Exact(gs, L \cup {t}, y, f, m) => m = Left(t, gs[f].scopes)
           /\ t.k \in {"return", "tail"} => \A m : ~Exact(gs, L \cup {t}, y, f, m)
<1>1. \A l \in L : l.at # f
  BY FreeFrame
<1>2. t \in L \cup {t} /\ \A l \in L \cup {t} : l.at = f => l = t
  BY <1>1
<1> QED
  BY <1>2 DEF Exact, GoesOn

\* The loops after one was started by the frame on top.
LEMMA StartedLoops ==
    ASSUME IInv, host # <<>>, Top(host).k \in RunKinds,
           NEW k \in LoopKinds \cup OpKinds, k # "catch", NEW n \in Nat,
           host' = Append(host, Host(k, n)), Len(frames') = Len(frames)
    PROVE  \E t : /\ CurLoops' = CurLoops \cup {t}
                  /\ t.k = k /\ t.n = n /\ t.at = Len(frames) /\ t.from = Top(host).n
<1> DEFINE r == Host(k, n)
           t == [k |-> r.k, n |-> r.n, h |-> r.h, at |-> Len(frames),
                 from |-> IF r.k = "catch" THEN r.h.frame ELSE Top(host).n]
<1>1. r \in HostRec /\ r.k = k /\ r.n = n /\ r.k \notin RunKinds /\ r.h = NoHandler
  BY HostType, KindsDiffer DEF Host
<1>2. HostInv(host, Len(frames)) /\ Len(frames) \in Nat
  BY LenProperties DEF IInv
<1> HIDE DEF r
<1>3. Loops(Append(host, r), Len(frames)) = Loops(host, Len(frames)) \cup
               {[k |-> r.k, n |-> r.n, h |-> r.h, at |-> Len(frames),
                 from |-> IF r.k = "catch" THEN r.h.frame ELSE Top(host).n]}
  BY <1>1, <1>2, LoopsPushLoop
<1>4. CurLoops' = Loops(Append(host, r), Len(frames))
  BY DEF CurLoops, r
<1>5. t.k = k /\ t.n = n /\ t.at = Len(frames) /\ t.from = Top(host).n
  BY <1>1
<1> HIDE DEF t
<1>6. CurLoops' = CurLoops \cup {t}
  BY <1>3, <1>4 DEF CurLoops, t
<1> QED
  BY <1>5, <1>6

\* The end of a scope, RETURN and a tail call start loops.
LEMMA OwnStartDefers ==
    ASSUME IInv, UInv("tidy"), OInv, EndScope \/ (Return /\ NotInTry) \/ TailCall
    PROVE  OInv'
<1> DEFINE d == Len(frames)
<1>1. Running /\ UNCHANGED <<frames, handlers, deferStack, exc, nextAct>>
  BY DEF EndScope, Return, TailCall
<1>2. /\ frames \in Seq(GoodFrame) /\ frames # <<>> /\ d \in Nat \ {0}
      /\ handlers = Cut(handlers, Len(handlers)) /\ Len(handlers) \in 0..Len(handlers)
      /\ FreeIn(CurLoops, d)
      /\ Cur = frames[d] /\ Cur.base \in Nat /\ Cur.scopes \in GoodScopes
      /\ CurScope.c \in Nat /\ host # <<>> /\ Top(host).k \in RunKinds
  BY <1>1, OwnRunning, FrameFacts
<1>3. SameFrames(frames, frames, d)
  BY DEF SameFrames
<1>4. \A j \in 1..Len(handlers) : handlers[j].frame = d =>
        PushedIn(handlers[j], frames[d], frames[d].scopes)
  BY <1>1, TopHandlers
<1>5. ASSUME NEW t, CurLoops' = CurLoops \cup {t},
             t.at = d, t.k \notin Unwinding, LoopFits(frames, t),
             \A m \in Nat : Exact(frames, CurLoops \cup {t}, exc, d, m) => m = CurScope.c
      PROVE  OInv'
  <2>1. \A x \in {t} : x.at = Len(frames) /\ x.k \notin Unwinding /\ LoopFits(frames, x)
    BY <1>5
  <2>2. OwnInv(frames, Cut(handlers, Len(handlers)), deferStack, CurLoops \cup {t}, exc)
    BY <1>1, <1>2, <1>3, <1>4, <1>5, <2>1, OwnTop
  <2> QED
    BY <1>1, <1>2, <1>5, <2>2 DEF OInv
<1>6. CASE EndScope
  <2>1. "endScope" \in OpKinds /\ CompiledDefers(1) \in Nat
    <3>1. 1 \in 1..Len(Cur.scopes)
      BY <1>2, ScopeFacts
    <3> QED
      BY <1>2, <3>1, CompiledDefersType DEF OpKinds
  <2>6. host' = Append(host, Host("endScope", CompiledDefers(1))) /\ "endScope" # "catch"
    BY <1>6 DEF EndScope
  <2>2. PICK t : /\ CurLoops' = CurLoops \cup {t}
                 /\ t.k = "endScope" /\ t.n = CompiledDefers(1) /\ t.at = d
    BY <1>1, <1>2, <2>1, <2>6, StartedLoops
  <2>3. Left(t, frames[d].scopes) = CurScope.c
    <3>1. Len(Cur.scopes) # 1 => Len(Cur.scopes) - 1 \in 1..Len(Cur.scopes)
      <4> DEFINE n == Len(Cur.scopes)
      <4>1. n \in Nat \ {0}
        BY <1>2, ScopeFacts
      <4> HIDE DEF n
      <4>2. n # 1 => n - 1 \in 1..n
        BY <4>1
      <4> QED
        BY <4>2 DEF n
    <3>2. Len(Cur.scopes) # 1 => Cur.scopes[Len(Cur.scopes) - 1].c \in Nat
      BY <1>2, <3>1, ScopeFacts
    <3>3. Len(Cur.scopes) \in Nat
      BY <1>2, ScopeFacts
    <3>4. Left(t, Cur.scopes) = CompiledDefers(1) +
            (IF Len(Cur.scopes) = 1 THEN 0 ELSE Cur.scopes[Len(Cur.scopes) - 1].c)
      BY <2>2 DEF Left
    <3>5. CompiledDefers(1) = CurScope.c -
            (IF Len(Cur.scopes) = 1 THEN 0 ELSE Cur.scopes[Len(Cur.scopes) - 1].c)
      BY <3>3 DEF CompiledDefers
    <3> QED
      BY <1>2, <3>2, <3>4, <3>5
  <2>4. LoopFits(frames, t) /\ t.k \notin Unwinding
    BY <2>2 DEF LoopFits, Unwinding
  <2>5. \A m \in Nat : Exact(frames, CurLoops \cup {t}, exc, d, m) => m = CurScope.c
    BY <1>2, <2>1, <2>2, <2>3, TopCounts
  <2> QED
    BY <1>5, <2>2, <2>4, <2>5
<1>7. ASSUME NEW k \in {"return", "tail"}, NotInTry, host' = Append(host, Host(k, Cur.base))
      PROVE  OInv'
  <2>1. k \in LoopKinds /\ k # "catch"
    BY DEF LoopKinds
  <2>2. PICK t : CurLoops' = CurLoops \cup {t} /\ t.k = k /\ t.n = Cur.base /\ t.at = d
    BY <1>1, <1>2, <1>7, <2>1, StartedLoops
  <2>3. \A i \in 2..Len(Cur.scopes) : ~Cur.scopes[i].try
    <3>1. \A i \in 2..Len(Cur.scopes) : i \in 1..Len(Cur.scopes)
      BY <1>2, ScopeFacts
    <3> QED
      BY <1>7, <3>1 DEF NotInTry
  <2>4. LoopFits(frames, t) /\ t.k \notin Unwinding
    BY <1>2, <2>2, <2>3 DEF LoopFits, Unwinding
  <2>5. \A m \in Nat : Exact(frames, CurLoops \cup {t}, exc, d, m) => m = CurScope.c
    BY <1>2, <2>2, TopCounts
  <2> QED
    BY <1>5, <2>2, <2>4, <2>5
<1>8. CASE Return /\ NotInTry
  BY <1>7, <1>8 DEF Return
<1>9. CASE TailCall
  BY <1>7, <1>9 DEF TailCall
<1> QED
  BY <1>6, <1>8, <1>9

\* The handlers that break and continue leave are of try bodies that they do not leave.
LEMMA BreakHandlers ==
    ASSUME IInv, UInv("tidy"), OInv, Running,
           NEW j \in 1..2, j < Len(Cur.scopes),
           NEW n, n = (IF TriesIn(j) <= Len(handlers) THEN Len(handlers) - TriesIn(j) ELSE 0),
           NEW i \in 1..n, handlers[i].frame = Len(frames)
    PROVE  Len(handlers[i].scopes) < Len(Cur.scopes) - j
<1> DEFINE d == Len(frames)
           w == Len(Cur.scopes)
           g(a) == Len(handlers[a].scopes)
           z == Len(handlers)
           T == TriesIn(j)
<1>1. /\ Cur.scopes \in GoodScopes /\ Cur = frames[d] /\ w \in Nat \ {0} /\ z \in Nat
      /\ CurScope = Cur.scopes[w]
      /\ \A a \in 1..z : handlers[a].frame \in 1..d
      /\ d \in Nat
  BY OwnRunning, FrameFacts, ScopeFacts DEF CurScope
<1>2. T = (IF Cur.scopes[w].try THEN 1 ELSE 0)
          + (IF j = 2 /\ Cur.scopes[w - 1].try THEN 1 ELSE 0)
  BY <1>1 DEF TriesIn
<1>3. T \in {0, 1, 2}
  BY <1>2
<1> HIDE DEF T
<1>4. i \in 1..z /\ i + T <= z /\ i \in Nat
  BY <1>1, <1>3 DEF T
<1>5. \A a \in i..z : a \in 1..z /\ handlers[a].frame = d
  <2> SUFFICES ASSUME NEW a \in i..z PROVE a \in 1..z /\ handlers[a].frame = d
    OBVIOUS
  <2>1. a \in 1..z /\ i <= a
    BY <1>1, <1>4
  <2>2. handlers[i].frame <= handlers[a].frame
    BY <1>4, <2>1 DEF UInv, LiveHandlers
  <2> QED
    BY <1>1, <2>1, <2>2
<1>6. \A a \in i..z : g(a) \in Nat /\ g(a) < w /\ Cur.scopes[g(a) + 1].try
  BY <1>1, <1>5, TopHandlers DEF PushedIn
<1>7. \A a, b \in i..z : a < b => g(a) < g(b)
  <2>1. \A a, b \in 1..z : a < b /\ handlers[a].frame = handlers[b].frame => g(a) < g(b)
    BY DEF OInv, OwnInv, HandlersFit
  <2> HIDE DEF g
  <2> QED
    BY <1>5, <2>1
<1> SUFFICES ASSUME ~(g(i) < w - j) PROVE FALSE
  OBVIOUS
<1> HIDE DEF w, g, z, d
<1>8. i \in i..z /\ g(i) \in Nat /\ g(i) < w
  BY <1>1, <1>4, <1>6
<1>9. ASSUME T >= 1 PROVE i + 1 \in i..z /\ g(i) < g(i + 1) /\ g(i + 1) < w /\ g(i + 1) \in Nat
                          /\ Cur.scopes[g(i + 1) + 1].try
  <2>1. i + 1 \in i..z /\ i < i + 1
    BY <1>1, <1>3, <1>4, <1>9
  <2> QED
    BY <1>6, <1>7, <1>8, <2>1
<1>10. g(i) # w - 1
  <2> SUFFICES ASSUME g(i) = w - 1 PROVE FALSE
    OBVIOUS
  <2>1. g(i) + 1 = w
    BY <1>1
  <2>2. Cur.scopes[w].try
    BY <1>6, <1>8, <2>1
  <2>3. T >= 1
    BY <1>2, <2>2
  <2> QED
    BY <1>1, <1>9, <2>3
<1>11. j = 2 /\ g(i) = w - 2
  BY SMTT(30), <1>1, <1>8, <1>10
<1>12. Cur.scopes[w - 1].try
  <2>1. g(i) + 1 = w - 1
    BY <1>1, <1>11
  <2> QED
    BY <1>6, <1>8, <2>1
<1>13. T >= 1
  BY <1>2, <1>11, <1>12
<1>14. g(i + 1) + 1 = w
  <2> DEFINE p == g(i)
             q == g(i + 1)
  <2>1. w \in Nat /\ p \in Nat /\ q \in Nat
    BY <1>1, <1>8, <1>9, <1>13
  <2>2. p = w - 2 /\ p < q /\ q < w
    BY <1>9, <1>11, <1>13
  <2> HIDE DEF p, q
  <2>3. q + 1 = w
    BY <2>1, <2>2
  <2> QED
    BY <2>3 DEF q
<1>15. T = 2
  BY <1>2, <1>9, <1>11, <1>12, <1>13, <1>14
<1>16. i + 2 \in i..z /\ i + 1 \in i..z /\ i + 1 < i + 2
  BY <1>1, <1>4, <1>15
<1>17. /\ g(i + 1) \in Nat /\ g(i + 2) \in Nat /\ w \in Nat
       /\ g(i + 1) < g(i + 2) /\ g(i + 2) < w
  BY <1>1, <1>6, <1>7, <1>16
<1> DEFINE p == g(i + 1)
           q == g(i + 2)
<1> HIDE DEF p, q
<1>18. p \in Nat /\ q \in Nat /\ w \in Nat /\ p < q /\ q < w /\ p + 1 = w
  BY <1>14, <1>17 DEF p, q
<1> QED
  BY <1>18

\* What SetScopes does.
Moved(fs, gs, ss) ==
    /\ gs \in Seq(GoodFrame) /\ Len(gs) = Len(fs)
    /\ SameFrames(fs, gs, Len(fs))
    /\ gs[Len(fs)].scopes = ss
    /\ \A f \in 1..(Len(fs) - 1) : gs[f] = fs[f]

\* SetScopes moves the frame on top.
LEMMA SetScopesMoves ==
    ASSUME frames \in Seq(GoodFrame), frames # <<>>, NEW ss \in GoodScopes, SetScopes(ss)
    PROVE  Moved(frames, frames', ss)
<1>1. frames' = [frames EXCEPT ![Len(frames)].scopes = ss]
  BY DEF SetScopes
<1>2. \A gs : gs = [frames EXCEPT ![Len(frames)].scopes = ss] => Moved(frames, gs, ss)
  BY MovedScopes DEF Moved
<1> QED
  BY <1>1, <1>2

\* break and continue.
LEMMA OwnBreak ==
    ASSUME IInv, UInv("tidy"), OInv, Break
    PROVE  OInv'
<1> DEFINE d == Len(frames)
           w == Len(Cur.scopes)
<1>1. Running /\ UNCHANGED <<deferStack, exc>>
  BY DEF Break
<1>2. PICK j \in 1..2 :
        /\ j < w
        /\ handlers' = Cut(handlers, IF TriesIn(j) <= Len(handlers)
                                     THEN Len(handlers) - TriesIn(j) ELSE 0)
        /\ host' = Append(host, Host("break", CompiledDefers(j)))
        /\ SetScopes(Cut(Cur.scopes, w - j))
  BY DEF Break
<1> DEFINE n == IF TriesIn(j) <= Len(handlers) THEN Len(handlers) - TriesIn(j) ELSE 0
           ss == Cut(Cur.scopes, w - j)
<1>3. /\ frames \in Seq(GoodFrame) /\ frames # <<>> /\ d \in Nat \ {0}
      /\ Len(handlers) \in Nat /\ FreeIn(CurLoops, d)
      /\ Cur = frames[d] /\ Cur.scopes \in GoodScopes /\ CurScope.c \in Nat
      /\ CurScope = Cur.scopes[w] /\ w \in Nat \ {0} /\ Cur.scopes \in Seq(Scope)
      /\ host # <<>> /\ Top(host).k \in RunKinds
  BY <1>1, OwnRunning, FrameFacts, ScopeFacts DEF CurScope
<1>4. w - j \in 1..w /\ w - j \in 0..w /\ j \in 1..w
  BY <1>2, <1>3
<1>5. /\ ss \in GoodScopes /\ Len(ss) = w - j
      /\ \A i \in 1..(w - j) : ss[i] = Cur.scopes[i]
  <2> DEFINE v == w - j
  <2>1. v \in 1..Len(Cur.scopes) /\ v \in 0..Len(Cur.scopes)
    BY <1>4
  <2> HIDE DEF v, w
  <2>2. /\ Cut(Cur.scopes, v) \in GoodScopes /\ Len(Cut(Cur.scopes, v)) = v
        /\ \A i \in 1..v : Cut(Cur.scopes, v)[i] = Cur.scopes[i]
    BY <1>3, <2>1, LeaveScopes, CutType
  <2> QED
    BY <2>2 DEF v
<1>6. n \in 0..Len(handlers)
  <2>1. TriesIn(j) \in {0, 1, 2}
    BY DEF TriesIn
  <2> QED
    BY <1>3, <2>1
<1> HIDE DEF n, ss
<1>7. /\ frames' \in Seq(GoodFrame) /\ Len(frames') = d /\ SameFrames(frames, frames', d)
      /\ frames'[d].scopes = ss
      /\ \A f \in 1..(d - 1) : frames'[f].scopes = frames[f].scopes
  <2>1. SetScopes(ss)
    BY <1>2 DEF ss
  <2>2. Moved(frames, frames', ss)
    BY <1>3, <1>5, <2>1, SetScopesMoves
  <2> QED
    BY <2>2 DEF Moved
<1>8. \A i \in 1..n : handlers[i].frame = Len(frames) =>
        PushedIn(handlers[i], frames[Len(frames)], frames'[Len(frames)].scopes)
  <2> SUFFICES ASSUME NEW i \in 1..n, handlers[i].frame = Len(frames)
               PROVE  PushedIn(handlers[i], frames[d], ss)
    BY <1>7
  <2>1. i \in 1..Len(handlers)
    BY <1>3, <1>6
  <2>2. /\ handlers[i] \in GoodHandler /\ Len(handlers[i].scopes) \in Nat
        /\ PushedIn(handlers[i], frames[d], Cur.scopes)
    BY <1>1, <1>3, <2>1, TopHandlers
  <2>3. Len(handlers[i].scopes) < w - j
    BY <1>1, <1>2, BreakHandlers DEF n
  <2> DEFINE k == Len(handlers[i].scopes)
  <2> HIDE DEF k
  <2>4. k \in Nat /\ k < w - j
    BY <2>2, <2>3 DEF k
  <2>5. k + 1 \in 1..(w - j) /\ \A a \in 1..k : a \in 1..(w - j)
    BY <1>3, <1>4, <2>4
  <2>6. k < Len(ss) /\ (\A a \in 1..k : ss[a] = Cur.scopes[a]) /\ ss[k + 1] = Cur.scopes[k + 1]
    BY <1>5, <2>4, <2>5
  <2> QED
    BY <1>3, <1>5, <2>2, <2>6, PushedSame DEF k
<1>9. "break" \in OpKinds /\ CompiledDefers(j) \in Nat
  BY <1>3, <1>4, CompiledDefersType DEF OpKinds
<1>10. PICK t : /\ CurLoops' = CurLoops \cup {t}
                /\ t.k = "break" /\ t.n = CompiledDefers(j) /\ t.at = d
  <2>1. host' = Append(host, Host("break", CompiledDefers(j))) /\ "break" # "catch"
    BY <1>2
  <2>2. Len(frames') = Len(frames)
    BY <1>7
  <2> HIDE DEF d, w
  <2>3. \E t : /\ CurLoops' = CurLoops \cup {t}
               /\ t.k = "break" /\ t.n = CompiledDefers(j) /\ t.at = Len(frames)
    BY SMTT(30), <1>3, <1>9, <2>1, <2>2, StartedLoops
  <2> QED
    BY <2>3 DEF d
<1>11. Left(t, ss) = CurScope.c
  <2>1. Top(ss) = Cur.scopes[w - j]
    <3>1. Len(ss) \in 1..(w - j) /\ Len(ss) = w - j
      BY <1>3, <1>4, <1>5
    <3>2. ss[Len(ss)] = Cur.scopes[w - j]
      BY <1>5, <3>1
    <3> QED
      BY <3>2 DEF Top
  <2>2. Cur.scopes[w - j].c \in Nat
    BY <1>3, <1>4, ScopeFacts
  <2>3. Left(t, ss) = CompiledDefers(j) + Cur.scopes[w - j].c
    BY <1>10, <2>1 DEF Left
  <2>4. CompiledDefers(j) = CurScope.c - Cur.scopes[w - j].c
    <3>1. w - j # 0
      BY <1>4
    <3> QED
      BY <3>1 DEF CompiledDefers
  <2> QED
    BY <1>3, <2>2, <2>3, <2>4
<1>12. LoopFits(frames', t) /\ t.k \notin Unwinding
  BY <1>10 DEF LoopFits, Unwinding
<1>13. \A m \in Nat : Exact(frames', CurLoops \cup {t}, exc, d, m) => m = CurScope.c
  BY <1>3, <1>7, <1>9, <1>10, <1>11, TopCounts
<1>14. OwnInv(frames', Cut(handlers, n), deferStack, CurLoops \cup {t}, exc)
  <2>1. \A x \in {t} : x.at = Len(frames) /\ x.k \notin Unwinding /\ LoopFits(frames', x)
    BY <1>10, <1>12
  <2>2. /\ Len(frames') = Len(frames) /\ SameFrames(frames, frames', Len(frames))
        /\ \A f \in 1..(Len(frames) - 1) : frames'[f].scopes = frames[f].scopes
        /\ \A m \in Nat : Exact(frames', CurLoops \cup {t}, exc, Len(frames), m) => m = CurScope.c
    BY <1>7, <1>13
  <2> QED
    BY <1>1, <1>6, <1>7, <1>8, <2>1, <2>2, OwnTop
<1> QED
  BY <1>1, <1>2, <1>10, <1>14 DEF OInv, n

\* A try that the frame on top enters is one more place to go on from.
LEMMA AppendHandler ==
    ASSUME NEW gs, NEW ds, NEW hs \in Seq(GoodHandler), NEW M, NEW y, OwnInv(gs, hs, ds, M, y),
           NEW h \in GoodHandler,
           Exact(gs, M, y, h.frame, Top(h.scopes).c),
           \A ss \in ScopesOf(gs, M, h.frame) : PushedIn(h, gs[h.frame], ss),
           \A j \in 1..Len(hs) : hs[j].frame = h.frame => Len(hs[j].scopes) < Len(h.scopes)
    PROVE  OwnInv(gs, Append(hs, h), ds, M, y)
<1> DEFINE q == Append(hs, h)
<1>1. /\ Len(hs) \in Nat /\ Len(q) = Len(hs) + 1 /\ q[Len(hs) + 1] = h
      /\ \A j \in 1..Len(hs) : q[j] = hs[j]
  BY PushType, LenProperties
<1> HIDE DEF q
<1>2. \A j \in 1..Len(q) : (j \in 1..Len(hs) /\ q[j] = hs[j]) \/ (j = Len(hs) + 1 /\ q[j] = h)
  BY <1>1
<1>3. \A f, m : Claim(gs, q, M, y, f, m) => Claim(gs, hs, M, y, f, m)
  <2> SUFFICES ASSUME NEW f, NEW m,
                      \E j \in 1..Len(q) : q[j].frame = f /\ m = Top(q[j].scopes).c
               PROVE  Claim(gs, hs, M, y, f, m)
    BY DEF Claim
  <2>1. PICK j \in 1..Len(q) : q[j].frame = f /\ m = Top(q[j].scopes).c
    OBVIOUS
  <2>2. CASE j \in 1..Len(hs) /\ q[j] = hs[j]
    BY <2>1, <2>2 DEF Claim
  <2>3. CASE q[j] = h
    BY <2>1, <2>3 DEF Claim
  <2> QED
    BY <1>2, <2>2, <2>3
<1>4. ClaimsHeld(gs, q, ds, M, y)
  BY <1>3 DEF OwnInv, ClaimsHeld
<1>5. HandlersFit(gs, q, M)
  <2>1. HandlersFit(gs, hs, M)
    BY DEF OwnInv
  <2>2. \A j \in 1..Len(q) : \A ss \in ScopesOf(gs, M, q[j].frame) :
          PushedIn(q[j], gs[q[j].frame], ss)
    BY <1>2, <2>1 DEF HandlersFit
  <2>3. ASSUME NEW i \in 1..Len(q), NEW j \in 1..Len(q), i < j, q[i].frame = q[j].frame
        PROVE  Len(q[i].scopes) < Len(q[j].scopes)
    <3>1. i \in 1..Len(hs) /\ q[i] = hs[i]
      BY <1>1, <1>2, <2>3
    <3>2. CASE j \in 1..Len(hs) /\ q[j] = hs[j]
      BY <2>1, <2>3, <3>1, <3>2 DEF HandlersFit
    <3>3. CASE q[j] = h
      BY <2>3, <3>1, <3>3
    <3> QED
      BY <1>2, <3>2, <3>3
  <2> QED
    BY <2>2, <2>3 DEF HandlersFit
<1>6. OwnInv(gs, q, ds, M, y)
  BY <1>4, <1>5 DEF OwnInv
<1> QED
  BY <1>6 DEF q

\* A try body begins, and its handler is pushed.
LEMMA OwnTryBegin ==
    ASSUME IInv, UInv("tidy"), OInv, TryBegin
    PROVE  OInv'
<1> DEFINE d == Len(frames)
           ss == Cur.scopes
           e == [try |-> TRUE, c |-> CurScope.c]
           h == [frame |-> d, act |-> Cur.act, base |-> Len(deferStack), scopes |-> ss]
<1>1. /\ Running /\ UNCHANGED <<deferStack, host, exc>>
      /\ frames' = [frames EXCEPT ![Len(frames)].scopes =
                           Append(Cur.scopes, [try |-> TRUE, c |-> CurScope.c])]
      /\ handlers' = Append(handlers, h)
  BY DEF TryBegin, SetScopes
<1>2. /\ OwnInv(frames', handlers, deferStack, CurLoops, exc)
      /\ Len(frames') = d
      /\ frames'[d].scopes = Append(ss, e)
      /\ Top(frames'[d].scopes).c = CurScope.c
      /\ SameFrames(frames, frames', d)
  BY <1>1, DeeperFits
<1>3. /\ ss \in GoodScopes /\ Cur.act \in Nat /\ d \in Nat \ {0} /\ Len(deferStack) \in Nat
      /\ Cur = frames[d] /\ exc = "none" /\ FreeIn(CurLoops, d)
      /\ handlers \in Seq(GoodHandler)
      /\ Cur.base + CurScope.c = Len(deferStack) /\ host # <<>>
  BY <1>1, OwnRunning, FrameFacts
<1>4. CurLoops' = CurLoops
  BY <1>1, <1>2 DEF CurLoops
<1>5. /\ ss \in Seq(Scope) /\ Len(ss) \in Nat /\ Len(ss) \in 0..Len(ss)
      /\ Top(ss) = CurScope /\ e \in Scope
  <2>1. CurScope \in Scope /\ Top(ss) = CurScope
    BY <1>3, FrameFacts DEF CurScope
  <2>2. ss \in Seq(Scope) /\ Len(ss) \in Nat
    BY <1>3, ScopeFacts
  <2> QED
    BY <2>1, <2>2 DEF Scope
<1>6. /\ h \in GoodHandler /\ h.frame = d /\ h.scopes = ss /\ h.base = Len(deferStack)
  BY <1>3 DEF GoodHandler
<1>7. e.try
  OBVIOUS
<1> HIDE DEF ss, e, h
<1>8. /\ Len(Append(ss, e)) = Len(ss) + 1 /\ Append(ss, e)[Len(ss) + 1] = e
      /\ \A i \in 1..Len(ss) : Append(ss, e)[i] = ss[i]
      /\ Append(ss, e) \in Seq(Scope)
  BY <1>5, PushType
<1>9. Cut(Append(ss, e), Len(ss)) = ss
  <2> DEFINE q == Append(ss, e)
             n == Len(ss)
  <2>1. q \in Seq(Scope) /\ n \in Nat /\ Len(q) = n + 1 /\ \A i \in 1..n : q[i] = ss[i]
    BY <1>5, <1>8
  <2> HIDE DEF q, n
  <2>2. n \in 0..Len(q)
    BY <2>1
  <2>3. Cut(q, n) \in Seq(Scope) /\ Len(Cut(q, n)) = n /\ \A i \in 1..n : Cut(q, n)[i] = q[i]
    BY <2>1, <2>2, CutType
  <2>4. \A i \in 1..n : Cut(q, n)[i] = ss[i]
    BY <2>1, <2>3
  <2>5. Cut(q, n) = ss
    BY <1>5, <2>3, <2>4, SeqEqual DEF n
  <2> QED
    BY <2>5 DEF q, n
<1>10. PushedIn(h, frames'[d], frames'[d].scopes)
  <2>1. frames'[d].base = Cur.base
    BY <1>2, <1>3 DEF SameFrames
  <2>2. h.base = frames'[d].base + Top(h.scopes).c
    BY <1>3, <1>5, <1>6, <2>1
  <2>3. Len(ss) < Len(Append(ss, e)) /\ Append(ss, e)[Len(ss) + 1].try
    BY <1>5, <1>7, <1>8
  <2> QED
    BY <1>2, <1>6, <1>9, <2>2, <2>3 DEF PushedIn
<1>11. \A x \in ScopesOf(frames', CurLoops, d) : PushedIn(h, frames'[d], x)
  <2>1. ScopesOf(frames', CurLoops, d) = {frames'[d].scopes}
    BY <1>3, FreeFrame
  <2> QED
    BY <1>10, <2>1
<1>12. Exact(frames', CurLoops, exc, d, Top(h.scopes).c)
  <2>1. Exact(frames', CurLoops, exc, d, Top(frames'[d].scopes).c)
    BY <1>3, FreeExact
  <2> QED
    BY <1>2, <1>5, <1>6, <2>1
<1>13. \A j \in 1..Len(handlers) : handlers[j].frame = d => Len(handlers[j].scopes) < Len(ss)
  BY <1>1, <1>3, TopHandlers DEF PushedIn, ss
<1>14. OwnInv(frames', Append(handlers, h), deferStack, CurLoops, exc)
  BY <1>2, <1>3, <1>6, <1>11, <1>12, <1>13, AppendHandler
<1> QED
  BY <1>1, <1>4, <1>14 DEF OInv

\* A defer is one more of those that the frame on top counts on.
LEMMA OwnDefer ==
    ASSUME IInv, UInv("tidy"), OInv, Defer
    PROVE  OInv'
<1> DEFINE d == Len(frames)
           w == Len(Cur.scopes)
           c == CurScope.c
           ss == [Cur.scopes EXCEPT ![w].c = @ + 1]
           L == CurLoops
           K == Len(deferStack)
           gs == frames'
           ds1 == deferStack'
<1>1. /\ Running /\ UNCHANGED <<handlers, host, exc>>
      /\ deferStack' = Append(deferStack, Cur.act)
      /\ SetScopes(ss)
  BY DEF Defer, CountDefer
<1>2. /\ frames \in Seq(GoodFrame) /\ frames # <<>> /\ d \in Nat \ {0}
      /\ handlers \in Seq(GoodHandler) /\ Len(handlers) \in Nat
      /\ Len(handlers) \in 0..Len(handlers)
      /\ \A j \in 1..Len(handlers) : handlers[j].frame \in 1..d
      /\ FreeIn(L, d) /\ Exact(frames, L, exc, d, c)
      /\ Cur = frames[d] /\ Cur.scopes \in GoodScopes /\ c \in Nat /\ Cur.act \in Nat
      /\ Cur.base \in Nat /\ Cur.base + c = K /\ K \in Nat /\ deferStack \in Seq(Nat)
      /\ \A l \in L : l.at \in 1..(d - 1)
  BY <1>1, OwnRunning, FrameFacts
<1>3. /\ Cur.scopes \in Seq(Scope) /\ w \in Nat \ {0} /\ Cur.scopes[w] \in Scope
      /\ CurScope = Cur.scopes[w]
  <2>1. w \in 1..w
    BY <1>2, ScopeFacts
  <2> QED
    BY <1>2, <2>1, ScopeFacts DEF CurScope
<1>4. /\ ss \in GoodScopes /\ Len(ss) = w /\ \A i \in 1..(w - 1) : ss[i] = Cur.scopes[i]
      /\ ss[w].try = Cur.scopes[w].try /\ ss[w].c = c + 1
  <2>1. ss \in GoodScopes
    BY <1>2, CountOneDefer
  <2>2. DOMAIN Cur.scopes = 1..w /\ w \in 1..w
    BY <1>3, LenProperties
  <2>3. DOMAIN ss = 1..w /\ (\A i \in 1..(w - 1) : ss[i] = Cur.scopes[i])
        /\ ss[w] = [Cur.scopes[w] EXCEPT !.c = @ + 1]
    BY <1>3, <2>2
  <2>4. ss[w].try = Cur.scopes[w].try /\ ss[w].c = c + 1
    BY <1>3, <2>3 DEF Scope
  <2>5. ss \in Seq(Scope)
    BY <2>1, ScopeFacts
  <2> HIDE DEF ss, w
  <2>6. Len(ss) = w
    <3>1. Len(ss) \in Nat /\ DOMAIN ss = 1..Len(ss)
      BY <2>5, LenProperties
    <3> QED
      BY <1>3, <2>3, <3>1
  <2> QED
    BY <2>1, <2>3, <2>4, <2>6
<1> HIDE DEF ss, w, c, K, L
<1>5. Moved(frames, gs, ss)
  BY <1>1, <1>2, <1>4, SetScopesMoves
<1>6. /\ gs \in Seq(GoodFrame) /\ Len(gs) = d /\ SameFrames(frames, gs, d)
      /\ gs[d].scopes = ss /\ \A f \in 1..(d - 1) : gs[f] = frames[f]
  BY <1>5 DEF Moved
<1>7. CurLoops' = L
  BY <1>1, <1>6 DEF CurLoops, L
<1>8. /\ ds1 \in Seq(Nat) /\ Len(ds1) = K + 1 /\ ds1[K + 1] = Cur.act
      /\ \A p \in 1..K : ds1[p] = deferStack[p]
  BY <1>1, <1>2, PushType DEF K
<1>9. gs[d].base = Cur.base /\ gs[d].act = Cur.act
  <2>1. d \in 1..d
    BY <1>2
  <2>2. \A i \in 1..d : gs[i].act = frames[i].act /\ gs[i].base = frames[i].base
    BY <1>6 DEF SameFrames
  <2> QED
    BY <1>2, <2>1, <2>2
<1> HIDE DEF gs, ds1
<1>10. SameUpTo(frames, L, gs, L, d, d)
  <2>1. \A f \in 1..(d - 1) : AlikeAt(frames, L, gs, L, f)
    BY <1>6 DEF AlikeAt
  <2>2. \A f \in 1..(d - 1) : f # d /\ f + 1 \in 1..d
    BY <1>2
  <2>3. \A f \in 1..(d - 1) : gs[f + 1].base = frames[f + 1].base
    BY <1>6, <2>2 DEF SameFrames
  <2>4. d \in 1..(d + 1) /\ d \in Nat /\ d <= d /\ d <= Len(frames) /\ d <= Len(gs)
    BY <1>2, <1>6
  <2>5. \A f \in 1..(d - 1) : f # Len(frames) /\ f # Len(gs)
    BY <1>6, <2>2
  <2> QED
    BY <1>6, <2>1, <2>3, <2>4, <2>5 DEF SameUpTo
<1>11. Top(ss).c = c + 1
  BY <1>4 DEF Top
<1>12. \A m : Exact(gs, L, exc, d, m) => m = c + 1
  BY <1>2, <1>6, <1>11, FreeExact
<1>13. OwnInv(frames, handlers, deferStack, L, exc)
  BY DEF OInv, L
<1>14. Held(gs, ds1, L, d, c + 1)
  <2>1. Claim(frames, handlers, L, exc, d, c)
    BY <1>2 DEF Claim
  <2>2. d \in 1..Len(frames)
    BY <1>2
  <2>3. Held(frames, deferStack, L, d, c)
    BY <1>2, <1>13, <2>1, <2>2 DEF OwnInv, ClaimsHeld
  <2>4. \A p \in (Cur.base + 1)..(Cur.base + c) : deferStack[p] = Cur.act
    BY <1>2, <2>3 DEF Held
  <2>5. \A p \in (Cur.base + 1)..(Cur.base + (c + 1)) : ds1[p] = Cur.act
    <3> SUFFICES ASSUME NEW p \in (Cur.base + 1)..(Cur.base + (c + 1)) PROVE ds1[p] = Cur.act
      OBVIOUS
    <3>1. (p \in (Cur.base + 1)..(Cur.base + c) /\ p \in 1..K) \/ p = K + 1
      BY <1>2
    <3> QED
      BY <1>8, <2>4, <3>1
  <2>6. Cur.base + (c + 1) <= Len(ds1)
    BY <1>2, <1>8
  <2>7. \A g \in (d + 1)..Len(gs) : FALSE
    BY <1>2, <1>6
  <2> QED
    BY <1>9, <2>5, <2>6, <2>7 DEF Held
<1>15. \A m \in Nat : Claim(gs, handlers, L, exc, d, m) =>
         \/ Held(gs, ds1, L, d, m)
         \/ Claim(frames, handlers, L, exc, d, m)
  <2> SUFFICES ASSUME NEW m \in Nat, Claim(gs, handlers, L, exc, d, m),
                      ~Claim(frames, handlers, L, exc, d, m)
               PROVE  m = c + 1
    BY <1>14
  <2>1. \A l \in L : l.k = "catch" => l.from # d
    BY <1>2, FreeFrame
  <2> QED
    BY <1>12, <2>1 DEF Claim
<1>16. Unchanged(deferStack, ds1, K)
  <2>1. K = Len(deferStack)
    BY DEF K
  <2>2. K <= K /\ K <= K + 1
    BY <1>2
  <2> QED
    BY <1>2, <1>8, <2>1, <2>2 DEF Unchanged
<1>17. ClaimsMay(frames, handlers, deferStack, L, exc, gs, handlers, ds1, L, exc, d, d, K)
  <2>1. \A f \in d..d : f = d
    BY <1>2
  <2>2. Len(gs) \in {d, d + 1} /\ Len(gs) # d + 1
    BY <1>2, <1>6
  <2>3. \A f \in d..d, m \in Nat : Claim(gs, handlers, L, exc, f, m) =>
          \/ Held(gs, ds1, L, f, m)
          \/ Claim(frames, handlers, L, exc, f, m)
    BY <1>15, <2>1
  <2> QED
    BY <2>2, <2>3 DEF ClaimsMay, K
<1>18. ClaimsHeld(gs, handlers, ds1, L, exc)
  BY <1>2, <1>6, <1>8, <1>10, <1>13, <1>16, <1>17, ClaimsKept DEF OwnInv
<1>19. ExactlyHeld(gs, ds1, L, exc)
  <2>1. \A f \in d..Len(gs), m \in Nat : Exact(gs, L, exc, f, m) => gs[f].base + m = NextBase(gs, ds1, f)
    <3>1. \A f \in d..Len(gs) : f = d
      BY <1>2, <1>6
    <3>2. NextBase(gs, ds1, d) = K + 1 /\ Cur.base + (c + 1) = K + 1
      <4>1. NextBase(gs, ds1, d) = K + 1
        BY <1>6, <1>8 DEF NextBase
      <4>2. Cur.base + (c + 1) = K + 1
        <5> DEFINE b == Cur.base
        <5>1. b \in Nat /\ c \in Nat /\ b + c = K
          BY <1>2
        <5> HIDE DEF b
        <5>2. b + (c + 1) = K + 1
          BY <5>1
        <5> QED
          BY <5>2 DEF b
      <4> QED
        BY <4>1, <4>2
    <3> QED
      BY <1>9, <1>12, <3>1, <3>2
  <2> QED
    BY <1>2, <1>6, <1>10, <1>13, <2>1, ExactKept DEF OwnInv
<1>20. \A j \in 1..Len(handlers) : handlers[j].frame = d => PushedIn(handlers[j], gs[d], ss)
  <2> SUFFICES ASSUME NEW j \in 1..Len(handlers), handlers[j].frame = d
               PROVE  PushedIn(handlers[j], gs[d], ss)
    OBVIOUS
  <2>1. /\ handlers[j] \in GoodHandler /\ Len(handlers[j].scopes) \in Nat
        /\ PushedIn(handlers[j], frames[d], Cur.scopes)
    BY <1>1, <1>2, TopHandlers
  <2>2. PushedIn(handlers[j], gs[d], Cur.scopes)
    BY <1>2, <1>9, <2>1 DEF PushedIn
  <2> DEFINE k == Len(handlers[j].scopes)
  <2>3. k \in Nat /\ k < w
    BY <2>1 DEF PushedIn, w
  <2> HIDE DEF k
  <2>4. /\ \A i \in 1..k : i \in 1..(w - 1)
        /\ k + 1 \in 1..(w - 1) \/ k + 1 = w
    BY <1>3, <2>3
  <2>5. k < Len(ss) /\ (\A i \in 1..k : ss[i] = Cur.scopes[i])
        /\ ss[k + 1].try = Cur.scopes[k + 1].try
    BY <1>4, <2>3, <2>4
  <2> QED
    BY <1>2, <1>4, <2>1, <2>2, <2>5, PushedSame DEF k
<1>21. HandlersFit(gs, handlers, L)
  <2>1. ScopesOf(gs, L, d) = {ss}
    BY <1>2, <1>6, FreeFrame
  <2>2. \A j \in 1..Len(handlers) : handlers[j].frame >= d => handlers[j].frame = d
    BY <1>2
  <2>3. \A j \in 1..Len(handlers) : handlers[j].frame >= d =>
         /\ handlers[j].frame <= d
         /\ \A x \in ScopesOf(gs, L, handlers[j].frame) :
              PushedIn(handlers[j], gs[handlers[j].frame], x)
    BY <1>2, <1>20, <2>1, <2>2
  <2>4. \A j \in 1..Len(handlers) : handlers[j].frame \in Nat /\ handlers[j].frame > 0
    BY <1>2
  <2>5. HandlersMay(frames, L, gs, L, handlers, Len(handlers), handlers, d, d)
    BY <2>3, <2>4 DEF HandlersMay
  <2>6. HandlersFit(frames, handlers, L)
    BY <1>13 DEF OwnInv
  <2> QED
    BY <1>2, <1>10, <2>5, <2>6, HandlersKept
<1>22. LoopsFit(gs, L)
  BY <1>2, <1>10, <1>13, LoopsKept DEF OwnInv
<1>23. OwnInv(gs, handlers, ds1, L, exc)
  BY <1>18, <1>19, <1>21, <1>22 DEF OwnInv
<1> QED
  BY <1>1, <1>7, <1>23 DEF OInv, gs, ds1

\* The frames after a call.
LEMMA PushedFrame ==
    ASSUME NEW fs \in Seq(GoodFrame), NEW ds \in Seq(Nat), nextAct \in Nat,
           PushFrame(fs, ds)
    PROVE  /\ frames' \in Seq(GoodFrame)
           /\ Len(frames') = Len(fs) + 1
           /\ \A f \in 1..Len(fs) : frames'[f] = fs[f]
           /\ frames'[Len(frames')].base = Len(ds)
           /\ Top(frames'[Len(frames')].scopes).c = 0
<1> DEFINE r == NewFrame(Len(ds))
<1>1. Len(ds) \in Nat /\ Len(fs) \in Nat
  BY LenProperties
<1>2. r \in GoodFrame
  BY <1>1, NewFrameType
<1>3. r.base = Len(ds) /\ r.scopes = <<[try |-> FALSE, c |-> 0]>>
  BY DEF NewFrame
<1>4. Top(<<[try |-> FALSE, c |-> 0]>>).c = 0
  BY DEF Top
<1>5. frames' = Append(fs, r)
  BY DEF PushFrame
<1> HIDE DEF r
<1>6. /\ frames' \in Seq(GoodFrame) /\ Len(frames') = Len(fs) + 1
      /\ frames'[Len(fs) + 1] = r
      /\ \A f \in 1..Len(fs) : frames'[f] = fs[f]
  BY <1>2, <1>5, PushType
<1> QED
  BY <1>3, <1>4, <1>6

\* Whether a loop fits is a matter of the frames it works on.
LEMMA FitsBelow ==
    ASSUME NEW fs, NEW gs, NEW d \in Nat, NEW l, LoopFits(fs, l), GoodLoop(l, d),
           \A f \in 1..l.at : gs[f] = fs[f]
    PROVE  LoopFits(gs, l)
<1>1. l.at \in 1..l.at
  BY DEF GoodLoop
<1>2. gs[l.at] = fs[l.at] /\ (l.k = "catch" => l.from \in 1..l.at /\ gs[l.from] = fs[l.from])
  BY <1>1 DEF LoopFits
<1> QED
  BY <1>2 DEF LoopFits

\* A frame is put on frames that are to go on from where they are.
LEMMA OwnCallStep ==
    ASSUME NEW fs \in Seq(GoodFrame), NEW gs \in Seq(GoodFrame),
           NEW ds \in Seq(Nat), NEW hs \in Seq(GoodHandler), NEW L,
           OwnInv(fs, hs, ds, L, "none"),
           Len(gs) = Len(fs) + 1, \A f \in 1..Len(fs) : gs[f] = fs[f],
           gs[Len(gs)].base = Len(ds), Top(gs[Len(gs)].scopes).c = 0,
           \A j \in 1..Len(hs) : hs[j].frame \in 1..Len(fs),
           \A l \in L : GoodLoop(l, Len(fs))
    PROVE  OwnInv(gs, hs, ds, L, "none")
<1> DEFINE d == Len(fs)
           s == IF d = 0 THEN 1 ELSE d
<1>1. d \in Nat /\ Len(ds) \in Nat
  BY LenProperties
<1>2. s \in 1..d \/ (s = 1 /\ d = 0)
  BY <1>1
<1>3. \A f \in s..d : f = d /\ f \in 1..d
  BY <1>1
<1>4. \A f \in 1..(s - 1) : f \in 1..d
  BY <1>1
<1> HIDE DEF s
<1>5. \A f \in 1..(s - 1) : AlikeAt(fs, L, gs, L, f)
  <2>1. \A f \in 1..(s - 1) : gs[f] = fs[f]
    BY <1>4
  <2> QED
    BY <2>1 DEF AlikeAt
<1>6. \A l \in L : LoopStays(L, gs, s, l)
  <2> SUFFICES ASSUME NEW l \in L PROVE LoopFits(gs, l)
    BY DEF LoopStays
  <2>1. LoopFits(fs, l)
    BY DEF OwnInv, LoopsFit
  <2>2. \A f \in 1..l.at : f \in 1..d
    BY <1>1 DEF GoodLoop
  <2>3. \A f \in 1..l.at : gs[f] = fs[f]
    BY <2>2
  <2> QED
    BY <1>1, <2>1, <2>3, FitsBelow
<1>7. \A l \in L : l.at \in 1..d /\ (l.k = "catch" => l.from \in 1..l.at)
  BY DEF OwnInv, LoopsFit, LoopFits, GoodLoop
<1>8. ASSUME NEW f \in s..d
      PROVE  FrameCalls(fs, hs, ds, L, "none", gs, ds, L, "none", f)
  <2>1. f = d /\ f \in 1..d /\ gs[f] = fs[f]
    BY <1>3, <1>8
  <2>2. ScopesOf(gs, L, f) = ScopesOf(fs, L, f)
    BY <2>1 DEF ScopesOf
  <2>3. \A m : Exact(gs, L, "none", f, m) => Exact(fs, L, "none", f, m)
    BY <2>1 DEF Exact
  <2>4. \A m : Claim(gs, hs, L, "none", f, m) => Claim(fs, hs, L, "none", f, m)
    BY <2>3 DEF Claim
  <2>5. NextBase(fs, ds, f) = gs[f + 1].base
    BY <2>1 DEF NextBase
  <2>6. \A m \in Nat : Exact(gs, L, "none", f, m) => fs[f].base + m = gs[f + 1].base
    BY <2>1, <2>3, <2>5 DEF OwnInv, ExactlyHeld
  <2> QED
    BY <2>2, <2>4, <2>6 DEF FrameCalls
<1>9. Len(ds) <= Len(ds)
  BY <1>1
<1> QED
  BY <1>2, <1>5, <1>6, <1>7, <1>8, <1>9, OwnPush

\* The frame on top calls another.
LEMMA OwnCallTop ==
    ASSUME IInv, UInv("tidy"), OInv, Running,
           NEW gs \in Seq(GoodFrame), Len(gs) = Len(frames) + 1,
           \A f \in 1..Len(frames) : gs[f] = frames[f],
           gs[Len(gs)].base = Len(deferStack), Top(gs[Len(gs)].scopes).c = 0
    PROVE  OwnInv(gs, handlers, deferStack, CurLoops, exc)
<1>1. /\ frames \in Seq(GoodFrame) /\ handlers \in Seq(GoodHandler) /\ deferStack \in Seq(Nat)
      /\ \A j \in 1..Len(handlers) : handlers[j].frame \in 1..Len(frames)
      /\ exc = "none"
      /\ \A l \in CurLoops : GoodLoop(l, Len(frames))
  BY OwnRunning
<1>2. OwnInv(frames, handlers, deferStack, CurLoops, "none")
  BY <1>1 DEF OInv
<1>3. OwnInv(gs, handlers, deferStack, CurLoops, "none")
  BY <1>1, <1>2, OwnCallStep
<1> QED
  BY <1>1, <1>3

\* Calls, of bytecode and by builtins.
LEMMA OwnCall ==
    ASSUME IInv, UInv("tidy"), OInv, Call \/ CallNative
    PROVE  OInv'
<1>1. Running /\ UNCHANGED <<handlers, deferStack>>
  BY DEF Call, CallNative
<1>2. /\ frames \in Seq(GoodFrame) /\ Len(frames) \in Nat /\ deferStack \in Seq(Nat)
      /\ HostInv(host, Len(frames)) /\ host # <<>> /\ Top(host).k \in RunKinds
      /\ exc = "none" /\ nextAct \in Nat
  BY <1>1, OwnRunning DEF IInv
<1>3. ASSUME PushFrame(frames, deferStack)
      PROVE  OwnInv(frames', handlers, deferStack, CurLoops, exc)
  <2>1. /\ frames' \in Seq(GoodFrame)
        /\ Len(frames') = Len(frames) + 1
        /\ \A f \in 1..Len(frames) : frames'[f] = frames[f]
        /\ frames'[Len(frames')].base = Len(deferStack)
        /\ Top(frames'[Len(frames')].scopes).c = 0
    BY <1>2, <1>3, PushedFrame
  <2> QED
    BY <1>1, <2>1, OwnCallTop
<1>4. CASE Call /\ Len(frames) >= MaxFrames
  <2>1. exc' = "value" /\ UNCHANGED <<frames, handlers, deferStack, host>>
    BY <1>4 DEF Call
  <2> QED
    BY <1>1, <2>1, OwnThrow
<1>5. CASE Call /\ ~(Len(frames) >= MaxFrames)
  <2>1. PushFrame(frames, deferStack) /\ UNCHANGED <<exc, host>>
    BY <1>5 DEF Call
  <2>2. CurLoops' = CurLoops
    BY <1>2, <2>1, LoopsDepth DEF CurLoops
  <2> QED
    BY <1>1, <1>3, <2>1, <2>2 DEF OInv
<1>6. CASE CallNative
  <2>1. PushFrame(frames, deferStack) /\ UNCHANGED exc
    BY <1>6 DEF CallNative
  <2>2. PICK k \in {"callVM", "callSwallow"} : host' = Append(host, Host(k, Len(frames)))
    BY <1>6 DEF CallNative
  <2>3. Host(k, Len(frames)) \in HostRec /\ k \in RunKinds
        /\ Host(k, Len(frames)).k = k /\ Host(k, Len(frames)).n = Len(frames)
    BY <1>2, HostType DEF RunKinds
  <2>4. CurLoops' = CurLoops
    BY <1>2, <2>2, <2>3, LoopsPushRun DEF CurLoops
  <2> QED
    BY <1>1, <1>3, <2>1, <2>4 DEF OInv
<1> QED
  BY <1>4, <1>5, <1>6

----------------------------------------------------------------------------
(* Steps of the C++ activations.                                            *)

\* What the invariants say of the stacks when a run() is on top.
LEMMA OwnFacts ==
    ASSUME IInv, UInv("tidy"), OInv
    PROVE  /\ frames \in Seq(GoodFrame) /\ Len(frames) \in Nat
           /\ handlers \in Seq(GoodHandler) /\ Len(handlers) \in Nat
           /\ handlers = Cut(handlers, Len(handlers)) /\ Len(handlers) \in 0..Len(handlers)
           /\ \A j \in 1..Len(handlers) : /\ handlers[j] \in GoodHandler
                                          /\ handlers[j].frame \in 1..Len(frames)
                                          /\ Len(handlers[j].scopes) \in Nat
           /\ \A i, j \in 1..Len(handlers) : i <= j => handlers[i].frame <= handlers[j].frame
           /\ deferStack \in Seq(Nat) /\ Len(deferStack) \in Nat
           /\ \A f \in 1..Len(frames) : /\ frames[f].scopes \in GoodScopes
                                        /\ frames[f].base \in Nat
           /\ HostInv(host, Len(frames))
           /\ \A l \in CurLoops : GoodLoop(l, Len(frames)) /\ (l.k = "catch" => l.from \in 1..l.at)
           /\ OwnInv(frames, handlers, deferStack, CurLoops, exc)
<1>1. /\ frames \in Seq(GoodFrame) /\ handlers \in Seq(GoodHandler)
      /\ deferStack \in Seq(Nat) /\ HostInv(host, Len(frames))
  BY DEF IInv
<1>2. Len(frames) \in Nat /\ Len(deferStack) \in Nat
  BY <1>1, LenProperties
<1>3. /\ handlers = Cut(handlers, Len(handlers)) /\ Len(handlers) \in 0..Len(handlers)
      /\ Len(handlers) \in Nat
  BY HandlersBelow
<1>4. /\ \A j \in 1..Len(handlers) : handlers[j].frame \in 1..Len(frames)
      /\ \A i, j \in 1..Len(handlers) : i <= j => handlers[i].frame <= handlers[j].frame
  BY DEF UInv, LiveHandlers
<1>5. \A j \in 1..Len(handlers) : handlers[j] \in GoodHandler /\ handlers[j].scopes \in Seq(Scope)
  <2>1. \A j \in 1..Len(handlers) : handlers[j] \in GoodHandler
    BY <1>1, ElementOfSeq
  <2> QED
    BY <2>1 DEF GoodHandler, GoodScopes
<1>6. \A j \in 1..Len(handlers) : Len(handlers[j].scopes) \in Nat
  BY <1>5, LenProperties
<1>7. \A f \in 1..Len(frames) : frames[f].scopes \in GoodScopes /\ frames[f].base \in Nat
  <2>1. \A f \in 1..Len(frames) : frames[f] \in GoodFrame
    BY <1>1, ElementOfSeq
  <2> QED
    BY <2>1 DEF GoodFrame
<1>8. \A l \in CurLoops : GoodLoop(l, Len(frames))
  BY <1>1, <1>2, LoopsType DEF CurLoops
<1>9. \A l \in CurLoops : l.k = "catch" => l.from \in 1..l.at
  BY DEF OInv, OwnInv, LoopsFit, LoopFits
<1> QED
  BY <1>1, <1>2, <1>3, <1>4, <1>5, <1>6, <1>7, <1>8, <1>9 DEF OInv

\* The loops below a run() on top.
LEMMA RunFacts ==
    ASSUME IInv, UInv("tidy"), OInv, host # <<>>, Top(host).k \in RunKinds
    PROVE  /\ Top(host).n \in Nat /\ Top(host).n < Len(frames)
           /\ \A l \in CurLoops : l.at \in 1..Top(host).n
<1>1. Top(host).n \in Nat /\ Top(host).n < Len(frames)
  BY OwnFacts, HostPopRun
<1>2. \A l \in CurLoops : l.at <= Top(host).n
  BY OwnFacts, LoopsType DEF CurLoops
<1>3. \A l \in CurLoops : l.at \in Nat /\ l.at > 0
  BY OwnFacts DEF GoodLoop
<1> QED
  BY <1>1, <1>2, <1>3

\* Handlers of one frame fit into the scopes of the later ones.
LEMMA InnerFits ==
    ASSUME IInv, UInv("tidy"), OInv,
           NEW i \in 1..Len(handlers), NEW j \in 1..Len(handlers), i < j,
           NEW f, handlers[i].frame = f, handlers[j].frame = f,
           ScopesOf(frames, CurLoops, f) = {frames[f].scopes}
    PROVE  PushedIn(handlers[i], frames[f], handlers[j].scopes)
<1> DEFINE ss == frames[f].scopes
           qq == handlers[j].scopes
           k == Len(handlers[i].scopes)
           n == Len(qq)
<1>1. /\ handlers[i] \in GoodHandler /\ handlers[j] \in GoodHandler
      /\ ss \in GoodScopes /\ qq \in GoodScopes /\ k \in Nat /\ n \in Nat
  BY OwnFacts DEF GoodHandler
<1>2. /\ PushedIn(handlers[i], frames[f], ss) /\ PushedIn(handlers[j], frames[f], ss)
      /\ k < n
  BY OwnFacts DEF OwnInv, HandlersFit
<1>3. qq = Cut(ss, n) /\ n < Len(ss)
  BY <1>2 DEF PushedIn
<1> HIDE DEF ss, qq, k, n
<1>4. ss \in Seq(Scope) /\ Len(ss) \in Nat
  BY <1>1, ScopeFacts
<1>5. n \in 0..Len(ss)
  BY <1>1, <1>3, <1>4
<1>6. \A a \in 1..n : qq[a] = ss[a]
  BY <1>3, <1>4, <1>5, CutType
<1>7. (\A a \in 1..k : a \in 1..n) /\ k + 1 \in 1..n
  BY <1>1, <1>2
<1>8. (\A a \in 1..k : qq[a] = ss[a]) /\ qq[k + 1] = ss[k + 1]
  BY <1>6, <1>7
<1> QED
  BY <1>1, <1>2, <1>8, PushedSame DEF k, n, ss, qq

\* The interpreter loop catches a value: the frames above the try are given up, and the
\* frame of the try counts on what it had when it entered the try.
LEMMA OwnCatchInRun ==
    ASSUME IInv, UInv("tidy"), OInv, CatchInRun
    PROVE  OInv'
<1> DEFINE d == Len(frames)
           L == CurLoops
           h == Top(handlers)
           s == h.frame
           z == Len(handlers)
           c == Top(h.scopes).c
           t == [k |-> "catch", n |-> h.base, h |-> h, at |-> d, from |-> s]
           M == L \cup {t}
           n == z - 1
<1>1. /\ host # <<>> /\ Top(host).k \in RunKinds /\ handlers # <<>> /\ s > Top(host).n
      /\ handlers' = Pop(handlers) /\ exc' = "none"
      /\ host' = Append(host, [k |-> "catch", n |-> h.base, h |-> h])
      /\ UNCHANGED <<frames, deferStack>>
  BY DEF CatchInRun, Raised, HandlerHere
<1>2. /\ frames \in Seq(GoodFrame) /\ d \in Nat /\ handlers \in Seq(GoodHandler) /\ z \in Nat
      /\ deferStack \in Seq(Nat) /\ HostInv(host, d)
      /\ \A j \in 1..z : handlers[j].frame \in 1..d
      /\ \A l \in L : GoodLoop(l, d) /\ (l.k = "catch" => l.from \in 1..l.at)
      /\ OwnInv(frames, handlers, deferStack, L, exc)
      /\ \A i, j \in 1..z : i <= j => handlers[i].frame <= handlers[j].frame
  BY OwnFacts
<1>3. /\ Top(host).n \in Nat /\ \A l \in L : l.at \in 1..Top(host).n
  BY <1>1, RunFacts
<1>4. /\ z \in 1..z /\ h = handlers[z] /\ n \in 0..z /\ h \in GoodHandler /\ n \in Nat
      /\ handlers' = Cut(handlers, n)
  <2>1. h \in GoodHandler /\ z > 0
    BY <1>1, <1>2, TopType
  <2>2. handlers' = Cut(handlers, n)
    BY <1>1 DEF Pop, Cut
  <2> QED
    BY <1>2, <2>1, <2>2 DEF Top
<1>5. s \in 1..d
  BY <1>2, <1>4
<1>6. /\ t.k = "catch" /\ t.n = h.base /\ t.h = h /\ t.at = d /\ t.from = s
  OBVIOUS
<1>7. CurLoops' = M
  <2> DEFINE r == [k |-> "catch", n |-> h.base, h |-> h]
  <2>1. /\ r \in HostRec /\ r.k \notin RunKinds /\ r.k = "catch" /\ r.n = h.base /\ r.h = h
    <3>1. h \in Handler /\ h.base \in Nat
      BY <1>4, GoodHandlerType DEF GoodHandler
    <3>2. "catch" \notin RunKinds /\ "catch" \in LoopKinds
      BY DEF RunKinds, LoopKinds
    <3> HIDE DEF h
    <3> QED
      BY <3>1, <3>2 DEF HostRec
  <2> HIDE DEF r
  <2>2. Loops(Append(host, r), d) = Loops(host, d) \cup
               {[k |-> r.k, n |-> r.n, h |-> r.h, at |-> d,
                 from |-> IF r.k = "catch" THEN r.h.frame ELSE Top(host).n]}
    BY <1>1, <1>2, <2>1, LoopsPushLoop
  <2>3. [k |-> r.k, n |-> r.n, h |-> r.h, at |-> d,
         from |-> IF r.k = "catch" THEN r.h.frame ELSE Top(host).n] = t
    BY <2>1
  <2>4. CurLoops' = Loops(Append(host, r), d)
    BY <1>1 DEF CurLoops, r
  <2> HIDE DEF t
  <2> QED
    BY <2>2, <2>3, <2>4 DEF CurLoops
<1> HIDE DEF d, L, h, s, z, c, t, n
<1>8. \A l \in L : l.at < s /\ l.at \in Nat /\ l.at > 0 /\ (l.k = "catch" => l.from \in Nat /\ l.from < s)
  <2> SUFFICES ASSUME NEW l \in L
               PROVE  l.at < s /\ l.at \in Nat /\ l.at > 0 /\ (l.k = "catch" => l.from \in Nat /\ l.from < s)
    OBVIOUS
  <2>1. l.at \in 1..Top(host).n /\ (l.k = "catch" => l.from \in 1..l.at) /\ s \in Nat
    BY <1>2, <1>3, <1>5
  <2>2. l.at < s
    BY <1>1, <1>3, <2>1 DEF s, h
  <2> QED
    BY <2>1, <2>2
<1>9. t \in M /\ L \subseteq M /\ \A l \in M : l \in L \/ l = t
  OBVIOUS
<1> HIDE DEF M
<1>10. SameUpTo(frames, L, frames, M, s, d)
  <2>1. \A f \in 1..(s - 1) : f # d /\ ~(s < f) /\ f # s
    BY <1>2, <1>5
  <2>2. \A f \in 1..(s - 1) : Apart(t, f)
    BY <1>6, <2>1 DEF Apart
  <2>3. \A f \in 1..(s - 1) : AlikeAt(frames, L, frames, M, f)
    BY <1>9, <2>2 DEF AlikeAt
  <2>4. SameFrames(frames, frames, d) /\ s \in 1..(d + 1) /\ d <= d
    BY <1>2, <1>5 DEF SameFrames
  <2> QED
    BY <1>2, <2>1, <2>3, <2>4 DEF SameUpTo, d
<1>11. \A f \in s..d, m \in Nat : ~Exact(frames, M, "none", f, m)
  <2> SUFFICES ASSUME NEW f \in s..d PROVE ~GoesOn(M, f)
    BY DEF Exact
  <2>1. CASE f = s
    BY <1>6, <1>9, <2>1 DEF GoesOn
  <2>2. CASE s < f /\ f <= d
    BY <1>6, <1>9, <2>2, LoopKindsDiffer DEF GoesOn, Dropped
  <2> QED
    BY <1>2, <1>5, <2>1, <2>2
<1>12. Claim(frames, handlers, L, exc, s, c)
  BY <1>4 DEF Claim, s, c, z
<1>13. \A f \in s..d : FrameStays(frames, handlers, L, exc, frames, deferStack, M, "none", f)
  <2> SUFFICES ASSUME NEW f \in s..d
               PROVE  FrameStays(frames, handlers, L, exc, frames, deferStack, M, "none", f)
    OBVIOUS
  <2>1. Dropped(L, f) => Dropped(M, f)
    BY <1>9 DEF Dropped
  <2>2. ASSUME NEW l \in M, l.k = "catch", l.from = f
        PROVE  Claim(frames, handlers, L, exc, f, Top(l.h.scopes).c)
    <3>1. l = t
      BY <1>5, <1>8, <1>9, <2>2
    <3>2. f = s /\ Top(l.h.scopes).c = c
      BY <1>6, <2>2, <3>1 DEF c
    <3> QED
      BY <1>12, <3>2
  <2> QED
    BY <1>11, <2>1, <2>2 DEF FrameStays
<1>14. \A l \in L : l.k = "catch" => l.from # s
  BY <1>5, <1>8
<1>15. ScopesOf(frames, L, s) = {frames[s].scopes}
  BY <1>14 DEF ScopesOf
<1>16. ScopesOf(frames, M, s) = {h.scopes}
  <2>1. \A l \in M : l.k = "catch" /\ l.from = s <=> l = t
    BY <1>6, <1>9, <1>14
  <2>2. {l \in M : l.k = "catch" /\ l.from = s} = {t}
    BY <1>9, <2>1
  <2> QED
    BY <1>6, <1>9, <2>2 DEF ScopesOf
<1>17. \A j \in 1..n : handlers[j].frame >= s => HandlerStays(frames, L, frames, M, handlers[j])
  <2> SUFFICES ASSUME NEW j \in 1..n, handlers[j].frame >= s
               PROVE  HandlerStays(frames, L, frames, M, handlers[j])
    OBVIOUS
  <2>1. j \in 1..z /\ j < z /\ j <= z
    BY <1>4 DEF n
  <2>2. handlers[j].frame <= s
    BY <1>2, <1>4, <2>1 DEF s
  <2>3. handlers[j].frame = s
    BY <1>2, <1>5, <2>1, <2>2
  <2>4. PushedIn(handlers[j], frames[s], h.scopes)
    BY <1>4, <1>15, <2>1, <2>3, InnerFits DEF z, s, L
  <2> QED
    BY <1>16, <2>3, <2>4 DEF HandlerStays
<1>18. \A l \in M : LoopStays(L, frames, s, l)
  <2>1. LoopFits(frames, t)
    <3>1. PushedIn(h, frames[s], frames[s].scopes)
      BY <1>2, <1>4, <1>15 DEF OwnInv, HandlersFit, s, z
    <3>2. s \in 1..d
      BY <1>5
    <3> QED
      BY <1>6, <3>1, <3>2 DEF LoopFits, PushedIn
  <2>2. \A l \in L : l.at \in 1..(s - 1)
    BY <1>5, <1>8
  <2> QED
    BY <1>9, <2>1, <2>2 DEF LoopStays
<1>19. OwnInv(frames, Cut(handlers, n), deferStack, M, "none")
  <2>1. n \in 0..Len(handlers) /\ \A j \in 1..n : handlers[j].frame \in 1..Len(frames)
    BY <1>2, <1>4 DEF z, d
  <2> QED
    BY <1>2, <1>10, <1>13, <1>17, <1>18, <2>1, OwnStay DEF d
<1> QED
  BY <1>1, <1>4, <1>7, <1>19 DEF OInv

\* What is left of the frames when those above n are dropped.
LEMMA CutFrames ==
    ASSUME NEW fs \in Seq(GoodFrame), NEW n \in 0..Len(fs)
    PROVE  /\ Cut(fs, n) \in Seq(GoodFrame) /\ Len(Cut(fs, n)) = n
           /\ \A f \in 1..n : Cut(fs, n)[f] = fs[f]
BY CutType

\* A run() that ends drops its frames; the frame below is where the error is now.
LEMMA OwnLeaveCallVM ==
    ASSUME IInv, UInv("tidy"), OInv, LeaveCallVM, exc' # "none"
    PROVE  OInv'
<1> DEFINE d == Len(frames)
           n == Top(host).n
           L == CurLoops
           gs == Cut(frames, n)
<1>1. /\ host # <<>> /\ Top(host).k \in RunKinds /\ Top(host).k # "execute"
      /\ exc' = exc /\ exc # "none" /\ exc # "interrupt" /\ ~HandlerHere
      /\ frames' = gs /\ host' = Pop(host)
      /\ UNCHANGED <<handlers, deferStack>>
  BY DEF LeaveCallVM, Raised, Escapes, RunKinds, UInv
<1>2. /\ frames \in Seq(GoodFrame) /\ d \in Nat /\ handlers \in Seq(GoodHandler)
      /\ Len(handlers) \in Nat /\ Len(handlers) \in 0..Len(handlers)
      /\ handlers = Cut(handlers, Len(handlers))
      /\ deferStack \in Seq(Nat) /\ HostInv(host, d)
      /\ \A j \in 1..Len(handlers) : handlers[j].frame \in 1..d
      /\ \A i, j \in 1..Len(handlers) : i <= j => handlers[i].frame <= handlers[j].frame
      /\ \A l \in L : GoodLoop(l, d) /\ (l.k = "catch" => l.from \in 1..l.at)
      /\ OwnInv(frames, handlers, deferStack, L, exc)
  BY OwnFacts
<1>3. n \in Nat /\ n < d /\ \A l \in L : l.at \in 1..n
  BY <1>1, RunFacts
<1>4. n > 0
  <2>1. /\ Len(host) \in 1..Len(host) /\ Top(host) = host[Len(host)] /\ Len(host) \in Nat
        /\ host[1].k \in RunKinds /\ host[1].n = 0 /\ HostRecInv(host, Len(host), d)
    BY <1>1, <1>2, TopType DEF HostInv, Top
  <2>2. Len(host) # 1
    BY <1>1, <2>1 DEF UInv, BottomInv, BottomRec
  <2>3. 1 \in 1..(Len(host) - 1)
    <3> DEFINE z == Len(host)
    <3>1. z \in 1..z /\ z \in Nat /\ z # 1
      BY <2>1, <2>2
    <3> HIDE DEF z
    <3>2. 1 \in 1..(z - 1)
      BY <3>1
    <3> QED
      BY <3>2 DEF z
  <2>4. host[1].n < host[Len(host)].n
    BY <1>1, <2>1, <2>3 DEF HostRecInv
  <2> QED
    BY <1>3, <2>1, <2>4
<1>5. CurLoops' = L
  <2>1. gs \in Seq(GoodFrame) /\ Len(gs) = n
    BY <1>2, <1>3, CutFrames
  <2>2. Loops(Pop(host), n) = Loops(host, d)
    BY <1>1, <1>2, LoopsPopRun
  <2> QED
    BY <1>1, <2>1, <2>2 DEF CurLoops
<1> HIDE DEF d, n, L
<1>6. gs \in Seq(GoodFrame) /\ Len(gs) = n /\ \A f \in 1..n : gs[f] = frames[f]
  <2>1. n \in 0..Len(frames)
    BY <1>3 DEF d
  <2> QED
    BY <1>2, <2>1, CutFrames
<1> HIDE DEF gs
<1>7. \A j \in 1..Len(handlers) : handlers[j].frame <= n
  <2> SUFFICES ASSUME NEW j \in 1..Len(handlers) PROVE handlers[j].frame <= n
    OBVIOUS
  <2>1. handlers # <<>> /\ Len(handlers) \in 1..Len(handlers) /\ j <= Len(handlers)
    BY <1>2
  <2>2. ~(handlers[Len(handlers)].frame > n)
    BY <1>1, <2>1 DEF HandlerHere, Top, n
  <2> DEFINE z == Len(handlers)
  <2>3. z \in 1..z /\ j \in 1..z /\ j <= z /\ handlers[z].frame \in 1..d /\ handlers[j].frame \in 1..d
    BY <1>2, <2>1
  <2>4. handlers[j].frame <= handlers[z].frame
    BY <1>2, <2>3
  <2> HIDE DEF z
  <2>5. ~(handlers[z].frame > n)
    BY <2>2 DEF z
  <2> QED
    BY <1>2, <1>3, <2>3, <2>4, <2>5
<1>8. SameUpTo(frames, L, gs, L, n, n)
  <2>1. \A f \in 1..(n - 1) : f # d /\ f # n /\ f \in 1..n /\ f + 1 \in 1..n
    BY <1>3
  <2>2. SameFrames(frames, gs, n)
    BY <1>6 DEF SameFrames
  <2>3. \A f \in 1..(n - 1) : AlikeAt(frames, L, gs, L, f)
    BY <1>6, <2>1 DEF AlikeAt
  <2>4. n \in 1..(n + 1) /\ n <= d /\ n <= n
    BY <1>2, <1>3, <1>4
  <2> QED
    BY <1>3, <1>6, <2>1, <2>2, <2>3, <2>4 DEF SameUpTo, d
<1>9. \A f \in n..n : FrameStays(frames, handlers, L, exc, gs, deferStack, L, exc, f)
  <2>1. \A f \in n..n : f = n
    BY <1>3
  <2>2. \A m : ~Exact(gs, L, exc, n, m)
    BY <1>1, <1>6 DEF Exact
  <2>3. \A l \in L : l.k = "catch" /\ l.from = n => Claim(frames, handlers, L, exc, n, Top(l.h.scopes).c)
    BY DEF Claim
  <2> QED
    BY <2>1, <2>2, <2>3 DEF FrameStays
<1>10. \A j \in 1..Len(handlers) : handlers[j].frame >= n => HandlerStays(frames, L, gs, L, handlers[j])
  <2> SUFFICES ASSUME NEW j \in 1..Len(handlers), handlers[j].frame >= n
               PROVE  HandlerStays(frames, L, gs, L, handlers[j])
    OBVIOUS
  <2>1. handlers[j].frame = n
    BY <1>2, <1>3, <1>7
  <2>2. gs[n] = frames[n]
    BY <1>3, <1>4, <1>6
  <2>3. ScopesOf(gs, L, n) = ScopesOf(frames, L, n)
    BY <2>2 DEF ScopesOf
  <2> QED
    BY <2>1, <2>3 DEF HandlerStays
<1>11. \A l \in L : LoopStays(L, gs, n, l)
  <2> SUFFICES ASSUME NEW l \in L PROVE LoopFits(gs, l)
    BY DEF LoopStays
  <2>1. LoopFits(frames, l) /\ GoodLoop(l, d)
    BY <1>2 DEF OwnInv, LoopsFit
  <2>2. \A f \in 1..l.at : f \in 1..n
    BY <1>3
  <2> QED
    BY <1>2, <1>6, <2>1, <2>2, FitsBelow
<1>12. OwnInv(gs, Cut(handlers, Len(handlers)), deferStack, L, exc)
  <2>1. \A j \in 1..Len(handlers) : handlers[j].frame \in 1..n
    BY <1>2, <1>3, <1>7
  <2> QED
    BY <1>2, <1>6, <1>8, <1>9, <1>10, <1>11, <2>1, OwnStay
<1> QED
  BY <1>1, <1>2, <1>5, <1>12 DEF OInv

\* The evaluation is given up with all its frames.
LEMMA OwnLeaveExecute ==
    ASSUME IInv, UInv("tidy"), OInv, LeaveExecute
    PROVE  OInv'
<1> DEFINE d == Len(frames)
           L == CurLoops
<1>1. /\ host # <<>> /\ Top(host).k = "execute" /\ Top(host).k \in RunKinds
      /\ exc' = "none" /\ exc # "interrupt"
      /\ UNCHANGED <<frames, deferStack>>
      /\ host' = Append(host, Host("execErr", frames[Top(host).n + 1].base))
  BY DEF LeaveExecute, Raised, RunKinds, UInv
<1>2. /\ frames \in Seq(GoodFrame) /\ d \in Nat /\ handlers \in Seq(GoodHandler)
      /\ Len(handlers) \in Nat
      /\ deferStack \in Seq(Nat) /\ HostInv(host, d)
      /\ \A j \in 1..Len(handlers) : handlers[j].frame \in 1..d
      /\ OwnInv(frames, handlers, deferStack, L, exc)
      /\ \A f \in 1..d : frames[f].base \in Nat
  BY OwnFacts
<1>3. Top(host).n = 0
  <2>1. /\ Len(host) \in 1..Len(host) /\ Top(host) = host[Len(host)]
        /\ host[1].n = 0
    BY <1>1, <1>2, TopType DEF HostInv, Top
  <2>2. Len(host) = 1
    BY <1>1, <2>1 DEF UInv, BottomInv, BottomRec
  <2> QED
    BY <2>1, <2>2
<1>4. L = {} /\ d > 0
  <2>1. Top(host).n < d /\ \A l \in L : l.at \in 1..0
    BY <1>1, <1>3, RunFacts
  <2> QED
    BY <1>2, <1>3, <2>1
<1>5. handlers' = Cut(handlers, 0)
  <2>1. PICK i \in 0..Len(handlers) : PopHandlers(i, 0)
    BY <1>3 DEF LeaveExecute
  <2>2. i = 0
    <3>1. i > 0 => handlers[i].frame <= 0 /\ i \in 1..Len(handlers)
      BY <1>2, <2>1 DEF PopHandlers
    <3> QED
      BY <1>2, <3>1
  <2> QED
    BY <2>1, <2>2 DEF PopHandlers
<1>6. PICK t : /\ CurLoops' = L \cup {t}
               /\ t.k = "execErr" /\ t.n = 0 /\ t.at = d /\ t.from = 0
  <2>1. frames[Top(host).n + 1].base \in Nat /\ "execErr" \in LoopKinds /\ "execErr" # "catch"
    BY <1>2, <1>3, <1>4 DEF LoopKinds
  <2> HIDE DEF d
  <2>2. \E t : /\ CurLoops' = CurLoops \cup {t}
               /\ t.k = "execErr" /\ t.n = frames[Top(host).n + 1].base
               /\ t.at = Len(frames) /\ t.from = Top(host).n
    BY <1>1, <2>1, StartedLoops
  <2>3. frames[Top(host).n + 1].base = 0
    <3>1. frames # <<>>
      BY <1>2, <1>4 DEF d
    <3> QED
      BY <1>3, <3>1 DEF UInv, BottomInv
  <2> QED
    BY <1>3, <2>2, <2>3 DEF d
<1> HIDE DEF d, L
<1>7. \A f \in 1..d : Dropped({t}, f)
  BY <1>6, LoopKindsDiffer DEF Dropped
<1>8. SameUpTo(frames, L, frames, {t}, 1, d)
  <2>1. 1 \in 1..(d + 1) /\ \A f \in 1..(1 - 1) : FALSE
    BY <1>2
  <2> QED
    BY <1>2, <2>1 DEF SameUpTo, SameFrames, d
<1>9. \A f \in 1..d : FrameStays(frames, handlers, L, exc, frames, deferStack, {t}, "none", f)
  <2>1. \A m : \A f \in 1..d : ~Exact(frames, {t}, "none", f, m)
    BY <1>7 DEF Exact, GoesOn
  <2> QED
    BY <1>6, <1>7, <2>1 DEF FrameStays
<1>10. LoopFits(frames, t)
  BY <1>6 DEF LoopFits
<1>11. OwnInv(frames, Cut(handlers, 0), deferStack, {t}, "none")
  <2>1. /\ 0 \in 0..Len(handlers)
        /\ \A j \in 1..0 : handlers[j].frame \in 1..Len(frames)
        /\ \A j \in 1..0 : handlers[j].frame >= 1 => HandlerStays(frames, L, frames, {t}, handlers[j])
        /\ \A l \in {t} : LoopStays(L, frames, 1, l)
    BY <1>2, <1>10 DEF LoopStays
  <2> QED
    BY <1>2, <1>8, <1>9, <2>1, OwnStay DEF d
<1> QED
  BY <1>1, <1>4, <1>5, <1>6, <1>11 DEF OInv
----------------------------------------------------------------------------
(* Steps of a loop that runs defers.                                        *)

\* The loop on top, and the others: they work on frames of other run()s.
CurLoop == TopLoop(host, Len(frames))
OtherLoops == Loops(Pop(host), Len(frames))

\* How the loop on top relates to the others.
LEMMA TopLoopFacts ==
    ASSUME IInv, UInv("tidy"), OInv, host # <<>>, Top(host).k \notin RunKinds
    PROVE  /\ Len(frames) \in Nat \ {0} /\ frames # <<>>
           /\ HostInv(Pop(host), Len(frames))
           /\ Pop(host) # <<>> /\ Top(Pop(host)).k \in RunKinds
           /\ Top(Pop(host)).n \in Nat /\ Top(Pop(host)).n < Len(frames)
           /\ CurLoops = OtherLoops \cup {CurLoop}
           /\ \A e : Loops(Pop(host), e) = OtherLoops
           /\ CurLoop.k = Top(host).k /\ CurLoop.n = Top(host).n /\ CurLoop.h = Top(host).h
           /\ CurLoop.at = Len(frames)
           /\ CurLoop.from = (IF Top(host).k = "catch" THEN Top(host).h.frame
                              ELSE Top(Pop(host)).n)
           /\ LoopFits(frames, CurLoop)
           /\ \A l \in OtherLoops : /\ GoodLoop(l, Len(frames))
                                    /\ l.at \in 1..Top(Pop(host)).n
                                    /\ l.at \in 1..(Len(frames) - 1)
                                    /\ l.k = "catch" => l.from \in 1..l.at
                                    /\ LoopFits(frames, l)
           /\ \A f \in Nat : f > Top(Pop(host)).n => FreeIn(OtherLoops, f)
<1>1. /\ Len(frames) \in Nat /\ HostInv(host, Len(frames)) /\ frames \in Seq(GoodFrame)
      /\ \A l \in CurLoops : GoodLoop(l, Len(frames)) /\ (l.k = "catch" => l.from \in 1..l.at)
  BY OwnFacts
<1>2. /\ HostInv(Pop(host), Len(frames)) /\ Pop(host) # <<>> /\ Top(Pop(host)).k \in RunKinds
  BY <1>1, HostPopLoop
<1>3. /\ Top(Pop(host)).n \in Nat /\ Top(Pop(host)).n < Len(frames)
  <2>1. Pop(host) \in Seq(HostRec)
    BY <1>2, HostShape
  <2>2. /\ Len(Pop(host)) \in 1..Len(Pop(host)) /\ Top(Pop(host)) = Pop(host)[Len(Pop(host))]
    BY <1>2, <2>1, TopType DEF Top
  <2> QED
    BY <1>2, <2>2, HostShape
<1>4. Len(frames) \in Nat \ {0} /\ frames # <<>>
  <2>1. Len(frames) # 0
    BY <1>1, <1>3
  <2> QED
    BY <1>1, <2>1, EmptySeq
<1>5. /\ \A e : Loops(Pop(host), e) = OtherLoops
      /\ CurLoops = OtherLoops \cup {CurLoop}
      /\ CurLoop.k = Top(host).k /\ CurLoop.n = Top(host).n /\ CurLoop.h = Top(host).h
      /\ CurLoop.at = Len(frames)
      /\ CurLoop.from = (IF Top(host).k = "catch" THEN Top(host).h.frame ELSE Top(Pop(host)).n)
      /\ \A l \in OtherLoops : l.at <= Top(Pop(host)).n
  <2>1. \A e : Loops(Pop(host), e) = Loops(Pop(host), Len(frames))
    BY <1>1, <1>2, LoopsDepth
  <2> QED
    BY <1>1, <2>1, LoopsPopLoop DEF CurLoops, CurLoop, OtherLoops
<1>6. LoopsFit(frames, CurLoops)
  BY DEF OInv, OwnInv
<1>7. \A l \in OtherLoops : /\ GoodLoop(l, Len(frames)) /\ (l.k = "catch" => l.from \in 1..l.at)
                            /\ LoopFits(frames, l)
  BY <1>1, <1>5, <1>6 DEF LoopsFit
<1>8. \A l \in OtherLoops : l.at \in 1..Top(Pop(host)).n /\ l.at \in 1..(Len(frames) - 1)
  BY <1>1, <1>3, <1>5, <1>7 DEF GoodLoop
<1>9. \A f \in Nat : f > Top(Pop(host)).n => FreeIn(OtherLoops, f)
  BY <1>3, <1>7, <1>8 DEF FreeIn
<1>10. LoopFits(frames, CurLoop)
  BY <1>5, <1>6 DEF LoopsFit
<1> QED
  BY <1>2, <1>3, <1>4, <1>5, <1>7, <1>8, <1>9, <1>10

\* Nothing is running: there is nothing to count on.
LEMMA OwnNothing ==
    ASSUME IInv, UInv("tidy"), host = <<>>
    PROVE  OInv
<1>1. Len(frames) = 0
  BY DEF IInv, HostInv
<1>2. Len(handlers) = 0
  <2>1. Len(handlers) \in Nat
    BY LenProperties DEF IInv
  <2>2. Len(handlers) > 0 => 1 \in 1..Len(handlers)
    BY <2>1
  <2>3. ~(1 \in 1..Len(handlers))
    BY <1>1 DEF UInv, LiveHandlers
  <2> QED
    BY <2>1, <2>2, <2>3
<1>3. CurLoops = {}
  <2>1. Len(host) = 0
    BY DEF IInv, HostInv
  <2> QED
    BY <2>1 DEF CurLoops, Loops
<1>4. ClaimsHeld(frames, handlers, deferStack, CurLoops, exc)
  BY <1>1 DEF ClaimsHeld
<1>5. ExactlyHeld(frames, deferStack, CurLoops, exc)
  BY <1>1 DEF ExactlyHeld
<1>6. HandlersFit(frames, handlers, CurLoops)
  BY <1>2 DEF HandlersFit
<1>7. LoopsFit(frames, CurLoops)
  BY <1>3 DEF LoopsFit
<1> QED
  BY <1>4, <1>5, <1>6, <1>7 DEF OInv, OwnInv

\* What a RUN_DEFERS has left is what its activation has on the defer stack.
LEMMA LeftExact ==
    ASSUME IInv, UInv("tidy"), OInv, host # <<>>, Top(host).k \in OpKinds, exc = "none"
    PROVE  /\ Left(CurLoop, Cur.scopes) \in Nat
           /\ Exact(frames, CurLoops, exc, Len(frames), Left(CurLoop, Cur.scopes))
           /\ Cur.base + Left(CurLoop, Cur.scopes) = Len(deferStack)
           /\ \A m : Exact(frames, CurLoops, exc, Len(frames), m) =>
                m = Left(CurLoop, Cur.scopes)
<1> DEFINE d == Len(frames)
           m0 == Left(CurLoop, Cur.scopes)
<1>1. Top(host).k \notin RunKinds
  BY KindsDiffer
<1>2. /\ d \in Nat \ {0} /\ frames # <<>> /\ CurLoops = OtherLoops \cup {CurLoop}
      /\ CurLoop.k = Top(host).k /\ CurLoop.n = Top(host).n /\ CurLoop.at = d
      /\ Top(Pop(host)).n < d
      /\ \A f \in Nat : f > Top(Pop(host)).n => FreeIn(OtherLoops, f)
      /\ Top(Pop(host)).n \in Nat
  BY <1>1, TopLoopFacts
<1>3. Cur = frames[d] /\ Cur.scopes \in GoodScopes
  <2>1. d \in 1..d
    BY <1>2
  <2> QED
    BY <1>2, <2>1, OwnFacts DEF Cur, Top
<1>4. CurLoop.n \in Nat
  <2>1. host \in Seq(HostRec)
    BY DEF IInv, HostInv
  <2>2. Top(host) \in HostRec
    BY <2>1, TopType
  <2> QED
    BY <1>2, <2>2 DEF HostRec
<1>5. m0 \in Nat
  <2>1. /\ Len(Cur.scopes) \in Nat \ {0} /\ Top(Cur.scopes) = Cur.scopes[Len(Cur.scopes)]
        /\ \A i \in 1..Len(Cur.scopes) : Cur.scopes[i].c \in Nat
    BY <1>3, ScopeFacts
  <2> DEFINE w == Len(Cur.scopes)
  <2>4. w \in Nat \ {0}
    BY <2>1
  <2> HIDE DEF w
  <2>2. w \in 1..w /\ (w # 1 => w - 1 \in 1..w)
    BY <2>4
  <2>3. Top(Cur.scopes).c \in Nat /\ (w # 1 => Cur.scopes[w - 1].c \in Nat)
    BY <2>1, <2>2 DEF w
  <2> QED
    BY <1>4, <2>3 DEF Left, w
<1>6. FreeIn(OtherLoops, d)
  BY <1>2
<1>7. GoesOn(CurLoops, d)
  <2>1. GoesOn(OtherLoops, d) /\ ~Dropped(OtherLoops, d)
    BY <1>2, <1>6, FreeFrame
  <2> QED
    BY <1>2, <2>1, LoopKindsDiffer DEF GoesOn, Dropped
<1>8. Exact(frames, CurLoops, exc, d, m0)
  BY <1>2, <1>3, <1>7 DEF Exact
<1>9. Cur.base + m0 = Len(deferStack)
  <2>1. d \in 1..Len(frames)
    BY <1>2
  <2> QED
    BY <1>3, <1>5, <1>8, <2>1 DEF OInv, OwnInv, ExactlyHeld, NextBase
<1>10. ASSUME NEW m, Exact(frames, CurLoops, exc, d, m) PROVE m = m0
  <2>1. \A l \in OtherLoops : l.at # d
    BY <1>2, <1>6, FreeFrame
  <2>2. \A l \in CurLoops : l.k \in OpKinds /\ l.at = d => l = CurLoop
    BY <1>2, <2>1
  <2> QED
    BY <1>2, <1>3, <1>10, <2>2 DEF Exact
<1> QED
  BY <1>5, <1>8, <1>9, <1>10

\* The loop on top ends, or becomes another, without an unwinding.
LEMMA OwnEndLoop ==
    ASSUME IInv, UInv("tidy"), OInv, host # <<>>, Top(host).k \notin RunKinds,
           Top(host).k \notin Unwinding,
           NEW gs \in Seq(GoodFrame), Len(gs) = Len(frames),
           SameFrames(frames, gs, Len(frames)),
           \A f \in 1..(Len(frames) - 1) : gs[f].scopes = frames[f].scopes,
           NEW n \in 0..Len(handlers),
           \A j \in 1..n : handlers[j].frame = Len(frames) =>
             PushedIn(handlers[j], frames[Len(frames)], gs[Len(frames)].scopes),
           NEW T, \A t \in T : /\ t.at = Len(frames)
                               /\ t.k \notin Unwinding
                               /\ LoopFits(gs, t),
           NEW y,
           \A m \in Nat : Exact(gs, OtherLoops \cup T, y, Len(frames), m) =>
             /\ Exact(frames, CurLoops, exc, Len(frames), m)
             /\ frames[Len(frames)].base + m = Len(deferStack)
    PROVE  OwnInv(gs, Cut(handlers, n), deferStack, OtherLoops \cup T, y)
<1> DEFINE d == Len(frames)
<1>1. /\ d \in Nat \ {0}
      /\ CurLoops = OtherLoops \cup {CurLoop}
      /\ CurLoop.k = Top(host).k /\ CurLoop.at = d
      /\ \A l \in OtherLoops : l.at \in 1..(d - 1) /\ (l.k = "catch" => l.from \in 1..l.at)
  BY TopLoopFacts
<1>2. /\ frames \in Seq(GoodFrame) /\ handlers \in Seq(GoodHandler) /\ deferStack \in Seq(Nat)
      /\ \A j \in 1..Len(handlers) : handlers[j].frame \in 1..d
      /\ OwnInv(frames, handlers, deferStack, OtherLoops \cup {CurLoop}, exc)
  BY <1>1, OwnFacts
<1>3. \A m \in Nat : Exact(gs, OtherLoops \cup T, y, d, m) =>
        /\ Claim(frames, handlers, OtherLoops \cup {CurLoop}, exc, d, m)
        /\ frames[d].base + m = Len(deferStack)
  BY <1>1 DEF Claim
<1>4. \A t \in {CurLoop} \cup T : t.at = d /\ t.k \notin Unwinding
  BY <1>1
<1> HIDE DEF d
<1> QED
  BY <1>1, <1>2, <1>3, <1>4, OwnTopStep DEF d

\* The handlers of the frame on top while a loop that is not to give it up runs.
LEMMA LoopHandlers ==
    ASSUME IInv, UInv("tidy"), OInv, host # <<>>, Top(host).k \notin RunKinds, Top(host).k # "catch"
    PROVE  /\ Cur = frames[Len(frames)] /\ frames[Len(frames)].scopes \in GoodScopes
           /\ \A j \in 1..Len(handlers) : handlers[j].frame = Len(frames) =>
                PushedIn(handlers[j], frames[Len(frames)], frames[Len(frames)].scopes)
<1> DEFINE d == Len(frames)
<1>1. /\ d \in Nat \ {0} /\ frames # <<>> /\ CurLoop.k = Top(host).k
      /\ CurLoops = OtherLoops \cup {CurLoop}
      /\ FreeIn(OtherLoops, d)
  BY TopLoopFacts
<1>2. Cur = frames[d] /\ frames[d].scopes \in GoodScopes
  <2>1. d \in 1..d
    BY <1>1
  <2> QED
    BY <2>1, OwnFacts DEF Cur, Top
<1>3. \A l \in CurLoops : l.k = "catch" => l.from # d
  <2>1. \A l \in OtherLoops : l.at # d /\ (l.k = "catch" => l.from # d)
    BY <1>1, FreeFrame
  <2> QED
    BY <1>1, <2>1
<1>4. ScopesOf(frames, CurLoops, d) = {frames[d].scopes}
  BY <1>3 DEF ScopesOf
<1>5. \A j \in 1..Len(handlers) : handlers[j].frame = d =>
        PushedIn(handlers[j], frames[d], frames[d].scopes)
  BY <1>4 DEF OInv, OwnInv, HandlersFit
<1> QED
  BY <1>2, <1>5

\* break goes on after the scopes that it left.
LEMMA OwnFinishBreak ==
    ASSUME IInv, UInv("tidy"), OInv, FinishBreak
    PROVE  OInv'
<1> DEFINE d == Len(frames)
<1>1. /\ exc = "none" /\ host # <<>> /\ Top(host).k = "break" /\ Top(host).n = 0
      /\ host' = Pop(host) /\ UNCHANGED <<frames, handlers, deferStack, exc>>
  BY DEF FinishBreak, Done, At, OpKinds
<1>2. Top(host).k \in OpKinds /\ Top(host).k \notin RunKinds /\ Top(host).k \notin Unwinding
  BY <1>1, KindsDiffer, LoopKindsDiffer DEF OpKinds
<1>3. /\ d \in Nat \ {0} /\ frames # <<>> /\ CurLoop.k = "break" /\ CurLoop.n = 0
      /\ \A e : Loops(Pop(host), e) = OtherLoops
      /\ FreeIn(OtherLoops, d)
  BY <1>1, <1>2, TopLoopFacts
<1>4. CurLoops' = OtherLoops
  BY <1>1, <1>3 DEF CurLoops
<1>5. /\ frames \in Seq(GoodFrame) /\ handlers = Cut(handlers, Len(handlers))
      /\ Len(handlers) \in 0..Len(handlers) /\ Cur = frames[d]
      /\ \A j \in 1..Len(handlers) : /\ handlers[j].frame \in 1..d
      /\ frames[d].scopes \in GoodScopes
  <2>1. d \in 1..d
    BY <1>3
  <2> QED
    BY <2>1, OwnFacts DEF Cur, Top
<1>6. Left(CurLoop, Cur.scopes) = Top(Cur.scopes).c
  <2>1. Top(Cur.scopes).c \in Nat
    <3>1. /\ Len(Cur.scopes) \in Nat \ {0} /\ Top(Cur.scopes) = Cur.scopes[Len(Cur.scopes)]
          /\ \A i \in 1..Len(Cur.scopes) : Cur.scopes[i].c \in Nat
      BY <1>5, ScopeFacts
    <3>2. Len(Cur.scopes) \in 1..Len(Cur.scopes)
      BY <3>1
    <3> QED
      BY <3>1, <3>2
  <2> QED
    BY <1>3, <2>1 DEF Left
<1>7. \A m \in Nat : Exact(frames, OtherLoops \cup {}, exc, d, m) =>
        /\ Exact(frames, CurLoops, exc, d, m)
        /\ frames[d].base + m = Len(deferStack)
  <2>1. OtherLoops \cup {} = OtherLoops
    OBVIOUS
  <2>2. \A m : Exact(frames, OtherLoops, exc, d, m) => m = Top(frames[d].scopes).c
    BY <1>3, FreeExact
  <2>3. /\ Exact(frames, CurLoops, exc, d, Top(frames[d].scopes).c)
        /\ frames[d].base + Top(frames[d].scopes).c = Len(deferStack)
    BY <1>1, <1>2, <1>5, <1>6, LeftExact
  <2> HIDE DEF d
  <2> QED
    BY <2>1, <2>2, <2>3
<1>8. \A j \in 1..Len(handlers) : handlers[j].frame = d =>
        PushedIn(handlers[j], frames[d], frames[d].scopes)
  BY <1>1, <1>2, LoopHandlers, KindsDiffer, LoopKindsDiffer
<1>9. SameFrames(frames, frames, d)
  BY DEF SameFrames
<1>10. OwnInv(frames, Cut(handlers, Len(handlers)), deferStack, OtherLoops \cup {}, exc)
  <2> DEFINE gs == frames  n == Len(handlers)
  <2>1. \A j \in 1..n : handlers[j].frame = Len(frames) =>
             PushedIn(handlers[j], frames[Len(frames)], gs[Len(frames)].scopes)
    BY <1>8
  <2> QED
    BY <1>1, <1>2, <1>5, <1>7, <2>1, <1>9, OwnEndLoop
<1> QED
  BY <1>1, <1>4, <1>5, <1>10 DEF OInv

\* An error of a defer leaves a loop that has no other error to keep.
LEMMA OwnRethrow ==
    ASSUME IInv, UInv("tidy"), OInv, RethrowFromDefers
    PROVE  OInv'
<1> DEFINE d == Len(frames)
<1>1. /\ exc # "none" /\ host # <<>> /\ Top(host).k \in {"return", "tail"} \cup OpKinds
      /\ host' = Pop(host) /\ UNCHANGED <<frames, handlers, deferStack, exc>>
  BY DEF RethrowFromDefers, Raised
<1>2. /\ Top(host).k \notin RunKinds /\ Top(host).k \notin Unwinding /\ Top(host).k # "catch"
  BY <1>1, KindsDiffer, LoopKindsDiffer DEF RunKinds
<1>3. /\ d \in Nat \ {0} /\ \A e : Loops(Pop(host), e) = OtherLoops
      /\ FreeIn(OtherLoops, d)
  BY <1>1, <1>2, TopLoopFacts
<1>4. CurLoops' = OtherLoops
  BY <1>1, <1>3 DEF CurLoops
<1>5. /\ frames \in Seq(GoodFrame) /\ handlers = Cut(handlers, Len(handlers))
      /\ Len(handlers) \in 0..Len(handlers)
  BY OwnFacts
<1>6. \A m : ~Exact(frames, OtherLoops \cup {}, exc, d, m)
  <2>1. OtherLoops \cup {} = OtherLoops
    OBVIOUS
  <2>2. \A m : ~Exact(frames, OtherLoops, exc, d, m)
    BY <1>1, <1>3, FreeExact
  <2> QED
    BY <2>1, <2>2
<1>7. OwnInv(frames, Cut(handlers, Len(handlers)), deferStack, OtherLoops \cup {}, exc)
  <2> DEFINE gs == frames  n == Len(handlers)
  <2>1. \A j \in 1..n : handlers[j].frame = Len(frames) =>
             PushedIn(handlers[j], frames[Len(frames)], gs[Len(frames)].scopes)
    BY <1>1, <1>2, LoopHandlers
  <2>2. SameFrames(frames, gs, Len(frames))
    BY DEF SameFrames
  <2> QED
    BY <1>1, <1>2, <1>5, <1>6, <2>1, <2>2, OwnEndLoop
<1> QED
  BY <1>1, <1>4, <1>5, <1>7 DEF OInv

\* The end of the outermost scope is followed by RETURN.
LEMMA OwnEndFunction ==
    ASSUME IInv, UInv("tidy"), OInv, FinishEndScope, Len(Cur.scopes) = 1
    PROVE  OInv'
<1> DEFINE d == Len(frames)
<1>1. /\ exc = "none" /\ host # <<>> /\ Top(host).k = "endScope"
      /\ host' = Append(Pop(host), Host("return", Cur.base))
      /\ UNCHANGED <<frames, handlers, deferStack, exc>>
  BY DEF FinishEndScope, Done, At
<1>2. /\ Top(host).k \notin RunKinds /\ Top(host).k \notin Unwinding /\ Top(host).k # "catch"
  BY <1>1 DEF RunKinds, Unwinding
<1>3. /\ d \in Nat \ {0} /\ \A e : Loops(Pop(host), e) = OtherLoops
      /\ FreeIn(OtherLoops, d)
      /\ HostInv(Pop(host), d) /\ Pop(host) # <<>> /\ Top(Pop(host)).k \in RunKinds
  BY <1>1, <1>2, TopLoopFacts
<1>4. /\ frames \in Seq(GoodFrame) /\ handlers = Cut(handlers, Len(handlers))
      /\ Len(handlers) \in 0..Len(handlers) /\ Cur = frames[d] /\ frames[d].base \in Nat
  <2>1. d \in 1..d
    BY <1>3
  <2> QED
    BY <2>1, OwnFacts DEF Cur, Top
<1> DEFINE r == Host("return", Cur.base)
           t == [k |-> r.k, n |-> r.n, h |-> r.h, at |-> d,
                 from |-> IF r.k = "catch" THEN r.h.frame ELSE Top(Pop(host)).n]
<1>5. r \in HostRec /\ r.k = "return" /\ r.n = frames[d].base /\ r.k \notin RunKinds
  <2>1. "return" \in LoopKinds /\ "return" \notin RunKinds
    BY DEF LoopKinds, RunKinds
  <2> QED
    BY <1>4, <2>1, HostType DEF Host
<1> HIDE DEF r
<1>6. CurLoops' = OtherLoops \cup {t}
  BY <1>1, <1>3, <1>5, LoopsPushLoop DEF CurLoops, r
<1>7. t.k = "return" /\ t.at = d /\ t.n = frames[d].base
  BY <1>5
<1> HIDE DEF t
<1>8. LoopFits(frames, t)
  BY <1>4, <1>7 DEF LoopFits
<1>9. \A m : ~Exact(frames, OtherLoops \cup {t}, exc, d, m)
  BY <1>3, <1>7, TopCounts
<1>10. OwnInv(frames, Cut(handlers, Len(handlers)), deferStack, OtherLoops \cup {t}, exc)
  <2> DEFINE gs == frames  n == Len(handlers)  T == {t}
  <2>1. \A j \in 1..n : handlers[j].frame = Len(frames) =>
             PushedIn(handlers[j], frames[Len(frames)], gs[Len(frames)].scopes)
    BY <1>1, <1>2, LoopHandlers
  <2>2. SameFrames(frames, gs, Len(frames))
    BY DEF SameFrames
  <2>3. \A u \in T : u.at = Len(frames) /\ u.k \notin Unwinding /\ LoopFits(gs, u)
    BY <1>7, <1>8, LoopKindsDiffer
  <2> QED
    BY <1>1, <1>2, <1>4, <1>9, <2>1, <2>2, <2>3, OwnEndLoop
<1> QED
  BY <1>1, <1>4, <1>6, <1>10 DEF OInv

\* The end of a scope inside another: its TRY_END drops the handler of the try body.
LEMMA EndScopeHandlers ==
    ASSUME IInv, UInv("tidy"), OInv, FinishEndScope, Len(Cur.scopes) # 1,
           NEW n, n = (IF CurScope.try /\ handlers # <<>> THEN Len(handlers) - 1
                       ELSE Len(handlers)),
           NEW j \in 1..n, handlers[j].frame = Len(frames)
    PROVE  Len(handlers[j].scopes) < Len(Cur.scopes) - 1
<1> DEFINE d == Len(frames)
           k == Len(handlers)
           a == Len(handlers[j].scopes)
           w == Len(Cur.scopes)
<1>1. /\ host # <<>> /\ Top(host).k = "endScope"
  BY DEF FinishEndScope, Done, At
<1>2. /\ Top(host).k \notin RunKinds /\ Top(host).k # "catch"
  BY <1>1 DEF RunKinds
<1>3. /\ k \in Nat /\ d \in Nat
      /\ \A i \in 1..k : handlers[i].frame \in 1..d /\ Len(handlers[i].scopes) \in Nat
      /\ \A i, l \in 1..k : i <= l => handlers[i].frame <= handlers[l].frame
  BY OwnFacts
<1>4. /\ Cur = frames[d] /\ Cur.scopes \in GoodScopes
      /\ \A i \in 1..k : handlers[i].frame = d => PushedIn(handlers[i], frames[d], Cur.scopes)
  BY <1>1, <1>2, LoopHandlers
<1>5. w \in Nat \ {0} /\ CurScope = Cur.scopes[w]
  BY <1>4, ScopeFacts DEF CurScope
<1>6. j \in 1..k /\ (CurScope.try => n = k - 1) /\ k > 0
  <2>1. k = 0 => handlers = <<>>
    BY EmptySeq DEF IInv
  <2>2. n \in 0..k
    BY <1>3, <2>1
  <2>3. j \in 1..k /\ k > 0
    BY <1>3, <2>2
  <2>4. handlers # <<>>
    BY <2>3
  <2> QED
    BY <2>3, <2>4
<1>7. a \in Nat /\ a < w /\ Cur.scopes[a + 1].try
  BY <1>3, <1>4, <1>6 DEF PushedIn
<1>8. CASE CurScope.try
  <2> DEFINE b == Len(handlers[k].scopes)
  <2>1. k \in 1..k /\ j < k /\ j <= k
    BY <1>3, <1>6, <1>8
  <2>2. handlers[k].frame = d
    <3>1. handlers[j].frame <= handlers[k].frame /\ handlers[k].frame \in 1..d
      BY <1>3, <1>6, <2>1
    <3> QED
      BY <1>3, <3>1
  <2>3. b \in Nat /\ b < w
    BY <1>3, <1>4, <2>1, <2>2 DEF PushedIn
  <2>4. a < b
    <3>1. HandlersFit(frames, handlers, CurLoops)
      BY DEF OInv, OwnInv
    <3> QED
      BY <1>6, <2>1, <2>2, <3>1 DEF HandlersFit
  <2> HIDE DEF a, b, w
  <2> QED
    BY <1>5, <1>7, <2>3, <2>4 DEF a, w
<1>9. CASE ~CurScope.try
  <2>1. a + 1 # w
    BY <1>5, <1>7, <1>9
  <2> HIDE DEF a, w
  <2>2. a < w - 1
    BY <1>5, <1>7, <2>1
  <2> QED
    BY <2>2 DEF a, w
<1> QED
  BY <1>8, <1>9

\* An inner scope ends, a try body with its handler.
LEMMA OwnEndInnerScope ==
    ASSUME IInv, UInv("tidy"), OInv, FinishEndScope, Len(Cur.scopes) # 1
    PROVE  OInv'
<1> DEFINE d == Len(frames)
           ss == Cur.scopes
           w == Len(Cur.scopes)
           qq == Cut(Cur.scopes, w - 1)
           n == IF CurScope.try /\ handlers # <<>> THEN Len(handlers) - 1 ELSE Len(handlers)
<1>1. /\ exc = "none" /\ host # <<>> /\ Top(host).k = "endScope" /\ Top(host).n = 0
      /\ host' = Pop(host) /\ SetScopes(qq)
      /\ handlers' = (IF CurScope.try /\ handlers # <<>> THEN Pop(handlers) ELSE handlers)
      /\ UNCHANGED <<deferStack, exc>>
  BY DEF FinishEndScope, Done, At, OpKinds, Pop, Cut
<1>2. /\ Top(host).k \in OpKinds /\ Top(host).k \notin RunKinds /\ Top(host).k \notin Unwinding
      /\ Top(host).k # "catch"
  BY <1>1 DEF RunKinds, Unwinding, OpKinds
<1>3. /\ d \in Nat \ {0} /\ frames # <<>> /\ CurLoop.k = "endScope" /\ CurLoop.n = 0
      /\ \A e : Loops(Pop(host), e) = OtherLoops
      /\ FreeIn(OtherLoops, d)
  BY <1>1, <1>2, TopLoopFacts
<1>4. /\ frames \in Seq(GoodFrame) /\ handlers \in Seq(GoodHandler) /\ Len(handlers) \in Nat
      /\ handlers = Cut(handlers, Len(handlers)) /\ Len(handlers) \in 0..Len(handlers)
  BY OwnFacts
<1>5. Cur = frames[d] /\ ss \in GoodScopes
  BY <1>1, <1>2, LoopHandlers
<1>6. /\ w \in Nat \ {0} /\ ss \in Seq(Scope) /\ w # 1
      /\ \A i \in 1..w : ss[i].c \in Nat
  BY <1>5, ScopeFacts
<1>7. w - 1 \in 1..w /\ w - 1 \in 0..w /\ w - 1 \in 1..(w - 1)
  <2> HIDE DEF w
  <2> QED
    BY <1>6
<1>8. qq \in GoodScopes
  BY <1>5, <1>7, LeaveScopes
<1>9. Len(qq) = w - 1 /\ \A i \in 1..(w - 1) : qq[i] = ss[i]
  <2> HIDE DEF w
  <2> QED
    BY <1>6, <1>7, CutType DEF w
<1>10. Top(qq).c = ss[w - 1].c /\ ss[w - 1].c \in Nat
  BY <1>6, <1>7, <1>9 DEF Top
<1>11. Moved(frames, frames', qq)
  <2> HIDE DEF qq
  <2> QED
    BY <1>1, <1>3, <1>4, <1>8, SetScopesMoves
<1>12. n \in 0..Len(handlers) /\ handlers' = Cut(handlers, n)
  <2>1. CASE CurScope.try /\ handlers # <<>>
    <3>1. Len(handlers) > 0
      BY <1>4, <2>1, EmptySeq
    <3>2. n = Len(handlers) - 1 /\ handlers' = Pop(handlers)
      BY <1>1, <2>1
    <3>3. Pop(handlers) = Cut(handlers, Len(handlers) - 1)
      BY DEF Pop, Cut
    <3> HIDE DEF n
    <3>4. n \in 0..Len(handlers)
      BY <1>4, <3>1, <3>2
    <3> QED
      BY <3>2, <3>3, <3>4
  <2>2. CASE ~(CurScope.try /\ handlers # <<>>)
    BY <1>1, <1>4, <2>2
  <2> QED
    BY <2>1, <2>2
<1>13. \A j \in 1..n : handlers[j].frame = d => PushedIn(handlers[j], frames[d], qq)
  <2> SUFFICES ASSUME NEW j \in 1..n, handlers[j].frame = d
               PROVE  PushedIn(handlers[j], frames[d], qq)
    OBVIOUS
  <2> DEFINE a == Len(handlers[j].scopes)
  <2>1. j \in 1..Len(handlers)
    BY <1>4, <1>12
  <2>2. handlers[j] \in GoodHandler /\ a \in Nat
    BY <2>1, OwnFacts
  <2>3. PushedIn(handlers[j], frames[d], ss)
    BY <1>1, <1>2, <1>5, <2>1, LoopHandlers
  <2>4. a < w - 1
    BY EndScopeHandlers
  <2> HIDE DEF w, a, qq, ss, n
  <2>5. \A i \in 1..a : i \in 1..(w - 1)
    BY <1>6, <2>2, <2>4
  <2>6. a + 1 \in 1..(w - 1)
    BY <1>6, <2>2, <2>4
  <2>7. /\ a < Len(qq) /\ \A i \in 1..a : qq[i] = ss[i]
        /\ qq[a + 1].try = ss[a + 1].try
    BY <1>9, <2>4, <2>5, <2>6
  <2> QED
    BY <1>5, <1>8, <2>2, <2>3, <2>7, PushedSame DEF a
<1>14. Left(CurLoop, ss) = Top(qq).c
  <2> HIDE DEF qq, w, ss
  <2> QED
    BY <1>3, <1>6, <1>10 DEF Left, w, ss
<1> HIDE DEF n, qq, w, ss
<1>15. /\ frames' \in Seq(GoodFrame) /\ Len(frames') = d /\ SameFrames(frames, frames', d)
       /\ \A f \in 1..(d - 1) : frames'[f].scopes = frames[f].scopes
       /\ frames'[d].scopes = qq
  BY <1>11 DEF Moved
<1>16. \A m \in Nat : Exact(frames', OtherLoops \cup {}, exc, d, m) =>
        /\ Exact(frames, CurLoops, exc, d, m)
        /\ frames[d].base + m = Len(deferStack)
  <2>1. OtherLoops \cup {} = OtherLoops
    OBVIOUS
  <2>2. \A m : Exact(frames', OtherLoops, exc, d, m) => m = Top(frames'[d].scopes).c
    BY <1>3, FreeExact
  <2>3. /\ Exact(frames, CurLoops, exc, d, Left(CurLoop, ss))
        /\ frames[d].base + Left(CurLoop, ss) = Len(deferStack)
    BY <1>1, <1>2, <1>5, LeftExact DEF ss
  <2> HIDE DEF d
  <2> QED
    BY <1>14, <1>15, <2>1, <2>2, <2>3
<1>17. OwnInv(frames', Cut(handlers, n), deferStack, OtherLoops \cup {}, exc)
  <2> DEFINE gs == frames'
  <2>1. \A j \in 1..n : handlers[j].frame = Len(frames) =>
             PushedIn(handlers[j], frames[Len(frames)], gs[Len(frames)].scopes)
    BY <1>13, <1>15
  <2> HIDE DEF gs
  <2> QED
    BY <1>1, <1>2, <1>12, <1>15, <1>16, <2>1, OwnEndLoop DEF gs
<1>18. CurLoops' = OtherLoops
  BY <1>1, <1>3 DEF CurLoops
<1> QED
  BY <1>1, <1>12, <1>17, <1>18 DEF OInv

\* Any scope ends.
LEMMA OwnFinishEndScope ==
    ASSUME IInv, UInv("tidy"), OInv, FinishEndScope
    PROVE  OInv'
BY OwnEndFunction, OwnEndInnerScope

\* Adding a loop that is not an unwinding on the frame on top.
LEMMA OtherAlike ==
    ASSUME NEW P, NEW T, NEW f, \A t \in T : t.k \notin Unwinding /\ t.at # f, NEW fs, NEW gs,
           gs[f].scopes = fs[f].scopes
    PROVE  AlikeAt(fs, P \cup T, gs, P, f)
BY DEF AlikeAt, Apart

\* The frame on top is dropped, none of its defers being left: the frame below has again
\* what it had when it called.  T are the loops of the frame on top, P the others.
LEMMA OwnDropFrame ==
    ASSUME IInv, UInv("tidy"), OInv, exc = "none",
           Len(frames) \in Nat \ {0}, Len(deferStack) <= frames[Len(frames)].base,
           NEW P, NEW T, CurLoops = P \cup T, FreeIn(P, Len(frames)),
           \A t \in T : t.k \notin Unwinding /\ t.at = Len(frames),
           \A l \in P : /\ GoodLoop(l, Len(frames)) /\ l.at \in 1..(Len(frames) - 1)
                        /\ LoopFits(frames, l),
           NEW i, PopHandlers(i, Len(frames) - 1)
    PROVE  /\ OwnInv(Cut(frames, Len(frames) - 1), handlers', deferStack, P, "none")
           /\ frames[Len(frames)].base = Len(deferStack)
           /\ i \in 0..Len(handlers) /\ handlers' = Cut(handlers, i)
           /\ \A j \in 1..i : handlers[j].frame \in 1..(Len(frames) - 1)
<1> DEFINE d == Len(frames)
           e == d - 1
           gs == Cut(frames, e)
           s == IF d = 1 THEN 1 ELSE d - 1
           L == P \cup T
<1>1. "catch" \in Unwinding
  BY DEF Unwinding
<1>2. /\ d \in Nat \ {0} /\ CurLoops = L
      /\ \A t \in T : t.k \notin Unwinding /\ t.k # "catch" /\ t.at = d
      /\ FreeIn(P, d)
      /\ \A l \in P : GoodLoop(l, d) /\ l.at \in 1..e /\ LoopFits(frames, l)
  BY <1>1
<1>3. /\ frames \in Seq(GoodFrame) /\ handlers \in Seq(GoodHandler) /\ Len(handlers) \in Nat
      /\ deferStack \in Seq(Nat) /\ Len(deferStack) \in Nat
      /\ \A j \in 1..Len(handlers) : handlers[j].frame \in 1..d
      /\ \A f \in 1..d : frames[f].base \in Nat
      /\ OwnInv(frames, handlers, deferStack, L, "none")
      /\ Len(deferStack) <= frames[d].base
  BY <1>2, OwnFacts
<1> HIDE DEF d
<1>4. e \in 0..d /\ d \in 1..d /\ s \in 1..(e + 1) /\ (s = e \/ (e = 0 /\ s = 1))
      /\ e \in Nat /\ e # d /\ e + 1 = d
  BY <1>2
<1>5. gs \in Seq(GoodFrame) /\ Len(gs) = e /\ \A f \in 1..e : gs[f] = frames[f]
  BY <1>3, <1>4, CutFrames DEF d
<1> HIDE DEF e, s, gs, L
<1>6. /\ i \in 0..Len(handlers) /\ handlers' = Cut(handlers, i)
      /\ \A j \in 1..i : handlers[j].frame \in 1..e
  <2>1. /\ i \in 0..Len(handlers) /\ handlers' = Cut(handlers, i)
        /\ \A j \in 1..i : handlers[j].frame <= e
    <3>1. LiveHandlers(handlers, frames)
      BY DEF UInv
    <3>2. PopHandlers(i, e) /\ e \in Nat
      BY <1>4 DEF e, d
    <3> QED
      BY <1>2, <1>3, <3>1, <3>2, PopsAbove DEF d
  <2>2. \A j \in 1..i : j \in 1..Len(handlers)
    BY <1>3, <2>1
  <2> QED
    BY <1>2, <1>3, <1>4, <2>1, <2>2
<1>7. frames[d].base = Len(deferStack)
  <2>1. ~Dropped(L, d)
    <3>1. ~Dropped(P, d)
      BY <1>2, FreeFrame
    <3> QED
      BY <1>2, <3>1 DEF Dropped, L
  <2>2. Held(frames, deferStack, L, d, 0)
    <3>1. 0 \in Nat /\ Claim(frames, handlers, L, "none", d, 0)
      BY <2>1 DEF Claim
    <3> QED
      BY <1>3, <1>4, <3>1 DEF OwnInv, ClaimsHeld, d
  <2>3. frames[d].base <= Len(deferStack) /\ frames[d].base \in Nat
    <3>1. frames[d].base \in Nat /\ frames[d].base + 0 <= Len(deferStack)
      BY <1>3, <1>4, <2>2 DEF Held
    <3> QED
      BY <3>1
  <2> QED
    BY <1>3, <2>3
<1>8. \A f \in 1..e : AlikeAt(frames, L, gs, P, f)
  <2> SUFFICES ASSUME NEW f \in 1..e PROVE AlikeAt(frames, L, gs, P, f)
    OBVIOUS
  <2>1. f # d /\ gs[f].scopes = frames[f].scopes
    BY <1>2, <1>4, <1>5
  <2> QED
    BY <1>2, <2>1, OtherAlike DEF L
<1>9. SameUpTo(frames, L, gs, P, s, e)
  <2>1. SameFrames(frames, gs, e)
    BY <1>5 DEF SameFrames
  <2>2. \A f \in 1..(s - 1) : f # d /\ f # e /\ f \in 1..e /\ f + 1 \in 1..e
    BY <1>2, <1>4
  <2> QED
    BY <1>2, <1>4, <1>5, <1>8, <2>1, <2>2 DEF SameUpTo, d
<1>10. \A f \in s..e : FrameStays(frames, handlers, L, "none", gs, deferStack, P, "none", f)
  <2> SUFFICES ASSUME NEW f \in s..e
               PROVE  FrameStays(frames, handlers, L, "none", gs, deferStack, P, "none", f)
    OBVIOUS
  <2>1. f = e /\ f \in 1..e /\ f \in 1..d /\ f # d /\ f + 1 = d
    BY <1>2, <1>4
  <2>2. AlikeAt(frames, L, gs, P, f)
    BY <1>8, <2>1
  <2>3. /\ Dropped(P, f) <=> Dropped(L, f)
        /\ GoesOn(P, f) <=> GoesOn(L, f)
    BY <2>2, AlikeDropped
  <2>4. \A m : Exact(gs, P, "none", f, m) => Exact(frames, L, "none", f, m)
    <3>1. gs[f].scopes = frames[f].scopes /\ \A t \in T : t.at # f
      BY <1>2, <1>5, <2>1
    <3> QED
      BY <2>3, <3>1 DEF Exact, L
  <2>5. \A m \in Nat : Exact(gs, P, "none", f, m) =>
          /\ Claim(frames, handlers, L, "none", f, m)
          /\ gs[f].base + m = NextBase(gs, deferStack, f)
    <3> SUFFICES ASSUME NEW m \in Nat, Exact(gs, P, "none", f, m)
                 PROVE  /\ Claim(frames, handlers, L, "none", f, m)
                        /\ gs[f].base + m = NextBase(gs, deferStack, f)
      OBVIOUS
    <3>1. Exact(frames, L, "none", f, m)
      BY <2>4
    <3>2. frames[f].base + m = NextBase(frames, deferStack, f)
      BY <1>3, <2>1, <3>1 DEF OwnInv, ExactlyHeld, d
    <3>3. NextBase(frames, deferStack, f) = frames[d].base
      BY <2>1 DEF NextBase, d
    <3>4. NextBase(gs, deferStack, f) = Len(deferStack)
      BY <1>5, <2>1 DEF NextBase
    <3>5. gs[f].base = frames[f].base
      BY <1>5, <2>1
    <3> QED
      BY <1>7, <3>1, <3>2, <3>3, <3>4, <3>5 DEF Claim
  <2>6. \A l \in P : l.k = "catch" /\ l.from = f =>
          Claim(frames, handlers, L, "none", f, Top(l.h.scopes).c)
    BY DEF Claim, L
  <2> QED
    BY <2>3, <2>5, <2>6 DEF FrameStays
<1>11. \A j \in 1..i : HandlerStays(frames, L, gs, P, handlers[j])
  <2> SUFFICES ASSUME NEW j \in 1..i PROVE HandlerStays(frames, L, gs, P, handlers[j])
    OBVIOUS
  <2>1. AlikeAt(frames, L, gs, P, handlers[j].frame)
    BY <1>6, <1>8
  <2> QED
    BY <2>1, AlikeDropped DEF HandlerStays
<1>12. \A l \in P : LoopStays(L, gs, s, l)
  <2> SUFFICES ASSUME NEW l \in P PROVE LoopFits(gs, l)
    BY DEF LoopStays
  <2>1. GoodLoop(l, d) /\ l.at \in 1..e /\ LoopFits(frames, l) /\ d \in Nat
    BY <1>2
  <2>2. \A f \in 1..l.at : gs[f] = frames[f]
    BY <1>4, <1>5, <2>1
  <2> QED
    BY <2>1, <2>2, FitsBelow
<1>13. OwnInv(gs, handlers', deferStack, P, "none")
  BY <1>3, <1>5, <1>6, <1>9, <1>10, <1>11, <1>12, OwnStay
<1> QED
  BY <1>6, <1>7, <1>13 DEF gs, e, d

\* RETURN and a tail call of bytecode are done with the frame on top: its defers have run.
LEMMA OwnDropTop ==
    ASSUME IInv, UInv("tidy"), OInv, exc = "none", host # <<>>, Top(host).k \in {"return", "tail"},
           Len(deferStack) <= Top(host).n,
           NEW i, PopHandlers(i, Len(frames) - 1)
    PROVE  /\ OwnInv(Cut(frames, Len(frames) - 1), handlers', deferStack, OtherLoops, "none")
           /\ frames[Len(frames)].base = Len(deferStack)
           /\ i \in 0..Len(handlers) /\ handlers' = Cut(handlers, i)
           /\ \A j \in 1..i : handlers[j].frame \in 1..(Len(frames) - 1)
<1>1. Top(host).k \notin RunKinds /\ Top(host).k \notin Unwinding
  BY DEF RunKinds, Unwinding
<1>2. /\ Len(frames) \in Nat \ {0} /\ CurLoops = OtherLoops \cup {CurLoop}
      /\ CurLoop.k = Top(host).k /\ CurLoop.n = Top(host).n /\ CurLoop.at = Len(frames)
      /\ LoopFits(frames, CurLoop)
      /\ Top(Pop(host)).n < Len(frames)
      /\ \A f \in Nat : f > Top(Pop(host)).n => FreeIn(OtherLoops, f)
      /\ Top(Pop(host)).n \in Nat
      /\ \A l \in OtherLoops : /\ GoodLoop(l, Len(frames)) /\ l.at \in 1..(Len(frames) - 1)
                               /\ LoopFits(frames, l)
  BY <1>1, TopLoopFacts
<1>3. FreeIn(OtherLoops, Len(frames))
  BY <1>2
<1>4. Len(deferStack) <= frames[Len(frames)].base
  <2>1. frames[Len(frames)].base = Top(host).n
    BY <1>2 DEF LoopFits
  <2> QED
    BY <2>1
<1> DEFINE T == {CurLoop}
           P == OtherLoops
<1>5. /\ CurLoops = P \cup T
      /\ \A t \in T : t.k \notin Unwinding /\ t.at = Len(frames)
  BY <1>1, <1>2
<1>6. /\ FreeIn(P, Len(frames))
      /\ \A l \in P : /\ GoodLoop(l, Len(frames)) /\ l.at \in 1..(Len(frames) - 1)
                       /\ LoopFits(frames, l)
  BY <1>2, <1>3
<1>7. Len(frames) \in Nat \ {0}
  BY <1>2
<1> HIDE DEF T, P
<1>8. /\ OwnInv(Cut(frames, Len(frames) - 1), handlers', deferStack, P, "none")
      /\ frames[Len(frames)].base = Len(deferStack)
      /\ i \in 0..Len(handlers) /\ handlers' = Cut(handlers, i)
      /\ \A j \in 1..i : handlers[j].frame \in 1..(Len(frames) - 1)
  BY <1>4, <1>5, <1>6, <1>7, OwnDropFrame
<1> QED
  BY <1>8 DEF P

\* So is a tail call of anything else, if its frame has no defers left.
LEMMA OwnTailCallNative ==
    ASSUME IInv, UInv("tidy"), OInv, TailCallNative, Len(deferStack) <= Cur.base
    PROVE  OInv'
<1> DEFINE d == Len(frames)
<1>1. /\ exc = "none" /\ host # <<>> /\ Top(host).k \in RunKinds
      /\ \E i \in 0..Len(handlers) : PopHandlers(i, d - 1)
      /\ frames' = Cut(frames, d - 1)
      /\ host' = IF d - 1 <= Top(host).n THEN Pop(host) ELSE host
      /\ UNCHANGED <<deferStack, exc>>
  BY RunningFacts DEF TailCallNative, DropFrame, Running, At, Pop, Cut
<1>2. /\ Top(host).n \in Nat /\ Top(host).n < d /\ d \in Nat \ {0}
      /\ HostInv(host, d) /\ frames \in Seq(GoodFrame)
      /\ \A l \in CurLoops : /\ GoodLoop(l, d) /\ l.at \in 1..Top(host).n
                             /\ (l.k = "catch" => l.from \in 1..l.at)
  BY <1>1, RunFacts, OwnFacts
<1>3. \A l \in CurLoops : LoopFits(frames, l)
  BY OwnFacts DEF OwnInv, LoopsFit
<1>4. \A l \in CurLoops : l.at \in 1..(d - 1) /\ l.at \in Nat /\ l.at < d
  BY <1>2
<1>5. FreeIn(CurLoops, d)
  BY <1>2, <1>4 DEF FreeIn
<1>6. OwnInv(Cut(frames, d - 1), handlers', deferStack, CurLoops, "none")
  <2>1. PICK i : PopHandlers(i, d - 1)
    BY <1>1
  <2> DEFINE T == {}
  <2>2. Len(deferStack) <= frames[d].base /\ CurLoops = CurLoops \cup T
    BY DEF Cur, Top
  <2>3. \A t \in T : t.k \notin Unwinding /\ t.at = d
    OBVIOUS
  <2> HIDE DEF T
  <2> QED
    BY <1>1, <1>2, <1>3, <1>4, <1>5, <2>1, <2>2, <2>3, OwnDropFrame
<1>7. Len(frames') = d - 1
  <2>1. d - 1 \in 0..d
    BY <1>2
  <2> QED
    BY <1>1, <1>2, <2>1, CutFrames
<1>8. CurLoops' = CurLoops
  <2> HIDE DEF d
  <2>1. CASE d - 1 <= Top(host).n
    <3>1. d - 1 = Top(host).n
      BY <1>2, <2>1
    <3>2. Loops(Pop(host), Top(host).n) = Loops(host, d)
      BY <1>1, <1>2, LoopsPopRun
    <3> QED
      BY <1>1, <1>7, <2>1, <3>1, <3>2 DEF CurLoops, d
  <2>2. CASE ~(d - 1 <= Top(host).n)
    <3>1. Loops(host, d - 1) = Loops(host, d)
      BY <1>1, <1>2, LoopsDepth
    <3> QED
      BY <1>1, <1>7, <2>2, <3>1 DEF CurLoops, d
  <2> QED
    BY <2>1, <2>2
<1> QED
  BY <1>1, <1>6, <1>8 DEF OInv

\* A frame returns.
LEMMA OwnFinishReturn ==
    ASSUME IInv, UInv("tidy"), OInv, FinishReturn
    PROVE  OInv'
<1> DEFINE d == Len(frames)
           ho == Pop(host)
<1>1. /\ exc = "none" /\ host # <<>> /\ Top(host).k = "return"
      /\ Len(deferStack) <= Top(host).n
      /\ \E i \in 0..Len(handlers) : PopHandlers(i, d - 1)
      /\ frames' = Cut(frames, d - 1)
      /\ host' = IF d - 1 <= Top(ho).n THEN Pop(ho) ELSE ho
      /\ UNCHANGED <<deferStack, exc>>
  BY DEF FinishReturn, DropFrame, Done, At, OpKinds, Pop, Cut
<1>2. Top(host).k \notin RunKinds
  BY <1>1 DEF RunKinds
<1>3. /\ d \in Nat \ {0} /\ HostInv(ho, d) /\ ho # <<>> /\ Top(ho).k \in RunKinds
      /\ Top(ho).n \in Nat /\ Top(ho).n < d
      /\ \A e : Loops(ho, e) = OtherLoops
  BY <1>1, <1>2, TopLoopFacts
<1>4. OwnInv(Cut(frames, d - 1), handlers', deferStack, OtherLoops, "none")
  <2>1. PICK i : PopHandlers(i, d - 1)
    BY <1>1
  <2> QED
    BY <1>1, <2>1, OwnDropTop
<1>5. Len(frames') = d - 1
  <2>1. d - 1 \in 0..d
    BY <1>3
  <2> QED
    BY <1>1, <2>1, OwnFacts, CutFrames
<1>6. CurLoops' = OtherLoops
  <2> HIDE DEF d, ho
  <2>1. CASE d - 1 <= Top(ho).n
    <3>1. d - 1 = Top(ho).n
      BY <1>3, <2>1
    <3>2. Loops(Pop(ho), Top(ho).n) = Loops(ho, d)
      BY <1>3, LoopsPopRun
    <3> QED
      BY <1>1, <1>3, <1>5, <2>1, <3>1, <3>2 DEF CurLoops
  <2>2. CASE ~(d - 1 <= Top(ho).n)
    BY <1>1, <1>3, <2>2 DEF CurLoops
  <2> QED
    BY <2>1, <2>2
<1> QED
  BY <1>1, <1>4, <1>6 DEF OInv

\* A frame is reused for the callee of a tail call.
LEMMA OwnFinishTail ==
    ASSUME IInv, UInv("tidy"), OInv, FinishTail
    PROVE  OInv'
<1> DEFINE d == Len(frames)
           fs == Cut(frames, d - 1)
<1>1. /\ exc = "none" /\ host # <<>> /\ Top(host).k = "tail"
      /\ Len(deferStack) <= Top(host).n
      /\ frames' = [frames EXCEPT ![d] = NewFrame(Cur.base)]
      /\ host' = Pop(host)
      /\ UNCHANGED <<deferStack, exc>>
  BY DEF FinishTail, Done, At, OpKinds
<1>2. PICK i : PopHandlers(i, d - 1)
  BY DEF FinishTail
<1>3. Top(host).k \notin RunKinds
  BY <1>1 DEF RunKinds
<1>4. /\ d \in Nat \ {0} /\ \A e : Loops(Pop(host), e) = OtherLoops
      /\ \A l \in OtherLoops : GoodLoop(l, d) /\ l.at \in 1..(d - 1)
  BY <1>1, <1>3, TopLoopFacts
<1>5. /\ OwnInv(fs, handlers', deferStack, OtherLoops, "none")
      /\ frames[d].base = Len(deferStack)
      /\ i \in 0..Len(handlers) /\ handlers' = Cut(handlers, i)
      /\ \A j \in 1..i : handlers[j].frame \in 1..(d - 1)
  BY <1>1, <1>2, OwnDropTop
<1>6. /\ d \in 1..d /\ d - 1 \in 0..d /\ d - 1 \in Nat /\ (d - 1) + 1 = d
  BY <1>4
<1>7. /\ frames \in Seq(GoodFrame) /\ handlers \in Seq(GoodHandler) /\ deferStack \in Seq(Nat)
      /\ frames[d] \in GoodFrame /\ frames[d].base \in Nat /\ Cur = frames[d]
  BY <1>6, OwnFacts, ElementOfSeq DEF Cur, Top
<1> HIDE DEF d, fs
<1>8. fs \in Seq(GoodFrame) /\ Len(fs) = d - 1 /\ \A f \in 1..(d - 1) : fs[f] = frames[f]
  BY <1>6, <1>7, CutFrames DEF fs, d
<1>9. /\ frames' \in Seq(GoodFrame) /\ Len(frames') = d
      /\ \A f \in 1..(d - 1) : frames'[f] = frames[f]
      /\ frames'[d].base = Len(deferStack) /\ Top(frames'[d].scopes).c = 0
  <2>1. NewFrame(Cur.base) \in GoodFrame
    BY <1>7, NewFrameType DEF IInv
  <2>2. DOMAIN frames = 1..d /\ Len(frames) = d
    BY <1>7, LenProperties DEF d
  <2>3. frames' \in Seq(GoodFrame) /\ Len(frames') = d
    BY <1>1, <1>6, <1>7, <2>1, <2>2, ExceptSeq
  <2>4. \A f \in 1..(d - 1) : f \in 1..d /\ f # d
    BY <1>4
  <2>5. frames'[d] = NewFrame(Cur.base) /\ \A f \in 1..(d - 1) : frames'[f] = frames[f]
    BY <1>1, <1>6, <2>2, <2>4
  <2>6. NewFrame(Cur.base).base = frames[d].base /\ Top(NewFrame(Cur.base).scopes).c = 0
    BY <1>7 DEF NewFrame, Top
  <2> QED
    BY <1>5, <2>3, <2>5, <2>6
<1>10. /\ handlers' \in Seq(GoodHandler)
       /\ \A j \in 1..Len(handlers') : handlers'[j].frame \in 1..Len(fs)
  <2>1. /\ Cut(handlers, i) \in Seq(GoodHandler) /\ Len(Cut(handlers, i)) = i
        /\ \A j \in 1..i : Cut(handlers, i)[j] = handlers[j]
    BY <1>5, <1>7, CutType
  <2> QED
    BY <1>5, <1>8, <2>1
<1>11. \A l \in OtherLoops : GoodLoop(l, Len(fs))
  BY <1>4, <1>8 DEF GoodLoop
<1>12. OwnInv(frames', handlers', deferStack, OtherLoops, "none")
  <2>1. Len(frames') = Len(fs) + 1 /\ \A f \in 1..Len(fs) : frames'[f] = fs[f]
    BY <1>6, <1>8, <1>9
  <2>2. frames'[Len(frames')].base = Len(deferStack)
        /\ Top(frames'[Len(frames')].scopes).c = 0
    BY <1>9
  <2> QED
    BY <1>5, <1>7, <1>8, <1>9, <1>10, <1>11, <2>1, <2>2, OwnCallStep
<1>13. CurLoops' = OtherLoops
  BY <1>1, <1>4 DEF CurLoops
<1> QED
  BY <1>1, <1>12, <1>13 DEF OInv

\* The prompt's evaluation starts with one frame.
LEMMA OwnExecute ==
    ASSUME IInv, UInv("tidy"), Execute
    PROVE  OInv'
<1>1. /\ host = <<>> /\ PushFrame(frames, deferStack)
      /\ host' = <<Host("execute", Len(frames))>> /\ UNCHANGED <<handlers, deferStack, exc>>
  BY DEF Execute
<1>2. OInv
  BY <1>1, OwnNothing
<1>3. /\ frames \in Seq(GoodFrame) /\ handlers \in Seq(GoodHandler) /\ deferStack \in Seq(Nat)
      /\ nextAct \in Nat /\ Len(deferStack) \in Nat /\ Len(handlers) \in Nat
      /\ \A j \in 1..Len(handlers) : handlers[j].frame \in 1..Len(frames)
  BY <1>2, OwnFacts DEF IInv
<1>4. Len(frames) = 0
  BY <1>1 DEF IInv, HostInv
<1>5. /\ frames' \in Seq(GoodFrame) /\ Len(frames') = Len(frames) + 1
      /\ \A f \in 1..Len(frames) : frames'[f] = frames[f]
      /\ frames'[Len(frames')].base = Len(deferStack)
      /\ Top(frames'[Len(frames')].scopes).c = 0
  BY <1>1, <1>3, PushedFrame
<1>6. CurLoops = {} /\ CurLoops' = {}
  <2>1. Len(host) = 0
    BY <1>1
  <2>2. Len(host') = 1 /\ host'[1].k = "execute"
    BY <1>1 DEF Host
  <2>3. "execute" \in RunKinds
    BY DEF RunKinds
  <2> QED
    BY <2>1, <2>2, <2>3 DEF CurLoops, Loops
<1>7. OwnInv(frames', handlers, deferStack, {}, exc)
  <2> DEFINE s == 1
  <2>1. OwnInv(frames, handlers, deferStack, {}, exc)
    BY <1>2, <1>6 DEF OInv
  <2>2. /\ \A f \in 1..(s - 1) : AlikeAt(frames, {}, frames', {}, f)
        /\ \A f \in s..Len(frames) :
             FrameCalls(frames, handlers, deferStack, {}, exc, frames', deferStack, {}, exc, f)
    BY <1>4
  <2>3. \A p \in 1..Len(deferStack) : deferStack[p] = deferStack[p]
    OBVIOUS
  <2>4. /\ Len(deferStack) <= Len(deferStack)
        /\ s \in 1..Len(frames) \/ (s = 1 /\ Len(frames) = 0)
    BY <1>3, <1>4
  <2> HIDE DEF s
  <2> QED
    BY <1>3, <1>5, <2>1, <2>2, <2>3, <2>4, OwnPush
<1> QED
  BY <1>1, <1>6, <1>7 DEF OInv

\* The frame that an unwinding goes back to, and the loops of the run()s below it.
LEMMA CatchLoopFacts ==
    ASSUME IInv, UInv("tidy"), OInv, host # <<>>, Top(host).k = "catch"
    PROVE  /\ Top(host).h \in GoodHandler
           /\ CurLoop.from = Top(host).h.frame
           /\ Top(host).h.frame \in 1..Len(frames)
           /\ Top(Pop(host)).n < Top(host).h.frame
           /\ CurLoop.n = frames[CurLoop.from].base + Top(CurLoop.h.scopes).c
           /\ \A j \in 1..Len(handlers) : handlers[j].frame \in 1..CurLoop.from
           /\ FreeIn(OtherLoops, CurLoop.from)
           /\ \A l \in OtherLoops : l.at \in 1..(CurLoop.from - 1)
<1> DEFINE d == Len(frames)
           k == Len(host)
           s == Top(host).h.frame
<1>1. Top(host).k \notin RunKinds
  BY DEF RunKinds
<1>2. /\ d \in Nat \ {0} /\ CurLoop.k = "catch" /\ CurLoop.h = Top(host).h /\ CurLoop.at = d
      /\ CurLoop.from = s /\ LoopFits(frames, CurLoop)
      /\ Top(Pop(host)).n \in Nat
      /\ \A l \in OtherLoops : l.at \in 1..Top(Pop(host)).n
      /\ \A f \in Nat : f > Top(Pop(host)).n => FreeIn(OtherLoops, f)
  BY <1>1, TopLoopFacts
<1>3. s \in 1..d /\ CurLoop.n = frames[CurLoop.from].base + Top(CurLoop.h.scopes).c
  BY <1>2 DEF LoopFits
<1>4. /\ host \in Seq(HostRec) /\ k \in Nat /\ k > 0 /\ k \in 1..k /\ Top(host) = host[k]
      /\ HostInv(host, d)
  <2>1. HostInv(host, d) /\ host \in Seq(HostRec)
    BY DEF IInv, HostInv
  <2>2. k \in Nat /\ k > 0
    BY <2>1, TopType
  <2>3. k \in 1..k
    BY <2>2
  <2> QED
    BY <2>1, <2>2, <2>3 DEF Top
<1>5. Top(host).h \in GoodHandler /\ host[k - 1].n < s /\ k > 1 /\ host[k - 1].k \in RunKinds
  <2>1. HostRecInv(host, k, d)
    BY <1>4 DEF HostInv
  <2> QED
    BY <1>1, <1>4, <2>1 DEF HostRecInv
<1>6. Top(Pop(host)).n < s
  <2>1. /\ Len(Pop(host)) = k - 1 /\ Pop(host)[k - 1] = host[k - 1]
    <3> HIDE DEF k
    <3>1. Len(Pop(host)) = k - 1 /\ \A i \in 1..Len(Pop(host)) : Pop(host)[i] = host[i]
      BY <1>4, PopType DEF k
    <3>2. k - 1 \in 1..(k - 1)
      BY <1>4, <1>5
    <3> QED
      BY <3>1, <3>2
  <2> QED
    BY <1>5, <2>1 DEF Top
<1>7. \A j \in 1..Len(handlers) : handlers[j].frame \in 1..s
  <2> SUFFICES ASSUME NEW j \in 1..Len(handlers) PROVE handlers[j].frame \in 1..s
    OBVIOUS
  <2>1. handlers[j].frame \in 1..d
    BY OwnFacts
  <2>2. handlers[j].frame <= Floor(host, k) \/ Ceil(host, k, d) < handlers[j].frame
    <3>1. host[k].k \in Unwinding
      BY <1>4 DEF Unwinding
    <3> QED
      BY <1>4, <3>1 DEF UInv, ClearOfUnwinding
  <2>3. Floor(host, k) = s /\ Ceil(host, k, d) = d
    BY <1>4 DEF Floor, Ceil
  <2> QED
    BY <1>2, <1>3, <2>1, <2>2, <2>3
<1>8. FreeIn(OtherLoops, s)
  BY <1>2, <1>3, <1>6
<1>9. \A l \in OtherLoops : l.at \in 1..(s - 1)
  <2> HIDE DEF s, d
  <2> QED
    BY <1>2, <1>3, <1>6
<1> QED
  BY <1>2, <1>3, <1>5, <1>6, <1>7, <1>8, <1>9

\* The same of frames of which the last one is the one on top.
LEMMA MovedTo ==
    ASSUME NEW fs \in Seq(GoodFrame), fs # <<>>, NEW s, s = Len(fs), NEW ss \in GoodScopes
    PROVE  Moved(fs, [fs EXCEPT ![s].scopes = ss], ss)
<1>1. \A gs : gs = [fs EXCEPT ![Len(fs)].scopes = ss] => Moved(fs, gs, ss)
  BY MovedScopes DEF Moved
<1>2. Moved(fs, [fs EXCEPT ![Len(fs)].scopes = ss], ss)
  BY <1>1
<1> QED
  BY <1>2

\* The frame that an unwinding went back to goes on in the catch branch.
LEMMA OwnFinishCatch ==
    ASSUME IInv, UInv("tidy"), OInv, FinishCatch
    PROVE  OInv'
<1> DEFINE d == Len(frames)
           t == CurLoop
           P == OtherLoops
           L == P \cup {t}
           h == Top(host).h
           s == h.frame
           c == Top(h.scopes).c
           u == [try |-> FALSE, c |-> c]
           ss == Append(h.scopes, u)
           fs == Cut(frames, s)
           gs == [fs EXCEPT ![s].scopes = ss]
<1>1. /\ exc = "none" /\ host # <<>> /\ Top(host).k = "catch" /\ Top(host).k \notin RunKinds
      /\ Len(deferStack) <= Top(host).n
      /\ host' = Pop(host) /\ UNCHANGED <<handlers, deferStack, exc>>
  BY DEF FinishCatch, Done, At, OpKinds, RunKinds
<1>2. /\ d \in Nat \ {0} /\ CurLoops = L
      /\ t.k = "catch" /\ t.n = Top(host).n /\ t.at = d /\ t.h = h
      /\ \A e : Loops(Pop(host), e) = P
  BY <1>1, TopLoopFacts
<1>3. /\ h \in GoodHandler /\ t.from = s /\ s \in 1..d /\ t.n = frames[s].base + c
      /\ \A j \in 1..Len(handlers) : handlers[j].frame \in 1..s
      /\ FreeIn(P, s) /\ \A l \in P : l.at \in 1..(s - 1)
  BY <1>1, <1>2, CatchLoopFacts
<1>4. /\ frames \in Seq(GoodFrame) /\ handlers \in Seq(GoodHandler) /\ Len(handlers) \in Nat
      /\ handlers = Cut(handlers, Len(handlers)) /\ Len(handlers) \in 0..Len(handlers)
      /\ deferStack \in Seq(Nat) /\ Len(deferStack) \in Nat
      /\ \A f \in 1..d : frames[f].base \in Nat
      /\ OwnInv(frames, handlers, deferStack, L, "none")
  BY <1>1, <1>2, OwnFacts
<1>5. frames' = gs
  <2>1. (IF s < d THEN s ELSE d) = s
    BY <1>2, <1>3
  <2> QED
    BY <2>1 DEF FinishCatch
<1>6. /\ h.scopes \in GoodScopes /\ ss \in GoodScopes
  <2>1. h.scopes \in GoodScopes
    BY <1>3 DEF GoodHandler
  <2>2. FALSE \in BOOLEAN
    OBVIOUS
  <2> QED
    BY <2>1, <2>2, EnterScope
<1>7. /\ h.scopes \in Seq(Scope) /\ Len(h.scopes) \in Nat
      /\ Len(ss) = Len(h.scopes) + 1 /\ Top(ss) = u /\ u.c = c /\ c \in Nat
      /\ \A i \in 1..Len(h.scopes) : ss[i] = h.scopes[i]
  <2>1. /\ h.scopes \in Seq(Scope) /\ Len(h.scopes) \in Nat \ {0}
        /\ Top(h.scopes) = h.scopes[Len(h.scopes)]
        /\ \A i \in 1..Len(h.scopes) : h.scopes[i].c \in Nat
    BY <1>6, ScopeFacts
  <2>2. c \in Nat
    BY <2>1
  <2>3. u \in Scope /\ u.c = c
    BY <2>2 DEF Scope
  <2> HIDE DEF u, c
  <2>4. /\ Len(ss) = Len(h.scopes) + 1 /\ ss[Len(h.scopes) + 1] = u
        /\ \A i \in 1..Len(h.scopes) : ss[i] = h.scopes[i]
    BY <2>1, <2>3, PushType
  <2> QED
    BY <2>1, <2>2, <2>3, <2>4 DEF Top
<1> HIDE DEF d, t, P, h, s, c, u, ss, fs
<1>8. /\ s \in 0..d /\ s \in Nat /\ s > 0 /\ s <= d /\ d \in Nat /\ s \in 1..s
  BY <1>2, <1>3
<1>9. /\ fs \in Seq(GoodFrame) /\ Len(fs) = s /\ \A f \in 1..s : fs[f] = frames[f]
  BY <1>4, <1>8, CutFrames DEF fs, d
<1>10. /\ gs \in Seq(GoodFrame) /\ Len(gs) = s /\ gs[s].scopes = ss
       /\ \A f \in 1..s : gs[f].base = frames[f].base /\ gs[f].act = frames[f].act
       /\ \A f \in 1..(s - 1) : gs[f].scopes = frames[f].scopes
  <2>1. fs # <<>>
    BY <1>8, <1>9
  <2>2. Moved(fs, gs, ss)
    <3>1. ss \in GoodScopes /\ fs \in Seq(GoodFrame) /\ s = Len(fs)
      BY <1>6, <1>9
    <3> QED
      BY <2>1, <3>1, MovedTo DEF gs
  <2>3. \A f \in 1..(s - 1) : f \in 1..s
    BY <1>8
  <2> HIDE DEF gs
  <2> QED
    BY <1>9, <2>2, <2>3 DEF SameFrames, Moved
<1> HIDE DEF gs
<1>11. Claim(frames, handlers, L, "none", s, c)
  BY <1>2, <1>3 DEF Claim, c
<1>12. frames[s].base + c = Len(deferStack)
  <2>1. Held(frames, deferStack, L, s, c)
    BY <1>3, <1>4, <1>7, <1>11 DEF OwnInv, ClaimsHeld, d
  <2> QED
    BY <1>1, <1>2, <1>3, <1>4, <1>7, <2>1 DEF Held
<1>13. SameUpTo(frames, L, gs, P, s, s)
  <2>1. \A f \in 1..(s - 1) : f # d /\ f # s /\ ~(s < f) /\ f + 1 \in 1..s
    BY <1>8
  <2>2. \A f \in 1..(s - 1) : Apart(t, f)
    BY <1>2, <1>3, <2>1 DEF Apart
  <2>3. \A f \in 1..(s - 1) : AlikeAt(frames, L, gs, P, f)
    BY <1>10, <2>2 DEF AlikeAt
  <2>4. SameFrames(frames, gs, s) /\ s \in 1..(s + 1)
    BY <1>8, <1>10 DEF SameFrames
  <2>5. \A f \in 1..(s - 1) : gs[f + 1].base = frames[f + 1].base
    BY <1>10, <2>1
  <2>6. s <= Len(frames) /\ s <= Len(gs) /\ Len(frames) = d /\ Len(gs) = s
    BY <1>8, <1>10 DEF d
  <2>7. \A f \in 1..(s - 1) : /\ f # Len(frames) /\ f # Len(gs)
                              /\ AlikeAt(frames, L, gs, P, f)
                              /\ gs[f + 1].base = frames[f + 1].base
    BY <2>1, <2>3, <2>5, <2>6
  <2> QED
    BY <1>8, <2>4, <2>6, <2>7 DEF SameUpTo
<1>14. FrameStays(frames, handlers, L, "none", gs, deferStack, P, "none", s)
  <2>1. ~Dropped(L, s)
    <3>1. ~Dropped(P, s)
      BY <1>3, <1>8, FreeFrame
    <3>2. ~(t.from < s)
      BY <1>3, <1>8
    <3> QED
      BY <3>1, <3>2 DEF Dropped
  <2>2. \A m \in Nat : Exact(gs, P, "none", s, m) =>
          Claim(frames, handlers, L, "none", s, m) /\ gs[s].base + m = NextBase(gs, deferStack, s)
    <3>1. \A m : Exact(gs, P, "none", s, m) => m = Top(gs[s].scopes).c
      BY <1>3, <1>8, FreeExact
    <3>2. Top(gs[s].scopes).c = c
      BY <1>7, <1>10
    <3>3. gs[s].base + c = NextBase(gs, deferStack, s)
      BY <1>8, <1>10, <1>12 DEF NextBase
    <3> QED
      BY <1>11, <3>1, <3>2, <3>3
  <2>3. \A l \in P : l.k = "catch" => l.from # s
    <3>1. \A l \in P : l.at # s /\ (l.k = "catch" => l.from # s)
      BY <1>3, <1>8, FreeFrame
    <3> QED
      BY <3>1
  <2> QED
    BY <2>1, <2>2, <2>3 DEF FrameStays
<1>15. \A j \in 1..Len(handlers) : handlers[j].frame >= s =>
         HandlerStays(frames, L, gs, P, handlers[j])
  <2> SUFFICES ASSUME NEW j \in 1..Len(handlers), handlers[j].frame >= s
               PROVE  \A qq \in ScopesOf(gs, P, handlers[j].frame) :
                        PushedIn(handlers[j], gs[handlers[j].frame], qq)
    BY DEF HandlerStays
  <2>1. handlers[j].frame = s
    BY <1>3, <1>8
  <2>2. ScopesOf(gs, P, s) = {ss}
    BY <1>3, <1>8, <1>10, FreeFrame
  <2>3. h.scopes \in ScopesOf(frames, L, s)
    BY <1>2, <1>3 DEF ScopesOf
  <2>4. PushedIn(handlers[j], frames[s], h.scopes)
    BY <1>4, <2>1, <2>3 DEF OwnInv, HandlersFit
  <2>5. handlers[j] \in GoodHandler /\ Len(handlers[j].scopes) \in Nat
    BY OwnFacts
  <2> DEFINE a == Len(handlers[j].scopes)
  <2>6. a < Len(h.scopes)
    BY <2>4 DEF PushedIn
  <2> HIDE DEF a
  <2>9. a \in Nat
    BY <2>5 DEF a
  <2>7. /\ a < Len(ss) /\ a + 1 \in 1..Len(h.scopes) /\ \A i \in 1..a : i \in 1..Len(h.scopes)
    BY <1>7, <2>6, <2>9
  <2>8. PushedIn(handlers[j], frames[s], ss)
    BY <1>6, <1>7, <2>4, <2>5, <2>7, PushedSame DEF a
  <2>10. gs[s].base = frames[s].base
    BY <1>8, <1>10
  <2>11. PushedIn(handlers[j], gs[s], ss)
    BY <2>8, <2>10 DEF PushedIn
  <2> QED
    BY <2>1, <2>2, <2>11
<1>16. \A l \in P : LoopStays(L, gs, s, l)
  BY <1>3 DEF LoopStays
<1>17. OwnInv(gs, Cut(handlers, Len(handlers)), deferStack, P, "none")
  <2>1. \A f \in s..Len(gs) : f = s
    BY <1>8, <1>10
  <2>2. \A f \in s..Len(gs) : FrameStays(frames, handlers, L, "none", gs, deferStack, P, "none", f)
    BY <1>14, <2>1
  <2> HIDE DEF L
  <2> QED
    BY <1>3, <1>4, <1>10, <1>13, <1>15, <1>16, <2>2, OwnStay
<1>18. CurLoops' = P
  BY <1>1, <1>2 DEF CurLoops
<1> QED
  BY <1>1, <1>4, <1>5, <1>17, <1>18 DEF OInv

\* An error of a defer is kept, and the loop goes on.
LEMMA OwnSuppress ==
    ASSUME IInv, UInv("tidy"), OInv, SuppressInDefers
    PROVE  OInv'
<1> DEFINE d == Len(frames)
           L == CurLoops
<1>1. /\ exc' = "none" /\ host # <<>> /\ Top(host).k \in {"catch", "execErr"}
      /\ Top(host).k \notin RunKinds /\ Top(host).k \in Unwinding
      /\ UNCHANGED <<frames, handlers, deferStack, host>>
  BY DEF SuppressInDefers, Raised, RunKinds, Unwinding
<1>2. /\ d \in Nat \ {0} /\ CurLoop \in L /\ CurLoop.k = Top(host).k /\ CurLoop.at = d
      /\ (Top(host).k # "catch" => CurLoop.from = Top(Pop(host)).n)
      /\ Top(Pop(host)).n < d /\ Top(Pop(host)).n \in Nat
      /\ \A l \in OtherLoops : l.at \in 1..(d - 1) /\ (l.k = "catch" => l.from \in 1..l.at)
      /\ L = OtherLoops \cup {CurLoop}
  BY <1>1, TopLoopFacts
<1>3. /\ frames \in Seq(GoodFrame) /\ handlers \in Seq(GoodHandler) /\ Len(handlers) \in Nat
      /\ handlers = Cut(handlers, Len(handlers)) /\ Len(handlers) \in 0..Len(handlers)
      /\ \A j \in 1..Len(handlers) : handlers[j].frame \in 1..d
      /\ deferStack \in Seq(Nat)
      /\ OwnInv(frames, handlers, deferStack, L, exc)
      /\ \A l \in L : l.k = "catch" => l.from \in 1..l.at
  BY OwnFacts
<1> HIDE DEF d, L
<1>4. \A m : ~Exact(frames, L, "none", d, m)
  <2>1. ~GoesOn(L, d)
    <3>1. CASE CurLoop.k = "catch"
      <4>1. CurLoop.from \in 1..d
        BY <1>2, <1>3, <3>1
      <4>2. CurLoop.from = d \/ (CurLoop.from < d /\ d <= CurLoop.at)
        BY <1>2, <4>1
      <4> QED
        BY <1>1, <1>2, <3>1, <4>2 DEF GoesOn, Dropped
    <3>2. CASE CurLoop.k # "catch"
      <4>1. CurLoop.from < d /\ d <= CurLoop.at
        BY <1>2, <3>2
      <4> QED
        BY <1>1, <1>2, <4>1 DEF GoesOn, Dropped
    <3> QED
      BY <3>1, <3>2
  <2> QED
    BY <2>1 DEF Exact
<1>5. SameUpTo(frames, L, frames, L, d, d)
  <2>1. \A f \in 1..(d - 1) : f # d
    BY <1>2
  <2>2. SameFrames(frames, frames, d) /\ d \in 1..(d + 1) /\ d <= d
    BY <1>2 DEF SameFrames
  <2> QED
    BY <1>2, <2>1, <2>2 DEF SameUpTo, AlikeAt, d
<1>6. FrameStays(frames, handlers, L, exc, frames, deferStack, L, "none", d)
  BY <1>4 DEF FrameStays, Claim
<1>7. \A l \in L : LoopStays(L, frames, d, l)
  BY <1>3 DEF LoopStays, OwnInv, LoopsFit
<1>8. OwnInv(frames, Cut(handlers, Len(handlers)), deferStack, L, "none")
  <2>1. Len(frames) = d /\ \A f \in d..Len(frames) : f = d
    BY <1>2 DEF d
  <2>2. \A f \in d..Len(frames) : FrameStays(frames, handlers, L, exc, frames, deferStack, L, "none", f)
    BY <1>6, <2>1
  <2>3. \A j \in 1..Len(handlers) : HandlerStays(frames, L, frames, L, handlers[j])
    BY DEF HandlerStays
  <2> QED
    BY <1>3, <1>5, <1>7, <2>1, <2>2, <2>3, OwnStay
<1> QED
  BY <1>1, <1>3, <1>8 DEF OInv, L, CurLoops

\* A loop takes the last defer off the stack and calls it.
LEMMA DeferCalled ==
    ASSUME IInv, UInv("tidy"), OInv, At(LoopKinds \cup OpKinds), deferStack # <<>>,
           NEW n \in Nat, Top(host).k \notin OpKinds => n = Top(host).n, PopDefer(n)
    PROVE  /\ CurLoops' = OtherLoops \cup {CountedLoop(CurLoop, n)}
           /\ Top(host).k \notin OpKinds => CurLoops' = CurLoops
           /\ deferStack' \in Seq(Nat) /\ Len(deferStack') = Len(deferStack) - 1
           /\ Len(deferStack) > 0
           /\ \A p \in 1..Len(deferStack') : deferStack'[p] = deferStack[p]
           /\ frames' \in Seq(GoodFrame) /\ Len(frames') = Len(frames) + 1
           /\ \A f \in 1..Len(frames) : frames'[f] = frames[f]
           /\ frames'[Len(frames')].base = Len(deferStack')
           /\ Top(frames'[Len(frames')].scopes).c = 0
           /\ handlers' = handlers /\ exc = "none" /\ exc' = "none"
           /\ host # <<>> /\ Top(host).k \notin RunKinds
<1> DEFINE d == Len(frames)
           ho == [host EXCEPT ![Len(host)].n = n]
           r == Host("callVM", d)
<1>1. /\ exc = "none" /\ host # <<>> /\ Top(host).k \in LoopKinds \cup OpKinds
      /\ deferStack' = Pop(deferStack) /\ PushFrame(frames, Pop(deferStack))
      /\ host' = Append(ho, r) /\ handlers' = handlers /\ exc' = exc
  BY DEF At, PopDefer
<1>2. Top(host).k \notin RunKinds
  BY <1>1 DEF LoopKinds, OpKinds, RunKinds
<1>3. /\ frames \in Seq(GoodFrame) /\ d \in Nat /\ deferStack \in Seq(Nat)
      /\ HostInv(host, d) /\ nextAct \in Nat
  BY OwnFacts DEF IInv
<1>4. /\ deferStack' \in Seq(Nat) /\ Len(deferStack') = Len(deferStack) - 1
      /\ Len(deferStack) > 0
      /\ \A p \in 1..Len(deferStack') : deferStack'[p] = deferStack[p]
  BY <1>1, <1>3, PopType, TopType
<1>5. /\ frames' \in Seq(GoodFrame) /\ Len(frames') = d + 1
      /\ \A f \in 1..d : frames'[f] = frames[f]
      /\ frames'[Len(frames')].base = Len(deferStack')
      /\ Top(frames'[Len(frames')].scopes).c = 0
  BY <1>1, <1>3, <1>4, PushedFrame
<1>6. r \in HostRec /\ r.k \in RunKinds /\ r.n = d
  <2>1. "callVM" \in RunKinds
    BY DEF RunKinds
  <2> QED
    BY <1>3, <2>1, HostType DEF Host
<1>7. HostInv(ho, d)
  BY <1>1, <1>2, <1>3, HostCount
<1> HIDE DEF ho, r, d
<1>8. CurLoops' = Loops(ho, d)
  BY <1>1, <1>3, <1>5, <1>6, <1>7, LoopsPushRun DEF CurLoops
<1>9. /\ Top(host).n = n => Loops(ho, d) = Loops(host, d)
      /\ Loops(ho, d) = Loops(Pop(host), d) \cup {CountedLoop(TopLoop(host, d), n)}
  <2>1. \A e : /\ Top(host).n = n => Loops(Counted(host, n), d) = Loops(host, d)
               /\ Loops(Counted(host, n), d) =
                    Loops(Pop(host), e) \cup {CountedLoop(TopLoop(host, d), n)}
    <3>1. HostInv(host, d) /\ host # <<>> /\ Top(host).k \notin RunKinds /\ d \in Nat
      BY <1>1, <1>2, <1>3
    <3> QED
      BY <3>1, LoopsCount
  <2> QED
    BY <2>1 DEF ho, Counted
<1> QED
  BY <1>1, <1>2, <1>4, <1>5, <1>8, <1>9 DEF CurLoops, CurLoop, OtherLoops, d

\* What counting down leaves alone.
LEMMA CountedFields ==
    ASSUME NEW n
    PROVE  LET u == CountedLoop(CurLoop, n)
           IN  /\ u.k = CurLoop.k /\ u.n = n /\ u.h = CurLoop.h
               /\ u.at = CurLoop.at /\ u.from = CurLoop.from
BY DEF CountedLoop, CurLoop, TopLoop, Loop

\* The defers of a frame in the scopes around one of its tries are none of those that
\* the frame's RUN_DEFERS runs.
LEMMA LeftAbove ==
    ASSUME IInv, UInv("tidy"), OInv, host # <<>>, Top(host).k \in OpKinds, exc = "none",
           NEW j \in 1..Len(handlers), handlers[j].frame = Len(frames)
    PROVE  /\ Top(handlers[j].scopes).c \in Nat
           /\ Top(handlers[j].scopes).c <= Left(CurLoop, Cur.scopes) - Top(host).n
<1> DEFINE a == Len(handlers[j].scopes)
           w == Len(Cur.scopes)
           ss == Cur.scopes
           n == Top(host).n
<1>1. Top(host).k \notin RunKinds /\ Top(host).k # "catch"
  BY KindsDiffer, LoopKindsDiffer
<1>2. CurLoop.n = n
  BY <1>1, TopLoopFacts
<1>3. n \in Nat
  <2>1. host \in Seq(HostRec)
    BY DEF IInv, HostInv
  <2>2. Top(host) \in HostRec
    BY <2>1, TopType
  <2> QED
    BY <2>2 DEF HostRec
<1>4. PushedIn(handlers[j], frames[Len(frames)], ss) /\ ss \in GoodScopes
  BY <1>1, LoopHandlers
<1>5. handlers[j].scopes \in GoodScopes /\ a \in Nat
  <2>1. handlers[j] \in GoodHandler /\ a \in Nat
    BY OwnFacts
  <2> QED
    BY <2>1 DEF GoodHandler
<1>6. a \in Nat \ {0} /\ Top(handlers[j].scopes) = handlers[j].scopes[a]
  BY <1>5, ScopeFacts
<1>7. /\ w \in Nat \ {0} /\ Len(ss) = w /\ Top(ss) = ss[w] /\ ss \in Seq(Scope)
      /\ \A i \in 1..w : ss[i].c \in Nat
      /\ \A i, k \in 1..w : i <= k => ss[i].c <= ss[k].c
  BY <1>4, ScopeFacts
<1>8. a < w /\ handlers[j].scopes = Cut(ss, a)
  BY <1>4 DEF PushedIn
<1> HIDE DEF a, w, ss, n
<1>9. a \in 1..w /\ a \in 0..w /\ a \in 1..a /\ w \in 1..w /\ w # 1 /\ w - 1 \in 1..w
      /\ a <= w - 1 /\ a <= w
  BY <1>6, <1>7, <1>8
<1>10. Top(handlers[j].scopes) = ss[a]
  <2>1. Cut(ss, a)[a] = ss[a]
    BY <1>7, <1>9, CutType
  <2> QED
    BY <1>6, <1>8, <2>1
<1>11. /\ ss[a].c \in Nat /\ ss[w].c \in Nat /\ ss[w - 1].c \in Nat
       /\ ss[a].c <= ss[w].c /\ ss[a].c <= ss[w - 1].c
  BY <1>7, <1>9
<1>12. Left(CurLoop, ss) = n + ss[w].c \/ Left(CurLoop, ss) = n + ss[w - 1].c
  BY <1>2, <1>7, <1>9 DEF Left
<1> QED
  BY <1>3, <1>10, <1>11, <1>12 DEF ss, n

\* RUN_DEFERS calls the last defer of its activation.
LEMMA OwnOpPop ==
    ASSUME IInv, UInv("tidy"), OInv, OpPopDefer
    PROVE  OInv'
<1> DEFINE d == Len(frames)
           P == OtherLoops
           t == CurLoop
           n == Top(host).n - 1
           u == CountedLoop(CurLoop, n)
           L == P \cup {t}
           M == P \cup {u}
           m0 == Left(t, Cur.scopes)
           K == Len(deferStack')
           gs == frames'
<1>1. /\ At(OpKinds) /\ Top(host).n > 0 /\ deferStack # <<>> /\ PopDefer(n)
      /\ host # <<>> /\ exc = "none" /\ Top(host).k \in OpKinds
  BY DEF OpPopDefer, At
<1>2. /\ Top(host).k \notin RunKinds /\ Top(host).k \notin Unwinding /\ Top(host).k # "catch"
      /\ Top(host).k \notin {"return", "tail", "execErr"}
  BY <1>1, KindsDiffer, LoopKindsDiffer DEF OpKinds
<1>3. n \in Nat /\ Top(host).n = n + 1
  <2>1. host \in Seq(HostRec)
    BY DEF IInv, HostInv
  <2>2. Top(host) \in HostRec
    BY <1>1, <2>1, TopType
  <2>3. Top(host).n \in Nat
    BY <2>2 DEF HostRec
  <2> QED
    BY <1>1, <2>3
<1>4. At(LoopKinds \cup OpKinds)
  BY <1>1 DEF At
<1>5. /\ CurLoops' = M
      /\ deferStack' \in Seq(Nat) /\ K = Len(deferStack) - 1 /\ Len(deferStack) > 0
      /\ \A p \in 1..K : deferStack'[p] = deferStack[p]
      /\ gs \in Seq(GoodFrame) /\ Len(gs) = d + 1
      /\ \A f \in 1..d : gs[f] = frames[f]
      /\ gs[Len(gs)].base = K /\ Top(gs[Len(gs)].scopes).c = 0
      /\ handlers' = handlers /\ exc' = "none"
  <2> HIDE DEF n
  <2> QED
    BY <1>1, <1>3, <1>4, DeferCalled
<1>6. /\ d \in Nat \ {0} /\ CurLoops = L /\ t.k = Top(host).k /\ t.n = Top(host).n /\ t.at = d
      /\ FreeIn(P, d)
      /\ \A l \in P : l.at \in 1..(d - 1) /\ (l.k = "catch" => l.from \in 1..l.at)
  BY <1>1, <1>2, TopLoopFacts
<1>7. u.k = t.k /\ u.n = n /\ u.at = d
  <2> HIDE DEF n
  <2> QED
    BY <1>6, CountedFields
<1>8. /\ frames \in Seq(GoodFrame) /\ handlers \in Seq(GoodHandler)
      /\ deferStack \in Seq(Nat) /\ Len(deferStack) \in Nat
      /\ \A j \in 1..Len(handlers) : handlers[j].frame \in 1..d
      /\ \A f \in 1..d : frames[f].base \in Nat
      /\ OwnInv(frames, handlers, deferStack, L, "none")
  BY <1>1, <1>6, OwnFacts
<1>9. /\ m0 \in Nat /\ Exact(frames, L, "none", d, m0) /\ frames[d].base + m0 = Len(deferStack)
      /\ Cur = frames[d]
  BY <1>1, <1>2, <1>6, LeftExact, LoopHandlers
<1>10. Left(u, Cur.scopes) = m0 - 1 /\ m0 - 1 \in Nat
  <2>1. /\ Len(Cur.scopes) \in Nat \ {0} /\ Top(Cur.scopes) = Cur.scopes[Len(Cur.scopes)]
        /\ \A i \in 1..Len(Cur.scopes) : Cur.scopes[i].c \in Nat
    BY <1>1, <1>2, <1>9, LoopHandlers, ScopeFacts
  <2> DEFINE w == Len(Cur.scopes)
  <2>2. w \in Nat \ {0}
    BY <2>1
  <2> HIDE DEF w, n, t, u
  <2>3. w \in 1..w /\ (w # 1 => w - 1 \in 1..w)
    BY <2>2
  <2>4. Top(Cur.scopes).c \in Nat /\ (w # 1 => Cur.scopes[w - 1].c \in Nat)
    BY <2>1, <2>3 DEF w
  <2>5. u.n = n /\ t.n = n + 1 /\ n \in Nat
    BY <1>3, <1>6, <1>7
  <2> DEFINE z == IF u.k = "break" THEN Top(Cur.scopes).c
                  ELSE IF w = 1 THEN 0 ELSE Cur.scopes[w - 1].c
  <2>6. z \in Nat
    BY <2>4
  <2>7. Left(u, Cur.scopes) = u.n + z /\ Left(t, Cur.scopes) = t.n + z
    BY <1>7 DEF Left, w
  <2> HIDE DEF z
  <2> QED
    BY <2>5, <2>6, <2>7 DEF m0
<1> HIDE DEF n, t, u, P, m0, K, gs, d
<1>11. d \in 1..d /\ d \in Nat /\ d # d + 1 /\ frames[d].base \in Nat /\ Len(frames) = d
       /\ frames[d].base <= K /\ K \in Nat /\ gs[d] = frames[d] /\ gs[d + 1].base = K
       /\ frames[d].base + (m0 - 1) = K
  <2>1. d \in 1..d
    BY <1>6
  <2>2. frames[d].base \in Nat /\ gs[d] = frames[d] /\ gs[d + 1].base = K
    BY <1>5, <1>8, <2>1
  <2>3. K \in Nat /\ frames[d].base + (m0 - 1) = K
    <3>1. /\ Len(deferStack) \in Nat /\ Len(deferStack) > 0 /\ K = Len(deferStack) - 1
          /\ m0 \in Nat /\ frames[d].base + m0 = Len(deferStack) /\ frames[d].base \in Nat
      BY <1>5, <1>8, <1>9, <2>2
    <3> QED
      BY <3>1
  <2> QED
    BY <1>6, <1>10, <2>1, <2>2, <2>3 DEF d
<1>12. \A f \in 1..(d - 1) : AlikeAt(frames, L, gs, M, f)
  <2> SUFFICES ASSUME NEW f \in 1..(d - 1) PROVE AlikeAt(frames, L, gs, M, f)
    OBVIOUS
  <2>1. f # d /\ gs[f].scopes = frames[f].scopes
    BY <1>5, <1>11
  <2>2. Apart(t, f) /\ Apart(u, f)
    BY <1>2, <1>6, <1>7, <2>1 DEF Apart
  <2> QED
    BY <2>1, <2>2 DEF AlikeAt
<1>13. /\ ~Dropped(P, d) /\ GoesOn(P, d) /\ \A l \in P : l.at # d /\ (l.k = "catch" => l.from # d)
  BY <1>6, <1>11, FreeFrame
<1>14. ~Dropped(L, d) /\ ~Dropped(M, d)
  BY <1>2, <1>6, <1>7, <1>13 DEF Dropped
<1>15. ScopesOf(frames, L, d) = {frames[d].scopes} /\ ScopesOf(gs, M, d) = {frames[d].scopes}
  <2>1. \A l \in L \cup M : l.k = "catch" => l.from # d
    BY <1>2, <1>6, <1>7, <1>13
  <2> QED
    BY <1>11, <2>1 DEF ScopesOf
<1>16. \A m : Exact(gs, M, "none", d, m) => m = m0 - 1
  <2> SUFFICES ASSUME NEW m, Exact(gs, M, "none", d, m) PROVE m = m0 - 1
    OBVIOUS
  <2>1. u \in M /\ u.k \in OpKinds /\ u.at = d
    BY <1>1, <1>6, <1>7
  <2>2. \A l \in M : l.k \in OpKinds /\ l.at = d => l = u
    BY <1>13
  <2>3. m = Left(u, gs[d].scopes)
    BY <2>1, <2>2 DEF Exact
  <2> QED
    BY <1>9, <1>10, <1>11, <2>3
<1>17. Held(gs, deferStack', M, d, m0 - 1)
  <2>1. Held(frames, deferStack, L, d, m0)
    BY <1>8, <1>9, <1>11 DEF OwnInv, ClaimsHeld, Claim
  <2>2. gs[d].base + (m0 - 1) <= Len(deferStack')
    BY <1>11 DEF K
  <2>3. \A p \in (gs[d].base + 1)..(gs[d].base + (m0 - 1)) : deferStack'[p] = gs[d].act
    <3> SUFFICES ASSUME NEW p \in (gs[d].base + 1)..(gs[d].base + (m0 - 1))
                 PROVE  deferStack'[p] = gs[d].act
      OBVIOUS
    <3>1. p \in (frames[d].base + 1)..(frames[d].base + m0) /\ p \in 1..K
      BY <1>9, <1>10, <1>11
    <3>2. deferStack[p] = frames[d].act
      BY <2>1, <3>1 DEF Held
    <3> QED
      BY <1>5, <1>11, <3>1, <3>2
  <2>4. \A g \in (d + 1)..Len(gs) : gs[d].base + (m0 - 1) <= gs[g].base
    <3>1. \A g \in (d + 1)..Len(gs) : g = d + 1
      BY <1>5, <1>11
    <3> QED
      BY <1>11, <3>1
  <2> QED
    BY <2>2, <2>3, <2>4 DEF Held
<1>18. FrameCalls(frames, handlers, deferStack, L, "none", gs, deferStack', M, "none", d)
  <2>1. ASSUME NEW m \in Nat, Claim(gs, handlers, M, "none", d, m)
        PROVE  \/ Held(gs, deferStack', M, d, m)
               \/ /\ Claim(frames, handlers, L, "none", d, m)
                  /\ frames[d].base + m <= Len(deferStack')
    <3>1. CASE m = 0
      BY <1>11, <1>14, <3>1 DEF Claim, K
    <3>2. CASE Exact(gs, M, "none", d, m)
      BY <1>16, <1>17, <3>2
    <3>3. CASE \E j \in 1..Len(handlers) :
                 handlers[j].frame = d /\ m = Top(handlers[j].scopes).c
      <4>1. PICK j \in 1..Len(handlers) :
                 handlers[j].frame = d /\ m = Top(handlers[j].scopes).c
        BY <3>3
      <4>2. m <= m0 - Top(host).n
        BY <1>1, <4>1, LeftAbove DEF m0, t, d
      <4>3. m <= m0 - 1
        BY <1>3, <1>9, <4>2
      <4>4. frames[d].base + m <= K
        BY <1>10, <1>11, <4>3
      <4> QED
        BY <3>3, <4>4 DEF Claim, K
    <3>4. ~ \E l \in M : l.k = "catch" /\ l.from = d
      BY <1>2, <1>6, <1>7, <1>13
    <3> QED
      BY <2>1, <3>1, <3>2, <3>3, <3>4 DEF Claim
  <2>2. \A m \in Nat : Exact(gs, M, "none", d, m) => frames[d].base + m = gs[d + 1].base
    BY <1>11, <1>16
  <2> QED
    BY <1>14, <1>15, <2>1, <2>2 DEF FrameCalls
<1>19. \A l \in M : LoopStays(L, gs, d, l)
  <2>1. LoopFits(gs, u)
    BY <1>2, <1>6, <1>7 DEF LoopFits
  <2> QED
    BY <1>6, <2>1 DEF LoopStays
<1>20. \A l \in M : l.at \in 1..d /\ (l.k = "catch" => l.from \in 1..l.at)
  <2>1. \A l \in P : l.at \in 1..d
    BY <1>6, <1>11
  <2> QED
    BY <1>2, <1>6, <1>7, <1>11, <2>1
<1>21. OwnInv(gs, handlers, deferStack', M, "none")
  <2>1. \A f \in d..Len(frames) : f = d
    BY <1>11
  <2>2. \A f \in d..Len(frames) :
          FrameCalls(frames, handlers, deferStack, L, "none", gs, deferStack', M, "none", f)
    BY <1>18, <2>1
  <2>3. /\ Len(deferStack') <= Len(deferStack)
        /\ d \in 1..Len(frames)
        /\ frames[d].base <= Len(deferStack')
        /\ \A p \in 1..Len(deferStack') : deferStack'[p] = deferStack[p]
        /\ gs[Len(gs)].base = Len(deferStack') /\ Len(gs) = Len(frames) + 1
        /\ \A f \in 1..Len(frames) : gs[f] = frames[f]
    BY <1>5, <1>8, <1>11 DEF K
  <2>4. /\ \A j \in 1..Len(handlers) : handlers[j].frame \in 1..Len(frames)
        /\ \A l \in M : l.at \in 1..Len(frames) /\ (l.k = "catch" => l.from \in 1..l.at)
    BY <1>8, <1>11, <1>20
  <2> HIDE DEF L, M
  <2> QED
    BY <1>5, <1>8, <1>12, <1>14, <1>19, <2>2, <2>3, <2>4, OwnPush
<1> QED
  BY <1>5, <1>21 DEF OInv, gs

\* A loop calls a defer that the frames from s up, which do not go on from where they
\* are, do not count on.
LEMMA OwnLoopPush ==
    ASSUME IInv, UInv("tidy"), OInv, LoopPopDefer, NEW s \in 1..Len(frames),
           s = 1 \/ ~Dropped(CurLoops, s),
           \A f \in s..Len(frames) : ~GoesOn(CurLoops, f),
           \A f \in s..Len(frames), m \in Nat :
             Claim(frames, handlers, CurLoops, "none", f, m) =>
               frames[f].base + m <= Len(deferStack) - 1
    PROVE  OInv'
<1> DEFINE d == Len(frames)
           L == CurLoops
           K == Len(deferStack')
           gs == frames'
<1>1. /\ At(LoopKinds) /\ Len(deferStack) > Top(host).n /\ PopDefer(Top(host).n)
      /\ host # <<>> /\ exc = "none" /\ Top(host).k \in LoopKinds
  BY DEF LoopPopDefer, At
<1>2. Top(host).k \notin OpKinds /\ At(LoopKinds \cup OpKinds)
  BY <1>1 DEF At, LoopKinds, OpKinds
<1>3. Top(host).n \in Nat
  <2>1. host \in Seq(HostRec)
    BY DEF IInv, HostInv
  <2>2. Top(host) \in HostRec
    BY <1>1, <2>1, TopType
  <2> QED
    BY <2>2 DEF HostRec
<1>4. /\ frames \in Seq(GoodFrame) /\ handlers \in Seq(GoodHandler) /\ d \in Nat
      /\ deferStack \in Seq(Nat) /\ Len(deferStack) \in Nat
      /\ \A j \in 1..Len(handlers) : handlers[j].frame \in 1..d
      /\ \A f \in 1..d : frames[f].base \in Nat
      /\ \A l \in L : GoodLoop(l, d) /\ (l.k = "catch" => l.from \in 1..l.at)
      /\ OwnInv(frames, handlers, deferStack, L, "none")
  BY <1>1, OwnFacts
<1>5. deferStack # <<>>
  BY <1>1, <1>3
<1>6. /\ CurLoops' = L
      /\ deferStack' \in Seq(Nat) /\ K = Len(deferStack) - 1 /\ Len(deferStack) > 0
      /\ \A p \in 1..K : deferStack'[p] = deferStack[p]
      /\ gs \in Seq(GoodFrame) /\ Len(gs) = d + 1
      /\ \A f \in 1..d : gs[f] = frames[f]
      /\ gs[Len(gs)].base = K /\ Top(gs[Len(gs)].scopes).c = 0
      /\ handlers' = handlers /\ exc' = "none"
  BY <1>1, <1>2, <1>3, <1>5, DeferCalled
<1> HIDE DEF d, L, K, gs
<1>7. d \in Nat /\ Len(frames) = d /\ s \in 1..d /\ \A f \in s..d : f \in 1..d
  BY <1>4 DEF d
<1>8. \A f \in 1..(s - 1) : AlikeAt(frames, L, gs, L, f)
  <2>1. \A f \in 1..(s - 1) : f \in 1..d
    BY <1>7
  <2> QED
    BY <1>6, <2>1 DEF AlikeAt
<1>9. Len(deferStack') = Len(deferStack) \/ s = 1
        \/ (frames[s].base <= Len(deferStack') /\ ~Dropped(L, s))
  <2> SUFFICES ASSUME ~Dropped(L, s) PROVE frames[s].base <= Len(deferStack')
    BY DEF L
  <2>1. Claim(frames, handlers, L, "none", s, 0) /\ 0 \in Nat /\ s \in s..d
    BY <1>7 DEF Claim
  <2>2. frames[s].base + 0 <= Len(deferStack) - 1
    BY <2>1 DEF L, d
  <2>3. frames[s].base \in Nat
    BY <1>4, <1>7
  <2> QED
    BY <1>6, <2>2, <2>3 DEF K
<1>10. \A f \in s..d :
         FrameCalls(frames, handlers, deferStack, L, "none", gs, deferStack', L, "none", f)
  <2> SUFFICES ASSUME NEW f \in s..d
               PROVE  FrameCalls(frames, handlers, deferStack, L, "none", gs, deferStack', L, "none", f)
    OBVIOUS
  <2>1. gs[f] = frames[f]
    BY <1>6, <1>7
  <2>2. ScopesOf(gs, L, f) = ScopesOf(frames, L, f)
    BY <2>1 DEF ScopesOf
  <2>3. \A m : ~Exact(gs, L, "none", f, m)
    <3>1. ~GoesOn(L, f)
      BY DEF L, d
    <3> QED
      BY <3>1 DEF Exact
  <2>4. \A m \in Nat : Claim(gs, handlers, L, "none", f, m) =>
          /\ Claim(frames, handlers, L, "none", f, m)
          /\ frames[f].base + m <= Len(deferStack')
    <3> SUFFICES ASSUME NEW m \in Nat, Claim(gs, handlers, L, "none", f, m)
                 PROVE  /\ Claim(frames, handlers, L, "none", f, m)
                        /\ frames[f].base + m <= Len(deferStack')
      OBVIOUS
    <3>1. Claim(frames, handlers, L, "none", f, m)
      BY <2>3 DEF Claim
    <3>2. frames[f].base + m <= Len(deferStack) - 1
      BY <3>1 DEF L, d
    <3> QED
      BY <1>6, <3>1, <3>2 DEF K
  <2> QED
    BY <2>2, <2>3, <2>4 DEF FrameCalls
<1>11. \A l \in L : LoopStays(L, gs, s, l)
  <2> SUFFICES ASSUME NEW l \in L PROVE LoopFits(gs, l)
    BY DEF LoopStays
  <2>1. GoodLoop(l, d) /\ LoopFits(frames, l)
    BY <1>4 DEF OwnInv, LoopsFit
  <2>2. \A f \in 1..l.at : gs[f] = frames[f]
    <3>1. l.at \in 1..d
      BY <2>1 DEF GoodLoop
    <3>2. \A f \in 1..l.at : f \in 1..d
      BY <1>7, <3>1
    <3> QED
      BY <1>6, <3>2
  <2> QED
    BY <1>7, <2>1, <2>2, FitsBelow
<1>12. OwnInv(gs, handlers, deferStack', L, "none")
  <2>1. /\ Len(deferStack') <= Len(deferStack)
        /\ s \in 1..Len(frames)
        /\ \A p \in 1..Len(deferStack') : deferStack'[p] = deferStack[p]
        /\ gs[Len(gs)].base = Len(deferStack') /\ Len(gs) = Len(frames) + 1
        /\ \A f \in 1..Len(frames) : gs[f] = frames[f]
    BY <1>4, <1>6, <1>7 DEF K
  <2>2. /\ \A j \in 1..Len(handlers) : handlers[j].frame \in 1..Len(frames)
        /\ \A l \in L : l.at \in 1..Len(frames) /\ (l.k = "catch" => l.from \in 1..l.at)
        /\ \A f \in s..Len(frames) :
             FrameCalls(frames, handlers, deferStack, L, "none", gs, deferStack', L, "none", f)
    BY <1>4, <1>7, <1>10 DEF GoodLoop
  <2> QED
    BY <1>4, <1>6, <1>8, <1>9, <1>11, <2>1, <2>2, OwnPush
<1> QED
  BY <1>6, <1>12 DEF OInv, gs

\* RETURN or a tail call runs the last defer of its frame.
LEMMA OwnReturnPop ==
    ASSUME IInv, UInv("tidy"), OInv, LoopPopDefer, Top(host).k \in {"return", "tail"}
    PROVE  OInv'
<1> DEFINE d == Len(frames)
<1>1. /\ host # <<>> /\ exc = "none" /\ Len(deferStack) > Top(host).n
      /\ Top(host).k \notin RunKinds /\ Top(host).k # "catch" /\ Top(host).k \notin Unwinding
  BY DEF LoopPopDefer, At, RunKinds, Unwinding
<1>2. /\ d \in Nat \ {0} /\ CurLoops = OtherLoops \cup {CurLoop}
      /\ CurLoop.k = Top(host).k /\ CurLoop.at = d /\ CurLoop.n = Top(host).n
      /\ FreeIn(OtherLoops, d) /\ LoopFits(frames, CurLoop)
  BY <1>1, TopLoopFacts
<1>3. /\ ~Dropped(OtherLoops, d)
      /\ \A l \in OtherLoops : l.at # d /\ (l.k = "catch" => l.from # d)
  BY <1>2, FreeFrame
<1>4. ~Dropped(CurLoops, d) /\ ~GoesOn(CurLoops, d)
      /\ \A l \in CurLoops : l.k = "catch" => l.from # d
  BY <1>1, <1>2, <1>3 DEF Dropped, GoesOn
<1>5. /\ frames[d].base = Top(host).n /\ frames[d].base \in Nat /\ Len(deferStack) \in Nat
      /\ \A i \in 2..Len(frames[d].scopes) : ~frames[d].scopes[i].try
  <2>1. d \in 1..d
    BY <1>2
  <2> QED
    BY <1>2, <2>1, OwnFacts DEF LoopFits
<1>6. \A j \in 1..Len(handlers) : handlers[j].frame # d
  <2> SUFFICES ASSUME NEW j \in 1..Len(handlers), handlers[j].frame = d PROVE FALSE
    OBVIOUS
  <2> DEFINE a == Len(handlers[j].scopes)
             ss == frames[d].scopes
  <2>1. PushedIn(handlers[j], frames[d], ss) /\ ss \in GoodScopes
    BY <1>1, LoopHandlers
  <2>2. handlers[j].scopes \in GoodScopes
    <3>1. handlers[j] \in GoodHandler
      BY OwnFacts
    <3> QED
      BY <3>1 DEF GoodHandler
  <2>3. a \in Nat \ {0} /\ Len(ss) \in Nat
    BY <2>1, <2>2, ScopeFacts
  <2>4. a < Len(ss) /\ ss[a + 1].try
    BY <2>1 DEF PushedIn
  <2> HIDE DEF a, ss
  <2>5. a + 1 \in 2..Len(ss)
    BY <2>3, <2>4
  <2> QED
    BY <1>5, <2>4, <2>5 DEF ss
<1>7. \A m \in Nat : Claim(frames, handlers, CurLoops, "none", d, m) =>
        frames[d].base + m <= Len(deferStack) - 1
  <2> SUFFICES ASSUME NEW m \in Nat, Claim(frames, handlers, CurLoops, "none", d, m)
               PROVE  frames[d].base + m <= Len(deferStack) - 1
    OBVIOUS
  <2>1. ~Exact(frames, CurLoops, "none", d, m)
    BY <1>4 DEF Exact
  <2>2. m = 0
    BY <1>4, <1>6, <2>1 DEF Claim
  <2> HIDE DEF d
  <2> QED
    BY <1>1, <1>5, <2>2
<1> HIDE DEF d
<1>8. d \in 1..Len(frames) /\ \A f \in d..Len(frames) : f = d
  BY <1>2 DEF d
<1>9. /\ \A f \in d..Len(frames) : ~GoesOn(CurLoops, f)
      /\ \A f \in d..Len(frames), m \in Nat :
           Claim(frames, handlers, CurLoops, "none", f, m) =>
             frames[f].base + m <= Len(deferStack) - 1
  BY <1>4, <1>7, <1>8
<1> QED
  BY <1>4, <1>8, <1>9, OwnLoopPush

\* An evaluation that is given up runs the last defer.
LEMMA OwnErrPop ==
    ASSUME IInv, UInv("tidy"), OInv, LoopPopDefer, Top(host).k = "execErr"
    PROVE  OInv'
<1> DEFINE d == Len(frames)
<1>1. /\ host # <<>> /\ exc = "none" /\ Top(host).k \notin RunKinds /\ Top(host).k # "catch"
  BY DEF LoopPopDefer, At, RunKinds
<1>2. /\ d \in Nat \ {0} /\ CurLoops = OtherLoops \cup {CurLoop}
      /\ CurLoop.k = "execErr" /\ CurLoop.at = d /\ LoopFits(frames, CurLoop)
      /\ CurLoop.from = Top(Pop(host)).n
      /\ \A l \in OtherLoops : l.at \in 1..Top(Pop(host)).n
  BY <1>1, TopLoopFacts
<1>3. CurLoop.from = 0 /\ \A l \in CurLoops : l = CurLoop
  <2>1. CurLoop.from = 0 /\ 1..0 = {}
    BY <1>2 DEF LoopFits
  <2>2. OtherLoops = {}
    BY <1>2, <2>1
  <2> QED
    BY <1>2, <2>1, <2>2
<1>4. \A f \in 1..d : Dropped(CurLoops, f)
  BY <1>2, <1>3, LoopKindsDiffer DEF Dropped
<1>5. \A j \in 1..Len(handlers) : FALSE
  <2> DEFINE k == Len(host)
  <2> SUFFICES ASSUME NEW j \in 1..Len(handlers) PROVE FALSE
    OBVIOUS
  <2>1. /\ host \in Seq(HostRec) /\ k \in Nat /\ k > 0 /\ k \in 1..k /\ Top(host) = host[k]
    <3>1. host \in Seq(HostRec)
      BY DEF IInv, HostInv
    <3>2. k \in Nat /\ k > 0
      BY <1>1, <3>1, TopType
    <3>3. k \in 1..k
      BY <3>2
    <3> QED
      BY <3>1, <3>2, <3>3 DEF Top
  <2>2. handlers[j].frame <= Floor(host, k) \/ Ceil(host, k, d) < handlers[j].frame
    <3>1. host[k].k \in Unwinding
      BY <2>1 DEF Unwinding
    <3> QED
      BY <2>1, <3>1 DEF UInv, ClearOfUnwinding
  <2>3. Floor(host, k) = CurLoop.from /\ Ceil(host, k, d) = d
    BY <1>1, <2>1 DEF Ceil, CurLoop, TopLoop, Loop
  <2>4. handlers[j].frame \in 1..d
    BY OwnFacts
  <2> HIDE DEF d
  <2> QED
    BY <1>2, <1>3, <2>2, <2>3, <2>4
<1>6. \A f \in 1..d : ~GoesOn(CurLoops, f)
  BY <1>4 DEF GoesOn
<1>7. \A f \in 1..d, m \in Nat : ~Claim(frames, handlers, CurLoops, "none", f, m)
  <2> SUFFICES ASSUME NEW f \in 1..d, NEW m \in Nat
               PROVE  ~Claim(frames, handlers, CurLoops, "none", f, m)
    OBVIOUS
  <2>1. Dropped(CurLoops, f) /\ ~Exact(frames, CurLoops, "none", f, m)
    BY <1>4, <1>6 DEF Exact
  <2>2. \A l \in CurLoops : l.k # "catch"
    BY <1>2, <1>3
  <2> QED
    BY <1>5, <2>1, <2>2 DEF Claim
<1> DEFINE s == 1
<1>8. s \in 1..Len(frames)
  BY <1>2
<1>9. /\ s = 1
      /\ \A f \in s..Len(frames) : ~GoesOn(CurLoops, f)
      /\ \A f \in s..Len(frames), m \in Nat :
           Claim(frames, handlers, CurLoops, "none", f, m) =>
             frames[f].base + m <= Len(deferStack) - 1
  BY <1>6, <1>7
<1> HIDE DEF s
<1> QED
  BY <1>8, <1>9, OwnLoopPush

\* The handlers of the frame that an unwinding goes back to are of tries around the one
\* that it goes back to.
LEMMA OuterTries ==
    ASSUME IInv, UInv("tidy"), OInv, host # <<>>, Top(host).k = "catch",
           NEW j \in 1..Len(handlers), handlers[j].frame = CurLoop.from
    PROVE  /\ Top(handlers[j].scopes).c \in Nat
           /\ Top(handlers[j].scopes).c <= Top(CurLoop.h.scopes).c
<1> DEFINE a == Len(handlers[j].scopes)
           ss == CurLoop.h.scopes
           s == CurLoop.from
           w == Len(ss)
<1>1. Top(host).k \notin RunKinds
  BY DEF RunKinds
<1>2. /\ CurLoops = OtherLoops \cup {CurLoop} /\ CurLoop.k = "catch" /\ CurLoop.h = Top(host).h
  BY <1>1, TopLoopFacts
<1>3. PushedIn(handlers[j], frames[s], ss)
  <2>1. ss \in ScopesOf(frames, CurLoops, s)
    BY <1>2 DEF ScopesOf
  <2> QED
    BY <2>1 DEF OInv, OwnInv, HandlersFit
<1>4. ss \in GoodScopes
  <2>1. CurLoop.h \in GoodHandler
    BY <1>2, CatchLoopFacts
  <2> QED
    BY <2>1 DEF GoodHandler
<1>5. handlers[j].scopes \in GoodScopes /\ a \in Nat
  <2>1. handlers[j] \in GoodHandler /\ a \in Nat
    BY OwnFacts
  <2> QED
    BY <2>1 DEF GoodHandler
<1>6. a \in Nat \ {0} /\ Top(handlers[j].scopes) = handlers[j].scopes[a]
  BY <1>5, ScopeFacts
<1>7. /\ w \in Nat \ {0} /\ Top(ss) = ss[w] /\ ss \in Seq(Scope)
      /\ \A i \in 1..w : ss[i].c \in Nat
      /\ \A i, k \in 1..w : i <= k => ss[i].c <= ss[k].c
  BY <1>4, ScopeFacts
<1>8. a < w /\ handlers[j].scopes = Cut(ss, a)
  BY <1>3 DEF PushedIn
<1>9. a \in 0..w /\ a \in 1..a
  <2> HIDE DEF a, w
  <2> QED
    BY <1>6, <1>7, <1>8
<1>10. Top(handlers[j].scopes) = ss[a]
  <2>1. \A i \in 1..a : Cut(ss, a)[i] = ss[i]
    <3> HIDE DEF a, ss
    <3> QED
      BY <1>7, <1>9, CutType
  <2> HIDE DEF a, ss, w
  <2> QED
    BY <1>6, <1>8, <1>9, <2>1
<1> HIDE DEF a, ss, w
<1>11. a \in 1..w /\ w \in 1..w /\ a <= w
  BY <1>6, <1>7, <1>8
<1> QED
  BY <1>7, <1>10, <1>11 DEF ss

\* An unwinding runs the last defer of the frames that it drops, or of the try.
LEMMA OwnCatchPop ==
    ASSUME IInv, UInv("tidy"), OInv, LoopPopDefer, Top(host).k = "catch"
    PROVE  OInv'
<1> DEFINE d == Len(frames)
           s == CurLoop.from
           c == Top(CurLoop.h.scopes).c
<1>1. /\ host # <<>> /\ exc = "none" /\ Len(deferStack) > Top(host).n
      /\ Top(host).k \notin RunKinds
  BY DEF LoopPopDefer, At, RunKinds
<1>2. /\ d \in Nat \ {0} /\ CurLoops = OtherLoops \cup {CurLoop}
      /\ CurLoop.k = "catch" /\ CurLoop.at = d /\ CurLoop.n = Top(host).n
      /\ CurLoop.h = Top(host).h
      /\ \A l \in OtherLoops : l.k = "catch" => l.from \in 1..l.at
  BY <1>1, TopLoopFacts
<1>3. /\ s \in 1..d /\ CurLoop.n = frames[s].base + c /\ Top(host).h \in GoodHandler
      /\ \A j \in 1..Len(handlers) : handlers[j].frame \in 1..s
      /\ FreeIn(OtherLoops, s)
      /\ \A l \in OtherLoops : l.at \in 1..(s - 1)
  BY CatchLoopFacts, <1>1
<1>4. frames[s].base \in Nat /\ Len(deferStack) \in Nat
  BY <1>3, OwnFacts
<1>5. c \in Nat
  <2>1. CurLoop.h.scopes \in GoodScopes
    BY <1>2, <1>3 DEF GoodHandler
  <2>2. /\ Len(CurLoop.h.scopes) \in Nat \ {0}
        /\ Top(CurLoop.h.scopes) = CurLoop.h.scopes[Len(CurLoop.h.scopes)]
        /\ \A i \in 1..Len(CurLoop.h.scopes) : CurLoop.h.scopes[i].c \in Nat
    BY <2>1, ScopeFacts
  <2>3. Len(CurLoop.h.scopes) \in 1..Len(CurLoop.h.scopes)
    BY <2>2
  <2> QED
    BY <2>2, <2>3
<1> HIDE DEF d, s, c
<1>6. s \in Nat /\ s \in 1..d /\ \A f \in s..d : f # s => s < f /\ f <= d
  BY <1>2, <1>3
<1>7. ~Dropped(CurLoops, s)
  <2>1. ~Dropped(OtherLoops, s)
    BY <1>3, <1>6, FreeFrame
  <2>2. ~(s < s)
    BY <1>6
  <2> QED
    BY <1>2, <2>1, <2>2 DEF Dropped, s
<1>8. \A f \in s..d : f # s => Dropped(CurLoops, f)
  BY <1>2, <1>6, LoopKindsDiffer DEF Dropped, s
<1>9. \A f \in s..d : ~GoesOn(CurLoops, f)
  <2>1. ~GoesOn(CurLoops, s)
    BY <1>2 DEF GoesOn, s
  <2> QED
    BY <1>8, <2>1 DEF GoesOn
<1>10. \A l \in CurLoops : l.k = "catch" => l = CurLoop \/ (l.from \in Nat /\ l.from < s)
  <2> SUFFICES ASSUME NEW l \in OtherLoops, l.k = "catch" PROVE l.from \in Nat /\ l.from < s
    BY <1>2
  <2>1. l.from \in 1..l.at /\ l.at \in 1..(s - 1)
    BY <1>2, <1>3
  <2> QED
    BY <1>6, <2>1
<1>11. ASSUME NEW f \in s..d, NEW m \in Nat, Claim(frames, handlers, CurLoops, "none", f, m)
       PROVE  frames[f].base + m <= Len(deferStack) - 1
  <2>1. ~Exact(frames, CurLoops, "none", f, m)
    BY <1>9 DEF Exact
  <2>2. CASE f = s
    <3>1. m <= c
      <4>1. CASE m = 0
        BY <1>5, <4>1
      <4>2. CASE \E j \in 1..Len(handlers) :
                   handlers[j].frame = s /\ m = Top(handlers[j].scopes).c
        BY <1>1, <4>2, OuterTries DEF s, c
      <4>3. CASE \E l \in CurLoops : l.k = "catch" /\ l.from = s /\ m = Top(l.h.scopes).c
        <5>1. PICK l \in CurLoops : l.k = "catch" /\ l.from = s /\ m = Top(l.h.scopes).c
          BY <4>3
        <5>2. l = CurLoop
          BY <1>6, <1>10, <5>1
        <5>3. m = c
          BY <5>1, <5>2 DEF c
        <5> QED
          BY <1>5, <5>3
      <4> QED
        BY <1>11, <2>1, <2>2, <4>1, <4>2, <4>3 DEF Claim
    <3>2. frames[s].base + c <= Len(deferStack) - 1
      <4>1. Len(deferStack) > frames[s].base + c
        BY <1>1, <1>2, <1>3
      <4> QED
        BY <1>4, <1>5, <4>1
    <3> QED
      BY <1>4, <1>5, <2>2, <3>1, <3>2
  <2>3. CASE f # s
    <3>1. Dropped(CurLoops, f) /\ s < f /\ f \in Nat
      BY <1>6, <1>8, <2>3
    <3>2. \A j \in 1..Len(handlers) : handlers[j].frame # f
      <4> SUFFICES ASSUME NEW j \in 1..Len(handlers), handlers[j].frame = f PROVE FALSE
        OBVIOUS
      <4>1. f \in 1..s
        BY <1>3
      <4> QED
        BY <1>6, <3>1, <4>1
    <3>3. \A l \in CurLoops : l.k = "catch" => l.from # f
      <4>1. CurLoop.from # f
        BY <2>3 DEF s
      <4> QED
        BY <1>6, <1>10, <3>1, <4>1
    <3> QED
      BY <1>11, <2>1, <3>1, <3>2, <3>3 DEF Claim
  <2> QED
    BY <2>2, <2>3
<1>12. /\ s \in 1..Len(frames)
       /\ \A f \in s..Len(frames) : ~GoesOn(CurLoops, f)
       /\ \A f \in s..Len(frames), m \in Nat :
            Claim(frames, handlers, CurLoops, "none", f, m) =>
              frames[f].base + m <= Len(deferStack) - 1
  BY <1>6, <1>9, <1>11 DEF d
<1> QED
  BY <1>7, <1>12, OwnLoopPush

\* runDefersDownTo calls a defer, wherever it was called from.
LEMMA OwnLoopPop ==
    ASSUME IInv, UInv("tidy"), OInv, LoopPopDefer
    PROVE  OInv'
<1>1. host # <<>> /\ Top(host).k \in LoopKinds
  BY DEF LoopPopDefer, At
<1>2. Top(host).k # "execInt"
  <2>1. host \in Seq(HostRec)
    BY DEF IInv, HostInv
  <2>2. Len(host) \in Nat /\ Len(host) > 0
    BY <1>1, <2>1, TopType
  <2>3. Len(host) \in 1..Len(host)
    BY <2>2
  <2> QED
    BY <2>3 DEF UInv, BottomInv, BottomRec, Top
<1> QED
  BY <1>1, <1>2, OwnReturnPop, OwnErrPop, OwnCatchPop DEF LoopKinds

\* As a formula of one state,
LEMMA OwnNothingNow == IInv /\ UInv("tidy") /\ host = <<>> => OInv
BY OwnNothing

\* so also of the next one.
LEMMA OwnNothingNext ==
    ASSUME IInv', UInv("tidy")', host' = <<>>
    PROVE  OInv'
<1>1. (IInv /\ UInv("tidy") /\ host = <<>> => OInv)'
  BY OwnNothingNow, PTL
<1> QED
  BY <1>1

\* The evaluation that ends with an error is the only one.
LEMMA OwnFinishExecute ==
    ASSUME IInv, UInv("tidy"), OInv, FinishExecute
    PROVE  OInv'
<1> DEFINE ho == Pop(host)
           w == Len(ho)
<1>1. /\ host # <<>> /\ Top(host).k \in {"execErr", "execInt"} /\ Top(host).k \notin RunKinds
      /\ exc' # "interrupt" /\ host' = Pop(ho)
  BY DEF FinishExecute, Done, At, RunKinds, UInv
<1>2. Len(host) \in 1..Len(host) /\ Top(host) = host[Len(host)]
  <2>1. host \in Seq(HostRec)
    BY DEF IInv, HostInv
  <2>2. Len(host) \in Nat /\ Len(host) > 0
    BY <1>1, <2>1, TopType
  <2> QED
    BY <2>2 DEF Top
<1>3. Top(host).k = "execErr"
  BY <1>1, <1>2 DEF UInv, BottomInv, BottomRec
<1>4. /\ HostInv(ho, Len(frames)) /\ ho # <<>> /\ Top(ho).k \in RunKinds
      /\ CurLoop.k = "execErr" /\ LoopFits(frames, CurLoop)
      /\ CurLoop.from = Top(ho).n
  BY <1>1, <1>3, TopLoopFacts
<1>5. Top(ho).n = 0
  BY <1>4 DEF LoopFits
<1>6. /\ ho \in Seq(HostRec) /\ w \in 1..w /\ w \in Nat \ {0} /\ Top(ho) = ho[w]
  <2>1. ho \in Seq(HostRec)
    BY <1>4 DEF HostInv
  <2>2. w \in Nat /\ w > 0
    BY <1>4, <2>1, TopType
  <2> QED
    BY <2>1, <2>2 DEF Top
<1>7. w = 1
  <2> SUFFICES ASSUME w # 1 PROVE FALSE
    OBVIOUS
  <2>1. 1 \in 1..(w - 1)
    <3>1. w \in Nat \ {0}
      BY <1>6
    <3> HIDE DEF w
    <3> QED
      BY <3>1
  <2>2. ho[1].k \in RunKinds /\ ho[1].n = 0 /\ HostRecInv(ho, w, Len(frames))
    BY <1>4, <1>6 DEF HostInv
  <2>3. ho[1].n < ho[w].n
    BY <1>4, <1>6, <2>1, <2>2 DEF HostRecInv
  <2> QED
    BY <1>5, <1>6, <2>2, <2>3
<1>8. host' = <<>>
  <2>1. Pop(ho) \in Seq(HostRec) /\ Len(Pop(ho)) = w - 1
    BY <1>4, <1>6, PopType
  <2>2. Len(Pop(ho)) = 0
    BY <1>7, <2>1
  <2> QED
    BY <1>1, <2>1, <2>2, EmptySeq
<1>9. [Next]_vars
  BY DEF Next
<1>10. ~TailCallNative
  BY <1>1 DEF TailCallNative, Running, At
<1>11. IInv' /\ UInv("tidy")'
  BY <1>1, <1>9, <1>10, IInvNext, UInvNext
<1> QED
  BY <1>8, <1>11, OwnNothingNext

\* A DEFER that is compiled and never runs changes a count and nothing else.
LEMMA SkippedCounts ==
    ASSUME IInv, DeferSkipped
    PROVE  /\ Top(Cur'.scopes).c > CurScope.c
           /\ Len(Cur'.scopes) = Len(Cur.scopes)
           /\ Len(frames') = Len(frames)
           /\ frames' # frames
<1> DEFINE d == Len(frames)
           w == Len(Cur.scopes)
           ss == [Cur.scopes EXCEPT ![w].c = @ + 1]
<1>1. Running /\ SetScopes(ss)
  BY DEF DeferSkipped, CountDefer
<1>2. frames \in Seq(GoodFrame) /\ frames # <<>> /\ d \in 1..d
  <2>1. d \in Nat /\ frames \in Seq(GoodFrame) /\ HostInv(host, d)
    BY LenProperties DEF IInv
  <2>2. Top(host).n < d /\ host \in Seq(HostRec) /\ host # <<>>
    BY <1>1, RunningFacts DEF HostInv, IInv
  <2>3. Top(host).n \in Nat
    <3>1. Top(host) \in HostRec
      BY <2>2, TopType
    <3> QED
      BY <3>1 DEF HostRec
  <2>4. d \in 1..d
    BY <2>1, <2>2, <2>3
  <2> QED
    BY <2>1, <2>4, EmptySeq
<1>3. Cur = frames[d] /\ Cur.scopes \in GoodScopes
  <2>1. frames[d] \in GoodFrame
    BY <1>2, ElementOfSeq
  <2> QED
    BY <2>1 DEF Cur, Top, GoodFrame
<1>4. /\ Cur.scopes \in Seq(Scope) /\ w \in Nat \ {0} /\ Cur.scopes[w] \in Scope
      /\ CurScope = Cur.scopes[w]
  <2>1. w \in 1..w
    BY <1>3, ScopeFacts
  <2> QED
    BY <1>3, <2>1, ScopeFacts DEF CurScope
<1>5. ss \in GoodScopes /\ Len(ss) = w /\ ss[w].c = CurScope.c + 1
  <2>1. ss \in GoodScopes
    BY <1>3, CountOneDefer
  <2>2. DOMAIN Cur.scopes = 1..w /\ w \in 1..w
    BY <1>4, LenProperties
  <2>3. DOMAIN ss = 1..w /\ ss[w] = [Cur.scopes[w] EXCEPT !.c = @ + 1]
    BY <1>4, <2>2
  <2>4. ss[w].c = CurScope.c + 1
    BY <1>4, <2>3 DEF Scope
  <2>5. ss \in Seq(Scope)
    BY <2>1, ScopeFacts
  <2> HIDE DEF ss, w
  <2>6. Len(ss) = w
    <3>1. Len(ss) \in Nat /\ DOMAIN ss = 1..Len(ss)
      BY <2>5, LenProperties
    <3> QED
      BY <1>4, <2>3, <3>1
  <2> QED
    BY <2>1, <2>4, <2>6
<1> HIDE DEF ss, w
<1>6. Moved(frames, frames', ss)
  BY <1>1, <1>2, <1>5, SetScopesMoves
<1>7. Cur'.scopes = ss
  BY <1>6 DEF Moved, Cur, Top
<1>8. Top(Cur'.scopes).c = CurScope.c + 1 /\ Len(Cur'.scopes) = w
  BY <1>5, <1>7 DEF Top
<1>9. CurScope.c \in Nat
  BY <1>4 DEF Scope
<1>10. Top(Cur'.scopes).c > CurScope.c
  BY <1>8, <1>9
<1>11. frames' # frames
  <2> SUFFICES ASSUME frames' = frames PROVE FALSE
    OBVIOUS
  <2>1. Cur' = Cur
    BY DEF Cur
  <2> QED
    BY <1>9, <1>10, <2>1 DEF CurScope
<1>12. Len(frames') = Len(frames)
  BY <1>6 DEF Moved
<1> QED
  BY <1>8, <1>10, <1>11, <1>12 DEF w

\* The steps that the history notes.
LEMMA NothingNoted ==
    ASSUME IInv, SeenNext, seen' = {}
    PROVE  /\ ~Interrupt
           /\ Return => NotInTry
           /\ LeaveCallVM => exc' # "none"
           /\ ~DeferSkipped
           /\ TailCallNative => Len(deferStack) <= Cur.base
<1>1. Noted
  BY DEF SeenNext
<1>2. /\ ~(Running /\ exc' = "interrupt")
      /\ ~(Running /\ ~NotInTry /\ Len(host') > Len(host) /\ Top(host').k = "return")
      /\ ~(Raised({"callSwallow"}) /\ exc' = "none" /\ Len(host') < Len(host))
      /\ ~(/\ Running /\ frames' # frames /\ Len(frames') = Len(frames)
           /\ nextAct' = nextAct /\ handlers' = handlers
           /\ deferStack' = deferStack /\ host' = host
           /\ Top(Cur'.scopes).c > CurScope.c
           /\ Len(Cur'.scopes) = Len(Cur.scopes))
  BY <1>1 DEF Noted, Note
<1>3. ~Interrupt
  BY <1>2 DEF Interrupt
<1>4. host \in Seq(HostRec) /\ Len(host) \in Nat
  BY LenProperties DEF IInv, HostInv
<1>5. ASSUME Return PROVE NotInTry
  <2>1. Running /\ host' = Append(host, Host("return", Cur.base))
    BY <1>5 DEF Return
  <2>2. Len(host') = Len(host) + 1 /\ host'[Len(host) + 1] = Host("return", Cur.base)
    BY <1>4, <2>1
  <2>3. Len(host') > Len(host)
    BY <1>4, <2>2
  <2>4. Top(host').k = "return"
    BY <2>2 DEF Top, Host
  <2> QED
    BY <1>2, <2>1, <2>3, <2>4
<1>6. ASSUME LeaveCallVM PROVE exc' # "none"
  <2>1. /\ exc # "none" /\ host # <<>> /\ host' = Pop(host)
        /\ Top(host).k # "callSwallow" => exc' = exc
    BY <1>6 DEF LeaveCallVM, Raised
  <2>2. Len(host') < Len(host)
    BY <1>4, <2>1, PopType
  <2> QED
    BY <1>2, <2>1, <2>2 DEF Raised
<1>7. ~DeferSkipped
  <2> SUFFICES ASSUME DeferSkipped PROVE FALSE
    OBVIOUS
  <2>1. Running /\ UNCHANGED <<handlers, deferStack, host, nextAct>>
    BY DEF DeferSkipped
  <2> QED
    BY <1>2, <2>1, SkippedCounts
<1>8. TailCallNative => Len(deferStack) <= Cur.base
  BY SeenGrows
<1> QED
  BY <1>3, <1>5, <1>6, <1>7, <1>8

\* Every step that the history does not note.
LEMMA OInvNext ==
    ASSUME IInv, UInv("tidy"), OInv, [SeenNext]_seenVars, seen' = {}
    PROVE  OInv'
<1>1. CASE UNCHANGED seenVars
  BY <1>1 DEF seenVars, vars, OInv, CurLoops
<1>2. CASE SeenNext
  <2>1. Next
    BY <1>2 DEF SeenNext
  <2>2. /\ ~Interrupt /\ (Return => NotInTry) /\ (LeaveCallVM => exc' # "none")
        /\ ~DeferSkipped /\ (TailCallNative => Len(deferStack) <= Cur.base)
    BY <1>2, NothingNoted
  <2>3. ~AbandonDefers
    <3> SUFFICES ASSUME AbandonDefers PROVE FALSE
      OBVIOUS
    <3>1. host # <<>> /\ Top(host).k = "execInt"
      BY DEF AbandonDefers, Raised
    <3>2. Len(host) \in 1..Len(host) /\ Top(host) = host[Len(host)]
      BY <3>1, HandlersBelow, TopType DEF Top, HostInv
    <3> QED
      BY <3>1, <3>2 DEF UInv, BottomInv, BottomRec
  <2>4. Throw => OInv'
    BY OwnThrow DEF Throw
  <2> QED
    BY <2>1, <2>2, <2>3, <2>4, OwnExecute, OwnEnterBlock, OwnTryBegin, OwnDefer, OwnStartDefers,
       OwnBreak, OwnCall, OwnLoopPop, OwnOpPop, OwnFinishEndScope, OwnFinishBreak,
       OwnFinishReturn, OwnTailCallNative, OwnFinishTail, OwnFinishCatch, OwnFinishExecute, OwnCatchInRun,
       OwnLeaveCallVM, OwnLeaveExecute, OwnSuppress, OwnRethrow
       DEF Next
<1> QED
  BY <1>1, <1>2

\* The inductive invariant of the last theorem
UndisturbedInv == UninterruptedInv /\ (seen = {} => OInv)

\* is inductive,
LEMMA UndisturbedNext ==
    UndisturbedInv /\ [SeenNext]_seenVars => UndisturbedInv'
<1> SUFFICES ASSUME UndisturbedInv, [SeenNext]_seenVars PROVE UndisturbedInv'
  OBVIOUS
<1>1. UninterruptedInv'
  BY UninterruptedNext DEF UndisturbedInv
<1>2. ASSUME seen' = {} PROVE OInv'
  <2>1. seen = {}
    <3>1. IInv
      BY DEF UndisturbedInv, UninterruptedInv
    <3> QED
      BY <1>2, <3>1, SeenGrows
  <2>2. IInv /\ UInv("tidy") /\ OInv
    BY <2>1 DEF UndisturbedInv, UninterruptedInv
  <2> QED
    BY <1>2, <2>2, OInvNext
<1> QED
  BY <1>1, <1>2 DEF UndisturbedInv

\* and holds always.
LEMMA UndisturbedAlways == SeenSpec => []UndisturbedInv
<1>1. ASSUME SeenInit PROVE UndisturbedInv
  <2>1. IInv /\ UInv("tidy") /\ UInv("untidy") /\ host = <<>>
    BY <1>1, IInvInit, UInvInit DEF SeenInit, Init
  <2> QED
    BY <2>1, OwnNothing DEF UndisturbedInv, UninterruptedInv
<1> QED
  BY <1>1, UndisturbedNext, PTL DEF SeenSpec

\* Until the first disturbance (a tail call of a builtin, class or type that drops a
\* frame with pending defers is one), RUN_DEFERS never finds the defer stack empty, and
\* the defer that it pops was registered by the activation that executes it, never by
\* a caller: calls, callbacks, other tail calls, break, return and errors, thrown by
\* defers and caught anywhere too, leave the counts of the compiler right.
THEOREM OwnDefersAlways == SeenSpec => []OwnDefersUndisturbed
<1>1. ASSUME UndisturbedInv PROVE OwnDefersUndisturbed
  <2> SUFFICES ASSUME IInv, UInv("tidy"), OInv, At(OpKinds), Top(host).n > 0
               PROVE  deferStack # <<>> /\ Top(deferStack) = Cur.act
    BY <1>1 DEF UndisturbedInv, UninterruptedInv, OwnDefersUndisturbed, OwnDefersOnly
  <2> DEFINE d == Len(frames)
             m == Left(CurLoop, Cur.scopes)
             K == Len(deferStack)
  <2>1. host # <<>> /\ Top(host).k \in OpKinds /\ exc = "none" /\ Top(host).k \notin RunKinds
    BY KindsDiffer DEF At
  <2>2. /\ m \in Nat /\ Exact(frames, CurLoops, exc, d, m) /\ Cur.base + m = K
    BY <2>1, LeftExact
  <2>3. /\ d \in 1..d /\ Cur = frames[d] /\ Cur.scopes \in GoodScopes
        /\ CurLoop.n = Top(host).n /\ Top(host).n \in Nat
    <3>1. d \in 1..d /\ CurLoop.n = Top(host).n
      BY <2>1, TopLoopFacts
    <3>2. host \in Seq(HostRec)
      BY DEF IInv, HostInv
    <3>3. Top(host).n \in Nat
      <4>1. Top(host) \in HostRec
        BY <2>1, <3>2, TopType
      <4> QED
        BY <4>1 DEF HostRec
    <3> QED
      BY <2>1, <3>1, <3>3, KindsDiffer, LoopHandlers
  <2>4. Cur.base \in Nat /\ K \in Nat /\ deferStack \in Seq(Nat)
    BY <2>3, OwnFacts, ElementOfSeq DEF GoodFrame
  <2>5. m > 0
    <3> DEFINE w == Len(Cur.scopes)
    <3>1. /\ w \in Nat \ {0} /\ Top(Cur.scopes) = Cur.scopes[w]
          /\ \A i \in 1..w : Cur.scopes[i].c \in Nat
      BY <2>3, ScopeFacts
    <3> HIDE DEF w
    <3>2. w \in 1..w /\ (w # 1 => w - 1 \in 1..w)
      BY <3>1
    <3>3. Top(Cur.scopes).c \in Nat /\ (w # 1 => Cur.scopes[w - 1].c \in Nat)
      BY <3>1, <3>2
    <3> QED
      BY <2>3, <3>3 DEF Left, w
  <2> HIDE DEF m, K
  <2>6. Claim(frames, handlers, CurLoops, exc, d, m)
    BY <2>2 DEF Claim
  <2>7. Held(frames, deferStack, CurLoops, d, m)
    BY <2>2, <2>3, <2>6 DEF OInv, OwnInv, ClaimsHeld
  <2>8. \A p \in (frames[d].base + 1)..(frames[d].base + m) : deferStack[p] = frames[d].act
    BY <2>7 DEF Held
  <2>9. K \in (Cur.base + 1)..(Cur.base + m) /\ K > 0
    BY <2>2, <2>4, <2>5
  <2>10. deferStack[K] = Cur.act
    BY <2>3, <2>8, <2>9
  <2> QED
    BY <2>4, <2>9, <2>10, EmptySeq DEF Top, K
<1> QED
  BY <1>1, UndisturbedAlways, PTL
=============================================================================
