---------------------------- MODULE MemoryProofs ----------------------------
(***************************************************************************)
(* The memory of a running script: captured variables (Upvalues) and the   *)
(* heap they and all other values live in (GcHeap).                        *)
(*                                                                         *)
(* About Upvalues, for every window size, number of frames, values and     *)
(* upvalues.  The open list is always sorted and exact, whatever way       *)
(* frames are left; until a callback's error is ignored or an evaluation   *)
(* aborts, open upvalues alias live frames; and until a frame is left in   *)
(* any other way than RETURN, a captured variable is one storage cell.     *)
(*                                                                         *)
(* About GcHeap, for any number of objects, any kinds and strings, with    *)
(* and without traits: reference counts are exact, nothing dangles, and    *)
(* no instance dies without its finalizer.  They hold when builtins do not *)
(* keep containers in unguarded C++ locals (GuardedContainers), the known  *)
(* exception that docs/ideas/gc-uaf-defect.md analyses.                    *)
(***************************************************************************)
EXTENDS Upvalues, GcHeap, SequenceTheorems, FiniteSetTheorems, TLAPS

-----------------------------------------------------------------------------
(* Captured variables.                                                       *)

\* The types and the open list, which no way of leaving a frame disturbs.
ListInv == TypeOK /\ OpenListSorted

\* While frames are left by RETURN (or the closing paths of TAIL_CALL and the
\* unwinding), an upvalue is open exactly while its variable's frame is live,
\* and then it aliases a register of a live frame.
FrameInv ==
    /\ ListInv
    /\ \A u \in DOMAIN upvals : u \in bound <=> upvals[u].reg # 0
    /\ \A u \in DOMAIN upvals : upvals[u].reg <= W * depth

\* ... and it holds what the language promises.
StorageInv == FrameInv /\ SharedStorage

LEMMA ShiftedPair ==
  ASSUME NEW n \in Int, NEW M \in Int, n >= 0,
         NEW i \in 1..(M - n), NEW j \in 1..(M - n), i < j
  PROVE  n + i \in 1..M /\ n + j \in 1..M /\ n + i < n + j
OBVIOUS

LEMMA AroundThePlace ==
  ASSUME NEW n \in Int, NEW i \in Int, NEW j \in Int
  PROVE  \/ j <= n \/ j = n + 1
         \/ j > n + 1 /\ i <= n
         \/ j > n + 1 /\ i = n + 1
         \/ j > n + 1 /\ i > n + 1
OBVIOUS

----------------------------------------------------------------------------
(* Register windows.                                                        *)

\* The windows of frames 1 to d are the registers 1 to W * d.
LEMMA WindowBounds ==
    ASSUME NEW d \in 1..MaxDepth
    PROVE  /\ W \in Nat \ {0}
           /\ W * d \in Nat
           /\ Base(d) \in Nat
           /\ Base(d) + W = W * d
           /\ W * d <= W * MaxDepth
           /\ Window(d) \subseteq Reg
           /\ Base(d) + 1 \in Window(d)
           /\ \A r \in Window(d) : r > Base(d) /\ r <= W * d
<1>1. W \in Nat \ {0} /\ MaxDepth \in Nat \ {0} /\ d \in Nat /\ d >= 1 /\ d <= MaxDepth
  BY ParamAssumption
<1>2. W * d \in Nat /\ W * (d - 1) \in Nat /\ W * MaxDepth \in Nat
  BY <1>1
<1>3. W * (d - 1) + W = W * d
  BY <1>1
<1>4. W * d <= W * MaxDepth
  <2>1. W * MaxDepth = W * d + W * (MaxDepth - d)
    BY <1>1
  <2>2. MaxDepth - d \in Nat
    BY <1>1
  <2>3. W * (MaxDepth - d) \in Nat
    BY <1>1, <2>2
  <2> QED
    BY <1>2, <2>1, <2>3
<1>5. Base(d) = W * (d - 1)
  BY DEF Base
<1> DEFINE b == W * (d - 1)
           t == W * d
           m == W * MaxDepth
<1> HIDE DEF b, t, m
<1>6. b \in Nat /\ t \in Nat /\ m \in Nat /\ b + W = t /\ t <= m /\ Base(d) = b
  BY <1>2, <1>3, <1>4, <1>5 DEF b, t, m
<1>7. Window(d) = (b + 1)..(b + W)
  BY <1>6 DEF Window
<1>8. Reg = 1..m
  BY DEF Reg, m
<1>9. /\ W \in Nat \ {0}
      /\ Window(d) \subseteq Reg
      /\ Base(d) + 1 \in Window(d)
      /\ \A r \in Window(d) : r > Base(d) /\ r <= t
  BY <1>1, <1>6, <1>7, <1>8
<1> QED
  BY <1>6, <1>9 DEF t, m

\* The registers of lower frames are below the window.
LEMMA BaseIsTop ==
    ASSUME NEW d \in Nat
    PROVE  Base(d + 1) = W * d /\ W * d \in Nat
BY ParamAssumption DEF Base

\* Clearing registers leaves registers.
LEMMA ClearedType ==
    ASSUME regs \in [Reg -> Val], NEW S
    PROVE  Cleared(S) \in [Reg -> Val]
BY DEF Cleared, Val

----------------------------------------------------------------------------
(* The open list.                                                           *)

\* closeUpvalues closes exactly the open upvalues at or above r: the others
\* keep their place in the list.
LEMMA CloseFacts ==
    ASSUME ListInv, NEW r \in Nat \ {0}, NEW rf \in [Reg -> Val], CloseUpvalues(r, rf)
    PROVE  /\ upvals' \in Seq(Upval)
           /\ Len(upvals') = Len(upvals)
           /\ \A u \in DOMAIN upvals :
                upvals'[u] = IF upvals[u].reg >= r
                             THEN [reg |-> 0, closed |-> rf[upvals[u].reg]]
                             ELSE upvals[u]
           /\ open' \in Seq(DOMAIN upvals')
           /\ OpenListSorted'
<1> DEFINE L == Len(upvals)
           M == Len(open)
<1>1. /\ upvals \in Seq(Upval) /\ L \in Nat /\ DOMAIN upvals = 1..L
      /\ open \in Seq(DOMAIN upvals) /\ M \in Nat /\ DOMAIN open = 1..M
      /\ \A u \in 1..L : upvals[u] \in Upval
      /\ \A i \in 1..M : open[i] \in 1..L
  BY LenProperties, ElementOfSeq DEF ListInv, TypeOK
<1>2. \A u \in 1..L : upvals[u].reg \in Reg \cup {0} /\ upvals[u].reg \in Nat
  BY <1>1, ParamAssumption DEF Upval, Reg
<1>3. PICK n \in 0..M :
        /\ \A i \in 1..n : upvals[open[i]].reg >= r
        /\ n < M => upvals[open[n + 1]].reg < r
        /\ open' = SubSeq(open, n + 1, M)
        /\ upvals' = [u \in DOMAIN upvals |->
                        IF \E i \in 1..n : open[i] = u
                        THEN [reg |-> 0, closed |-> rf[upvals[u].reg]]
                        ELSE upvals[u]]
  BY DEF CloseUpvalues
<1>4. /\ \A i, j \in 1..M : i < j => upvals[open[i]].reg > upvals[open[j]].reg
      /\ \A u \in 1..L : upvals[u].reg # 0 <=> \E i \in 1..M : open[i] = u
  BY <1>1 DEF ListInv, OpenListSorted
<1> HIDE DEF L, M
<1>5. \A i \in (n + 1)..M : upvals[open[i]].reg < r
  <2> SUFFICES ASSUME NEW i \in (n + 1)..M PROVE upvals[open[i]].reg < r
    OBVIOUS
  <2>1. n + 1 \in 1..M /\ i \in 1..M
    <3>1. n \in Int /\ M \in Int
      BY <1>1, <1>3
    <3>2. n >= 0
      BY <1>1, <1>3
    <3> QED BY <3>1, <3>2
  <2>2. open[i] \in 1..L /\ open[n + 1] \in 1..L /\ upvals[open[n + 1]].reg < r
    BY <1>1, <1>3, <2>1
  <2>3. i = n + 1 \/ upvals[open[n + 1]].reg > upvals[open[i]].reg
    BY <1>4, <2>1
  <2>4. upvals[open[i]].reg \in Nat /\ upvals[open[n + 1]].reg \in Nat
    BY <1>2, <2>2
  <2> QED
    BY <2>2, <2>3, <2>4
<1>6. \A u \in 1..L : (\E i \in 1..n : open[i] = u) <=> upvals[u].reg >= r
  <2> SUFFICES ASSUME NEW u \in 1..L, upvals[u].reg >= r PROVE \E i \in 1..n : open[i] = u
    BY <1>3
  <2>1. PICK i \in 1..M : open[i] = u
    BY <1>2, <1>4
  <2>2. i \notin (n + 1)..M
    BY <1>2, <1>5, <2>1
  <2> QED
    BY <1>1, <1>3, <2>1, <2>2
<1>7. \A u \in 1..L : upvals'[u] = IF upvals[u].reg >= r
                                  THEN [reg |-> 0, closed |-> rf[upvals[u].reg]]
                                  ELSE upvals[u]
  BY <1>1, <1>3, <1>6
<1>8. upvals' \in Seq(Upval) /\ Len(upvals') = L
  <2>1. \A u \in 1..L : upvals'[u] \in Upval
    <3> SUFFICES ASSUME NEW u \in 1..L PROVE upvals'[u] \in Upval
      OBVIOUS
    <3>1. CASE upvals[u].reg >= r
      <4>1. upvals[u].reg \in Reg
        BY <1>2, <3>1
      <4>2. rf[upvals[u].reg] \in Val
        BY <4>1
      <4>3. upvals'[u] = [reg |-> 0, closed |-> rf[upvals[u].reg]]
        BY <1>7, <3>1
      <4> QED
        BY <4>2, <4>3 DEF Upval
    <3>2. CASE ~(upvals[u].reg >= r)
      BY <1>1, <1>7, <3>2
    <3> QED
      BY <3>1, <3>2
  <2>2. upvals' \in [1..L -> Upval]
    BY <1>1, <1>3, <2>1
  <2>3. upvals' \in Seq(Upval)
    BY <1>1, <2>2, SeqDef
  <2>4. DOMAIN upvals' = 1..L /\ DOMAIN upvals' = 1..Len(upvals')
    BY <2>2, <2>3, LenProperties
  <2> QED
    BY <1>1, <2>3, <2>4, LenProperties
<1>9. /\ open' \in Seq(1..L)
      /\ Len(open') = M - n
      /\ \A i \in 1..(M - n) : open'[i] = open[n + i]
  <2>1. \A i \in (n + 1)..M : open[i] \in 1..L
    BY <1>1, <1>3
  <2>2. n + 1 \in Int /\ M \in Int
    BY <1>1, <1>3
  <2>3. /\ SubSeq(open, n + 1, M) \in Seq(1..L)
        /\ Len(SubSeq(open, n + 1, M)) = IF n + 1 <= M THEN M - (n + 1) + 1 ELSE 0
        /\ \A i \in 1..(M - (n + 1) + 1) : SubSeq(open, n + 1, M)[i] = open[n + 1 + i - 1]
    BY <2>1, <2>2, SubSeqProperties
  <2> QED
    BY <1>1, <1>3, <2>3
<1>10. DOMAIN upvals' = 1..L
  BY <1>8, LenProperties
<1>11. \A i \in 1..(M - n) : upvals'[open'[i]] = upvals[open[n + i]]
  <2> SUFFICES ASSUME NEW i \in 1..(M - n) PROVE upvals'[open'[i]] = upvals[open[n + i]]
    OBVIOUS
  <2>1. n + i \in (n + 1)..M /\ n + i \in 1..M
    BY <1>1, <1>3
  <2>2. open[n + i] \in 1..L /\ upvals[open[n + i]].reg < r /\ open'[i] = open[n + i]
    BY <1>1, <1>5, <1>9, <2>1
  <2> DEFINE u == open[n + i]
  <2> HIDE DEF u
  <2>3. u \in 1..L /\ upvals[u].reg < r /\ open'[i] = u
    BY <2>2 DEF u
  <2>4. upvals[u].reg \in Nat
    BY <1>2, <2>3
  <2>5. ~(upvals[u].reg >= r)
    BY <2>3, <2>4
  <2>6. upvals'[u] = upvals[u]
    BY <1>7, <2>3, <2>5
  <2> QED
    BY <2>3, <2>6 DEF u
<1>12. \A i, j \in 1..Len(open') : i < j => upvals'[open'[i]].reg > upvals'[open'[j]].reg
  <2> SUFFICES ASSUME NEW i \in 1..(M - n), NEW j \in 1..(M - n), i < j
               PROVE  upvals'[open'[i]].reg > upvals'[open'[j]].reg
    BY <1>9
  <2>1. n + i \in 1..M /\ n + j \in 1..M /\ n + i < n + j
    <3>1. n \in Int /\ M \in Int
      BY <1>1, <1>3
    <3>2. n >= 0
      BY <1>1, <1>3
    <3> QED BY <3>1, <3>2, ShiftedPair, Zenon
  <2> QED
    BY <1>4, <1>11, <2>1
<1>13. ASSUME NEW u \in 1..L
       PROVE  upvals'[u].reg # 0 <=> \E i \in 1..Len(open') : open'[i] = u
  <2>1. ASSUME upvals'[u].reg # 0
        PROVE  \E i \in 1..Len(open') : open'[i] = u
    <3>1. ~(upvals[u].reg >= r) /\ upvals[u].reg # 0
      <4>1. CASE upvals[u].reg >= r
        <5>1. upvals'[u] = [reg |-> 0, closed |-> rf[upvals[u].reg]]
          BY <1>7, <4>1
        <5> QED
          BY <2>1, <5>1
      <4>2. CASE ~(upvals[u].reg >= r)
        <5>1. upvals'[u] = upvals[u]
          BY <1>7, <4>2
        <5> QED
          BY <2>1, <4>2, <5>1
      <4> QED
        BY <4>1, <4>2
    <3>2. PICK i \in 1..M : open[i] = u
      BY <1>4, <3>1
    <3>3. i \notin 1..n
      BY <1>6, <3>1, <3>2
    <3>4. i - n \in 1..(M - n) /\ n + (i - n) = i
      BY <1>1, <1>3, <3>3
    <3> QED
      BY <1>9, <3>2, <3>4
  <2>2. ASSUME NEW i \in 1..Len(open'), open'[i] = u
        PROVE  upvals'[u].reg # 0
    <3>1. i \in 1..(M - n) /\ n + i \in 1..M
      BY <1>1, <1>3, <1>9
    <3>2. open[n + i] = u /\ upvals'[u] = upvals[u]
      BY <1>9, <1>11, <2>2, <3>1
    <3> QED
      BY <1>4, <3>1, <3>2
  <2> QED
    BY <2>1, <2>2
<1> QED
  BY <1>1, <1>7, <1>8, <1>9, <1>10, <1>12, <1>13 DEF L, OpenListSorted

\* What ListInv says of single upvalues and list entries.
LEMMA ListFacts ==
    ASSUME ListInv
    PROVE  /\ upvals \in Seq(Upval) /\ Len(upvals) \in Nat /\ DOMAIN upvals = 1..Len(upvals)
           /\ open \in Seq(1..Len(upvals)) /\ Len(open) \in Nat
           /\ cell \in Seq(Val) /\ Len(cell) = Len(upvals) /\ DOMAIN cell = 1..Len(upvals)
           /\ \A u \in 1..Len(upvals) : upvals[u] \in Upval
           /\ \A u \in 1..Len(upvals) : upvals[u].reg \in Reg \cup {0} /\ upvals[u].reg \in Nat
           /\ \A i \in 1..Len(open) : open[i] \in 1..Len(upvals)
           /\ \A u \in 1..Len(upvals) : cell[u] \in Val
<1>1. /\ upvals \in Seq(Upval) /\ Len(upvals) \in Nat /\ DOMAIN upvals = 1..Len(upvals)
      /\ open \in Seq(1..Len(upvals)) /\ Len(open) \in Nat
      /\ cell \in Seq(Val) /\ Len(cell) = Len(upvals) /\ DOMAIN cell = 1..Len(cell)
  BY LenProperties DEF ListInv, TypeOK
<1>2. \A u \in 1..Len(upvals) : upvals[u] \in Upval /\ cell[u] \in Val
  BY <1>1, ElementOfSeq
<1>3. \A i \in 1..Len(open) : open[i] \in 1..Len(upvals)
  BY <1>1, ElementOfSeq
<1>4. \A u \in 1..Len(upvals) : upvals[u].reg \in Reg \cup {0}
  BY <1>2 DEF Upval
<1>5. \A x \in Reg \cup {0} : x \in Nat
  BY ParamAssumption DEF Reg
<1> QED
  BY <1>1, <1>2, <1>3, <1>4, <1>5

\* A register has at most one open upvalue.
LEMMA OneUpvalPerRegister ==
    ASSUME ListInv, NEW u \in DOMAIN upvals, NEW v \in DOMAIN upvals,
           upvals[u].reg = upvals[v].reg, upvals[u].reg # 0
    PROVE  u = v
<1>1. PICK i \in 1..Len(open) : open[i] = u
  BY DEF ListInv, OpenListSorted
<1>2. PICK j \in 1..Len(open) : open[j] = v
  BY DEF ListInv, OpenListSorted
<1>3. ~(i < j) /\ ~(j < i)
  <2>1. i < j => upvals[u].reg > upvals[v].reg
    BY <1>1, <1>2 DEF ListInv, OpenListSorted
  <2>2. j < i => upvals[v].reg > upvals[u].reg
    BY <1>1, <1>2 DEF ListInv, OpenListSorted
  <2>3. upvals[u].reg \in Nat
    BY ListFacts
  <2> QED
    BY <2>1, <2>2, <2>3
<1>4. i = j
  BY <1>3, ListFacts
<1> QED
  BY <1>1, <1>2, <1>4

\* new is s with x inserted after its first n elements.
Inserted(new, s, n, x) == new = SubSeq(s, 1, n) \o <<x>> \o SubSeq(s, n + 1, Len(s))

\* What inserting an element does to a sequence.
LEMMA InsertInSeq ==
    ASSUME NEW S, NEW s \in Seq(S), NEW x \in S, NEW n \in 0..Len(s), NEW new, Inserted(new, s, n, x)
    PROVE  /\ new \in Seq(S)
           /\ Len(new) = Len(s) + 1
           /\ \A i \in 1..n : new[i] = s[i]
           /\ new[n + 1] = x
           /\ \A i \in (n + 2)..(Len(s) + 1) : new[i] = s[i - 1]
<1> DEFINE M == Len(s)
<1> DEFINE high == SubSeq(s, 1, n)
           mid == <<x>>
           low == SubSeq(s, n + 1, M)
<1>1. M \in Nat /\ n \in Nat /\ n <= M /\ \A i \in 1..M : s[i] \in S
  BY LenProperties, ElementOfSeq
<1>2. high \in Seq(S) /\ Len(high) = n /\ \A i \in 1..n : high[i] = s[i]
  <2>1. \A i \in 1..n : s[i] \in S
    BY <1>1
  <2>2. /\ high \in Seq(S) /\ Len(high) = IF 1 <= n THEN n - 1 + 1 ELSE 0
        /\ \A i \in 1..(n - 1 + 1) : high[i] = s[1 + i - 1]
    BY <1>1, <2>1, SubSeqProperties
  <2> HIDE DEF high
  <2> QED
    BY <1>1, <2>2
<1>3. low \in Seq(S) /\ Len(low) = M - n /\ \A i \in 1..(M - n) : low[i] = s[n + i]
  <2>1. \A i \in (n + 1)..M : s[i] \in S
    BY <1>1
  <2>2. /\ low \in Seq(S) /\ Len(low) = IF n + 1 <= M THEN M - (n + 1) + 1 ELSE 0
        /\ \A i \in 1..(M - (n + 1) + 1) : low[i] = s[n + 1 + i - 1]
    BY <1>1, <2>1, SubSeqProperties
  <2> HIDE DEF low
  <2>3. Len(low) = M - n
    BY <1>1, <2>2
  <2>4. ASSUME NEW i \in 1..(M - n) PROVE low[i] = s[n + i]
    <3>1. i \in 1..(M - (n + 1) + 1) /\ n + 1 + i - 1 = n + i
      BY <1>1
    <3>2. low[i] = s[n + 1 + i - 1]
      BY <2>2, <3>1
    <3> QED
      BY <3>1, <3>2
  <2> QED
    BY <2>2, <2>3, <2>4
<1>4. mid \in Seq(S) /\ Len(mid) = 1 /\ mid[1] = x
  OBVIOUS
<1> HIDE DEF high, mid, low
<1> DEFINE front == high \o mid
<1>5. /\ front \in Seq(S) /\ Len(front) = n + 1
      /\ \A i \in 1..n : front[i] = s[i]
      /\ front[n + 1] = x
  <2>1. /\ front \in Seq(S) /\ Len(front) = Len(high) + Len(mid)
        /\ \A i \in 1..(Len(high) + Len(mid)) :
             front[i] = IF i <= Len(high) THEN high[i] ELSE mid[i - Len(high)]
    BY <1>2, <1>4, ConcatProperties
  <2> HIDE DEF front
  <2>2. /\ \A i \in 1..n : front[i] = high[i]
        /\ front[n + 1] = mid[n + 1 - n]
    BY <1>1, <1>2, <1>4, <2>1
  <2>3. n + 1 - n = 1
    BY <1>1
  <2> QED
    BY <1>2, <1>4, <2>1, <2>2, <2>3
<1> HIDE DEF front
<1> DEFINE t == front \o low
<1>6. /\ t \in Seq(S) /\ Len(t) = M + 1
      /\ \A i \in 1..(n + 1) : t[i] = front[i]
      /\ \A i \in (n + 2)..(M + 1) : t[i] = s[i - 1]
  <2>1. /\ t \in Seq(S) /\ Len(t) = Len(front) + Len(low)
        /\ \A i \in 1..(Len(front) + Len(low)) :
             t[i] = IF i <= Len(front) THEN front[i] ELSE low[i - Len(front)]
    BY <1>3, <1>5, ConcatProperties
  <2> HIDE DEF t
  <2>2. Len(front) + Len(low) = M + 1
    BY <1>1, <1>3, <1>5
  <2>3. \A i \in 1..(M + 1) : t[i] = IF i <= n + 1 THEN front[i] ELSE low[i - (n + 1)]
    BY <1>5, <2>1, <2>2
  <2>4. \A i \in 1..(n + 1) : t[i] = front[i]
    BY <1>1, <2>3
  <2>5. ASSUME NEW i \in (n + 2)..(M + 1) PROVE t[i] = s[i - 1]
    <3>1. /\ i \in 1..(M + 1) /\ ~(i <= n + 1) /\ i - (n + 1) \in 1..(M - n)
          /\ n + (i - (n + 1)) = i - 1
      BY <1>1
    <3>2. t[i] = low[i - (n + 1)]
      BY <2>3, <3>1
    <3>3. low[i - (n + 1)] = s[n + (i - (n + 1))]
      BY <1>3, <3>1
    <3> QED
      BY <3>1, <3>2, <3>3
  <2> QED
    BY <2>1, <2>2, <2>4, <2>5
<1>7. t = new
  BY DEF t, front, high, mid, low, Inserted
<1> HIDE DEF t
<1>8. /\ t \in Seq(S) /\ Len(t) = M + 1
      /\ \A i \in 1..n : t[i] = s[i]
      /\ t[n + 1] = x
      /\ \A i \in (n + 2)..(M + 1) : t[i] = s[i - 1]
  BY <1>1, <1>5, <1>6
<1> QED
  BY <1>7, <1>8

\* captureUpvalue links a new upvalue of register r after the first n of the list.
Insert(r, n) ==
    /\ \A i \in 1..n : upvals[open[i]].reg > r
    /\ n < Len(open) => upvals[open[n + 1]].reg < r
    /\ upvals' = Append(upvals, [reg |-> r, closed |-> None])
    /\ Inserted(open', open, n, Len(upvals) + 1)

\* It does so between the larger and the smaller registers: the list stays
\* sorted and exact.
LEMMA InsertFacts ==
    ASSUME ListInv, NEW r \in Reg, NEW n \in 0..Len(open), Insert(r, n)
    PROVE  /\ upvals' \in Seq(Upval)
           /\ Len(upvals') = Len(upvals) + 1
           /\ \A u \in 1..Len(upvals) : upvals'[u] = upvals[u]
           /\ upvals'[Len(upvals) + 1] = [reg |-> r, closed |-> None]
           /\ open' \in Seq(DOMAIN upvals')
           /\ OpenListSorted'
<1>0. PICK L, M, N : L = Len(upvals) /\ M = Len(open) /\ N = L + 1
  OBVIOUS
<1>1. upvals \in Seq(Upval) /\ DOMAIN upvals = 1..L /\ open \in Seq(1..L)
  BY <1>0, ListFacts
<1>2. /\ L \in Nat /\ M \in Nat
      /\ \A i \in 1..M : open[i] \in 1..L
      /\ \A u \in 1..L : upvals[u].reg \in Nat
  BY <1>0, ListFacts
<1>3. /\ \A i, j \in 1..M : i < j => upvals[open[i]].reg > upvals[open[j]].reg
      /\ \A u \in 1..L : upvals[u].reg # 0 <=> \E i \in 1..M : open[i] = u
  BY <1>0, <1>1 DEF ListInv, OpenListSorted
<1>4. /\ r \in Nat /\ r # 0 /\ n \in Nat /\ n <= M
      /\ \A i \in 1..n : upvals[open[i]].reg > r
      /\ n < M => upvals[open[n + 1]].reg < r
  BY <1>0, <1>2, ParamAssumption DEF Reg, Insert
<1>5. /\ upvals' \in Seq(Upval) /\ Len(upvals') = N
      /\ \A u \in 1..L : upvals'[u] = upvals[u]
      /\ upvals'[N] = [reg |-> r, closed |-> None]
  <2>1. [reg |-> r, closed |-> None] \in Upval
    BY DEF Upval, Val
  <2>2. upvals' = Append(upvals, [reg |-> r, closed |-> None])
    BY DEF Insert
  <2> QED
    BY <1>0, <1>1, <2>1, <2>2, AppendProperties
<1>6. DOMAIN upvals' = 1..N
  BY <1>5, LenProperties
<1>7. /\ open' \in Seq(1..N) /\ Len(open') = M + 1
      /\ \A i \in 1..n : open'[i] = open[i]
      /\ open'[n + 1] = N
      /\ \A i \in (n + 2)..(M + 1) : open'[i] = open[i - 1]
  <2>1. open \in Seq(1..N) /\ N \in 1..N
    <3>1. \A i \in 1..M : open[i] \in 1..N
      BY <1>0, <1>2
    <3>2. open \in [1..M -> 1..N]
      <4>1. open \in [1..M -> 1..L]
        BY <1>0, <1>1, LenProperties
      <4> QED
        BY <3>1, <4>1
    <3>3. N \in 1..N
      BY <1>0, <1>2
    <3> QED
      BY <1>2, <3>2, <3>3, SeqDef
  <2>2. Inserted(open', open, n, N)
    BY <1>0 DEF Insert
  <2>3. PICK S : S = 1..N
    OBVIOUS
  <2>4. open \in Seq(S) /\ N \in S
    BY <2>1, <2>3
  <2>5. /\ open' \in Seq(S) /\ Len(open') = Len(open) + 1
        /\ \A i \in 1..n : open'[i] = open[i]
        /\ open'[n + 1] = N
        /\ \A i \in (n + 2)..(Len(open) + 1) : open'[i] = open[i - 1]
    BY <2>2, <2>4, InsertInSeq
  <2> QED
    BY <1>0, <2>3, <2>5
<1>8. /\ \A u \in 1..L : upvals'[u] = upvals[u]
      /\ upvals'[N].reg = r
  <2>1. upvals'[N].reg = r
    <3>1. upvals'[N] = [reg |-> r, closed |-> None]
      BY <1>5
    <3> QED
      BY <3>1
  <2> QED
    BY <1>5, <2>1
<1>9. /\ \A i \in 1..n : open'[i] = open[i]
      /\ open'[n + 1] = N
      /\ \A i \in (n + 2)..(M + 1) : open'[i] = open[i - 1]
  BY <1>7
\* Registers along the new list.
<1>10. ASSUME NEW i \in 1..n
       PROVE  /\ i \in 1..M
              /\ upvals'[open'[i]].reg = upvals[open[i]].reg
              /\ upvals'[open'[i]].reg \in Nat /\ upvals'[open'[i]].reg > r
  <2>1. i \in 1..M
    BY <1>2, <1>4
  <2>2. open[i] \in 1..L /\ open'[i] = open[i]
    BY <1>2, <1>9, <2>1
  <2>3. upvals'[open'[i]] = upvals[open[i]]
    BY <1>8, <2>2
  <2> QED
    BY <1>2, <1>4, <2>1, <2>2, <2>3
<1>11. upvals'[open'[n + 1]].reg = r
  BY <1>8, <1>9
<1>12. ASSUME NEW i \in (n + 2)..(M + 1)
       PROVE  /\ i - 1 \in 1..M
              /\ upvals'[open'[i]].reg = upvals[open[i - 1]].reg
              /\ upvals'[open'[i]].reg \in Nat /\ upvals'[open'[i]].reg < r
  <2>1. i - 1 \in 1..M /\ n + 1 \in 1..M /\ n < M /\ (i - 1 = n + 1 \/ n + 1 < i - 1)
    BY <1>2, <1>4
  <2>2. open[i - 1] \in 1..L /\ open'[i] = open[i - 1] /\ open[n + 1] \in 1..L
    <3>1. open[i - 1] \in 1..L /\ open[n + 1] \in 1..L
      BY <1>2, <2>1
    <3> QED
      BY <1>9, <3>1
  <2>3. upvals'[open'[i]] = upvals[open[i - 1]]
    BY <1>8, <2>2
  <2>4. upvals[open[n + 1]].reg < r
    BY <1>4, <2>1
  <2>5. i - 1 = n + 1 \/ upvals[open[n + 1]].reg > upvals[open[i - 1]].reg
    BY <1>3, <2>1
  <2>6. upvals[open[i - 1]].reg \in Nat /\ upvals[open[n + 1]].reg \in Nat
    BY <1>2, <2>2
  <2> DEFINE x == upvals[open[i - 1]].reg
             y == upvals[open[n + 1]].reg
  <2>7. x = y \/ y > x
    BY <2>5
  <2> HIDE DEF x, y
  <2>8. x \in Nat /\ y \in Nat /\ y < r
    BY <2>4, <2>6 DEF x, y
  <2>9. x < r
    BY <1>4, <2>7, <2>8
  <2>10. upvals'[open'[i]].reg = x
    BY <2>3 DEF x
  <2> QED
    BY <2>1, <2>8, <2>9, <2>10 DEF x
<1>13. ASSUME NEW i \in 1..(M + 1), NEW j \in 1..(M + 1), i < j
       PROVE  upvals'[open'[i]].reg > upvals'[open'[j]].reg
  <2>1. CASE j <= n
    <3>1. i \in 1..n /\ j \in 1..n
      BY <1>2, <1>4, <1>13, <2>1
    <3>2. i \in 1..M /\ j \in 1..M
      BY <1>10, <3>1
    <3>3. upvals[open[i]].reg > upvals[open[j]].reg
      BY <1>3, <1>13, <3>2
    <3>4. /\ upvals'[open'[i]].reg = upvals[open[i]].reg
          /\ upvals'[open'[j]].reg = upvals[open[j]].reg
      BY <1>10, <3>1
    <3> QED
      BY <3>3, <3>4
  <2>2. CASE j = n + 1
    <3>1. i \in 1..n
      BY <1>2, <1>4, <1>13, <2>2
    <3>2. upvals'[open'[i]].reg > r
      BY <1>10, <3>1
    <3> QED
      BY <1>11, <2>2, <3>2
  <2>3. CASE j > n + 1 /\ i <= n
    <3>1. j \in (n + 2)..(M + 1) /\ i \in 1..n
      BY <1>2, <1>4, <2>3
    <3>2. upvals'[open'[j]].reg \in Nat /\ upvals'[open'[j]].reg < r
      BY <1>12, <3>1
    <3>3. upvals'[open'[i]].reg \in Nat /\ upvals'[open'[i]].reg > r
      BY <1>10, <3>1
    <3> DEFINE x == upvals'[open'[i]].reg
               y == upvals'[open'[j]].reg
    <3> HIDE DEF x, y
    <3>4. x \in Nat /\ y \in Nat /\ y < r /\ x > r
      BY <3>2, <3>3 DEF x, y
    <3>5. x > y
      BY <1>4, <3>4
    <3> QED
      BY <3>5 DEF x, y
  <2>4. CASE j > n + 1 /\ i = n + 1
    <3>1. j \in (n + 2)..(M + 1)
      BY <1>2, <1>4, <2>4
    <3> DEFINE y == upvals'[open'[j]].reg
    <3> HIDE DEF y
    <3>2. y \in Nat /\ y < r
      BY <1>12, <3>1 DEF y
    <3>3. r > y
      BY <1>4, <3>2
    <3> QED
      BY <1>11, <2>4, <3>3 DEF y
  <2>5. CASE j > n + 1 /\ i > n + 1
    <3>1. i \in (n + 2)..(M + 1) /\ j \in (n + 2)..(M + 1) /\ i - 1 < j - 1
      BY <1>2, <1>4, <1>13, <2>5
    <3>2. i - 1 \in 1..M /\ j - 1 \in 1..M
      BY <1>12, <3>1
    <3>3. upvals[open[i - 1]].reg > upvals[open[j - 1]].reg
      BY <1>3, <3>1, <3>2
    <3>4. /\ upvals'[open'[i]].reg = upvals[open[i - 1]].reg
          /\ upvals'[open'[j]].reg = upvals[open[j - 1]].reg
      BY <1>12, <3>1
    <3> QED
      BY <3>3, <3>4
  <2>6. \/ j <= n \/ j = n + 1
        \/ j > n + 1 /\ i <= n
        \/ j > n + 1 /\ i = n + 1
        \/ j > n + 1 /\ i > n + 1
    <3>1. n \in Int /\ i \in Int /\ j \in Int
      BY <1>2, <1>4
    <3> QED BY <3>1, AroundThePlace, Zenon
  <2> QED
    BY <2>1, <2>2, <2>3, <2>4, <2>5, <2>6
<1>14. ASSUME NEW u \in 1..N
       PROVE  upvals'[u].reg # 0 <=> \E i \in 1..(M + 1) : open'[i] = u
  <2>1. CASE u = N
    <3>1. n + 1 \in 1..(M + 1)
      BY <1>2, <1>4
    <3>2. upvals'[u].reg # 0
      BY <1>4, <1>8, <2>1
    <3>3. open'[n + 1] = u
      BY <1>9, <2>1
    <3> QED
      BY <3>1, <3>2, <3>3
  <2>2. CASE u \in 1..L
    <3>1. upvals'[u] = upvals[u]
      BY <1>8, <2>2
    <3>2. upvals'[u].reg # 0 <=> \E i \in 1..M : open[i] = u
      BY <1>3, <2>2, <3>1
    <3>3. ASSUME NEW i \in 1..M, open[i] = u
          PROVE  \E k \in 1..(M + 1) : open'[k] = u
      <4>1. CASE i <= n
        <5>1. i \in 1..n /\ i \in 1..(M + 1)
          BY <1>2, <1>4, <4>1
        <5>2. open'[i] = u
          BY <1>9, <3>3, <5>1
        <5> QED
          BY <5>1, <5>2
      <4>2. CASE i > n
        <5>1. i + 1 \in (n + 2)..(M + 1) /\ i + 1 \in 1..(M + 1) /\ (i + 1) - 1 = i
          BY <1>2, <1>4, <4>2
        <5>2. open'[i + 1] = open[(i + 1) - 1]
          BY <1>9, <5>1
        <5> QED
          BY <3>3, <5>1, <5>2
      <4>3. i <= n \/ i > n
        BY <1>2, <1>4
      <4> QED
        BY <4>1, <4>2, <4>3
    <3>4. ASSUME NEW k \in 1..(M + 1), open'[k] = u
          PROVE  \E i \in 1..M : open[i] = u
      <4>1. CASE k \in 1..n
        <5>1. k \in 1..M /\ open[k] = u
          BY <1>9, <1>10, <3>4, <4>1
        <5> QED
          BY <5>1
      <4>2. k # n + 1
        <5>1. u # N
          BY <1>0, <1>2, <2>2
        <5> QED
          BY <1>9, <3>4, <5>1
      <4>3. CASE k \in (n + 2)..(M + 1)
        <5>1. k - 1 \in 1..M
          BY <1>12, <4>3
        <5>2. open[k - 1] = u
          BY <1>9, <3>4, <4>3
        <5> QED
          BY <5>1, <5>2
      <4>4. k \in 1..n \/ k = n + 1 \/ k \in (n + 2)..(M + 1)
        BY <1>2, <1>4
      <4> QED
        BY <4>1, <4>2, <4>3, <4>4
    <3> QED
      BY <3>2, <3>3, <3>4
  <2>3. u = N \/ u \in 1..L
    BY <1>0, <1>2
  <2> QED
    BY <2>1, <2>2, <2>3
<1> QED
  BY <1>0, <1>5, <1>6, <1>7, <1>13, <1>14 DEF OpenListSorted

----------------------------------------------------------------------------
(* Types and the open list, whatever way frames are left.                   *)

\* A function on 1..n is a sequence of length n.
LEMMA FunctionIsSeq ==
    ASSUME NEW S, NEW n \in Nat, NEW f \in [1..n -> S]
    PROVE  f \in Seq(S) /\ Len(f) = n
<1>1. f \in Seq(S)
  BY SeqDef
<1>2. Len(f) \in Nat /\ DOMAIN f = 1..n /\ DOMAIN f = 1..Len(f)
  BY <1>1, LenProperties
<1> QED
  BY <1>1, <1>2

\* The initial state has no frame and no upvalue.
LEMMA InitList == Init => ListInv
<1> SUFFICES ASSUME Init PROVE ListInv
  OBVIOUS
<1>1. /\ depth = 0 /\ regs = [r \in Reg |-> None] /\ upvals = <<>> /\ open = <<>>
      /\ cell = <<>> /\ bound = {} /\ left = {}
  BY DEF Init
<1>2. /\ upvals \in Seq(Upval) /\ open \in Seq(DOMAIN upvals) /\ cell \in Seq(Val)
      /\ Len(upvals) = 0 /\ Len(open) = 0 /\ Len(cell) = 0
  BY <1>1, EmptySeq
<1>3. DOMAIN upvals = 1..0
  BY <1>2, LenProperties
<1>4. depth \in 0..MaxDepth
  BY <1>1, ParamAssumption
<1>5. regs \in [Reg -> Val]
  BY <1>1 DEF Val
<1>6. TypeOK
  BY <1>1, <1>2, <1>4, <1>5 DEF TypeOK
<1>7. OpenListSorted
  BY <1>2, <1>3 DEF OpenListSorted
<1> QED
  BY <1>6, <1>7 DEF ListInv

\* The ways in which frames were left are ways the program has.
LEMMA LeftType ==
    ASSUME ListInv,
           \/ Push \/ SetLocal \/ Capture \/ SetUpval \/ Return
           \/ TailCall \/ Unwind \/ Swallow \/ Abort
    PROVE  left' \subseteq Exits
<1>1. left \subseteq Exits
  BY DEF ListInv, TypeOK
<1>2. CASE Push \/ SetLocal \/ Capture \/ SetUpval \/ Return
  BY <1>1, <1>2 DEF Push, SetLocal, Capture, SetUpval, Return
<1>3. CASE TailCall \/ Unwind \/ Swallow \/ Abort
  BY <1>1, <1>3 DEF TailCall, Unwind, Swallow, Abort, Leave
<1> QED
  BY <1>2, <1>3

\* Steps that leave the upvalues alone.
LEMMA SameUpvals ==
    ASSUME ListInv, UNCHANGED <<upvals, open>>,
           depth' \in 0..MaxDepth, regs' \in [Reg -> Val],
           cell' \in Seq(Val), Len(cell') = Len(cell), bound' \subseteq DOMAIN upvals,
           left' \subseteq Exits
    PROVE  ListInv'
BY DEF ListInv, TypeOK, OpenListSorted

\* Steps that close the upvalues above register r.
LEMMA LeaveList ==
    ASSUME ListInv, NEW r \in Nat, NEW rf \in [Reg -> Val], CloseUpvalues(r + 1, rf),
           Unbind(r), regs' \in [Reg -> Val], depth' \in 0..MaxDepth, cell' = cell,
           left' \subseteq Exits
    PROVE  ListInv'
<1>1. r + 1 \in Nat \ {0}
  OBVIOUS
<1>2. /\ upvals' \in Seq(Upval) /\ Len(upvals') = Len(upvals)
      /\ open' \in Seq(DOMAIN upvals') /\ OpenListSorted'
  BY <1>1, CloseFacts
<1>3. DOMAIN upvals' = DOMAIN upvals
  BY <1>2, LenProperties, ListFacts
<1>4. bound' \subseteq DOMAIN upvals'
  BY <1>3 DEF Unbind, ListInv, TypeOK
<1>5. cell' \in Seq(Val) /\ Len(cell') = Len(upvals')
  BY <1>2, ListFacts
<1>6. TypeOK'
  BY <1>2, <1>4, <1>5 DEF TypeOK
<1> QED
  BY <1>2, <1>6 DEF ListInv

\* A frame is pushed.
LEMMA PushList == ASSUME ListInv, Push PROVE ListInv'
<1>1. depth + 1 \in 1..MaxDepth /\ depth' = depth + 1
  BY ParamAssumption DEF ListInv, TypeOK, Push
<1>2. PICK v \in Value :
        regs' = [Cleared(Window(depth + 1)) EXCEPT ![Base(depth + 1) + 1] = v]
  BY DEF Push
<1>3. Cleared(Window(depth + 1)) \in [Reg -> Val]
  BY ClearedType DEF ListInv, TypeOK
<1>4. regs' \in [Reg -> Val]
  BY <1>2, <1>3 DEF Val
<1>5. depth' \in 0..MaxDepth
  BY <1>1
<1> QED
  BY <1>4, <1>5, SameUpvals DEF Push, ListInv, TypeOK

\* A local is assigned.
LEMMA SetLocalList == ASSUME ListInv, SetLocal PROVE ListInv'
<1>1. depth \in 1..MaxDepth
  BY ParamAssumption DEF ListInv, TypeOK, SetLocal
<1>2. PICK r \in Window(depth), v \in Value :
        /\ regs' = [regs EXCEPT ![r] = v]
        /\ cell' = [u \in DOMAIN cell |->
                      IF u \in bound /\ upvals[u].reg = r THEN v ELSE cell[u]]
  BY DEF SetLocal
<1>3. regs' \in [Reg -> Val]
  BY <1>2 DEF ListInv, TypeOK, Val
<1>4. cell' \in Seq(Val) /\ Len(cell') = Len(cell)
  <2>1. Len(cell) \in Nat /\ DOMAIN cell = 1..Len(cell) /\ \A u \in 1..Len(cell) : cell[u] \in Val
    BY ListFacts
  <2>2. cell' \in [1..Len(cell) -> Val]
    BY <1>2, <2>1 DEF Val
  <2> QED
    BY <2>1, <2>2, FunctionIsSeq
<1> QED
  BY <1>3, <1>4, SameUpvals DEF SetLocal, ListInv, TypeOK

\* What CLOSURE does: it reuses the open upvalue of its register, or links one.
LEMMA CaptureCases ==
    ASSUME ListInv, Capture
    PROVE  \E r \in Window(depth) :
             /\ depth \in 1..MaxDepth /\ r \in Reg
             /\ \/ \E u \in DOMAIN upvals :
                     /\ upvals[u].reg = r
                     /\ bound' = bound \cup {u}
                     /\ cell' = IF u \in bound THEN cell ELSE [cell EXCEPT ![u] = regs[r]]
                     /\ UNCHANGED <<depth, regs, upvals, open>>
                \/ /\ \E n \in 0..Len(open) : Insert(r, n)
                   /\ cell' = Append(cell, regs[r])
                   /\ bound' = bound \cup {Len(upvals) + 1}
                   /\ UNCHANGED <<depth, regs>>
<1>1. depth \in 1..MaxDepth
  BY ParamAssumption DEF ListInv, TypeOK, Capture
<1>2. PICK r \in Window(depth), n \in 0..Len(open) :
         /\ \A i \in 1..n : upvals[open[i]].reg > r
         /\ n < Len(open) => upvals[open[n + 1]].reg <= r
         /\ IF n < Len(open) /\ upvals[open[n + 1]].reg = r
            THEN /\ bound' = bound \cup {open[n + 1]}
                 /\ cell' = IF open[n + 1] \in bound THEN cell
                            ELSE [cell EXCEPT ![open[n + 1]] = regs[r]]
                 /\ UNCHANGED <<upvals, open>>
            ELSE /\ Len(upvals) < MaxUpvals
                 /\ upvals' = Append(upvals, [reg |-> r, closed |-> None])
                 /\ open' = SubSeq(open, 1, n) \o <<Len(upvals) + 1>>
                              \o SubSeq(open, n + 1, Len(open))
                 /\ cell' = Append(cell, regs[r])
                 /\ bound' = bound \cup {Len(upvals) + 1}
  BY DEF Capture
<1>3. r \in Reg
  BY <1>1, WindowBounds
<1>4. UNCHANGED <<depth, regs>>
  BY DEF Capture
<1>5. CASE n < Len(open) /\ upvals[open[n + 1]].reg = r
  <2>1. n + 1 \in 1..Len(open)
    BY <1>5, ListFacts
  <2>2. open[n + 1] \in DOMAIN upvals
    BY <2>1, ListFacts
  <2> QED
    BY <1>1, <1>2, <1>3, <1>4, <1>5, <2>2
<1>6. CASE ~(n < Len(open) /\ upvals[open[n + 1]].reg = r)
  <2>1. n < Len(open) => upvals[open[n + 1]].reg < r
    <3> SUFFICES ASSUME n < Len(open) PROVE upvals[open[n + 1]].reg < r
      OBVIOUS
    <3>1. upvals[open[n + 1]].reg <= r /\ upvals[open[n + 1]].reg # r
      BY <1>2, <1>6
    <3>2. n + 1 \in 1..Len(open)
      BY ListFacts
    <3>3. upvals[open[n + 1]].reg \in Nat
      BY <3>2, ListFacts
    <3>4. r \in Nat
      BY <1>3, ParamAssumption DEF Reg
    <3> QED
      BY <3>1, <3>3, <3>4
  <2>2. Insert(r, n)
    BY <1>2, <1>6, <2>1 DEF Insert, Inserted
  <2>3. cell' = Append(cell, regs[r]) /\ bound' = bound \cup {Len(upvals) + 1}
    BY <1>2, <1>6
  <2> QED
    BY <1>1, <1>3, <1>4, <2>2, <2>3
<1> QED
  BY <1>5, <1>6

\* A closure is made.
LEMMA CaptureList == ASSUME ListInv, Capture PROVE ListInv'
<1>1. PICK r \in Window(depth) :
        /\ depth \in 1..MaxDepth /\ r \in Reg
        /\ \/ \E u \in DOMAIN upvals :
                /\ upvals[u].reg = r
                /\ bound' = bound \cup {u}
                /\ cell' = IF u \in bound THEN cell ELSE [cell EXCEPT ![u] = regs[r]]
                /\ UNCHANGED <<depth, regs, upvals, open>>
           \/ /\ \E n \in 0..Len(open) : Insert(r, n)
              /\ cell' = Append(cell, regs[r])
              /\ bound' = bound \cup {Len(upvals) + 1}
              /\ UNCHANGED <<depth, regs>>
  BY CaptureCases
<1>2. regs[r] \in Val /\ cell \in Seq(Val)
  BY <1>1 DEF ListInv, TypeOK
<1>3. ASSUME NEW u \in DOMAIN upvals,
             bound' = bound \cup {u},
             cell' = IF u \in bound THEN cell ELSE [cell EXCEPT ![u] = regs[r]],
             UNCHANGED <<depth, regs, upvals, open>>
      PROVE  ListInv'
  <2>1. u \in 1..Len(cell)
    BY <1>3, ListFacts
  <2>2. [cell EXCEPT ![u] = regs[r]] \in Seq(Val) /\ Len([cell EXCEPT ![u] = regs[r]]) = Len(cell)
    BY <1>2, <2>1, ExceptSeq
  <2>3. cell' \in Seq(Val) /\ Len(cell') = Len(cell)
    BY <1>2, <1>3, <2>2
  <2> QED
    BY <1>3, <2>3, SameUpvals, LeftType DEF ListInv, TypeOK
<1>4. ASSUME NEW n \in 0..Len(open), Insert(r, n),
             cell' = Append(cell, regs[r]),
             bound' = bound \cup {Len(upvals) + 1},
             UNCHANGED <<depth, regs>>
      PROVE  ListInv'
  <2>1. /\ upvals' \in Seq(Upval) /\ Len(upvals') = Len(upvals) + 1
        /\ open' \in Seq(DOMAIN upvals') /\ OpenListSorted'
    BY <1>1, <1>4, InsertFacts
  <2>2. cell' \in Seq(Val) /\ Len(cell') = Len(cell) + 1
    BY <1>2, <1>4, AppendProperties
  <2>3. bound' \subseteq DOMAIN upvals'
    <3>1. DOMAIN upvals' = 1..(Len(upvals) + 1)
      BY <2>1, LenProperties
    <3>2. bound \subseteq 1..Len(upvals) /\ Len(upvals) \in Nat
      BY ListFacts DEF ListInv, TypeOK
    <3>3. \A k \in Nat : 1..k \subseteq 1..(k + 1) /\ k + 1 \in 1..(k + 1)
      OBVIOUS
    <3>4. 1..Len(upvals) \subseteq 1..(Len(upvals) + 1) /\ Len(upvals) + 1 \in 1..(Len(upvals) + 1)
      BY <3>2, <3>3
    <3>5. bound \cup {Len(upvals) + 1} \subseteq 1..(Len(upvals) + 1)
      BY <3>2, <3>4, Zenon
    <3> QED
      BY <1>4, <3>1, <3>5
  <2>4. Len(cell') = Len(upvals')
    BY <2>1, <2>2, ListFacts
  <2>5. TypeOK'
    BY <1>4, <2>1, <2>2, <2>3, <2>4, LeftType DEF ListInv, TypeOK
  <2> QED
    BY <2>1, <2>5 DEF ListInv
<1> QED
  BY <1>1, <1>3, <1>4

\* A closure assigns: what it leaves alone.
LEMMA SetUpvalList == ASSUME ListInv, SetUpval PROVE ListInv'
<1>1. PICK u \in DOMAIN upvals, v \in Value :
         /\ cell' = [cell EXCEPT ![u] = v]
         /\ IF upvals[u].reg = 0
            THEN upvals' = [upvals EXCEPT ![u].closed = v] /\ UNCHANGED regs
            ELSE regs' = [regs EXCEPT ![upvals[u].reg] = v] /\ UNCHANGED upvals
  BY DEF SetUpval
<1>2. u \in 1..Len(upvals) /\ u \in 1..Len(cell) /\ v \in Val
  BY <1>1, ListFacts DEF Val
<1>3. cell' \in Seq(Val) /\ Len(cell') = Len(cell)
  BY <1>1, <1>2, ListFacts, ExceptSeq
<1>4. UNCHANGED <<depth, open, bound>>
  BY DEF SetUpval
<1>5. CASE upvals[u].reg # 0
  <2>1. upvals[u].reg \in Reg
    BY <1>2, <1>5, ListFacts
  <2>2. regs' \in [Reg -> Val]
    BY <1>1, <1>2, <1>5, <2>1 DEF ListInv, TypeOK
  <2> QED
    BY <1>1, <1>3, <1>4, <1>5, <2>2, SameUpvals, LeftType DEF ListInv, TypeOK
<1>6. CASE upvals[u].reg = 0
  <2>1. upvals' = [upvals EXCEPT ![u] = [@ EXCEPT !.closed = v]] /\ UNCHANGED regs
    BY <1>1, <1>6
  <2>2. [upvals[u] EXCEPT !.closed = v] \in Upval
    <3>1. upvals[u] \in Upval
      BY <1>2, ListFacts
    <3> QED
      BY <1>2, <3>1 DEF Upval
  <2>3. /\ upvals' \in Seq(Upval) /\ Len(upvals') = Len(upvals)
        /\ \A w \in 1..Len(upvals) :
             upvals'[w] = IF w = u THEN [upvals[u] EXCEPT !.closed = v] ELSE upvals[w]
    BY <1>2, <2>1, <2>2, ListFacts, ExceptSeq
  <2>4. DOMAIN upvals' = 1..Len(upvals) /\ DOMAIN upvals = 1..Len(upvals)
    BY <2>3, LenProperties, ListFacts
  <2>5. \A w \in 1..Len(upvals) : upvals'[w].reg = upvals[w].reg
    <3>1. [upvals[u] EXCEPT !.closed = v].reg = upvals[u].reg
      BY <1>2, ListFacts DEF Upval
    <3> QED
      BY <2>3, <3>1
  <2>6. OpenListSorted'
    <3>1. \A i \in 1..Len(open) : open[i] \in 1..Len(upvals)
      BY ListFacts
    <3> QED
      BY <1>4, <2>4, <2>5, <3>1 DEF ListInv, OpenListSorted
  <2>7. TypeOK'
    BY <1>3, <1>4, <2>1, <2>3, <2>4, LeftType DEF ListInv, TypeOK
  <2> QED
    BY <2>6, <2>7 DEF ListInv
<1> QED
  BY <1>5, <1>6

\* RETURN.
LEMMA ReturnList == ASSUME ListInv, Return PROVE ListInv'
<1>1. depth \in 1..MaxDepth /\ depth' = depth - 1 /\ cell' = cell
  BY ParamAssumption DEF ListInv, TypeOK, Return
<1>2. Base(depth) \in Nat
  BY <1>1, WindowBounds
<1>3. regs' = Cleared(Window(depth)) /\ CloseUpvalues(Base(depth) + 1, regs) /\ Unbind(Base(depth))
  BY DEF Return
<1>4. regs \in [Reg -> Val]
  BY DEF ListInv, TypeOK
<1>5. regs' \in [Reg -> Val]
  BY <1>3, <1>4, ClearedType
<1>6. depth' \in 0..MaxDepth
  BY <1>1, ParamAssumption
<1> QED
  BY <1>1, <1>2, <1>3, <1>4, <1>5, <1>6, LeaveList, LeftType

\* TAIL_CALL.
LEMMA TailCallList == ASSUME ListInv, TailCall PROVE ListInv'
<1>1. depth \in 1..MaxDepth /\ depth' = depth /\ cell' = cell
  BY ParamAssumption DEF ListInv, TypeOK, TailCall
<1>2. Base(depth) \in Nat
  BY <1>1, WindowBounds
<1>3. CloseUpvalues(Base(depth) + 1, regs') /\ Unbind(Base(depth))
  BY DEF TailCall
<1>4. PICK v \in Value : regs' = [Cleared(Window(depth)) EXCEPT ![Base(depth) + 1] = v]
  BY DEF TailCall
<1>5. Cleared(Window(depth)) \in [Reg -> Val]
  BY ClearedType DEF ListInv, TypeOK
<1>6. regs' \in [Reg -> Val]
  BY <1>4, <1>5 DEF Val
<1>7. depth' \in 0..MaxDepth
  BY <1>1
<1>8. PICK rf \in [Reg -> Val] : rf = regs'
  BY <1>6
<1>9. CloseUpvalues(Base(depth) + 1, rf)
  BY <1>3, <1>8
<1> QED
  BY <1>1, <1>2, <1>3, <1>6, <1>7, <1>9, LeaveList, LeftType

\* Catching in a lower frame.
LEMMA UnwindList == ASSUME ListInv, Unwind PROVE ListInv'
<1>1. PICK d \in 1..depth :
         /\ depth' = d
         /\ regs' = Cleared(UNION {Window(e) : e \in (d + 1)..depth})
         /\ CloseUpvalues(Base(d + 1) + 1, regs')
         /\ Unbind(Base(d + 1))
  BY DEF Unwind
<1>2. depth \in 0..MaxDepth /\ d \in Nat /\ depth' \in 0..MaxDepth /\ cell' = cell
  BY <1>1, ParamAssumption DEF ListInv, TypeOK, Unwind
<1>3. Base(d + 1) \in Nat
  BY <1>2, BaseIsTop
<1>4. regs' \in [Reg -> Val]
  BY <1>1, ClearedType DEF ListInv, TypeOK
<1>5. PICK rf \in [Reg -> Val] : rf = regs'
  BY <1>4
<1>6. CloseUpvalues(Base(d + 1) + 1, rf)
  BY <1>1, <1>5
<1> QED
  BY <1>1, <1>2, <1>3, <1>4, <1>6, LeaveList, LeftType

\* An error that host code ignores.
LEMMA SwallowList == ASSUME ListInv, Swallow PROVE ListInv'
<1>1. PICK d \in 1..(depth - 1) :
         /\ depth' = d
         /\ regs' = Cleared(UNION {Window(e) : e \in (d + 1)..depth})
         /\ Unbind(Base(d + 1))
  BY DEF Swallow
<1>2. depth' \in 0..MaxDepth
  BY <1>1, ParamAssumption DEF ListInv, TypeOK
<1>3. regs' \in [Reg -> Val]
  BY <1>1, ClearedType DEF ListInv, TypeOK
<1>4. bound' \subseteq bound /\ UNCHANGED <<upvals, open, cell>>
  BY <1>1 DEF Swallow, Unbind
<1> QED
  BY <1>2, <1>3, <1>4, SameUpvals, LeftType DEF ListInv, TypeOK

\* An error that leaves execute().
LEMMA AbortList == ASSUME ListInv, Abort PROVE ListInv'
<1>1. depth' \in 0..MaxDepth
  BY ParamAssumption DEF Abort
<1>2. regs' \in [Reg -> Val]
  BY ClearedType DEF Abort, ListInv, TypeOK
<1> QED
  BY <1>1, <1>2, SameUpvals, LeftType DEF Abort, ListInv, TypeOK

\* Every step keeps the types and the open list.
LEMMA ListStep == ListInv /\ [Next]_vars => ListInv'
<1> SUFFICES ASSUME ListInv, [Next]_vars PROVE ListInv'
  OBVIOUS
<1>1. CASE Push
  BY <1>1, PushList
<1>2. CASE SetLocal
  BY <1>2, SetLocalList
<1>3. CASE Capture
  BY <1>3, CaptureList
<1>4. CASE SetUpval
  BY <1>4, SetUpvalList
<1>5. CASE Return
  BY <1>5, ReturnList
<1>6. CASE TailCall
  BY <1>6, TailCallList
<1>7. CASE Unwind
  BY <1>7, UnwindList
<1>8. CASE Swallow
  BY <1>8, SwallowList
<1>9. CASE Abort
  BY <1>9, AbortList
<1>10. CASE UNCHANGED vars
  BY <1>10, SameUpvals DEF vars, ListInv, TypeOK
<1> QED
  BY <1>1, <1>2, <1>3, <1>4, <1>5, <1>6, <1>7, <1>8, <1>9, <1>10 DEF Next

\* The types and the list invariant hold in every state.
LEMMA ListAlways == Spec => []ListInv
BY InitList, ListStep, PTL DEF Spec

\* Registers, upvalues and the open list keep their types (VM.h's registers and
\* openUpvalues), however frames are left.
THEOREM TypeCorrect == Spec => []TypeOK
<1>1. ListInv => TypeOK
  BY DEF ListInv
<1> QED
  BY <1>1, ListAlways, PTL

\* The open list that captureUpvalue and closeUpvalues search is strictly
\* descending and lists exactly the open upvalues, however frames are left:
\* both searches may stop at the first smaller register.
THEOREM OpenListAlwaysSorted == Spec => []OpenListSorted
<1>1. ListInv => OpenListSorted
  BY DEF ListInv
<1> QED
  BY <1>1, ListAlways, PTL

----------------------------------------------------------------------------
(* Open upvalues alias live frames.                                         *)

\* The second and third conjunct of FrameInv after the upvalues above r were
\* closed and the variables above r forgotten.
LEMMA LeaveFrame ==
    ASSUME FrameInv, NEW r \in Nat, NEW rf \in [Reg -> Val], CloseUpvalues(r + 1, rf),
           Unbind(r), r <= W * depth', W * depth' \in Nat
    PROVE  /\ DOMAIN upvals' = DOMAIN upvals
           /\ \A u \in DOMAIN upvals : u \in bound' <=> upvals'[u].reg # 0
           /\ \A u \in DOMAIN upvals : upvals'[u].reg <= W * depth'
           /\ \A u \in DOMAIN upvals :
                upvals'[u] = IF upvals[u].reg > r
                             THEN [reg |-> 0, closed |-> rf[upvals[u].reg]]
                             ELSE upvals[u]
<1>1. ListInv
  BY DEF FrameInv
<1>2. r + 1 \in Nat \ {0}
  OBVIOUS
<1>3. /\ upvals' \in Seq(Upval) /\ Len(upvals') = Len(upvals)
      /\ \A u \in DOMAIN upvals :
           upvals'[u] = IF upvals[u].reg >= r + 1
                        THEN [reg |-> 0, closed |-> rf[upvals[u].reg]]
                        ELSE upvals[u]
  BY <1>1, <1>2, CloseFacts
<1>4. DOMAIN upvals' = DOMAIN upvals
  BY <1>1, <1>3, LenProperties, ListFacts
<1>5. \A u \in DOMAIN upvals : upvals[u].reg \in Nat
  BY <1>1, ListFacts
<1>6. ASSUME NEW u \in DOMAIN upvals
      PROVE  upvals'[u] = IF upvals[u].reg > r
                          THEN [reg |-> 0, closed |-> rf[upvals[u].reg]]
                          ELSE upvals[u]
  <2>1. upvals[u].reg >= r + 1 <=> upvals[u].reg > r
    BY <1>5
  <2> QED
    BY <1>3, <2>1
<1>7. ASSUME NEW u \in DOMAIN upvals
      PROVE  (u \in bound' <=> upvals'[u].reg # 0) /\ upvals'[u].reg <= W * depth'
  <2>1. u \in bound' <=> u \in bound /\ upvals[u].reg <= r
    BY DEF Unbind
  <2>2. u \in bound <=> upvals[u].reg # 0
    BY DEF FrameInv
  <2>3. CASE upvals[u].reg > r
    <3>1. upvals'[u].reg = 0
      <4>1. upvals'[u] = [reg |-> 0, closed |-> rf[upvals[u].reg]]
        BY <1>6, <2>3
      <4> QED
        BY <4>1
    <3>2. ~(upvals[u].reg <= r)
      BY <1>5, <2>3
    <3> QED
      BY <2>1, <3>1, <3>2
  <2>4. CASE ~(upvals[u].reg > r)
    <3>1. upvals'[u] = upvals[u]
      BY <1>6, <2>4
    <3>2. upvals[u].reg <= r
      BY <1>5, <2>4
    <3> DEFINE x == upvals[u].reg
    <3>3. x \in Nat /\ x <= r
      BY <1>5, <3>2
    <3> HIDE DEF x
    <3>4. x <= W * depth'
      BY <3>3
    <3>5. upvals'[u].reg = x
      BY <3>1 DEF x
    <3> QED
      BY <2>1, <2>2, <3>2, <3>4, <3>5 DEF x
  <2> QED
    BY <2>3, <2>4
<1> QED
  BY <1>4, <1>6, <1>7

\* Steps that leave the upvalues alone and drop no frame.
LEMMA SameFrame ==
    ASSUME FrameInv, ListInv', UNCHANGED <<upvals, bound>>, W * depth <= W * depth',
           W * depth \in Nat, W * depth' \in Nat
    PROVE  FrameInv'
<1>1. ASSUME NEW u \in DOMAIN upvals PROVE upvals[u].reg <= W * depth'
  <2> DEFINE x == upvals[u].reg
  <2>1. x \in Nat /\ x <= W * depth
    BY ListFacts DEF FrameInv
  <2> HIDE DEF x
  <2>2. x <= W * depth'
    BY <2>1
  <2> QED
    BY <2>2 DEF x
<1> QED
  BY <1>1 DEF FrameInv

\* Frames have been left in ways that keep FrameInv, or StorageInv.
Closing == left \subseteq {"tail", "unwind"}
Returning == left = {}

\* The inductive invariants of the two conditional properties.
ClosingInv == ListInv /\ (Closing => FrameInv)
ReturningInv == ListInv /\ (Returning => StorageInv)

\* No step forgets a way in which frames were left.
LEMMA LeftGrows ==
    ASSUME [Next]_vars
    PROVE  left \subseteq left' /\ (Closing' => Closing) /\ (Returning' => Returning)
<1>1. left \subseteq left'
  <2>1. CASE Push \/ SetLocal \/ Capture \/ SetUpval \/ Return \/ UNCHANGED vars
    BY <2>1 DEF Push, SetLocal, Capture, SetUpval, Return, vars
  <2>2. CASE TailCall \/ Unwind \/ Swallow \/ Abort
    BY <2>2 DEF TailCall, Unwind, Swallow, Abort, Leave
  <2> QED
    BY <2>1, <2>2 DEF Next
<1> QED
  BY <1>1 DEF Closing, Returning

\* A step of RETURN, TAIL_CALL or the unwinding closes the upvalues above some
\* register r that later frames start above.
LEMMA ClosingSteps ==
    ASSUME FrameInv, Return \/ TailCall \/ Unwind
    PROVE  \E r \in Nat, rf \in [Reg -> Val] :
             CloseUpvalues(r + 1, rf) /\ Unbind(r) /\ r <= W * depth' /\ W * depth' \in Nat
<1>1. ListInv /\ depth \in 0..MaxDepth /\ MaxDepth \in Nat /\ regs \in [Reg -> Val]
  BY ParamAssumption DEF FrameInv, ListInv, TypeOK
<1>2. CASE Return
  <2>1. depth \in 1..MaxDepth /\ depth' = depth - 1 /\ depth - 1 \in Nat /\ (depth - 1) + 1 = depth
    BY <1>1, <1>2 DEF Return
  <2>2. Base((depth - 1) + 1) = W * (depth - 1) /\ W * (depth - 1) \in Nat
    BY <2>1, BaseIsTop
  <2>3. Base(depth) = W * depth' /\ W * depth' \in Nat
    BY <2>1, <2>2
  <2>4. CloseUpvalues(Base(depth) + 1, regs) /\ Unbind(Base(depth))
    BY <1>2 DEF Return
  <2>5. Base(depth) <= W * depth' /\ Base(depth) \in Nat
    BY <2>3
  <2> QED
    BY <1>1, <2>3, <2>4, <2>5
<1>3. CASE TailCall
  <2>1. depth \in 1..MaxDepth /\ depth' = depth
    BY <1>1, <1>3 DEF TailCall
  <2>2. Base(depth) \in Nat /\ Base(depth) + W = W * depth /\ W \in Nat /\ W * depth \in Nat
    BY <2>1, WindowBounds
  <2>3. Base(depth) <= W * depth
    BY <2>2
  <2>4. PICK v \in Value : regs' = [Cleared(Window(depth)) EXCEPT ![Base(depth) + 1] = v]
    BY <1>3 DEF TailCall
  <2>5. regs' \in [Reg -> Val]
    BY <1>1, <2>4, ClearedType DEF Val
  <2>6. CloseUpvalues(Base(depth) + 1, regs') /\ Unbind(Base(depth))
    BY <1>3 DEF TailCall
  <2>7. W * depth' = W * depth
    BY <2>1
  <2> QED
    BY <2>2, <2>3, <2>5, <2>6, <2>7
<1>4. CASE Unwind
  <2>1. PICK d \in 1..depth :
           /\ depth' = d
           /\ regs' = Cleared(UNION {Window(e) : e \in (d + 1)..depth})
           /\ CloseUpvalues(Base(d + 1) + 1, regs')
           /\ Unbind(Base(d + 1))
    BY <1>4 DEF Unwind
  <2>2. d \in Nat
    BY <1>1
  <2>3. Base(d + 1) = W * depth' /\ W * depth' \in Nat
    BY <2>1, <2>2, BaseIsTop
  <2>4. regs' \in [Reg -> Val]
    BY <1>1, <2>1, ClearedType
  <2>5. Base(d + 1) <= W * depth' /\ Base(d + 1) \in Nat
    BY <2>3
  <2> QED
    BY <2>1, <2>3, <2>4, <2>5
<1> QED
  BY <1>2, <1>3, <1>4

\* CLOSURE: what it does to the open upvalues.
LEMMA CaptureFrame ==
    ASSUME FrameInv, Capture
    PROVE  /\ \A u \in DOMAIN upvals : u \in DOMAIN upvals' /\ upvals'[u] = upvals[u]
           /\ \A u \in DOMAIN upvals' :
                (u \in bound' <=> upvals'[u].reg # 0) /\ upvals'[u].reg <= W * depth'
           /\ SharedStorage => SharedStorage'
<1>1. ListInv
  BY DEF FrameInv
<1>2. PICK r \in Window(depth) :
        /\ depth \in 1..MaxDepth /\ r \in Reg
        /\ \/ \E u \in DOMAIN upvals :
                /\ upvals[u].reg = r
                /\ bound' = bound \cup {u}
                /\ cell' = IF u \in bound THEN cell ELSE [cell EXCEPT ![u] = regs[r]]
                /\ UNCHANGED <<depth, regs, upvals, open>>
           \/ /\ \E n \in 0..Len(open) : Insert(r, n)
              /\ cell' = Append(cell, regs[r])
              /\ bound' = bound \cup {Len(upvals) + 1}
              /\ UNCHANGED <<depth, regs>>
  BY <1>1, CaptureCases
<1>3. r \in Nat /\ r # 0 /\ r <= W * depth
  BY <1>2, WindowBounds, ParamAssumption DEF Reg
<1>4. ASSUME NEW w \in DOMAIN upvals, upvals[w].reg = r,
             bound' = bound \cup {w},
             cell' = IF w \in bound THEN cell ELSE [cell EXCEPT ![w] = regs[r]],
             UNCHANGED <<depth, regs, upvals, open>>
      PROVE  /\ \A u \in DOMAIN upvals : u \in DOMAIN upvals' /\ upvals'[u] = upvals[u]
             /\ \A u \in DOMAIN upvals' :
                  (u \in bound' <=> upvals'[u].reg # 0) /\ upvals'[u].reg <= W * depth'
             /\ SharedStorage => SharedStorage'
  <2>1. w \in bound
    BY <1>3, <1>4 DEF FrameInv
  <2>2. bound' = bound /\ cell' = cell
    BY <1>4, <2>1
  <2>3. SharedStorage => SharedStorage'
    BY <1>4, <2>2 DEF SharedStorage, Read
  <2> QED
    BY <1>4, <2>2, <2>3 DEF FrameInv
<1>5. ASSUME NEW n \in 0..Len(open), Insert(r, n),
             cell' = Append(cell, regs[r]),
             bound' = bound \cup {Len(upvals) + 1},
             UNCHANGED <<depth, regs>>
      PROVE  /\ \A u \in DOMAIN upvals : u \in DOMAIN upvals' /\ upvals'[u] = upvals[u]
             /\ \A u \in DOMAIN upvals' :
                  (u \in bound' <=> upvals'[u].reg # 0) /\ upvals'[u].reg <= W * depth'
             /\ SharedStorage => SharedStorage'
  <2>1. PICK N : N = Len(upvals) + 1
    OBVIOUS
  <2>2. Len(upvals) \in Nat /\ DOMAIN upvals = 1..Len(upvals)
    BY <1>1, ListFacts
  <2>3. /\ upvals' \in Seq(Upval) /\ Len(upvals') = N
        /\ \A u \in 1..Len(upvals) : upvals'[u] = upvals[u]
        /\ upvals'[N] = [reg |-> r, closed |-> None]
    BY <1>1, <1>2, <1>5, <2>1, InsertFacts
  <2>4. DOMAIN upvals' = 1..N
    BY <2>3, LenProperties
  <2>5. \A u \in 1..N : u \in 1..Len(upvals) \/ u = N
    BY <2>1, <2>2
  <2>6. \A u \in DOMAIN upvals : u \in DOMAIN upvals' /\ upvals'[u] = upvals[u] /\ u # N
    BY <2>1, <2>2, <2>3, <2>4
  <2>7. upvals'[N].reg = r
    BY <2>3
  <2>8. ASSUME NEW u \in DOMAIN upvals'
        PROVE  (u \in bound' <=> upvals'[u].reg # 0) /\ upvals'[u].reg <= W * depth'
    <3>1. CASE u = N
      BY <1>3, <1>5, <2>1, <2>7, <3>1
    <3>2. CASE u \in DOMAIN upvals
      <4>1. upvals'[u] = upvals[u] /\ u # N
        BY <2>6, <3>2
      <4>2. u \in bound' <=> u \in bound
        BY <1>5, <2>1, <4>1
      <4> QED
        BY <1>5, <3>2, <4>1, <4>2 DEF FrameInv
    <3> QED
      BY <2>2, <2>4, <2>5, <3>1, <3>2
  <2>9. ASSUME SharedStorage, NEW u \in DOMAIN upvals'
        PROVE  Read(u)' = cell'[u]
    <3>1. cell \in Seq(Val) /\ Len(cell) = Len(upvals) /\ regs[r] \in Val
      BY <1>1, <1>2, ListFacts DEF ListInv, TypeOK
    <3>2. cell'[N] = regs[r] /\ \A k \in 1..Len(upvals) : cell'[k] = cell[k]
      BY <1>5, <2>1, <3>1, AppendProperties
    <3>3. CASE u = N
      <4>1. Read(u)' = regs'[r]
        BY <1>3, <2>7, <3>3 DEF Read
      <4> QED
        BY <1>5, <3>2, <3>3, <4>1
    <3>4. CASE u \in DOMAIN upvals
      <4>1. upvals'[u] = upvals[u] /\ cell'[u] = cell[u]
        BY <2>2, <2>6, <3>2, <3>4
      <4>2. Read(u)' = Read(u)
        BY <1>5, <4>1 DEF Read
      <4> QED
        BY <2>9, <3>4, <4>1, <4>2 DEF SharedStorage
    <3> QED
      BY <2>2, <2>4, <2>5, <3>3, <3>4
  <2>10. SharedStorage => SharedStorage'
    BY <2>9 DEF SharedStorage
  <2> QED
    BY <2>6, <2>8, <2>10
<1> QED
  BY <1>2, <1>4, <1>5

\* Frame bounds are monotone in the depth.
LEMMA DepthMonotone ==
    ASSUME NEW d \in Nat
    PROVE  W * d \in Nat /\ W * (d + 1) \in Nat /\ W * d <= W * (d + 1)
<1>1. W \in Nat
  BY ParamAssumption
<1>2. W * d \in Nat /\ W * (d + 1) = W * d + W
  BY <1>1
<1> QED
  BY <1>1, <1>2

\* SET_UPVAL writes either the register or the upvalue's own storage, and
\* leaves every upvalue's register alone.
LEMMA SetUpvalFacts ==
    ASSUME ListInv, SetUpval
    PROVE  \E u \in DOMAIN upvals, v \in Value :
             /\ DOMAIN upvals' = DOMAIN upvals
             /\ UNCHANGED <<depth, open, bound>>
             /\ \A w \in DOMAIN upvals : upvals'[w].reg = upvals[w].reg
             /\ cell' = [cell EXCEPT ![u] = v]
             /\ \/ /\ upvals[u].reg = 0
                   /\ regs' = regs
                   /\ upvals'[u].closed = v
                   /\ \A w \in DOMAIN upvals \ {u} : upvals'[w] = upvals[w]
                \/ /\ upvals[u].reg \in Reg
                   /\ regs' = [regs EXCEPT ![upvals[u].reg] = v]
                   /\ upvals' = upvals
<1>1. PICK u \in DOMAIN upvals, v \in Value :
         /\ cell' = [cell EXCEPT ![u] = v]
         /\ IF upvals[u].reg = 0
            THEN upvals' = [upvals EXCEPT ![u].closed = v] /\ UNCHANGED regs
            ELSE regs' = [regs EXCEPT ![upvals[u].reg] = v] /\ UNCHANGED upvals
  BY DEF SetUpval
<1>2. UNCHANGED <<depth, open, bound>>
  BY DEF SetUpval
<1>3. \A w \in DOMAIN upvals : upvals[w] \in Upval /\ upvals[w].reg \in Reg \cup {0}
  BY ListFacts
<1>4. CASE upvals[u].reg = 0
  <2>1. upvals' = [upvals EXCEPT ![u] = [@ EXCEPT !.closed = v]] /\ regs' = regs
    BY <1>1, <1>4
  <2>2. DOMAIN upvals' = DOMAIN upvals
    BY <2>1
  <2>3. \A w \in DOMAIN upvals \ {u} : upvals'[w] = upvals[w]
    BY <2>1
  <2>4. upvals'[u] = [upvals[u] EXCEPT !.closed = v]
    BY <2>1
  <2>5. upvals'[u].reg = upvals[u].reg /\ upvals'[u].closed = v
    <3>1. upvals[u] \in [reg : Reg \cup {0}, closed : Val]
      BY <1>3 DEF Upval
    <3>2. /\ [upvals[u] EXCEPT !.closed = v].reg = upvals[u].reg
          /\ [upvals[u] EXCEPT !.closed = v].closed = v
      BY <3>1
    <3> QED
      BY <2>4, <3>2
  <2> QED
    BY <1>1, <1>2, <1>4, <2>1, <2>2, <2>3, <2>5
<1>5. CASE upvals[u].reg # 0
  BY <1>1, <1>2, <1>3, <1>5
<1> QED
  BY <1>4, <1>5

\* Every step that is still Closing keeps FrameInv.
LEMMA FrameStep == Closing' /\ FrameInv /\ [Next]_vars => FrameInv'
<1> SUFFICES ASSUME Closing', FrameInv, [Next]_vars PROVE FrameInv'
  OBVIOUS
<1>1. ListInv /\ ListInv' /\ depth \in Nat /\ depth' \in Nat
  <2>1. ListInv
    BY DEF FrameInv
  <2>2. ListInv'
    BY <2>1, ListStep
  <2> QED
    BY <2>1, <2>2, ParamAssumption DEF ListInv, TypeOK
<1>2. CASE Push
  <2>1. depth' = depth + 1
    BY <1>2 DEF Push
  <2>2. W * depth \in Nat /\ W * depth' \in Nat /\ W * depth <= W * depth'
    BY <1>1, <2>1, DepthMonotone
  <2> QED
    BY <1>1, <1>2, <2>2, SameFrame DEF Push
<1>3. CASE SetLocal \/ UNCHANGED vars
  <2>1. UNCHANGED <<depth, upvals, bound>>
    BY <1>3 DEF SetLocal, vars
  <2>2. W * depth \in Nat
    BY <1>1, DepthMonotone
  <2> QED
    BY <1>1, <2>1, <2>2, SameFrame
<1>4. CASE Capture
  BY <1>1, <1>4, CaptureFrame DEF FrameInv
<1>5. CASE SetUpval
  <2>1. /\ DOMAIN upvals' = DOMAIN upvals
        /\ UNCHANGED <<depth, open, bound>>
        /\ \A w \in DOMAIN upvals : upvals'[w].reg = upvals[w].reg
    BY <1>1, <1>5, SetUpvalFacts
  <2> QED
    BY <1>1, <2>1 DEF FrameInv
<1>6. CASE Return \/ TailCall \/ Unwind
  <2>1. PICK r \in Nat, rf \in [Reg -> Val] :
          CloseUpvalues(r + 1, rf) /\ Unbind(r) /\ r <= W * depth' /\ W * depth' \in Nat
    BY <1>6, ClosingSteps
  <2>2. /\ DOMAIN upvals' = DOMAIN upvals
        /\ \A u \in DOMAIN upvals : u \in bound' <=> upvals'[u].reg # 0
        /\ \A u \in DOMAIN upvals : upvals'[u].reg <= W * depth'
    BY <2>1, LeaveFrame
  <2> QED
    BY <1>1, <2>2 DEF FrameInv
<1>7. CASE Swallow \/ Abort
  BY <1>7 DEF Closing, Swallow, Abort, Leave
<1> QED
  BY <1>2, <1>3, <1>4, <1>5, <1>6, <1>7 DEF Next

\* Initially there is no upvalue.
LEMMA InitStorage == Init => StorageInv
<1> SUFFICES ASSUME Init PROVE StorageInv
  OBVIOUS
<1>1. ListInv
  BY InitList
<1>2. DOMAIN upvals = {}
  BY <1>1, ListFacts, EmptySeq DEF Init
<1> QED
  BY <1>1, <1>2 DEF StorageInv, FrameInv, SharedStorage

\* An open upvalue never aliases a register above the live frames, which a
\* later call would reuse: RETURN, TAIL_CALL and handleExceptionUnwind close
\* every upvalue of the frames they drop.
THEOREM OpenUpvaluesInLiveFrames == Spec => []OpenInLiveFrameWithin
<1>1. Init => ClosingInv
  BY InitList, InitStorage DEF ClosingInv, StorageInv
<1>2. ClosingInv /\ [Next]_vars => ClosingInv'
  BY ListStep, FrameStep, LeftGrows DEF ClosingInv
<1>3. ClosingInv => OpenInLiveFrameWithin
  <2> SUFFICES ASSUME FrameInv PROVE OpenInLiveFrame
    BY DEF ClosingInv, Closing, OpenInLiveFrameWithin
  <2>1. \A i \in 1..Len(open) : open[i] \in DOMAIN upvals
    BY ListFacts DEF FrameInv
  <2> QED
    BY <2>1 DEF FrameInv, OpenInLiveFrame
<1> QED
  BY <1>1, <1>2, <1>3, PTL DEF Spec

----------------------------------------------------------------------------
(* Captured variables are one storage cell while frames return.             *)

\* Every step of a program whose frames all return keeps SharedStorage.
LEMMA StorageStep == Returning' /\ StorageInv /\ [Next]_vars => StorageInv'
<1> SUFFICES ASSUME Returning', StorageInv, [Next]_vars PROVE StorageInv'
  OBVIOUS
<1>1. FrameInv /\ FrameInv' /\ ListInv /\ SharedStorage
  BY FrameStep DEF Closing, Returning, StorageInv, FrameInv
<1>2. /\ depth \in 0..MaxDepth /\ MaxDepth \in Nat /\ regs \in [Reg -> Val]
      /\ \A u \in DOMAIN upvals : upvals[u].reg \in Reg \cup {0} /\ upvals[u].reg \in Nat
  BY <1>1, ParamAssumption, ListFacts DEF ListInv, TypeOK
<1>3. /\ \A u \in DOMAIN upvals : u \in bound <=> upvals[u].reg # 0
      /\ \A u \in DOMAIN upvals : upvals[u].reg <= W * depth
  BY <1>1 DEF FrameInv
<1>4. \A u \in DOMAIN upvals : Read(u) = cell[u]
  BY <1>1 DEF SharedStorage
<1>5. DOMAIN cell = DOMAIN upvals
  BY <1>1, ListFacts
<1>6. ASSUME UNCHANGED <<upvals, cell>>,
             \A u \in DOMAIN upvals : upvals[u].reg # 0 => regs'[upvals[u].reg] = regs[upvals[u].reg]
      PROVE  SharedStorage'
  BY <1>4, <1>6 DEF SharedStorage, Read
<1>7. CASE Push
  <2>1. depth + 1 \in 1..MaxDepth
    BY <1>2, <1>7 DEF Push
  <2>2. PICK v \in Value :
          regs' = [Cleared(Window(depth + 1)) EXCEPT ![Base(depth + 1) + 1] = v]
    BY <1>7 DEF Push
  <2>3. /\ Base(depth + 1) + 1 \in Window(depth + 1)
        /\ \A r \in Window(depth + 1) : r > Base(depth + 1)
        /\ Window(depth + 1) \subseteq Reg
    BY <2>1, WindowBounds
  <2>4. Base(depth + 1) = W * depth /\ W * depth \in Nat
    BY <1>2, BaseIsTop
  <2>5. ASSUME NEW u \in DOMAIN upvals, upvals[u].reg # 0
        PROVE  regs'[upvals[u].reg] = regs[upvals[u].reg]
    <3> DEFINE x == upvals[u].reg
    <3>1. x \in Reg /\ x \in Nat /\ x <= W * depth
      BY <1>2, <1>3, <2>5
    <3> HIDE DEF x
    <3>2. x \notin Window(depth + 1) /\ x # Base(depth + 1) + 1
      <4>1. x \notin Window(depth + 1)
        <5>1. ~(x > W * depth)
          BY <2>4, <3>1
        <5> QED
          BY <2>3, <2>4, <5>1
      <4> QED
        BY <2>3, <4>1
    <3>3. Cleared(Window(depth + 1))[x] = regs[x]
      BY <3>1, <3>2 DEF Cleared
    <3>4. regs'[x] = Cleared(Window(depth + 1))[x]
      <4>1. DOMAIN Cleared(Window(depth + 1)) = Reg
        BY DEF Cleared
      <4> QED
        BY <2>2, <3>1, <3>2, <4>1
    <3> QED
      BY <3>3, <3>4 DEF x
  <2> QED
    BY <1>1, <1>6, <1>7, <2>5 DEF Push, StorageInv
<1>8. CASE SetLocal
  <2>1. PICK r \in Window(depth), v \in Value :
         /\ regs' = [regs EXCEPT ![r] = v]
         /\ cell' = [u \in DOMAIN cell |->
                       IF u \in bound /\ upvals[u].reg = r THEN v ELSE cell[u]]
    BY <1>8 DEF SetLocal
  <2>2. r \in Reg /\ r # 0
    <3>1. depth \in 1..MaxDepth
      BY <1>2, <1>8 DEF SetLocal
    <3> QED
      BY <3>1, WindowBounds, ParamAssumption DEF Reg
  <2>3. ASSUME NEW u \in DOMAIN upvals PROVE Read(u)' = cell'[u]
    <3>1. upvals' = upvals
      BY <1>8 DEF SetLocal
    <3>2. cell'[u] = IF u \in bound /\ upvals[u].reg = r THEN v ELSE cell[u]
      BY <1>5, <2>1
    <3>3. CASE upvals[u].reg = r
      <4>1. u \in bound
        BY <1>3, <2>2, <3>3
      <4>2. regs'[r] = v
        BY <1>2, <2>1, <2>2
      <4> QED
        BY <2>2, <3>1, <3>2, <3>3, <4>1, <4>2 DEF Read
    <3>4. CASE upvals[u].reg # r
      <4>1. upvals[u].reg # 0 => regs'[upvals[u].reg] = regs[upvals[u].reg]
        BY <1>2, <2>1, <3>4
      <4>2. Read(u)' = Read(u)
        BY <3>1, <4>1 DEF Read
      <4> QED
        BY <1>4, <3>2, <3>4, <4>2
    <3> QED
      BY <3>3, <3>4
  <2>4. SharedStorage'
    BY <1>8, <2>3 DEF SharedStorage, SetLocal
  <2> QED
    BY <1>1, <2>4 DEF StorageInv
<1>9. CASE Capture
  BY <1>1, <1>9, CaptureFrame DEF StorageInv
<1>10. CASE SetUpval
  <2>1. PICK u \in DOMAIN upvals, v \in Value :
             /\ DOMAIN upvals' = DOMAIN upvals
             /\ UNCHANGED <<depth, open, bound>>
             /\ \A w \in DOMAIN upvals : upvals'[w].reg = upvals[w].reg
             /\ cell' = [cell EXCEPT ![u] = v]
             /\ \/ /\ upvals[u].reg = 0
                   /\ regs' = regs
                   /\ upvals'[u].closed = v
                   /\ \A w \in DOMAIN upvals \ {u} : upvals'[w] = upvals[w]
                \/ /\ upvals[u].reg \in Reg
                   /\ regs' = [regs EXCEPT ![upvals[u].reg] = v]
                   /\ upvals' = upvals
    BY <1>1, <1>10, SetUpvalFacts
  <2>2. cell'[u] = v /\ \A w \in DOMAIN upvals \ {u} : cell'[w] = cell[w]
    BY <1>5, <2>1
  <2>3. ASSUME upvals[u].reg = 0, regs' = regs, upvals'[u].closed = v,
               \A w \in DOMAIN upvals \ {u} : upvals'[w] = upvals[w],
               NEW w \in DOMAIN upvals
        PROVE  Read(w)' = cell'[w]
    <3>1. CASE w = u
      <4>1. upvals'[u].reg = 0
        BY <2>1, <2>3
      <4>2. Read(u)' = v
        BY <2>3, <4>1 DEF Read
      <4> QED
        BY <2>2, <3>1, <4>2
    <3>2. CASE w # u
      <4>1. Read(w)' = Read(w) /\ cell'[w] = cell[w]
        BY <2>2, <2>3, <3>2 DEF Read
      <4> QED
        BY <1>4, <4>1
    <3> QED
      BY <3>1, <3>2
  <2>4. ASSUME upvals[u].reg \in Reg, regs' = [regs EXCEPT ![upvals[u].reg] = v],
               upvals' = upvals, NEW w \in DOMAIN upvals
        PROVE  Read(w)' = cell'[w]
    <3>1. upvals[u].reg # 0
      BY <2>4, ParamAssumption DEF Reg
    <3>2. CASE w = u
      <4>1. regs'[upvals[u].reg] = v
        BY <1>2, <2>4
      <4>2. Read(u)' = v
        BY <2>4, <3>1, <4>1 DEF Read
      <4> QED
        BY <2>2, <3>2, <4>2
    <3>3. CASE w # u
      <4>1. upvals[w].reg # upvals[u].reg
        BY <1>1, <3>1, <3>3, OneUpvalPerRegister
      <4>2. upvals[w].reg # 0 => regs'[upvals[w].reg] = regs[upvals[w].reg]
        BY <1>2, <2>4, <4>1
      <4>3. Read(w)' = Read(w) /\ cell'[w] = cell[w]
        BY <2>2, <2>4, <3>3, <4>2 DEF Read
      <4> QED
        BY <1>4, <4>3
    <3> QED
      BY <3>2, <3>3
  <2>5. SharedStorage'
    BY <2>1, <2>3, <2>4 DEF SharedStorage
  <2> QED
    BY <1>1, <2>5 DEF StorageInv
<1>11. CASE Return
  <2>1. /\ CloseUpvalues(Base(depth) + 1, regs) /\ Unbind(Base(depth))
        /\ regs' = Cleared(Window(depth)) /\ depth' = depth - 1 /\ cell' = cell
        /\ depth \in 1..MaxDepth
    BY <1>2, <1>11 DEF Return
  <2>2. Base(depth) \in Nat /\ \A r \in Window(depth) : r > Base(depth)
    BY <2>1, WindowBounds
  <2>3. Base(depth) <= W * depth' /\ W * depth' \in Nat
    <3>1. depth - 1 \in Nat /\ (depth - 1) + 1 = depth
      BY <2>1
    <3>2. Base((depth - 1) + 1) = W * (depth - 1) /\ W * (depth - 1) \in Nat
      BY <3>1, BaseIsTop
    <3>3. Base(depth) = W * depth' /\ W * depth' \in Nat
      BY <2>1, <3>1, <3>2
    <3> QED
      BY <3>3
  <2>4. /\ DOMAIN upvals' = DOMAIN upvals
        /\ \A u \in DOMAIN upvals :
             upvals'[u] = IF upvals[u].reg > Base(depth)
                          THEN [reg |-> 0, closed |-> regs[upvals[u].reg]]
                          ELSE upvals[u]
    BY <1>1, <1>2, <2>1, <2>2, <2>3, LeaveFrame
  <2>5. ASSUME NEW u \in DOMAIN upvals PROVE Read(u)' = cell'[u]
    <3>1. CASE upvals[u].reg > Base(depth)
      <4>1. upvals'[u] = [reg |-> 0, closed |-> regs[upvals[u].reg]]
        BY <2>4, <3>1
      <4>2. upvals'[u].reg = 0 /\ upvals'[u].closed = regs[upvals[u].reg]
        BY <4>1
      <4>3. upvals[u].reg # 0
        BY <1>2, <2>2, <3>1
      <4>4. Read(u)' = Read(u)
        BY <4>2, <4>3 DEF Read
      <4> QED
        BY <1>4, <2>1, <4>4
    <3>2. CASE ~(upvals[u].reg > Base(depth))
      <4>1. upvals'[u] = upvals[u]
        BY <2>4, <3>2
      <4>2. upvals[u].reg \notin Window(depth)
        BY <2>2, <3>2
      <4>3. upvals[u].reg # 0 => regs'[upvals[u].reg] = regs[upvals[u].reg]
        BY <1>2, <2>1, <4>2 DEF Cleared
      <4>4. Read(u)' = Read(u)
        BY <4>1, <4>3 DEF Read
      <4> QED
        BY <1>4, <2>1, <4>4
    <3> QED
      BY <3>1, <3>2
  <2>6. SharedStorage'
    BY <2>4, <2>5 DEF SharedStorage
  <2> QED
    BY <1>1, <2>6 DEF StorageInv
<1>12. CASE TailCall \/ Unwind \/ Swallow \/ Abort
  BY <1>12 DEF TailCall, Unwind, Swallow, Abort, Leave, Returning
<1>13. CASE UNCHANGED vars
  BY <1>1, <1>6, <1>13 DEF vars, StorageInv
<1> QED
  BY <1>7, <1>8, <1>9, <1>10, <1>11, <1>12, <1>13 DEF Next

\* Captured variables are one storage cell, shared by every closure that
\* captured them and by the function that declared them, and outlive it: in
\* every program whose frames are all left by RETURN, whatever the windows,
\* the values and the number of closures.  Under TAIL_CALL, unwinding and abort
\* it fails, and a run shows each.
THEOREM CapturedVariablesAreShared == Spec => []SharedWhileReturning
<1>1. Init => ReturningInv
  BY InitList, InitStorage DEF ReturningInv
<1>2. ReturningInv /\ [Next]_vars => ReturningInv'
  BY ListStep, StorageStep, LeftGrows DEF ReturningInv
<1>3. ReturningInv => SharedWhileReturning
  BY DEF ReturningInv, Returning, StorageInv, SharedWhileReturning
<1> QED
  BY <1>1, <1>2, <1>3, PTL DEF Spec

-----------------------------------------------------------------------------
(* The heap.                                                                 *)

GuardedContainers == Unguarded \cap Container = {}

HeapTypeOK ==
    /\ kind \in [Obj -> Kinds \cup {"free"}]
    /\ vals \in [Obj -> SUBSET Obj]
    /\ cls \in [Obj -> Obj \cup {NoObj}]
    /\ traits \in [Obj -> SUBSET Obj]
    /\ content \in [Obj -> Str \cup {NoObj}]
    /\ refCount \in [Obj -> Int]
    /\ roots \in SUBSET Obj /\ locals \in SUBSET Obj
    /\ table \in [Str -> Obj \cup {NoObj}]
    /\ finalized \in SUBSET Obj /\ queue \in SUBSET Obj
    /\ running \in Obj \cup {NoObj}
    /\ runs \in [Obj -> Nat]

(* Every pointer of a live object leads to a live one: that is more than     *)
(* NoDangling says, and what a sweep, which only looks at marks, restores.   *)
EdgesLive ==
    \A o \in Live :
        /\ vals[o] \subseteq Live
        /\ cls[o] # NoObj => cls[o] \in Live /\ kind[cls[o]] = "class"

(* What sweep() keeps by its reference count points nowhere.                 *)
LeavesPlain ==
    \A o \in Live : kind[o] \notin Container => vals[o] = {} /\ cls[o] = NoObj

HeldLive ==
    /\ roots \subseteq Live
    /\ locals \subseteq Live
    /\ \A o \in locals : kind[o] \notin Container

FinalizersHeld ==
    /\ running # NoObj => running \in roots
    /\ \A o \in queue : kind[o] = "inst"

TableSound ==
    \A s \in Str : table[s] # NoObj =>
        table[s] \in Live /\ kind[table[s]] = "str" /\ content[table[s]] = s

HeapInv == EdgesLive /\ LeavesPlain /\ HeldLive /\ FinalizersHeld /\ TableSound

(* The finalizer of an instance is called once after it has been scheduled.  *)
RunsInv ==
    \A o \in Live : kind[o] = "inst" =>
        runs[o] = IF o \in finalized /\ o \notin queue THEN 1 ELSE 0

QueueFinalized == queue \subseteq finalized

IInv == HeapTypeOK /\ HeapInv /\ RefCountExact

-----------------------------------------------------------------------------
(* Types.                                                                    *)
LEMMA NewType ==
  ASSUME HeapTypeOK, NEW o \in Obj, NEW k \in Kinds, NEW c \in Obj \cup {NoObj},
         NEW s \in Str \cup {NoObj}, New(o, k, c, s)
  PROVE  /\ kind' \in [Obj -> Kinds \cup {"free"}]
         /\ vals' \in [Obj -> SUBSET Obj]
         /\ cls' \in [Obj -> Obj \cup {NoObj}]
         /\ traits' \in [Obj -> SUBSET Obj]
         /\ content' \in [Obj -> Str \cup {NoObj}]
         /\ refCount' \in [Obj -> Int]
         /\ roots' \in SUBSET Obj /\ locals' \in SUBSET Obj
         /\ finalized' \in SUBSET Obj
         /\ runs' \in [Obj -> Nat]
BY DEF New, Receive, HeapTypeOK

LEMMA TakeType == ASSUME HeapTypeOK, NEW o \in Obj, TakeOne(o) PROVE refCount' \in [Obj -> Int]
BY DEF TakeOne, HeapTypeOK

LEMMA ReleaseType ==
  ASSUME HeapTypeOK, NEW o \in Obj, ReleaseOne(o)
  PROVE  refCount' \in [Obj -> Int] /\ kind' \in [Obj -> Kinds \cup {"free"}]
BY DEF ReleaseOne, DropRefs, HeapTypeOK

LEMMA ReachedExist == Accessible \subseteq Obj /\ \A S : Marked(S) \subseteq Obj
BY DEF Accessible, Marked

LEMMA TypeInit == HeapInit => HeapTypeOK
BY DEF HeapInit, HeapTypeOK

LEMMA TypeCollect == HeapTypeOK /\ Collect => HeapTypeOK'
<1> SUFFICES ASSUME HeapTypeOK, Collect PROVE HeapTypeOK'
  OBVIOUS
<1> DEFINE q == ToFinalize(Marked(roots))
           m == Marked(roots \cup q)
           G == Garbage(m)
<1>1. q \subseteq Obj /\ G \subseteq Obj
  BY DEF ToFinalize, Garbage, Live
<1>2. queue' \in SUBSET Obj /\ finalized' \in SUBSET Obj
  BY <1>1 DEF Collect, HeapTypeOK
<1>3. table' \in [Str -> Obj \cup {NoObj}]
  BY DEF Collect, SweptTable, HeapTypeOK
<1>4. /\ kind' \in [Obj -> Kinds \cup {"free"}]
      /\ vals' \in [Obj -> SUBSET Obj] /\ traits' \in [Obj -> SUBSET Obj]
      /\ cls' \in [Obj -> Obj \cup {NoObj}] /\ content' \in [Obj -> Str \cup {NoObj}]
      /\ runs' \in [Obj -> Nat]
  BY DEF Collect, HeapTypeOK
<1>5. \A o \in Obj : FromGarbage(G, o) \in Int
  <2> SUFFICES ASSUME NEW o \in Obj PROVE FromGarbage(G, o) \in Int
    OBVIOUS
  <2>1. IsFiniteSet({g \in G : o \in vals[g]})
    BY <1>1, HeapAssumption, FS_Subset
  <2> QED BY <2>1, FS_CardinalityType DEF FromGarbage
<1>6. refCount' \in [Obj -> Int]
  <2>1. refCount' = [o \in Obj |-> IF o \in G THEN 0 ELSE refCount[o] - FromGarbage(G, o)]
    BY DEF Collect
  <2> HIDE DEF G
  <2> QED BY <1>5, <2>1 DEF HeapTypeOK
<1>7. UNCHANGED <<roots, locals, running>>
  BY DEF Collect
<1> QED BY <1>2, <1>3, <1>4, <1>6, <1>7 DEF HeapTypeOK

LEMMA TypeNext == HeapTypeOK /\ [HeapNext]_heapVars => HeapTypeOK'
<1> SUFFICES ASSUME HeapTypeOK, [HeapNext]_heapVars PROVE HeapTypeOK'
  OBVIOUS
<1> USE ReachedExist DEF objVars, gcVars
<1>1. CASE Allocate
  BY <1>1, NewType DEF Allocate, HeapTypeOK
<1>2. CASE NewOfClass
  BY <1>2, NewType DEF NewOfClass, HeapTypeOK
<1>3. CASE InternString
  <2>1. PICK s \in Str :
           \/ /\ table[s] = NoObj
              /\ \E o \in Obj : New(o, "str", NoObj, s) /\ table' = [table EXCEPT ![s] = o]
           \/ /\ table[s] # NoObj
              /\ TakeOne(table[s]) /\ Receive(table[s], "str")
              /\ UNCHANGED <<objVars, table, finalized, runs>>
    BY <1>3 DEF InternString
  <2>2. "str" \in Kinds /\ UNCHANGED <<queue, running>>
    BY <1>3 DEF InternString
  <2>3. ASSUME NEW o \in Obj, New(o, "str", NoObj, s), table' = [table EXCEPT ![s] = o]
        PROVE  HeapTypeOK'
    BY <2>2, <2>3, NewType DEF HeapTypeOK
  <2>4. ASSUME table[s] # NoObj, TakeOne(table[s]), Receive(table[s], "str"),
               UNCHANGED <<objVars, table, finalized, runs>>
        PROVE  HeapTypeOK'
    <3>1. table[s] \in Obj
      BY <2>4 DEF HeapTypeOK
    <3> QED BY <2>2, <2>4, <3>1, TakeType DEF HeapTypeOK, Receive
  <2> QED BY <2>1, <2>3, <2>4
<1>4. CASE AddRoot
  BY <1>4, TakeType DEF AddRoot, HeapTypeOK
<1>5. CASE DropRoot
  BY <1>5, ReleaseType DEF DropRoot, HeapTypeOK
<1>6. CASE DropLocal
  BY <1>6, ReleaseType DEF DropLocal, HeapTypeOK
<1>7. CASE Store
  BY <1>7, TakeType DEF Store, HeapTypeOK
<1>8. CASE Remove
  BY <1>8, ReleaseType DEF Remove, HeapTypeOK
<1>9. CASE ApplyTrait
  <2>1. PICK c \in Accessible, t \in Accessible :
          /\ traits' = [traits EXCEPT ![c] = @ \cup traits[t] \cup {t}]
          /\ \E S \in SUBSET (vals[t] \ vals[c]) :
               /\ vals' = [vals EXCEPT ![c] = @ \cup S]
               /\ refCount' = [o \in Obj |-> IF o \in S THEN refCount[o] + 1 ELSE refCount[o]]
               /\ \E F \in SUBSET {m \in S : kind[m] = "list" /\ cls[m] = NoObj} :
                    cls' = [o \in Obj |-> IF o \in F THEN t ELSE cls[o]]
    BY <1>9 DEF ApplyTrait
  <2>2. traits' \in [Obj -> SUBSET Obj] /\ vals' \in [Obj -> SUBSET Obj]
    BY <2>1 DEF HeapTypeOK
  <2>3. refCount' \in [Obj -> Int] /\ cls' \in [Obj -> Obj \cup {NoObj}]
    BY <2>1 DEF HeapTypeOK
  <2> QED BY <1>9, <2>2, <2>3 DEF ApplyTrait, HeapTypeOK
<1>10. CASE Collect
  BY <1>10, TypeCollect
<1>11. CASE RunFinalizer
  BY <1>11, TakeType DEF RunFinalizer, HeapTypeOK
<1>12. CASE EndFinalizer
  <2>1. running \in Obj
    BY <1>12 DEF EndFinalizer, HeapTypeOK
  <2> QED BY <1>12, <2>1, ReleaseType DEF EndFinalizer, HeapTypeOK
<1>13. CASE UNCHANGED heapVars
  BY <1>13 DEF heapVars, HeapTypeOK
<1> QED
  BY <1>1, <1>2, <1>3, <1>4, <1>5, <1>6, <1>7, <1>8, <1>9, <1>10, <1>11, <1>12, <1>13
     DEF HeapNext

(* Type correctness of the heap.                                             *)
THEOREM HeapTypeCorrect == HeapSpec => []HeapTypeOK
BY TypeInit, TypeNext, PTL DEF HeapSpec

-----------------------------------------------------------------------------
(* Counting.                                                                 *)
Holders(o) == {h \in Live : o \in vals[h]}

Held(o) ==
    Cardinality(Holders(o))
    + (IF o \in roots THEN 1 ELSE 0) + (IF o \in locals THEN 1 ELSE 0)

LEMMA ExactHeld == RefCountExact <=> \A o \in Live : refCount[o] = Held(o)
BY DEF RefCountExact, Held, Holders

LEMMA Finite == \A S \in SUBSET Obj : IsFiniteSet(S) /\ Cardinality(S) \in Nat
BY HeapAssumption, FS_Subset, FS_CardinalityType

LEMMA ReachedLive == EdgesLive /\ HeldLive => Accessible \subseteq Live
<1> SUFFICES ASSUME EdgesLive, HeldLive PROVE Accessible \subseteq Live
  OBVIOUS
<1>1. Live \in SUBSET Obj /\ roots \cup locals \subseteq Live
  BY DEF Live, HeldLive
<1>2. Closed(Live)
  BY DEF Closed, Edges, EdgesLive
<1> QED BY <1>1, <1>2 DEF Accessible, Marked

(* One Value that held o is gone; nothing else changes but o's count, and    *)
(* plain data dies with its last Value.                                      *)
LEMMA Released ==
  ASSUME HeapTypeOK, HeapTypeOK', HeapInv, RefCountExact,
         NEW o \in Live, ReleaseOne(o),
         UNCHANGED <<cls, content, table, queue>>,
         running' # NoObj => running' \in roots',
         roots' \subseteq roots, locals' \subseteq locals,
         \A h \in Obj : vals'[h] \subseteq vals[h],
         \A x \in Live \ {o} : /\ {h \in Live : x \in vals'[h]} = Holders(x)
                               /\ x \in roots' <=> x \in roots
                               /\ x \in locals' <=> x \in locals,
         Held(o) = 1 + Cardinality({h \in Live : o \in vals'[h]})
                   + (IF o \in roots' THEN 1 ELSE 0) + (IF o \in locals' THEN 1 ELSE 0)
  PROVE  HeapInv' /\ RefCountExact'
<1> DEFINE S == {h \in Live : o \in vals'[h]}
           last == refCount[o] = 1 /\ kind[o] = "num"
<1>1. S \in SUBSET Obj /\ Cardinality(S) \in Nat /\ refCount[o] = Held(o)
  BY Finite, ExactHeld DEF Live
<1>2. last => S = {} /\ o \notin roots' /\ o \notin locals' /\ vals[o] = {}
  <2> SUFFICES ASSUME last PROVE S = {} /\ o \notin roots' /\ o \notin locals' /\ vals[o] = {}
    OBVIOUS
  <2>1. Cardinality(S) = 0 /\ o \notin roots' /\ o \notin locals'
    BY <1>1
  <2>2. S = {}
    BY <1>1, <2>1, Finite, FS_EmptySet
  <2>3. vals[o] = {}
    BY DEF HeapInv, LeavesPlain, Container
  <2> QED BY <2>1, <2>2, <2>3
<1>3. kind' = IF last THEN [kind EXCEPT ![o] = "free"] ELSE kind
  BY DEF ReleaseOne
<1>4. /\ last => Live' = Live \ {o}
      /\ ~last => Live' = Live
      /\ \A x \in Live' : kind'[x] = kind[x] /\ x \in Live
  BY <1>3 DEF Live, HeapTypeOK
<1>5. ASSUME NEW x \in Live' PROVE o \in vals'[x] => ~last
  BY <1>2, <1>4, <1>5
<1>6. EdgesLive'
  <2> SUFFICES ASSUME NEW x \in Live'
               PROVE  /\ vals'[x] \subseteq Live'
                      /\ cls'[x] # NoObj => cls'[x] \in Live' /\ kind'[cls'[x]] = "class"
    BY DEF EdgesLive
  <2>1. vals[x] \subseteq Live /\ vals'[x] \subseteq vals[x]
    BY <1>4 DEF HeapInv, EdgesLive, Live
  <2>2. vals'[x] \subseteq Live'
    BY <1>4, <1>5, <2>1
  <2>3. ASSUME cls'[x] # NoObj PROVE cls'[x] \in Live' /\ kind'[cls'[x]] = "class"
    <3>1. cls[x] \in Live /\ kind[cls[x]] = "class" /\ cls'[x] = cls[x]
      BY <1>4, <2>3 DEF HeapInv, EdgesLive
    <3>2. last => cls[x] # o
      BY <3>1
    <3> QED BY <1>4, <3>1, <3>2
  <2> QED BY <2>2, <2>3
<1>7. LeavesPlain'
  BY <1>4 DEF HeapInv, LeavesPlain, Live
<1>8. HeldLive'
  BY <1>2, <1>4 DEF HeapInv, HeldLive
<1>9. TableSound'
  <2> SUFFICES ASSUME NEW s \in Str, table[s] # NoObj
               PROVE  table[s] \in Live' /\ kind'[table[s]] = "str" /\ content[table[s]] = s
    BY DEF TableSound
  <2>1. table[s] \in Live /\ kind[table[s]] = "str" /\ content[table[s]] = s
    BY DEF HeapInv, TableSound
  <2>2. last => table[s] # o
    BY <2>1
  <2> QED BY <1>4, <2>1, <2>2
<1>10. FinalizersHeld'
  BY <1>3 DEF HeapInv, FinalizersHeld, HeapTypeOK
<1>11. ASSUME NEW x \in Live' PROVE refCount'[x] = Held(x)'
  <2>1. Holders(x)' = {h \in Live : x \in vals'[h]}
    BY <1>2, <1>4 DEF Holders, Live
  <2>2. x \in Live /\ x \in Obj /\ refCount' = DropRefs({o})
    BY <1>4 DEF ReleaseOne, Live
  <2>3. CASE x # o
    <3>1. refCount'[x] = refCount[x] /\ refCount[x] = Held(x)
      BY <2>2, <2>3, ExactHeld DEF DropRefs
    <3>2. Holders(x)' = Holders(x) /\ (x \in roots' <=> x \in roots)
          /\ (x \in locals' <=> x \in locals)
      BY <2>1, <2>2, <2>3
    <3>3. Held(x)' = Held(x)
      BY <3>2 DEF Held
    <3> QED BY <2>2, <3>1, <3>3
  <2>4. CASE x = o
    <3>1. refCount'[x] = refCount[o] - 1
      BY <2>2, <2>4 DEF DropRefs
    <3> QED BY <1>1, <2>1, <2>4, <3>1 DEF Held
  <2> QED BY <2>3, <2>4
<1>12. RefCountExact'
  BY <1>11 DEF RefCountExact, Held, Holders
<1> QED BY <1>6, <1>7, <1>8, <1>9, <1>10, <1>12 DEF HeapInv

LEMMA HoldersFinite == \A o : Holders(o) \in SUBSET Obj /\ Cardinality(Holders(o)) \in Nat
BY Finite DEF Holders, Live

LEMMA DropRootHeap ==
  HeapTypeOK /\ HeapTypeOK' /\ HeapInv /\ RefCountExact /\ DropRoot
  => HeapInv' /\ RefCountExact'
<1> SUFFICES ASSUME HeapTypeOK, HeapTypeOK', HeapInv, RefCountExact,
                    NEW o \in roots \ {running}, roots' = roots \ {o}, ReleaseOne(o),
                    UNCHANGED <<vals, cls, traits, content, locals, gcVars>>
             PROVE  HeapInv' /\ RefCountExact'
  BY DEF DropRoot
<1>1. o \in Live
  BY DEF HeapInv, HeldLive
<1>2. \A x : {h \in Live : x \in vals'[h]} = Holders(x)
  BY DEF Holders
<1>3. Held(o) = 1 + Cardinality({h \in Live : o \in vals'[h]})
                + (IF o \in roots' THEN 1 ELSE 0) + (IF o \in locals' THEN 1 ELSE 0)
  <2> DEFINE S == {h \in Live : o \in vals'[h]}
  <2>1. S = Holders(o)
    BY <1>2
  <2> HIDE DEF S
  <2>2. Held(o) = 1 + Cardinality(S) + (IF o \in roots' THEN 1 ELSE 0)
                  + (IF o \in locals' THEN 1 ELSE 0)
    BY <2>1, HoldersFinite DEF Held
  <2> QED BY <2>2 DEF S
<1>4. running' # NoObj => running' \in roots'
  BY DEF gcVars, HeapInv, FinalizersHeld
<1>5. UNCHANGED <<cls, content, table, queue>> /\ roots' \subseteq roots /\ locals' \subseteq locals
  BY DEF gcVars
<1>6. \A h \in Obj : vals'[h] \subseteq vals[h]
  OBVIOUS
<1>7. \A x \in Live \ {o} : /\ {h \in Live : x \in vals'[h]} = Holders(x)
                            /\ x \in roots' <=> x \in roots
                            /\ x \in locals' <=> x \in locals
  BY <1>2
<1> QED BY <1>1, <1>3, <1>4, <1>5, <1>6, <1>7, Released

LEMMA DropLocalHeap ==
  HeapTypeOK /\ HeapTypeOK' /\ HeapInv /\ RefCountExact /\ DropLocal
  => HeapInv' /\ RefCountExact'
<1> SUFFICES ASSUME HeapTypeOK, HeapTypeOK', HeapInv, RefCountExact,
                    NEW o \in locals, locals' = locals \ {o}, ReleaseOne(o),
                    UNCHANGED <<vals, cls, traits, content, roots, gcVars>>
             PROVE  HeapInv' /\ RefCountExact'
  BY DEF DropLocal
<1>1. o \in Live
  BY DEF HeapInv, HeldLive
<1>2. \A x : {h \in Live : x \in vals'[h]} = Holders(x)
  BY DEF Holders
<1>3. Held(o) = 1 + Cardinality({h \in Live : o \in vals'[h]})
                + (IF o \in roots' THEN 1 ELSE 0) + (IF o \in locals' THEN 1 ELSE 0)
  <2> DEFINE S == {h \in Live : o \in vals'[h]}
  <2>1. S = Holders(o)
    BY <1>2
  <2> HIDE DEF S
  <2>2. Held(o) = 1 + Cardinality(S) + (IF o \in roots' THEN 1 ELSE 0)
                  + (IF o \in locals' THEN 1 ELSE 0)
    BY <2>1, HoldersFinite DEF Held
  <2> QED BY <2>2 DEF S
<1>4. running' # NoObj => running' \in roots'
  BY DEF gcVars, HeapInv, FinalizersHeld
<1>5. UNCHANGED <<cls, content, table, queue>> /\ roots' \subseteq roots /\ locals' \subseteq locals
  BY DEF gcVars
<1>6. \A h \in Obj : vals'[h] \subseteq vals[h]
  OBVIOUS
<1>7. \A x \in Live \ {o} : /\ {h \in Live : x \in vals'[h]} = Holders(x)
                            /\ x \in roots' <=> x \in roots
                            /\ x \in locals' <=> x \in locals
  BY <1>2
<1> QED BY <1>1, <1>3, <1>4, <1>5, <1>6, <1>7, Released

LEMMA EndFinalizerHeap ==
  HeapTypeOK /\ HeapTypeOK' /\ HeapInv /\ RefCountExact /\ EndFinalizer
  => HeapInv' /\ RefCountExact'
<1> SUFFICES ASSUME HeapTypeOK, HeapTypeOK', HeapInv, RefCountExact, EndFinalizer
             PROVE  HeapInv' /\ RefCountExact'
  OBVIOUS
<1>1. running # NoObj /\ running' = NoObj /\ running \in roots
      /\ UNCHANGED <<vals, cls, traits, content, locals, table, finalized, queue, runs>>
  BY DEF EndFinalizer, HeapInv, FinalizersHeld
<1>2. CASE roots' = roots \ {running} /\ ReleaseOne(running)
  <2>1. running \in Live
    BY <1>1 DEF HeapInv, HeldLive
  <2>2. \A x : {h \in Live : x \in vals'[h]} = Holders(x)
    BY <1>1 DEF Holders
  <2>3. Held(running) = 1 + Cardinality({h \in Live : running \in vals'[h]})
                        + (IF running \in roots' THEN 1 ELSE 0)
                        + (IF running \in locals' THEN 1 ELSE 0)
    <3> DEFINE S == {h \in Live : running \in vals'[h]}
    <3>1. S = Holders(running)
      BY <2>2
    <3> HIDE DEF S
    <3>2. Held(running) = 1 + Cardinality(S) + (IF running \in roots' THEN 1 ELSE 0)
                          + (IF running \in locals' THEN 1 ELSE 0)
      BY <1>1, <1>2, <3>1, HoldersFinite DEF Held
    <3> QED BY <3>2 DEF S
  <2>4. UNCHANGED <<cls, content, table, queue>> /\ roots' \subseteq roots /\ locals' \subseteq locals
    BY <1>1, <1>2
  <2>5. \A h \in Obj : vals'[h] \subseteq vals[h]
    BY <1>1
  <2>6. \A x \in Live \ {running} : /\ {h \in Live : x \in vals'[h]} = Holders(x)
                                    /\ x \in roots' <=> x \in roots
                                    /\ x \in locals' <=> x \in locals
    BY <1>1, <1>2, <2>2
  <2> QED BY <1>1, <1>2, <2>1, <2>3, <2>4, <2>5, <2>6, Released
<1>3. CASE UNCHANGED <<roots, refCount, kind>>
  BY <1>1, <1>3 DEF HeapInv, EdgesLive, LeavesPlain, HeldLive, FinalizersHeld, TableSound,
                    RefCountExact, Live
<1> QED BY <1>2, <1>3 DEF EndFinalizer

LEMMA RemoveHeap ==
  HeapTypeOK /\ HeapTypeOK' /\ HeapInv /\ RefCountExact /\ Remove
  => HeapInv' /\ RefCountExact'
<1> SUFFICES ASSUME HeapTypeOK, HeapTypeOK', HeapInv, RefCountExact,
                    NEW o \in Accessible, NEW p \in Obj, p \in vals[o],
                    vals' = [vals EXCEPT ![o] = @ \ {p}], ReleaseOne(p),
                    UNCHANGED <<cls, traits, content, roots, locals, gcVars>>
             PROVE  HeapInv' /\ RefCountExact'
  BY DEF Remove
<1>1. o \in Live /\ p \in Live /\ o \in Obj
  BY ReachedLive DEF HeapInv, EdgesLive, Live
<1>2. \A h \in Obj : vals'[h] = IF h = o THEN vals[h] \ {p} ELSE vals[h]
  BY DEF HeapTypeOK
<1>3. \A x \in Live \ {p} : {h \in Live : x \in vals'[h]} = Holders(x)
  BY <1>2 DEF Holders, Live
<1>4. {h \in Live : p \in vals'[h]} = Holders(p) \ {o} /\ o \in Holders(p)
  BY <1>1, <1>2 DEF Holders, Live
<1>5. Cardinality(Holders(p)) = 1 + Cardinality({h \in Live : p \in vals'[h]})
  <2> DEFINE S == {h \in Live : p \in vals'[h]}
  <2>1. Cardinality(Holders(p) \ {o}) = Cardinality(Holders(p)) - 1
    BY <1>4, HoldersFinite, Finite, FS_RemoveElement
  <2>2. S = Holders(p) \ {o}
    BY <1>4
  <2> HIDE DEF S
  <2>3. Cardinality(Holders(p)) = 1 + Cardinality(S)
    BY <2>1, <2>2, HoldersFinite
  <2> QED BY <2>3 DEF S
<1>6. Held(p) = 1 + Cardinality({h \in Live : p \in vals'[h]})
                + (IF p \in roots' THEN 1 ELSE 0) + (IF p \in locals' THEN 1 ELSE 0)
  <2>1. Cardinality({h \in Live : p \in vals'[h]}) \in Nat
    BY Finite DEF Live
  <2> QED BY <1>5, <2>1, HoldersFinite DEF Held
<1>7. running' # NoObj => running' \in roots'
  BY DEF gcVars, HeapInv, FinalizersHeld
<1>8. \A h \in Obj : vals'[h] \subseteq vals[h]
  BY <1>2
<1> QED BY <1>1, <1>3, <1>6, <1>7, <1>8, Released DEF gcVars

-----------------------------------------------------------------------------
(* One more Value holds each object of S.                                    *)
LEMMA Counted ==
  ASSUME HeapTypeOK, RefCountExact, NEW S,
         Live' = Live,
         refCount' = [x \in Obj |-> IF x \in S THEN refCount[x] + 1 ELSE refCount[x]],
         \A x \in Live : Held(x)' = IF x \in S THEN Held(x) + 1 ELSE Held(x)
  PROVE  RefCountExact'
<1>1. \A x \in Live : x \in Obj /\ refCount[x] = Held(x)
  BY ExactHeld DEF Live
<1>2. \A x \in Live' : refCount'[x] = Held(x)'
  BY <1>1
<1> QED BY <1>2 DEF RefCountExact, Held, Holders

LEMMA TookOne ==
  ASSUME HeapTypeOK, NEW o \in Obj, TakeOne(o)
  PROVE  refCount' = [x \in Obj |-> IF x \in {o} THEN refCount[x] + 1 ELSE refCount[x]]
BY DEF TakeOne, HeapTypeOK

(* A root or a local takes a reference.                                      *)
LEMMA RootTaken ==
  ASSUME HeapTypeOK, HeapInv, RefCountExact, NEW o \in Live, o \notin roots,
         roots' = roots \cup {o}, TakeOne(o), UNCHANGED <<kind, vals, cls, content, locals>>
  PROVE  RefCountExact'
<1>1. Live' = Live /\ o \in Obj
  BY DEF Live
<1>2. \A x : Holders(x)' = Holders(x)
  BY <1>1 DEF Holders
<1>3. ASSUME NEW x \in Live PROVE Held(x)' = IF x \in {o} THEN Held(x) + 1 ELSE Held(x)
  BY <1>2, HoldersFinite DEF Held
<1> QED BY <1>1, <1>3, TookOne, Counted

LEMMA LocalTaken ==
  ASSUME HeapTypeOK, HeapInv, RefCountExact, NEW o \in Live, o \notin locals,
         locals' = locals \cup {o}, TakeOne(o), UNCHANGED <<kind, vals, cls, content, roots>>
  PROVE  RefCountExact'
<1>1. Live' = Live /\ o \in Obj
  BY DEF Live
<1>2. \A x : Holders(x)' = Holders(x)
  BY <1>1 DEF Holders
<1>3. ASSUME NEW x \in Live PROVE Held(x)' = IF x \in {o} THEN Held(x) + 1 ELSE Held(x)
  BY <1>2, HoldersFinite DEF Held
<1> QED BY <1>1, <1>3, TookOne, Counted

LEMMA AddRootHeap ==
  HeapTypeOK /\ HeapInv /\ RefCountExact /\ AddRoot
  => HeapInv' /\ RefCountExact'
<1> SUFFICES ASSUME HeapTypeOK, HeapInv, RefCountExact,
                    NEW o \in Accessible \ roots, roots' = roots \cup {o}, TakeOne(o),
                    UNCHANGED <<objVars, locals, gcVars>>
             PROVE  HeapInv' /\ RefCountExact'
  BY DEF AddRoot
<1>1. o \in Live
  BY ReachedLive DEF HeapInv
<1>2. UNCHANGED <<kind, vals, cls, content, locals, table, queue, running>>
  BY DEF objVars, gcVars
<1>3. RefCountExact'
  BY <1>1, <1>2, RootTaken
<1>4. HeapInv'
  BY <1>1, <1>2 DEF HeapInv, EdgesLive, LeavesPlain, HeldLive, FinalizersHeld,
     TableSound, Live
<1> QED BY <1>3, <1>4

LEMMA RunFinalizerHeap ==
  HeapTypeOK /\ HeapInv /\ RefCountExact /\ RunFinalizer
  => HeapInv' /\ RefCountExact'
<1> SUFFICES ASSUME HeapTypeOK, HeapInv, RefCountExact, RunFinalizer
             PROVE  HeapInv' /\ RefCountExact'
  OBVIOUS
<1>1. PICK o \in queue : /\ queue' = queue \ {o} /\ running' = o
                         /\ IF o \in roots THEN UNCHANGED <<roots, refCount>>
                            ELSE roots' = roots \cup {o} /\ TakeOne(o)
  BY DEF RunFinalizer
<1>2. UNCHANGED <<kind, vals, cls, content, locals, table>>
  BY DEF RunFinalizer, objVars
<1>3. o \in Live
  BY DEF HeapInv, FinalizersHeld, Live, HeapTypeOK
<1>4. roots' = roots \cup {o}
  BY <1>1
<1>5. HeapInv'
  BY <1>1, <1>2, <1>3, <1>4
     DEF HeapInv, EdgesLive, LeavesPlain, HeldLive, FinalizersHeld, TableSound, Live
<1>6. RefCountExact'
  <2>1. CASE o \in roots
    BY <1>1, <1>2, <2>1 DEF RefCountExact, Live
  <2>2. CASE o \notin roots
    BY <1>1, <1>2, <1>3, <2>2, RootTaken
  <2> QED BY <2>1, <2>2
<1> QED BY <1>5, <1>6

(* A container takes a reference.                                            *)
LEMMA StoreHeap == HeapTypeOK /\ HeapInv /\ RefCountExact /\ Store => HeapInv' /\ RefCountExact'
<1> SUFFICES ASSUME HeapTypeOK, HeapInv, RefCountExact,
                    NEW o \in Accessible, NEW p \in Accessible,
                    kind[o] \in Container, p \notin vals[o],
                    vals' = [vals EXCEPT ![o] = @ \cup {p}], TakeOne(p),
                    UNCHANGED <<kind, cls, traits, content, roots, locals, gcVars>>
             PROVE  HeapInv' /\ RefCountExact'
  BY DEF Store
<1>1. o \in Live /\ p \in Live /\ Live' = Live /\ p \in Obj
  BY ReachedLive DEF HeapInv, Live
<1>2. \A h \in Live : vals'[h] = IF h = o THEN vals[h] \cup {p} ELSE vals[h]
  BY DEF HeapTypeOK, Live
<1>3. HeapInv'
  BY <1>1, <1>2
     DEF HeapInv, EdgesLive, LeavesPlain, HeldLive, FinalizersHeld, TableSound, gcVars
<1>4. \A x \in Live : x # p => Holders(x)' = Holders(x)
  BY <1>1, <1>2 DEF Holders
<1>5. Holders(p)' = Holders(p) \cup {o} /\ o \notin Holders(p)
  BY <1>1, <1>2 DEF Holders
<1>6. Cardinality(Holders(p)') = Cardinality(Holders(p)) + 1
  BY <1>5, HoldersFinite, Finite, FS_AddElement
<1>7. ASSUME NEW x \in Live PROVE Held(x)' = IF x \in {p} THEN Held(x) + 1 ELSE Held(x)
  BY <1>4, <1>6, HoldersFinite DEF Held
<1>8. RefCountExact'
  BY <1>1, <1>7, TookOne, Counted
<1> QED BY <1>3, <1>8

LEMMA ApplyTraitHeap ==
  HeapTypeOK /\ HeapInv /\ RefCountExact /\ ApplyTrait
  => HeapInv' /\ RefCountExact'
<1> SUFFICES ASSUME HeapTypeOK, HeapInv, RefCountExact, ApplyTrait
             PROVE  HeapInv' /\ RefCountExact'
  OBVIOUS
<1>1. PICK c \in Accessible, t \in Accessible :
        /\ kind[c] = "class" /\ kind[t] = "class"
        /\ \E S \in SUBSET (vals[t] \ vals[c]) :
             /\ vals' = [vals EXCEPT ![c] = @ \cup S]
             /\ refCount' = [x \in Obj |-> IF x \in S THEN refCount[x] + 1 ELSE refCount[x]]
             /\ \E F \in SUBSET {m \in S : kind[m] = "list" /\ cls[m] = NoObj} :
                  cls' = [x \in Obj |-> IF x \in F THEN t ELSE cls[x]]
  BY DEF ApplyTrait
<1>2. PICK S \in SUBSET (vals[t] \ vals[c]) :
        /\ vals' = [vals EXCEPT ![c] = @ \cup S]
        /\ refCount' = [x \in Obj |-> IF x \in S THEN refCount[x] + 1 ELSE refCount[x]]
        /\ \E F \in SUBSET {m \in S : kind[m] = "list" /\ cls[m] = NoObj} :
             cls' = [x \in Obj |-> IF x \in F THEN t ELSE cls[x]]
  BY <1>1
<1>3. PICK F \in SUBSET {m \in S : kind[m] = "list" /\ cls[m] = NoObj} :
        cls' = [x \in Obj |-> IF x \in F THEN t ELSE cls[x]]
  BY <1>2
<1>4. UNCHANGED <<kind, content, roots, locals, gcVars>>
  BY DEF ApplyTrait
<1>5. c \in Live /\ t \in Live /\ Live' = Live /\ S \subseteq Live
  BY <1>4, ReachedLive DEF HeapInv, EdgesLive, Live
<1>6. \A h \in Live : vals'[h] = IF h = c THEN vals[h] \cup S ELSE vals[h]
  BY <1>2 DEF HeapTypeOK, Live
<1>7. \A h \in Live : cls'[h] = IF h \in F THEN t ELSE cls[h]
  BY <1>3 DEF Live
<1>8. EdgesLive'
  <2> SUFFICES ASSUME NEW h \in Live
               PROVE  /\ vals'[h] \subseteq Live
                      /\ cls'[h] # NoObj => cls'[h] \in Live /\ kind[cls'[h]] = "class"
    BY <1>5, <1>4 DEF EdgesLive
  <2> QED BY <1>5, <1>6, <1>7, <1>1, <1>4 DEF HeapInv, EdgesLive
<1>9. LeavesPlain'
  BY <1>5, <1>6, <1>7, <1>1, <1>4 DEF HeapInv, LeavesPlain, Container
<1>50. HeldLive' /\ FinalizersHeld' /\ TableSound'
  BY <1>5, <1>4 DEF HeapInv, HeldLive, FinalizersHeld, TableSound, gcVars
<1>51. ASSUME NEW x \in Live PROVE Held(x)' = IF x \in S THEN Held(x) + 1 ELSE Held(x)
  <2>1. CASE x \in S
    <3>1. Holders(x)' = Holders(x) \cup {c} /\ c \notin Holders(x)
      BY <1>5, <1>6, <1>2, <2>1 DEF Holders
    <3>2. Cardinality(Holders(x)') = Cardinality(Holders(x)) + 1
      BY <3>1, HoldersFinite, Finite, FS_AddElement
    <3> QED BY <1>4, <2>1, <3>2, HoldersFinite DEF Held
  <2>2. CASE x \notin S
    <3>1. Holders(x)' = Holders(x)
      BY <1>5, <1>6, <2>2 DEF Holders
    <3> QED BY <1>4, <2>2, <3>1 DEF Held
  <2> QED BY <2>1, <2>2
<1>52. RefCountExact'
  BY <1>5, <1>51, <1>2, Counted
<1> QED BY <1>8, <1>9, <1>50, <1>52 DEF HeapInv

-----------------------------------------------------------------------------
(* A new object is held once and holds nothing.                              *)
LEMMA NewHeap ==
  ASSUME HeapTypeOK, HeapInv, RefCountExact, GuardedContainers,
         NEW o \in Obj, NEW k \in Kinds, NEW c \in Live \cup {NoObj}, NEW s,
         c # NoObj => kind[c] = "class" /\ k \in Container,
         New(o, k, c, s)
  PROVE  /\ EdgesLive' /\ LeavesPlain' /\ HeldLive' /\ RefCountExact'
         /\ o \in Live' /\ kind'[o] = k /\ content'[o] = s /\ roots \subseteq roots'
         /\ \A x \in Live : /\ x \in Live' /\ kind'[x] = kind[x]
                            /\ content'[x] = content[x]
<1>1. k # "free"
  BY HeapAssumption DEF AllKinds
<1>2. /\ o \notin Live /\ o \in Live' /\ Live' = Live \cup {o}
      /\ kind'[o] = k /\ vals'[o] = {} /\ cls'[o] = c /\ content'[o] = s /\ refCount'[o] = 1
      /\ \A x \in Live : /\ kind'[x] = kind[x] /\ vals'[x] = vals[x] /\ cls'[x] = cls[x]
                         /\ content'[x] = content[x] /\ refCount'[x] = refCount[x]
  BY <1>1 DEF New, Live, HeapTypeOK
<1>3. /\ o \notin roots /\ o \notin locals
      /\ \A h \in Live : o \notin vals[h]
  BY <1>2 DEF HeapInv, HeldLive, EdgesLive
<1>4. \/ roots' = roots \cup {o} /\ locals' = locals
      \/ k \notin Container /\ roots' = roots /\ locals' = locals \cup {o}
  BY DEF New, Receive, GuardedContainers
<1>5. EdgesLive'
  BY <1>2 DEF HeapInv, EdgesLive
<1>6. LeavesPlain'
  BY <1>2 DEF HeapInv, LeavesPlain
<1>7. HeldLive'
  BY <1>2, <1>4 DEF HeapInv, HeldLive
<1>8. ASSUME NEW x \in Live' PROVE refCount'[x] = Held(x)'
  <2>1. CASE x = o
    <3>1. Holders(o)' = {}
      BY <1>2, <1>3 DEF Holders
    <3>2. Cardinality(Holders(o)') = 0
      BY <3>1, FS_EmptySet
    <3> QED BY <1>2, <1>3, <1>4, <2>1, <3>2 DEF Held
  <2>2. CASE x # o
    <3>1. Holders(x)' = Holders(x) /\ x \in Live
      BY <1>2, <2>2 DEF Holders
    <3>2. Held(x)' = Held(x)
      BY <1>4, <2>2, <3>1 DEF Held
    <3> QED BY <1>2, <3>1, <3>2, ExactHeld
  <2> QED BY <2>1, <2>2
<1>9. RefCountExact'
  BY <1>8 DEF RefCountExact, Held, Holders
<1> QED BY <1>2, <1>4, <1>5, <1>6, <1>7, <1>9

LEMMA NewKeeps ==
  ASSUME HeapTypeOK, HeapInv, GuardedContainers, roots \subseteq roots',
         \A x \in Live : /\ x \in Live' /\ kind'[x] = kind[x]
                         /\ content'[x] = content[x],
         UNCHANGED <<table, queue, running>>
  PROVE  FinalizersHeld' /\ TableSound'
<1>1. \A o \in queue : o \in Live
  BY DEF HeapInv, FinalizersHeld, Live, HeapTypeOK
<1> QED BY <1>1 DEF HeapInv, FinalizersHeld, TableSound

LEMMA AllocateHeap ==
  GuardedContainers /\ HeapTypeOK /\ HeapInv /\ RefCountExact /\ (Allocate \/ NewOfClass)
  => HeapInv' /\ RefCountExact'
<1> SUFFICES ASSUME GuardedContainers, HeapTypeOK, HeapInv, RefCountExact, Allocate \/ NewOfClass
             PROVE  HeapInv' /\ RefCountExact'
  OBVIOUS
<1>1. PICK o \in Obj, k \in Kinds, c \in Live \cup {NoObj} :
        /\ New(o, k, c, NoObj)
        /\ c # NoObj => kind[c] = "class" /\ k \in Container
  <2>1. CASE Allocate
    BY <2>1 DEF Allocate
  <2>2. CASE NewOfClass
    BY <2>2, ReachedLive DEF NewOfClass, HeapInv, Container
  <2> QED BY <2>1, <2>2
<1>2. UNCHANGED <<table, queue, running>>
  BY DEF Allocate, NewOfClass
<1> QED BY <1>1, <1>2, NewHeap, NewKeeps DEF HeapInv

LEMMA InternStringHeap ==
  GuardedContainers /\ HeapTypeOK /\ HeapInv /\ RefCountExact /\ InternString
  => HeapInv' /\ RefCountExact'
<1> SUFFICES ASSUME GuardedContainers, HeapTypeOK, HeapInv, RefCountExact, InternString
             PROVE  HeapInv' /\ RefCountExact'
  OBVIOUS
<1>1. "str" \in Kinds /\ "str" \notin Container /\ UNCHANGED <<queue, running>>
  BY DEF InternString, Container
<1>2. ASSUME NEW s \in Str, table[s] = NoObj, NEW o \in Obj, New(o, "str", NoObj, s),
             table' = [table EXCEPT ![s] = o]
      PROVE  HeapInv' /\ RefCountExact'
  <2>1. /\ EdgesLive' /\ LeavesPlain' /\ HeldLive' /\ RefCountExact'
        /\ o \in Live' /\ kind'[o] = "str" /\ content'[o] = s /\ roots \subseteq roots'
        /\ \A x \in Live : /\ x \in Live' /\ kind'[x] = kind[x]
                           /\ content'[x] = content[x]
    BY <1>1, <1>2, NewHeap
  <2>2. FinalizersHeld'
    <3>1. \A x \in queue : x \in Live
      BY DEF HeapInv, FinalizersHeld, Live, HeapTypeOK
    <3> QED BY <1>1, <2>1, <3>1 DEF HeapInv, FinalizersHeld
  <2>3. TableSound'
    BY <1>2, <2>1 DEF HeapInv, TableSound, HeapTypeOK
  <2> QED BY <2>1, <2>2, <2>3 DEF HeapInv
<1>3. ASSUME NEW s \in Str, table[s] # NoObj, table[s] \notin roots \cup locals,
             TakeOne(table[s]), Receive(table[s], "str"),
             UNCHANGED <<objVars, table, finalized, runs>>
      PROVE  HeapInv' /\ RefCountExact'
  <2>1. table[s] \in Live /\ kind[table[s]] = "str"
    BY <1>3 DEF HeapInv, TableSound
  <2>2. UNCHANGED <<kind, vals, cls, content, table>>
    BY <1>3 DEF objVars
  <2>3. RefCountExact'
    BY <1>3, <2>1, <2>2, RootTaken, LocalTaken DEF Receive
  <2>4. HeapInv'
    BY <1>1, <1>3, <2>1, <2>2
       DEF HeapInv, EdgesLive, LeavesPlain, HeldLive, FinalizersHeld, TableSound, Live, Receive
  <2> QED BY <2>3, <2>4
<1> QED BY <1>2, <1>3 DEF InternString

-----------------------------------------------------------------------------
(* Collections.  What is marked is live and closed, so that a sweep leaves   *)
(* no pointer to what it deletes.                                            *)
LEMMA MarkedSound ==
  ASSUME HeapTypeOK, EdgesLive, NEW S, S \subseteq Live
  PROVE  S \subseteq Marked(S) /\ Marked(S) \subseteq Live /\ Closed(Marked(S))
<1>1. Live \in SUBSET Obj /\ Closed(Live)
  BY DEF Live, Closed, Edges, EdgesLive
<1>2. S \subseteq Marked(S)
  BY <1>1 DEF Marked
<1>3. Marked(S) \subseteq Live
  BY <1>1 DEF Marked
<1>4. ASSUME NEW o \in Marked(S), NEW e \in Edges(o) PROVE e \in Marked(S)
  <2>1. e \in Obj
    BY <1>1, <1>3, <1>4 DEF Closed
  <2>2. ASSUME NEW T \in SUBSET Obj, S \subseteq T, Closed(T) PROVE e \in T
    BY <1>4, <2>2 DEF Marked, Closed
  <2> QED BY <2>1, <2>2 DEF Marked
<1>5. Closed(Marked(S))
  BY <1>4 DEF Closed
<1> QED BY <1>2, <1>3, <1>5

LEMMA MarkedGrows == \A S, T : S \subseteq T => Marked(S) \subseteq Marked(T)
BY DEF Marked

(* Garbage is what sweep() deletes: the objects kept are marked or point     *)
(* nowhere, and nothing the program holds is deleted.                        *)
LEMMA GarbageSound ==
  ASSUME HeapTypeOK, HeapInv, RefCountExact, NEW m, NEW G,
         roots \subseteq m, m \subseteq Live, Closed(m), G = Garbage(m)
  PROVE  /\ G \subseteq Live /\ G \cap m = {}
         /\ locals \cap G = {}
         /\ \A o \in Live \ G : /\ vals[o] \cap G = {}
                                /\ cls[o] # NoObj => cls[o] \notin G
<1>1. G \subseteq Live /\ G \cap m = {}
  BY DEF Garbage
<1>2. ASSUME NEW o \in locals PROVE o \notin G
  <2>1. o \in Live /\ kind[o] \notin Container
    BY DEF HeapInv, HeldLive
  <2>2. refCount[o] # 0
    BY <2>1, ExactHeld, HoldersFinite DEF Held
  <2> QED BY <2>1, <2>2 DEF Garbage
<1>3. ASSUME NEW o \in Live \ G
      PROVE  vals[o] \cap G = {} /\ (cls[o] # NoObj => cls[o] \notin G)
  <2>1. CASE kind[o] \notin Container
    BY <1>3, <2>1 DEF HeapInv, LeavesPlain
  <2>2. CASE kind[o] \in Container
    <3>1. o \in m
      BY <1>3, <2>2 DEF Garbage
    <3>2. Edges(o) \subseteq m
      BY <3>1 DEF Closed
    <3> QED BY <1>1, <3>2 DEF Edges
  <2> QED BY <2>1, <2>2
<1> QED BY <1>1, <1>2, <1>3

(* clearTotal: the Values of deleted containers are given back exactly.      *)
LEMMA GivenBack ==
  ASSUME HeapTypeOK, NEW G, G \subseteq Live, Live' = Live \ G,
         \A h \in Live' : vals'[h] = vals[h]
  PROVE  \A x : Cardinality(Holders(x)') = Cardinality(Holders(x)) - FromGarbage(G, x)
<1> SUFFICES ASSUME NEW x
             PROVE  Cardinality(Holders(x)') = Cardinality(Holders(x)) - FromGarbage(G, x)
  OBVIOUS
<1> DEFINE D == {g \in G : x \in vals[g]}
<1>1. Holders(x)' = Holders(x) \ D
  BY DEF Holders
<1>2. Holders(x) \cap D = D
  BY DEF Holders
<1>3. Cardinality(Holders(x) \ D) = Cardinality(Holders(x)) - Cardinality(Holders(x) \cap D)
  BY HoldersFinite, Finite, FS_Difference
<1> QED BY <1>1, <1>2, <1>3 DEF FromGarbage

LEMMA CollectHeap ==
  HeapTypeOK /\ HeapInv /\ RefCountExact /\ Collect
  => HeapInv' /\ RefCountExact'
<1> SUFFICES ASSUME HeapTypeOK, HeapInv, RefCountExact, Collect PROVE HeapInv' /\ RefCountExact'
  OBVIOUS
<1> DEFINE q == ToFinalize(Marked(roots))
           m == Marked(roots \cup q)
           G == Garbage(m)
<1>1. roots \cup q \subseteq Live /\ \A o \in q : kind[o] = "inst"
  BY DEF ToFinalize, HeapInv, HeldLive
<1>2. /\ kind' = [o \in Obj |-> IF o \in G THEN "free" ELSE kind[o]]
      /\ vals' = [o \in Obj |-> IF o \in G THEN {} ELSE vals[o]]
      /\ cls' = [o \in Obj |-> IF o \in G THEN NoObj ELSE cls[o]]
      /\ content' = [o \in Obj |-> IF o \in G THEN NoObj ELSE content[o]]
  BY DEF Collect
<1>3. refCount' = [o \in Obj |-> IF o \in G THEN 0 ELSE refCount[o] - FromGarbage(G, o)]
  BY DEF Collect
<1>4. queue' = q /\ table' = SweptTable(m, G)
  BY DEF Collect
<1>5. UNCHANGED <<roots, locals, running>>
  BY DEF Collect
<1>6. roots \cup q \subseteq m /\ m \subseteq Live /\ Closed(m)
  BY <1>1, MarkedSound DEF HeapInv
<1>7. /\ G \subseteq Live /\ G \cap m = {} /\ locals \cap G = {}
      /\ \A o \in Live \ G : /\ vals[o] \cap G = {}
                             /\ cls[o] # NoObj => cls[o] \notin G
  BY <1>6, GarbageSound
<1> HIDE DEF q, m, G
<1>8. /\ Live' = Live \ G
      /\ \A o \in Live' : /\ kind'[o] = kind[o] /\ vals'[o] = vals[o]
                          /\ cls'[o] = cls[o] /\ content'[o] = content[o]
  BY <1>2 DEF Live
<1>9. EdgesLive'
  BY <1>7, <1>8 DEF HeapInv, EdgesLive
<1>10. LeavesPlain'
  BY <1>8 DEF HeapInv, LeavesPlain
<1>11. HeldLive'
  BY <1>5, <1>6, <1>7, <1>8 DEF HeapInv, HeldLive
<1>12. FinalizersHeld'
  BY <1>1, <1>4, <1>5, <1>6, <1>7, <1>8 DEF HeapInv, FinalizersHeld
<1>13. TableSound'
  <2> SUFFICES ASSUME NEW s \in Str, table'[s] # NoObj
               PROVE  /\ table'[s] \in Live' /\ kind'[table'[s]] = "str"
                      /\ content'[table'[s]] = s
    BY DEF TableSound
  <2>1. table'[s] = table[s] /\ table[s] # NoObj /\ table[s] \in m
    BY <1>4 DEF SweptTable
  <2> QED BY <1>6, <1>7, <1>8, <2>1 DEF HeapInv, TableSound
<1>14. ASSUME NEW x \in Live' PROVE refCount'[x] = Held(x)'
  <2>1. x \in Obj /\ x \in Live /\ x \notin G
    BY <1>8 DEF Live
  <2>2. refCount'[x] = Held(x) - FromGarbage(G, x)
    BY <1>3, <2>1, ExactHeld
  <2>3. Cardinality(Holders(x)') = Cardinality(Holders(x)) - FromGarbage(G, x)
    BY <1>7, <1>8, GivenBack
  <2>4. FromGarbage(G, x) \in Nat
    BY <1>7, Finite DEF FromGarbage, Live
  <2> QED BY <1>5, <2>2, <2>3, <2>4, HoldersFinite DEF Held
<1>15. RefCountExact'
  BY <1>14 DEF RefCountExact, Held, Holders
<1> QED BY <1>9, <1>10, <1>11, <1>12, <1>13, <1>15 DEF HeapInv

-----------------------------------------------------------------------------
LEMMA HeapInvInit == HeapInit => HeapInv /\ RefCountExact
BY DEF HeapInit, HeapInv, EdgesLive, LeavesPlain, HeldLive, FinalizersHeld, TableSound,
       RefCountExact, Live

LEMMA InvInit == HeapInit => IInv
BY TypeInit, HeapInvInit DEF IInv

LEMMA InvNext ==
  ASSUME GuardedContainers
  PROVE  IInv /\ [HeapNext]_heapVars => IInv'
<1> SUFFICES ASSUME HeapTypeOK, HeapInv, RefCountExact, [HeapNext]_heapVars
             PROVE  HeapInv' /\ RefCountExact'
  BY TypeNext DEF IInv
<1>1. HeapTypeOK'
  BY TypeNext
<1>2. CASE Allocate \/ NewOfClass
  BY <1>2, AllocateHeap
<1>3. CASE InternString
  BY <1>3, InternStringHeap
<1>4. CASE AddRoot \/ Store \/ ApplyTrait \/ RunFinalizer
  BY <1>4, AddRootHeap, StoreHeap, ApplyTraitHeap, RunFinalizerHeap
<1>5. CASE DropRoot \/ DropLocal \/ Remove \/ EndFinalizer
  BY <1>1, <1>5, DropRootHeap, DropLocalHeap, RemoveHeap, EndFinalizerHeap
<1>6. CASE Collect
  BY <1>6, CollectHeap
<1>7. CASE UNCHANGED heapVars
  BY <1>7 DEF heapVars, HeapInv, EdgesLive, LeavesPlain, HeldLive, FinalizersHeld, TableSound,
              RefCountExact, Live
<1> QED BY <1>2, <1>3, <1>4, <1>5, <1>6, <1>7 DEF HeapNext

(* Whatever the program can reach, the finalizer queue and the intern table  *)
(* is still allocated, in every program that keeps containers guarded.       *)
THEOREM NothingDangles ==
  ASSUME GuardedContainers
  PROVE  HeapSpec => []NoDangling
<1>1. IInv => NoDangling
  BY ReachedLive DEF IInv, HeapInv, FinalizersHeld, TableSound, NoDangling, HeapTypeOK, Live
<1>2. IInv /\ [HeapNext]_heapVars => IInv'
  BY InvNext
<1> QED BY <1>1, <1>2, InvInit, PTL DEF HeapSpec

(* refCount, which copy-on-write and freeObj trust, is the number of Values  *)
(* that hold the object, also after a collection of containers and cycles.   *)
THEOREM RefCountAlwaysExact ==
  ASSUME GuardedContainers
  PROVE  HeapSpec => []RefCountExact
<1>1. IInv => RefCountExact
  BY DEF IInv
<1>2. IInv /\ [HeapNext]_heapVars => IInv'
  BY InvNext
<1> QED BY <1>1, <1>2, InvInit, PTL DEF HeapSpec

-----------------------------------------------------------------------------
(* Finalizers.  An instance that is scheduled has not run; one that was      *)
(* scheduled and waits no more has run once.                                 *)
FinalizeInv == RunsInv /\ QueueFinalized

LEMMA FinalizeInit == HeapInit => FinalizeInv
BY DEF HeapInit, FinalizeInv, RunsInv, QueueFinalized, Live

(* Outside New, Collect and RunFinalizer, instances stay what they are.      *)
LEMMA InstancesKept ==
  ASSUME HeapTypeOK, [HeapNext]_heapVars, ~Allocate, ~NewOfClass, ~InternString, ~Collect, ~RunFinalizer
  PROVE  /\ UNCHANGED <<runs, finalized, queue>>
         /\ \A o \in Obj : kind'[o] = kind[o] \/ (kind[o] = "num" /\ kind'[o] = "free")
<1>1. ASSUME NEW o \in Obj, ReleaseOne(o)
      PROVE  \A x \in Obj : kind'[x] = kind[x] \/ (kind[x] = "num" /\ kind'[x] = "free")
  BY <1>1 DEF ReleaseOne, HeapTypeOK
<1>2. CASE AddRoot \/ Store \/ ApplyTrait
  BY <1>2 DEF AddRoot, Store, ApplyTrait, objVars, gcVars
<1>3. CASE DropRoot \/ DropLocal \/ Remove
  BY <1>1, <1>3 DEF DropRoot, DropLocal, Remove, gcVars, HeapTypeOK
<1>4. CASE EndFinalizer
  BY <1>1, <1>4 DEF EndFinalizer, HeapTypeOK
<1>5. CASE UNCHANGED heapVars
  BY <1>5 DEF heapVars
<1> QED BY <1>2, <1>3, <1>4, <1>5 DEF HeapNext

(* The last clause: who is deleted unmarked was scheduled before, since what *)
(* is scheduled now is marked, and has run, since collections do not nest.   *)
LEMMA FinalizeCollect ==
  HeapTypeOK /\ HeapInv /\ FinalizeInv /\ Collect
  => /\ FinalizeInv'
     /\ \A o \in Obj : kind[o] = "inst" /\ kind'[o] = "free" => runs[o] = 1
<1> SUFFICES ASSUME HeapTypeOK, HeapInv, FinalizeInv, Collect
             PROVE  /\ FinalizeInv'
                    /\ \A o \in Obj : kind[o] = "inst" /\ kind'[o] = "free" => runs[o] = 1
  OBVIOUS
<1> DEFINE q == ToFinalize(Marked(roots))
           m == Marked(roots \cup q)
           G == Garbage(m)
<1>1. roots \cup q \subseteq Live
  BY DEF ToFinalize, HeapInv, HeldLive
<1>2. roots \cup q \subseteq m /\ Marked(roots) \subseteq m
  BY <1>1, MarkedSound, MarkedGrows DEF HeapInv
<1>3. G \subseteq Live \ m
  BY DEF Garbage
<1>4. \A o \in Live : kind[o] = "inst" => o \in Marked(roots) \/ o \in finalized \/ o \in q
  BY DEF ToFinalize
<1>5. q \cap finalized = {} /\ queue = {}
  BY DEF ToFinalize, Collect, Locked
<1>6. /\ queue' = q /\ finalized' = (finalized \cup q) \ G
      /\ kind' = [o \in Obj |-> IF o \in G THEN "free" ELSE kind[o]]
      /\ runs' = [o \in Obj |-> IF o \in G THEN 0 ELSE runs[o]]
  BY DEF Collect
<1> HIDE DEF q, m, G
<1>7. \A o \in Live' : o \in Live /\ o \in Obj /\ o \notin G /\ kind'[o] = kind[o] /\ runs'[o] = runs[o]
  BY <1>6 DEF Live
<1>8. RunsInv'
  BY <1>5, <1>6, <1>7 DEF FinalizeInv, RunsInv
<1>9. QueueFinalized'
  BY <1>2, <1>3, <1>6 DEF QueueFinalized
<1>10. ASSUME NEW o \in Obj, kind[o] = "inst", kind'[o] = "free" PROVE runs[o] = 1
  <2>1. o \in G /\ o \in Live
    BY <1>6, <1>10 DEF Live
  <2>2. o \in finalized
    BY <1>2, <1>3, <1>4, <1>10, <2>1
  <2> QED BY <1>5, <1>10, <2>1, <2>2 DEF FinalizeInv, RunsInv
<1> QED BY <1>8, <1>9, <1>10 DEF FinalizeInv

LEMMA FinalizeNew ==
  ASSUME HeapTypeOK, HeapInv, FinalizeInv, UNCHANGED queue,
         NEW o \in Obj, NEW k \in Kinds, NEW c, NEW s, New(o, k, c, s)
  PROVE  /\ FinalizeInv'
         /\ \A x \in Obj : kind[x] = "inst" => kind'[x] = kind[x]
<1>1. o \notin queue /\ kind[o] = "free"
  BY DEF New, HeapInv, FinalizersHeld
<1>2. /\ finalized' = finalized \ {o}
      /\ kind' = [kind EXCEPT ![o] = k] /\ runs' = [runs EXCEPT ![o] = 0]
  BY DEF New
<1>3. RunsInv'
  <2> SUFFICES ASSUME NEW x \in Live', kind'[x] = "inst"
               PROVE  runs'[x] = IF x \in finalized' /\ x \notin queue' THEN 1 ELSE 0
    BY DEF RunsInv
  <2>1. CASE x = o
    BY <1>2, <2>1 DEF HeapTypeOK
  <2>2. CASE x # o
    BY <1>2, <2>2 DEF HeapTypeOK, Live, FinalizeInv, RunsInv
  <2> QED BY <2>1, <2>2
<1>4. QueueFinalized'
  BY <1>1, <1>2 DEF FinalizeInv, QueueFinalized
<1> QED BY <1>1, <1>2, <1>3, <1>4 DEF FinalizeInv, HeapTypeOK

LEMMA FinalizeNext ==
  HeapTypeOK /\ HeapInv /\ FinalizeInv /\ [HeapNext]_heapVars
  => /\ FinalizeInv'
     /\ \A o \in Obj : kind[o] = "inst" /\ kind'[o] = "free" => runs[o] = 1
<1> SUFFICES ASSUME HeapTypeOK, HeapInv, FinalizeInv, [HeapNext]_heapVars
             PROVE  /\ FinalizeInv'
                    /\ \A o \in Obj : kind[o] = "inst" /\ kind'[o] = "free" => runs[o] = 1
  OBVIOUS
<1>1. CASE Allocate
  BY <1>1, FinalizeNew DEF Allocate
<1>2. CASE NewOfClass
  BY <1>2, FinalizeNew DEF NewOfClass
<1>3. CASE InternString
  <2>1. UNCHANGED queue /\ "str" \in Kinds
    BY <1>3 DEF InternString
  <2>2. ASSUME NEW o \in Obj, NEW s \in Str, New(o, "str", NoObj, s)
        PROVE  /\ FinalizeInv'
               /\ \A x \in Obj : kind[x] = "inst" => kind'[x] = kind[x]
    BY <2>1, <2>2, FinalizeNew
  <2>3. ASSUME UNCHANGED <<objVars, finalized, runs>> PROVE FinalizeInv' /\ kind' = kind
    BY <2>1, <2>3 DEF FinalizeInv, RunsInv, QueueFinalized, Live, objVars
  <2>4. \/ \E o \in Obj, s \in Str : New(o, "str", NoObj, s)
        \/ UNCHANGED <<objVars, finalized, runs>>
    BY <1>3 DEF InternString
  <2> QED BY <2>2, <2>3, <2>4
<1>4. CASE Collect
  BY <1>4, FinalizeCollect
<1>5. CASE RunFinalizer
  <2>1. PICK o \in queue : queue' = queue \ {o} /\ runs' = [runs EXCEPT ![o] = @ + 1]
    BY <1>5 DEF RunFinalizer
  <2>2. UNCHANGED <<kind, finalized>>
    BY <1>5 DEF RunFinalizer, objVars
  <2>3. o \in Live /\ kind[o] = "inst" /\ o \in finalized /\ runs[o] = 0 /\ o \in Obj
    BY DEF HeapInv, FinalizersHeld, HeapTypeOK, FinalizeInv, RunsInv, QueueFinalized, Live
  <2>4. RunsInv'
    BY <2>1, <2>2, <2>3 DEF FinalizeInv, RunsInv, HeapTypeOK, Live
  <2>5. QueueFinalized'
    BY <2>1, <2>2 DEF FinalizeInv, QueueFinalized
  <2> QED BY <2>2, <2>4, <2>5 DEF FinalizeInv
<1>6. ASSUME ~Allocate, ~NewOfClass, ~InternString, ~Collect, ~RunFinalizer
      PROVE  /\ FinalizeInv'
             /\ \A o \in Obj : kind[o] = "inst" /\ kind'[o] = "free" => runs[o] = 1
  <2>1. /\ UNCHANGED <<runs, finalized, queue>>
        /\ \A o \in Obj : kind'[o] = kind[o] \/ (kind[o] = "num" /\ kind'[o] = "free")
    BY <1>6, InstancesKept
  <2>2. FinalizeInv'
    BY <2>1 DEF FinalizeInv, RunsInv, QueueFinalized, Live
  <2> QED BY <2>1, <2>2
<1> QED BY <1>1, <1>2, <1>3, <1>4, <1>5, <1>6

(* No instance is deleted before its finalizer has run, and run once,        *)
(* however often it makes itself reachable again.                            *)
THEOREM FinalizedExactlyOnce ==
  ASSUME GuardedContainers
  PROVE  HeapSpec => FinalizedOnceBeforeFree
<1>1. HeapInit => IInv /\ FinalizeInv
  BY InvInit, FinalizeInit
<1>2. IInv /\ FinalizeInv /\ [HeapNext]_heapVars
      => /\ IInv' /\ FinalizeInv'
         /\ [\A o \in Obj : kind[o] = "inst" /\ kind'[o] = "free" => runs[o] = 1]_heapVars
  BY InvNext, FinalizeNext DEF IInv
<1> QED BY <1>1, <1>2, PTL DEF HeapSpec, FinalizedOnceBeforeFree

=============================================================================
