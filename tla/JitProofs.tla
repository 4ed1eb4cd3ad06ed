----------------------------- MODULE JitProofs ------------------------------
(* Interpreter and machine code agree about bailouts, exceptions, the        *)
(* objects that machine code holds and the memory it runs in: proved for     *)
(* every set of functions, whichever of them have handlers, and every depth  *)
(* of the native stack.                                                      *)
EXTENDS Jit, SequenceTheorems, FiniteSetTheorems, TLAPS

Activations ==
    [fn : Fns \cup {Main}, form : Forms \cup {"interpreter"}, mapped : BOOLEAN,
     at : {"run", "callout", "left"}, bailed : BOOLEAN,
     held : {"none", "plain", "box"}, guarded : BOOLEAN, exposed : BOOLEAN, lost : BOOLEAN]

TypeOK ==
    /\ stack \in Seq(Activations) /\ stack # <<>>
    /\ frames \in Int
    /\ calls \in [Fns -> Nat]
    /\ entry \in [Fns -> [Forms -> {"none", "nullptr", "code"}]]
    /\ owned \in [Fns -> [Forms -> BOOLEAN]]
    /\ flag \in BOOLEAN /\ pending \in BOOLEAN /\ throwing \in BOOLEAN
    /\ aim \in Nat

(* The chain of activations: the script at the bottom; machine code below    *)
(* the top is in a callout, and only machine code ever leaves or bails out.  *)
(* Functions with handlers are never machine code.                           *)
Nested(s) ==
    /\ s[1].fn = Main /\ ~Native(s[1])
    /\ \A d \in 2..Len(s) : s[d].fn \in Fns
    /\ \A d \in 1..Len(s) :
         /\ Native(s[d]) => s[d].fn \in Fns \ HasTry
         /\ ~Native(s[d]) => s[d].at = "run"
         /\ d < Len(s) /\ Native(s[d]) => s[d].at = "callout"
         /\ s[d].bailed => s[d].at = "left"

NoCodeWithHandlers ==
    \A f \in Fns, k \in Forms : entry[f][k] = "code" => f \notin HasTry

(* The two globals belong to the activation on top, which has just left.     *)
Signals ==
    /\ flag <=> Top.at = "left" /\ Top.bailed
    /\ pending => flag
    /\ throwing => Top.at # "left"
    /\ throwing /\ Native(Top) => Top.at = "callout"
    /\ Top.at = "callout" => throwing

(* An exception has a target, and no other handler is in between.            *)
Aimed ==
    /\ throwing \/ pending <=> aim # 0
    /\ aim # 0 => /\ aim \in 1..Depth /\ Handles(stack[aim])
                  /\ \A e \in (aim + 1)..Depth : ~Handles(stack[e])
    /\ aim = 0 => frames = Depth

(* What an activation holds without a guard lost it to a collection or to an *)
(* emptied pin list.                                                         *)
Safe(s) == \A d \in 1..Len(s) : /\ s[d].lost => s[d].exposed
                                /\ s[d].held # "none" /\ ~s[d].guarded => s[d].exposed

IInv == TypeOK /\ Nested(stack) /\ NoCodeWithHandlers /\ Signals /\ Aimed /\ Safe(stack)

-----------------------------------------------------------------------------
(* What marking, sweeping and unmapping do to a chain of activations.        *)

\* t is s, but for guards and marks, and for memory that is unmapped.
Same(s, t) ==
    /\ Len(t) = Len(s)
    /\ \A d \in 1..Len(s) : /\ t[d].fn = s[d].fn /\ t[d].form = s[d].form
                            /\ t[d].at = s[d].at /\ t[d].bailed = s[d].bailed

SameMemory(s, t) == \A d \in 1..Len(s) : t[d].mapped = s[d].mapped

LEMMA ActivationType ==
  ASSUME NEW f \in Fns \cup {Main}, NEW form \in Forms \cup {"interpreter"}
  PROVE  Activation(f, form) \in Activations
  BY DEF Activation, Activations

LEMMA ExposeFacts ==
  ASSUME NEW s \in Seq(Activations), NEW kind
  PROVE  /\ Expose(s, kind) \in Seq(Activations)
         /\ Same(s, Expose(s, kind)) /\ SameMemory(s, Expose(s, kind))
         /\ Safe(s) => Safe(Expose(s, kind))
<1> DEFINE t == Expose(s, kind)
<1>1. \A d \in 1..Len(s) : s[d] \in Activations
  BY ElementOfSeq
<1>2. DOMAIN t = 1..Len(s)
  BY DEF Expose
<1>3. \A d \in 1..Len(s) : /\ t[d] \in Activations
                           /\ t[d].fn = s[d].fn /\ t[d].form = s[d].form
                           /\ t[d].at = s[d].at /\ t[d].bailed = s[d].bailed
                           /\ t[d].mapped = s[d].mapped /\ t[d].lost = s[d].lost
                           /\ t[d].held = s[d].held
                           /\ t[d].exposed \/ (t[d].guarded = s[d].guarded
                                               /\ t[d].exposed = s[d].exposed)
  <2> TAKE d \in 1..Len(s)
  <2>1. t[d] = IF s[d].held = kind /\ s[d].guarded
               THEN [s[d] EXCEPT !.guarded = FALSE, !.exposed = TRUE] ELSE s[d]
    BY LenProperties DEF Expose
  <2> HIDE DEF t
  <2> QED BY ZenonT(60), <1>1, <2>1 DEF Activations
<1>4. t \in Seq(Activations) /\ Len(t) = Len(s)
  <2>1. t = [d \in 1..Len(s) |-> t[d]]
    BY <1>2 DEF Expose
  <2> QED BY <2>1, <1>3, IsASeq, LenProperties
<1> QED BY <1>3, <1>4 DEF Same, SameMemory, Safe

LEMMA SweepFacts ==
  ASSUME NEW s \in Seq(Activations)
  PROVE  /\ Sweep(s) \in Seq(Activations)
         /\ Same(s, Sweep(s)) /\ SameMemory(s, Sweep(s))
         /\ Safe(s) => Safe(Sweep(s))
<1> DEFINE t == [d \in DOMAIN s |-> [s[d] EXCEPT !.lost = @ \/ (s[d].held # "none" /\ ~s[d].guarded)]]
<1>1. \A d \in 1..Len(s) : s[d] \in Activations
  BY ElementOfSeq
<1>2. DOMAIN t = 1..Len(s)
  OBVIOUS
<1>3. \A d \in 1..Len(s) : /\ t[d] \in Activations
                           /\ t[d].fn = s[d].fn /\ t[d].form = s[d].form
                           /\ t[d].at = s[d].at /\ t[d].bailed = s[d].bailed
                           /\ t[d].mapped = s[d].mapped
                           /\ t[d].held = s[d].held
                           /\ t[d].exposed = s[d].exposed /\ t[d].guarded = s[d].guarded
                           /\ t[d].lost <=> s[d].lost \/ (s[d].held # "none" /\ ~s[d].guarded)
  <2> TAKE d \in 1..Len(s)
  <2>1. t[d] = [s[d] EXCEPT !.lost = s[d].lost \/ (s[d].held # "none" /\ ~s[d].guarded)]
    BY LenProperties
  <2> HIDE DEF t
  <2> QED BY <1>1, <2>1 DEF Activations
<1>4. t \in Seq(Activations) /\ Len(t) = Len(s)
  <2>1. t = [d \in 1..Len(s) |-> t[d]]
    BY <1>2
  <2> HIDE DEF t
  <2> QED BY <2>1, <1>3, IsASeq, LenProperties
<1>6. Sweep(s) = Expose(t, "box")
  BY DEF Sweep
<1> HIDE DEF t
<1>5. Same(s, t) /\ SameMemory(s, t) /\ (Safe(s) => Safe(t))
  BY <1>3, <1>4 DEF Same, SameMemory, Safe
<1>7. /\ Expose(t, "box") \in Seq(Activations)
      /\ Same(t, Expose(t, "box")) /\ SameMemory(t, Expose(t, "box"))
      /\ Safe(t) => Safe(Expose(t, "box"))
  BY <1>4, ExposeFacts
<1> QED BY <1>4, <1>5, <1>6, <1>7 DEF Same, SameMemory

LEMMA UnmapFacts ==
  ASSUME NEW s \in Seq(Activations), NEW f, NEW k
  PROVE  /\ Unmap(s, f, k) \in Seq(Activations)
         /\ Same(s, Unmap(s, f, k))
         /\ \A d \in 1..Len(s) : Unmap(s, f, k)[d].mapped # s[d].mapped
                                   => s[d].fn = f /\ s[d].form = k
         /\ Safe(s) => Safe(Unmap(s, f, k))
<1> DEFINE t == Unmap(s, f, k)
<1>1. \A d \in 1..Len(s) : s[d] \in Activations
  BY ElementOfSeq
<1>2. DOMAIN t = 1..Len(s)
  BY DEF Unmap
<1>3. \A d \in 1..Len(s) : /\ t[d] \in Activations
                           /\ t[d].fn = s[d].fn /\ t[d].form = s[d].form
                           /\ t[d].at = s[d].at /\ t[d].bailed = s[d].bailed
                           /\ t[d].held = s[d].held /\ t[d].lost = s[d].lost
                           /\ t[d].exposed = s[d].exposed /\ t[d].guarded = s[d].guarded
                           /\ t[d].mapped # s[d].mapped => s[d].fn = f /\ s[d].form = k
  <2> TAKE d \in 1..Len(s)
  <2>1. t[d] = IF s[d].fn = f /\ s[d].form = k THEN [s[d] EXCEPT !.mapped = FALSE] ELSE s[d]
    BY LenProperties DEF Unmap
  <2> HIDE DEF t
  <2> QED BY ZenonT(60), <1>1, <2>1 DEF Activations
<1>4. t \in Seq(Activations) /\ Len(t) = Len(s)
  <2>1. t = [d \in 1..Len(s) |-> t[d]]
    BY <1>2 DEF Unmap
  <2> QED BY <2>1, <1>3, IsASeq, LenProperties
<1> QED BY <1>3, <1>4 DEF Same, Safe

\* Back in machine code: t is s, but the activation on top runs or has bailed.
Back(s, t, bails) ==
    /\ Len(t) = Len(s)
    /\ \A d \in 1..Len(s) : /\ t[d].fn = s[d].fn /\ t[d].form = s[d].form
                            /\ d < Len(s) => t[d].at = s[d].at /\ t[d].bailed = s[d].bailed
    /\ t[Len(s)].at = (IF bails THEN "left" ELSE "run") /\ t[Len(s)].bailed = bails

LEMMA BackFacts ==
  ASSUME NEW s \in Seq(Activations), s # <<>>, NEW bails \in BOOLEAN
  PROVE  /\ BackFromCallout(s, bails) \in Seq(Activations)
         /\ Back(s, BackFromCallout(s, bails), bails)
         /\ SameMemory(s, BackFromCallout(s, bails))
         /\ Safe(s) => Safe(BackFromCallout(s, bails))
<1> DEFINE n == Len(s)
           top == [Activation(s[n].fn, s[n].form) EXCEPT
                       !.mapped = s[n].mapped, !.at = IF bails THEN "left" ELSE "run",
                       !.bailed = bails]
           t == [s EXCEPT ![n] = top]
<1>1. n \in 1..Len(s) /\ \A d \in 1..Len(s) : s[d] \in Activations
  BY ElementOfSeq, EmptySeq, LenProperties
<1>2. /\ top \in Activations
      /\ top.fn = s[n].fn /\ top.form = s[n].form /\ top.mapped = s[n].mapped
      /\ top.at = (IF bails THEN "left" ELSE "run") /\ top.bailed = bails
      /\ top.lost = FALSE /\ top.held = "none"
  BY ZenonT(60), <1>1 DEF Activation, Activations
<1> HIDE DEF top
<1>3. /\ t \in Seq(Activations) /\ Len(t) = Len(s) /\ t[n] = top
      /\ \A d \in 1..Len(s) : d # n => t[d] = s[d]
  BY <1>1, <1>2, ExceptSeq
<1>4. BackFromCallout(s, bails) = Expose(t, "plain")
  BY DEF BackFromCallout, top
<1> HIDE DEF t
<1>5. /\ Expose(t, "plain") \in Seq(Activations)
      /\ Same(t, Expose(t, "plain")) /\ SameMemory(t, Expose(t, "plain"))
      /\ Safe(t) => Safe(Expose(t, "plain"))
  BY <1>3, ExposeFacts
<1>6. SameMemory(s, t) /\ (Safe(s) => Safe(t)) /\ Back(s, t, bails)
  BY <1>1, <1>2, <1>3 DEF SameMemory, Safe, Back
<1> QED BY <1>1, <1>3, <1>4, <1>5, <1>6 DEF Same, SameMemory, Back

LEMMA FrontFacts ==
  ASSUME NEW s \in Seq(Activations), Len(s) > 1
  PROVE  /\ Front(s) \in Seq(Activations) /\ Front(s) # <<>>
         /\ Len(Front(s)) = Len(s) - 1
         /\ \A d \in 1..(Len(s) - 1) : Front(s)[d] = s[d]
         /\ Safe(s) => Safe(Front(s))
<1>1. /\ Front(s) \in Seq(Activations) /\ Len(Front(s)) = Len(s) - 1
      /\ \A d \in 1..(Len(s) - 1) : Front(s)[d] = s[d]
  <2>1. Len(s) \in Nat
    BY LenProperties
  <2> QED BY <2>1, SubSeqProperties DEF Front
<1>2. Front(s) # <<>>
  BY <1>1, EmptySeq, LenProperties
<1> QED BY <1>1, <1>2, LenProperties DEF Safe

LEMMA NestedFront ==
  ASSUME NEW s \in Seq(Activations), Len(s) > 1, Nested(s)
  PROVE  Nested(Front(s))
<1> DEFINE r == Front(s)
<1>1. Len(s) \in Nat /\ Len(r) = Len(s) - 1 /\ \A d \in 1..(Len(s) - 1) : r[d] = s[d]
  BY FrontFacts, LenProperties
<1> HIDE DEF r
<1>2. Nested(r)
  BY <1>1 DEF Nested
<1> QED BY <1>2 DEF r

LEMMA NestedSame ==
  ASSUME NEW s \in Seq(Activations), NEW t \in Seq(Activations), s # <<>>, Same(s, t)
  PROVE  /\ Nested(s) => Nested(t)
         /\ t # <<>>
         /\ \A d \in 1..Len(s) : /\ Native(t[d]) <=> Native(s[d])
                                 /\ Handles(t[d]) <=> Handles(s[d])
<1>1. Len(s) \in Nat \ {0} /\ Len(t) = Len(s)
  BY EmptySeq, LenProperties DEF Same
<1> QED BY SMTT(30), <1>1, EmptySeq DEF Same, Nested, Native, Handles

LEMMA Bottom ==
  ASSUME TypeOK, Nested(stack)
  PROVE  /\ Depth \in Nat \ {0} /\ Top \in Activations
         /\ \A d \in 1..Depth : stack[d] \in Activations
         /\ Native(Top) => Depth > 1
         /\ Depth > 1 => Top.fn \in Fns
<1>1. Depth \in Nat \ {0} /\ \A d \in 1..Depth : stack[d] \in Activations
  BY EmptySeq, LenProperties, ElementOfSeq DEF TypeOK, Depth
<1> QED BY <1>1 DEF Nested, Top, Depth

\* Machine code on top that is back from its callout keeps its place.
LEMMA BackNested ==
  ASSUME NEW s \in Seq(Activations), NEW t \in Seq(Activations), s # <<>>,
         NEW bails \in BOOLEAN, Nested(s), Native(s[Len(s)]), Back(s, t, bails)
  PROVE  Nested(t)
<1>1. Len(s) \in Nat \ {0} /\ Len(t) = Len(s)
  BY EmptySeq, LenProperties DEF Back
<1>2. ASSUME NEW d \in 1..Len(t)
      PROVE  /\ Native(t[d]) => t[d].fn \in Fns \ HasTry
             /\ ~Native(t[d]) => t[d].at = "run"
             /\ d < Len(t) /\ Native(t[d]) => t[d].at = "callout"
             /\ t[d].bailed => t[d].at = "left"
  <2>1. CASE d < Len(s)
    BY <1>1, <2>1 DEF Nested, Back, Native
  <2>2. CASE d = Len(s)
    BY <1>1, <2>2 DEF Nested, Back, Native
  <2> QED BY <1>1, <2>1, <2>2
<1> QED BY <1>1, <1>2 DEF Nested, Back, Native

\* Nothing is on its way while code runs.
LEMMA Quiet ==
  ASSUME IInv, Running
  PROVE  ~flag /\ ~pending /\ ~throwing /\ aim = 0 /\ frames = Depth /\ ~Top.bailed
<1>1. Depth \in Nat \ {0} /\ Top \in Activations
  BY Bottom DEF IInv
<1>2. Top.at = "run"
  BY DEF Running
<1>3. ~Top.bailed
  BY <1>1, <1>2 DEF IInv, Nested, Top, Depth
<1> QED BY <1>2, <1>3 DEF IInv, TypeOK, Running, Signals, Aimed

\* An activation whose callout returned, or whose callee did, runs again.
LEMMA ReturnFacts ==
  ASSUME NEW s \in Seq(Activations), Len(s) > 1, Nested(s), Safe(s)
  PROVE  LET t == ReturnTo(Front(s))
         IN  /\ t \in Seq(Activations) /\ t # <<>> /\ Len(t) = Len(s) - 1
             /\ Nested(t) /\ Safe(t)
             /\ t[Len(t)].at = "run" /\ ~t[Len(t)].bailed
             /\ \A d \in 1..Len(t) : t[d].mapped = s[d].mapped
<1> DEFINE r == Front(s)
           t == ReturnTo(r)
<1>0. Len(s) \in Nat
  BY LenProperties
<1>1. /\ r \in Seq(Activations) /\ r # <<>> /\ Len(r) = Len(s) - 1 /\ Safe(r)
      /\ \A d \in 1..(Len(s) - 1) : r[d] = s[d]
  BY FrontFacts
<1>2. Nested(r)
  BY NestedFront
<1>3. \A d \in 1..Len(r) : r[d] \in Activations
  BY <1>1, ElementOfSeq
<1> HIDE DEF r
<1>4. CASE r[Len(r)].at = "callout"
  <2>1. t = BackFromCallout(r, FALSE)
    BY <1>4 DEF ReturnTo
  <2> HIDE DEF t
  <2>2. t \in Seq(Activations) /\ Back(r, t, FALSE) /\ SameMemory(r, t) /\ Safe(t)
    BY <2>1, <1>1, BackFacts
  <2>3. Native(r[Len(r)])
    BY <1>0, <1>1, <1>2, <1>4 DEF Nested
  <2>4. Nested(t)
    BY <1>1, <1>2, <2>2, <2>3, BackNested
  <2>5. t # <<>> /\ Len(t) = Len(s) - 1
    BY <1>0, <1>1, <2>2, EmptySeq DEF Back
  <2>6. \A d \in 1..Len(t) : t[d].mapped = s[d].mapped
    BY <1>1, <2>2, <2>5 DEF SameMemory
  <2>7. t[Len(t)].at = "run" /\ ~t[Len(t)].bailed
    BY <1>1, <2>2 DEF Back
  <2> QED BY <2>1, <2>2, <2>4, <2>5, <2>6, <2>7 DEF r, t
<1>5. CASE r[Len(r)].at # "callout"
  <2>1. t = r
    BY <1>5 DEF ReturnTo
  <2>2. Len(r) \in 1..Len(r) /\ Len(r) < Len(s) /\ r[Len(r)] = s[Len(r)]
    BY <1>0, <1>1
  <2>3. ~Native(s[Len(r)]) /\ s[Len(r)].at = "run" /\ ~s[Len(r)].bailed
    BY <2>2, <1>0, <1>1, <1>5 DEF Nested
  <2> QED BY <2>1, <2>2, <2>3, <1>1, <1>2 DEF r
<1> QED BY <1>4, <1>5

-----------------------------------------------------------------------------
(* Compilation.                                                              *)
LEMMA CompileFacts ==
  ASSUME TypeOK, NoCodeWithHandlers, NEW f \in Fns, NEW k \in Forms, CompileForm(f, k)
  PROVE  /\ entry' \in [Fns -> [Forms -> {"none", "nullptr", "code"}]]
         /\ owned' \in [Fns -> [Forms -> BOOLEAN]]
         /\ NoCodeWithHandlers'
<1>1. /\ entry[f] \in [Forms -> {"none", "nullptr", "code"}]
      /\ owned[f] \in [Forms -> BOOLEAN]
  BY DEF TypeOK
<1>2. entry' = [entry EXCEPT ![f] = [entry[f] EXCEPT ![k] =
                  IF f \in HasTry THEN "nullptr" ELSE "code"]]
  BY DEF CompileForm
<1>3. owned' = [owned EXCEPT ![f] = [owned[f] EXCEPT ![k] = owned[f][k] \/ f \notin HasTry]]
  BY DEF CompileForm
<1>4. entry' \in [Fns -> [Forms -> {"none", "nullptr", "code"}]]
  BY <1>1, <1>2 DEF TypeOK
<1>5. owned' \in [Fns -> [Forms -> BOOLEAN]]
  <2>1. [owned[f] EXCEPT ![k] = owned[f][k] \/ f \notin HasTry] \in [Forms -> BOOLEAN]
    BY <1>1
  <2> QED BY <1>3, <2>1 DEF TypeOK
<1>6. NoCodeWithHandlers'
  BY <1>1, <1>2 DEF TypeOK, NoCodeWithHandlers
<1> QED BY <1>4, <1>5, <1>6

LEMMA ProfileFacts ==
  ASSUME TypeOK, NoCodeWithHandlers, NEW f \in Fns, ProfileFrameStart(f)
  PROVE  /\ entry' \in [Fns -> [Forms -> {"none", "nullptr", "code"}]]
         /\ owned' \in [Fns -> [Forms -> BOOLEAN]]
         /\ calls' \in [Fns -> Nat]
         /\ NoCodeWithHandlers'
<1>1. calls' \in [Fns -> Nat]
  BY DEF ProfileFrameStart, TypeOK
<1>2. "call" \in Forms
  BY DEF Forms
<1>3. CASE CompileForm(f, "call")
  BY <1>1, <1>2, <1>3, CompileFacts
<1>4. CASE UNCHANGED <<entry, owned>>
  BY <1>1, <1>4 DEF TypeOK, NoCodeWithHandlers
<1> QED BY <1>3, <1>4 DEF ProfileFrameStart

LEMMA AfterCompileFacts ==
  ASSUME NEW s \in Seq(Activations), NEW f, NEW k
  PROVE  LET t == AfterCompile(s, f, k)
         IN  /\ t \in Seq(Activations)
             /\ Same(s, t)
             /\ \A d \in 1..Len(s) : t[d].mapped # s[d].mapped => s[d].fn = f /\ s[d].form = k
             /\ Safe(s) => Safe(t)
<1>1. Same(s, s)
  BY DEF Same
<1> QED BY <1>1, UnmapFacts DEF AfterCompile

\* A call: what is below the new activation is in a callout or interpreted.
LEMMA PushFacts ==
  ASSUME NEW s \in Seq(Activations), s # <<>>, Nested(s), Safe(s),
         Native(s[Len(s)]) => s[Len(s)].at = "callout",
         NEW f \in Fns, NEW e, e = "code" => f \notin HasTry,
         Push(s, f, e)
  PROVE  /\ stack' \in Seq(Activations) /\ stack' # <<>> /\ Depth' = Len(s) + 1
         /\ Nested(stack') /\ Safe(stack')
         /\ Top'.at = "run" /\ ~Top'.bailed /\ Top'.fn = f
         /\ \A d \in 1..Len(s) : stack'[d].mapped # s[d].mapped => s[d].fn = f
<1> DEFINE t == AfterCompile(s, f, "call")
           a == Activation(f, IF e = "code" THEN "call" ELSE "interpreter")
<1>1. /\ t \in Seq(Activations) /\ Same(s, t) /\ Safe(t)
      /\ \A d \in 1..Len(s) : t[d].mapped # s[d].mapped => s[d].fn = f
  BY AfterCompileFacts
<1>2. Nested(t) /\ t # <<>>
  BY <1>1, NestedSame
<1>3. /\ a \in Activations /\ a.fn = f /\ a.at = "run" /\ a.bailed = FALSE
      /\ a.lost = FALSE /\ a.held = "none"
      /\ Native(a) => e = "code"
  <2>1. a \in Activations
    BY ActivationType DEF Forms
  <2> QED BY <2>1 DEF Activation, Native, Forms
<1>4. stack' = Append(t, a)
  BY DEF Push
<1> HIDE DEF t, a
<1>5. Len(s) \in Nat \ {0} /\ Len(t) = Len(s)
  BY <1>1, EmptySeq, LenProperties DEF Same
<1>6. /\ stack' \in Seq(Activations) /\ stack' # <<>> /\ Len(stack') = Len(s) + 1
      /\ \A d \in 1..Len(s) : stack'[d] = t[d]
      /\ stack'[Len(s) + 1] = a
  BY <1>1, <1>3, <1>4, <1>5, AppendProperties
<1>7. Native(t[Len(s)]) => t[Len(s)].at = "callout"
  BY <1>1, <1>5 DEF Same, Native
<1>8. Nested(stack')
  <2>1. ASSUME NEW d \in 1..Len(stack')
        PROVE  /\ Native(stack'[d]) => stack'[d].fn \in Fns \ HasTry
               /\ ~Native(stack'[d]) => stack'[d].at = "run"
               /\ d < Len(stack') /\ Native(stack'[d]) => stack'[d].at = "callout"
               /\ stack'[d].bailed => stack'[d].at = "left"
    <3>1. CASE d \in 1..Len(s)
      BY <3>1, <1>2, <1>5, <1>6, <1>7 DEF Nested
    <3>2. CASE d = Len(s) + 1
      BY <3>2, <1>3, <1>5, <1>6
    <3> QED BY <3>1, <3>2, <1>5, <1>6
  <2>2. \A d \in 2..Len(stack') : stack'[d].fn \in Fns
    BY <1>2, <1>3, <1>5, <1>6 DEF Nested
  <2>3. stack'[1].fn = Main /\ ~Native(stack'[1])
    BY <1>2, <1>5, <1>6 DEF Nested
  <2> QED BY <2>1, <2>2, <2>3 DEF Nested
<1>9. Safe(stack')
  BY <1>1, <1>3, <1>5, <1>6 DEF Safe
<1> QED BY <1>1, <1>3, <1>5, <1>6, <1>8, <1>9 DEF Depth, Top

-----------------------------------------------------------------------------
(* The steps.                                                                *)
UnmapsByRecursion ==
    \A d \in DOMAIN stack \cap DOMAIN stack' :
       Native(stack[d]) /\ stack[d].mapped /\ ~stack'[d].mapped
       => \/ d < Depth /\ Top.fn = stack[d].fn
          \/ d < Len(stack') /\ stack'[Len(stack')].fn = stack[d].fn

LEMMA TypeStep ==
  ASSUME stack' \in Seq(Activations), stack' # <<>>, frames' \in Int, aim' \in Nat,
         calls' \in [Fns -> Nat],
         entry' \in [Fns -> [Forms -> {"none", "nullptr", "code"}]],
         owned' \in [Fns -> [Forms -> BOOLEAN]],
         flag' \in BOOLEAN, pending' \in BOOLEAN, throwing' \in BOOLEAN
  PROVE  TypeOK'
  BY DEF TypeOK

\* Code goes on, and nothing is on its way.
LEMMA GoesOn ==
  ASSUME aim' = 0, ~pending', ~throwing', ~flag', Top'.at = "run", frames' = Depth'
  PROVE  Signals' /\ Aimed'
  BY DEF Signals, Aimed

LEMMA MemoryKept ==
  ASSUME stack \in Seq(Activations), stack' \in Seq(Activations),
         \A d \in 1..Len(stack) : d \in 1..Len(stack') => stack'[d].mapped = stack[d].mapped
  PROVE  UnmapsByRecursion
  BY LenProperties DEF UnmapsByRecursion

LEMMA InitInv == Init => IInv
<1> SUFFICES ASSUME Init PROVE IInv
  OBVIOUS
<1>1. /\ Activation(Main, "interpreter") \in Activations
      /\ ~Native(Activation(Main, "interpreter"))
  BY ActivationType DEF Activation, Native, Forms
<1>2. /\ stack \in Seq(Activations) /\ stack # <<>> /\ Len(stack) = 1
      /\ stack[1] = Activation(Main, "interpreter")
  BY <1>1 DEF Init
<1>3. TypeOK
  <2>1. /\ calls \in [Fns -> Nat]
        /\ entry \in [Fns -> [Forms -> {"none", "nullptr", "code"}]]
        /\ owned \in [Fns -> [Forms -> BOOLEAN]]
    BY DEF Init
  <2>2. flag \in BOOLEAN /\ pending \in BOOLEAN /\ throwing \in BOOLEAN
    BY DEF Init
  <2>3. frames \in Int /\ aim \in Nat
    BY DEF Init
  <2> QED BY <1>2, <2>1, <2>2, <2>3 DEF TypeOK
<1>4. Nested(stack) /\ Safe(stack)
  <2>1. /\ stack[1].fn = Main /\ ~Native(stack[1]) /\ stack[1].at = "run"
        /\ stack[1].bailed = FALSE /\ stack[1].lost = FALSE /\ stack[1].held = "none"
    BY <1>1, <1>2 DEF Activation
  <2>2. \A d \in 1..Len(stack) : d = 1
    BY <1>2
  <2> QED BY <1>2, <2>1, <2>2 DEF Nested, Safe
<1>5. Signals /\ Aimed
  BY <1>2 DEF Init, Signals, Aimed, Top, Depth, Activation
<1>6. NoCodeWithHandlers
  BY DEF Init, NoCodeWithHandlers
<1> QED BY <1>3, <1>4, <1>5, <1>6 DEF IInv

LEMMA CallFromInterpreterStep ==
  ASSUME IInv, NEW f \in Fns, CallFromInterpreter(f)
  PROVE  IInv' /\ UnmapsByRecursion
<1>1. Running /\ ~Native(Top) /\ ProfileFrameStart(f) /\ Push(stack, f, entry[f]["call"])
  BY DEF CallFromInterpreter
<1>2. ~flag /\ ~pending /\ ~throwing /\ aim = 0 /\ frames = Depth
  BY <1>1, Quiet
<1>3. /\ stack \in Seq(Activations) /\ stack # <<>> /\ Nested(stack) /\ Safe(stack)
      /\ entry[f]["call"] = "code" => f \notin HasTry
      /\ Native(stack[Len(stack)]) => stack[Len(stack)].at = "callout"
  BY <1>1 DEF IInv, TypeOK, NoCodeWithHandlers, Forms, Top, Depth
<1>4. /\ stack' \in Seq(Activations) /\ stack' # <<>> /\ Depth' = Depth + 1
      /\ Nested(stack') /\ Safe(stack')
      /\ Top'.at = "run" /\ Top'.fn = f
      /\ \A d \in 1..Len(stack) : stack'[d].mapped # stack[d].mapped => stack[d].fn = f
  BY <1>1, <1>3, PushFacts DEF Depth
<1>5. /\ entry' \in [Fns -> [Forms -> {"none", "nullptr", "code"}]]
      /\ owned' \in [Fns -> [Forms -> BOOLEAN]]
      /\ calls' \in [Fns -> Nat]
      /\ NoCodeWithHandlers'
  BY <1>1, ProfileFacts DEF IInv
<1>6. /\ pending' = FALSE /\ throwing' = FALSE /\ aim' = 0 /\ flag' = FALSE
      /\ frames' = frames + 1
  BY <1>2 DEF CallFromInterpreter, Push, IInv, TypeOK
<1>7. TypeOK'
  <2>1. frames' \in Int /\ aim' \in Nat
    BY <1>6 DEF IInv, TypeOK
  <2>2. flag' \in BOOLEAN /\ pending' \in BOOLEAN /\ throwing' \in BOOLEAN
    BY <1>6
  <2> QED BY <1>4, <1>5, <2>1, <2>2, TypeStep
<1>8. Signals' /\ Aimed'
  BY <1>2, <1>4, <1>6, GoesOn
<1>9. UnmapsByRecursion
  BY <1>3, <1>4, LenProperties DEF UnmapsByRecursion, Depth, Top
<1> QED BY <1>4, <1>5, <1>7, <1>8, <1>9 DEF IInv

LEMMA CallFromMachineCodeStep ==
  ASSUME IInv, NEW f \in Fns, CallFromMachineCode(f)
  PROVE  IInv' /\ UnmapsByRecursion
<1>1. Running /\ Native(Top) /\ ProfileFrameStart(f)
  BY DEF CallFromMachineCode
<1>2. ~flag /\ ~pending /\ ~throwing /\ aim = 0 /\ frames = Depth
  BY <1>1, Quiet
<1> DEFINE a(kind) == Pin([Top EXCEPT !.at = "callout"], kind)
           s(kind) == [stack EXCEPT ![Depth] = a(kind)]
<1>3. PICK kind \in {"plain", "box"} : Push(s(kind), f, entry'[f]["call"])
  BY DEF CallFromMachineCode
<1>4. Depth \in Nat \ {0} /\ Top \in Activations
  BY Bottom DEF IInv
<1>5. /\ a(kind) \in Activations
      /\ a(kind).fn = Top.fn /\ a(kind).form = Top.form /\ a(kind).mapped = Top.mapped
      /\ a(kind).at = "callout" /\ a(kind).bailed = Top.bailed
      /\ a(kind).lost = Top.lost /\ a(kind).exposed = Top.exposed /\ a(kind).guarded = TRUE
  BY <1>4 DEF Pin, Activations
<1> HIDE DEF a
<1>6. /\ s(kind) \in Seq(Activations) /\ Len(s(kind)) = Depth
      /\ s(kind)[Depth] = a(kind)
      /\ \A d \in 1..Depth : d # Depth => s(kind)[d] = stack[d]
  BY <1>4, <1>5, ExceptSeq DEF IInv, TypeOK, Depth
<1> HIDE DEF s
<1>7. s(kind) # <<>>
  BY <1>4, <1>6, EmptySeq
<1>8. Nested(s(kind))
  <2>1. ~Top.bailed
    BY <1>1, Quiet
  <2>2. ASSUME NEW d \in 1..Len(s(kind))
        PROVE  /\ Native(s(kind)[d]) => s(kind)[d].fn \in Fns \ HasTry
               /\ ~Native(s(kind)[d]) => s(kind)[d].at = "run"
               /\ d < Len(s(kind)) /\ Native(s(kind)[d]) => s(kind)[d].at = "callout"
               /\ s(kind)[d].bailed => s(kind)[d].at = "left"
    <3>1. CASE d = Depth
      BY <3>1, <2>1, <1>1, <1>4, <1>5, <1>6 DEF IInv, Nested, Native, Top, Depth
    <3>2. CASE d # Depth
      BY <3>2, <1>4, <1>6 DEF IInv, Nested, Depth
    <3> QED BY <3>1, <3>2
  <2>3. s(kind)[1].fn = Main /\ ~Native(s(kind)[1])
    BY <1>1, <1>4, <1>5, <1>6 DEF IInv, Nested, Native, Top, Depth
  <2>4. \A d \in 2..Len(s(kind)) : s(kind)[d].fn \in Fns
    BY <1>4, <1>5, <1>6 DEF IInv, Nested, Top, Depth
  <2> QED BY <2>2, <2>3, <2>4 DEF Nested
<1>9. Safe(s(kind))
  BY <1>4, <1>5, <1>6 DEF IInv, Safe, Top, Depth
<1>10. /\ entry' \in [Fns -> [Forms -> {"none", "nullptr", "code"}]]
       /\ owned' \in [Fns -> [Forms -> BOOLEAN]]
       /\ calls' \in [Fns -> Nat]
       /\ NoCodeWithHandlers'
  BY <1>1, ProfileFacts DEF IInv
<1>11. entry'[f]["call"] = "code" => f \notin HasTry
  BY <1>10 DEF NoCodeWithHandlers, Forms
<1>12. /\ stack' \in Seq(Activations) /\ stack' # <<>> /\ Depth' = Depth + 1
       /\ Nested(stack') /\ Safe(stack')
       /\ Top'.at = "run" /\ Top'.fn = f
       /\ \A d \in 1..Depth : stack'[d].mapped # s(kind)[d].mapped => s(kind)[d].fn = f
  BY <1>3, <1>5, <1>6, <1>7, <1>8, <1>9, <1>11, PushFacts
<1>13. /\ pending' = FALSE /\ throwing' = FALSE /\ aim' = 0 /\ flag' = FALSE
       /\ frames' = frames + 1
  BY <1>2, <1>3 DEF CallFromMachineCode, Push, IInv, TypeOK
<1>14. TypeOK'
  <2>1. frames' \in Int /\ aim' \in Nat
    BY <1>13 DEF IInv, TypeOK
  <2>2. flag' \in BOOLEAN /\ pending' \in BOOLEAN /\ throwing' \in BOOLEAN
    BY <1>13
  <2> QED BY <1>10, <1>12, <2>1, <2>2, TypeStep
<1>15. Signals' /\ Aimed'
  BY <1>2, <1>12, <1>13, GoesOn
<1>16. UnmapsByRecursion
  <2>1. \A d \in 1..Depth : s(kind)[d].mapped = stack[d].mapped /\ s(kind)[d].fn = stack[d].fn
    BY <1>5, <1>6 DEF Top
  <2> QED BY <2>1, <1>4, <1>12, LenProperties DEF UnmapsByRecursion, Depth, Top
<1> QED BY <1>10, <1>12, <1>14, <1>15, <1>16 DEF IInv

LEMMA LeafCalloutStep ==
  ASSUME IInv, LeafCallout
  PROVE  IInv' /\ UnmapsByRecursion
<1>1. Running /\ Native(Top)
  BY DEF LeafCallout
<1>2. ~flag /\ ~pending /\ ~throwing /\ aim = 0 /\ frames = Depth
  BY <1>1, Quiet
<1>3. PICK s \in {stack, Sweep(stack)} : stack' = BackFromCallout(s, FALSE)
  BY DEF LeafCallout
<1>4. /\ stack \in Seq(Activations) /\ stack # <<>> /\ Nested(stack) /\ Safe(stack)
      /\ Depth \in Nat \ {0}
  BY Bottom DEF IInv, TypeOK
<1>5. s \in Seq(Activations) /\ Same(stack, s) /\ SameMemory(stack, s) /\ Safe(s)
  BY <1>4, SweepFacts DEF Same, SameMemory
<1>6. Nested(s) /\ s # <<>> /\ Native(s[Len(s)]) /\ Len(s) = Depth
  BY <1>1, <1>4, <1>5, NestedSame DEF Same, Top, Depth
<1>7. /\ stack' \in Seq(Activations) /\ Back(s, stack', FALSE)
      /\ SameMemory(s, stack') /\ Safe(stack')
  BY <1>3, <1>5, <1>6, BackFacts
<1>8. Nested(stack')
  BY <1>5, <1>6, <1>7, BackNested
<1>9. Depth' = Depth /\ Top'.at = "run" /\ stack' # <<>>
  BY <1>4, <1>6, <1>7, EmptySeq DEF Back, Top, Depth
<1>10. Signals' /\ Aimed'
  BY <1>2, <1>9, GoesOn DEF LeafCallout
<1>11. TypeOK' /\ NoCodeWithHandlers'
  BY <1>7, <1>9, TypeStep DEF LeafCallout, tables, IInv, TypeOK, NoCodeWithHandlers
<1>12. UnmapsByRecursion
  BY <1>4, <1>5, <1>6, <1>7, MemoryKept DEF SameMemory, Depth
<1> QED BY <1>7, <1>8, <1>10, <1>11, <1>12 DEF IInv

LEMMA CollectStep ==
  ASSUME IInv, Collect
  PROVE  IInv' /\ UnmapsByRecursion
<1>1. Running /\ ~Native(Top) /\ stack' = Sweep(stack)
  BY DEF Collect
<1>2. ~flag /\ ~pending /\ ~throwing /\ aim = 0 /\ frames = Depth
  BY <1>1, Quiet
<1>4. /\ stack \in Seq(Activations) /\ stack # <<>> /\ Nested(stack) /\ Safe(stack)
      /\ Depth \in Nat \ {0}
  BY Bottom DEF IInv, TypeOK
<1>5. /\ stack' \in Seq(Activations) /\ Same(stack, stack') /\ SameMemory(stack, stack')
      /\ Safe(stack')
  BY <1>1, <1>4, SweepFacts
<1>6. Nested(stack') /\ stack' # <<>>
  BY <1>4, <1>5, NestedSame
<1>7. Depth' = Depth /\ Top'.at = "run"
  BY <1>1, <1>4, <1>5 DEF Running, Same, Top, Depth
<1>8. Signals' /\ Aimed'
  BY <1>2, <1>7, GoesOn DEF Collect
<1>9. TypeOK' /\ NoCodeWithHandlers'
  BY <1>5, <1>6, TypeStep DEF Collect, tables, IInv, TypeOK, NoCodeWithHandlers
<1>10. UnmapsByRecursion
  BY <1>4, <1>5, MemoryKept DEF SameMemory
<1> QED BY <1>5, <1>6, <1>8, <1>9, <1>10 DEF IInv

\* The activation on top changes where it is.
LEMMA TopMoves ==
  ASSUME IInv, NEW a \in Activations, stack' = [stack EXCEPT ![Depth] = a],
         a.mapped = Top.mapped, a.fn = Top.fn, a.form = Top.form, a.lost = Top.lost, a.held = Top.held,
         a.guarded = Top.guarded, a.exposed = Top.exposed,
         Native(a), a.bailed => a.at = "left"
  PROVE  /\ stack' \in Seq(Activations) /\ stack' # <<>>
         /\ Nested(stack') /\ Safe(stack') /\ UnmapsByRecursion
         /\ Depth' = Depth /\ Top' = a
<1>1. Depth \in Nat \ {0} /\ stack \in Seq(Activations)
  BY Bottom DEF IInv, TypeOK
<1>2. /\ stack' \in Seq(Activations) /\ Len(stack') = Depth /\ stack'[Depth] = a
      /\ \A d \in 1..Depth : d # Depth => stack'[d] = stack[d]
  BY <1>1, ExceptSeq DEF Depth
<1>3. stack' # <<>>
  BY <1>1, <1>2, EmptySeq
<1>4. Nested(stack')
  <2>1. Native(Top)
    BY DEF Native
  <2>2. ASSUME NEW d \in 1..Len(stack')
        PROVE  /\ Native(stack'[d]) => stack'[d].fn \in Fns \ HasTry
               /\ ~Native(stack'[d]) => stack'[d].at = "run"
               /\ d < Len(stack') /\ Native(stack'[d]) => stack'[d].at = "callout"
               /\ stack'[d].bailed => stack'[d].at = "left"
    <3>1. CASE d = Depth
      BY <2>1, <3>1, <1>1, <1>2 DEF IInv, Nested, Top, Depth
    <3>2. CASE d # Depth
      BY <3>2, <1>1, <1>2 DEF IInv, Nested, Depth
    <3> QED BY <3>1, <3>2
  <2>3. Depth > 1
    BY <2>1, Bottom DEF IInv
  <2>4. \A d \in 2..Len(stack') : stack'[d].fn \in Fns
    BY <1>1, <1>2 DEF IInv, Nested, Top, Depth
  <2> QED BY <2>2, <2>3, <2>4, <1>1, <1>2 DEF IInv, Nested, Depth
<1>5. Safe(stack')
  BY ZenonT(60), <1>1, <1>2 DEF IInv, Safe, Top, Depth
<1>6. UnmapsByRecursion
  <2>1. ASSUME NEW d \in 1..Len(stack), stack[d].mapped, ~stack'[d].mapped PROVE FALSE
    <3>1. CASE d = Depth
      BY <2>1, <3>1, <1>2 DEF Top, Depth
    <3>2. CASE d # Depth
      BY <2>1, <3>2, <1>2 DEF Depth
    <3> QED BY <3>1, <3>2
  <2> QED BY <2>1, <1>1, LenProperties DEF UnmapsByRecursion
<1> QED BY <1>1, <1>2, <1>3, <1>4, <1>5, <1>6 DEF Depth, Top

LEMMA LeaveStep ==
  ASSUME IInv, ReturnInstruction \/ BailOut
  PROVE  IInv' /\ UnmapsByRecursion
<1> DEFINE a(b) == [Top EXCEPT !.at = "left", !.bailed = b]
<1>1. Running /\ Native(Top)
  BY DEF ReturnInstruction, BailOut
<1>2. ~flag /\ ~pending /\ ~throwing /\ aim = 0 /\ frames = Depth /\ ~Top.bailed
  BY <1>1, Quiet
<1>3. Depth \in Nat \ {0} /\ Top \in Activations /\ stack \in Seq(Activations)
  BY Bottom DEF IInv, TypeOK
<1>4. PICK b \in BOOLEAN :
        /\ stack' = [stack EXCEPT ![Depth] = a(b)]
        /\ flag' = b
  <2>1. CASE ReturnInstruction
    <3>1. [Top EXCEPT !.at = "left"] = [Top EXCEPT !.at = "left", !.bailed = FALSE]
      BY <1>2, <1>3 DEF Activations
    <3>2. stack' = [stack EXCEPT ![Depth] = [Top EXCEPT !.at = "left"]] /\ flag' = flag
      BY <2>1 DEF ReturnInstruction, Top
    <3> QED BY <1>2, <3>1, <3>2 DEF IInv, TypeOK
  <2>2. CASE BailOut
    <3>1. stack' = [stack EXCEPT ![Depth] = [[Top EXCEPT !.at = "left"] EXCEPT !.bailed = TRUE]]
      BY <2>2, <1>3, LenProperties DEF BailOut, Top, Depth
    <3> QED BY <2>2, <3>1 DEF BailOut
  <2> QED BY <2>1, <2>2
<1>5. /\ a(b) \in Activations
      /\ a(b).fn = Top.fn /\ a(b).form = Top.form /\ a(b).mapped = Top.mapped
      /\ a(b).lost = Top.lost /\ a(b).held = Top.held
      /\ a(b).guarded = Top.guarded /\ a(b).exposed = Top.exposed
      /\ a(b).at = "left" /\ a(b).bailed = b
  BY <1>3 DEF Activations
<1> HIDE DEF a
<1>6. /\ stack' \in Seq(Activations) /\ stack' # <<>>
      /\ Nested(stack') /\ Safe(stack') /\ UnmapsByRecursion
      /\ Depth' = Depth /\ Top'.at = "left" /\ Top'.bailed = b
  BY <1>1, <1>4, <1>5, TopMoves DEF Native
<1>7. UNCHANGED <<frames, tables, pending, throwing, aim>>
  BY DEF ReturnInstruction, BailOut
<1>8. TypeOK' /\ NoCodeWithHandlers'
  BY <1>4, <1>6, <1>7, TypeStep DEF tables, IInv, TypeOK, NoCodeWithHandlers
<1>9. Signals'
  BY <1>2, <1>4, <1>6, <1>7 DEF Signals
<1>10. Aimed'
  BY <1>2, <1>6, <1>7 DEF Aimed
<1> QED BY <1>6, <1>8, <1>9, <1>10 DEF IInv

LEMMA BackInCallerStep ==
  ASSUME IInv, Returned \/ ReturnOpcode
  PROVE  IInv' /\ UnmapsByRecursion
<1>1. /\ Depth \in Nat \ {0} /\ Top \in Activations /\ stack \in Seq(Activations)
      /\ Nested(stack) /\ Safe(stack)
  BY Bottom DEF IInv, TypeOK
<1>2. /\ Depth > 1 /\ ~flag /\ ~pending /\ ~throwing /\ aim = 0 /\ frames = Depth
      /\ stack' = ReturnTo(Front(stack)) /\ frames' = frames - 1
      /\ UNCHANGED <<tables, flag, pending, throwing, aim>>
  <2>1. CASE Returned
    <3>1. Native(Top)
      BY <1>1, <2>1 DEF Returned, Nested, Top, Depth
    <3>2. Depth > 1
      BY <3>1, <1>1, Bottom DEF IInv
    <3> QED BY <2>1, <3>2 DEF Returned, IInv, Signals, Aimed
  <2>2. CASE ReturnOpcode
    BY <2>2, Quiet DEF ReturnOpcode
  <2> QED BY <2>1, <2>2
<1>3. /\ stack' \in Seq(Activations) /\ stack' # <<>> /\ Len(stack') = Depth - 1
      /\ Nested(stack') /\ Safe(stack') /\ Top'.at = "run"
      /\ \A d \in 1..Len(stack') : stack'[d].mapped = stack[d].mapped
  <2>1. Len(stack) > 1
    BY <1>2 DEF Depth
  <2> QED BY <2>1, <1>1, <1>2, ReturnFacts DEF Depth, Top
<1>4. Signals' /\ Aimed'
  BY <1>2, <1>3, GoesOn DEF Depth
<1>5. TypeOK' /\ NoCodeWithHandlers'
  BY <1>2, <1>3, TypeStep DEF tables, IInv, TypeOK, NoCodeWithHandlers
<1>6. UnmapsByRecursion
  BY <1>1, <1>3, MemoryKept
<1> QED BY <1>3, <1>4, <1>5, <1>6 DEF IInv

LEMMA HotLoopStep ==
  ASSUME IInv, HotLoop
  PROVE  IInv' /\ UnmapsByRecursion
<1>1. /\ Running /\ ~Native(Top) /\ Top.fn \in Fns
      /\ UNCHANGED <<frames, calls, pending, throwing, aim>>
  BY DEF HotLoop
<1>2. ~flag /\ ~pending /\ ~throwing /\ aim = 0 /\ frames = Depth /\ ~Top.bailed
  BY <1>1, Quiet
<1>3. /\ Depth \in Nat \ {0} /\ Top \in Activations /\ stack \in Seq(Activations)
      /\ Nested(stack) /\ Safe(stack) /\ stack # <<>>
  BY Bottom DEF IInv, TypeOK
<1>4. /\ entry' \in [Fns -> [Forms -> {"none", "nullptr", "code"}]]
      /\ owned' \in [Fns -> [Forms -> BOOLEAN]]
      /\ NoCodeWithHandlers'
  <2>1. CASE entry[Top.fn]["osr"] = "none"
    <3>1. CompileForm(Top.fn, "osr")
      BY <2>1 DEF HotLoop
    <3> QED BY <1>1, <3>1, CompileFacts DEF IInv, Forms
  <2>2. CASE entry[Top.fn]["osr"] # "none"
    BY <2>2 DEF HotLoop, IInv, TypeOK, NoCodeWithHandlers
  <2> QED BY <2>1, <2>2
<1>5. flag' = FALSE
  BY <1>2 DEF HotLoop
<1>6. stack' \in Seq(Activations) /\ stack' # <<>> /\ Depth' = Depth /\ Top'.at = "run"
        => TypeOK' /\ Signals' /\ Aimed'
  <2> SUFFICES ASSUME stack' \in Seq(Activations), stack' # <<>>, Depth' = Depth,
                      Top'.at = "run"
               PROVE  TypeOK' /\ Signals' /\ Aimed'
    OBVIOUS
  <2>1. TypeOK'
    <3>1. flag' \in BOOLEAN
      BY <1>5
    <3> QED BY <1>1, <1>4, <3>1, TypeStep DEF IInv, TypeOK
  <2> QED BY <2>1, <1>1, <1>2, <1>5, GoesOn
<1>7. CASE entry'[Top.fn]["osr"] # "code"
  <2>1. stack' = stack
    BY <1>7 DEF HotLoop
  <2>2. UnmapsByRecursion
    BY <2>1, <1>3, MemoryKept
  <2> QED BY <1>1, <1>3, <1>4, <1>6, <2>1, <2>2 DEF IInv, Running, Top, Depth
<1>8. CASE entry'[Top.fn]["osr"] = "code"
  <2> DEFINE s == AfterCompile(stack, Top.fn, "osr")
             a == [s[Depth] EXCEPT !.form = "osr"]
  <2>1. /\ s \in Seq(Activations) /\ Same(stack, s) /\ Safe(s)
        /\ \A d \in 1..Len(stack) : s[d].mapped # stack[d].mapped => stack[d].fn = Top.fn
    BY <1>3, AfterCompileFacts
  <2>2. Nested(s) /\ s # <<>> /\ Len(s) = Depth /\ \A d \in 1..Depth : s[d] \in Activations
    BY <2>1, <1>3, NestedSame, ElementOfSeq DEF Same, Depth
  <2>3. stack' = [s EXCEPT ![Depth] = a]
    BY <1>8 DEF HotLoop
  <2> HIDE DEF s
  <2>4. /\ a \in Activations /\ a.fn = Top.fn /\ Native(a) /\ a.at = "run"
        /\ a.bailed = s[Depth].bailed /\ a.mapped = s[Depth].mapped
        /\ a.lost = s[Depth].lost /\ a.held = s[Depth].held
        /\ a.guarded = s[Depth].guarded /\ a.exposed = s[Depth].exposed
    <3>1. s[Depth] \in Activations /\ s[Depth].fn = Top.fn /\ s[Depth].at = "run"
      BY <2>1, <2>2, <1>1, <1>3 DEF Same, Running, Top, Depth
    <3> QED BY <3>1 DEF Activations, Native, Forms
  <2> HIDE DEF a
  <2>5. /\ stack' \in Seq(Activations) /\ Len(stack') = Depth /\ stack'[Depth] = a
        /\ \A d \in 1..Depth : d # Depth => stack'[d] = s[d]
    BY <1>3, <2>1, <2>2, <2>3, <2>4, ExceptSeq
  <2>6. stack' # <<>> /\ Depth' = Depth /\ Top'.at = "run"
    BY <1>3, <2>4, <2>5, EmptySeq DEF Depth, Top
  <2>7. Top.fn \notin HasTry
    BY <1>1, <1>4, <1>8 DEF NoCodeWithHandlers, Forms
  <2>8. Depth > 1 /\ ~s[Depth].bailed
    BY <1>1, <1>2, <1>3, <2>1, JitAssumption DEF Nested, Same, Top, Depth
  <2>9. Nested(stack')
    <3>1. ASSUME NEW d \in 1..Len(stack')
          PROVE  /\ Native(stack'[d]) => stack'[d].fn \in Fns \ HasTry
                 /\ ~Native(stack'[d]) => stack'[d].at = "run"
                 /\ d < Len(stack') /\ Native(stack'[d]) => stack'[d].at = "callout"
                 /\ stack'[d].bailed => stack'[d].at = "left"
      <4>1. CASE d = Depth
        BY <4>1, <1>1, <1>3, <2>4, <2>5, <2>7, <2>8
      <4>2. CASE d # Depth
        BY <4>2, <1>3, <2>2, <2>5 DEF Nested
      <4> QED BY <4>1, <4>2
    <3>2. \A d \in 2..Len(stack') : stack'[d].fn \in Fns
      BY <1>1, <1>3, <2>2, <2>4, <2>5 DEF Nested
    <3> QED BY <3>1, <3>2, <1>3, <2>2, <2>5, <2>8 DEF Nested
  <2>10. Safe(stack')
    BY <1>3, <2>1, <2>2, <2>4, <2>5 DEF Safe
  <2>11. UnmapsByRecursion
    <3>1. ASSUME NEW d \in 1..Len(stack), Native(stack[d]), stack[d].mapped, ~stack'[d].mapped
          PROVE  d < Depth /\ Top.fn = stack[d].fn
      <4>1. d # Depth
        BY <3>1, <1>1 DEF Top, Depth
      <4>2. stack'[d] = s[d]
        BY <4>1, <2>5 DEF Depth
      <4> QED BY <3>1, <4>1, <4>2, <1>3, <2>1 DEF Depth
    <3> QED BY <3>1, <1>3, LenProperties DEF UnmapsByRecursion
  <2> QED BY <1>4, <1>6, <2>5, <2>6, <2>9, <2>10, <2>11 DEF IInv
<1> QED BY <1>7, <1>8

LEMMA InvalidateJITStep ==
  ASSUME IInv, InvalidateJIT
  PROVE  IInv' /\ UnmapsByRecursion
<1>1. entry' \in [Fns -> [Forms -> {"none", "nullptr", "code"}]] /\ NoCodeWithHandlers'
  BY DEF InvalidateJIT, NoCodeWithHandlers
<1>2. UNCHANGED <<stack, frames, calls, owned, flag, pending, throwing, aim>>
  BY DEF InvalidateJIT
<1>3. TypeOK'
  BY <1>1, <1>2, TypeStep DEF IInv, TypeOK
<1>4. UnmapsByRecursion
  BY <1>2, MemoryKept DEF IInv, TypeOK
<1> QED BY <1>1, <1>2, <1>3, <1>4 DEF IInv, Signals, Aimed, Top, Depth

-----------------------------------------------------------------------------
(* Exceptions.                                                               *)
LEMMA Largest ==
  ASSUME NEW n \in Nat, NEW S, S \subseteq 1..n, S # {}
  PROVE  \E m \in S : \A k \in S : k <= m
<1> DEFINE Above(k) == {j \in S : j > k}
           F == {Above(k) : k \in S}
           R == StrictSubsetOrdering(S)
<1>1. \A k \in S : k \in Nat
  OBVIOUS
<1>2. F \subseteq FiniteSubsetsOf(S)
  <2>1. IsFiniteSet(1..n)
    BY FS_Interval
  <2>2. IsFiniteSet(S)
    BY <2>1, FS_Subset
  <2> QED BY <2>2, FS_Subset DEF FiniteSubsetsOf
<1>3. F # {}
  OBVIOUS
<1>4. \E x \in F : \A y \in F : ~(<<y, x>> \in R)
  <2> HIDE DEF R, F
  <2>1. IsWellFoundedOn(R, FiniteSubsetsOf(S))
    BY FS_StrictSubsetOrderingWellFounded DEF R
  <2> QED BY <1>2, <1>3, <2>1, WFMin, Zenon
<1>5. PICK m \in S : \A k \in S : ~(<<Above(k), Above(m)>> \in R)
  BY <1>4
<1>6. ASSUME NEW k \in S, k > m PROVE FALSE
  <2>1. \A j \in S : j > k => j > m
    BY <1>1, <1>6
  <2>2. k \in Above(m) /\ k \notin Above(k)
    BY <1>1, <1>6
  <2>3. Above(k) \subseteq Above(m)
    BY <2>1
  <2>4. Above(k) \in SUBSET S /\ Above(m) \in SUBSET S /\ Above(k) # Above(m)
    BY <2>2
  <2> HIDE DEF Above
  <2>5. <<Above(k), Above(m)>> \in R
    BY <2>3, <2>4 DEF StrictSubsetOrdering
  <2> QED BY <2>5, <1>5
<1> QED BY <1>1, <1>6

LEMMA NearestFacts ==
  ASSUME TypeOK, Nested(stack)
  PROVE  /\ Nearest(stack) \in 1..Depth /\ Handles(stack[Nearest(stack)])
         /\ \A e \in 1..Depth : Handles(stack[e]) => e <= Nearest(stack)
<1> DEFINE H == {d \in 1..Depth : Handles(stack[d])}
<1>1. Depth \in Nat \ {0} /\ DOMAIN stack = 1..Depth
  BY Bottom, LenProperties DEF TypeOK, Depth
<1>2. 1 \in H
  BY <1>1 DEF Nested, Handles
<1>3. \E m \in H : \A k \in H : k <= m
  <2>1. H \subseteq 1..Depth
    OBVIOUS
  <2> HIDE DEF H
  <2> QED BY <1>1, <1>2, <2>1, Largest
<1>4. \E d \in DOMAIN stack : /\ Handles(stack[d])
                              /\ \A e \in DOMAIN stack : Handles(stack[e]) => e <= d
  BY <1>1, <1>3
<1>5. /\ Nearest(stack) \in DOMAIN stack /\ Handles(stack[Nearest(stack)])
      /\ \A e \in DOMAIN stack : Handles(stack[e]) => e <= Nearest(stack)
  <2> HIDE DEF Handles
  <2> QED BY <1>4 DEF Nearest
<1> QED BY <1>1, <1>5

LEMMA AimedAt ==
  ASSUME Depth' \in Nat, NEW n \in 1..Depth', aim' = n, throwing' \/ pending',
         Handles(stack'[n]), \A e \in 1..Depth' : Handles(stack'[e]) => e <= n
  PROVE  Aimed'
<1>1. \A e \in (n + 1)..Depth' : e \in 1..Depth' /\ ~(e <= n)
  OBVIOUS
<1>2. n # 0
  OBVIOUS
<1> HIDE DEF Handles
<1> QED BY <1>1, <1>2 DEF Aimed

LEMMA ThrowStep ==
  ASSUME IInv, Throw
  PROVE  IInv' /\ UnmapsByRecursion
<1>1. /\ Running /\ ~Native(Top) /\ throwing' = TRUE /\ aim' = Nearest(stack)
      /\ UNCHANGED <<stack, frames, tables, flag, pending>>
  BY DEF Throw
<1>2. ~flag /\ ~pending /\ Top.at = "run"
  BY <1>1, Quiet DEF Running
<1>3. /\ aim' \in 1..Depth /\ Handles(stack[aim'])
      /\ \A e \in 1..Depth : Handles(stack[e]) => e <= aim'
  BY <1>1, NearestFacts DEF IInv
<1>4. aim' \in Nat /\ aim' # 0
  BY <1>3, Bottom DEF IInv
<1>5. Signals' /\ Aimed'
  <2>1. Signals'
    BY <1>1, <1>2 DEF Signals, Top, Depth, Native
  <2>2. Depth' = Depth /\ Depth \in Nat /\ stack' = stack /\ throwing'
    BY <1>1, Bottom DEF IInv, Depth
  <2> QED BY <1>3, <2>1, <2>2, AimedAt
<1>6. TypeOK' /\ NoCodeWithHandlers'
  <2>1. throwing' \in BOOLEAN
    BY <1>1
  <2> QED BY <2>1, <1>1, <1>4, TypeStep DEF tables, IInv, TypeOK, NoCodeWithHandlers
<1>7. UnmapsByRecursion
  BY <1>1, MemoryKept DEF IInv, TypeOK
<1> QED BY <1>1, <1>5, <1>6, <1>7 DEF IInv

\* A callout throws, or what it called does: machine code bails out with the
\* exception pending.
LEMMA CalloutBails ==
  ASSUME IInv, Native(Top), stack' = BackFromCallout(stack, TRUE),
         flag' = TRUE, pending' = TRUE, throwing' = FALSE,
         UNCHANGED <<frames, tables>>,
         NEW n \in 1..Depth, aim' = n, Handles(stack[n]),
         \A e \in 1..Depth : Handles(stack[e]) => e <= n
  PROVE  IInv' /\ UnmapsByRecursion
<1>1. /\ Depth \in Nat \ {0} /\ stack \in Seq(Activations)
      /\ Nested(stack) /\ Safe(stack) /\ stack # <<>>
  BY Bottom DEF IInv, TypeOK
<1>2. /\ stack' \in Seq(Activations) /\ Back(stack, stack', TRUE)
      /\ SameMemory(stack, stack') /\ Safe(stack')
  BY <1>1, BackFacts
<1>3. Nested(stack')
  BY <1>1, <1>2, BackNested DEF Top, Depth
<1>4. Depth' = Depth /\ Top'.at = "left" /\ Top'.bailed = TRUE /\ stack' # <<>>
  BY <1>1, <1>2, EmptySeq DEF Back, Top, Depth
<1>5. \A d \in 1..Depth : Handles(stack'[d]) <=> Handles(stack[d])
  BY <1>2 DEF Back, Handles, Native, Depth
<1>6. aim' \in Nat /\ aim' # 0 /\ n \in Nat
  BY <1>1
<1>7. Signals'
  BY <1>4 DEF Signals
<1>8. Aimed'
  <2>1. Handles(stack'[n]) /\ \A e \in 1..Depth : Handles(stack'[e]) => e <= n
    BY <1>5, Zenon
  <2> QED BY <1>1, <1>4, <2>1, AimedAt
<1>9. TypeOK' /\ NoCodeWithHandlers'
  <2>1. flag' \in BOOLEAN /\ pending' \in BOOLEAN /\ throwing' \in BOOLEAN
    OBVIOUS
  <2> QED BY <2>1, <1>2, <1>4, <1>6, TypeStep DEF tables, IInv, TypeOK, NoCodeWithHandlers
<1>10. UnmapsByRecursion
  BY <1>1, <1>2, MemoryKept DEF SameMemory
<1> QED BY <1>2, <1>3, <1>7, <1>8, <1>9, <1>10 DEF IInv

LEMMA CalloutThrowsStep ==
  ASSUME IInv, CalloutThrows
  PROVE  IInv' /\ UnmapsByRecursion
<1>1. /\ Native(Top) /\ stack' = BackFromCallout(stack, TRUE) /\ flag' = TRUE
      /\ pending' = TRUE /\ aim' = Nearest(stack) /\ UNCHANGED <<frames, tables>>
  BY DEF CalloutThrows
<1>2. throwing' = FALSE
  BY DEF CalloutThrows, Running, IInv, TypeOK
<1>3. /\ Nearest(stack) \in 1..Depth /\ Handles(stack[Nearest(stack)])
      /\ \A e \in 1..Depth : Handles(stack[e]) => e <= Nearest(stack)
  BY NearestFacts DEF IInv
<1> QED BY <1>1, <1>2, <1>3, CalloutBails

LEMMA CalloutCatchStep ==
  ASSUME IInv, CalloutCatch
  PROVE  IInv' /\ UnmapsByRecursion
<1>1. /\ throwing /\ Top.at = "callout"
      /\ stack' = BackFromCallout(stack, TRUE) /\ flag' = TRUE
      /\ pending' = TRUE /\ throwing' = FALSE /\ UNCHANGED <<frames, tables, aim>>
  BY DEF CalloutCatch
<1>2. Native(Top)
  BY <1>1, Bottom DEF IInv, Nested, Top, Depth
<1>3. /\ aim \in 1..Depth /\ Handles(stack[aim])
      /\ \A e \in 1..Depth : Handles(stack[e]) => e <= aim
  <2>1. /\ aim \in 1..Depth /\ Handles(stack[aim])
        /\ \A e \in (aim + 1)..Depth : ~Handles(stack[e])
    BY <1>1 DEF IInv, Aimed
  <2> QED BY <2>1, Bottom DEF IInv
<1> QED BY <1>1, <1>2, <1>3, CalloutBails

\* The activation on top is left behind by an exception.
LEMMA LeftBehind ==
  ASSUME IInv, throwing \/ pending, ~Handles(Top),
         NEW s \in Seq(Activations), Same(stack, s), Nested(s), Safe(s), stack' = Front(s),
         throwing' = TRUE, pending' = FALSE, flag' = FALSE, aim' = aim
  PROVE  /\ stack' \in Seq(Activations) /\ stack' # <<>>
         /\ Nested(stack') /\ Safe(stack') /\ Signals' /\ Aimed'
         /\ Depth > 1 /\ Depth' = Depth - 1
         /\ \A d \in 1..Depth' : stack'[d] = s[d]
<1>1. /\ Depth \in Nat \ {0} /\ Len(s) = Depth
      /\ \A d \in 1..Depth : Handles(s[d]) <=> Handles(stack[d])
  BY Bottom, NestedSame DEF IInv, TypeOK, Same, Depth
<1>2. /\ aim # 0 /\ aim \in 1..Depth /\ Handles(stack[aim])
      /\ \A e \in (aim + 1)..Depth : ~Handles(stack[e])
  BY DEF IInv, Aimed
<1>3. aim # Depth
  BY <1>2 DEF Top
<1>4. Depth > 1
  BY <1>1, <1>2, <1>3
<1>5. /\ stack' \in Seq(Activations) /\ stack' # <<>> /\ Depth' = Depth - 1
      /\ \A d \in 1..(Depth - 1) : stack'[d] = s[d]
      /\ Safe(stack')
  BY <1>1, <1>4, FrontFacts DEF Depth
<1>6. Nested(stack')
  BY <1>1, <1>4, NestedFront
<1>7. Top' = s[Depth - 1]
  BY <1>1, <1>4, <1>5 DEF Top
<1>8. \/ Native(Top') /\ Top'.at = "callout" /\ ~Top'.bailed
      \/ ~Native(Top') /\ Top'.at = "run" /\ ~Top'.bailed
  BY <1>1, <1>4, <1>7 DEF Nested
<1>9. Signals'
  BY <1>8 DEF Signals, Native
<1>10. Aimed'
  <2>1. aim \in 1..Depth' /\ Depth' \in Nat
    BY <1>1, <1>2, <1>3, <1>4, <1>5
  <2>2. Handles(stack'[aim]) /\ \A e \in 1..Depth' : Handles(stack'[e]) => e <= aim
    <3>1. Handles(stack'[aim])
      BY <1>1, <1>2, <1>5, <2>1
    <3>2. ASSUME NEW e \in 1..Depth', Handles(stack'[e]) PROVE e <= aim
      BY <1>1, <1>2, <1>4, <1>5, <3>2
    <3> QED BY <3>1, <3>2
  <2> QED BY <2>1, <2>2, AimedAt
<1> QED BY <1>4, <1>5, <1>6, <1>9, <1>10

LEMMA UnwindStep ==
  ASSUME IInv, Unwind
  PROVE  IInv' /\ UnmapsByRecursion
<1>1. /\ throwing /\ ~Handles(Top) /\ stack' = Front(stack)
      /\ UNCHANGED <<tables, flag, pending, throwing, aim>>
      /\ frames' \in {Depth - 1, frames}
  BY DEF Unwind
<1>2. throwing' = TRUE /\ pending' = FALSE /\ flag' = FALSE
  BY <1>1 DEF IInv, TypeOK, Signals
<1>3. /\ stack' \in Seq(Activations) /\ stack' # <<>>
      /\ Nested(stack') /\ Safe(stack') /\ Signals' /\ Aimed'
      /\ Depth > 1 /\ Depth' = Depth - 1
      /\ \A d \in 1..Depth' : stack'[d] = stack[d]
  BY <1>1, <1>2, LeftBehind DEF IInv, TypeOK, Same
<1>4. frames' \in Int
  BY <1>1, Bottom DEF IInv, TypeOK
<1>5. TypeOK' /\ NoCodeWithHandlers'
  BY <1>1, <1>3, <1>4, TypeStep DEF tables, IInv, TypeOK, NoCodeWithHandlers
<1>6. UnmapsByRecursion
  BY <1>3, MemoryKept DEF IInv, TypeOK, Depth
<1> QED BY <1>3, <1>5, <1>6 DEF IInv

LEMMA CatchStep ==
  ASSUME IInv, Catch
  PROVE  IInv' /\ UnmapsByRecursion
<1>1. /\ throwing /\ Handles(Top) /\ throwing' = FALSE /\ aim' = 0 /\ frames' = Depth
      /\ UNCHANGED <<stack, tables, flag, pending>>
  BY DEF Catch
<1>2. ~flag /\ ~pending /\ Top.at = "run"
  BY <1>1, Bottom DEF IInv, Signals, Nested, Handles, Top, Depth
<1>3. Signals' /\ Aimed'
  BY <1>1, <1>2, GoesOn DEF Top, Depth
<1>4. TypeOK' /\ NoCodeWithHandlers'
  <2>1. throwing' \in BOOLEAN
    BY <1>1
  <2>2. frames' \in Int /\ aim' \in Nat
    BY <1>1, Bottom DEF IInv
  <2> QED BY <2>1, <2>2, <1>1, TypeStep DEF tables, IInv, TypeOK, NoCodeWithHandlers
<1>5. UnmapsByRecursion
  BY <1>1, MemoryKept DEF IInv, TypeOK
<1> QED BY <1>1, <1>3, <1>4, <1>5 DEF IInv

\* An activation that bailed out goes on in the interpreter, or is left behind
\* when a callout had thrown.
LEMMA DeoptimizedStep ==
  ASSUME IInv, Deoptimized
  PROVE  IInv' /\ UnmapsByRecursion
<1>1. /\ ~throwing /\ Top.at = "left" /\ flag /\ flag' = FALSE
      /\ pending' = FALSE /\ throwing' = pending /\ UNCHANGED <<frames, aim>>
      /\ entry' = [entry EXCEPT ![Top.fn][Top.form] = "nullptr"]
      /\ owned' = [owned EXCEPT ![Top.fn][Top.form] = FALSE]
      /\ calls' = [calls EXCEPT ![Top.fn] = IF Top.form = "call" THEN 0 ELSE @]
      /\ stack' = Resume(Unmap(stack, Top.fn, Top.form))
  BY DEF Deoptimized, GiveUpCode
<1>2. /\ Depth \in Nat \ {0} /\ Top \in Activations /\ stack \in Seq(Activations)
      /\ stack # <<>> /\ Nested(stack) /\ Safe(stack)
  BY Bottom DEF IInv, TypeOK
<1>3. Native(Top) /\ Top.fn \in Fns /\ Top.fn \notin HasTry /\ Top.form \in Forms
  BY <1>1, <1>2 DEF Nested, Native, Top, Depth
<1>4. ~Handles(Top)
  BY <1>3 DEF Handles
<1> DEFINE s == Unmap(stack, Top.fn, Top.form)
<1>5. /\ s \in Seq(Activations) /\ Same(stack, s) /\ Safe(s)
      /\ \A d \in 1..Depth : s[d].mapped # stack[d].mapped => stack[d].fn = Top.fn
  BY <1>2, UnmapFacts DEF Depth
<1>6. Nested(s) /\ s # <<>> /\ Len(s) = Depth
  BY <1>2, <1>5, NestedSame DEF Same, Depth
<1> HIDE DEF s
<1>7. /\ entry' \in [Fns -> [Forms -> {"none", "nullptr", "code"}]]
      /\ owned' \in [Fns -> [Forms -> BOOLEAN]]
      /\ calls' \in [Fns -> Nat]
      /\ NoCodeWithHandlers'
  <2>1. entry' \in [Fns -> [Forms -> {"none", "nullptr", "code"}]] /\ NoCodeWithHandlers'
    BY <1>1, <1>3 DEF IInv, TypeOK, NoCodeWithHandlers
  <2>2. owned' \in [Fns -> [Forms -> BOOLEAN]]
    <3>1. [owned[Top.fn] EXCEPT ![Top.form] = FALSE] \in [Forms -> BOOLEAN]
      BY <1>3 DEF IInv, TypeOK
    <3>2. owned' = [owned EXCEPT ![Top.fn] = [owned[Top.fn] EXCEPT ![Top.form] = FALSE]]
      BY <1>1
    <3> QED BY <3>1, <3>2 DEF IInv, TypeOK
  <2>3. calls' \in [Fns -> Nat]
    BY <1>1, <1>3 DEF IInv, TypeOK
  <2> QED BY <2>1, <2>2, <2>3
<1>8. ASSUME stack' \in Seq(Activations), stack' # <<>>,
             Nested(stack'), Safe(stack'), Signals', Aimed',
             \A d \in 1..Depth : d \in 1..Depth' =>
                stack'[d].mapped \/ (d < Depth /\ stack'[d].mapped = s[d].mapped)
      PROVE  IInv' /\ UnmapsByRecursion
  <2>1. flag' \in BOOLEAN /\ pending' \in BOOLEAN /\ throwing' \in BOOLEAN
    BY <1>1 DEF IInv, TypeOK
  <2>2. TypeOK'
    BY <1>1, <1>7, <1>8, <2>1, TypeStep DEF IInv, TypeOK
  <2>3. UnmapsByRecursion
    <3>1. DOMAIN stack = 1..Depth /\ DOMAIN stack' = 1..Depth'
      BY <1>2, <1>8, LenProperties DEF Depth
    <3>2. ASSUME NEW d \in 1..Depth, d \in 1..Depth', stack[d].mapped, ~stack'[d].mapped
          PROVE  d < Depth /\ Top.fn = stack[d].fn
      BY <3>2, <1>5, <1>8
    <3> QED BY <3>1, <3>2 DEF UnmapsByRecursion
  <2> QED BY <1>7, <1>8, <2>2, <2>3 DEF IInv
<1>9. CASE pending /\ Top.form = "call"
  <2>1. stack' = Front(s) /\ throwing' = TRUE
    BY <1>1, <1>9 DEF Resume, s, IInv, TypeOK
  <2>2. /\ stack' \in Seq(Activations) /\ stack' # <<>>
        /\ Nested(stack') /\ Safe(stack') /\ Signals' /\ Aimed'
        /\ Depth > 1 /\ Depth' = Depth - 1
        /\ \A d \in 1..Depth' : stack'[d] = s[d]
    BY <1>1, <1>4, <1>5, <1>6, <1>9, <2>1, LeftBehind
  <2>3. \A d \in 1..Depth : d \in 1..Depth' => d < Depth
    BY <1>2, <2>2
  <2> QED BY <2>2, <2>3, <1>8
<1>10. CASE ~(pending /\ Top.form = "call")
  <2> DEFINE a == Activation(Top.fn, "interpreter")
  <2>1. stack' = [s EXCEPT ![Depth] = a]
    BY <1>1, <1>10 DEF Resume, s
  <2>2. /\ a \in Activations /\ a.fn = Top.fn /\ ~Native(a) /\ a.at = "run"
        /\ a.bailed = FALSE /\ a.lost = FALSE /\ a.held = "none" /\ a.mapped = TRUE
    BY <1>3, ActivationType DEF Activation, Native, Forms
  <2> HIDE DEF a
  <2>3. /\ stack' \in Seq(Activations) /\ Len(stack') = Depth /\ stack'[Depth] = a
        /\ \A d \in 1..Depth : d # Depth => stack'[d] = s[d]
    BY <1>2, <1>5, <1>6, <2>1, <2>2, ExceptSeq
  <2>4. stack' # <<>> /\ Depth' = Depth /\ Top' = a
    BY <1>2, <2>3, EmptySeq DEF Depth, Top
  <2>5. Depth > 1
    BY <1>3, Bottom DEF IInv
  <2>6. Nested(stack')
    <3>1. ASSUME NEW d \in 1..Len(stack')
          PROVE  /\ Native(stack'[d]) => stack'[d].fn \in Fns \ HasTry
                 /\ ~Native(stack'[d]) => stack'[d].at = "run"
                 /\ d < Len(stack') /\ Native(stack'[d]) => stack'[d].at = "callout"
                 /\ stack'[d].bailed => stack'[d].at = "left"
      <4>1. CASE d = Depth
        BY <4>1, <2>2, <2>3
      <4>2. CASE d # Depth
        BY <4>2, <1>2, <1>6, <2>3 DEF Nested
      <4> QED BY <4>1, <4>2
    <3>2. \A d \in 2..Len(stack') : stack'[d].fn \in Fns
      BY <1>2, <1>3, <1>6, <2>2, <2>3 DEF Nested
    <3> QED BY <3>1, <3>2, <1>2, <1>6, <2>3, <2>5 DEF Nested
  <2>7. Safe(stack')
    BY <1>2, <1>5, <1>6, <2>2, <2>3 DEF Safe
  <2>8. Signals'
    BY <1>1, <2>2, <2>4 DEF Signals
  <2>9. Aimed'
    <3>1. CASE pending
      <4>1. /\ aim # 0 /\ aim \in 1..Depth /\ Handles(stack[aim])
            /\ \A e \in (aim + 1)..Depth : ~Handles(stack[e])
        BY <3>1 DEF IInv, Aimed
      <4>2. \A d \in 1..Depth : Handles(s[d]) <=> Handles(stack[d])
        BY <1>2, <1>5, NestedSame DEF Depth
      <4>3. ~Handles(a)
        BY <1>3, <2>2, JitAssumption DEF Handles
      <4>4. Handles(stack'[aim])
        BY <1>4, <2>3, <4>1, <4>2 DEF Top
      <4>5. ASSUME NEW e \in 1..Depth, Handles(stack'[e]) PROVE e <= aim
        <5>1. e # Depth
          BY <2>3, <4>3, <4>5
        <5>2. Handles(stack[e])
          BY <2>3, <4>2, <4>5, <5>1
        <5> QED BY <1>2, <4>1, <5>2
      <4>6. throwing' \/ pending'
        BY <1>1, <3>1
      <4>7. Depth' \in Nat /\ aim \in 1..Depth' /\ aim' = aim
        BY <1>1, <1>2, <2>4, <4>1
      <4> QED BY <2>4, <4>4, <4>5, <4>6, <4>7, AimedAt
    <3>2. CASE ~pending
      BY <1>1, <2>4, <3>2 DEF IInv, TypeOK, Aimed
    <3> QED BY <3>1, <3>2
  <2>10. \A d \in 1..Depth : stack'[d].mapped \/ (d < Depth /\ stack'[d].mapped = s[d].mapped)
    BY <1>2, <2>2, <2>3
  <2> QED BY <1>8, <2>3, <2>4, <2>6, <2>7, <2>8, <2>9, <2>10
<1> QED BY <1>9, <1>10

-----------------------------------------------------------------------------
LEMMA StepInv ==
  ASSUME IInv, [Next]_vars
  PROVE  IInv' /\ (UnmapsByRecursion \/ UNCHANGED vars)
<1>1. ASSUME NEW f \in Fns, CallFromInterpreter(f) PROVE IInv' /\ UnmapsByRecursion
  BY <1>1, CallFromInterpreterStep
<1>2. ASSUME NEW f \in Fns, CallFromMachineCode(f) PROVE IInv' /\ UnmapsByRecursion
  BY <1>2, CallFromMachineCodeStep
<1>3. CASE UNCHANGED vars
  BY <1>3 DEF vars, tables, IInv, TypeOK, NoCodeWithHandlers, Signals, Aimed, Top, Depth
<1> QED
  BY <1>1, <1>2, <1>3, LeafCalloutStep, CollectStep, LeaveStep, BackInCallerStep, HotLoopStep,
     InvalidateJITStep, ThrowStep, CalloutThrowsStep, CalloutCatchStep, UnwindStep, CatchStep,
     DeoptimizedStep DEF Next

LEMMA Invariance == Spec => []IInv
  BY InitInv, StepInv, PTL DEF Spec

(* Type correctness of the activations and the tables of machine code.       *)
THEOREM TypeCorrect == Spec => []TypeOK
<1>1. IInv => TypeOK
  BY DEF IInv
<1> QED BY <1>1, Invariance, PTL

(* What a machine register alone holds survives collections during a callout *)
(* until its guard is gone (jc2_jit_gc_pin): however deep machine code and   *)
(* the interpreter call each other.                                          *)
THEOREM HeldObjectsSurvive == Spec => []HeldObjectsLiveUndisturbed
<1>1. IInv => HeldObjectsLiveUndisturbed
  BY LenProperties DEF IInv, TypeOK, Safe, HeldObjectsLiveUndisturbed
<1> QED BY <1>1, Invariance, PTL

(* One global flag suffices to tell a bailout from a return, because nothing *)
(* runs between the activation that sets it and the caller that reads it.    *)
THEOREM BailoutsAlwaysToldApart == Spec => []BailoutsToldApart
<1>1. IInv => BailoutsToldApart
  BY DEF IInv, Signals, BailoutsToldApart
<1> QED BY <1>1, Invariance, PTL

(* An exception reaches the nearest handler once, across any alternation of  *)
(* machine code and interpreter.                                             *)
THEOREM ExceptionsAlwaysArrive == Spec => []ExceptionsArrive
<1>1. IInv => ExceptionsArrive
  <2> SUFFICES ASSUME IInv PROVE ExceptionsArrive
    OBVIOUS
  <2>1. Depth \in Nat \ {0}
    BY Bottom DEF IInv
  <2>2. aim <= Depth
    BY <2>1 DEF IInv, Aimed
  <2>3. throwing /\ Handles(Top) => aim = Depth
    <3> SUFFICES ASSUME throwing, Handles(stack[Depth]), aim # Depth PROVE FALSE
      BY DEF Top
    <3>1. aim \in 1..Depth /\ \A e \in (aim + 1)..Depth : ~Handles(stack[e])
      BY DEF IInv, Aimed
    <3> QED BY <2>1, <3>1
  <2> QED BY <2>2, <2>3 DEF IInv, Aimed, ExceptionsArrive
<1> QED BY <1>1, Invariance, PTL

(* Machine code on the stack stays mapped, but for a deeper activation of    *)
(* the same function.                                                        *)
THEOREM UnmappedByRecursionOnly == Spec => OnlyRecursionUnmaps
<1>1. IInv /\ [Next]_vars =>
        [\A d \in DOMAIN stack \cap DOMAIN stack' :
           Native(stack[d]) /\ stack[d].mapped /\ ~stack'[d].mapped
           => \/ d < Depth /\ Top.fn = stack[d].fn
              \/ d < Len(stack') /\ stack'[Len(stack')].fn = stack[d].fn]_vars
  BY StepInv DEF UnmapsByRecursion
<1> QED BY <1>1, Invariance, PTL DEF Spec, OnlyRecursionUnmaps
=============================================================================
