--------------------------- MODULE MembersProofs ---------------------------
(* Members are looked up exactly, super knows where to go on, and climbs:    *)
(* for every hierarchy of classes, any objects and any instructions.         *)
EXTENDS MCMembers, SequenceTheorems, FiniteSetTheorems, WellFoundedInduction, TLAPS

Names == {"f", "init"}
Contexts == Classes \cup Containers \cup {NoClass}
Bodies == [name : Names, owner : Contexts]
Frames == [body : Bodies, context : Contexts, self : Objects, done : BOOLEAN]
Caches == [class : Classes \cup {NoClass}, method : Bodies \cup {Missing},
           owner : Contexts, builtin : Containers \cup {NoClass}]

TypeOK ==
    /\ own \in [Objects -> Bodies \cup {Absent}]
    /\ ic \in [Sites -> Caches]
    /\ stack \in Seq(Frames) /\ ran \in Seq(Bodies)
    /\ answer \in [object : Objects \cup {NoClass}, value : Bodies \cup {Absent, Missing}]
    /\ kinds \in [Sites -> SUBSET (Containers \cup {"instance"})]
    /\ cleared \in BOOLEAN

(* A closure of a class in an object's own bag is its class's template.      *)
Bags ==
    \A o \in Objects :
      own[o] \in Bodies /\ own[o] # Function => o \in Instances /\ own[o] = Template(o)

(* A cached method of a class belongs to the cached class id, whatever kinds *)
(* of receivers the site has served; which of the two halves of the cache it *)
(* came from is known for the sites that have served one kind.               *)
CacheSound(e, served, flushed) ==
    e.method # Missing =>
      /\ e.method.owner \in Classes =>
           /\ e.class \in Classes /\ e.method = TemplateOf(e.class)
           /\ e.owner \in {NoClass, e.method.owner}
           /\ ~flushed => e.owner = e.method.owner
      /\ served \subseteq {"instance"} => e.method.owner \in Classes
      /\ \A t \in Containers : served \subseteq {t} => e.method = Body("f", t)

CachesSound == \A s \in Sites : CacheSound(ic[s], kinds[s], cleared)

(* The frames on the stack are the last bodies that ran, of one object and   *)
(* one name; all but the top one have made their call of super.              *)
OneCall ==
    /\ stack = <<>> <=> ran = <<>>
    /\ Len(stack) <= Len(ran)
    /\ \A i \in 1..Len(stack) :
         /\ stack[i].self = stack[1].self
         /\ stack[i].body = ran[i]
         /\ stack[i].body.owner \in Classes => stack[i].context \in Classes \cup {NoClass}
         /\ i < Len(stack) => stack[i].done
    /\ \A i \in 1..Len(ran) : ran[i].name = ran[1].name
    /\ stack # <<>> /\ ~Top.done => Len(stack) = Len(ran)

(* Where super goes on from is above every body that has run.                *)
Receiver == TypeOf[stack[1].self]
ClimbedTo(p) == \A i \in 1..Len(ran) : \E q \in 1..p : Chain[Receiver][q] = ran[i].owner

Climbing ==
    ran # <<>> /\ Unbroken(Receiver, ran[1].name) =>
      /\ BodiesOnce
      /\ ~Top.done /\ Top.body.owner \in Classes /\ Top.context # NoClass =>
           \E p \in 1..Len(Chain[Receiver]) :
              Chain[Receiver][p] = Top.context /\ ClimbedTo(p)

(* A frame's context is at or below the class that defines its body.         *)
InContext(fr) ==
    /\ fr.self \in Instances
    /\ \E a, b \in 1..Len(Chain[TypeOf[fr.self]]) :
         /\ Chain[TypeOf[fr.self]][a] = fr.context
         /\ Chain[TypeOf[fr.self]][b] = fr.body.owner
         /\ a <= b

ContextKept ==
    ~cleared /\ CallsServeInstances =>
      \A i \in 1..Len(stack) : stack[i].body.owner \in Classes => InContext(stack[i])

IInv == TypeOK /\ Bags /\ CachesSound /\ OneCall /\ Climbing /\ ContextKept

-----------------------------------------------------------------------------
(* Classes and their chains.                                                 *)

(* A nonempty set of positions has a least one.                              *)
LEMMA Smallest ==
  ASSUME NEW n \in Nat, NEW S, S \subseteq 1..n, S # {}
  PROVE  \E m \in S : \A k \in S : m <= k
<1> DEFINE Below(k) == {j \in S : j < k}
           F == {Below(k) : k \in S}
           R == StrictSubsetOrdering(S)
<1>1. \A k \in S : k \in Nat
  OBVIOUS
<1>2. F \subseteq FiniteSubsetsOf(S)
  <2>1. IsFiniteSet(1..n)
    BY FS_Interval
  <2>2. IsFiniteSet(S)
    BY <2>1, FS_Subset
  <2> QED BY <2>2, FS_Subset DEF FiniteSubsetsOf
<1>3. F # {}
  OBVIOUS
<1>4. \E x \in F : \A y \in F : ~(<<y, x>> \in R)
  <2> HIDE DEF R, F
  <2>1. IsWellFoundedOn(R, FiniteSubsetsOf(S))
    BY FS_StrictSubsetOrderingWellFounded DEF R
  <2> QED BY <1>2, <1>3, <2>1, WFMin, Zenon
<1>5. PICK m \in S : \A k \in S : ~(<<Below(k), Below(m)>> \in R)
  BY <1>4
<1>6. ASSUME NEW k \in S, k < m PROVE FALSE
  <2>1. \A j \in S : j < k => j < m
    BY <1>1, <1>6
  <2>2. k \in Below(m) /\ k \notin Below(k)
    BY <1>1, <1>6
  <2>3. Below(k) \subseteq Below(m)
    BY <2>1
  <2>4. Below(k) \in SUBSET S /\ Below(m) \in SUBSET S /\ Below(k) # Below(m)
    BY <2>2
  <2> HIDE DEF Below
  <2>5. <<Below(k), Below(m)>> \in R
    BY <2>3, <2>4 DEF StrictSubsetOrdering
  <2> QED BY <2>5, <1>5
<1> QED BY <1>1, <1>6

(* The chain of an ancestor is the rest of the chain.                        *)
LEMMA ChainFacts ==
  ASSUME NEW c \in Classes
  PROVE  /\ Chain[c] \in Seq(Classes) /\ Len(Chain[c]) \in Nat \ {0} /\ Chain[c][1] = c
         /\ \A i \in 1..Len(Chain[c]) :
              /\ Chain[c][i] \in Classes
              /\ Len(Chain[Chain[c][i]]) = Len(Chain[c]) - i + 1
              /\ \A j \in 1..Len(Chain[c]) - i + 1 : Chain[Chain[c][i]][j] = Chain[c][i + j - 1]
<1>1. Chain[c] \in Seq(Classes) /\ Chain[c] # <<>> /\ Chain[c][1] = c
  BY ParamAssumption
<1>2. Len(Chain[c]) \in Nat \ {0}
  BY <1>1
<1>3. ASSUME NEW i \in 1..Len(Chain[c])
      PROVE  /\ Chain[c][i] \in Classes
             /\ Len(Chain[Chain[c][i]]) = Len(Chain[c]) - i + 1
             /\ \A j \in 1..Len(Chain[c]) - i + 1 :
                  Chain[Chain[c][i]][j] = Chain[c][i + j - 1]
  <2>1. Chain[Chain[c][i]] = SubSeq(Chain[c], i, Len(Chain[c]))
    BY ChainAssumption
  <2> QED BY <1>1, <1>2, <2>1
<1> QED BY <1>1, <1>2, <1>3

(* No class is its own ancestor.                                             *)
LEMMA NoRepetition ==
  ASSUME NEW c \in Classes, NEW i \in 1..Len(Chain[c]), NEW j \in 1..Len(Chain[c]),
         Chain[c][i] = Chain[c][j]
  PROVE  i = j
BY SMTT(30), ChainFacts

(* The nearest class that defines a name, and the parent.                    *)
LEMMA NearestFacts ==
  ASSUME NEW c \in Classes, NEW n \in Names
  PROVE  \/ /\ Nearest(c, n) = NoClass
            /\ \A i \in 1..Len(Chain[c]) : Chain[c][i] \notin Has[n]
         \/ \E i \in 1..Len(Chain[c]) :
              /\ Nearest(c, n) = Chain[c][i] /\ Chain[c][i] \in Has[n]
              /\ \A j \in 1..Len(Chain[c]) : Chain[c][j] \in Has[n] => i <= j
<1> DEFINE up == {i \in 1..Len(Chain[c]) : Chain[c][i] \in Has[n]}
           m == CHOOSE i \in up : \A j \in up : i <= j
<1>1. Len(Chain[c]) \in Nat
  BY ChainFacts
<1>2. CASE up = {}
  BY <1>2 DEF Nearest
<1>3. CASE up # {}
  <2>1. \E i \in up : \A j \in up : i <= j
    BY <1>1, <1>3, Smallest
  <2>2. m \in up /\ \A j \in up : m <= j
    BY <2>1
  <2>3. Nearest(c, n) = Chain[c][m]
    BY <1>3 DEF Nearest
  <2> QED BY <2>2, <2>3
<1> QED BY <1>2, <1>3

LEMMA NearestType ==
  ASSUME NEW c \in Classes, NEW n \in Names
  PROVE  Nearest(c, n) \in Classes \cup {NoClass}
BY NearestFacts, ChainFacts

LEMMA NearestHere ==
  ASSUME NEW c \in Classes, NEW n \in Names, c \in Has[n]
  PROVE  Nearest(c, n) = c
<1>1. 1 \in 1..Len(Chain[c]) /\ Chain[c][1] = c
  BY ChainFacts
<1>2. NoClass \notin Classes
  BY ParamAssumption DEF NoClass
<1> QED BY <1>1, <1>2, NearestFacts, ChainFacts

LEMMA ParentFacts ==
  ASSUME NEW c \in Classes, NEW p \in 1..Len(Chain[c])
  PROVE  Parent(Chain[c][p]) = IF p = Len(Chain[c]) THEN NoClass ELSE Chain[c][p + 1]
<1> DEFINE d == Chain[c][p]
<1>1. Len(Chain[c]) \in Nat /\ Len(Chain[d]) = Len(Chain[c]) - p + 1
      /\ \A j \in 1..Len(Chain[c]) - p + 1 : Chain[d][j] = Chain[c][p + j - 1]
  BY ChainFacts
<1> HIDE DEF d
<1>2. CASE p = Len(Chain[c])
  <2>1. Len(Chain[d]) = 1
    BY <1>1, <1>2
  <2> QED BY <1>2, <2>1 DEF Parent, d
<1>3. CASE p # Len(Chain[c])
  <2>1. Len(Chain[d]) # 1 /\ 2 \in 1..Len(Chain[c]) - p + 1 /\ p + 2 - 1 = p + 1
    BY <1>1, <1>3
  <2>2. Chain[d][2] = Chain[c][p + 2 - 1]
    BY <1>1, <2>1
  <2> QED BY <1>3, <2>1, <2>2 DEF Parent, d
<1> QED BY <1>2, <1>3

LEMMA ParentType ==
  ASSUME NEW c \in Classes
  PROVE  Parent(c) \in Classes \cup {NoClass}
<1>1. Len(Chain[c]) \in Nat \ {0} /\ \A i \in 1..Len(Chain[c]) : Chain[c][i] \in Classes
  BY ChainFacts
<1>2. CASE Len(Chain[c]) = 1
  BY <1>2 DEF Parent
<1>3. CASE Len(Chain[c]) # 1
  <2> DEFINE l == Len(Chain[c])
  <2>1. l \in Nat \ {0} /\ l # 1
    BY <1>1, <1>3
  <2> HIDE DEF l
  <2>2. 2 \in 1..l
    BY <2>1
  <2>3. Chain[c][2] \in Classes
    BY <1>1, <2>2 DEF l
  <2> QED BY <1>3, <2>3 DEF Parent
<1> QED BY <1>2, <1>3

(* Seen from a class of a chain, the nearest definition is further up in the *)
(* same chain.                                                               *)
LEMMA NearestAbove ==
  ASSUME NEW c \in Classes, NEW p \in 1..Len(Chain[c]), NEW n \in Names,
         Nearest(Chain[c][p], n) # NoClass
  PROVE  \E q \in p..Len(Chain[c]) :
            Nearest(Chain[c][p], n) = Chain[c][q] /\ Chain[c][q] \in Has[n]
<1> DEFINE d == Chain[c][p]
<1>1. d \in Classes /\ Len(Chain[c]) \in Nat /\ Len(Chain[d]) = Len(Chain[c]) - p + 1
      /\ \A j \in 1..Len(Chain[d]) : Chain[d][j] = Chain[c][p + j - 1]
  BY ChainFacts
<1> HIDE DEF d
<1>2. PICK i \in 1..Len(Chain[d]) : Nearest(d, n) = Chain[d][i] /\ Chain[d][i] \in Has[n]
  BY <1>1, NearestFacts DEF d
<1>3. p + i - 1 \in p..Len(Chain[c]) /\ Chain[d][i] = Chain[c][p + i - 1]
  <2>1. i \in Nat /\ i <= Len(Chain[c]) - p + 1 /\ 1 <= i /\ p \in Nat
    BY <1>1
  <2>2. p + i - 1 \in p..Len(Chain[c])
    BY <1>1, <2>1
  <2>3. Chain[d][i] = Chain[c][p + i - 1]
    BY <1>1
  <2> QED BY <2>2, <2>3
<1> QED BY <1>2, <1>3 DEF d

(* Templates.                                                                *)
LEMMA TemplateFacts ==
  ASSUME NEW c \in Classes
  PROVE  /\ TemplateOf(c) \in Bodies \cup {Missing}
         /\ TemplateOf(c) # Missing =>
              /\ TemplateOf(c).name = "f" /\ TemplateOf(c).owner \in Classes
              /\ TemplateOf(c).owner = Nearest(c, "f")
              /\ TemplateOf(c) = Body("f", Nearest(c, "f"))
              /\ \E b \in 1..Len(Chain[c]) : Chain[c][b] = TemplateOf(c).owner
<1> DEFINE k == Nearest(c, "f")
<1>1. "f" \in Names
  BY DEF Names
<1>2. k \in Classes \cup {NoClass}
  BY <1>1, NearestType
<1>3. k = NoClass \/ \E b \in 1..Len(Chain[c]) : Chain[c][b] = k
  BY <1>1, NearestFacts
<1>4. TemplateOf(c) = IF k = NoClass THEN Missing ELSE Body("f", k)
  BY DEF TemplateOf
<1> HIDE DEF k
<1>5. CASE k = NoClass
  BY <1>4, <1>5
<1>6. CASE k # NoClass
  <2>1. Body("f", k) \in Bodies /\ Body("f", k).name = "f" /\ Body("f", k).owner = k
    BY <1>1, <1>2 DEF Body, Bodies, Contexts
  <2> QED BY <1>2, <1>3, <1>4, <1>6, <2>1 DEF k
<1> QED BY <1>5, <1>6

-----------------------------------------------------------------------------
(* What a step does to the history variables, and to who may run.            *)

LEMMA KindFacts ==
  ASSUME NEW o \in Objects
  PROVE  /\ o \in Instances => TypeOf[o] \in Classes /\ Kind(o) = "instance"
         /\ o \notin Instances =>
              /\ TypeOf[o] \in Containers /\ TypeOf[o] \notin Classes
              /\ Kind(o) = TypeOf[o] /\ Kind(o) # "instance"
         /\ Kind(o) \in Containers \cup {"instance"}
BY ParamAssumption, KindAssumption DEF Instances, Kind

LEMMA HistoryNext ==
  ASSUME TypeOK, MCNext
  PROVE  /\ kinds' \in [Sites -> SUBSET (Containers \cup {"instance"})]
         /\ \A s \in Sites : kinds[s] \subseteq kinds'[s]
         /\ \A s \in Sites, o \in Objects : Read(s, o) \/ Call(s, o) => Kind(o) \in kinds'[s]
         /\ cleared' \in BOOLEAN /\ (cleared => cleared') /\ (ClearICs => cleared')
<1> DEFINE new(s) == {Kind(o) : o \in {p \in Objects : Read(s, p) \/ Call(s, p)}}
<1>1. kinds' = [s \in Sites |-> kinds[s] \cup new(s)] /\ cleared' = (cleared \/ ClearICs)
  BY DEF MCNext
<1>2. \A s \in Sites : new(s) \subseteq Containers \cup {"instance"}
  BY KindFacts
<1>3. \A s \in Sites, o \in Objects : Read(s, o) \/ Call(s, o) => Kind(o) \in new(s)
  OBVIOUS
<1> HIDE DEF new
<1>4. kinds \in [Sites -> SUBSET (Containers \cup {"instance"})] /\ cleared \in BOOLEAN
  BY DEF TypeOK
<1>5. /\ kinds' \in [Sites -> SUBSET (Containers \cup {"instance"})]
      /\ \A s \in Sites : kinds[s] \subseteq kinds'[s]
      /\ \A s \in Sites, o \in Objects : Read(s, o) \/ Call(s, o) => Kind(o) \in kinds'[s]
  BY <1>1, <1>2, <1>3, <1>4
<1>6. cleared' \in BOOLEAN /\ (cleared => cleared') /\ (ClearICs => cleared')
  BY <1>1, <1>4
<1> QED BY <1>5, <1>6

LEMMA Distinct ==
  /\ Missing \notin Bodies /\ Absent \notin Bodies /\ Missing # Absent
  /\ Function \in Bodies /\ Function.owner = NoClass /\ Function.name = "f"
  /\ NoClass \notin Classes /\ NoClass \notin Containers /\ Classes \cap Containers = {}
  /\ Missing.owner = NoClass
<1>1. /\ NoClass \notin Classes /\ NoClass \notin Containers /\ Classes \cap Containers = {}
  BY ParamAssumption DEF NoClass
<1>2. /\ Missing.name = "missing" /\ Absent.name = "absent" /\ Missing.owner = NoClass
      /\ \A b \in Bodies : b.name \in {"f", "init"}
  BY DEF Missing, Absent, Bodies, Names
<1>3. Function \in Bodies /\ Function.owner = NoClass /\ Function.name = "f"
  BY DEF Function, Body, Bodies, Names, Contexts
<1> QED BY <1>1, <1>2, <1>3

LEMMA BodyFields ==
  ASSUME NEW n \in Names, NEW c \in Contexts
  PROVE  Body(n, c) \in Bodies /\ Body(n, c).name = n /\ Body(n, c).owner = c
BY DEF Body, Bodies

LEMMA ProtoFacts ==
  ASSUME NEW o \in Objects
  PROVE  Proto(o) \in Bodies /\ Proto(o).owner = TypeOf[o] /\ Proto(o) = Body("f", TypeOf[o])
<1>1. TypeOf[o] \in Contexts /\ "f" \in Names
  BY ParamAssumption DEF Contexts, Names
<1> QED BY <1>1, BodyFields DEF Proto

LEMMA CacheFields ==
  ASSUME TypeOK, NEW s \in Sites
  PROVE  /\ ic[s] \in Caches
         /\ ic[s].class \in Classes \cup {NoClass} /\ ic[s].method \in Bodies \cup {Missing}
         /\ ic[s].owner \in Contexts /\ ic[s].builtin \in Containers \cup {NoClass}
BY DEF TypeOK, Caches

LEMMA SnapshotFacts ==
  ASSUME NEW o \in Objects
  PROVE  /\ Snapshot(o) \in Bodies \cup {Absent}
         /\ Snapshot(o) # Absent => o \in Instances /\ Snapshot(o) = Template(o)
<1> DEFINE c == TypeOf[o]
<1>1. CASE ~(o \in Instances /\ Slotted(c))
  BY <1>1 DEF Snapshot
<1>2. CASE o \in Instances /\ Slotted(c)
  <2>1. c \in Classes /\ "f" \in Names
    BY <1>2, KindFacts DEF Names
  <2>2. Snapshot(o) = Body("f", Nearest(c, "f"))
    BY <1>2 DEF Snapshot
  <2>3. PICK i \in 1..Len(Chain[c]) : Chain[c][i] \in Has["f"]
    BY <1>2 DEF Slotted
  <2>4. Nearest(c, "f") # NoClass
    <3> HIDE DEF c
    <3>1. \A j \in 1..Len(Chain[c]) : Chain[c][j] \in Classes /\ Chain[c][j] # NoClass
      BY <2>1, ChainFacts, Distinct
    <3>2. \E j \in 1..Len(Chain[c]) : Nearest(c, "f") = Chain[c][j]
      BY <2>1, <2>3, NearestFacts
    <3> QED BY <3>1, <3>2
  <2>5. TemplateOf(c) = Body("f", Nearest(c, "f"))
    BY <2>4 DEF TemplateOf
  <2>6. Body("f", Nearest(c, "f")) \in Bodies
    BY <2>1, NearestType, BodyFields DEF Contexts
  <2> QED BY <1>2, <2>2, <2>5, <2>6 DEF Template
<1> QED BY <1>1, <1>2

-----------------------------------------------------------------------------
(* A body is entered.                                                        *)
LEMMA EnterFacts ==
  ASSUME NEW o \in Objects, NEW v \in Bodies \cup {Missing}, NEW x \in Contexts,
         Enter(o, v, x)
  PROVE  /\ stack' \in Seq(Frames) /\ ran' \in Seq(Bodies)
         /\ answer' \in [object : Objects \cup {NoClass}, value : Bodies \cup {Absent, Missing}]
         /\ answer'.value = v
         /\ \/ v = Missing /\ stack' = <<>> /\ ran' = <<>>
            \/ /\ v \in Bodies
               /\ Len(stack') = 1 /\ stack'[1].body = v /\ stack'[1].context = x
               /\ stack'[1].self = o /\ stack'[1].done = FALSE
               /\ Len(ran') = 1 /\ ran'[1] = v
<1>1. /\ answer' = [object |-> o, value |-> v]
      /\ stack' = IF v # Missing
                  THEN <<[body |-> v, context |-> x, self |-> o, done |-> FALSE]>> ELSE <<>>
      /\ ran' = IF v # Missing THEN <<v>> ELSE <<>>
  BY DEF Enter, Found, Callable
<1>2. CASE v = Missing
  BY <1>1, <1>2
<1>3. CASE v # Missing
  <2>1. v \in Bodies
    BY <1>3
  <2>2. [body |-> v, context |-> x, self |-> o, done |-> FALSE] \in Frames
    BY <2>1 DEF Frames
  <2> QED BY <1>1, <1>3, <2>1, <2>2
<1> QED BY <1>2, <1>3

(* What makes an entry sound: a class that defines the name itself runs its  *)
(* own body, in its own context; and where no cache could mislead, the       *)
(* context is below the body.                                                *)
Entry(o, v, x, served) ==
    v.owner \in Classes =>
      /\ x \in Classes \cup {NoClass}
      /\ TypeOf[o] \in Has[v.name] => v.owner = TypeOf[o] /\ x \in {NoClass, TypeOf[o]}
      /\ ~cleared /\ served \subseteq {"instance"} =>
           /\ o \in Instances
           /\ \E a, b \in 1..Len(Chain[TypeOf[o]]) :
                Chain[TypeOf[o]][a] = x /\ Chain[TypeOf[o]][b] = v.owner /\ a <= b

(* The template of the receiver's class, in that class's or its own context. *)
LEMMA TemplateEntry ==
  ASSUME NEW o \in Instances, Template(o) # Missing, NEW served,
         NEW x \in {TypeOf[o], Template(o).owner}
  PROVE  /\ Entry(o, Template(o), x, served)
         /\ x \in Classes
<1> DEFINE c == TypeOf[o]  t == TemplateOf(c)
<1>1. c \in Classes /\ o \in Objects
  BY KindFacts DEF Instances
<1>2. /\ Template(o) = t /\ t.name = "f" /\ t.owner \in Classes /\ t.owner = Nearest(c, "f")
      /\ \E b \in 1..Len(Chain[c]) : Chain[c][b] = t.owner
  BY <1>1, TemplateFacts DEF Template
<1> HIDE DEF t
<1>3. c \in Has[t.name] => t.owner = c
  BY <1>1, <1>2, NearestHere DEF Names
<1>4. PICK b \in 1..Len(Chain[c]) : Chain[c][b] = t.owner
  BY <1>2
<1>5. Len(Chain[c]) \in Nat \ {0} /\ Chain[c][1] = c /\ 1 \in 1..Len(Chain[c])
  BY <1>1, ChainFacts
<1>6. \E a \in 1..Len(Chain[c]) : Chain[c][a] = x /\ a <= b
  BY <1>2, <1>4, <1>5
<1>7. x \in Classes
  BY <1>1, <1>2
<1>8. c \in Has[t.name] => x \in {NoClass, c}
  BY <1>2, <1>3
<1> QED BY <1>1, <1>2, <1>3, <1>4, <1>6, <1>7, <1>8 DEF Entry

LEMMA CallOutcome ==
  ASSUME TypeOK, Bags, CachesSound, NEW s \in Sites, NEW o \in Objects, Call(s, o)
  PROVE  \E v \in Bodies \cup {Missing}, x \in Contexts :
            Enter(o, v, x) /\ Entry(o, v, x, kinds[s] \cup {Kind(o)})
<1> DEFINE served == kinds[s] \cup {Kind(o)}
<1>1. /\ ic[s].class \in Classes \cup {NoClass} /\ ic[s].method \in Bodies \cup {Missing}
      /\ ic[s].owner \in Contexts
  BY CacheFields
<1>2. CASE (ClassHit(s, o) \/ TypeHit(s, o)) /\ Enter(o, ic[s].method, ic[s].owner)
  <2>1. Entry(o, ic[s].method, ic[s].owner, served)
    <3>1. CASE TypeHit(s, o)
      <4>1. o \notin Instances
        BY <3>1 DEF TypeHit
      <4>2. TypeOf[o] \notin Classes /\ Kind(o) # "instance"
        BY <4>1, KindFacts
      <4>3. ASSUME ic[s].method.owner \in Classes
            PROVE  /\ TypeOf[o] \notin Has[ic[s].method.name]
                   /\ ic[s].owner \in Classes \cup {NoClass}
        <5>1. ic[s].method \in Bodies
          BY <1>1, <4>3, Distinct
        <5>2. ic[s].owner \in {NoClass, ic[s].method.owner}
          BY <4>3, <5>1, Distinct DEF CachesSound, CacheSound
        <5>3. TypeOf[o] \notin Has[ic[s].method.name]
          BY <4>2, <5>1, ParamAssumption DEF Bodies, Names
        <5> QED BY <4>3, <5>2, <5>3
      <4> QED BY <4>2, <4>3 DEF Entry
    <3>2. CASE ClassHit(s, o)
      <4>1. o \in Instances /\ ic[s].class = TypeOf[o] /\ ic[s].method # Missing
        BY <3>2 DEF ClassHit
      <4>2. CASE ic[s].method.owner \notin Classes
        BY <4>2 DEF Entry
      <4>3. CASE ic[s].method.owner \in Classes
        <5>1. /\ ic[s].method = Template(o)
              /\ ic[s].owner \in {NoClass, Template(o).owner}
              /\ ~cleared => ic[s].owner = Template(o).owner
          BY <4>1, <4>3 DEF CachesSound, CacheSound, Template
        <5>2. Entry(o, Template(o), Template(o).owner, served)
          BY <4>1, <5>1, TemplateEntry
        <5> HIDE DEF served
        <5> QED BY <5>1, <5>2 DEF Entry
      <4> QED BY <4>2, <4>3
    <3> QED BY <1>2, <3>1, <3>2
  <2> QED BY <1>1, <1>2, <2>1
<1>3. CASE HasOwn(o) /\ Enter(o, own[o], OwnContext(o))
  <2>1. own[o] \in Bodies
    BY <1>3 DEF TypeOK, HasOwn
  <2>2. OwnContext(o) \in Contexts
    BY ParamAssumption DEF OwnContext, Contexts
  <2>3. CASE own[o] = Function
    BY <1>3, <2>1, <2>2, <2>3, Distinct DEF Entry
  <2>4. CASE own[o] # Function
    <3>1. o \in Instances /\ own[o] = Template(o) /\ Template(o) # Missing
      BY <2>1, <2>4, Distinct DEF Bags
    <3>2. OwnContext(o) = TypeOf[o]
      BY <3>1 DEF OwnContext
    <3>3. Entry(o, own[o], OwnContext(o), served)
      BY <3>1, <3>2, TemplateEntry
    <3> QED BY <1>3, <2>1, <2>2, <3>3
  <2> QED BY <2>3, <2>4
<1>4. CASE Enter(o, Missing, NoClass)
  BY <1>4, Distinct DEF Entry, Contexts
<1>5. CASE o \in Instances /\ Template(o) # Missing /\ Enter(o, Template(o), Template(o).owner)
  <2>1. TypeOf[o] \in Classes
    BY <1>5, KindFacts
  <2>2. Template(o) \in Bodies
    BY <1>5, <2>1, TemplateFacts DEF Template
  <2>3. Entry(o, Template(o), Template(o).owner, served) /\ Template(o).owner \in Contexts
    BY <1>5, <2>2, TemplateEntry DEF Contexts
  <2> QED BY <1>5, <2>2, <2>3
<1>6. CASE o \notin Instances /\ Enter(o, Proto(o), TypeOf[o])
  <2>1. TypeOf[o] \in Containers /\ TypeOf[o] \notin Classes
    BY <1>6, KindFacts
  <2>2. Proto(o) \in Bodies /\ Proto(o).owner = TypeOf[o] /\ TypeOf[o] \in Contexts
    BY <2>1, ProtoFacts DEF Contexts
  <2> QED BY <1>6, <2>1, <2>2 DEF Entry
<1> QED BY <1>2, <1>3, <1>4, <1>5, <1>6 DEF Call

(* Entering a sound body establishes everything said of the running call.    *)
LEMMA EnterSound ==
  ASSUME TypeOK, TypeOK', NEW o \in Objects, NEW v \in Bodies \cup {Missing},
         NEW x \in Contexts, NEW served, Enter(o, v, x), Entry(o, v, x, served),
         cleared => cleared',
         CallsServeInstances' => served \subseteq {"instance"}
  PROVE  OneCall' /\ Climbing' /\ ContextKept'
<1>1. CASE v = Missing
  <2>1. stack' = <<>> /\ ran' = <<>> /\ Len(<<>>) = 0
    BY <1>1, EnterFacts, Distinct
  <2> QED BY <2>1 DEF OneCall, Climbing, ContextKept
<1>2. CASE v \in Bodies
  <2>1. /\ Len(stack') = 1 /\ stack'[1].body = v /\ stack'[1].context = x
        /\ stack'[1].self = o /\ stack'[1].done = FALSE
        /\ Len(ran') = 1 /\ ran'[1] = v /\ stack' # <<>> /\ ran' # <<>>
    <3>1. v # Missing
      BY <1>2, Distinct
    <3>2. /\ Len(stack') = 1 /\ stack'[1].body = v /\ stack'[1].context = x
          /\ stack'[1].self = o /\ stack'[1].done = FALSE
          /\ Len(ran') = 1 /\ ran'[1] = v
      BY <3>1, EnterFacts
    <3>3. Len(stack') = 1 /\ Len(ran') = 1 /\ Len(<<>>) = 0
      BY <3>1, EnterFacts
    <3>4. stack' # <<>> /\ ran' # <<>>
      BY ONLY <3>3
    <3> QED BY <3>2, <3>4
  <2>2. \A i \in 1..1 : i = 1
    OBVIOUS
  <2>3. OneCall'
    BY <2>1, <2>2 DEF OneCall, Entry
  <2>4. BodiesOnce'
    BY <2>1, <2>2 DEF BodiesOnce
  <2>5. Top' = stack'[1] /\ Receiver' = TypeOf[o]
    BY <2>1 DEF Top, Receiver
  <2>6. Climbing'
    <3> SUFFICES ASSUME Unbroken(TypeOf[o], v.name), v.owner \in Classes, x # NoClass
                 PROVE  \E p \in 1..Len(Chain[TypeOf[o]]) :
                           Chain[TypeOf[o]][p] = x /\ ClimbedTo(p)'
      BY <2>1, <2>4, <2>5 DEF Climbing
    <3>1. TypeOf[o] \in Has[v.name] /\ v.name \in {"f", "init"}
      BY <1>2 DEF Unbroken, Bodies, Names
    <3>2. TypeOf[o] \in Classes /\ v.owner = TypeOf[o] /\ x = TypeOf[o]
      BY <3>1, ParamAssumption DEF Entry
    <3>3. 1 \in 1..Len(Chain[TypeOf[o]]) /\ Chain[TypeOf[o]][1] = TypeOf[o]
      BY <3>2, ChainFacts
    <3>4. ClimbedTo(1)'
      BY <2>1, <2>2, <2>5, <3>2, <3>3 DEF ClimbedTo
    <3> QED BY <3>2, <3>3, <3>4
  <2>7. ContextKept'
    <3> SUFFICES ASSUME ~cleared', CallsServeInstances', v.owner \in Classes
                 PROVE  InContext(stack'[1])
      BY <2>1, <2>2 DEF ContextKept
    <3>1. ~cleared /\ served \subseteq {"instance"}
      OBVIOUS
    <3> QED BY <2>1, <3>1 DEF Entry, InContext
  <2> QED BY <2>3, <2>6, <2>7
<1> QED BY <1>1, <1>2

-----------------------------------------------------------------------------
(* A body is left, or calls super.                                           *)

LEMMA TopFacts ==
  ASSUME TypeOK, OneCall, stack # <<>>
  PROVE  /\ Len(stack) \in 1..Len(ran) /\ Len(ran) \in Nat \ {0} /\ ran # <<>>
         /\ Top = stack[Len(stack)] /\ Top \in Frames
         /\ Top.body \in Bodies /\ Top.body.name \in Names /\ Top.self \in Objects
         /\ Top.body = ran[Len(stack)] /\ Top.body.name = ran[1].name
         /\ Top.self = stack[1].self
         /\ Top.body.owner \in Classes => Top.context \in Classes \cup {NoClass}
<1>1. stack \in Seq(Frames) /\ ran \in Seq(Bodies)
  BY DEF TypeOK
<1>2. /\ Len(stack) \in Nat \ {0} /\ Len(ran) \in Nat /\ Len(stack) <= Len(ran)
  BY <1>1 DEF OneCall
<1>3. Len(stack) \in 1..Len(ran) /\ Len(stack) \in 1..Len(stack) /\ ran # <<>>
  BY <1>1, <1>2
<1>4. Top \in Frames /\ Top = stack[Len(stack)]
  BY <1>1, <1>3 DEF Top
<1>5. Top.body \in Bodies /\ Top.body.name \in Names /\ Top.self \in Objects
  BY <1>4 DEF Frames, Bodies
<1>6. /\ Top.body = ran[Len(stack)] /\ Top.self = stack[1].self
      /\ Top.body.owner \in Classes => Top.context \in Classes \cup {NoClass}
  BY <1>3, <1>4 DEF OneCall
<1>7. ran[Len(stack)].name = ran[1].name
  BY <1>3 DEF OneCall
<1> QED BY <1>2, <1>3, <1>4, <1>5, <1>6, <1>7

(* A call of super throws out of the whole call, or pushes the body that the *)
(* classes above the context define.                                         *)
Pushed(from, n, k) ==
    /\ stack' = Append([stack EXCEPT ![Len(stack)].done = TRUE],
                [body |-> Body(n, k), context |-> IF n = "init" THEN from ELSE k,
                 self |-> Top.self, done |-> FALSE])
    /\ ran' = Append(ran, Body(n, k))

LEMMA SuperStep ==
  ASSUME TypeOK, OneCall, SuperCall
  PROVE  /\ stack # <<>> /\ ~Top.done /\ Top.body.owner \in Classes
         /\ UNCHANGED <<own, ic, answer>>
         /\ \/ stack' = <<>> /\ ran' = <<>>
            \/ /\ Top.context \in Classes
               /\ \E from \in Classes, k \in Classes :
                    /\ from = Parent(Top.context) /\ k = Nearest(from, Top.body.name)
                    /\ Pushed(from, Top.body.name, k)
<1> DEFINE from == SuperStart(Top)
           n == Top.body.name
           k == IF from = NoClass THEN NoClass ELSE Nearest(from, n)
<1>1. /\ stack # <<>> /\ ~Top.done /\ Top.body.owner \in Classes
      /\ UNCHANGED <<own, ic, answer>>
  BY DEF SuperCall, Idle
<1>2. \/ k = NoClass /\ stack' = <<>> /\ ran' = <<>>
      \/ k # NoClass /\ Pushed(from, n, k)
  BY DEF SuperCall, Pushed
<1>3. Top.body.name \in Names /\ Top.context \in Classes \cup {NoClass}
  BY <1>1, TopFacts
<1>4. CASE Top.context = NoClass
  BY <1>1, <1>2, <1>4 DEF SuperStart
<1>5. CASE Top.context \in Classes
  <2>1. from = Parent(Top.context)
    BY <1>5, Distinct DEF SuperStart
  <2>2. from \in Classes \cup {NoClass}
    BY <1>5, <2>1, ParentType
  <2>3. k # NoClass => from \in Classes /\ k = Nearest(from, n) /\ k \in Classes
    BY <1>3, <2>2, NearestType
  <2> HIDE DEF from, k
  <2> QED BY <1>1, <1>2, <1>5, <2>1, <2>3
<1> QED BY <1>3, <1>4, <1>5

(* What the push changes.                                                    *)
LEMMA PushFacts ==
  ASSUME TypeOK, OneCall, stack # <<>>, ~Top.done, NEW from \in Classes, NEW k \in Classes,
         Pushed(from, Top.body.name, k)
  PROVE  /\ stack' \in Seq(Frames) /\ ran' \in Seq(Bodies)
         /\ Len(stack') = Len(stack) + 1 /\ Len(ran') = Len(ran) + 1 /\ Len(ran) = Len(stack)
         /\ ran'[Len(ran) + 1] = Body(Top.body.name, k)
         /\ \A i \in 1..Len(ran) : ran'[i] = ran[i]
         /\ \A i \in 1..Len(stack) :
              /\ stack'[i].self = stack[i].self /\ stack'[i].body = stack[i].body
              /\ stack'[i].context = stack[i].context
              /\ stack'[i].done = IF i = Len(stack) THEN TRUE ELSE stack[i].done
         /\ Top' = stack'[Len(stack) + 1]
         /\ Top'.body = Body(Top.body.name, k) /\ Top'.self = Top.self /\ Top'.done = FALSE
         /\ Top'.context = IF Top.body.name = "init" THEN from ELSE k
<1> DEFINE n == Top.body.name
           fr == [body |-> Body(n, k), context |-> IF n = "init" THEN from ELSE k,
                  self |-> Top.self, done |-> FALSE]
           st == [stack EXCEPT ![Len(stack)].done = TRUE]
<1>1. stack' = Append(st, fr) /\ ran' = Append(ran, Body(n, k))
  BY DEF Pushed
<1>2. stack \in Seq(Frames) /\ ran \in Seq(Bodies) /\ n \in Names /\ Top.self \in Objects
      /\ Len(stack) \in Nat \ {0}
  BY TopFacts DEF TypeOK
<1>3. Body(n, k) \in Bodies
  BY <1>2, BodyFields DEF Contexts
<1>4. fr \in Frames
  BY <1>2, <1>3 DEF Frames, Contexts
<1>5. /\ st \in Seq(Frames) /\ Len(st) = Len(stack)
      /\ \A i \in 1..Len(stack) :
           /\ st[i].self = stack[i].self /\ st[i].body = stack[i].body
           /\ st[i].context = stack[i].context
           /\ st[i].done = IF i = Len(stack) THEN TRUE ELSE stack[i].done
  <2> DEFINE t == stack[Len(stack)]  u == [t EXCEPT !.done = TRUE]
  <2>1. t \in Frames /\ Len(stack) \in 1..Len(stack)
    BY <1>2
  <2>2. /\ u \in Frames /\ u.self = t.self /\ u.body = t.body
        /\ u.context = t.context /\ u.done = TRUE
    BY <2>1 DEF Frames
  <2>3. st = [stack EXCEPT ![Len(stack)] = u]
    OBVIOUS
  <2> HIDE DEF st, u
  <2>4. /\ st \in Seq(Frames) /\ Len(st) = Len(stack)
        /\ \A i \in 1..Len(stack) : st[i] = IF i = Len(stack) THEN u ELSE stack[i]
    BY <1>2, <2>2, <2>3
  <2> QED BY <2>2, <2>4
<1>6. /\ fr.body = Body(n, k) /\ fr.context = IF n = "init" THEN from ELSE k
      /\ fr.self = Top.self /\ fr.done = FALSE
  OBVIOUS
<1> HIDE DEF st, fr, n
<1>7. /\ stack' \in Seq(Frames) /\ Len(stack') = Len(stack) + 1
      /\ stack'[Len(stack) + 1] = fr /\ \A i \in 1..Len(stack) : stack'[i] = st[i]
  BY <1>1, <1>2, <1>4, <1>5
<1>8. /\ ran' \in Seq(Bodies) /\ Len(ran') = Len(ran) + 1
      /\ ran'[Len(ran) + 1] = Body(n, k) /\ \A i \in 1..Len(ran) : ran'[i] = ran[i]
  BY <1>1, <1>2, <1>3
<1>9. Len(ran) = Len(stack) /\ Top' = fr
  BY <1>7 DEF OneCall, Top
<1> QED BY <1>5, <1>6, <1>7, <1>8, <1>9 DEF n

LEMMA SuperOneCall ==
  ASSUME TypeOK, OneCall, SuperCall
  PROVE  OneCall'
<1>1. stack # <<>> /\ ~Top.done
  BY SuperStep
<1>2. CASE stack' = <<>> /\ ran' = <<>>
  <2>1. Len(<<>>) = 0
    OBVIOUS
  <2> QED BY <1>2, <2>1 DEF OneCall
<1>3. CASE ~(stack' = <<>> /\ ran' = <<>>)
  <2>1. PICK from \in Classes, k \in Classes : Pushed(from, Top.body.name, k)
    BY <1>3, SuperStep
  <2> DEFINE n == Top.body.name  m == Len(stack)
  <2>2. /\ Len(stack') = m + 1 /\ Len(ran') = m + 1 /\ Len(ran) = m /\ m \in Nat \ {0}
        /\ n = ran[1].name /\ Top.self = stack[1].self /\ n \in Names
    BY <1>1, <2>1, PushFacts, TopFacts
  <2>3. /\ ran'[m + 1] = Body(n, k)
        /\ \A i \in 1..m : ran'[i] = ran[i]
        /\ \A i \in 1..m :
             /\ stack'[i].self = stack[i].self /\ stack'[i].body = stack[i].body
             /\ stack'[i].context = stack[i].context
             /\ stack'[i].done = IF i = m THEN TRUE ELSE stack[i].done
        /\ stack'[m + 1].body = Body(n, k) /\ stack'[m + 1].self = Top.self
        /\ stack'[m + 1].context = IF n = "init" THEN from ELSE k
    BY <1>1, <2>1, <2>2, PushFacts
  <2>4. Body(n, k).name = n
    BY <2>2, BodyFields DEF Contexts
  <2>5. /\ \A i \in 1..m : /\ stack[i].self = stack[1].self /\ stack[i].body = ran[i]
                           /\ i < m => stack[i].done
                           /\ stack[i].body.owner \in Classes =>
                                stack[i].context \in Classes \cup {NoClass}
        /\ \A i \in 1..m : ran[i].name = ran[1].name
    BY <2>2 DEF OneCall
  <2> HIDE DEF n, m
  <2>6. 1 \in 1..m /\ \A i \in 1..m + 1 : i \in 1..m \/ i = m + 1
    BY <2>2
  <2>7. \A i \in 1..m + 1 :
          /\ stack'[i].self = stack'[1].self /\ stack'[i].body = ran'[i]
          /\ i < m + 1 => stack'[i].done
          /\ stack'[i].body.owner \in Classes => stack'[i].context \in Classes \cup {NoClass}
    <3> SUFFICES ASSUME NEW i \in 1..m + 1
                 PROVE  /\ stack'[i].self = stack'[1].self /\ stack'[i].body = ran'[i]
                        /\ i < m + 1 => stack'[i].done
                        /\ stack'[i].body.owner \in Classes =>
                             stack'[i].context \in Classes \cup {NoClass}
      OBVIOUS
    <3>1. stack'[1].self = stack[1].self
      BY <2>3, <2>6
    <3>2. CASE i \in 1..m
      <4>1. i < m + 1 /\ (i = m \/ i < m)
        BY <2>2, <3>2
      <4> QED BY ZenonT(60), <2>3, <2>5, <3>1, <3>2, <4>1
    <3>3. CASE i = m + 1
      <4>1. from \in Classes \cup {NoClass} /\ k \in Classes \cup {NoClass} /\ ~(i < m + 1)
        BY <2>2, <3>3
      <4> QED BY <2>2, <2>3, <3>1, <3>3, <4>1
    <3> QED BY <2>6, <3>2, <3>3
  <2>8. \A i \in 1..m + 1 : ran'[i].name = ran'[1].name
    BY <2>2, <2>3, <2>4, <2>5, <2>6
  <2>9. stack' # <<>> /\ ran' # <<>>
    <3>1. Len(<<>>) = 0
      OBVIOUS
    <3> QED BY <2>2, <3>1
  <2> QED BY <2>2, <2>7, <2>8, <2>9 DEF OneCall
<1> QED BY <1>2, <1>3

(* super starts above its context, and f lands where it will go on from; so  *)
(* does init, unless a class in between leaves init to its parent.           *)
LEMMA SuperClimbs ==
  ASSUME TypeOK, OneCall, Climbing, SuperCall
  PROVE  Climbing'
<1>1. stack # <<>> /\ ~Top.done /\ Top.body.owner \in Classes
  BY SuperStep
<1>2. CASE stack' = <<>> /\ ran' = <<>>
  BY <1>2 DEF Climbing
<1>3. CASE ~(stack' = <<>> /\ ran' = <<>>)
  <2>1. PICK from \in Classes, k \in Classes :
           /\ Top.context \in Classes /\ from = Parent(Top.context)
           /\ k = Nearest(from, Top.body.name) /\ Pushed(from, Top.body.name, k)
    BY <1>3, SuperStep
  <2> DEFINE n == Top.body.name  m == Len(ran)  c == Receiver
  <2>2. /\ m \in Nat \ {0} /\ Len(ran') = m + 1 /\ n \in Names /\ n = ran[1].name
        /\ ran'[m + 1] = Body(n, k) /\ \A i \in 1..m : ran'[i] = ran[i]
        /\ ran # <<>>
    BY <1>1, <2>1, PushFacts, TopFacts
  <2>3. /\ Top'.body = Body(n, k) /\ Top'.context = IF n = "init" THEN from ELSE k
    BY <1>1, <2>1, PushFacts
  <2>4. Receiver' = c /\ ran'[1].name = n
    <3>1. Len(stack) \in Nat \ {0} /\ 1 \in 1..Len(stack) /\ 1 \in 1..m
      BY <1>1, <2>2, TopFacts
    <3>2. stack'[1].self = stack[1].self
      BY <1>1, <2>1, <3>1, PushFacts
    <3> QED BY <2>2, <3>1, <3>2 DEF Receiver
  <2> SUFFICES ASSUME Unbroken(c, n)
               PROVE  /\ BodiesOnce'
                      /\ \E p \in 1..Len(Chain[c]) :
                            Chain[c][p] = Top'.context /\ ClimbedTo(p)'
    BY <2>4 DEF Climbing
  <2>5. BodiesOnce /\ \E p \in 1..Len(Chain[c]) :
                         Chain[c][p] = Top.context /\ ClimbedTo(p)
    BY <1>1, <2>1, <2>2, Distinct DEF Climbing
  <2>6. PICK p \in 1..Len(Chain[c]) : Chain[c][p] = Top.context /\ ClimbedTo(p)
    BY <2>5
  <2>7. c \in Has[n] /\ c \in Classes
    BY <2>2, ParamAssumption DEF Unbroken, Names
  <2> HIDE DEF c, n, m
  <2> DEFINE l == Len(Chain[c])
  <2>8. l \in Nat \ {0}
    BY <2>7, ChainFacts
  <2>9. p # l /\ from = Chain[c][p + 1]
    BY <2>1, <2>6, <2>7, ParentFacts, Distinct
  <2> HIDE DEF l
  <2>10. p + 1 \in 1..l
    BY <2>6, <2>8, <2>9 DEF l
  <2>11. PICK q \in (p + 1)..l : k = Chain[c][q] /\ Chain[c][q] \in Has[n]
    <3>1. k = Nearest(Chain[c][p + 1], n) /\ k # NoClass
      BY <2>1, <2>9, Distinct DEF n
    <3> QED BY <2>2, <2>7, <2>10, <3>1, NearestAbove DEF l
  <2>12. q \in 1..l /\ p \in 1..l /\ p < q /\ p + 1 <= q
    BY <2>6, <2>8, <2>10, <2>11 DEF l
  <2>13. n = "init" => from = k
    <3> SUFFICES ASSUME n = "init" PROVE Chain[c][p + 1] \in Has[n]
      BY <2>1, <2>2, <2>9, NearestHere DEF n
    <3> QED BY <2>10, <2>11, <2>12 DEF Unbroken, l
  <2>14. Top'.context = Chain[c][q]
    BY <2>3, <2>11, <2>13
  <2>15. Body(n, k).owner = k
    BY <2>2, BodyFields DEF Contexts
  <2>16. ClimbedTo(q)'
    <3>1. ASSUME NEW i \in 1..m PROVE \E r \in 1..q : Chain[c][r] = ran'[i].owner
      <4>1. PICK r \in 1..p : Chain[c][r] = ran[i].owner
        BY <2>6, <3>1 DEF ClimbedTo, c, m
      <4>2. r \in 1..q
        BY <2>12, <4>1
      <4> QED BY <2>2, <4>1, <4>2
    <3>2. q \in 1..q /\ Chain[c][q] = ran'[m + 1].owner
      BY <2>2, <2>11, <2>12, <2>15
    <3>3. \A i \in 1..m + 1 : i \in 1..m \/ i = m + 1
      BY <2>2
    <3>4. \A i \in 1..m + 1 : \E r \in 1..q : Chain[c][r] = ran'[i].owner
      BY <3>1, <3>2, <3>3
    <3> QED BY <2>2, <2>4, <3>4 DEF ClimbedTo, c
  <2>17. \A i \in 1..m : ran'[i] # ran'[m + 1]
    <3> SUFFICES ASSUME NEW i \in 1..m, ran[i].owner = k PROVE FALSE
      BY <2>2, <2>15
    <3>1. PICK r \in 1..p : Chain[c][r] = Chain[c][q]
      BY <2>6, <2>11 DEF ClimbedTo, c, m
    <3>2. r \in 1..l /\ r # q
      BY <2>8, <2>12, <3>1
    <3> QED BY <2>7, <2>12, <3>1, <3>2, NoRepetition DEF l
  <2>18. BodiesOnce'
    <3>1. \A i, j \in 1..m : ran[i] = ran[j] => i = j
      BY <2>5 DEF BodiesOnce, m
    <3>2. \A i \in 1..m + 1 : i \in 1..m \/ i = m + 1
      BY <2>2
    <3>3. \A i, j \in 1..m + 1 : ran'[i] = ran'[j] => i = j
      BY <2>2, <2>17, <3>1, <3>2
    <3> QED BY <2>2, <3>3 DEF BodiesOnce
  <2> QED BY <2>12, <2>14, <2>16, <2>18 DEF l
<1> QED BY <1>2, <1>3

LEMMA SuperContext ==
  ASSUME TypeOK, OneCall, ContextKept, SuperCall,
         cleared => cleared', CallsServeInstances' => CallsServeInstances
  PROVE  ContextKept'
<1>1. stack # <<>> /\ ~Top.done /\ Top.body.owner \in Classes
  BY SuperStep
<1>2. CASE stack' = <<>> /\ ran' = <<>>
  <2>1. Len(<<>>) = 0
    OBVIOUS
  <2> QED BY <1>2, <2>1 DEF ContextKept
<1>3. CASE ~(stack' = <<>> /\ ran' = <<>>)
  <2> SUFFICES ASSUME ~cleared', CallsServeInstances', NEW i \in 1..Len(stack'),
                      stack'[i].body.owner \in Classes
               PROVE  InContext(stack'[i])
    BY DEF ContextKept
  <2>1. PICK from \in Classes, k \in Classes :
           /\ Top.context \in Classes /\ from = Parent(Top.context)
           /\ k = Nearest(from, Top.body.name) /\ Pushed(from, Top.body.name, k)
    BY <1>3, SuperStep
  <2> DEFINE n == Top.body.name  m == Len(stack)
  <2>2. /\ m \in Nat \ {0} /\ Len(stack') = m + 1 /\ n \in Names /\ Top = stack[m]
        /\ m \in 1..m
    BY <1>1, <2>1, PushFacts, TopFacts
  <2>3. \A j \in 1..m : stack[j].body.owner \in Classes => InContext(stack[j])
    BY DEF ContextKept
  <2>4. CASE i \in 1..m
    <3>1. /\ stack'[i].self = stack[i].self /\ stack'[i].body = stack[i].body
          /\ stack'[i].context = stack[i].context
      BY <1>1, <2>1, <2>4, PushFacts
    <3> QED BY <2>3, <2>4, <3>1 DEF InContext
  <2>5. CASE i = m + 1
    <3>1. /\ stack'[i].body = Body(n, k) /\ stack'[i].self = Top.self
          /\ stack'[i].context = IF n = "init" THEN from ELSE k
      BY ZenonT(60), <1>1, <2>1, <2>5, PushFacts
    <3>2. InContext(Top)
      BY <1>1, <2>2, <2>3
    <3> DEFINE c == TypeOf[Top.self]  l == Len(Chain[c])
    <3>3. Top.self \in Instances /\ c \in Classes
      BY <3>2, KindFacts DEF InContext, Instances
    <3>4. PICK p \in 1..Len(Chain[c]) : Chain[c][p] = Top.context
      BY <3>2 DEF InContext
    <3> HIDE DEF c
    <3>5. l \in Nat \ {0}
      BY <3>3, ChainFacts
    <3>6. p # l /\ from = Chain[c][p + 1]
      BY <2>1, <3>3, <3>4, ParentFacts, Distinct
    <3> HIDE DEF l
    <3>7. p + 1 \in 1..l
      BY <3>4, <3>5, <3>6 DEF l
    <3>8. PICK q \in (p + 1)..l : k = Chain[c][q]
      <4>1. k = Nearest(Chain[c][p + 1], n) /\ k # NoClass
        BY <2>1, <3>6, Distinct
      <4> HIDE DEF n
      <4> QED BY <2>2, <3>3, <3>7, <4>1, NearestAbove DEF l
    <3>9. q \in 1..l /\ p + 1 <= q /\ q <= q
      BY <3>5, <3>7, <3>8
    <3>10. Body(n, k).owner = k
      BY <2>2, BodyFields DEF Contexts
    <3>11. \E a, b \in 1..l : /\ Chain[c][a] = stack'[i].context
                              /\ Chain[c][b] = stack'[i].body.owner /\ a <= b
      <4>1. CASE n = "init"
        <5>1. Chain[c][p + 1] = stack'[i].context /\ Chain[c][q] = stack'[i].body.owner
          BY <3>1, <3>6, <3>8, <3>10, <4>1
        <5> QED BY <3>7, <3>9, <5>1
      <4>2. CASE n # "init"
        <5>1. Chain[c][q] = stack'[i].context /\ Chain[c][q] = stack'[i].body.owner
          BY <3>1, <3>8, <3>10, <4>2
        <5> QED BY <3>9, <5>1
      <4> QED BY <4>1, <4>2
    <3> QED BY <3>1, <3>3, <3>11 DEF InContext, c, l
  <2> QED BY <2>2, <2>4, <2>5
<1> QED BY <1>2, <1>3

LEMMA ReturnStep ==
  ASSUME TypeOK, OneCall, Climbing, ContextKept, Return,
         cleared => cleared', CallsServeInstances' => CallsServeInstances
  PROVE  /\ stack' \in Seq(Frames) /\ ran' \in Seq(Bodies)
         /\ OneCall' /\ Climbing' /\ ContextKept'
<1> DEFINE m == Len(stack)
<1>1. /\ stack # <<>> /\ stack' = SubSeq(stack, 1, m - 1)
      /\ ran' = IF m = 1 THEN <<>> ELSE ran
  BY DEF Return, Idle
<1>2. /\ stack \in Seq(Frames) /\ ran \in Seq(Bodies) /\ m \in Nat \ {0} /\ m <= Len(ran)
      /\ Len(ran) \in Nat \ {0} /\ ran # <<>>
  BY <1>1, TopFacts DEF TypeOK
<1>3. /\ stack' \in Seq(Frames) /\ ran' \in Seq(Bodies) /\ Len(stack') = m - 1
      /\ \A i \in 1..m - 1 : stack'[i] = stack[i]
  <2>1. m - 1 \in Int /\ 1 \in Int /\ \A i \in 1..m - 1 : stack[i] \in Frames
    BY <1>2
  <2>2. /\ SubSeq(stack, 1, m - 1) \in Seq(Frames)
        /\ Len(SubSeq(stack, 1, m - 1)) = IF 1 <= m - 1 THEN m - 1 - 1 + 1 ELSE 0
        /\ \A i \in 1..m - 1 - 1 + 1 : SubSeq(stack, 1, m - 1)[i] = stack[1 + i - 1]
    BY <2>1, SubSeqProperties
  <2> HIDE DEF m
  <2>3. /\ m - 1 - 1 + 1 = m - 1 /\ (IF 1 <= m - 1 THEN m - 1 - 1 + 1 ELSE 0) = m - 1
        /\ \A i \in 1..m - 1 : 1 + i - 1 = i
    BY <1>2
  <2>4. ran' \in Seq(Bodies)
    BY <1>1, <1>2
  <2> QED BY <1>1, <2>2, <2>3, <2>4
<1> HIDE DEF m
<1>4. CASE m = 1
  <2>1. stack' = <<>> /\ ran' = <<>> /\ Len(<<>>) = 0
    <3>1. Len(stack') = 0
      BY <1>3, <1>4
    <3> QED BY <1>1, <1>3, <1>4, <3>1
  <2> QED BY <1>3, <2>1 DEF OneCall, Climbing, ContextKept
<1>5. CASE m # 1
  <2>1. /\ ran' = ran /\ m - 1 \in 1..m /\ m - 1 < m /\ 1 \in 1..m - 1 /\ 1 \in 1..m
        /\ m - 1 \in 1..m - 1 /\ \A i \in 1..m - 1 : i \in 1..m /\ i < m
    BY <1>1, <1>2, <1>5
  <2>2. stack'[1] = stack[1] /\ Receiver' = Receiver
    BY <1>3, <2>1 DEF Receiver
  <2>3. Top'.done
    <3>1. Top' = stack'[m - 1]
      BY <1>3 DEF Top
    <3>2. stack'[m - 1] = stack[m - 1]
      BY <1>3, <2>1
    <3> QED BY <2>1, <3>1, <3>2 DEF OneCall, m
  <2>4. stack' # <<>>
    <3>1. Len(stack') # 0 /\ Len(<<>>) = 0
      BY <1>2, <1>3, <1>5
    <3> QED BY ONLY <3>1
  <2>5. OneCall'
    <3>1. \A i \in 1..m - 1 :
            /\ stack[i].self = stack[1].self /\ stack[i].body = ran[i]
            /\ stack[i].body.owner \in Classes => stack[i].context \in Classes \cup {NoClass}
            /\ stack[i].done
      BY <2>1 DEF OneCall, m
    <3>2. \A i \in 1..Len(ran) : ran[i].name = ran[1].name
      BY DEF OneCall
    <3>3. m - 1 <= Len(ran)
      BY <1>2
    <3>4. \A i \in 1..m - 1 :
            /\ stack'[i].self = stack'[1].self /\ stack'[i].body = ran'[i]
            /\ stack'[i].body.owner \in Classes => stack'[i].context \in Classes \cup {NoClass}
            /\ stack'[i].done
      BY <1>3, <2>1, <2>2, <3>1
    <3> QED BY <1>2, <1>3, <2>1, <2>3, <2>4, <3>2, <3>3, <3>4 DEF OneCall
  <2>6. Climbing'
    <3>1. BodiesOnce' <=> BodiesOnce
      BY <2>1 DEF BodiesOnce
    <3> QED BY <2>1, <2>2, <2>3, <3>1 DEF Climbing
  <2>7. ContextKept'
    <3> SUFFICES ASSUME ~cleared', CallsServeInstances', NEW i \in 1..m - 1,
                        stack[i].body.owner \in Classes
                 PROVE  InContext(stack[i])
      BY <1>3 DEF ContextKept, InContext
    <3> QED BY <2>1 DEF ContextKept, m
  <2> QED BY <1>3, <2>5, <2>6, <2>7
<1> QED BY <1>4, <1>5

(* A step outside the running call leaves all of this alone.                 *)
LEMMA CallKept ==
  ASSUME OneCall, Climbing, ContextKept, UNCHANGED <<stack, ran>>,
         cleared => cleared', CallsServeInstances' => CallsServeInstances
  PROVE  OneCall' /\ Climbing' /\ ContextKept'
<1>1. OneCall'
  BY DEF OneCall, Top
<1>2. Climbing'
  BY DEF Climbing, Top, Receiver, BodiesOnce, ClimbedTo
<1>3. ContextKept'
  BY DEF ContextKept
<1> QED BY <1>1, <1>2, <1>3

-----------------------------------------------------------------------------
(* The caches.                                                               *)

CacheChange(s, o) ==
    \/ UNCHANGED ic
    \/ ic' = [ic EXCEPT ![s].builtin = Dict]
    \/ (o \in Instances => Template(o) # Missing) /\ Remember(s, o)

LEMMA CacheChanges ==
  ASSUME NEW s, NEW o, Read(s, o) \/ Call(s, o)
  PROVE  CacheChange(s, o)
<1>1. CASE Read(s, o)
  BY <1>1 DEF Read, CacheChange
<1>2. CASE Call(s, o)
  BY <1>2 DEF Call, CacheChange
<1> QED BY <1>1, <1>2

(* A cache entry stays sound as long as its method half is left alone.       *)
LEMMA CacheKept ==
  ASSUME NEW e, NEW d, NEW served, NEW more, NEW a, NEW b, CacheSound(e, served, a),
         served \subseteq more, a => b,
         d.method = e.method, d.class = e.class, d.owner = e.owner
  PROVE  CacheSound(d, more, b)
BY DEF CacheSound

LEMMA ClassEntry ==
  ASSUME TypeOK, NEW s \in Sites, NEW o \in Instances, Template(o) # Missing, Remember(s, o)
  PROVE  /\ ic' \in [Sites -> Caches]
         /\ \A t \in Sites \ {s} : ic'[t] = ic[t]
         /\ ic'[s].class = TypeOf[o] /\ ic'[s].method = Template(o)
         /\ ic'[s].owner = Template(o).owner
         /\ TypeOf[o] \in Classes /\ Template(o).owner \in Classes
<1>1. TypeOf[o] \in Classes
  BY KindFacts DEF Instances
<1>2. Template(o) \in Bodies /\ Template(o).owner \in Classes
  BY <1>1, TemplateFacts DEF Template
<1> DEFINE d == [ic[s] EXCEPT !.class = TypeOf[o], !.method = Template(o),
                              !.owner = Template(o).owner]
<1>3. ic \in [Sites -> Caches] /\ ic[s] \in Caches
  BY DEF TypeOK
<1>4. /\ d \in Caches /\ d.class = TypeOf[o] /\ d.method = Template(o)
      /\ d.owner = Template(o).owner
  BY <1>1, <1>2, <1>3 DEF Caches, Contexts
<1>5. ic' = [ic EXCEPT ![s] = d]
  BY <1>3 DEF Remember, Caches
<1> HIDE DEF d
<1>6. ic' \in [Sites -> Caches] /\ ic'[s] = d /\ \A t \in Sites \ {s} : ic'[t] = ic[t]
  BY <1>3, <1>4, <1>5
<1> QED BY <1>1, <1>2, <1>4, <1>6

LEMMA TypeEntry ==
  ASSUME TypeOK, NEW s \in Sites, NEW o \in Objects \ Instances, Remember(s, o)
  PROVE  /\ ic' \in [Sites -> Caches]
         /\ \A t \in Sites \ {s} : ic'[t] = ic[t]
         /\ ic'[s].method = Body("f", TypeOf[o])
         /\ TypeOf[o] \in Containers /\ ic'[s].method.owner \notin Classes
<1>1. TypeOf[o] \in Containers /\ TypeOf[o] \notin Classes
  BY KindFacts
<1>2. Proto(o) \in Bodies /\ Proto(o).owner = TypeOf[o] /\ Proto(o) = Body("f", TypeOf[o])
  BY ProtoFacts
<1> DEFINE d == [ic[s] EXCEPT !.builtin = TypeOf[o], !.method = Proto(o), !.owner = TypeOf[o]]
<1>3. ic \in [Sites -> Caches] /\ ic[s] \in Caches
  BY DEF TypeOK
<1>4. d \in Caches /\ d.method = Proto(o)
  BY <1>1, <1>2, <1>3 DEF Caches, Contexts
<1>5. ic' = [ic EXCEPT ![s] = d]
  BY <1>3 DEF Remember, Caches
<1> HIDE DEF d
<1>6. ic' \in [Sites -> Caches] /\ ic'[s] = d /\ \A t \in Sites \ {s} : ic'[t] = ic[t]
  BY <1>3, <1>4, <1>5
<1> QED BY <1>1, <1>2, <1>4, <1>6

LEMMA CachesNext ==
  ASSUME TypeOK, CachesSound, MCNext
  PROVE  ic' \in [Sites -> Caches] /\ CachesSound'
<1>1. /\ \A s \in Sites : kinds[s] \subseteq kinds'[s]
      /\ \A s \in Sites, o \in Objects : Read(s, o) \/ Call(s, o) => Kind(o) \in kinds'[s]
      /\ cleared => cleared' /\ (ClearICs => cleared')
  BY HistoryNext
<1>2. ic \in [Sites -> Caches] /\ \A t \in Sites : CacheSound(ic[t], kinds[t], cleared)
  BY DEF TypeOK, CachesSound
<1>3. \A t \in Sites : ic'[t] = ic[t] => CacheSound(ic'[t], kinds'[t], cleared')
  <2> SUFFICES ASSUME NEW t \in Sites, ic'[t] = ic[t] PROVE CacheSound(ic'[t], kinds'[t], cleared')
    OBVIOUS
  <2> QED BY <1>1, <1>2, CacheKept
<1>4. CASE UNCHANGED ic
  BY <1>2, <1>3, <1>4 DEF CachesSound
<1>5. CASE ClearICs
  <2>0. cleared'
    BY <1>5, HistoryNext, Zenon
  <2>1. ic' = [t \in Sites |-> [ic[t] EXCEPT !.owner = NoClass]]
    BY <1>5 DEF ClearICs
  <2>2. ASSUME NEW t \in Sites
        PROVE  /\ ic'[t] \in Caches /\ ic'[t].method = ic[t].method
               /\ ic'[t].class = ic[t].class /\ ic'[t].owner = NoClass
    <3>1. ic[t] \in Caches /\ NoClass \in Contexts
      BY <1>2 DEF Contexts
    <3> QED BY <2>1, <3>1 DEF Caches
  <2>3. ASSUME NEW t \in Sites PROVE CacheSound(ic'[t], kinds'[t], cleared') 
    BY <1>1, <1>2, <2>0, <2>2 DEF CacheSound
  <2> QED BY <2>1, <2>2, <2>3 DEF CachesSound
<1>6. ASSUME NEW s \in Sites, NEW o \in Objects, Read(s, o) \/ Call(s, o)
      PROVE  ic' \in [Sites -> Caches] /\ CachesSound'
  <2>1. Kind(o) \in kinds'[s]
    BY <1>1, <1>6
  <2>2. CASE ic' = [ic EXCEPT ![s].builtin = Dict]
    <3> DEFINE d == [ic[s] EXCEPT !.builtin = Dict]
    <3>1. ic[s] \in Caches /\ Dict \in Containers
      BY <1>2, ParamAssumption
    <3>2. d \in Caches /\ d.method = ic[s].method /\ d.class = ic[s].class
          /\ d.owner = ic[s].owner
      BY <3>1 DEF Caches
    <3>3. ic' = [ic EXCEPT ![s] = d]
      BY <2>2
    <3> HIDE DEF d
    <3>4. ic' \in [Sites -> Caches] /\ ic'[s] = d /\ \A t \in Sites \ {s} : ic'[t] = ic[t]
      BY <1>2, <3>2, <3>3
    <3>5. CacheSound(ic'[s], kinds'[s], cleared')
      BY <1>1, <1>2, <3>2, <3>4, CacheKept
    <3> QED BY <1>3, <3>4, <3>5 DEF CachesSound
  <2>3. CASE o \in Instances /\ Template(o) # Missing /\ Remember(s, o)
    <3>1. /\ ic' \in [Sites -> Caches]
          /\ \A t \in Sites \ {s} : ic'[t] = ic[t]
          /\ ic'[s].class = TypeOf[o] /\ ic'[s].method = Template(o)
          /\ ic'[s].owner = Template(o).owner
          /\ TypeOf[o] \in Classes /\ Template(o).owner \in Classes
      BY <2>3, ClassEntry
    <3>2. Kind(o) = "instance" /\ \A t \in Containers : t # "instance"
      BY <2>3, KindFacts, KindAssumption
    <3>3. CacheSound(ic'[s], kinds'[s], cleared')
      BY <2>1, <3>1, <3>2 DEF CacheSound, Template
    <3> QED BY <1>3, <3>1, <3>3 DEF CachesSound
  <2>4. CASE o \notin Instances /\ Remember(s, o)
    <3>1. /\ ic' \in [Sites -> Caches]
          /\ \A t \in Sites \ {s} : ic'[t] = ic[t]
          /\ ic'[s].method = Body("f", TypeOf[o])
          /\ TypeOf[o] \in Containers /\ ic'[s].method.owner \notin Classes
      BY <2>4, TypeEntry
    <3>2. Kind(o) = TypeOf[o] /\ Kind(o) # "instance"
      BY <2>4, KindFacts
    <3>3. CacheSound(ic'[s], kinds'[s], cleared')
      BY <2>1, <3>1, <3>2 DEF CacheSound
    <3> QED BY <1>3, <3>1, <3>3 DEF CachesSound
  <2> QED BY <1>4, <1>6, <2>2, <2>3, <2>4, CacheChanges DEF CacheChange
<1>7. Next
  BY DEF MCNext
<1>8. ClearICs \/ UNCHANGED ic \/ \E s \in Sites, o \in Objects : Read(s, o) \/ Call(s, o)
  BY <1>7 DEF Next, SuperCall, Return, Construct, RemoveMember, SetMember
<1> QED BY <1>4, <1>5, <1>6, <1>8

-----------------------------------------------------------------------------
(* The bags, and the types.                                                  *)

LEMMA RecopiedFacts ==
  ASSUME TypeOK, Bags, NEW o \in Instances, Template(o) # Missing, own' = Recopied(o)
  PROVE  own' \in [Objects -> Bodies \cup {Absent}] /\ Bags'
<1>1. TypeOf[o] \in Classes /\ o \in Objects
  BY KindFacts DEF Instances
<1>2. Template(o) \in Bodies
  BY <1>1, TemplateFacts DEF Template
<1>3. own \in [Objects -> Bodies \cup {Absent}]
  BY DEF TypeOK
<1>4. own' = own \/ own' = [own EXCEPT ![o] = Template(o)]
  BY DEF Recopied
<1> QED BY <1>1, <1>2, <1>3, <1>4 DEF Bags

LEMMA BagsNext ==
  ASSUME TypeOK, Bags, Next
  PROVE  own' \in [Objects -> Bodies \cup {Absent}] /\ Bags'
<1>1. own \in [Objects -> Bodies \cup {Absent}]
  BY DEF TypeOK
<1>2. CASE UNCHANGED own
  BY <1>1, <1>2 DEF Bags
<1>3. ASSUME NEW o \in Objects, Construct(o)
      PROVE  own' \in [Objects -> Bodies \cup {Absent}] /\ Bags'
  <2>1. own' = [own EXCEPT ![o] = Snapshot(o)]
    BY <1>3 DEF Construct
  <2>2. /\ Snapshot(o) \in Bodies \cup {Absent}
        /\ Snapshot(o) # Absent => o \in Instances /\ Snapshot(o) = Template(o)
    BY SnapshotFacts
  <2> QED BY <1>1, <2>1, <2>2, Distinct DEF Bags
<1>4. ASSUME NEW o \in Objects, NEW v \in {Absent, Function}, SetMember(o, v)
      PROVE  own' \in [Objects -> Bodies \cup {Absent}] /\ Bags'
  <2>1. own' = [own EXCEPT ![o] = v]
    BY <1>4 DEF SetMember
  <2> QED BY <1>1, <2>1, Distinct DEF Bags
<1>5. ASSUME NEW s \in Sites, NEW o \in Objects, Call(s, o)
      PROVE  own' \in [Objects -> Bodies \cup {Absent}] /\ Bags'
  <2>1. \/ UNCHANGED own
        \/ o \in Instances /\ Template(o) # Missing /\ own' = Recopied(o)
    BY <1>5 DEF Call
  <2> QED BY <1>2, <2>1, RecopiedFacts
<1>6. ASSUME NEW s \in Sites, NEW o \in Objects, Read(s, o) PROVE UNCHANGED own
  BY <1>6 DEF Read
<1> QED
  BY <1>2, <1>3, <1>4, <1>5, <1>6 DEF Next, SuperCall, Return, ClearICs, RemoveMember

LEMMA ReadFacts ==
  ASSUME TypeOK, NEW s \in Sites, NEW o \in Objects, Read(s, o)
  PROVE  /\ answer' \in [object : Objects \cup {NoClass}, value : Bodies \cup {Absent, Missing}]
         /\ UNCHANGED <<stack, ran>>
<1>1. /\ own[o] \in Bodies \cup {Absent} /\ ic[s].method \in Bodies \cup {Missing}
      /\ Missing \in Bodies \cup {Absent, Missing}
      /\ Proto(o) \in Bodies
  BY CacheFields, ProtoFacts DEF TypeOK
<1>2. o \in Instances => Template(o) \in Bodies \cup {Missing}
  BY KindFacts, TemplateFacts DEF Template
<1>3. \E v \in Bodies \cup {Absent, Missing} : Found(o, v)
  BY <1>1, <1>2 DEF Read
<1> QED BY <1>3 DEF Read, Found

-----------------------------------------------------------------------------
LEMMA InvInit == MCInit => IInv
<1> SUFFICES ASSUME MCInit PROVE IInv
  OBVIOUS
<1>1. /\ own = [o \in Objects |-> Snapshot(o)] /\ ic = [s \in Sites |-> Cold]
      /\ stack = <<>> /\ ran = <<>> /\ answer = [object |-> NoClass, value |-> Missing]
      /\ kinds = [s \in Sites |-> {}] /\ cleared = FALSE
  BY DEF MCInit, Init
<1>2. own \in [Objects -> Bodies \cup {Absent}] /\ Bags
  <2>1. \A o \in Objects :
          /\ Snapshot(o) \in Bodies \cup {Absent}
          /\ Snapshot(o) # Absent => o \in Instances /\ Snapshot(o) = Template(o)
    BY SnapshotFacts
  <2> QED BY <1>1, <2>1, Distinct DEF Bags
<1>3. Cold \in Caches /\ Cold.method = Missing
  BY DEF Cold, Caches, Contexts
<1>4. TypeOK
  <2>1. ic \in [Sites -> Caches]
    BY <1>1, <1>3
  <2>2. answer \in [object : Objects \cup {NoClass}, value : Bodies \cup {Absent, Missing}]
    BY <1>1
  <2>3. kinds \in [Sites -> SUBSET (Containers \cup {"instance"})] /\ cleared \in BOOLEAN
    BY <1>1
  <2>4. stack \in Seq(Frames) /\ ran \in Seq(Bodies)
    BY <1>1
  <2> QED BY <1>2, <2>1, <2>2, <2>3, <2>4 DEF TypeOK
<1>5. CachesSound
  BY <1>1, <1>3 DEF CachesSound, CacheSound
<1>6. Len(<<>>) = 0
  OBVIOUS
<1>7. OneCall /\ Climbing /\ ContextKept
  BY <1>1, <1>6 DEF OneCall, Climbing, ContextKept
<1> QED BY <1>2, <1>4, <1>5, <1>7 DEF IInv

LEMMA InvNext == IInv /\ [MCNext]_<<vars, kinds, cleared>> => IInv'
<1> SUFFICES ASSUME IInv, [MCNext]_<<vars, kinds, cleared>> PROVE IInv'
  OBVIOUS
<1> USE DEF IInv
<1>1. CASE UNCHANGED <<vars, kinds, cleared>>
  BY <1>1 DEF vars, TypeOK, Bags, CachesSound, OneCall, Climbing, ContextKept, BodiesOnce,
              Receiver, ClimbedTo, Top, CallsServeInstances
<1>2. CASE MCNext
  <2>1. /\ kinds' \in [Sites -> SUBSET (Containers \cup {"instance"})]
        /\ \A s \in Sites : kinds[s] \subseteq kinds'[s]
        /\ cleared' \in BOOLEAN /\ (cleared => cleared')
    BY <1>2, HistoryNext, Zenon
  <2>2. ic' \in [Sites -> Caches] /\ CachesSound'
    BY <1>2, CachesNext
  <2>3. Next
    BY <1>2 DEF MCNext
  <2>4. own' \in [Objects -> Bodies \cup {Absent}] /\ Bags'
    BY <2>3, BagsNext
  <2>5. CallsServeInstances' => CallsServeInstances
    BY <2>1 DEF CallsServeInstances
  <2>6. answer \in [object : Objects \cup {NoClass}, value : Bodies \cup {Absent, Missing}]
        /\ stack \in Seq(Frames) /\ ran \in Seq(Bodies)
    BY DEF TypeOK
  <2> DEFINE Good == /\ answer' \in [object : Objects \cup {NoClass},
                                    value : Bodies \cup {Absent, Missing}]
                     /\ stack' \in Seq(Frames) /\ ran' \in Seq(Bodies)
                     /\ OneCall' /\ Climbing' /\ ContextKept'
  <2>7. ASSUME SuperCall PROVE Good
    <3>1. OneCall' /\ Climbing' /\ ContextKept'
      BY <2>1, <2>5, <2>7, SuperOneCall, SuperClimbs, SuperContext
    <3>2. stack' \in Seq(Frames) /\ ran' \in Seq(Bodies) /\ answer' = answer
      <4>1. CASE stack' = <<>> /\ ran' = <<>>
        BY <2>7, <4>1, SuperStep
      <4>2. CASE ~(stack' = <<>> /\ ran' = <<>>)
        BY <2>7, <4>2, SuperStep, PushFacts
      <4> QED BY <4>1, <4>2
    <3> QED BY <2>6, <3>1, <3>2
  <2>8. ASSUME Return PROVE Good
    BY <2>1, <2>5, <2>6, <2>8, ReturnStep DEF Return
  <2>9. ASSUME UNCHANGED <<stack, ran>>
        PROVE  /\ stack' \in Seq(Frames) /\ ran' \in Seq(Bodies)
               /\ OneCall' /\ Climbing' /\ ContextKept'
    BY <2>1, <2>5, <2>6, <2>9, CallKept
  <2>10. ASSUME ClearICs PROVE Good
    BY <2>6, <2>9, <2>10 DEF ClearICs
  <2>11. ASSUME NEW o \in Objects, NEW v, SetMember(o, v) PROVE Good
    BY <2>6, <2>9, <2>11 DEF SetMember
  <2>12. ASSUME NEW s \in Sites, NEW o \in Objects, Read(s, o) PROVE Good
    BY <2>9, <2>12, ReadFacts
  <2> DEFINE Typed == TypeOK'
  <2>13. Good => Typed
    BY <2>1, <2>2, <2>4 DEF TypeOK
  <2>14. ASSUME NEW o \in Objects, NEW v \in Bodies \cup {Missing}, NEW x \in Contexts,
                NEW served, Enter(o, v, x), Entry(o, v, x, served),
                CallsServeInstances' => served \subseteq {"instance"}
         PROVE  Good
    <3>1. /\ stack' \in Seq(Frames) /\ ran' \in Seq(Bodies)
          /\ answer' \in [object : Objects \cup {NoClass}, value : Bodies \cup {Absent, Missing}]
      BY <2>14, EnterFacts
    <3>2. TypeOK'
      BY <2>1, <2>2, <2>4, <3>1 DEF TypeOK
    <3>3. OneCall' /\ Climbing' /\ ContextKept'
      BY <2>1, <2>14, <3>2, EnterSound
    <3> QED BY <3>1, <3>3
  <2>15. ASSUME NEW o \in Objects, Construct(o) PROVE Good
    <3> DEFINE c == TypeOf[o]  k == Nearest(c, "init")
               v == IF k = NoClass THEN Missing ELSE Body("init", k)
    <3>1. o \in Instances /\ c \in Classes /\ "init" \in Names /\ Enter(o, v, c)
      BY <2>15, KindFacts DEF Construct, Names
    <3>2. k \in Classes \cup {NoClass}
      BY <3>1, NearestType
    <3>3. /\ k # NoClass => Body("init", k) \in Bodies /\ Body("init", k).name = "init"
                            /\ Body("init", k).owner = k
          /\ c \in Contexts
      BY <3>1, <3>2, BodyFields DEF Contexts
    <3>4. k # NoClass => \E b \in 1..Len(Chain[c]) : Chain[c][b] = k
      BY <3>1, NearestFacts
    <3>5. Len(Chain[c]) \in Nat \ {0} /\ Chain[c][1] = c /\ 1 \in 1..Len(Chain[c])
      BY <3>1, ChainFacts
    <3>6. c \in Has["init"] => k = c
      BY <3>1, NearestHere
    <3>7. v \in Bodies \cup {Missing} /\ Entry(o, v, c, {"instance"})
      <4> HIDE DEF k, c
      <4>1. CASE k = NoClass
        BY <4>1, Distinct DEF Entry
      <4>2. CASE k # NoClass
        <5>1. v = Body("init", k)
          BY <4>2
        <5> HIDE DEF v
        <5>2. PICK b \in 1..Len(Chain[c]) : Chain[c][b] = k
          BY <3>4, <4>2
        <5>3. \E a, d \in 1..Len(Chain[c]) : Chain[c][a] = c /\ Chain[c][d] = v.owner /\ a <= d
          BY <3>3, <3>5, <4>2, <5>1, <5>2
        <5> QED BY <3>1, <3>3, <3>6, <4>2, <5>1, <5>3 DEF Entry, c
      <4> QED BY <4>1, <4>2
    <3> HIDE DEF v, c
    <3> QED BY <2>14, <3>1, <3>3, <3>7
  <2>16. ASSUME NEW s \in Sites, NEW o \in Objects, Call(s, o) PROVE Good
    <3>1. Kind(o) \in kinds'[s] /\ kinds[s] \subseteq kinds'[s]
      BY <1>2, <2>16, HistoryNext, Zenon
    <3>2. PICK v \in Bodies \cup {Missing}, x \in Contexts :
             Enter(o, v, x) /\ Entry(o, v, x, kinds[s] \cup {Kind(o)})
      BY <2>16, CallOutcome
    <3>3. OpOf[s] = "call"
      BY <2>16 DEF Call
    <3>4. CallsServeInstances' => kinds[s] \cup {Kind(o)} \subseteq {"instance"}
      BY <3>1, <3>3 DEF CallsServeInstances
    <3> HIDE DEF Good
    <3> QED BY <2>14, <3>2, <3>4
  <2>17. Good
    <3> HIDE DEF Good
    <3>1. CASE SuperCall \/ Return \/ ClearICs
      BY <2>7, <2>8, <2>10, <3>1
    <3>2. CASE \E o \in Objects : RemoveMember(o) \/ SetMember(o, Function)
      BY <2>11, <3>2 DEF RemoveMember
    <3> QED BY <2>3, <2>12, <2>15, <2>16, <3>1, <3>2 DEF Next
  <2> QED BY <2>2, <2>4, <2>13, <2>17
<1> QED BY <1>1, <1>2

-----------------------------------------------------------------------------
LEMMA InvHolds == MCSpec => []IInv
BY InvInit, InvNext, PTL DEF MCSpec

(* Bags, caches, running bodies and answers stay well typed, for any classes *)
(* with single inheritance, objects and instructions.                        *)
THEOREM TypeCorrect == MCSpec => []TypeOK
<1>1. IInv => TypeOK
  BY DEF IInv
<1> QED BY InvHolds, <1>1, PTL

(* Until caches are cleared, super finds a class to go on from: a body of a  *)
(* class runs in the context of a class of its receiver, at or below the one *)
(* that defines it, however the call found it (execInvoke, execSuperInvoke). *)
THEOREM SuperAlwaysPlaced == MCSpec => []ContextKeptUndisturbed
<1>1. IInv => ContextKeptUndisturbed
  BY DEF IInv, ContextKept, ContextKeptUndisturbed, InContext
<1> QED BY InvHolds, <1>1, PTL

(* A call on an instance whose class defines the name itself climbs: super   *)
(* never runs the same body again, whatever the caches held when it began.   *)
THEOREM SuperAlwaysClimbs == MCSpec => []BodiesOnceUndisturbed
<1>1. IInv => BodiesOnceUndisturbed
  BY DEF IInv, Climbing, BodiesOnceUndisturbed, Receiver
<1> QED BY InvHolds, <1>1, PTL

-----------------------------------------------------------------------------
(* A hit finds what the receiver's type provides, if the site has served     *)
(* receivers of its kind only.                                               *)
LEMMA HitExact ==
  ASSUME TypeOK, CachesSound, NEW s \in Sites, NEW o \in Objects,
         kinds[s] \subseteq {Kind(o)}, ClassHit(s, o) \/ TypeHit(s, o)
  PROVE  ic[s].method = IF o \in Instances THEN Template(o) ELSE Proto(o)
<1>1. CacheSound(ic[s], kinds[s], cleared) /\ ic[s].method # Missing
  BY DEF CachesSound, ClassHit, TypeHit
<1>2. CASE o \in Instances
  <2>1. kinds[s] \subseteq {"instance"}
    BY <1>2, KindFacts
  <2>2. ic[s].class = TypeOf[o]
    BY <1>2 DEF ClassHit, TypeHit
  <2>3. ic[s].method = TemplateOf(ic[s].class)
    BY <1>1, <2>1 DEF CacheSound
  <2> QED BY <1>2, <2>2, <2>3 DEF Template
<1>3. CASE o \notin Instances
  <2>1. TypeOf[o] \in Containers /\ Kind(o) = TypeOf[o]
    BY <1>3, KindFacts
  <2>2. ic[s].method = Body("f", TypeOf[o])
    BY <1>1, <2>1 DEF CacheSound
  <2> QED BY <1>3, <2>2 DEF Proto
<1> QED BY <1>2, <1>3

LEMMA LookupExact ==
  ASSUME TypeOK, CachesSound, NEW s \in Sites, NEW o \in Objects,
         kinds[s] \subseteq {Kind(o)}, Read(s, o) \/ Call(s, o)
  PROVE  answer'.value = Lookup(o)
<1>1. \A v : Found(o, v) => answer'.value = v
  BY DEF Found
<1>2. \A v, x : Enter(o, v, x) => answer'.value = v
  BY DEF Enter, Found
<1>3. ClassHit(s, o) \/ TypeHit(s, o) =>
        ic[s].method = IF o \in Instances THEN Template(o) ELSE Proto(o)
  BY HitExact
<1>4. CASE Read(s, o)
  BY <1>1, <1>3, <1>4 DEF Read, Lookup
<1>5. CASE Call(s, o)
  BY <1>2, <1>3, <1>5 DEF Call, Lookup, Shadowed
<1> QED BY <1>4, <1>5

(* A read or a call of a site that serves one kind of receiver finds exactly *)
(* what the full lookup finds, whatever was cached, overwritten, removed or  *)
(* cleared before (GET_PROP, execInvoke).                                    *)
THEOREM LookupsAlwaysExact == MCSpec => LookupsExactUndisturbed
<1>1. IInv => [\A s \in Sites, o \in Objects :
                 (Read(s, o) \/ Call(s, o)) /\ kinds[s] \subseteq {Kind(o)}
                   => answer'.value = Lookup(o)]_<<vars, kinds, cleared>>
  BY LookupExact DEF IInv
<1> QED BY InvHolds, <1>1, PTL DEF LookupsExactUndisturbed
=============================================================================
