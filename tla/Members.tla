------------------------------ MODULE Members ------------------------------
(***************************************************************************)
(* One member name, and how reads and calls of it are resolved: the bag of  *)
(* each object, the templates of its classes, the prototypes of the built-  *)
(* in containers, the method cache of each instruction (InlineCache), and   *)
(* which class a running body takes itself to be in, where super goes on    *)
(* from (src/vm/VM.cpp execInvoke, GET_PROP, execSuperInvoke).               *)
(***************************************************************************)
EXTENDS Naturals, Sequences

CONSTANTS Classes, Chain,   \* class -> itself, its parent, and so on up
          Native,           \* classes whose instances get no copies
          Has,              \* "f", "init" -> the classes that define it
          Containers,       \* types with a shared prototype that has f
          Dict,             \* the one of them with keys
          Objects, TypeOf,
          Sites, OpOf

ASSUME ParamAssumption ==
  /\ Chain \in [Classes -> Seq(Classes)]
  /\ \A c \in Classes : Chain[c] # << >> /\ Chain[c][1] = c
  /\ Native \subseteq Classes
  /\ Has \in [{"f", "init"} -> SUBSET Classes]
  /\ Dict \in Containers /\ Classes \cap Containers = {}
  /\ TypeOf \in [Objects -> Classes \cup Containers]
  /\ OpOf \in [Sites -> {"read", "call"}]
  /\ "noClass" \notin Classes \cup Containers

(* A class is created under a parent that exists and keeps it: the chain of  *)
(* an ancestor is the rest of the chain.                                     *)
ASSUME ChainAssumption ==
  \A c \in Classes : \A i \in 1..Len(Chain[c]) :
     Chain[Chain[c][i]] = SubSeq(Chain[c], i, Len(Chain[c]))

VARIABLES own,     \* object -> what its own bag holds under the name
          ic,      \* site -> cachedClassId, cachedMethod, cachedClass,
                   \*         cachedBuiltinType
          stack,   \* the bodies running because of one call or construction
          ran,     \* which bodies it has run, in order
          answer   \* what the last read or call found

vars == <<own, ic, stack, ran, answer>>

NoClass == "noClass"
Absent == [name |-> "absent", owner |-> NoClass]
Missing == [name |-> "missing", owner |-> NoClass]
Body(n, c) == [name |-> n, owner |-> c]
Function == Body("f", NoClass)          \* a closure of no class
Callable(v) == v # Missing

Instances == { o \in Objects : TypeOf[o] \in Classes }
Scripted(c) == c \notin Native

(* The nearest class from c upwards that defines the name.                  *)
Nearest(c, n) ==
  LET up == {i \in 1..Len(Chain[c]) : Chain[c][i] \in Has[n]} IN
  IF up = {} THEN NoClass ELSE Chain[c][CHOOSE i \in up : \A j \in up : i <= j]
Parent(c) == IF Len(Chain[c]) = 1 THEN NoClass ELSE Chain[c][2]

(* slotNames: f of c or of an ancestor that is itself written in JC2.        *)
Slotted(c) == /\ Scripted(c)
              /\ \E i \in 1..Len(Chain[c]) :
                    Scripted(Chain[c][i]) /\ Chain[c][i] \in Has["f"]

(* Construction copies the templates of the class into the new instance.    *)
Snapshot(o) == LET c == TypeOf[o] IN
  IF o \in Instances /\ Slotted(c) THEN Body("f", Nearest(c, "f")) ELSE Absent

Cold == [class |-> NoClass, method |-> Missing, owner |-> NoClass,
         builtin |-> NoClass]

Init == /\ own = [o \in Objects |-> Snapshot(o)]
        /\ ic = [s \in Sites |-> Cold]
        /\ stack = << >> /\ ran = << >>
        /\ answer = [object |-> NoClass, value |-> Missing]

Idle == stack = << >>
Found(o, v) == answer' = [object |-> o, value |-> v]
(* A closure found for a call starts to run, in the given class context.    *)
Enter(o, v, context) ==
  /\ Found(o, v)
  /\ stack' = IF Callable(v)
              THEN <<[body |-> v, context |-> context, self |-> o,
                      done |-> FALSE]>> ELSE << >>
  /\ ran' = IF Callable(v) THEN <<v>> ELSE << >>

-----------------------------------------------------------------------------
HasOwn(o) == own[o] # Absent
Proto(o) == Body("f", TypeOf[o])
TemplateOf(c) == LET k == Nearest(c, "f") IN
                 IF k = NoClass THEN Missing ELSE Body("f", k)
Template(o) == TemplateOf(TypeOf[o])

ClassHit(s, o) == /\ o \in Instances
                  /\ ic[s].class = TypeOf[o] /\ ic[s].method # Missing
TypeHit(s, o) == /\ o \notin Instances
                 /\ ic[s].builtin = TypeOf[o] /\ ic[s].method # Missing

Remember(s, o) ==
  IF o \in Instances
  THEN ic' = [ic EXCEPT ![s].class = TypeOf[o], ![s].method = Template(o),
                        ![s].owner = Template(o).owner]
  ELSE ic' = [ic EXCEPT ![s].builtin = TypeOf[o], ![s].method = Proto(o),
                        ![s].owner = TypeOf[o]]

(* Mutant of Shadowed: only the keys of a dictionary come first.            *)
ShadowedByKeys(o) == TypeOf[o] = Dict /\ HasOwn(o)
(* What an object holds itself comes before what a cache says.              *)
Shadowed(o) == HasOwn(o)

(* GET_PROP.  A key of a dictionary is cached by position, under its type.  *)
Read(s, o) ==
  /\ Idle /\ OpOf[s] = "read"
  /\ UNCHANGED <<own, stack, ran>>
  /\ \/ /\ HasOwn(o)
        /\ Found(o, own[o])
        /\ ic' = IF TypeOf[o] = Dict THEN [ic EXCEPT ![s].builtin = Dict] ELSE ic
     \/ /\ ~HasOwn(o) /\ (ClassHit(s, o) \/ TypeHit(s, o))
        /\ Found(o, ic[s].method) /\ UNCHANGED ic
     \/ /\ ~HasOwn(o) /\ ~ClassHit(s, o) /\ ~TypeHit(s, o)
        /\ \/ o \in Instances /\ Template(o) = Missing
              /\ Found(o, Missing) /\ UNCHANGED ic
           \/ o \in Instances /\ Template(o) # Missing
              /\ Found(o, Template(o)) /\ Remember(s, o)
           \/ o \notin Instances
              /\ Found(o, Proto(o)) /\ Remember(s, o)

(* A template found by the walk up the classes is copied into the instance  *)
(* again if it is that of its own class.                                    *)
Recopied(o) == IF Template(o).owner = TypeOf[o] /\ Slotted(TypeOf[o])
               THEN [own EXCEPT ![o] = Template(o)] ELSE own

(* Mutant of OwnContext: an instance is treated like a dictionary.          *)
OwnContextNone(o) == NoClass
(* What an instance holds itself runs in the context of the class of the    *)
(* instance, what a dictionary holds in none.                               *)
OwnContext(o) == IF o \in Instances THEN TypeOf[o] ELSE NoClass

(* execInvoke.                                                              *)
Call(s, o) ==
  /\ Idle /\ OpOf[s] = "call"
  /\ \/ /\ ~Shadowed(o) /\ (ClassHit(s, o) \/ TypeHit(s, o))
        /\ Enter(o, ic[s].method, ic[s].owner)
        /\ UNCHANGED <<own, ic>>
     \/ /\ HasOwn(o) /\ (Shadowed(o) \/ (~ClassHit(s, o) /\ ~TypeHit(s, o)))
        /\ Enter(o, own[o], OwnContext(o))
        /\ UNCHANGED <<own, ic>>
     \/ /\ ~HasOwn(o) /\ ~ClassHit(s, o) /\ ~TypeHit(s, o)
        /\ \/ /\ o \in Instances /\ Template(o) = Missing
              /\ Enter(o, Missing, NoClass) /\ UNCHANGED <<own, ic>>
           \/ /\ o \in Instances /\ Template(o) # Missing
              /\ Enter(o, Template(o), Template(o).owner)
              /\ own' = Recopied(o) /\ Remember(s, o)
           \/ /\ o \notin Instances
              /\ Enter(o, Proto(o), TypeOf[o])
              /\ UNCHANGED own /\ Remember(s, o)

(* A construction runs the nearest init, in the context of the class built. *)
Construct(o) ==
  /\ Idle /\ o \in Instances /\ Scripted(TypeOf[o])
  /\ own' = [own EXCEPT ![o] = Snapshot(o)]
  /\ LET k == Nearest(TypeOf[o], "init") IN
     Enter(o, IF k = NoClass THEN Missing ELSE Body("init", k), TypeOf[o])
  /\ UNCHANGED ic

-----------------------------------------------------------------------------
Top == stack[Len(stack)]

(* Mutant of SuperStart: the search begins at the context itself.           *)
SuperStartHere(fr) == fr.context
(* super goes on from the parent of the class context.                      *)
SuperStart(fr) == IF fr.context = NoClass THEN NoClass ELSE Parent(fr.context)

(* super.f runs in the context of the class that defines it, super.init in  *)
(* that of the class where the search began.                                *)
SuperCall ==
  LET from == SuperStart(Top)
      n == Top.body.name
      k == IF from = NoClass THEN NoClass ELSE Nearest(from, n) IN
  /\ ~Idle /\ ~Top.done
  /\ Top.body.owner \in Classes \ Native
  /\ \/ /\ k = NoClass                      \* throws out of the whole call
        /\ stack' = << >> /\ ran' = << >>
     \/ /\ k # NoClass
        /\ stack' = Append([stack EXCEPT ![Len(stack)].done = TRUE],
             [body |-> Body(n, k), context |-> IF n = "init" THEN from ELSE k,
              self |-> Top.self, done |-> FALSE])
        /\ ran' = Append(ran, Body(n, k))
  /\ UNCHANGED <<own, ic, answer>>

Return == /\ ~Idle
          /\ stack' = SubSeq(stack, 1, Len(stack) - 1)
          /\ ran' = IF Len(stack) = 1 THEN << >> ELSE ran
          /\ UNCHANGED <<own, ic, answer>>

-----------------------------------------------------------------------------
(* a.f = closure on an instance or a dictionary, and its removal.           *)
SetMember(o, v) ==
  /\ Idle /\ (o \in Instances \/ TypeOf[o] = Dict)
  /\ own' = [own EXCEPT ![o] = v]
  /\ UNCHANGED <<ic, stack, ran, answer>>

RemoveMember(o) == HasOwn(o) /\ SetMember(o, Absent)

(* Every change of the table of globals forgets cachedClass, and only that. *)
ClearICs ==
  /\ Idle
  /\ ic' = [s \in Sites |-> [ic[s] EXCEPT !.owner = NoClass]]
  /\ UNCHANGED <<own, stack, ran, answer>>

Next ==
  \/ SuperCall \/ Return \/ ClearICs
  \/ \E o \in Objects :
       \/ Construct(o) \/ RemoveMember(o) \/ SetMember(o, Function)
       \/ \E s \in Sites : Read(s, o) \/ Call(s, o)

Spec == Init /\ [][Next]_vars
-----------------------------------------------------------------------------
(* The order documented for reads and calls alike: the object's own bag,    *)
(* then what its type provides.                                             *)
Lookup(o) == IF HasOwn(o) THEN own[o]
             ELSE IF o \in Instances THEN Template(o) ELSE Proto(o)

(* super climbs: no body runs twice because of one call.                    *)
BodiesOnce == \A i, j \in 1..Len(ran) : ran[i] = ran[j] => i = j
=============================================================================
