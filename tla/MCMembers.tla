----------------------------- MODULE MCMembers -----------------------------
(***************************************************************************)
(* A root class, a class that overrides, one that inherits the override; a  *)
(* native class and a class derived from it; a list and a dictionary.       *)
(***************************************************************************)
EXTENDS Members, FiniteSets

VARIABLES kinds,    \* history: site -> the kinds of receiver it has served
          cleared   \* history: the caches have been cleared

MCClasses == {"Root", "Mid", "Leaf", "Nat", "Sub"}
MCChain == [ Root |-> <<"Root">>, Mid |-> <<"Mid", "Root">>,
             Leaf |-> <<"Leaf", "Mid", "Root">>,
             Nat |-> <<"Nat">>, Sub |-> <<"Sub", "Nat">> ]
MCHas == [ f |-> {"Root", "Mid", "Nat"}, init |-> {"Root", "Mid", "Sub"} ]
MCTypeOf == [ mid |-> "Mid", leaf |-> "Leaf", sub |-> "Sub",
              lst |-> "List", dct |-> "Dict" ]
MCObjects == DOMAIN MCTypeOf
MCOpOf == [ read |-> "read", call |-> "call" ]

ASSUME KindAssumption == "instance" \notin Containers
Kind(o) == IF o \in Instances THEN "instance" ELSE TypeOf[o]

MCInit == Init /\ kinds = [s \in Sites |-> {}] /\ cleared = FALSE
MCNext ==
  /\ Next
  /\ cleared' = (cleared \/ ClearICs)
  /\ kinds' = [s \in Sites |-> kinds[s] \cup
                 { Kind(o) : o \in { p \in Objects : Read(s, p) \/ Call(s, p) } }]
(* answer only reports what the last step found.                            *)
View == <<own, ic, stack, ran, kinds, cleared>>
(* Nothing is claimed of a site once it has served two kinds of receiver.   *)
OneKind == \A s \in Sites : Cardinality(kinds[s]) <= 1
MCSpec == MCInit /\ [][MCNext]_<<vars, kinds, cleared>>

(* A read and a call of a site that serves one kind of receiver find what   *)
(* the object holds or its type provides, whatever was cached, overwritten, *)
(* removed or cleared before (VM.cpp 2289, 7304).                            *)
LookupsExactUndisturbed ==
  [][\A s \in Sites, o \in Objects :
       (Read(s, o) \/ Call(s, o)) /\ kinds[s] \subseteq {Kind(o)}
         => answer'.value = Lookup(o)]_<<vars, kinds, cleared>>

CallsServeInstances ==
  \A s \in Sites : OpOf[s] = "call" => kinds[s] \subseteq {"instance"}

(* As long as no cache has been cleared, a body of a class runs in the      *)
(* context of a class of its receiver, at or below the one that defines it: *)
(* super finds a class to go on from (VM.cpp 2297, 2405, 2660).              *)
ContextKeptUndisturbed ==
  \A i \in 1..Len(stack) :
    LET fr == stack[i] IN
    fr.body.owner \in Classes /\ ~cleared /\ CallsServeInstances =>
      \E a, b \in 1..Len(Chain[TypeOf[fr.self]]) :
        /\ Chain[TypeOf[fr.self]][a] = fr.context
        /\ Chain[TypeOf[fr.self]][b] = fr.body.owner
        /\ a <= b

(* f goes on from the class that defines the body, init from the class the  *)
(* search began at: it must not pass a class that leaves init to its parent. *)
Unbroken(c, n) ==
  /\ c \in Has[n]
  /\ n = "init" => \A i, j \in 1..Len(Chain[c]) :
                      i <= j /\ Chain[c][j] \in Has[n] => Chain[c][i] \in Has[n]

(* A call on an instance whose class defines the name itself, and for init  *)
(* each class up to the last one that does, runs no body twice (VM.cpp       *)
(* 2660).                                                                    *)
BodiesOnceUndisturbed ==
  ran # << >> /\ Unbroken(TypeOf[stack[1].self], ran[1].name) => BodiesOnce
=============================================================================
