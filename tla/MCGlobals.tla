----------------------------- MODULE MCGlobals -----------------------------
(***************************************************************************)
(* A name that is also a builtin function, with a site of each instruction  *)
(* in a function and one in the running script, and a name nothing binds,   *)
(* which can only be refused.                                               *)
EXTENDS Globals, FiniteSets

VARIABLE seen    \* history: what can make a cache lie, as far as it happened

MCOpOf == [ get |-> "get", getS |-> "get", set |-> "set", ref |-> "setRef",
            const |-> "const", prop |-> "getProp", call |-> "invoke",
            getM |-> "get", refM |-> "setRef",
            propM |-> "getProp" ]
MCSites == DOMAIN MCOpOf
MCNames == {"n", "m"}
MCNameOf == [s \in MCSites |->
               IF s \in {"getM", "refM", "propM"} THEN "m" ELSE "n"]
MCBuiltinOf == [n \in {"n"} |-> "builtin"]
MCValues == {"none", "fun", "builtin"}

Holds(n) == Known(n) /\ ValueOf(n) \in Functions
Held(s) == slot[s] > 0 \/ code[s] # Interpreted

(* The ways a site comes to rely on what is no longer so.                   *)
Disturbances ==
  { d \in {"delete", "const", "none", "rebind"} :
     \E s \in Sites : LET n == NameOf[s] IN
       \/ d = "delete" /\ Known(n) /\ globalNames'[n] = 0
          /\ ((s \in InScript /\ slot[s] > 0) \/ code[s] > 0)
       \/ d = "const" /\ n \in constGlobals' \ constGlobals
          /\ OpOf[s] = "set" /\ Held(s)
       \/ d = "const" /\ n \in constGlobals /\ code'[s] # code[s]
       \/ d = "none" /\ globalNames'[n] # 0 /\ globals'[globalNames'[n]] = None
          /\ OpOf[s] = "get" /\ code'[s] = Callout
       \/ d = "rebind" /\ slot[s] = Pinned /\ ~Holds(n)
          /\ globalNames'[n] # 0 /\ globals'[globalNames'[n]] \in Functions }

MCInit == Init /\ seen = {}
MCNext == Next /\ seen' = seen \cup Disturbances
(* Bound: kinds of disturbance met.                                         *)
OneDisturbance == Cardinality(seen) <= 1
(* The next step never depends on the last answer.                          *)
View == <<globals, globalNames, constGlobals, slot, code, seen>>
MCSpec == MCInit /\ [][MCNext]_<<vars, seen>>

(* No cache of any site lies until a name it has a slot for is deleted under *)
(* a running script or machine code, a name that machine code or a cache      *)
(* assigns becomes constant, machine code that asks by name meets none, or a  *)
(* function is bound to a name whose builtin a member access has pinned       *)
(* (VM.cpp 5059, 7445, 8905; VM.h 295).                                      *)
FaithfulUntilDisturbed == seen = {} => \A s \in Sites : Faithful(s)
=============================================================================
