------------------------------ MODULE Globals ------------------------------
(***************************************************************************)
(* Global variables as src/vm/VM.cpp keeps them: values in numbered slots,  *)
(* a table of names, the set of constant names, one inline cache per        *)
(* instruction that names a global, and slots burnt into machine code.      *)
(* A site is such an instruction.  Sites of the top-level chunk that is     *)
(* running (InScript) differ from those of functions: clearAllGlobalICs     *)
(* only walks over compiledFunctions.                                       *)
(***************************************************************************)
EXTENDS Integers, Sequences

CONSTANTS Names, Values, None, Functions, Builtins, BuiltinOf, Undef, Error,
          Sites, OpOf, NameOf, InScript,
          MaxSlots     \* bound: slots ever allocated

ASSUME ParamAssumption ==
  /\ None \in Values /\ Undef \notin Values /\ Error \notin Values
  /\ Undef # Error
  /\ Functions \subseteq Values \ {None}
  /\ Builtins \subseteq Names /\ BuiltinOf \in [Builtins -> Values \ {None}]
  /\ OpOf \in [Sites -> {"get", "set", "setRef", "const", "getProp", "invoke"}]
  /\ NameOf \in [Sites -> Names]
  /\ InScript \subseteq Sites
  /\ MaxSlots \in Nat

VARIABLES globals,      \* the slots
          globalNames,  \* name -> slot, 0 when the name is not in the table
          constGlobals,
          slot,         \* site -> cachedGlobalSlot: 0 is -1, Pinned is -4
          code,         \* site -> what machine code does there
          answer        \* what the last operation gave back

vars == <<globals, globalNames, constGlobals, slot, code, answer>>

Pinned == -4          \* the site is known to mean the builtin function
Interpreted == -1     \* no machine code for this site
Callout == 0          \* machine code calls jc2_jit_get_global / set_global

Slots == 1..MaxSlots
Fits(s, op) == OpOf[s] = op
Known(n) == globalNames[n] # 0
ValueOf(n) == globals[globalNames[n]]
Native(n)  == n \in Builtins /\ BuiltinOf[n] \in Functions
Answer(op, n, v) == answer' = [op |-> op, name |-> n, value |-> v]

TypeOK ==
  /\ globals \in Seq(Values) /\ Len(globals) <= MaxSlots
  /\ globalNames \in [Names -> 0..Len(globals)]
  /\ constGlobals \subseteq Names
  /\ slot \in [Sites -> (0..Len(globals)) \cup {Pinned}]
  /\ code \in [Sites -> (0..Len(globals)) \cup {Interpreted}]
  /\ \A s \in Sites : OpOf[s] # "getProp" => slot[s] # Pinned

Init ==
  /\ globals = << >>
  /\ globalNames = [n \in Names |-> 0]
  /\ constGlobals = {}
  /\ slot = [s \in Sites |-> 0]
  /\ code = [s \in Sites |-> Interpreted]
  /\ answer = [op |-> "start", name |-> Undef, value |-> Undef]

-----------------------------------------------------------------------------
(* Mutant of Cleared: a change of the table leaves the caches alone.        *)
ClearedNothing == slot
(* clearAllGlobalICs, before the site that made the slot caches it.         *)
Cleared == [s \in Sites |-> IF s \in InScript THEN slot[s] ELSE 0]

Keep == UNCHANGED <<globals, globalNames, constGlobals, slot, code>>
Refuse(op, n) == Answer(op, n, Error) /\ Keep

NewSlot(n, v) ==
  /\ Len(globals) < MaxSlots
  /\ globals' = Append(globals, v)
  /\ globalNames' = [globalNames EXCEPT ![n] = Len(globals) + 1]

Store(i, v) == globals' = [globals EXCEPT ![i] = v] /\ UNCHANGED globalNames

(* Write through the table: the slot of the name, or a new one.             *)
StoreByName(s, v) ==
  LET n == NameOf[s] IN
  \/ /\ Known(n) /\ Store(globalNames[n], v)
     /\ slot' = [slot EXCEPT ![s] = globalNames[n]]
  \/ /\ ~Known(n) /\ NewSlot(n, v)
     /\ slot' = [Cleared EXCEPT ![s] = Len(globals) + 1]

GetGlobal(s) ==
  LET n == NameOf[s] IN
  /\ Fits(s, "get")
  /\ \/ /\ slot[s] > 0
        /\ Answer("get", n, globals[slot[s]]) /\ Keep
     \/ /\ slot[s] = 0 /\ Known(n)
        /\ slot' = [slot EXCEPT ![s] = globalNames[n]]
        /\ Answer("get", n, ValueOf(n))
        /\ UNCHANGED <<globals, globalNames, constGlobals, code>>
     \/ /\ slot[s] = 0 /\ ~Known(n) /\ n \in Builtins
        /\ StoreByName(s, BuiltinOf[n])
        /\ Answer("get", n, BuiltinOf[n])
        /\ UNCHANGED <<constGlobals, code>>
     \/ /\ slot[s] = 0 /\ ~Known(n) /\ n \notin Builtins
        /\ Refuse("get", n)

(* Mutant of SetGlobal: the first assignment does not look there either.     *)
SetGlobalUnchecked(s, v) ==
  /\ Fits(s, "set")
  /\ Answer("set", NameOf[s], v)
  /\ \/ slot[s] > 0 /\ Store(slot[s], v) /\ UNCHANGED slot
     \/ slot[s] = 0 /\ StoreByName(s, v)
  /\ UNCHANGED <<constGlobals, code>>
(* A cached SET_GLOBAL stores without looking at constGlobals.              *)
SetGlobal(s, v) ==
  LET n == NameOf[s] IN
  /\ Fits(s, "set")
  /\ \/ /\ slot[s] > 0 /\ Store(slot[s], v)
        /\ Answer("set", n, v) /\ UNCHANGED <<constGlobals, slot, code>>
     \/ /\ slot[s] = 0 /\ n \in constGlobals /\ Refuse("set", n)
     \/ /\ slot[s] = 0 /\ n \notin constGlobals
        /\ StoreByName(s, v)
        /\ Answer("set", n, v) /\ UNCHANGED <<constGlobals, code>>

(* SET_GLOBAL_REF and DEFINE_CONST_GLOBAL check first, then use the cache.  *)
StoreCached(s, v) ==
  \/ slot[s] # 0 /\ Store(slot[s], v) /\ UNCHANGED slot
  \/ slot[s] = 0 /\ StoreByName(s, v)

SetGlobalRef(s, v) ==
  LET n == NameOf[s] IN
  /\ Fits(s, "setRef")
  /\ \/ /\ n \in constGlobals \/ (~Known(n) /\ n \notin Builtins)
        /\ Refuse("setRef", n)
     \/ /\ n \notin constGlobals /\ (Known(n) \/ n \in Builtins)
        /\ StoreCached(s, v)
        /\ Answer("setRef", n, v) /\ UNCHANGED <<constGlobals, code>>

DefineConstGlobal(s, v) ==
  LET n == NameOf[s] IN
  /\ Fits(s, "const")
  /\ \/ n \in constGlobals /\ Refuse("const", n)
     \/ /\ n \notin constGlobals /\ StoreCached(s, v)
        /\ constGlobals' = constGlobals \cup {n}
        /\ Answer("const", n, v) /\ UNCHANGED code

(* Mutant of Unname: the caches are cleared only if the slot held something. *)
UnnameHeld(n) ==
  /\ globals' = [globals EXCEPT ![globalNames[n]] = None]
  /\ globalNames' = [globalNames EXCEPT ![n] = 0]
  /\ slot' = IF ValueOf(n) = None THEN slot ELSE Cleared
(* The slot stays, with none in it; the name leaves the table.              *)
Unname(n) ==
  /\ globals' = [globals EXCEPT ![globalNames[n]] = None]
  /\ globalNames' = [globalNames EXCEPT ![n] = 0]
  /\ slot' = Cleared

DeleteGlobal(n) ==
  \/ (n \in constGlobals \/ ~Known(n)) /\ Refuse("delete", n)
  \/ /\ n \notin constGlobals /\ Known(n)
     /\ Unname(n)
     /\ Answer("delete", n, None) /\ UNCHANGED <<constGlobals, code>>

(* The names a compilation created for itself.                              *)
RemoveGlobal(n) ==
  /\ \/ Known(n) /\ Unname(n)
     \/ ~Known(n) /\ slot' = Cleared /\ UNCHANGED <<globals, globalNames>>
  /\ constGlobals' = constGlobals \ {n}
  /\ UNCHANGED <<code, answer>>

-----------------------------------------------------------------------------
(* x.n where x has no member n.  A builtin found here stays for good: the   *)
(* site is Pinned until the caches are cleared.                             *)
GetPropGlobal(s) ==
  LET n == NameOf[s]
      i == IF slot[s] > 0 THEN slot[s] ELSE globalNames[n] IN
  /\ Fits(s, "getProp")
  /\ \/ /\ slot[s] = Pinned
        /\ Answer("getProp", n, BuiltinOf[n]) /\ UNCHANGED slot
     \/ /\ slot[s] # Pinned /\ i > 0 /\ globals[i] \in Functions
        /\ slot' = [slot EXCEPT ![s] = i]
        /\ Answer("getProp", n, globals[i])
     \/ /\ slot[s] # Pinned
        /\ i > 0 => globals[i] \notin Functions
        /\ \/ /\ Native(n) /\ slot' = [slot EXCEPT ![s] = Pinned]
              /\ Answer("getProp", n, BuiltinOf[n])
           \/ /\ ~Native(n) /\ UNCHANGED slot
              /\ Answer("getProp", n, Error)
  /\ UNCHANGED <<globals, globalNames, constGlobals, code>>

(* x.n(...): a cached slot that holds no function any more is passed over.   *)
InvokeGlobal(s) ==
  LET n == NameOf[s]
      i == IF slot[s] > 0 THEN slot[s] ELSE globalNames[n] IN
  /\ Fits(s, "invoke")
  /\ \/ /\ i > 0 /\ globals[i] \in Functions
        /\ slot' = [slot EXCEPT ![s] = i]
        /\ Answer("invoke", n, globals[i])
     \/ /\ i > 0 => globals[i] \notin Functions
        /\ Answer("invoke", n, IF Native(n) THEN BuiltinOf[n] ELSE Error)
        /\ UNCHANGED slot
  /\ UNCHANGED <<globals, globalNames, constGlobals, code>>

-----------------------------------------------------------------------------
(* Machine code of a function takes over the slot its caches hold now.      *)
Compile(s) ==
  /\ s \notin InScript /\ OpOf[s] \in {"get", "set"}
  /\ code[s] = Interpreted
  /\ code' = [code EXCEPT ![s] = slot[s]]
  /\ UNCHANGED <<globals, globalNames, constGlobals, slot, answer>>

(* VM::setGlobal: no test for const, no cache cleared.                      *)
HostSet(n, v) ==
  \/ Known(n) /\ Store(globalNames[n], v)
  \/ ~Known(n) /\ NewSlot(n, v)

(* jc2_jit_get_global takes a global that holds none for a missing one.     *)
JitGetGlobal(s) ==
  LET n == NameOf[s]
      found == Known(n) /\ ValueOf(n) # None IN
  /\ Fits(s, "get") /\ code[s] # Interpreted
  /\ \/ /\ code[s] # Callout
        /\ Answer("get", n, globals[code[s]]) /\ Keep
     \/ /\ code[s] = Callout /\ found
        /\ Answer("get", n, ValueOf(n)) /\ Keep
     \/ /\ code[s] = Callout /\ ~found /\ n \in Builtins
        /\ HostSet(n, BuiltinOf[n])
        /\ Answer("get", n, BuiltinOf[n])
        /\ UNCHANGED <<constGlobals, slot, code>>
     \/ /\ code[s] = Callout /\ ~found /\ n \notin Builtins
        /\ Refuse("get", n)

JitSetGlobal(s, v) ==
  /\ Fits(s, "set") /\ code[s] # Interpreted
  /\ \/ code[s] # Callout /\ Store(code[s], v)
     \/ code[s] = Callout /\ HostSet(NameOf[s], v)
  /\ Answer("set", NameOf[s], v)
  /\ UNCHANGED <<constGlobals, slot, code>>

(* The next line typed at the prompt is a new chunk with empty caches.      *)
NextScript ==
  /\ slot' = [s \in Sites |-> IF s \in InScript THEN 0 ELSE slot[s]]
  /\ UNCHANGED <<globals, globalNames, constGlobals, code, answer>>

Next ==
  \/ NextScript
  \/ \E n \in Names : DeleteGlobal(n) \/ RemoveGlobal(n)
  \/ \E s \in Sites : \/ GetGlobal(s) \/ GetPropGlobal(s) \/ InvokeGlobal(s)
                      \/ Compile(s) \/ JitGetGlobal(s)
  \/ \E s \in Sites, v \in Values :
       \/ SetGlobal(s, v) \/ SetGlobalRef(s, v) \/ DefineConstGlobal(s, v)
       \/ JitSetGlobal(s, v)

Spec == Init /\ [][Next]_vars
-----------------------------------------------------------------------------
Exact(s) == slot[s] > 0 => slot[s] = globalNames[NameOf[s]]

(* A function's inline caches never name a slot the name has left: every    *)
(* way a name leaves its slot clears them (VM.h clearAllGlobalICs).          *)
FunctionCachesExact == \A s \in Sites \ InScript : Exact(s)

(* What a site relies on without looking: the slot of its cache, the slot in *)
(* its machine code, that the name is no constant, that no function has been *)
(* bound to a name whose builtin it pinned.                                 *)
Faithful(s) ==
  LET n == NameOf[s] IN
  /\ Exact(s)
  /\ OpOf[s] = "set" /\ n \in constGlobals
       => slot[s] = 0 /\ code[s] = Interpreted
  /\ slot[s] = Pinned => Native(n) /\ (Known(n) => ValueOf(n) \notin Functions)
  /\ code[s] > 0 => code[s] = globalNames[n]
  /\ OpOf[s] = "get" /\ code[s] = Callout => (Known(n) => ValueOf(n) # None)

(* The map from names to values that the slots and the table stand for.     *)
Env == [n \in Names |-> IF Known(n) THEN ValueOf(n) ELSE Undef]
E == INSTANCE Environment WITH env <- Env, consts <- constGlobals

(* Slots, caches and machine code are invisible: while every site is         *)
(* faithful, each step is one of the plain map of names to values.           *)
CachesInvisible ==
  E!Init /\ [][(\A s \in Sites : Faithful(s)) => E!Next]_(E!envVars)
=============================================================================
