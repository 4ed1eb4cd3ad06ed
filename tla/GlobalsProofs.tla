--------------------------- MODULE GlobalsProofs ---------------------------
(***************************************************************************)
(* Types, exact caches in functions, and the refinement of the plain map of *)
(* names while every site is faithful.                                      *)
(***************************************************************************)
EXTENDS MCGlobals, SequenceTheorems, TLAPS

(* Two names never share a slot: a write by one would change the other.     *)
OwnSlots == \A m, n \in Names :
              globalNames[m] = globalNames[n] /\ globalNames[m] # 0 => m = n

IInv == TypeOK /\ OwnSlots /\ FunctionCachesExact

LEMMA InitInv == Init => IInv
  <1> SUFFICES ASSUME Init PROVE IInv
    OBVIOUS
  <1> USE ParamAssumption DEF Init
  <1>1. TypeOK
    BY DEF TypeOK, Pinned, Interpreted
  <1>2. OwnSlots /\ FunctionCachesExact
    BY DEF OwnSlots, FunctionCachesExact, Exact
  <1>. QED BY <1>1, <1>2 DEF IInv

-----------------------------------------------------------------------------
(* What the two writes to the slots and the removal of a name keep.         *)
LEMMA StoreKeeps ==
  ASSUME TypeOK, NEW i \in 1..Len(globals), NEW v \in Values, Store(i, v)
  PROVE  /\ globals' \in Seq(Values) /\ Len(globals') = Len(globals)
         /\ globals'[i] = v
         /\ \A j \in 1..Len(globals) : j # i => globals'[j] = globals[j]
         /\ globalNames' = globalNames
  BY DEF TypeOK, Store

LEMMA NewSlotKeeps ==
  ASSUME TypeOK, NEW n \in Names, NEW v \in Values, NewSlot(n, v)
  PROVE  /\ globals' \in Seq(Values) /\ Len(globals') = Len(globals) + 1
         /\ Len(globals') <= MaxSlots
         /\ globals'[Len(globals) + 1] = v
         /\ \A j \in 1..Len(globals) : globals'[j] = globals[j]
         /\ globalNames' = [globalNames EXCEPT ![n] = Len(globals) + 1]
         /\ globalNames' \in [Names -> 0..Len(globals')]
  <1> USE ParamAssumption
  <1>1. globals \in Seq(Values) /\ Len(globals) \in Nat
    BY DEF TypeOK
  <1>2. globals' = Append(globals, v) /\ Len(globals) < MaxSlots
    BY DEF NewSlot
  <1>3. globals' \in Seq(Values) /\ Len(globals') = Len(globals) + 1
        /\ globals'[Len(globals) + 1] = v
        /\ \A j \in 1..Len(globals) : globals'[j] = globals[j]
    BY <1>1, <1>2
  <1>4. globalNames' = [globalNames EXCEPT ![n] = Len(globals) + 1]
    BY DEF NewSlot
  <1>5. globalNames' \in [Names -> 0..Len(globals')]
    BY <1>1, <1>3, <1>4 DEF TypeOK
  <1>. QED BY <1>1, <1>2, <1>3, <1>4, <1>5

LEMMA UnnameKeeps ==
  ASSUME TypeOK, NEW n \in Names, Known(n), Unname(n)
  PROVE  /\ globals' \in Seq(Values) /\ Len(globals') = Len(globals)
         /\ \A j \in 1..Len(globals) :
              j # globalNames[n] => globals'[j] = globals[j]
         /\ globalNames' = [globalNames EXCEPT ![n] = 0]
         /\ globalNames' \in [Names -> 0..Len(globals')]
         /\ slot' = Cleared
  <1> USE ParamAssumption
  <1>1. globalNames[n] \in 1..Len(globals) /\ Len(globals) \in Nat
    BY DEF TypeOK, Known
  <1>2. globals' = [globals EXCEPT ![globalNames[n]] = None]
        /\ globalNames' = [globalNames EXCEPT ![n] = 0] /\ slot' = Cleared
    BY DEF Unname
  <1>3. globals' \in Seq(Values) /\ Len(globals') = Len(globals)
        /\ \A j \in 1..Len(globals) :
              j # globalNames[n] => globals'[j] = globals[j]
    BY <1>1, <1>2 DEF TypeOK
  <1>4. globalNames' \in [Names -> 0..Len(globals')]
    BY <1>2, <1>3, <1>1 DEF TypeOK
  <1>. QED BY <1>2, <1>3, <1>4

-----------------------------------------------------------------------------
(* The invariant of the table and the caches, for each effect on them.      *)
LEMMA SameTable ==
  ASSUME IInv, UNCHANGED globalNames, globals' \in Seq(Values),
         Len(globals') = Len(globals), constGlobals' \subseteq Names,
         slot' \in [Sites -> Int],
         \A s \in Sites : \/ slot'[s] = slot[s]
                          \/ slot'[s] = 0
                          \/ slot'[s] = globalNames[NameOf[s]]
                          \/ slot'[s] = Pinned /\ OpOf[s] = "getProp",
         code' \in [Sites -> (0..Len(globals)) \cup {Interpreted}]
  PROVE  IInv'
  <1> USE ParamAssumption
  <1>1. /\ globalNames \in [Names -> 0..Len(globals)] /\ Len(globals) \in Nat
        /\ Len(globals) <= MaxSlots
        /\ slot \in [Sites -> (0..Len(globals)) \cup {Pinned}]
        /\ \A s \in Sites : OpOf[s] # "getProp" => slot[s] # Pinned
    BY DEF IInv, TypeOK
  <1>2. ASSUME NEW s \in Sites
        PROVE  /\ slot'[s] \in (0..Len(globals)) \cup {Pinned}
               /\ OpOf[s] # "getProp" => slot'[s] # Pinned
    BY <1>1 DEF Pinned
  <1>3. slot' \in [Sites -> (0..Len(globals')) \cup {Pinned}]
    BY <1>2
  <1>4. TypeOK'
    BY <1>1, <1>2, <1>3 DEF TypeOK
  <1>5. OwnSlots'
    BY DEF IInv, OwnSlots
  <1>6. FunctionCachesExact'
    <2> SUFFICES ASSUME NEW s \in Sites \ InScript, slot'[s] > 0
                 PROVE  slot'[s] = globalNames[NameOf[s]]
      BY DEF FunctionCachesExact, Exact
    <2>1. slot[s] > 0 => slot[s] = globalNames[NameOf[s]]
      BY DEF IInv, FunctionCachesExact, Exact
    <2>2. \/ slot'[s] = slot[s] \/ slot'[s] = 0
          \/ slot'[s] = globalNames[NameOf[s]] \/ slot'[s] = -4
      BY DEF Pinned
    <2>. QED BY <2>1, <2>2
  <1>. QED BY <1>4, <1>5, <1>6 DEF IInv

(* A name takes a new slot, and the caches are cleared but the one there.   *)
LEMMA NameAdded ==
  ASSUME IInv, NEW n \in Names, NEW v \in Values, ~Known(n), NewSlot(n, v),
         constGlobals' \subseteq Names,
         slot' \in [Sites -> Int],
         \A s \in Sites :
            \/ slot'[s] = slot[s]
            \/ slot'[s] = 0
            \/ slot'[s] = Len(globals) + 1 /\ NameOf[s] = n,
         code' \in [Sites -> (0..Len(globals)) \cup {Interpreted}]
  PROVE  IInv'
  <1> USE ParamAssumption
  <1>0. TypeOK
    BY DEF IInv
  <1>1. /\ globalNames \in [Names -> 0..Len(globals)] /\ Len(globals) \in Nat
        /\ slot \in [Sites -> (0..Len(globals)) \cup {Pinned}]
        /\ \A s \in Sites : OpOf[s] # "getProp" => slot[s] # Pinned
    BY <1>0 DEF TypeOK
  <1>2. /\ globals' \in Seq(Values) /\ Len(globals') = Len(globals) + 1
        /\ Len(globals') <= MaxSlots
        /\ globalNames' = [globalNames EXCEPT ![n] = Len(globals) + 1]
        /\ globalNames' \in [Names -> 0..Len(globals')]
    BY <1>0, NewSlotKeeps
  <1>3. ASSUME NEW s \in Sites
        PROVE  /\ slot'[s] \in (0..Len(globals')) \cup {Pinned}
               /\ OpOf[s] # "getProp" => slot'[s] # Pinned
    <2>1. slot[s] \in (0..Len(globals)) \cup {-4} /\ NameOf[s] \in Names
      BY <1>1 DEF Pinned
    <2>2. CASE slot'[s] = slot[s]
      BY <1>1, <1>2, <2>1, <2>2 DEF Pinned
    <2>3. CASE slot'[s] = 0
      BY <1>1, <1>2, <2>3 DEF Pinned
    <2>4. CASE slot'[s] = Len(globals) + 1
      BY <1>1, <1>2, <2>4 DEF Pinned
    <2>. QED BY <2>2, <2>3, <2>4
  <1>4. slot' \in [Sites -> (0..Len(globals')) \cup {Pinned}]
    BY <1>3
  <1>5. code' \in [Sites -> (0..Len(globals')) \cup {Interpreted}]
    BY <1>1, <1>2
  <1>6. TypeOK'
    BY <1>2, <1>3, <1>4, <1>5 DEF TypeOK
  <1>7. OwnSlots'
    BY <1>1, <1>2 DEF IInv, OwnSlots
  <1>8. FunctionCachesExact'
    <2> SUFFICES ASSUME NEW s \in Sites \ InScript, slot'[s] > 0
                 PROVE  slot'[s] = globalNames'[NameOf[s]]
      BY DEF FunctionCachesExact, Exact
    <2>1. slot[s] > 0 => slot[s] = globalNames[NameOf[s]]
      BY DEF IInv, FunctionCachesExact, Exact
    <2>2. CASE slot'[s] = slot[s]
      <3>1. NameOf[s] \in Names /\ NameOf[s] # n
        BY <2>1, <2>2 DEF Known
      <3>. QED BY <1>1, <1>2, <2>1, <2>2, <3>1
    <2>3. CASE slot'[s] = Len(globals) + 1 /\ NameOf[s] = n
      BY <1>1, <1>2, <2>3
    <2>. QED BY <2>2, <2>3
  <1>. QED BY <1>6, <1>7, <1>8 DEF IInv

LEMMA NameRemoved ==
  ASSUME IInv, NEW n \in Names, Known(n), Unname(n),
         constGlobals' \subseteq Names, UNCHANGED code
  PROVE  IInv'
  <1> USE ParamAssumption
  <1>0. TypeOK
    BY DEF IInv
  <1>1. /\ globalNames \in [Names -> 0..Len(globals)] /\ Len(globals) \in Nat
        /\ Len(globals) <= MaxSlots
        /\ slot \in [Sites -> (0..Len(globals)) \cup {Pinned}]
        /\ \A s \in Sites : OpOf[s] # "getProp" => slot[s] # Pinned
        /\ code \in [Sites -> (0..Len(globals)) \cup {Interpreted}]
    BY <1>0 DEF TypeOK
  <1>2. /\ globals' \in Seq(Values) /\ Len(globals') = Len(globals)
        /\ globalNames' = [globalNames EXCEPT ![n] = 0]
        /\ globalNames' \in [Names -> 0..Len(globals')]
        /\ slot' = Cleared
    BY <1>0, UnnameKeeps
  <1>3. /\ slot' \in [Sites -> (0..Len(globals')) \cup {Pinned}]
        /\ \A s \in Sites : OpOf[s] # "getProp" => slot'[s] # Pinned
    BY <1>1, <1>2 DEF Cleared, Pinned
  <1>4. TypeOK'
    BY <1>1, <1>2, <1>3 DEF TypeOK
  <1>5. OwnSlots'
    BY <1>1, <1>2 DEF IInv, OwnSlots
  <1>6. FunctionCachesExact'
    BY <1>2 DEF FunctionCachesExact, Exact, Cleared
  <1>. QED BY <1>4, <1>5, <1>6 DEF IInv

LEMMA Untouched ==
  ASSUME IInv, UNCHANGED <<globals, globalNames>>,
         constGlobals' \subseteq Names,
         slot' \in [Sites -> Int],
         \A s \in Sites : \/ slot'[s] = slot[s]
                          \/ slot'[s] = 0
                          \/ slot'[s] = globalNames[NameOf[s]]
                          \/ slot'[s] = Pinned /\ OpOf[s] = "getProp",
         code' \in [Sites -> (0..Len(globals)) \cup {Interpreted}]
  PROVE  IInv'
  BY SameTable DEF IInv, TypeOK

LEMMA Stored ==
  ASSUME IInv, NEW i \in 1..Len(globals), NEW v \in Values, Store(i, v),
         constGlobals' \subseteq Names, slot' \in [Sites -> Int],
         \A s \in Sites : \/ slot'[s] = slot[s]
                          \/ slot'[s] = globalNames[NameOf[s]],
         UNCHANGED code
  PROVE  IInv'
  <1>1. globals' \in Seq(Values) /\ Len(globals') = Len(globals)
        /\ UNCHANGED globalNames
    BY StoreKeeps DEF IInv
  <1>. QED BY <1>1, SameTable DEF IInv, TypeOK

LEMMA StoredByName ==
  ASSUME IInv, NEW s \in Sites, NEW v \in Values, StoreByName(s, v),
         constGlobals' \subseteq Names, UNCHANGED code
  PROVE  IInv'
  <1> USE ParamAssumption
  <1>1. /\ NameOf[s] \in Names /\ Len(globals) \in Nat
        /\ globalNames[NameOf[s]] \in 0..Len(globals)
        /\ slot \in [Sites -> Int]
        /\ code \in [Sites -> (0..Len(globals)) \cup {Interpreted}]
    BY DEF IInv, TypeOK, Pinned
  <1>2. CASE Known(NameOf[s])
    <2>1. globalNames[NameOf[s]] \in 1..Len(globals)
      BY <1>1, <1>2 DEF Known
    <2>2. /\ Store(globalNames[NameOf[s]], v)
          /\ slot' = [slot EXCEPT ![s] = globalNames[NameOf[s]]]
      BY <1>2 DEF StoreByName
    <2>3. slot' \in [Sites -> Int]
          /\ \A r \in Sites : slot'[r] = slot[r] \/ slot'[r] = globalNames[NameOf[r]]
      BY <1>1, <2>1, <2>2
    <2>. QED BY <2>1, <2>2, <2>3, Stored
  <1>3. CASE ~Known(NameOf[s])
    <2>1. /\ NewSlot(NameOf[s], v)
          /\ slot' = [Cleared EXCEPT ![s] = Len(globals) + 1]
      BY <1>3 DEF StoreByName
    <2>2. slot' \in [Sites -> Int]
      BY <1>1, <2>1 DEF Cleared
    <2>3. ASSUME NEW r \in Sites
          PROVE  \/ slot'[r] = slot[r] \/ slot'[r] = 0
                 \/ slot'[r] = Len(globals) + 1 /\ NameOf[r] = NameOf[s]
      BY <1>1, <2>1 DEF Cleared
    <2>. QED BY <1>1, <1>3, <2>1, <2>2, <2>3, NameAdded
  <1>. QED BY <1>2, <1>3

LEMMA StoredCached ==
  ASSUME IInv, NEW s \in Sites, NEW v \in Values, StoreCached(s, v),
         OpOf[s] # "getProp", constGlobals' \subseteq Names, UNCHANGED code
  PROVE  IInv'
  <1>1. CASE slot[s] # 0 /\ Store(slot[s], v) /\ UNCHANGED slot
    <2>1. slot[s] \in 1..Len(globals) /\ slot' \in [Sites -> Int]
      BY <1>1 DEF IInv, TypeOK, Pinned
    <2>. QED BY <1>1, <2>1, Stored
  <1>2. CASE slot[s] = 0 /\ StoreByName(s, v)
    BY <1>2, StoredByName
  <1>. QED BY <1>1, <1>2 DEF StoreCached

(* A write of the host: the slots and the table change, the caches do not.  *)
LEMMA HostKeeps ==
  ASSUME IInv, NEW n \in Names, NEW v \in Values, HostSet(n, v),
         UNCHANGED <<constGlobals, slot, code>>
  PROVE  IInv'
  <1> USE ParamAssumption
  <1>1. /\ globalNames[n] \in 0..Len(globals) /\ Len(globals) \in Nat
        /\ slot' \in [Sites -> Int] /\ constGlobals' \subseteq Names
        /\ code' \in [Sites -> (0..Len(globals)) \cup {Interpreted}]
    BY DEF IInv, TypeOK, Pinned
  <1>2. CASE Known(n) /\ Store(globalNames[n], v)
    <2>1. globalNames[n] \in 1..Len(globals)
      BY <1>1, <1>2 DEF Known
    <2>. QED BY <1>1, <1>2, <2>1, Stored
  <1>3. CASE ~Known(n) /\ NewSlot(n, v)
    BY <1>1, <1>3, NameAdded
  <1>. QED BY <1>2, <1>3 DEF HostSet

-----------------------------------------------------------------------------
LEMMA NextInv == IInv /\ [Next]_vars => IInv'
  <1> SUFFICES ASSUME IInv, [Next]_vars PROVE IInv'
    OBVIOUS
  <1> USE ParamAssumption
  <1>0. /\ constGlobals \subseteq Names /\ Len(globals) \in Nat
        /\ slot \in [Sites -> Int]
        /\ code \in [Sites -> (0..Len(globals)) \cup {Interpreted}]
        /\ globalNames \in [Names -> 0..Len(globals)]
        /\ \A s \in Sites : slot[s] \in (0..Len(globals)) \cup {Pinned}
    BY DEF IInv, TypeOK, Pinned
  <1>1. CASE NextScript
    BY <1>0, <1>1, Untouched DEF NextScript
  <1>2. ASSUME NEW n \in Names, DeleteGlobal(n) PROVE IInv'
    <2>1. CASE Refuse("delete", n)
      BY <1>0, <2>1, Untouched DEF Refuse, Keep
    <2>2. CASE Known(n) /\ Unname(n) /\ UNCHANGED <<constGlobals, code>>
      BY <1>0, <2>2, NameRemoved
    <2>. QED BY <1>2, <2>1, <2>2 DEF DeleteGlobal
  <1>3. ASSUME NEW n \in Names, RemoveGlobal(n) PROVE IInv'
    <2>1. CASE Known(n) /\ Unname(n)
      BY <1>0, <1>3, <2>1, NameRemoved DEF RemoveGlobal
    <2>2. CASE slot' = Cleared /\ UNCHANGED <<globals, globalNames>>
      BY <1>0, <1>3, <2>2, Untouched DEF RemoveGlobal, Cleared
    <2>. QED BY <1>3, <2>1, <2>2 DEF RemoveGlobal
  <1>4. ASSUME NEW s \in Sites, GetGlobal(s) PROVE IInv'
    <2>1. CASE Keep
      BY <1>0, <2>1, Untouched DEF Keep
    <2>2. CASE /\ slot' = [slot EXCEPT ![s] = globalNames[NameOf[s]]]
               /\ UNCHANGED <<globals, globalNames, constGlobals, code>>
      <3>1. slot' \in [Sites -> Int]
        BY <1>0, <2>2
      <3>2. \A r \in Sites : slot'[r] = slot[r] \/ slot'[r] = globalNames[NameOf[r]]
        BY <1>0, <2>2
      <3>. QED BY <1>0, <2>2, <3>1, <3>2, Untouched
    <2>3. CASE /\ NameOf[s] \in Builtins /\ StoreByName(s, BuiltinOf[NameOf[s]])
               /\ UNCHANGED <<constGlobals, code>>
      BY <1>0, <2>3, StoredByName
    <2>. QED BY <1>4, <2>1, <2>2, <2>3 DEF GetGlobal, Refuse
  <1>5. ASSUME NEW s \in Sites, GetPropGlobal(s) PROVE IInv'
    <2>1. UNCHANGED <<globals, globalNames, constGlobals, code>>
      BY <1>5 DEF GetPropGlobal
    <2>2. \/ UNCHANGED slot
          \/ slot' = [slot EXCEPT ![s] = Pinned] /\ OpOf[s] = "getProp"
          \/ slot[s] > 0 /\ slot' = [slot EXCEPT ![s] = slot[s]]
          \/ slot' = [slot EXCEPT ![s] = globalNames[NameOf[s]]]
      BY <1>5 DEF GetPropGlobal, Fits
    <2>3. slot' \in [Sites -> Int]
      BY <1>0, <2>2 DEF Pinned
    <2>4. \A r \in Sites : \/ slot'[r] = slot[r]
                           \/ slot'[r] = globalNames[NameOf[r]]
                           \/ slot'[r] = Pinned /\ OpOf[r] = "getProp"
      BY <1>0, <2>2
    <2>. QED BY <1>0, <2>1, <2>3, <2>4, Untouched
  <1>6. ASSUME NEW s \in Sites, InvokeGlobal(s) PROVE IInv'
    <2>1. UNCHANGED <<globals, globalNames, constGlobals, code>>
      BY <1>6 DEF InvokeGlobal
    <2>2. \/ UNCHANGED slot
          \/ slot[s] > 0 /\ slot' = [slot EXCEPT ![s] = slot[s]]
          \/ slot' = [slot EXCEPT ![s] = globalNames[NameOf[s]]]
      BY <1>6 DEF InvokeGlobal
    <2>3. slot' \in [Sites -> Int]
      BY <1>0, <2>2
    <2>4. \A r \in Sites : slot'[r] = slot[r] \/ slot'[r] = globalNames[NameOf[r]]
      BY <1>0, <2>2
    <2>. QED BY <1>0, <2>1, <2>3, <2>4, Untouched
  <1>7. ASSUME NEW s \in Sites, Compile(s) PROVE IInv'
    <2>1. code' = [code EXCEPT ![s] = slot[s]] /\ OpOf[s] # "getProp"
          /\ UNCHANGED <<globals, globalNames, constGlobals, slot>>
      BY <1>7 DEF Compile
    <2>2. slot[s] \in 0..Len(globals)
      BY <1>0, <2>1 DEF IInv, TypeOK
    <2>3. code' \in [Sites -> (0..Len(globals)) \cup {Interpreted}]
      BY <1>0, <2>1, <2>2
    <2>. QED BY <1>0, <2>1, <2>3, Untouched
  <1>8. ASSUME NEW s \in Sites, JitGetGlobal(s) PROVE IInv'
    <2>1. CASE Keep
      BY <1>0, <2>1, Untouched DEF Keep
    <2>2. CASE /\ NameOf[s] \in Builtins /\ HostSet(NameOf[s], BuiltinOf[NameOf[s]])
               /\ UNCHANGED <<constGlobals, slot, code>>
      BY <2>2, HostKeeps
    <2>. QED BY <1>8, <2>1, <2>2 DEF JitGetGlobal, Refuse
  <1>9. ASSUME NEW s \in Sites, NEW v \in Values, SetGlobal(s, v) PROVE IInv'
    <2>1. CASE slot[s] > 0 /\ Store(slot[s], v) /\ UNCHANGED <<constGlobals, slot, code>>
      BY <1>0, <2>1, Stored DEF Pinned
    <2>2. CASE Keep
      BY <1>0, <2>2, Untouched DEF Keep
    <2>3. CASE StoreByName(s, v) /\ UNCHANGED <<constGlobals, code>>
      BY <1>0, <2>3, StoredByName
    <2>. QED BY <1>9, <2>1, <2>2, <2>3 DEF SetGlobal, Refuse
  <1>10. ASSUME NEW s \in Sites, NEW v \in Values, SetGlobalRef(s, v) PROVE IInv'
    <2>1. CASE Keep
      BY <1>0, <2>1, Untouched DEF Keep
    <2>2. CASE StoreCached(s, v) /\ UNCHANGED <<constGlobals, code>>
      BY <1>0, <1>10, <2>2, StoredCached DEF SetGlobalRef, Fits
    <2>. QED BY <1>10, <2>1, <2>2 DEF SetGlobalRef, Refuse
  <1>11. ASSUME NEW s \in Sites, NEW v \in Values, DefineConstGlobal(s, v) PROVE IInv'
    <2>1. CASE Keep
      BY <1>0, <2>1, Untouched DEF Keep
    <2>2. CASE /\ StoreCached(s, v) /\ UNCHANGED code
               /\ constGlobals' = constGlobals \cup {NameOf[s]}
      BY <1>0, <1>11, <2>2, StoredCached DEF DefineConstGlobal, Fits
    <2>. QED BY <1>11, <2>1, <2>2 DEF DefineConstGlobal, Refuse
  <1>12. ASSUME NEW s \in Sites, NEW v \in Values, JitSetGlobal(s, v) PROVE IInv'
    <2>1. UNCHANGED <<constGlobals, slot, code>>
      BY <1>12 DEF JitSetGlobal
    <2>2. CASE code[s] # Callout /\ code[s] # Interpreted /\ Store(code[s], v)
      <3>1. code[s] \in 1..Len(globals)
        BY <1>0, <2>2 DEF Callout
      <3>. QED BY <1>0, <2>1, <2>2, <3>1, Stored
    <2>3. CASE HostSet(NameOf[s], v)
      BY <2>1, <2>3, HostKeeps
    <2>. QED BY <1>12, <2>2, <2>3 DEF JitSetGlobal
  <1>13. CASE UNCHANGED vars
    BY <1>0, <1>13, Untouched DEF vars
  <1>. QED BY <1>1, <1>2, <1>3, <1>4, <1>5, <1>6, <1>7, <1>8, <1>9, <1>10,
              <1>11, <1>12, <1>13 DEF Next

(* Slots, table, caches and machine code hold values of their kinds.        *)
THEOREM TypeCorrect == Spec => []TypeOK
  <1>. QED BY InitInv, NextInv, PTL DEF Spec, IInv

(* A function's caches never name a slot that the name has left.            *)
THEOREM FunctionCachesStayExact == Spec => []FunctionCachesExact
  <1>. QED BY InitInv, NextInv, PTL DEF Spec, IInv

-----------------------------------------------------------------------------
(* What each effect on slots and table does to the map they stand for.      *)
LEMMA EnvOf ==
  ASSUME IInv, NEW n \in Names
  PROVE  /\ Known(n) => Env[n] = ValueOf(n) /\ Env[n] # Undef
                        /\ globalNames[n] \in 1..Len(globals)
         /\ ~Known(n) => Env[n] = Undef
  <1>1. globals \in Seq(Values) /\ globalNames[n] \in 0..Len(globals)
    BY DEF IInv, TypeOK
  <1>. QED BY <1>1, ParamAssumption DEF Env, Known, ValueOf

LEMMA StoreEnv ==
  ASSUME IInv, NEW n \in Names, NEW v \in Values, Known(n),
         Store(globalNames[n], v)
  PROVE  Env' = [Env EXCEPT ![n] = v]
  <1>1. globalNames[n] \in 1..Len(globals) /\ TypeOK
    BY EnvOf DEF IInv
  <1>2. /\ globals'[globalNames[n]] = v /\ globalNames' = globalNames
        /\ \A j \in 1..Len(globals) : j # globalNames[n] => globals'[j] = globals[j]
    BY <1>1, StoreKeeps
  <1>3. ASSUME NEW m \in Names PROVE Env'[m] = [Env EXCEPT ![n] = v][m]
    <2>1. CASE m = n
      BY <1>2, <2>1 DEF Env, Known, ValueOf
    <2>2. CASE m # n
      <3>1. Known(m) => globalNames[m] \in 1..Len(globals)
                        /\ globalNames[m] # globalNames[n]
        BY <2>2, EnvOf DEF IInv, OwnSlots, Known
      <3>. QED BY <1>2, <2>2, <3>1 DEF Env, Known, ValueOf
    <2>. QED BY <2>1, <2>2
  <1>. QED BY <1>3 DEF Env

LEMMA NewSlotEnv ==
  ASSUME IInv, NEW n \in Names, NEW v \in Values, ~Known(n), NewSlot(n, v)
  PROVE  Env' = [Env EXCEPT ![n] = v]
  <1>1. TypeOK /\ Len(globals) \in Nat
    BY DEF IInv, TypeOK
  <1>2. /\ globals'[Len(globals) + 1] = v
        /\ globalNames \in [Names -> 0..Len(globals)]
        /\ globalNames' = [globalNames EXCEPT ![n] = Len(globals) + 1]
        /\ \A j \in 1..Len(globals) : globals'[j] = globals[j]
    BY <1>1, NewSlotKeeps DEF TypeOK
  <1>3. ASSUME NEW m \in Names PROVE Env'[m] = [Env EXCEPT ![n] = v][m]
    <2>1. CASE m = n
      BY <1>1, <1>2, <2>1 DEF Env, Known, ValueOf
    <2>2. CASE m # n
      <3>1. globalNames'[m] = globalNames[m]
            /\ (Known(m) => globalNames[m] \in 1..Len(globals))
        BY <1>2, <2>2, EnvOf
      <3>. QED BY <1>2, <2>2, <3>1 DEF Env, Known, ValueOf
    <2>. QED BY <2>1, <2>2
  <1>. QED BY <1>3 DEF Env

LEMMA UnnameEnv ==
  ASSUME IInv, NEW n \in Names, Known(n), Unname(n)
  PROVE  Env' = [Env EXCEPT ![n] = Undef]
  <1>1. TypeOK
    BY DEF IInv
  <1>2. /\ \A j \in 1..Len(globals) : j # globalNames[n] => globals'[j] = globals[j]
        /\ globalNames \in [Names -> 0..Len(globals)]
        /\ globalNames' = [globalNames EXCEPT ![n] = 0]
    BY <1>1, UnnameKeeps DEF TypeOK
  <1>3. ASSUME NEW m \in Names PROVE Env'[m] = [Env EXCEPT ![n] = Undef][m]
    <2>1. CASE m = n
      BY <1>2, <2>1 DEF Env, Known
    <2>2. CASE m # n
      <3>1. globalNames'[m] = globalNames[m]
            /\ (Known(m) => globalNames[m] \in 1..Len(globals)
                            /\ globalNames[m] # globalNames[n])
        BY <1>2, <2>2, EnvOf DEF IInv, OwnSlots, Known
      <3>. QED BY <1>2, <2>2, <3>1 DEF Env, Known, ValueOf
    <2>. QED BY <2>1, <2>2
  <1>. QED BY <1>3 DEF Env

LEMMA SameEnv ==
  ASSUME UNCHANGED <<globals, globalNames>> PROVE Env' = Env
  BY DEF Env, Known, ValueOf

LEMMA StoreByNameEnv ==
  ASSUME IInv, NEW s \in Sites, NEW v \in Values, StoreByName(s, v)
  PROVE  Env' = [Env EXCEPT ![NameOf[s]] = v]
  BY StoreEnv, NewSlotEnv, ParamAssumption DEF StoreByName

LEMMA StoreCachedEnv ==
  ASSUME IInv, NEW s \in Sites, NEW v \in Values, StoreCached(s, v),
         Exact(s), OpOf[s] # "getProp"
  PROVE  Env' = [Env EXCEPT ![NameOf[s]] = v]
  <1>1. CASE slot[s] # 0 /\ Store(slot[s], v)
    <2>1. slot[s] > 0
      BY <1>1 DEF IInv, TypeOK, Pinned
    <2>2. slot[s] = globalNames[NameOf[s]] /\ Known(NameOf[s])
      BY <2>1 DEF Exact, Known
    <2>. QED BY <1>1, <2>2, StoreEnv, ParamAssumption
  <1>2. CASE slot[s] = 0 /\ StoreByName(s, v)
    BY <1>2, StoreByNameEnv
  <1>. QED BY <1>1, <1>2 DEF StoreCached

LEMMA HostSetEnv ==
  ASSUME IInv, NEW n \in Names, NEW v \in Values, HostSet(n, v)
  PROVE  Env' = [Env EXCEPT ![n] = v]
  BY StoreEnv, NewSlotEnv DEF HostSet

-----------------------------------------------------------------------------
(* Each action, while the site it uses is faithful, is one of the map's.    *)
LEMMA GetReads ==
  ASSUME IInv, NEW s \in Sites, Faithful(s), GetGlobal(s) \/ JitGetGlobal(s)
  PROVE  E!Read(NameOf[s])
  <1> DEFINE n == NameOf[s]
  <1> USE ParamAssumption
  <1>0. n \in Names /\ OpOf[s] = "get" /\ (Known(n) => Env[n] = ValueOf(n))
        /\ (Known(n) <=> E!Defined(n))
    BY EnvOf DEF E!Defined, GetGlobal, JitGetGlobal, Fits
  <1>1. CASE \E i \in {slot[s], code[s]} :
               i > 0 /\ Answer("get", n, globals[i]) /\ Keep
    <2>1. PICK i \in {slot[s], code[s]} :
             i > 0 /\ Answer("get", n, globals[i]) /\ Keep
      BY <1>1
    <2>2. i = globalNames[n]
      BY <2>1 DEF Faithful, Exact
    <2>3. Known(n) /\ globals[i] = Env[n]
      BY <1>0, <2>1, <2>2 DEF Known, ValueOf
    <2>4. Env' = Env /\ UNCHANGED constGlobals
      BY <2>1, SameEnv DEF Keep
    <2>. QED BY <1>0, <2>1, <2>3, <2>4 DEF E!Read, E!Answer, Answer
  <1>2. CASE /\ Known(n) /\ Answer("get", n, ValueOf(n))
             /\ UNCHANGED <<globals, globalNames, constGlobals>>
    BY <1>0, <1>2, SameEnv DEF E!Read, E!Answer, Answer
  <1>3. CASE /\ ~Known(n) /\ n \in Builtins
             /\ StoreByName(s, BuiltinOf[n]) \/ HostSet(n, BuiltinOf[n])
             /\ Answer("get", n, BuiltinOf[n]) /\ UNCHANGED constGlobals
    <2>1. Env' = [Env EXCEPT ![n] = BuiltinOf[n]]
      BY <1>0, <1>3, StoreByNameEnv, HostSetEnv
    <2>. QED BY <1>0, <1>3, <2>1 DEF E!Read, E!Answer, Answer
  <1>4. CASE ~Known(n) /\ n \notin Builtins /\ Refuse("get", n)
    <2>1. Env' = Env /\ UNCHANGED constGlobals
      BY <1>4, SameEnv DEF Refuse, Keep
    <2>. QED BY <1>0, <1>4, <2>1 DEF E!Read, E!Refuse, E!Answer, Refuse, Answer
  <1>5. CASE GetGlobal(s)
    BY <1>1, <1>2, <1>3, <1>4, <1>5 DEF GetGlobal, Keep
  <1>6. CASE JitGetGlobal(s)
    <2>1. code[s] # Callout => code[s] > 0
      BY <1>6 DEF JitGetGlobal, IInv, TypeOK, Callout, Interpreted
    <2>2. code[s] = Callout /\ Known(n) => ValueOf(n) # None
      BY <1>0 DEF Faithful
    <2>. QED BY <1>1, <1>2, <1>3, <1>4, <1>6, <2>1, <2>2 DEF JitGetGlobal, Keep
  <1>. QED BY <1>5, <1>6

LEMMA RefusedKeeps ==
  ASSUME NEW op, NEW n, Refuse(op, n) PROVE E!Refuse(op, n)
  BY SameEnv DEF Refuse, Keep, Answer, E!Refuse, E!Answer

LEMMA SetWrites ==
  ASSUME IInv, NEW s \in Sites, NEW v \in Values, Faithful(s),
         SetGlobal(s, v) \/ JitSetGlobal(s, v)
  PROVE  E!Write(NameOf[s], v)
  <1> DEFINE n == NameOf[s]
  <1> USE ParamAssumption
  <1>0. n \in Names /\ OpOf[s] = "set"
    BY DEF SetGlobal, JitSetGlobal, Fits
  <1>1. CASE Refuse("set", n) /\ n \in constGlobals
    BY <1>1, RefusedKeeps DEF E!Write
  <1>2. ASSUME n \notin constGlobals, Env' = [Env EXCEPT ![n] = v],
               Answer("set", n, v), UNCHANGED constGlobals
        PROVE  E!Write(n, v)
    BY <1>2 DEF E!Write, E!Bind, E!Answer, Answer
  <1>3. ASSUME NEW i \in {slot[s], code[s]}, i > 0, Store(i, v)
        PROVE  n \notin constGlobals /\ Env' = [Env EXCEPT ![n] = v]
    <2>1. i = globalNames[n] /\ n \notin constGlobals
      BY <1>0, <1>3 DEF Faithful, Exact, Interpreted
    <2>. QED BY <1>0, <1>3, <2>1, StoreEnv DEF Known
  <1>4. CASE SetGlobal(s, v)
    <2>1. CASE slot[s] > 0 /\ Store(slot[s], v)
      BY <1>2, <1>3, <1>4, <2>1 DEF SetGlobal
    <2>2. CASE slot[s] = 0 /\ n \notin constGlobals /\ StoreByName(s, v)
      BY <1>2, <1>4, <2>2, StoreByNameEnv DEF SetGlobal
    <2>. QED BY <1>1, <1>4, <2>1, <2>2 DEF SetGlobal
  <1>5. CASE JitSetGlobal(s, v)
    <2>1. n \notin constGlobals
      BY <1>0, <1>5 DEF JitSetGlobal, Faithful
    <2>2. CASE code[s] # Callout /\ Store(code[s], v)
      <3>1. code[s] > 0
        BY <1>5, <2>2 DEF JitSetGlobal, IInv, TypeOK, Callout, Interpreted
      <3>. QED BY <1>2, <1>3, <1>5, <2>2, <3>1 DEF JitSetGlobal
    <2>3. CASE HostSet(n, v)
      BY <1>0, <1>2, <1>5, <2>1, <2>3, HostSetEnv DEF JitSetGlobal
    <2>. QED BY <1>5, <2>2, <2>3 DEF JitSetGlobal
  <1>. QED BY <1>4, <1>5

LEMMA RefWrites ==
  ASSUME IInv, NEW s \in Sites, NEW v \in Values, Faithful(s),
         SetGlobalRef(s, v)
  PROVE  E!WriteRef(NameOf[s], v)
  <1> DEFINE n == NameOf[s]
  <1>0. n \in Names /\ OpOf[s] = "setRef" /\ (Known(n) <=> E!Defined(n))
    BY EnvOf, ParamAssumption DEF E!Defined, SetGlobalRef, Fits
  <1>1. CASE Refuse("setRef", n)
             /\ (n \in constGlobals \/ (~Known(n) /\ n \notin Builtins))
    BY <1>0, <1>1, RefusedKeeps DEF E!WriteRef
  <1>2. CASE /\ n \notin constGlobals /\ (Known(n) \/ n \in Builtins)
             /\ StoreCached(s, v) /\ Answer("setRef", n, v)
             /\ UNCHANGED constGlobals
    <2>1. Env' = [Env EXCEPT ![n] = v]
      BY <1>0, <1>2, StoreCachedEnv DEF Faithful
    <2>. QED BY <1>0, <1>2, <2>1 DEF E!WriteRef, E!Bind, E!Answer, Answer
  <1>. QED BY <1>1, <1>2 DEF SetGlobalRef

LEMMA ConstDefines ==
  ASSUME IInv, NEW s \in Sites, NEW v \in Values, Faithful(s),
         DefineConstGlobal(s, v)
  PROVE  E!DefineConst(NameOf[s], v)
  <1> DEFINE n == NameOf[s]
  <1>0. n \in Names /\ OpOf[s] = "const"
    BY ParamAssumption DEF DefineConstGlobal, Fits
  <1>1. CASE Refuse("const", n) /\ n \in constGlobals
    BY <1>1, RefusedKeeps DEF E!DefineConst
  <1>2. CASE /\ n \notin constGlobals /\ StoreCached(s, v)
             /\ constGlobals' = constGlobals \cup {n} /\ Answer("const", n, v)
    <2>1. Env' = [Env EXCEPT ![n] = v]
      BY <1>0, <1>2, StoreCachedEnv DEF Faithful
    <2>. QED BY <1>2, <2>1 DEF E!DefineConst, E!Bind, E!Answer, Answer
  <1>. QED BY <1>1, <1>2 DEF DefineConstGlobal

LEMMA DeleteDeletes ==
  ASSUME IInv, NEW n \in Names, DeleteGlobal(n) PROVE E!Delete(n)
  <1>0. Known(n) <=> E!Defined(n)
    BY EnvOf DEF E!Defined
  <1>1. CASE Refuse("delete", n) /\ (n \in constGlobals \/ ~Known(n))
    BY <1>0, <1>1, RefusedKeeps DEF E!Delete
  <1>2. CASE /\ n \notin constGlobals /\ Known(n) /\ Unname(n)
             /\ Answer("delete", n, None) /\ UNCHANGED constGlobals
    BY <1>0, <1>2, UnnameEnv DEF E!Delete, E!Answer, Answer
  <1>. QED BY <1>1, <1>2 DEF DeleteGlobal

LEMMA MemberFinds ==
  ASSUME IInv, NEW s \in Sites, Faithful(s),
         GetPropGlobal(s) \/ InvokeGlobal(s)
  PROVE  \E op \in {"getProp", "invoke"} : E!Member(op, NameOf[s])
  <1> DEFINE n == NameOf[s]
             i == IF slot[s] > 0 THEN slot[s] ELSE globalNames[n]
             found == IF Env[n] \in Functions THEN Env[n]
                      ELSE IF Native(n) THEN BuiltinOf[n] ELSE Error
  <1> USE ParamAssumption
  <1>0. n \in Names /\ (Native(n) <=> E!Native(n))
        /\ (Known(n) => Env[n] = ValueOf(n)) /\ (~Known(n) => Env[n] \notin Functions)
    BY EnvOf DEF Native, E!Native
  <1>1. Env' = Env /\ UNCHANGED constGlobals
    BY SameEnv DEF GetPropGlobal, InvokeGlobal
  <1>2. i = globalNames[n]
    BY DEF Faithful, Exact
  <1>3. /\ i > 0 /\ globals[i] \in Functions => Env[n] = globals[i]
        /\ (i > 0 => globals[i] \notin Functions) => Env[n] \notin Functions
    <2>1. globalNames[n] \in Nat
      BY <1>0 DEF IInv, TypeOK
    <2>. QED BY <1>0, <1>2, <2>1 DEF Known, ValueOf
  <1>4. ASSUME NEW op \in {"getProp", "invoke"}, Answer(op, n, found)
        PROVE  E!Member(op, n)
    BY <1>0, <1>1, <1>4 DEF E!Member, E!Answer, Answer
  <1>5. ASSUME GetPropGlobal(s) PROVE E!Member("getProp", n)
    <2>1. CASE slot[s] = Pinned /\ Answer("getProp", n, BuiltinOf[n])
      <3>1. Native(n) /\ Env[n] \notin Functions
        BY <1>0, <2>1 DEF Faithful
      <3>. QED BY <1>4, <2>1, <3>1
    <2>2. CASE i > 0 /\ globals[i] \in Functions /\ Answer("getProp", n, globals[i])
      BY <1>3, <1>4, <2>2
    <2>3. CASE /\ i > 0 => globals[i] \notin Functions
               /\ \/ Native(n) /\ Answer("getProp", n, BuiltinOf[n])
                  \/ ~Native(n) /\ Answer("getProp", n, Error)
      <3>1. Env[n] \notin Functions
        BY <1>3, <2>3
      <3>. QED BY <1>4, <2>3, <3>1
    <2>. QED BY <1>5, <2>1, <2>2, <2>3 DEF GetPropGlobal
  <1>6. ASSUME InvokeGlobal(s) PROVE E!Member("invoke", n)
    <2>1. CASE i > 0 /\ globals[i] \in Functions /\ Answer("invoke", n, globals[i])
      BY <1>3, <1>4, <2>1
    <2>2. CASE /\ i > 0 => globals[i] \notin Functions
               /\ Answer("invoke", n, IF Native(n) THEN BuiltinOf[n] ELSE Error)
      BY <1>3, <1>4, <2>2
    <2>. QED BY <1>6, <2>1, <2>2 DEF InvokeGlobal
  <1>. QED BY <1>5, <1>6

-----------------------------------------------------------------------------
LEMMA StepImplements ==
  ASSUME IInv, \A s \in Sites : Faithful(s), [Next]_vars
  PROVE  [E!Next]_(E!envVars)
  <1> USE ParamAssumption
  <1>1. CASE NextScript
    BY <1>1, SameEnv DEF NextScript, E!envVars
  <1>2. ASSUME NEW n \in Names, DeleteGlobal(n) PROVE E!Next
    BY <1>2, DeleteDeletes DEF E!Next
  <1>3. ASSUME NEW n \in Names, RemoveGlobal(n) PROVE E!Next
    <2>1. Env' = [Env EXCEPT ![n] = Undef]
      <3>1. CASE Known(n) /\ Unname(n)
        BY <3>1, UnnameEnv
      <3>2. CASE ~Known(n) /\ UNCHANGED <<globals, globalNames>>
        BY <3>2, SameEnv, EnvOf DEF Env
      <3>. QED BY <1>3, <3>1, <3>2 DEF RemoveGlobal
    <2>. QED BY <1>3, <2>1 DEF RemoveGlobal, E!Next, E!Forget
  <1>4. ASSUME NEW s \in Sites, GetGlobal(s) \/ JitGetGlobal(s) PROVE E!Next
    BY <1>4, GetReads DEF E!Next
  <1>5. ASSUME NEW s \in Sites, GetPropGlobal(s) \/ InvokeGlobal(s) PROVE E!Next
    BY <1>5, MemberFinds DEF E!Next
  <1>6. ASSUME NEW s \in Sites, Compile(s) PROVE UNCHANGED E!envVars
    BY <1>6, SameEnv DEF Compile, E!envVars
  <1>7. ASSUME NEW s \in Sites, NEW v \in Values,
               SetGlobal(s, v) \/ JitSetGlobal(s, v) \/ SetGlobalRef(s, v)
               \/ DefineConstGlobal(s, v)
        PROVE  E!Next
    BY <1>7, SetWrites, RefWrites, ConstDefines DEF E!Next
  <1>8. CASE UNCHANGED vars
    BY <1>8, SameEnv DEF vars, E!envVars
  <1>. QED BY <1>1, <1>2, <1>3, <1>4, <1>5, <1>6, <1>7, <1>8 DEF Next

LEMMA InitImplements == Init => E!Init
  BY DEF Init, E!Init, Env, Known

(* Whatever the sites, names and values: while no site relies on what is no *)
(* longer so, a step of slots, caches and machine code is a step of the     *)
(* plain map from names to values, or leaves it alone.                      *)
THEOREM EnvironmentImplemented == Spec => CachesInvisible
  <1>1. IInv /\ [Next]_vars
        => [(\A s \in Sites : Faithful(s)) => E!Next]_(E!envVars)
    BY StepImplements
  <1>. QED BY <1>1, InitInv, NextInv, InitImplements, PTL
            DEF Spec, CachesInvisible
-----------------------------------------------------------------------------
(* Which disturbances have happened decides whether every site is faithful. *)

(* What a step may do to the cache of a site: keep it, clear it, point it at *)
(* the slot of its name, or pin a builtin that no global function hides.     *)
CacheStep(s) ==
  LET n == NameOf[s] IN
  \/ slot'[s] = slot[s]
  \/ slot'[s] = 0
  \/ slot'[s] = globalNames'[n] /\ (OpOf[s] = "set" => n \notin constGlobals')
  \/ /\ slot'[s] = Pinned /\ Native(n)
     /\ Known(n) => ValueOf(n) \notin Functions
     /\ UNCHANGED <<globals, globalNames>>

(* To the slot of a name: nothing, unless it is bound or deleted.            *)
NameStep(n) ==
  globalNames'[n] = globalNames[n] \/ globalNames[n] = 0 \/ globalNames'[n] = 0

(* To the machine code of a site: it takes over the slot of the cache.       *)
CodeStep(s) ==
  \/ code'[s] = code[s]
  \/ /\ code'[s] = slot[s] /\ OpOf[s] \in {"get", "set"}
     /\ UNCHANGED <<globalNames, constGlobals, slot>>

Steps == /\ \A s \in Sites : CacheStep(s) /\ CodeStep(s)
         /\ \A n \in Names : NameStep(n)

LEMMA StoreByNameSteps ==
  ASSUME IInv, NEW s \in Sites, NEW v \in Values, StoreByName(s, v),
         OpOf[s] = "set" => NameOf[s] \notin constGlobals', UNCHANGED code
  PROVE  Steps
  <1> USE ParamAssumption
  <1>0. /\ NameOf[s] \in Names /\ slot \in [Sites -> Int] /\ Len(globals) \in Nat
        /\ globalNames \in [Names -> Int]
    BY DEF IInv, TypeOK, Pinned
  <1>1. CASE /\ Store(globalNames[NameOf[s]], v)
             /\ slot' = [slot EXCEPT ![s] = globalNames[NameOf[s]]]
    BY <1>0, <1>1 DEF Steps, Store, CacheStep, CodeStep, NameStep
  <1>2. CASE /\ ~Known(NameOf[s]) /\ NewSlot(NameOf[s], v)
             /\ slot' = [Cleared EXCEPT ![s] = Len(globals) + 1]
    <2>1. globalNames' = [globalNames EXCEPT ![NameOf[s]] = Len(globals) + 1]
      BY <1>2 DEF NewSlot
    <2>2. globalNames'[NameOf[s]] = Len(globals) + 1
      BY <1>0, <2>1
    <2>3. \A n \in Names : NameStep(n)
      BY <1>0, <1>2, <2>1 DEF NameStep, Known
    <2>4. \A r \in Sites : CacheStep(r)
      BY <1>0, <1>2, <2>2 DEF CacheStep, Cleared
    <2>. QED BY <2>3, <2>4 DEF Steps, CodeStep
  <1>. QED BY <1>1, <1>2 DEF StoreByName

LEMMA StoreCachedSteps ==
  ASSUME IInv, NEW s \in Sites, NEW v \in Values, StoreCached(s, v),
         OpOf[s] # "set", UNCHANGED code
  PROVE  Steps
  <1>1. CASE slot[s] # 0 /\ Store(slot[s], v) /\ UNCHANGED slot
    BY <1>1 DEF Steps, Store, CacheStep, CodeStep, NameStep
  <1>2. CASE slot[s] = 0 /\ StoreByName(s, v)
    BY <1>2, StoreByNameSteps
  <1>. QED BY <1>1, <1>2 DEF StoreCached

LEMMA HostSetSteps ==
  ASSUME IInv, NEW n \in Names, NEW v \in Values, HostSet(n, v),
         UNCHANGED <<slot, code>>
  PROVE  Steps
  <1>1. globalNames \in [Names -> Int]
    BY DEF IInv, TypeOK
  <1>2. CASE Known(n) /\ Store(globalNames[n], v)
    BY <1>2 DEF Steps, Store, CacheStep, CodeStep, NameStep
  <1>3. CASE ~Known(n) /\ NewSlot(n, v)
    BY <1>1, <1>3 DEF Steps, NewSlot, Known, CacheStep, CodeStep, NameStep
  <1>. QED BY <1>2, <1>3 DEF HostSet

LEMMA UnnameSteps ==
  ASSUME IInv, NEW n \in Names, Unname(n), UNCHANGED code
  PROVE  Steps
  <1>1. globalNames \in [Names -> Int] /\ slot \in [Sites -> Int]
    BY DEF IInv, TypeOK, Pinned
  <1>. QED BY <1>1 DEF Unname, Cleared, Steps, CacheStep, CodeStep, NameStep

LEMMA KeepSteps ==
  ASSUME UNCHANGED <<globalNames, slot, code>>
  PROVE  Steps
  BY DEF Steps, CacheStep, CodeStep, NameStep

LEMMA MemberSteps ==
  ASSUME IInv, NEW s \in Sites, Exact(s), GetPropGlobal(s) \/ InvokeGlobal(s)
  PROVE  Steps
  <1> DEFINE n == NameOf[s]
             i == IF slot[s] > 0 THEN slot[s] ELSE globalNames[n]
  <1> USE ParamAssumption
  <1>0. /\ n \in Names /\ slot \in [Sites -> Int] /\ globalNames[n] \in Nat
        /\ i = globalNames[n] /\ OpOf[s] # "set"
    BY DEF IInv, TypeOK, Pinned, Exact, GetPropGlobal, InvokeGlobal, Fits
  <1>1. UNCHANGED <<globals, globalNames, constGlobals, code>>
    BY DEF GetPropGlobal, InvokeGlobal
  <1>2. \/ UNCHANGED slot
        \/ slot' = [slot EXCEPT ![s] = i]
        \/ /\ slot' = [slot EXCEPT ![s] = Pinned] /\ Native(n)
           /\ i > 0 => globals[i] \notin Functions
    BY DEF GetPropGlobal, InvokeGlobal
  <1>3. \A r \in Sites : CacheStep(r)
    <2>1. CASE UNCHANGED slot
      BY <2>1 DEF CacheStep
    <2>2. CASE slot' = [slot EXCEPT ![s] = i]
      BY <1>0, <1>1, <2>2 DEF CacheStep
    <2>3. CASE /\ slot' = [slot EXCEPT ![s] = Pinned] /\ Native(n)
               /\ i > 0 => globals[i] \notin Functions
      <3>1. Known(n) => ValueOf(n) \notin Functions
        BY <1>0, <2>3 DEF Known, ValueOf
      <3>. QED BY <1>0, <1>1, <2>3, <3>1 DEF CacheStep
    <2>. QED BY <1>2, <2>1, <2>2, <2>3
  <1>. QED BY <1>1, <1>3 DEF Steps, CodeStep, NameStep

LEMMA NextSteps ==
  ASSUME IInv, \A s \in Sites : Exact(s), [Next]_vars
  PROVE  Steps
  <1> USE ParamAssumption
  <1>0. slot \in [Sites -> Int] /\ code \in [Sites -> Int]
        /\ globalNames \in [Names -> Int]
    BY DEF IInv, TypeOK, Pinned, Interpreted
  <1>1. CASE NextScript
    BY <1>0, <1>1 DEF NextScript, Steps, CacheStep, CodeStep, NameStep
  <1>2. ASSUME NEW n \in Names, DeleteGlobal(n) \/ RemoveGlobal(n) PROVE Steps
    <2>1. CASE Unname(n) /\ UNCHANGED code
      BY <2>1, UnnameSteps
    <2>2. CASE slot' \in {slot, Cleared} /\ UNCHANGED <<globalNames, code>>
      BY <1>0, <2>2 DEF Cleared, Steps, CacheStep, CodeStep, NameStep
    <2>. QED BY <1>2, <2>1, <2>2 DEF DeleteGlobal, RemoveGlobal, Refuse, Keep
  <1>3. ASSUME NEW s \in Sites, GetGlobal(s) PROVE Steps
    <2>1. CASE Keep
      BY <2>1, KeepSteps DEF Keep
    <2>2. CASE /\ slot' = [slot EXCEPT ![s] = globalNames[NameOf[s]]]
               /\ UNCHANGED <<globals, globalNames, constGlobals, code>>
      BY <1>0, <1>3, <2>2 DEF GetGlobal, Fits, Steps, CacheStep, CodeStep, NameStep
    <2>3. CASE /\ NameOf[s] \in Builtins /\ StoreByName(s, BuiltinOf[NameOf[s]])
               /\ UNCHANGED code
      BY <1>3, <2>3, StoreByNameSteps DEF GetGlobal, Fits
    <2>. QED BY <1>3, <2>1, <2>2, <2>3 DEF GetGlobal, Refuse
  <1>4. ASSUME NEW s \in Sites, GetPropGlobal(s) \/ InvokeGlobal(s) PROVE Steps
    BY <1>4, MemberSteps
  <1>5. ASSUME NEW s \in Sites, Compile(s) PROVE Steps
    BY <1>0, <1>5 DEF Compile, Steps, CacheStep, CodeStep, NameStep
  <1>6. ASSUME NEW s \in Sites, JitGetGlobal(s) PROVE Steps
    <2>1. CASE Keep
      BY <2>1, KeepSteps DEF Keep
    <2>2. CASE /\ NameOf[s] \in Builtins /\ HostSet(NameOf[s], BuiltinOf[NameOf[s]])
               /\ UNCHANGED <<slot, code>>
      BY <2>2, HostSetSteps
    <2>. QED BY <1>6, <2>1, <2>2 DEF JitGetGlobal, Refuse
  <1>7. ASSUME NEW s \in Sites, NEW v \in Values, SetGlobal(s, v) PROVE Steps
    <2>1. CASE Store(slot[s], v) /\ UNCHANGED <<slot, code>>
      BY <2>1, KeepSteps DEF Store
    <2>2. CASE Keep
      BY <2>2, KeepSteps DEF Keep
    <2>3. CASE NameOf[s] \notin constGlobals /\ StoreByName(s, v)
               /\ UNCHANGED <<constGlobals, code>>
      BY <2>3, StoreByNameSteps
    <2>. QED BY <1>7, <2>1, <2>2, <2>3 DEF SetGlobal, Refuse
  <1>8. ASSUME NEW s \in Sites, NEW v \in Values,
               SetGlobalRef(s, v) \/ DefineConstGlobal(s, v)
        PROVE  Steps
    <2>1. CASE Keep
      BY <2>1, KeepSteps DEF Keep
    <2>2. CASE StoreCached(s, v) /\ UNCHANGED code
      BY <1>8, <2>2, StoreCachedSteps DEF SetGlobalRef, DefineConstGlobal, Fits
    <2>. QED BY <1>8, <2>1, <2>2 DEF SetGlobalRef, DefineConstGlobal, Refuse
  <1>9. ASSUME NEW s \in Sites, NEW v \in Values, JitSetGlobal(s, v) PROVE Steps
    <2>1. CASE Store(code[s], v) /\ UNCHANGED <<slot, code>>
      BY <2>1, KeepSteps DEF Store
    <2>2. CASE HostSet(NameOf[s], v) /\ UNCHANGED <<slot, code>>
      BY <2>2, HostSetSteps
    <2>. QED BY <1>9, <2>1, <2>2 DEF JitSetGlobal
  <1>10. CASE UNCHANGED vars
    BY <1>10, KeepSteps DEF vars
  <1>. QED BY <1>1, <1>2, <1>3, <1>4, <1>5, <1>6, <1>7, <1>8, <1>9, <1>10 DEF Next

(* Each promise a site relies on is broken by a listed disturbance only.     *)
LEMMA OnlyDisturbances ==
  ASSUME IInv, IInv', Steps, \A s \in Sites : Faithful(s),
         Disturbances = {}, NEW s \in Sites
  PROVE  Faithful(s)'
  <1> DEFINE n == NameOf[s]
  <1> USE ParamAssumption
  <1>0. /\ n \in Names /\ CacheStep(s) /\ CodeStep(s) /\ NameStep(n) /\ Faithful(s)
        /\ slot[s] \in Int /\ code[s] \in Int /\ globalNames[n] \in Nat
        /\ slot'[s] \in Int /\ code'[s] \in Int /\ globalNames'[n] \in Nat
    BY DEF Steps, IInv, TypeOK, Pinned, Interpreted
  <1>1. /\ ~(Known(n) /\ globalNames'[n] = 0 /\ ((s \in InScript /\ slot[s] > 0) \/ code[s] > 0))
        /\ ~(n \in constGlobals' \ constGlobals /\ OpOf[s] = "set" /\ Held(s))
        /\ ~(n \in constGlobals /\ code'[s] # code[s])
        /\ ~(/\ globalNames'[n] # 0 /\ globals'[globalNames'[n]] = None
             /\ OpOf[s] = "get" /\ code'[s] = Callout)
        /\ ~(/\ slot[s] = Pinned /\ ~Holds(n)
             /\ globalNames'[n] # 0 /\ globals'[globalNames'[n]] \in Functions)
    BY DEF Disturbances
  <1>2. Exact(s)'
    <2>1. CASE s \notin InScript
      BY <2>1 DEF IInv, FunctionCachesExact, Exact
    <2>2. CASE slot'[s] = slot[s] /\ s \in InScript
      BY <1>0, <1>1, <2>2 DEF NameStep, Faithful, Exact, Known
    <2>3. CASE slot'[s] # slot[s]
      BY <1>0, <2>3 DEF CacheStep, Exact, Pinned
    <2>. QED BY <2>1, <2>2, <2>3
  <1>3. OpOf[s] = "set" /\ n \in constGlobals' => slot'[s] = 0 /\ code'[s] = Interpreted
    <2> SUFFICES ASSUME OpOf[s] = "set", n \in constGlobals'
                 PROVE  slot'[s] = 0 /\ code'[s] = Interpreted
      OBVIOUS
    <2>1. slot[s] = 0 /\ code[s] = Interpreted
      <3>1. CASE n \in constGlobals
        BY <1>0, <3>1 DEF Faithful
      <3>2. CASE n \notin constGlobals
        <4>1. ~(slot[s] > 0) /\ code[s] = Interpreted
          BY <1>1, <3>2 DEF Held
        <4>2. slot[s] >= 0
          BY DEF IInv, TypeOK
        <4>. QED BY <1>0, <4>1, <4>2
      <3>. QED BY <3>1, <3>2
    <2>2. slot'[s] = 0
      <3>1. slot'[s] # Pinned
        BY DEF IInv, TypeOK
      <3>. QED BY <1>0, <2>1, <3>1 DEF CacheStep
    <2>3. code'[s] = code[s]
      <3>1. CASE n \in constGlobals
        BY <1>1, <3>1
      <3>2. CASE n \notin constGlobals
        BY <1>0, <3>2 DEF CodeStep
      <3>. QED BY <3>1, <3>2
    <2>. QED BY <2>1, <2>2, <2>3
  <1>4. slot'[s] = Pinned => Native(n) /\ (Known(n) => ValueOf(n) \notin Functions)'
    <2>1. CASE slot'[s] = slot[s]
      BY <1>0, <1>1, <2>1 DEF Faithful, Holds, Known, ValueOf
    <2>2. CASE slot'[s] # slot[s]
      BY <1>0, <2>2 DEF CacheStep, Pinned, Known, ValueOf
    <2>. QED BY <2>1, <2>2
  <1>5. code'[s] > 0 => code'[s] = globalNames'[n]
    <2>1. CASE code'[s] = code[s]
      BY <1>0, <1>1, <2>1 DEF NameStep, Faithful, Known
    <2>2. CASE code'[s] = slot[s] /\ globalNames' = globalNames
      BY <1>0, <2>2 DEF Faithful, Exact
    <2>. QED BY <1>0, <2>1, <2>2 DEF CodeStep
  <1>6. OpOf[s] = "get" /\ code'[s] = Callout => (Known(n) => ValueOf(n) # None)'
    BY <1>1 DEF Known, ValueOf
  <1>. QED BY <1>2, <1>3, <1>4, <1>5, <1>6 DEF Faithful

(* While nothing disturbs them, all sites stay faithful.                     *)
UndisturbedInv == IInv /\ FaithfulUntilDisturbed

LEMMA UndisturbedInit == MCInit => UndisturbedInv
  <1> SUFFICES ASSUME MCInit PROVE UndisturbedInv
    OBVIOUS
  <1>1. IInv
    BY InitInv DEF MCInit
  <1>2. ASSUME NEW s \in Sites PROVE Faithful(s)
    BY ParamAssumption DEF MCInit, Init, Faithful, Exact, Pinned, Known,
                           Interpreted, Callout
  <1>. QED BY <1>1, <1>2 DEF UndisturbedInv, FaithfulUntilDisturbed

LEMMA UndisturbedNext ==
  UndisturbedInv /\ [MCNext]_<<vars, seen>> => UndisturbedInv'
  <1> SUFFICES ASSUME UndisturbedInv, [MCNext]_<<vars, seen>> PROVE UndisturbedInv'
    OBVIOUS
  <1>1. IInv /\ [Next]_vars
    BY DEF UndisturbedInv, MCNext
  <1>2. IInv'
    BY <1>1, NextInv
  <1>3. ASSUME seen' = {} PROVE \A s \in Sites : Faithful(s)'
    <2>1. CASE MCNext
      <3>1. Disturbances = {} /\ \A s \in Sites : Faithful(s)
        BY <1>3, <2>1 DEF MCNext, UndisturbedInv, FaithfulUntilDisturbed
      <3>2. Steps
        BY <1>1, <3>1, NextSteps DEF Faithful
      <3>. QED BY <1>1, <1>2, <3>1, <3>2, OnlyDisturbances
    <2>2. CASE UNCHANGED <<vars, seen>>
      BY <1>3, <2>2 DEF UndisturbedInv, FaithfulUntilDisturbed, vars, Faithful,
                        Exact, Known, ValueOf
    <2>. QED BY <2>1, <2>2
  <1>. QED BY <1>2, <1>3 DEF UndisturbedInv, FaithfulUntilDisturbed

(* No cache and no machine code relies on what is no longer so, before one  *)
(* of the four listed disturbances: the list is complete for every program, *)
(* set of names and placement of the sites.                                  *)
THEOREM SitesStayFaithful == MCSpec => []FaithfulUntilDisturbed
  <1>. QED BY UndisturbedInit, UndisturbedNext, PTL DEF MCSpec, UndisturbedInv
=============================================================================
