---------------------------- MODULE Environment ----------------------------
(***************************************************************************)
(* What the language promises of global variables: a map from names to     *)
(* values and a set of names that are constant.  There are no slots, no     *)
(* inline caches and no machine code here.                                  *)
(***************************************************************************)
CONSTANTS Names, Values, None, Functions, Builtins, BuiltinOf, Undef, Error

VARIABLES env, consts, answer

envVars == <<env, consts, answer>>

Defined(n) == env[n] # Undef
Native(n)  == n \in Builtins /\ BuiltinOf[n] \in Functions
Answer(op, n, v) == answer' = [op |-> op, name |-> n, value |-> v]
Refuse(op, n) == Answer(op, n, Error) /\ UNCHANGED <<env, consts>>

Init == /\ env = [n \in Names |-> Undef]
        /\ consts = {}
        /\ answer = [op |-> "start", name |-> Undef, value |-> Undef]

(* Reading a name nobody has bound yet binds it to its builtin.            *)
Read(n) ==
  \/ /\ Defined(n)
     /\ Answer("get", n, env[n])
     /\ UNCHANGED <<env, consts>>
  \/ /\ ~Defined(n) /\ n \in Builtins
     /\ env' = [env EXCEPT ![n] = BuiltinOf[n]]
     /\ Answer("get", n, BuiltinOf[n])
     /\ UNCHANGED consts
  \/ /\ ~Defined(n) /\ n \notin Builtins
     /\ Refuse("get", n)

Bind(op, n, v) == env' = [env EXCEPT ![n] = v] /\ Answer(op, n, v)

Write(n, v) ==
  \/ n \in consts /\ Refuse("set", n)
  \/ n \notin consts /\ Bind("set", n, v) /\ UNCHANGED consts

(* ref n = v: the target must exist.                                       *)
WriteRef(n, v) ==
  \/ n \in consts /\ Refuse("setRef", n)
  \/ ~Defined(n) /\ n \notin Builtins /\ Refuse("setRef", n)
  \/ /\ n \notin consts /\ (Defined(n) \/ n \in Builtins)
     /\ Bind("setRef", n, v)
     /\ UNCHANGED consts

DefineConst(n, v) ==
  \/ n \in consts /\ Refuse("const", n)
  \/ n \notin consts /\ Bind("const", n, v) /\ consts' = consts \cup {n}

Delete(n) ==
  \/ (n \in consts \/ ~Defined(n)) /\ Refuse("delete", n)
  \/ /\ n \notin consts /\ Defined(n)
     /\ env' = [env EXCEPT ![n] = Undef]
     /\ Answer("delete", n, None)
     /\ UNCHANGED consts

(* The host forgets a name that existed during compilation only.           *)
Forget(n) == /\ env' = [env EXCEPT ![n] = Undef]
             /\ consts' = consts \ {n}
             /\ UNCHANGED answer

(* x.n and x.n() when x has no member n: a global function, else a builtin. *)
Member(op, n) ==
  /\ Answer(op, n, IF env[n] \in Functions THEN env[n]
                   ELSE IF Native(n) THEN BuiltinOf[n] ELSE Error)
  /\ UNCHANGED <<env, consts>>

Next == \E n \in Names :
  \/ Read(n) \/ Delete(n) \/ Forget(n)
  \/ \E v \in Values : Write(n, v) \/ WriteRef(n, v) \/ DefineConst(n, v)
  \/ \E op \in {"getProp", "invoke"} : Member(op, n)

Spec == Init /\ [][Next]_envVars
=============================================================================
