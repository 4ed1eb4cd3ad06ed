--------------------------- MODULE FileRegister ---------------------------
(* What BytecodeSerializer promises of a .jcw or .jcb file: it is a register *)
(* that holds nothing or one complete snapshot.  A save that is under way is *)
(* only pending; it takes effect at once and completely, or never, and       *)
(* nothing but the completion of a save, or a deletion, changes the file.    *)
CONSTANTS Writers, Values, None

VARIABLES content,   \* the snapshot a reader of the file finds, or None
          pending    \* the snapshot each writer is saving, or None

regVars == <<content, pending>>

RegInit == /\ content = None
           /\ pending = [w \in Writers |-> None]

Begin(w) == /\ pending[w] = None
            /\ pending'[w] \in Values
            /\ pending' = [pending EXCEPT ![w] = pending'[w]]
            /\ UNCHANGED content

Commit(w) == /\ pending[w] # None
             /\ content' = pending[w]
             /\ pending' = [pending EXCEPT ![w] = None]

Abort(w) == /\ pending' = [pending EXCEPT ![w] = None]
            /\ UNCHANGED content

Remove == /\ content' = None
          /\ UNCHANGED pending

RegNext == \/ \E w \in Writers : Begin(w) \/ Commit(w) \/ Abort(w)
           \/ Remove

RegSpec == RegInit /\ [][RegNext]_regVars
=============================================================================
