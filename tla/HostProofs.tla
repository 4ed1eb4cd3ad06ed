----------------------------- MODULE HostProofs -----------------------------
(* Where jc2 meets the operating system: the prompt and Ctrl+C (Repl), the   *)
(* workspace file (AtomicFile, Workspace) and the window thread (Window).    *)
(*                                                                           *)
(* A press of Ctrl+C interrupts at most one evaluation, on both platforms,   *)
(* for any number of presses and finalizers.  AtomicFile implements          *)
(* FileRegister when one process writes the file, for every set of values    *)
(* and inodes and for a crash between any two steps of a save; with two      *)
(* writers it does not: they share <path>.tmp, and one may rename what the   *)
(* other is still writing. Until a load or a merge makes indices disagree,   *)
(* a session keeps the code of its closures through everything it defines,   *)
(* saves, loads and clears, for any number of globals, objects and           *)
(* functions; and a save and a load restore the object graph of what is      *)
(* saved. The window's two threads never show a torn image, and the      *)
(* script always learns of the end of its window, for any images,            *)
(* capacities of the queues and inputs. No fairness is needed.               *)
EXTENDS Repl, Workspace, Window, SequenceTheorems, FiniteSetTheorems,
        WellFoundedInduction, TLAPS

-----------------------------------------------------------------------------
(* The prompt.                                                               *)

PromptStages == {"clear", "reset", "arm", "read", "disarm", "input", "more", "eval"}
                \cup Shutting
HandlerStages == {"idle", "check", "count", "test", "store"} \cup Shutting

PromptTypeOK ==
    /\ platform \in {"windows", "posix"}
    /\ main \in PromptStages /\ handler \in HandlerStages
    /\ flag \in BOOLEAN /\ waiting \in BOOLEAN /\ count \in Nat
    /\ got \in {"line", "nothing", "eof"}
    /\ program \in Programs \cup {"none"} /\ finalizing \in BOOLEAN
    /\ alive \in BOOLEAN
    /\ presses \in Nat /\ finalizers \in Nat /\ hits \in Nat /\ burst \in Nat

(* A press is worth one interrupt: first the handler carries it, then the    *)
(* flag, and who took it out of an evaluation goes through "clear", where    *)
(* the flag that is still set is worth nothing.                              *)
InHandler == IF handler \in {"check", "count", "test", "store"} THEN 1 ELSE 0
InFlag == IF flag /\ main # "clear" THEN 1 ELSE 0

PressesSpent == hits + InHandler + InFlag <= presses

PromptInv == PromptTypeOK /\ PressesSpent

-----------------------------------------------------------------------------
LEMMA PromptTypeInit == Init => PromptTypeOK
<1>1. Init => /\ main \in PromptStages /\ handler \in HandlerStages
              /\ program \in Programs \cup {"none"} /\ got \in {"line", "nothing", "eof"}
  BY DEF Init, PromptStages, HandlerStages
<1>2. Init => /\ flag \in BOOLEAN /\ waiting \in BOOLEAN /\ finalizing \in BOOLEAN
              /\ alive \in BOOLEAN
  BY DEF Init
<1> QED BY <1>1, <1>2 DEF Init, PromptTypeOK

LEMMA PromptTypeNext == PromptTypeOK /\ [Next]_vars => PromptTypeOK'
<1> SUFFICES ASSUME PromptTypeOK, [Next]_vars PROVE PromptTypeOK'
  OBVIOUS
<1> USE DEF PromptTypeOK, PromptStages, HandlerStages, Shutting, At, MainRuns, Running, Handles, shared,
            evaluation, history
<1>1. CASE ClearFlag
  BY <1>1 DEF ClearFlag
<1>2. CASE ResetCount
  BY <1>2 DEF ResetCount
<1>3. CASE Arm
  BY <1>3 DEF Arm
<1>4. CASE Disarm
  BY <1>4 DEF Disarm
<1>5. CASE ReadLine
  BY <1>5 DEF ReadLine
<1>6. CASE NoInput
  BY <1>6 DEF NoInput
<1>7. CASE NothingToDo
  BY <1>7 DEF NothingToDo
<1>8. CASE ReadMore
  BY <1>8 DEF ReadMore
<1>9. CASE EvaluationEnds
  BY <1>9 DEF EvaluationEnds, Leave
<1>10. CASE StartFinalizer
  BY <1>10 DEF StartFinalizer
<1>11. CASE EndFinalizer
  BY <1>11 DEF EndFinalizer
<1>12. CASE CheckInterrupt
  <2>1. CASE finalizing
    BY <1>12, <2>1 DEF CheckInterrupt
  <2>2. CASE ~finalizing
    <3>1. Leave /\ hits' = hits + 1
      BY <1>12, <2>2 DEF CheckInterrupt
    <3>2. UNCHANGED <<platform, handler, shared, got, finalizers, alive, presses>>
      BY <1>12 DEF CheckInterrupt
    <3>3. program' \in Programs \cup {"none"} /\ main' \in PromptStages
      BY <3>1 DEF Leave
    <3>4. hits' \in Nat /\ burst' \in Nat
      BY <3>1 DEF Leave
    <3>5. finalizing' \in BOOLEAN
      BY <3>1 DEF Leave
    <3> QED BY <3>2, <3>3, <3>4, <3>5
  <2> QED BY <2>1, <2>2
<1>13. CASE Press
  BY <1>13 DEF Press
<1>14. CASE CheckWaiting
  BY <1>14 DEF CheckWaiting
<1>15. CASE Count
  BY <1>15 DEF Count
<1>16. CASE HardKill
  BY <1>16 DEF HardKill
<1>17. CASE Request
  BY <1>17 DEF Request
<1>18. CASE Store
  BY <1>18 DEF Store
<1>19. CASE Exit
  BY <1>19 DEF Exit
<1>22. CASE Quit
  BY <1>22 DEF Quit
<1>23. CASE LastFinalizer
  BY <1>23 DEF LastFinalizer, ShutdownStep
<1>24. CASE LastFinalizerEnds
  BY <1>24 DEF LastFinalizerEnds, ShutdownStep
<1>25. CASE ShutdownStuck
  BY <1>25 DEF ShutdownStuck
<1>26. CASE ShutdownCrash
  BY ZenonT(60), <1>26 DEF ShutdownCrash
<1>20. ASSUME NEW p \in Programs, Evaluate(p) PROVE PromptTypeOK'
  BY <1>20 DEF Evaluate
<1>21. CASE UNCHANGED vars
  BY <1>21 DEF vars
<1> QED
  BY <1>1, <1>2, <1>3, <1>4, <1>5, <1>6, <1>7, <1>8, <1>9, <1>10, <1>11, <1>12, <1>13,
     <1>14, <1>15, <1>16, <1>17, <1>18, <1>19, <1>20, <1>21, <1>22, <1>23, <1>24, <1>25, <1>26
     DEF Next, Prompt, Dispatch,
     Handler

(* Type correctness of the prompt and its signal handler.                    *)
THEOREM PromptTypeCorrect == Spec => []PromptTypeOK
BY PromptTypeInit, PromptTypeNext, PTL DEF Spec

-----------------------------------------------------------------------------
LEMMA SpentInit == Init => PressesSpent
BY DEF Init, PressesSpent, InHandler, InFlag

LEMMA SpentNext == PromptTypeOK /\ PressesSpent /\ [Next]_vars => PressesSpent'
<1> SUFFICES ASSUME PromptTypeOK, PressesSpent, [Next]_vars PROVE PressesSpent'
  OBVIOUS
<1> USE DEF PromptTypeOK, PressesSpent, InHandler, InFlag, At, MainRuns, Running, Handles,
            shared, evaluation, history
<1>1. CASE ClearFlag
  BY <1>1 DEF ClearFlag
<1>2. CASE ResetCount
  BY <1>2 DEF ResetCount
<1>3. CASE Arm
  BY <1>3 DEF Arm
<1>4. CASE Disarm
  BY <1>4 DEF Disarm
<1>5. CASE ReadLine
  BY <1>5 DEF ReadLine
<1>6. CASE NoInput
  BY <1>6 DEF NoInput
<1>7. CASE NothingToDo
  BY <1>7 DEF NothingToDo
<1>8. CASE ReadMore
  BY <1>8 DEF ReadMore
<1>9. CASE EvaluationEnds
  BY <1>9 DEF EvaluationEnds, Leave
<1>10. CASE StartFinalizer
  BY <1>10 DEF StartFinalizer
<1>11. CASE EndFinalizer
  BY <1>11 DEF EndFinalizer
<1>12. CASE CheckInterrupt
  BY <1>12 DEF CheckInterrupt, Leave
<1>13. CASE Press
  BY <1>13 DEF Press
<1>14. CASE CheckWaiting
  BY <1>14 DEF CheckWaiting
<1>15. CASE Count
  BY <1>15 DEF Count
<1>16. CASE HardKill
  BY <1>16 DEF HardKill
<1>17. CASE Request
  BY <1>17 DEF Request
<1>18. CASE Store
  BY <1>18 DEF Store
<1>19. CASE Exit
  BY <1>19 DEF Exit
<1>22. CASE Quit
  BY <1>22 DEF Quit
<1>23. CASE LastFinalizer
  BY <1>23 DEF LastFinalizer, ShutdownStep
<1>24. CASE LastFinalizerEnds
  BY <1>24 DEF LastFinalizerEnds, ShutdownStep
<1>25. CASE ShutdownStuck
  BY <1>25 DEF ShutdownStuck
<1>26. CASE ShutdownCrash
  BY <1>26 DEF ShutdownCrash
<1>20. ASSUME NEW p \in Programs, Evaluate(p) PROVE PressesSpent'
  BY <1>20 DEF Evaluate
<1>21. CASE UNCHANGED vars
  BY <1>21 DEF vars
<1> QED
  BY <1>1, <1>2, <1>3, <1>4, <1>5, <1>6, <1>7, <1>8, <1>9, <1>10, <1>11, <1>12, <1>13,
     <1>14, <1>15, <1>16, <1>17, <1>18, <1>19, <1>20, <1>21, <1>22, <1>23, <1>24, <1>25, <1>26
     DEF Next, Prompt, Dispatch,
     Handler

(* A press of Ctrl+C ends at most one evaluation, whenever its handler is    *)
(* scheduled: no request survives the prompt into the next evaluation twice. *)
THEOREM InterruptsAtMostOnce == Spec => []InterruptsOnce
<1>1. Init => PromptInv
  BY PromptTypeInit, SpentInit DEF PromptInv
<1>2. PromptInv /\ [Next]_vars => PromptInv'
  BY PromptTypeNext, SpentNext DEF PromptInv
<1>3. PromptInv => InterruptsOnce
  BY DEF PromptInv, PromptTypeOK, PressesSpent, InHandler, InFlag, InterruptsOnce
<1> QED BY <1>1, <1>2, <1>3, PTL DEF Spec

-----------------------------------------------------------------------------
(* The workspace file.                                                       *)

OneWriter == \A v, w \in Writers : v = w

(* The inductive invariant.  The temporary file is never the file itself,    *)
(* and its blocks follow the writer's progress; the file is complete.        *)
TargetComplete == target # None => /\ blocks[target][1] = blocks[target][2]
                                   /\ blocks[target][1] \in Values

Apart == temp # None => temp # target

WriterInv(w) ==
    /\ pc[w] = "idle" => fd[w] = None /\ val[w] = None
    /\ pc[w] # "idle" => val[w] \in Values /\ temp # None
    /\ pc[w] \in {"open", "half"} => fd[w] = temp
    /\ pc[w] = "half" => blocks[temp][1] = val[w]
    /\ pc[w] = "written" => /\ fd[w] = None
                            /\ blocks[temp][1] = val[w]
                            /\ blocks[temp][2] = val[w]

FileInv == FileTypeOK /\ TargetComplete /\ Apart /\ \A w \in Writers : WriterInv(w)

-----------------------------------------------------------------------------
(* Every variable keeps its type in every step, whoever writes.              *)
LEMMA FileTypeInit == FileInit => FileTypeOK
  BY DEF FileInit, FileTypeOK, Blank, Stages

LEMMA FileTypeNext == FileTypeOK /\ [FileNext]_fileVars => FileTypeOK'
<1> SUFFICES ASSUME FileTypeOK, [FileNext]_fileVars PROVE FileTypeOK'
  OBVIOUS
<1> USE DEF FileTypeOK
<1>0. Blank \in [1..2 -> Values \cup {None}]
  BY DEF Blank
<1>1. ASSUME NEW w \in Writers, NEW v \in Values, Open(w, v) PROVE FileTypeOK'
  <2>1. PICK i \in Inodes : /\ temp' = i
                            /\ blocks' = [blocks EXCEPT ![i] = Blank]
                            /\ fd' = [fd EXCEPT ![w] = i]
    BY <1>1 DEF Open
  <2>2. blocks' \in [Inodes -> [1..2 -> Values \cup {None}]]
    BY <1>0, <2>1
  <2> QED BY <1>1, <2>1, <2>2 DEF Open, Stages
<1>2. ASSUME NEW w \in Writers, WriteFirst(w) PROVE FileTypeOK'
  BY <1>2 DEF WriteFirst, Stages
<1>3. ASSUME NEW w \in Writers, WriteRest(w) PROVE FileTypeOK'
  BY <1>3 DEF WriteRest, Stages
<1>4. ASSUME Unlinked PROVE blocks' \in [Inodes -> [1..2 -> Values \cup {None}]]
  BY <1>0, <1>4 DEF Unlinked
<1>5. ASSUME NEW w \in Writers, GiveUp(w)
      PROVE /\ pc' \in [Writers -> Stages]
            /\ fd' \in [Writers -> Inodes \cup {None}]
            /\ val' \in [Writers -> Values \cup {None}]
  BY <1>5 DEF GiveUp, Stages
<1>6. ASSUME NEW w \in Writers, WriteFails(w) PROVE FileTypeOK'
  BY <1>4, <1>5, <1>6 DEF WriteFails
<1>7. ASSUME NEW w \in Writers, Replace(w) PROVE FileTypeOK'
  BY <1>4, <1>5, <1>7 DEF Replace
<1>8. ASSUME NEW w \in Writers, ReplaceFails(w) PROVE FileTypeOK'
  BY <1>4, <1>5, <1>8 DEF ReplaceFails
<1>9. ASSUME NEW w \in Writers, Crash(w) PROVE FileTypeOK'
  BY <1>4, <1>5, <1>9 DEF Crash
<1>10. CASE Delete
  BY <1>4, <1>10 DEF Delete
<1>11. CASE UNCHANGED fileVars
  BY <1>11 DEF fileVars
<1> QED
  BY <1>1, <1>2, <1>3, <1>6, <1>7, <1>8, <1>9, <1>10, <1>11 DEF FileNext, SaveStep

(* Type correctness of writeBytesAtomically's state, for any number of       *)
(* processes that save the same workspace.                                   *)
THEOREM FileTypeCorrect == FileSpec => []FileTypeOK
  BY FileTypeInit, FileTypeNext, PTL DEF FileSpec

-----------------------------------------------------------------------------
LEMMA FileInvInit == FileInit => FileInv
  BY FileTypeInit DEF FileInit, FileInv, TargetComplete, Apart, WriterInv

(* What the removal of names leaves alone: the inode of <path>.              *)
LEMMA TargetKept ==
  ASSUME FileTypeOK, Unlinked, target' = target, target # None
  PROVE  blocks'[target] = blocks[target]
  BY DEF FileTypeOK, Unlinked, Live

LEMMA InvOpen ==
  ASSUME OneWriter, FileInv, FileTypeOK', NEW w \in Writers, NEW v \in Values, Open(w, v)
  PROVE  /\ FileInv'
         /\ target # None => blocks'[target] = blocks[target]
<1> USE DEF FileInv, FileTypeOK
<1>1. PICK i \in Inodes : /\ IF temp = None THEN i \notin Live ELSE i = temp
                          /\ temp' = i
                          /\ blocks' = [blocks EXCEPT ![i] = Blank]
                          /\ fd' = [fd EXCEPT ![w] = i]
  BY DEF Open
<1>2. i # target
  BY <1>1 DEF Live, Apart
<1>3. target # None => blocks'[target] = blocks[target]
  BY <1>1, <1>2
<1>4. TargetComplete' /\ Apart'
  BY <1>1, <1>2, <1>3 DEF Open, TargetComplete, Apart
<1>5. ASSUME NEW u \in Writers PROVE WriterInv(u)'
  <2>1. u = w
    BY DEF OneWriter
  <2>2. /\ pc'[w] = "open" /\ val'[w] = v /\ fd'[w] = i /\ i # None
    BY <1>1, NoneAssumption DEF Open
  <2> QED BY <1>1, <2>1, <2>2 DEF WriterInv
<1> QED BY <1>3, <1>4, <1>5

LEMMA InvWrite ==
  ASSUME OneWriter, FileInv, FileTypeOK', NEW w \in Writers, WriteFirst(w) \/ WriteRest(w)
  PROVE  /\ FileInv'
         /\ target # None => blocks'[target] = blocks[target]
<1> USE DEF FileInv, FileTypeOK
<1>1. fd[w] = temp /\ temp # None /\ temp # target /\ target' = target /\ temp' = temp
  BY DEF WriteFirst, WriteRest, WriterInv, Apart
<1>2. target # None => blocks'[target] = blocks[target]
  BY <1>1 DEF WriteFirst, WriteRest
<1>3. TargetComplete' /\ Apart'
  BY <1>1, <1>2 DEF TargetComplete, Apart
<1>4. ASSUME NEW u \in Writers PROVE WriterInv(u)'
  <2>1. u = w
    BY DEF OneWriter
  <2>2. CASE WriteFirst(w)
    <3>1. /\ pc'[w] = "half" /\ val' = val /\ fd' = fd
          /\ blocks'[temp][1] = val[w]
      BY <1>1, <2>2 DEF WriteFirst
    <3> QED BY <1>1, <2>1, <2>2, <3>1 DEF WriteFirst, WriterInv
  <2>3. CASE WriteRest(w)
    <3>1. /\ pc'[w] = "written" /\ val' = val /\ fd'[w] = None
          /\ blocks'[temp][1] = blocks[temp][1]
          /\ blocks'[temp][2] = val[w]
      BY <1>1, <2>3 DEF WriteRest
    <3> QED BY <1>1, <2>1, <2>3, <3>1 DEF WriteRest, WriterInv
  <2> QED BY <2>2, <2>3
<1> QED BY <1>2, <1>3, <1>4

LEMMA InvGiveUp ==
  ASSUME OneWriter, FileInv, FileTypeOK', NEW w \in Writers,
         WriteFails(w) \/ ReplaceFails(w) \/ Crash(w)
  PROVE  /\ FileInv'
         /\ target' = target
         /\ target # None => blocks'[target] = blocks[target]
<1> USE DEF FileInv, FileTypeOK
<1>1. GiveUp(w) /\ Unlinked /\ target' = target /\ temp' \in {temp, None}
  BY DEF WriteFails, ReplaceFails, Crash
<1>2. target # None => blocks'[target] = blocks[target]
  BY <1>1, TargetKept
<1>3. TargetComplete' /\ Apart'
  BY <1>1, <1>2 DEF TargetComplete, Apart
<1>4. ASSUME NEW u \in Writers PROVE WriterInv(u)'
  <2>1. u = w
    BY DEF OneWriter
  <2> QED BY <1>1, <2>1 DEF GiveUp, WriterInv
<1> QED BY <1>1, <1>2, <1>3, <1>4

LEMMA InvReplace ==
  ASSUME OneWriter, FileInv, FileTypeOK', NEW w \in Writers, Replace(w)
  PROVE  /\ FileInv'
         /\ target' # None
         /\ blocks'[target'][1] = val[w] /\ blocks'[target'][2] = val[w]
         /\ val[w] \in Values
<1> USE DEF FileInv, FileTypeOK
<1>1. /\ target' = temp /\ temp' = None /\ temp \in Inodes
      /\ blocks[temp][1] = val[w] /\ blocks[temp][2] = val[w] /\ val[w] \in Values
  BY DEF Replace, WriterInv
<1>2. blocks'[temp] = blocks[temp]
  BY <1>1 DEF Replace, Unlinked, Live
<1>3. TargetComplete' /\ Apart'
  BY <1>1, <1>2 DEF TargetComplete, Apart
<1>4. ASSUME NEW u \in Writers PROVE WriterInv(u)'
  <2>1. u = w
    BY DEF OneWriter
  <2> QED BY <2>1 DEF Replace, GiveUp, WriterInv
<1> QED BY <1>1, <1>2, <1>3, <1>4, NoneAssumption

LEMMA InvDelete ==
  ASSUME FileInv, FileTypeOK', Delete
  PROVE  FileInv'
<1> USE DEF FileInv, FileTypeOK
<1>1. temp # None => blocks'[temp] = blocks[temp]
  BY DEF Delete, Unlinked, Live
<1>2. TargetComplete' /\ Apart'
  BY NoneAssumption DEF Delete, TargetComplete, Apart
<1>3. ASSUME NEW u \in Writers PROVE WriterInv(u)'
  BY <1>1 DEF Delete, WriterInv
<1> QED BY <1>2, <1>3

-----------------------------------------------------------------------------
(* A step that leaves <path> and its inode alone is a step of the register   *)
(* that leaves its content alone.                                            *)
LEMMA ContentKept ==
  ASSUME target' = target, target # None => blocks'[target] = blocks[target]
  PROVE  Content' = Content
  BY DEF Content, Stored

LEMMA StepRefines ==
  ASSUME OneWriter, FileInv, FileTypeOK', [FileNext]_fileVars
  PROVE  FileInv' /\ [Register!RegNext]_(Register!regVars)
<1> USE DEF Register!RegNext, Register!regVars
<1>1. ASSUME NEW w \in Writers, NEW v \in Values, Open(w, v)
      PROVE FileInv' /\ Register!Begin(w)
  <2>1. FileInv' /\ Content' = Content
    BY <1>1, InvOpen, ContentKept DEF Open
  <2>2. val[w] = None /\ val'[w] = v /\ val' = [val EXCEPT ![w] = v]
    BY <1>1 DEF Open, FileInv, WriterInv, FileTypeOK
  <2> QED BY <2>1, <2>2 DEF Register!Begin
<1>2. ASSUME NEW w \in Writers, WriteFirst(w) \/ WriteRest(w)
      PROVE FileInv' /\ Content' = Content /\ val' = val
  BY <1>2, InvWrite, ContentKept DEF WriteFirst, WriteRest
<1>3. ASSUME NEW w \in Writers, WriteFails(w) \/ ReplaceFails(w) \/ Crash(w)
      PROVE FileInv' /\ Register!Abort(w)
  <2>1. FileInv' /\ Content' = Content
    BY <1>3, InvGiveUp, ContentKept
  <2>2. val' = [val EXCEPT ![w] = None]
    BY <1>3 DEF WriteFails, ReplaceFails, Crash, GiveUp
  <2> QED BY <2>1, <2>2 DEF Register!Abort
<1>4. ASSUME NEW w \in Writers, Replace(w) PROVE FileInv' /\ Register!Commit(w)
  <2>1. FileInv' /\ Content' = val[w] /\ val[w] # None
    BY <1>4, InvReplace, NoneAssumption DEF Content, Stored
  <2>2. val' = [val EXCEPT ![w] = None]
    BY <1>4 DEF Replace, GiveUp
  <2> QED BY <2>1, <2>2 DEF Register!Commit
<1>5. CASE Delete
  <2>1. FileInv' /\ Content' = None /\ val' = val
    BY <1>5, InvDelete DEF Delete, Content
  <2> QED BY <2>1 DEF Register!Remove
<1>6. CASE UNCHANGED fileVars
  BY <1>6 DEF fileVars, FileInv, FileTypeOK, TargetComplete, Apart, WriterInv, Content, Stored
<1> QED
  BY <1>1, <1>2, <1>3, <1>4, <1>5, <1>6 DEF FileNext, SaveStep

(* The workspace file is an atomic register when one process saves it        *)
(* (writeBytesAtomically): whatever write, rename or process fails, a reader *)
(* finds the last snapshot that was saved completely.                        *)
THEOREM SaveIsAtomic ==
  ASSUME OneWriter
  PROVE  FileSpec => FileIsAtomic
<1>1. FileInit => FileInv
  BY FileInvInit
<1>2. FileInv /\ [FileNext]_fileVars => FileInv' /\ [Register!RegNext]_(Register!regVars)
  <2> SUFFICES ASSUME FileInv, [FileNext]_fileVars
               PROVE  FileInv' /\ [Register!RegNext]_(Register!regVars)
    OBVIOUS
  <2>1. FileTypeOK'
    BY FileTypeNext DEF FileInv
  <2> QED BY <2>1, StepRefines
<1>3. FileInit => Register!RegInit
  BY DEF FileInit, Register!RegInit, Content
<1> QED
  BY <1>1, <1>2, <1>3, PTL DEF FileSpec, FileIsAtomic, Register!RegSpec

-----------------------------------------------------------------------------
(* The session and its snapshots.                                            *)

(* A sequence, of whatever elements.                                         *)
IsSeq(s) == s \in Seq({s[i] : i \in 1..Len(s)})

FnRecords == [code : Int, nested : Nat]

(* The functions: a function that makes closures finds the one it makes them *)
(* of where it says it is.                                                   *)
FnsOK(f) ==
    /\ f \in Seq(FnRecords) /\ Len(f) <= MaxFns
    /\ \A i \in DOMAIN f : f[i].nested # 0 =>
         f[i].nested \in DOMAIN f /\ f[f[i].nested].code = -f[i].code

(* An index and the source that is expected there.                           *)
Sources(f) == {<<i, f[i].code>> : i \in DOMAIN f}

(* Every closure in a heap, and in the tokens of a snapshot, is in C.        *)
ClosuresIn(h, C) == \A o \in Addresses : h[o].kind = "fn" => <<h[o].idx, h[o].code>> \in C
TokenIn(t, C) == t.tag = 7 /\ t.kind = "fn" => <<t.idx, t.code>> \in C
TokensIn(out, C) == \A i \in 1..Len(out) : TokenIn(out[i], C)

(* The object graph: values are none or objects that are there, and there is *)
(* one closure of the builtin.                                               *)
Vals == {0} \cup Addresses
Kinds == {"free", "fn", "list", "native", "builtin", "module"}
Objects == [kind : Kinds, idx : Int, code : Int, kids : Seq(Vals)]
Containers == [at : Addresses, left : Nat]

NotFree(h, v) == v \in Addresses => h[v].kind # "free"

HeapOK(h, g) ==
    /\ h \in [Addresses -> Objects] /\ g \in [Slots -> Vals \cup {None}]
    /\ \A o \in Addresses : /\ Len(h[o].kids) <= MaxKids + 1
                            /\ \A i \in DOMAIN h[o].kids : NotFree(h, h[o].kids[i])
    /\ \A n \in Slots : NotFree(h, g[n])
    /\ \A o, p \in Addresses : h[o].kind = "builtin" /\ h[p].kind = "builtin" => o = p

(* What the graph of such a session was written as.                          *)
Graph(s) == \E h, g : HeapOK(h, g) /\ s.names = Names(g) /\ s.out = WriteAll(h, NamedValues(g))

SnapshotOK(s) ==
    /\ FnsOK(s.fns) /\ Len(s.out) \in Nat
    /\ ~s.tainted => TokensIn(s.out, Sources(s.fns))
    /\ ~GcMayRun => Graph(s)

(* The blocks of the workspace file come from snapshots.                     *)
FileOK ==
    /\ DOMAIN blocks = Inodes /\ {target, temp} \subseteq Inodes \cup {None}
    /\ \A i \in Inodes : DOMAIN blocks[i] = 1..2
    /\ \A i \in Inodes, b \in 1..2 : blocks[i][b] = None \/ SnapshotOK(blocks[i][b])
    /\ DOMAIN val = Writers
    /\ \A w \in Writers : val[w] = None \/ SnapshotOK(val[w])

(* The inductive invariant.  As long as no load and no merge has left indices *)
(* that disagree, every closure, reachable or not, and all machine code are   *)
(* of the function at their index, in the session and in what it saved.       *)
SessionOK ==
    /\ FnsOK(fns) /\ commands \in Nat
    /\ DOMAIN heap = Addresses /\ DOMAIN jit = 1..MaxFns
    /\ ~disturbed => ClosuresIn(heap, Sources(fns))
    /\ ~disturbed => \A i \in 1..MaxFns : jit[i] # NoCode => <<i, jit[i]>> \in Sources(fns)

GraphOK == ~GcMayRun => HeapOK(heap, globals)

SessionInv == FileOK /\ SessionOK /\ GraphOK

-----------------------------------------------------------------------------
(* Induction: a set that has 0, and with n also n + 1, has every number.     *)
LEMMA NatSet ==
  ASSUME NEW S, 0 \in S, \A n \in Nat : n \in S => n + 1 \in S
  PROVE  Nat \subseteq S
<1> SUFFICES ASSUME NEW k \in Nat, k \notin S PROVE FALSE
  OBVIOUS
<1> DEFINE Below(n) == {j \in 0..k : j < n}
           T == {n \in 0..k : n \notin S}
           F == {Below(n) : n \in T}
           R == StrictSubsetOrdering(0..k)
<1>1. F \subseteq FiniteSubsetsOf(0..k)
  <2>1. IsFiniteSet(0..k)
    BY FS_Interval
  <2> QED BY <2>1, FS_Subset DEF FiniteSubsetsOf
<1>2. k \in T
  OBVIOUS
<1>3. Below(k) \in F
  <2> HIDE DEF T, Below
  <2> QED BY <1>2
<1>4. \E x \in F : \A y \in F : ~(<<y, x>> \in R)
  <2> HIDE DEF R, F
  <2>1. IsFiniteSet(0..k) /\ IsWellFoundedOn(R, FiniteSubsetsOf(0..k))
    BY FS_Interval, FS_StrictSubsetOrderingWellFounded DEF R
  <2> QED BY <1>1, <1>3, <2>1, WFMin, Zenon
<1>5. PICK m \in T : \A n \in T : ~(<<Below(n), Below(m)>> \in R)
  BY <1>4
<1>6. m # 0 /\ m - 1 \in Nat
  OBVIOUS
<1>7. m - 1 \in T
  <2>1. m - 1 \in S => (m - 1) + 1 \in S
    BY <1>6
  <2> QED BY <1>6, <2>1
<1>8. <<Below(m - 1), Below(m)>> \in R
  <2>1. Below(m - 1) \subseteq Below(m) /\ m - 1 \in Below(m) /\ m - 1 \notin Below(m - 1)
    BY <1>6, <1>7
  <2>2. Below(m - 1) \in SUBSET (0..k) /\ Below(m) \in SUBSET (0..k)
    OBVIOUS
  <2> HIDE DEF Below
  <2> QED BY <2>1, <2>2 DEF R, StrictSubsetOrdering
<1> QED BY <1>5, <1>7, <1>8

LEMMA SeqIs ==
  ASSUME NEW S, NEW s \in Seq(S)
  PROVE  IsSeq(s)
<1>1. Len(s) \in Nat /\ s \in [1..Len(s) -> S]
  OBVIOUS
<1>2. s \in [1..Len(s) -> {s[i] : i \in 1..Len(s)}]
  BY <1>1
<1> QED BY <1>1, <1>2, SeqDef DEF IsSeq

LEMMA IsSeqFacts ==
  ASSUME NEW s, IsSeq(s)
  PROVE  Len(s) \in Nat /\ DOMAIN s = 1..Len(s) /\ s = [i \in 1..Len(s) |-> s[i]]
BY LenProperties DEF IsSeq

LEMMA Appended ==
  ASSUME NEW s, NEW e, IsSeq(s)
  PROVE  /\ IsSeq(Append(s, e)) /\ Len(Append(s, e)) = Len(s) + 1
         /\ \A i \in 1..Len(s) : Append(s, e)[i] = s[i]
         /\ Append(s, e)[Len(s) + 1] = e
<1> DEFINE S == {s[i] : i \in 1..Len(s)} \cup {e}
<1>1. s \in Seq(S) /\ e \in S
  <2>1. {s[i] : i \in 1..Len(s)} \subseteq S /\ e \in S
    OBVIOUS
  <2> HIDE DEF S
  <2> QED BY <2>1, SeqMonotonic DEF IsSeq
<1> HIDE DEF S
<1>2. /\ Append(s, e) \in Seq(S) /\ Len(Append(s, e)) = Len(s) + 1
      /\ \A i \in 1..Len(s) : Append(s, e)[i] = s[i]
      /\ Append(s, e)[Len(s) + 1] = e
  BY <1>1, AppendProperties
<1>3. Append(s, e) = s \o <<e>>
  BY <1>1, AppendIsConcat
<1>4. IsSeq(Append(s, e))
  BY <1>2, SeqIs
<1> QED BY <1>2, <1>3, <1>4

(* The loops: a recursive function over 0..n exists and obeys its equation.  *)
Grown(h, T) == T \cup {p \in Addresses : \E o \in T : p \in ToSet(h[o].kids)}

ReachRun(h, S) ==
    \E after : /\ after[0] = S
               /\ \A k \in 1..MaxObjs : after[k] = Grown(h, after[k - 1])
               /\ Reach(h, S) = after[MaxObjs]

WriteInit == [named |-> 0, ids |-> <<>>, open |-> <<>>, out |-> <<>>]

WriteTrace(h, vs, after) ==
    /\ after[0] = WriteInit
    /\ \A k \in 1..MaxSteps : after[k] = WriteNext(h, vs, after[k - 1])
    /\ WriteAll(h, vs) = after[MaxSteps].out

ReadInit(h, g, gc) == [read |-> 0, named |-> 0, heap |-> h, glob |-> g, ids |-> <<>>,
                       open |-> <<>>, val |-> 0, gc |-> gc]

ReadTrace(snap, h, g, gc, after) ==
    /\ after[0] = ReadInit(h, g, gc)
    /\ \A k \in 1..MaxSteps : after[k] = ReadNext(snap, after[k - 1])
    /\ ReadSession(snap, h, g, gc) = after[MaxSteps]

LEMMA ReachLoop ==
  ASSUME NEW h, NEW T, MaxObjs \in Nat
  PROVE  ReachRun(h, T)
<1> DEFINE Step(x) == Grown(h, x)
           Loop(m, g) == g = [i \in 0..m |-> IF i = 0 THEN T ELSE Step(g[i - 1])]
           S == {m \in Nat : \E g : Loop(m, g)}
<1>1. MaxObjs \in S
  <2> HIDE DEF Step
  <2>1. 0 \in S
    <3>1. Loop(0, [i \in 0..0 |-> T])
      OBVIOUS
    <3> QED BY <3>1
  <2>2. ASSUME NEW m \in Nat, m \in S PROVE m + 1 \in S
    <3>1. PICK g : Loop(m, g)
      BY <2>2
    <3> DEFINE f == [i \in 0..(m + 1) |-> IF i = m + 1 THEN Step(g[m]) ELSE g[i]]
    <3>2. ASSUME NEW i \in 0..(m + 1)
          PROVE  f[i] = IF i = 0 THEN T ELSE Step(f[i - 1])
      <4>1. CASE i = 0
        BY <3>1, <4>1
      <4>2. CASE i = m + 1
        BY <3>1, <4>2
      <4>3. CASE i \in 1..m
        <5>1. f[i] = g[i] /\ f[i - 1] = g[i - 1] /\ i \in 0..m /\ i # 0
          BY <4>3
        <5> QED BY <3>1, <5>1
      <4> QED BY <4>1, <4>2, <4>3
    <3>3. Loop(m + 1, f)
      <4> HIDE DEF f
      <4>1. f = [i \in 0..(m + 1) |-> f[i]]
        BY DEF f
      <4> QED BY <3>2, <4>1
    <3>4. m + 1 \in Nat
      OBVIOUS
    <3> HIDE DEF Loop
    <3> QED BY <3>3, <3>4
  <2> HIDE DEF S
  <2> QED BY <2>1, <2>2, NatSet
<1> DEFINE after[k \in 0..MaxObjs] == IF k = 0 THEN T ELSE Step(after[k - 1])
<1>2. after = [k \in 0..MaxObjs |-> IF k = 0 THEN T ELSE Step(after[k - 1])]
  <2> HIDE DEF Step
  <2> QED BY <1>1 DEF after
<1>3. Reach(h, T) = after[MaxObjs]
  BY DEF Reach, Grown
<1> HIDE DEF after, Step
<1>4. after[0] = T
  BY <1>2
<1>5. \A k \in 1..MaxObjs : after[k] = Step(after[k - 1])
  BY <1>2
<1> QED BY <1>3, <1>4, <1>5 DEF ReachRun, Step

LEMMA WriteLoop ==
  ASSUME NEW h, NEW vs, MaxSteps \in Nat
  PROVE  \E after : WriteTrace(h, vs, after)
<1> DEFINE Step(x) == WriteNext(h, vs, x)
           Loop(m, g) == g = [i \in 0..m |-> IF i = 0 THEN WriteInit ELSE Step(g[i - 1])]
           S == {m \in Nat : \E g : Loop(m, g)}
<1>1. MaxSteps \in S
  <2> HIDE DEF Step
  <2>1. 0 \in S
    <3>1. Loop(0, [i \in 0..0 |-> WriteInit])
      OBVIOUS
    <3> QED BY <3>1
  <2>2. ASSUME NEW m \in Nat, m \in S PROVE m + 1 \in S
    <3>1. PICK g : Loop(m, g)
      BY <2>2
    <3> DEFINE f == [i \in 0..(m + 1) |-> IF i = m + 1 THEN Step(g[m]) ELSE g[i]]
    <3>2. ASSUME NEW i \in 0..(m + 1)
          PROVE  f[i] = IF i = 0 THEN WriteInit ELSE Step(f[i - 1])
      <4>1. CASE i = 0
        BY <3>1, <4>1
      <4>2. CASE i = m + 1
        BY <3>1, <4>2
      <4>3. CASE i \in 1..m
        <5>1. f[i] = g[i] /\ f[i - 1] = g[i - 1] /\ i \in 0..m /\ i # 0
          BY <4>3
        <5> QED BY <3>1, <5>1
      <4> QED BY <4>1, <4>2, <4>3
    <3>3. Loop(m + 1, f)
      <4> HIDE DEF f
      <4>1. f = [i \in 0..(m + 1) |-> f[i]]
        BY DEF f
      <4> QED BY <3>2, <4>1
    <3>4. m + 1 \in Nat
      OBVIOUS
    <3> HIDE DEF Loop
    <3> QED BY <3>3, <3>4
  <2> HIDE DEF S
  <2> QED BY <2>1, <2>2, NatSet
<1> DEFINE after[k \in 0..MaxSteps] == IF k = 0 THEN WriteInit ELSE Step(after[k - 1])
<1>2. after = [k \in 0..MaxSteps |-> IF k = 0 THEN WriteInit ELSE Step(after[k - 1])]
  <2> HIDE DEF Step
  <2> QED BY <1>1 DEF after
<1>3. WriteAll(h, vs) = after[MaxSteps].out
  BY DEF WriteAll, WriteInit
<1> HIDE DEF after, Step
<1>4. after[0] = WriteInit
  BY <1>2
<1>5. \A k \in 1..MaxSteps : after[k] = Step(after[k - 1])
  BY <1>2
<1> QED BY <1>3, <1>4, <1>5 DEF WriteTrace, Step

LEMMA ReadLoop ==
  ASSUME NEW snap, NEW h, NEW g0, NEW gc, MaxSteps \in Nat
  PROVE  \E after : ReadTrace(snap, h, g0, gc, after)
<1> DEFINE Step(x) == ReadNext(snap, x)
           Loop(m, g) == g = [i \in 0..m |-> IF i = 0 THEN ReadInit(h, g0, gc) ELSE Step(g[i - 1])]
           S == {m \in Nat : \E g : Loop(m, g)}
<1>1. MaxSteps \in S
  <2> HIDE DEF Step
  <2>1. 0 \in S
    <3>1. Loop(0, [i \in 0..0 |-> ReadInit(h, g0, gc)])
      OBVIOUS
    <3> QED BY <3>1
  <2>2. ASSUME NEW m \in Nat, m \in S PROVE m + 1 \in S
    <3>1. PICK g : Loop(m, g)
      BY <2>2
    <3> DEFINE f == [i \in 0..(m + 1) |-> IF i = m + 1 THEN Step(g[m]) ELSE g[i]]
    <3>2. ASSUME NEW i \in 0..(m + 1)
          PROVE  f[i] = IF i = 0 THEN ReadInit(h, g0, gc) ELSE Step(f[i - 1])
      <4>1. CASE i = 0
        BY <3>1, <4>1
      <4>2. CASE i = m + 1
        BY <3>1, <4>2
      <4>3. CASE i \in 1..m
        <5>1. f[i] = g[i] /\ f[i - 1] = g[i - 1] /\ i \in 0..m /\ i # 0
          BY <4>3
        <5> QED BY <3>1, <5>1
      <4> QED BY <4>1, <4>2, <4>3
    <3>3. Loop(m + 1, f)
      <4> HIDE DEF f
      <4>1. f = [i \in 0..(m + 1) |-> f[i]]
        BY DEF f
      <4> QED BY <3>2, <4>1
    <3>4. m + 1 \in Nat
      OBVIOUS
    <3> HIDE DEF Loop
    <3> QED BY <3>3, <3>4
  <2> HIDE DEF S
  <2> QED BY <2>1, <2>2, NatSet
<1> DEFINE after[k \in 0..MaxSteps] == IF k = 0 THEN ReadInit(h, g0, gc) ELSE Step(after[k - 1])
<1>2. after = [k \in 0..MaxSteps |-> IF k = 0 THEN ReadInit(h, g0, gc) ELSE Step(after[k - 1])]
  <2> HIDE DEF Step
  <2> QED BY <1>1 DEF after
<1>3. ReadSession(snap, h, g0, gc) = after[MaxSteps]
  BY DEF ReadSession, ReadInit
<1> HIDE DEF after, Step
<1>4. after[0] = ReadInit(h, g0, gc)
  BY <1>2
<1>5. \A k \in 1..MaxSteps : after[k] = Step(after[k - 1])
  BY <1>2
<1> QED BY <1>3, <1>4, <1>5 DEF ReadTrace, Step

-----------------------------------------------------------------------------
(* What the loops keep.                                                      *)

(* The collector and the roots deal with addresses only.                     *)
LEMMA ReachOfAddresses ==
  ASSUME NEW h, NEW T \in SUBSET Addresses, MaxObjs \in Nat
  PROVE  Reach(h, T) \subseteq Addresses
<1>1. PICK after : /\ after[0] = T
                   /\ \A k \in 1..MaxObjs : after[k] = Grown(h, after[k - 1])
                   /\ Reach(h, T) = after[MaxObjs]
  BY ReachLoop DEF ReachRun
<1> DEFINE S == {k \in Nat : k <= MaxObjs => after[k] \subseteq Addresses}
<1>2. 0 \in S
  BY <1>1
<1>3. ASSUME NEW k \in Nat, k \in S PROVE k + 1 \in S
  <2> SUFFICES ASSUME k + 1 <= MaxObjs PROVE after[k + 1] \subseteq Addresses
    OBVIOUS
  <2>1. k + 1 \in 1..MaxObjs /\ (k + 1) - 1 = k /\ k <= MaxObjs
    OBVIOUS
  <2>2. after[k + 1] = Grown(h, after[k])
    BY <1>1, <2>1
  <2> QED BY <1>3, <2>1, <2>2 DEF Grown
<1>4. MaxObjs \in S
  <2> HIDE DEF S
  <2> QED BY <1>2, <1>3, NatSet
<1> QED BY <1>1, <1>4

LEMMA SweptHeap ==
  ASSUME NEW h, NEW g, NEW C, ClosuresIn(h, C)
  PROVE  ClosuresIn(Sweep(h, g), C)
BY DEF ClosuresIn, Sweep, Free, Obj

LEMMA SweptDomain == \A h, g : DOMAIN Sweep(h, g) = Addresses
BY DEF Sweep

(* An object is put somewhere in the heap.                                   *)
LEMMA PlacedObject ==
  ASSUME NEW h, NEW C, NEW o, NEW obj, DOMAIN h = Addresses, ClosuresIn(h, C),
         obj.kind = "fn" => <<obj.idx, obj.code>> \in C
  PROVE  DOMAIN [h EXCEPT ![o] = obj] = Addresses /\ ClosuresIn([h EXCEPT ![o] = obj], C)
BY DEF ClosuresIn

(* Writing.                                                                  *)
LEMMA TokenAppended ==
  ASSUME NEW out, NEW C, NEW t, IsSeq(out), TokensIn(out, C), TokenIn(t, C)
  PROVE  IsSeq(Append(out, t)) /\ TokensIn(Append(out, t), C)
<1>1. /\ IsSeq(Append(out, t)) /\ Len(Append(out, t)) = Len(out) + 1 /\ Len(out) \in Nat
      /\ \A i \in 1..Len(out) : Append(out, t)[i] = out[i]
      /\ Append(out, t)[Len(out) + 1] = t
  BY Appended, IsSeqFacts
<1>2. ASSUME NEW i \in 1..(Len(out) + 1) PROVE TokenIn(Append(out, t)[i], C)
  <2>1. i \in 1..Len(out) \/ i = Len(out) + 1
    BY <1>1
  <2> QED BY <1>1, <2>1 DEF TokensIn
<1> QED BY <1>1, <1>2 DEF TokensIn

LEMMA TokenOfObject ==
  ASSUME NEW o, NEW C, o.kind = "fn" => <<o.idx, o.code>> \in C
  PROVE  TokenIn(Token(o), C)
<1>1. CASE o.kind = "native"
  BY <1>1 DEF TokenIn, Token
<1>2. CASE o.kind = "builtin"
  BY <1>2 DEF TokenIn, Token
<1>3. CASE o.kind = "module"
  BY <1>3 DEF TokenIn, Token
<1>4. CASE o.kind \notin {"native", "builtin", "module"}
  <2>1. Token(o) = [tag |-> 7, kind |-> o.kind, idx |-> o.idx, code |-> o.code, n |-> Len(o.kids)]
    BY <1>4 DEF Token
  <2> QED BY <2>1 DEF TokenIn
<1> QED BY <1>1, <1>2, <1>3, <1>4

(* The state of the writer, by its fields.                                   *)
Writer(n, ids, open, out) == [named |-> n, ids |-> ids, open |-> open, out |-> out]

IsWriter(st) == st = Writer(st.named, st.ids, st.open, st.out)

Again(ids, v) == [tag |-> 6, id |-> CHOOSE i \in DOMAIN ids : ids[i] = v]

LEMMA WriterFields ==
  ASSUME NEW n, NEW ids, NEW open, NEW out
  PROVE  /\ IsWriter(Writer(n, ids, open, out))
         /\ Writer(n, ids, open, out).named = n /\ Writer(n, ids, open, out).ids = ids
         /\ Writer(n, ids, open, out).open = open /\ Writer(n, ids, open, out).out = out
BY DEF Writer, IsWriter

LEMMA WrittenIs ==
  ASSUME NEW n, NEW ids, NEW open, NEW out
  PROVE  Written(Writer(n, ids, open, out)) =
           IF open = <<>> THEN Writer(n + 1, ids, open, out) ELSE Writer(n, ids, Less(open), out)
<1> DEFINE st == Writer(n, ids, open, out)
           less == Less(open)
<1>1. Written(st) = IF open = <<>> THEN [st EXCEPT !.named = n + 1] ELSE [st EXCEPT !.open = less]
  <2>1. CASE open = <<>>
    <3>1. st.open = open /\ st.named = n
      BY DEF Writer
    <3>2. [st EXCEPT !.named = @ + 1] = [st EXCEPT !.named = n + 1]
      BY <3>1
    <3> HIDE DEF st
    <3> QED BY <2>1, <3>1, <3>2 DEF Written
  <2>2. CASE open # <<>>
    <3>1. st.open = open
      BY DEF Writer
    <3>2. [st EXCEPT !.open = Less(@)] = [st EXCEPT !.open = less]
      BY <3>1
    <3> HIDE DEF st, less
    <3> QED BY <2>2, <3>1, <3>2 DEF Written
  <2> QED BY <2>1, <2>2
<1> HIDE DEF less
<1>2. /\ [st EXCEPT !.named = n + 1] = Writer(n + 1, ids, open, out)
      /\ [st EXCEPT !.open = less] = Writer(n, ids, less, out)
  BY DEF Writer
<1> QED BY <1>1, <1>2 DEF less

LEMMA ValueWrittenIs ==
  ASSUME NEW h, NEW v, NEW n, NEW ids, NEW open, NEW out
  PROVE  /\ v \notin Addresses =>
              WriteValue(h, v, Writer(n, ids, open, out))
                = Written(Writer(n, ids, open, Append(out, [tag |-> 0])))
         /\ v \in Addresses /\ v \in ToSet(ids) =>
              WriteValue(h, v, Writer(n, ids, open, out))
                = Written(Writer(n, ids, open, Append(out, Again(ids, v))))
         /\ v \in Addresses /\ v \notin ToSet(ids) /\ Token(h[v]).tag # 7 =>
              WriteValue(h, v, Writer(n, ids, open, out))
                = Written(Writer(n, Append(ids, v), open, Append(out, Token(h[v]))))
         /\ v \in Addresses /\ v \notin ToSet(ids) /\ Token(h[v]).tag = 7 =>
              WriteValue(h, v, Writer(n, ids, open, out))
                = Writer(n, Append(ids, v), Opened(v, Token(h[v]).n, open), Append(out, Token(h[v])))
<1> DEFINE st == Writer(n, ids, open, out)
           t == Token(h[v])
           again == Again(ids, v)
           more == Append(ids, v)
           opened == Opened(v, t.n, open)
           Put(x) == [st EXCEPT !.out = Append(@, x)]
           Met(x) == [Put(x) EXCEPT !.ids = Append(@, v)]
<1>1. /\ st.ids = ids
      /\ opened = Opened(v, t.n, st.open)
      /\ again = [tag |-> 6, id |-> CHOOSE i \in DOMAIN st.ids : st.ids[i] = v]
  BY DEF Writer, Again
<1>2. WriteValue(h, v, st) =
        IF v \notin Addresses THEN Written(Put([tag |-> 0]))
        ELSE IF v \in ToSet(ids) THEN Written(Put(again))
        ELSE IF t.tag = 7 THEN [Met(t) EXCEPT !.open = opened]
        ELSE Written(Met(t))
  <2> HIDE DEF st, opened
  <2> QED BY <1>1 DEF WriteValue
<1>3. \A x : Put(x) = Writer(n, ids, open, Append(out, x))
  BY DEF Writer
<1>4. \A x : Met(x) = Writer(n, more, open, Append(out, x))
  <2> TAKE x
  <2>1. Met(x) = [Writer(n, ids, open, Append(out, x)) EXCEPT !.ids = Append(ids, v)]
    BY <1>3 DEF Writer
  <2> HIDE DEF Met
  <2> QED BY <2>1 DEF Writer
<1> HIDE DEF Put, Met, more
<1>5. [Met(t) EXCEPT !.open = opened] = Writer(n, more, opened, Append(out, t))
  <2> HIDE DEF opened, t
  <2> QED BY <1>4 DEF Writer
<1> HIDE DEF st, t, again, opened
<1> QED BY <1>2, <1>3, <1>4, <1>5 DEF st, t, again, opened, more

LEMMA NextWrittenIs ==
  ASSUME NEW h, NEW vs, NEW n, NEW ids, NEW open, NEW out
  PROVE  /\ open # <<>> /\ Head(open).left = 0 =>
              WriteNext(h, vs, Writer(n, ids, open, out)) = Written(Writer(n, ids, Tail(open), out))
         /\ open # <<>> /\ Head(open).left # 0 =>
              WriteNext(h, vs, Writer(n, ids, open, out))
                = WriteValue(h, NextElement(h, Head(open)), Writer(n, ids, open, out))
         /\ open = <<>> /\ n < Len(vs) =>
              WriteNext(h, vs, Writer(n, ids, open, out))
                = WriteValue(h, vs[n + 1], Writer(n, ids, open, out))
         /\ open = <<>> /\ ~(n < Len(vs)) =>
              WriteNext(h, vs, Writer(n, ids, open, out)) = Writer(n, ids, open, out)
<1> DEFINE st == Writer(n, ids, open, out)
           rest == Tail(open)
<1>1. st.open = open /\ st.named = n
  BY DEF Writer
<1>2. [st EXCEPT !.open = Tail(@)] = Writer(n, ids, rest, out)
  <2>1. [st EXCEPT !.open = Tail(@)] = [st EXCEPT !.open = rest]
    BY <1>1
  <2> HIDE DEF rest
  <2> QED BY <2>1 DEF Writer
<1> HIDE DEF st
<1> QED BY <1>1, <1>2 DEF WriteNext, st, rest

WriterOK(st, C) == IsWriter(st) /\ IsSeq(st.out) /\ TokensIn(st.out, C)

LEMMA ValueWritten ==
  ASSUME NEW h, NEW C, NEW v, NEW st, ClosuresIn(h, C), WriterOK(st, C)
  PROVE  WriterOK(WriteValue(h, v, st), C)
<1>1. PICK n, ids, open, out : st = Writer(n, ids, open, out)
  BY DEF WriterOK, IsWriter
<1>2. IsSeq(out) /\ TokensIn(out, C)
  BY <1>1, WriterFields DEF WriterOK
<1>3. ASSUME NEW t, TokenIn(t, C), NEW i, NEW o PROVE WriterOK(Writer(n, i, o, Append(out, t)), C)
  BY <1>2, <1>3, TokenAppended, WriterFields DEF WriterOK
<1>4. ASSUME NEW t, TokenIn(t, C), NEW i
      PROVE  WriterOK(Written(Writer(n, i, open, Append(out, t))), C)
  <2>1. /\ IsSeq(Append(out, t)) /\ TokensIn(Append(out, t), C)
    BY <1>2, <1>4, TokenAppended
  <2> QED BY <2>1, WrittenIs, WriterFields DEF WriterOK
<1>5. TokenIn([tag |-> 0], C) /\ TokenIn(Again(ids, v), C)
  BY DEF TokenIn, Again
<1>6. v \in Addresses => TokenIn(Token(h[v]), C)
  BY TokenOfObject DEF ClosuresIn
<1>7. CASE v \notin Addresses
  BY <1>1, <1>4, <1>5, <1>7, ValueWrittenIs
<1>8. CASE v \in Addresses /\ v \in ToSet(ids)
  BY <1>1, <1>4, <1>5, <1>8, ValueWrittenIs
<1>9. CASE v \in Addresses /\ v \notin ToSet(ids) /\ Token(h[v]).tag # 7
  BY <1>1, <1>4, <1>6, <1>9, ValueWrittenIs
<1>10. CASE v \in Addresses /\ v \notin ToSet(ids) /\ Token(h[v]).tag = 7
  BY <1>1, <1>3, <1>6, <1>10, ValueWrittenIs
<1> QED BY <1>7, <1>8, <1>9, <1>10

LEMMA NextWritten ==
  ASSUME NEW h, NEW C, NEW vs, NEW st, ClosuresIn(h, C), WriterOK(st, C)
  PROVE  WriterOK(WriteNext(h, vs, st), C)
<1>1. PICK n, ids, open, out : st = Writer(n, ids, open, out)
  BY DEF WriterOK, IsWriter
<1>2. IsSeq(out) /\ TokensIn(out, C)
  BY <1>1, WriterFields DEF WriterOK
<1>3. WriterOK(Written(Writer(n, ids, Tail(open), out)), C)
  BY <1>2, WrittenIs, WriterFields DEF WriterOK
<1> QED BY <1>1, <1>3, NextWrittenIs, ValueWritten

LEMMA AllWritten ==
  ASSUME NEW h, NEW C, NEW vs, ClosuresIn(h, C), MaxSteps \in Nat
  PROVE  Len(WriteAll(h, vs)) \in Nat /\ TokensIn(WriteAll(h, vs), C)
<1>1. PICK after : WriteTrace(h, vs, after)
  BY WriteLoop
<1> DEFINE S == {k \in Nat : k <= MaxSteps => WriterOK(after[k], C)}
<1>2. 0 \in S
  <2>1. after[0] = WriteInit
    BY <1>1 DEF WriteTrace
  <2>2. <<>> \in Seq({}) /\ Len(<<>>) = 0
    OBVIOUS
  <2>3. IsSeq(<<>>)
    BY <2>2, SeqIs
  <2>4. TokensIn(<<>>, C)
    BY <2>2 DEF TokensIn
  <2> QED BY <2>1, <2>3, <2>4 DEF WriterOK, IsWriter, Writer, WriteInit
<1>3. ASSUME NEW k \in Nat, k \in S PROVE k + 1 \in S
  <2> SUFFICES ASSUME k + 1 <= MaxSteps PROVE WriterOK(after[k + 1], C)
    OBVIOUS
  <2>1. k + 1 \in 1..MaxSteps /\ (k + 1) - 1 = k /\ k <= MaxSteps
    OBVIOUS
  <2>2. after[k + 1] = WriteNext(h, vs, after[k])
    BY <1>1, <2>1 DEF WriteTrace
  <2> QED BY <1>3, <2>1, <2>2, NextWritten
<1>4. MaxSteps \in S
  <2> HIDE DEF S
  <2> QED BY <1>2, <1>3, NatSet
<1> QED BY <1>1, <1>4, IsSeqFacts DEF WriterOK, WriteTrace

(* Reading.                                                                  *)
IsReader(st) ==
    st = [read |-> st.read, named |-> st.named, heap |-> st.heap, glob |-> st.glob,
          ids |-> st.ids, open |-> st.open, val |-> st.val, gc |-> st.gc]

ReaderOK(st, C) ==
    /\ IsReader(st) /\ st.read \in Nat
    /\ DOMAIN st.heap = Addresses /\ ClosuresIn(st.heap, C)

LEMMA HeapKept ==
  ASSUME NEW st, NEW new, NEW C, ReaderOK(st, C), IsReader(new), new.heap = st.heap, new.read = st.read
  PROVE  ReaderOK(new, C)
BY DEF ReaderOK

LEMMA ObjectAllocated ==
  ASSUME NEW st, NEW C, NEW obj, ReaderOK(st, C),
         obj.kind = "fn" => <<obj.idx, obj.code>> \in C
  PROVE  ReaderOK(Allocate(st, obj), C)
<1> DEFINE h == IF st.gc = 1 THEN Sweep(st.heap, st.glob) ELSE st.heap
           o == Lowest(FreeIn(h))
           new == [h EXCEPT ![o] = obj]
<1>1. DOMAIN h = Addresses /\ ClosuresIn(h, C)
  BY SweptHeap, SweptDomain DEF ReaderOK
<1>2. DOMAIN new = Addresses /\ ClosuresIn(new, C)
  <2> HIDE DEF h, o
  <2> QED BY <1>1, PlacedObject
<1>3. Allocate(st, obj) = [st EXCEPT !.heap = new, !.gc = IF @ = 0 THEN 0 ELSE @ - 1, !.val = o]
  BY DEF Allocate
<1> HIDE DEF new, o, h
<1>4. /\ IsReader(Allocate(st, obj)) /\ Allocate(st, obj).heap = new
      /\ Allocate(st, obj).read = st.read
  BY <1>3 DEF ReaderOK, IsReader
<1> QED BY <1>2, <1>4 DEF ReaderOK

LEMMA ReaderRemembers ==
  ASSUME NEW st, NEW C, NEW o, ReaderOK(st, C)
  PROVE  ReaderOK(Remember(st, o), C)
<1> DEFINE ids == Append(st.ids, o)
<1>1. Remember(st, o) = [st EXCEPT !.ids = ids, !.val = o]
  BY DEF Remember
<1> HIDE DEF ids
<1>2. /\ IsReader(Remember(st, o))
      /\ Remember(st, o).heap = st.heap /\ Remember(st, o).read = st.read
  BY <1>1 DEF ReaderOK, IsReader
<1> QED BY <1>2, HeapKept

LEMMA BuiltinRead ==
  ASSUME NEW st, NEW C, ReaderOK(st, C)
  PROVE  ReaderOK(Builtin(st), C)
<1> DEFINE B == {o \in Addresses : st.heap[o].kind = "builtin"}
<1>1. CASE B # {}
  BY <1>1 DEF Builtin, ReaderOK, IsReader
<1>2. CASE B = {}
  <2>1. Obj("builtin", 0, NoCode, <<>>).kind # "fn"
    BY DEF Obj
  <2>2. Builtin(st) = Allocate(st, Obj("builtin", 0, NoCode, <<>>))
    BY <1>2 DEF Builtin
  <2> QED BY <2>1, <2>2, ObjectAllocated
<1> QED BY <1>1, <1>2

LEMMA ValueDelivered ==
  ASSUME NEW snap, NEW st, NEW C, ReaderOK(st, C)
  PROVE  ReaderOK(Deliver(snap, st), C)
<1>1. CASE st.open = <<>>
  BY <1>1 DEF Deliver, ReaderOK, IsReader
<1>2. CASE st.open # <<>>
  <2> DEFINE at == Head(st.open).at
             obj == WithKid(st.heap[at], st.val)
             new == [st.heap EXCEPT ![at] = obj]
             open == Less(st.open)
  <2>1. Deliver(snap, st) = [st EXCEPT !.heap = new, !.open = open]
    BY <1>2 DEF Deliver, ReaderOK, IsReader
  <2>2. DOMAIN new = Addresses /\ ClosuresIn(new, C)
    BY DEF ReaderOK, ClosuresIn, WithKid, Obj
  <2> HIDE DEF new, open
  <2> QED BY <2>1, <2>2 DEF ReaderOK, IsReader
<1> QED BY <1>1, <1>2

LEMMA ContainerRead ==
  ASSUME NEW st, NEW C, NEW n, ReaderOK(st, C)
  PROVE  ReaderOK(Container(st, n), C)
<1> DEFINE st1 == Remember(st, st.val)
           open == Opened(st.val, n, st1.open)
           new == [st1 EXCEPT !.open = open]
<1>1. Container(st, n) = new
  BY DEF Container
<1>2. ReaderOK(st1, C)
  BY ReaderRemembers
<1> HIDE DEF st1
<1>3. IsReader(new) /\ new.heap = st1.heap /\ new.read = st1.read
  <2> HIDE DEF open
  <2> QED BY <1>2 DEF ReaderOK, IsReader
<1> HIDE DEF new
<1> QED BY <1>1, <1>2, <1>3, HeapKept

LEMMA ValueRead ==
  ASSUME NEW snap, NEW st, NEW C, ReaderOK(st, C), TokenIn(snap.out[st.read + 1], C)
  PROVE  ReaderOK(ReadValue(snap, st), C)
<1> DEFINE t == snap.out[st.read + 1]
           st1 == [st EXCEPT !.read = @ + 1]
           obj == Obj(t.kind, t.idx, t.code, <<>>)
<1>1. ReaderOK(st1, C)
  BY DEF ReaderOK, IsReader
<1>2. CASE t.tag = 6
  <2> DEFINE st2 == [st1 EXCEPT !.val = st.ids[t.id]]
  <2>1. ReadValue(snap, st) = Deliver(snap, st2)
    BY <1>2 DEF ReadValue
  <2>2. ReaderOK(st2, C)
    <3> HIDE DEF st1
    <3> QED BY <1>1 DEF ReaderOK, IsReader
  <2> HIDE DEF st2
  <2> QED BY <2>1, <2>2, ValueDelivered
<1>3. CASE t.tag \in {8, 10}
  <2>1. ReadValue(snap, st) = Deliver(snap, Skipped(st1))
    BY <1>3 DEF ReadValue
  <2> HIDE DEF st1
  <2> QED BY <1>1, <2>1, ValueDelivered, ReaderRemembers DEF Skipped
<1>4. CASE t.tag = 9
  <2>1. ReadValue(snap, st) = Deliver(snap, Remember(Builtin(st1), Builtin(st1).val))
    BY <1>4 DEF ReadValue
  <2> HIDE DEF st1
  <2> QED BY <1>1, <2>1, ValueDelivered, ReaderRemembers, BuiltinRead
<1>5. CASE t.tag = 7
  <2>1. ReadValue(snap, st) = Container(Allocate(st1, obj), t.n)
    BY <1>5 DEF ReadValue
  <2>2. obj.kind = "fn" => <<obj.idx, obj.code>> \in C
    BY <1>5 DEF TokenIn, Obj
  <2> HIDE DEF st1, obj
  <2> QED BY <1>1, <2>1, <2>2, ObjectAllocated, ContainerRead
<1>6. CASE t.tag \notin {6, 7, 8, 9, 10}
  <2> DEFINE st2 == [st1 EXCEPT !.val = 0]
  <2>1. ReadValue(snap, st) = Deliver(snap, st2)
    BY <1>6 DEF ReadValue
  <2>2. ReaderOK(st2, C)
    <3> HIDE DEF st1
    <3> QED BY <1>1 DEF ReaderOK, IsReader
  <2> HIDE DEF st2
  <2> QED BY <2>1, <2>2, ValueDelivered
<1> QED BY <1>2, <1>3, <1>4, <1>5, <1>6

LEMMA NextRead ==
  ASSUME NEW snap, NEW st, NEW C, ReaderOK(st, C), Len(snap.out) \in Nat, TokensIn(snap.out, C)
  PROVE  ReaderOK(ReadNext(snap, st), C)
<1>1. CASE st.open # <<>> /\ Head(st.open).left = 0
  <2> DEFINE at == Head(st.open).at
             rest == Tail(st.open)
  <2>1. PICK st2 : st2 = [st EXCEPT !.val = at, !.open = rest]
    OBVIOUS
  <2>2. ReadNext(snap, st) = Deliver(snap, st2)
    BY <1>1, <2>1 DEF ReadNext
  <2> HIDE DEF at, rest
  <2>3. ReaderOK(st2, C)
    BY <2>1 DEF ReaderOK, IsReader
  <2> QED BY <2>2, <2>3, ValueDelivered
<1>2. CASE ~(st.open # <<>> /\ Head(st.open).left = 0) /\ st.read < Len(snap.out)
  <2>1. st.read + 1 \in 1..Len(snap.out)
    BY <1>2 DEF ReaderOK
  <2>2. ReadNext(snap, st) = ReadValue(snap, st)
    BY <1>2 DEF ReadNext
  <2> QED BY <2>1, <2>2, ValueRead DEF TokensIn
<1>3. CASE ~(st.open # <<>> /\ Head(st.open).left = 0) /\ ~(st.read < Len(snap.out))
  BY <1>3 DEF ReadNext
<1> QED BY <1>1, <1>2, <1>3

LEMMA SessionRead ==
  ASSUME NEW snap, NEW h, NEW g, NEW gc, NEW C, DOMAIN h = Addresses, ClosuresIn(h, C),
         Len(snap.out) \in Nat, MaxSteps \in Nat, TokensIn(snap.out, C)
  PROVE  /\ DOMAIN ReadSession(snap, h, g, gc).heap = Addresses
         /\ ClosuresIn(ReadSession(snap, h, g, gc).heap, C)
<1>1. PICK after : ReadTrace(snap, h, g, gc, after)
  BY ReadLoop
<1> DEFINE S == {k \in Nat : k <= MaxSteps => ReaderOK(after[k], C)}
<1>3. 0 \in S
  BY <1>1 DEF ReadTrace, ReadInit, ReaderOK, IsReader
<1>4. ASSUME NEW k \in Nat, k \in S PROVE k + 1 \in S
  <2> SUFFICES ASSUME k + 1 <= MaxSteps PROVE ReaderOK(after[k + 1], C)
    OBVIOUS
  <2>1. k + 1 \in 1..MaxSteps /\ (k + 1) - 1 = k /\ k <= MaxSteps
    OBVIOUS
  <2>2. after[k + 1] = ReadNext(snap, after[k])
    BY <1>1, <2>1 DEF ReadTrace
  <2> QED BY <1>4, <2>1, <2>2, NextRead
<1>5. MaxSteps \in S
  <2> HIDE DEF S
  <2> QED BY <1>3, <1>4, NatSet
<1> QED BY <1>1, <1>5 DEF ReaderOK, ReadTrace

-----------------------------------------------------------------------------
(* A save and a load.                                                        *)
LEMMA WorkspaceSizes ==
  /\ NGlobals \in Nat /\ MaxObjs \in Nat /\ MaxFns \in Nat /\ MaxKids \in Nat
  /\ MaxSteps \in Nat
<1>1. NGlobals \in Nat /\ MaxObjs \in Nat /\ MaxFns \in Nat /\ MaxKids \in Nat
  BY WorkspaceAssumption
<1>2. \A m, n \in Nat : m * (n + 2) \in Nat
  OBVIOUS
<1>3. MaxObjs * (MaxKids + 2) \in Nat
  BY <1>1, <1>2
<1> QED BY <1>1, <1>3 DEF MaxSteps


Saved(o) == o.kind \in {"fn", "list"}
Skip(o) == o.kind \in {"native", "module"}

(* The value that is written or read next.                                   *)
IsNext(h, vs, n, open, v) ==
    IF open = <<>> THEN n < Len(vs) /\ v = vs[n + 1]
    ELSE Head(open).left > 0 /\ v = NextElement(h, Head(open))

MetOK(h, ids) ==
    /\ ids \in Seq(Addresses)
    /\ \A p, q \in DOMAIN ids : ids[p] = ids[q] => p = q
    /\ \A p \in DOMAIN ids : NotFree(h, ids[p])

StackOK(h, vs, n, ids, open) ==
    /\ open \in Seq(Containers) /\ n \in 0..Len(vs)
    /\ \A i \in DOMAIN open : /\ \E p \in DOMAIN ids : ids[p] = open[i].at
                              /\ Saved(h[open[i].at]) /\ open[i].left <= Len(h[open[i].at].kids)
    /\ \A i, j \in DOMAIN open : open[i].at = open[j].at => i = j
    /\ \A i \in DOMAIN open :
         IF i = Len(open) THEN n < Len(vs) /\ open[i].at = vs[n + 1]
         ELSE open[i + 1].left > 0 /\ open[i].at = NextElement(h, open[i + 1])

-----------------------------------------------------------------------------
LEMMA OneMore ==
  ASSUME NEW S, NEW s \in Seq(S), NEW t \in Seq(S), Len(s) = 1
  PROVE  /\ s \o t \in Seq(S) /\ Len(s \o t) = 1 + Len(t) /\ (s \o t)[1] = s[1]
         /\ \A i \in 1..Len(t) : (s \o t)[1 + i] = t[i]
<1>1. /\ s \o t \in Seq(S) /\ Len(s \o t) = Len(s) + Len(t)
      /\ \A i \in 1..(Len(s) + Len(t)) : (s \o t)[i] = IF i <= Len(s) THEN s[i] ELSE t[i - Len(s)]
  BY ConcatProperties
<1>2. Len(t) \in Nat
  OBVIOUS
<1>3. ASSUME NEW i \in 1..Len(t) PROVE (s \o t)[1 + i] = t[i]
  <2>1. 1 + i \in 1..(Len(s) + Len(t)) /\ ~(1 + i <= Len(s)) /\ (1 + i) - Len(s) = i
    BY <1>2
  <2> QED BY <1>1, <2>1
<1>4. 1 \in 1..(Len(s) + Len(t)) /\ 1 <= Len(s)
  BY <1>2
<1> QED BY <1>1, <1>3, <1>4

LEMMA LessFacts ==
  ASSUME NEW open \in Seq(Containers), open # <<>>, Head(open).left > 0
  PROVE  /\ Less(open) \in Seq(Containers) /\ Less(open) # <<>> /\ Len(Less(open)) = Len(open)
         /\ DOMAIN Less(open) = DOMAIN open /\ DOMAIN open = 1..Len(open) /\ 1 \in DOMAIN open
         /\ Head(open) = open[1]
         /\ Less(open)[1].at = open[1].at /\ Less(open)[1].left = open[1].left - 1
         /\ \A i \in DOMAIN open : i # 1 => Less(open)[i] = open[i]
<1>1. Head(open) \in Containers /\ Head(open) = open[1] /\ Len(open) \in Nat \ {0}
  OBVIOUS
<1> DEFINE x == [Head(open) EXCEPT !.left = @ - 1]
           s == <<x>>
           t == Tail(open)
           r == s \o t
<1>2. x \in Containers /\ x.at = open[1].at /\ x.left = open[1].left - 1
  BY <1>1 DEF Containers
<1> HIDE DEF x
<1>3. s \in Seq(Containers) /\ Len(s) = 1 /\ s[1] = x
  BY <1>2
<1> HIDE DEF s
<1>4. t \in Seq(Containers) /\ Len(t) = Len(open) - 1 /\ \A i \in 1..Len(t) : t[i] = open[i + 1]
  OBVIOUS
<1> HIDE DEF t
<1>5. r \in Seq(Containers) /\ Len(r) = 1 + Len(t) /\ r[1] = s[1] /\ \A i \in 1..Len(t) : r[1 + i] = t[i]
  BY <1>3, <1>4, OneMore
<1>6. Less(open) = r
  BY Zenon DEF Less, x, s, t
<1> HIDE DEF r
<1>7. ASSUME NEW i \in DOMAIN open, i # 1 PROVE r[i] = open[i]
  <2>1. i \in 1..Len(open) /\ i - 1 \in 1..Len(t) /\ 1 + (i - 1) = i /\ (i - 1) + 1 = i
    BY <1>1, <1>4, <1>7
  <2> QED BY <1>4, <1>5, <2>1
<1>8. Len(r) = Len(open) /\ DOMAIN r = 1..Len(r) /\ DOMAIN open = 1..Len(open) /\ r # <<>>
  BY <1>1, <1>4, <1>5
<1> QED BY <1>1, <1>2, <1>3, <1>5, <1>6, <1>7, <1>8

LEMMA TailFacts ==
  ASSUME NEW open \in Seq(Containers), open # <<>>
  PROVE  /\ Tail(open) \in Seq(Containers) /\ Len(Tail(open)) = Len(open) - 1
         /\ Head(open) = open[1] /\ DOMAIN open = 1..Len(open) /\ 1 \in DOMAIN open
         /\ DOMAIN Tail(open) = 1..(Len(open) - 1)
         /\ \A i \in DOMAIN Tail(open) : Tail(open)[i] = open[i + 1] /\ i + 1 \in DOMAIN open
OBVIOUS

LEMMA OpenedFacts ==
  ASSUME NEW open \in Seq(Containers), NEW v \in Addresses, NEW n \in Nat
  PROVE  /\ Opened(v, n, open) \in Seq(Containers) /\ Len(Opened(v, n, open)) = Len(open) + 1
         /\ Opened(v, n, open) # <<>>
         /\ DOMAIN Opened(v, n, open) = 1..(Len(open) + 1) /\ DOMAIN open = 1..Len(open)
         /\ Opened(v, n, open)[1] = [at |-> v, left |-> n]
         /\ \A i \in DOMAIN open : Opened(v, n, open)[i + 1] = open[i]
<1> DEFINE x == [at |-> v, left |-> n]
           s == <<x>>
           r == s \o open
<1>1. x \in Containers
  BY DEF Containers
<1> HIDE DEF x
<1>2. s \in Seq(Containers) /\ Len(s) = 1 /\ s[1] = x
  BY <1>1
<1> HIDE DEF s
<1>3. r \in Seq(Containers) /\ Len(r) = 1 + Len(open) /\ r[1] = s[1]
      /\ \A i \in 1..Len(open) : r[1 + i] = open[i]
  BY <1>2, OneMore
<1>4. Opened(v, n, open) = r
  BY Zenon DEF Opened, x, s
<1> HIDE DEF r
<1>5. Len(open) \in Nat /\ DOMAIN open = 1..Len(open) /\ DOMAIN r = 1..Len(r) /\ r # <<>>
  BY <1>3
<1> QED BY <1>2, <1>3, <1>4, <1>5 DEF x

-----------------------------------------------------------------------------
(* The stack of the writer.                                                  *)
LEMMA StackLess ==
  ASSUME NEW h, NEW vs, NEW n, NEW ids, NEW open, h \in [Addresses -> Objects],
         StackOK(h, vs, n, ids, open), open # <<>>, Head(open).left > 0
  PROVE  StackOK(h, vs, n, ids, Less(open))
<1>1. open \in Seq(Containers) /\ Len(open) \in Nat
  BY DEF StackOK
<1> DEFINE less == Less(open)
<1>2. /\ less \in Seq(Containers) /\ Len(less) = Len(open)
      /\ DOMAIN less = DOMAIN open /\ DOMAIN open = 1..Len(open) /\ 1 \in DOMAIN open
      /\ less[1].at = open[1].at /\ less[1].left = open[1].left - 1
      /\ \A i \in DOMAIN open : i # 1 => less[i] = open[i]
  BY <1>1, LessFacts
<1> HIDE DEF less
<1>3. ASSUME NEW i \in DOMAIN open PROVE less[i].at = open[i].at /\ less[i].left <= open[i].left /\ less[i].left \in Nat /\ open[i].left \in Nat /\ open[i].at \in Addresses
  <2>1. open[i] \in Containers /\ less[i] \in Containers
    BY <1>1, <1>2, ElementOfSeq
  <2>2. open[i].left \in Nat /\ less[i].left \in Nat /\ open[i].at \in Addresses
    BY <2>1 DEF Containers
  <2>3. CASE i = 1
    BY <1>2, <2>2, <2>3
  <2>4. CASE i # 1
    BY <1>2, <2>2, <2>4
  <2> QED BY <2>2, <2>3, <2>4
<1>5. \A i \in DOMAIN open : /\ \E p \in DOMAIN ids : ids[p] = less[i].at
                             /\ Saved(h[less[i].at]) /\ less[i].left <= Len(h[less[i].at].kids)
  <2> TAKE i \in DOMAIN open
  <2>1. Len(h[open[i].at].kids) \in Nat
    <3>1. h[open[i].at] \in Objects
      BY <1>3
    <3> QED BY <3>1 DEF Objects
  <2>2. /\ \E p \in DOMAIN ids : ids[p] = open[i].at
        /\ Saved(h[open[i].at]) /\ open[i].left <= Len(h[open[i].at].kids)
    BY DEF StackOK
  <2> QED BY <1>3, <2>1, <2>2
<1>6. \A i, j \in DOMAIN open : less[i].at = less[j].at => i = j
  BY <1>3 DEF StackOK
<1>7. ASSUME NEW i \in DOMAIN open
      PROVE IF i = Len(open) THEN n < Len(vs) /\ less[i].at = vs[n + 1]
            ELSE less[i + 1].left > 0 /\ less[i].at = NextElement(h, less[i + 1])
  <2>1. CASE i = Len(open)
    BY <1>3, <2>1 DEF StackOK
  <2>2. CASE i # Len(open)
    <3>1. i + 1 \in DOMAIN open /\ i + 1 # 1
      BY <1>1, <1>2, <2>2
    <3>2. less[i + 1] = open[i + 1]
      BY <1>2, <3>1
    <3> QED BY <1>3, <2>2, <3>2 DEF StackOK
  <2> QED BY <2>1, <2>2
<1> QED BY <1>2, <1>5, <1>6, <1>7 DEF StackOK, less

LEMMA StackTail ==
  ASSUME NEW h, NEW vs, NEW n, NEW ids, NEW open,
         StackOK(h, vs, n, ids, open), open # <<>>
  PROVE  /\ StackOK(h, vs, n, ids, Tail(open))
         /\ IsNext(h, vs, n, Tail(open), Head(open).at)
<1> DEFINE tail == Tail(open)
<1>1. /\ open \in Seq(Containers) /\ Len(open) \in Nat
      /\ tail \in Seq(Containers) /\ Len(tail) = Len(open) - 1
      /\ Head(open) = open[1] /\ DOMAIN open = 1..Len(open) /\ 1 \in DOMAIN open
      /\ DOMAIN tail = 1..(Len(open) - 1)
      /\ \A i \in DOMAIN tail : tail[i] = open[i + 1] /\ i + 1 \in DOMAIN open
  BY TailFacts DEF StackOK
<1>2. tail # <<>> => Head(tail) = open[2] /\ 2 \in DOMAIN open /\ 1 # Len(open)
  <2> SUFFICES ASSUME tail # <<>> PROVE Head(tail) = open[2] /\ 2 \in DOMAIN open /\ 1 # Len(open)
    OBVIOUS
  <2>1. Head(tail) = tail[1] /\ 1 \in DOMAIN tail
    <3> HIDE DEF tail
    <3> QED BY <1>1, TailFacts
  <2> QED BY <1>1, <2>1
<1>3. tail = <<>> => 1 = Len(open)
  <2> SUFFICES ASSUME tail = <<>> PROVE 1 = Len(open)
    OBVIOUS
  <2> HIDE DEF tail
  <2>1. Len(tail) = 0
    OBVIOUS
  <2> QED BY <1>1, <2>1
<1> HIDE DEF tail
<1>4. IsNext(h, vs, n, tail, open[1].at)
  BY <1>1, <1>2, <1>3 DEF StackOK, IsNext
<1>5. \A i \in DOMAIN tail : /\ \E p \in DOMAIN ids : ids[p] = tail[i].at
                             /\ Saved(h[tail[i].at]) /\ tail[i].left <= Len(h[tail[i].at].kids)
  BY <1>1 DEF StackOK
<1>6. ASSUME NEW i \in DOMAIN tail, NEW j \in DOMAIN tail, tail[i].at = tail[j].at PROVE i = j
  <2>1. i + 1 = j + 1 /\ i \in Int /\ j \in Int
    BY <1>1, <1>6 DEF StackOK
  <2> QED BY <2>1
<1>7. ASSUME NEW i \in DOMAIN tail
      PROVE  IF i = Len(tail) THEN n < Len(vs) /\ tail[i].at = vs[n + 1]
             ELSE tail[i + 1].left > 0 /\ tail[i].at = NextElement(h, tail[i + 1])
  <2>1. i + 1 \in DOMAIN open /\ tail[i] = open[i + 1]
    BY <1>1
  <2>2. CASE i = Len(tail)
    <3>1. i + 1 = Len(open)
      BY <1>1, <2>2
    <3> QED BY <2>1, <2>2, <3>1 DEF StackOK
  <2>3. CASE i # Len(tail)
    <3>1. i + 1 # Len(open) /\ i + 1 \in DOMAIN tail
      BY <1>1, <2>3
    <3>2. tail[i + 1] = open[(i + 1) + 1]
      BY <1>1, <3>1
    <3> QED BY <2>1, <2>3, <3>1, <3>2 DEF StackOK
  <2> QED BY <2>2, <2>3
<1> QED BY <1>1, <1>4, <1>5, <1>6, <1>7 DEF StackOK, tail

LEMMA StackNamed ==
  ASSUME NEW h, NEW vs, NEW n, NEW ids, NEW m \in Nat, Len(vs) = m, n < m,
         StackOK(h, vs, n, ids, <<>>)
  PROVE  StackOK(h, vs, n + 1, ids, <<>>)
<1>1. n + 1 \in 0..Len(vs) /\ DOMAIN <<>> = {}
  BY DEF StackOK
<1> QED BY <1>1 DEF StackOK

LEMMA StackMet ==
  ASSUME NEW h, NEW vs, NEW n, NEW ids \in Seq(Addresses), NEW v \in Addresses, NEW open,
         StackOK(h, vs, n, ids, open)
  PROVE  StackOK(h, vs, n, Append(ids, v), open)
<1>1. \A p \in DOMAIN ids : p \in DOMAIN Append(ids, v) /\ Append(ids, v)[p] = ids[p]
  OBVIOUS
<1> QED BY <1>1 DEF StackOK

LEMMA StackOpened ==
  ASSUME NEW h, NEW vs, NEW n, NEW ids, NEW open, NEW v \in Addresses, NEW m \in Nat,
         StackOK(h, vs, n, ids, open), IsNext(h, vs, n, open, v),
         m = Len(h[v].kids), Saved(h[v]), \E p \in DOMAIN ids : ids[p] = v,
         \A i \in DOMAIN open : open[i].at # v
  PROVE  StackOK(h, vs, n, ids, Opened(v, m, open))
<1> DEFINE more == Opened(v, m, open)
<1>1. /\ open \in Seq(Containers) /\ Len(open) \in Nat
      /\ more \in Seq(Containers) /\ Len(more) = Len(open) + 1
      /\ DOMAIN more = 1..(Len(open) + 1) /\ DOMAIN open = 1..Len(open)
      /\ more[1] = [at |-> v, left |-> m]
      /\ \A i \in DOMAIN open : more[i + 1] = open[i]
  BY OpenedFacts DEF StackOK
<1> HIDE DEF more
<1>2. more[1].at = v /\ more[1].left = m
  BY <1>1
<1>3. \A i \in DOMAIN more : i = 1 \/ (i - 1 \in DOMAIN open /\ more[i] = open[i - 1])
  <2> TAKE i \in DOMAIN more
  <2>1. CASE i # 1
    <3>1. i - 1 \in DOMAIN open /\ (i - 1) + 1 = i
      BY <1>1, <2>1
    <3> QED BY <1>1, <3>1
  <2> QED BY <2>1
<1>4. \A i \in DOMAIN more : /\ \E p \in DOMAIN ids : ids[p] = more[i].at
                             /\ Saved(h[more[i].at]) /\ more[i].left <= Len(h[more[i].at].kids)
  BY <1>2, <1>3 DEF StackOK
<1>5. ASSUME NEW i \in DOMAIN more, NEW j \in DOMAIN more, more[i].at = more[j].at PROVE i = j
  <2>1. CASE i = 1 \/ j = 1
    BY <1>2, <1>3, <1>5, <2>1
  <2>2. CASE i # 1 /\ j # 1
    <3>1. i - 1 = j - 1 /\ i \in Int /\ j \in Int
      BY <1>1, <1>3, <1>5, <2>2 DEF StackOK
    <3> QED BY <3>1
  <2> QED BY <2>1, <2>2
<1>6. ASSUME NEW i \in DOMAIN more
      PROVE  IF i = Len(more) THEN n < Len(vs) /\ more[i].at = vs[n + 1]
             ELSE more[i + 1].left > 0 /\ more[i].at = NextElement(h, more[i + 1])
  <2>1. CASE i = 1
    <3>1. CASE open = <<>>
      <4>1. Len(open) = 0
        BY <3>1
      <4> QED BY <1>1, <1>2, <2>1, <3>1, <4>1 DEF IsNext
    <3>2. CASE open # <<>>
      <4>1. Head(open) = open[1] /\ 1 \in DOMAIN open /\ 1 + 1 = 2
        BY <1>1, <3>2
      <4>2. more[1 + 1] = open[1] /\ i # Len(more)
        BY <1>1, <2>1, <4>1
      <4> QED BY <1>2, <2>1, <3>2, <4>1, <4>2 DEF IsNext
    <3> QED BY <3>1, <3>2
  <2>2. CASE i # 1
    <3>1. i - 1 \in DOMAIN open /\ more[i] = open[i - 1] /\ (i - 1) + 1 = i
      BY <1>1, <1>3, <2>2
    <3>2. CASE i = Len(more)
      <4>1. i - 1 = Len(open)
        BY <1>1, <3>2
      <4> QED BY <3>1, <3>2, <4>1 DEF StackOK
    <3>3. CASE i # Len(more)
      <4>1. i - 1 # Len(open) /\ i \in DOMAIN open
        BY <1>1, <3>1, <3>3
      <4>2. more[i + 1] = open[(i - 1) + 1]
        BY <1>1, <3>1, <4>1
      <4> QED BY <3>1, <3>3, <4>1, <4>2 DEF StackOK
    <3> QED BY <3>2, <3>3
  <2> QED BY <2>1, <2>2
<1> QED BY <1>1, <1>4, <1>5, <1>6 DEF StackOK, more

(* v is none, or an object that was met and is now a.                        *)
Same(ids, rids, v, a) ==
    IF v \in Addresses THEN \E p \in DOMAIN ids : ids[p] = v /\ rids[p] = a ELSE a = 0

Filled(ids, rids, o, c) ==
    /\ c.idx = o.idx /\ c.code = o.code /\ Len(c.kids) <= Len(o.kids)
    /\ \A j \in DOMAIN c.kids : Same(ids, rids, o.kids[j], c.kids[j])

CopyOf(ids, rids, o, a, hp) ==
    IF Skip(o) THEN a = 0
    ELSE a # 0 /\ hp[a].kind = o.kind /\ (Saved(o) => Filled(ids, rids, o, hp[a]))

Copied(h, ids, rids, hp) ==
    /\ rids \in Seq(Vals) /\ Len(rids) = Len(ids)
    /\ \A p, q \in DOMAIN ids : rids[p] = rids[q] /\ rids[p] # 0 => p = q
    /\ \A p \in DOMAIN ids : CopyOf(ids, rids, h[ids[p]], rids[p], hp)

BothOpen(h, ids, rids, hp, x, y) ==
    /\ Same(ids, rids, x.at, y.at) /\ y.left = x.left
    /\ Len(hp[y.at].kids) + x.left = Len(h[x.at].kids)

IsOpen(open, v) == \E i \in DOMAIN open : open[i].at = v

Stacks(h, ids, rids, hp, open, ropen) ==
    /\ ropen \in Seq(Containers) /\ Len(ropen) = Len(open)
    /\ \A i \in DOMAIN open : BothOpen(h, ids, rids, hp, open[i], ropen[i])
    /\ \A p \in DOMAIN ids :
         Saved(h[ids[p]]) => IsOpen(open, ids[p]) \/ Len(hp[rids[p]].kids) = Len(h[ids[p]].kids)

LEMMA ObjectsOf ==
  ASSUME NEW h \in [Addresses -> Objects], NEW o \in Addresses
  PROVE  /\ h[o].kind \in Kinds /\ h[o].idx \in Int /\ h[o].code \in Int
         /\ h[o].kids \in Seq(Vals) /\ Len(h[o].kids) \in Nat
         /\ DOMAIN h[o].kids = 1..Len(h[o].kids)
         /\ \A i \in DOMAIN h[o].kids : h[o].kids[i] \in Vals
<1>1. h[o] \in Objects
  OBVIOUS
<1>2. h[o].kids \in Seq(Vals) /\ h[o].kind \in Kinds /\ h[o].idx \in Int /\ h[o].code \in Int
  BY <1>1 DEF Objects
<1> QED BY <1>2

LEMMA KidAdded ==
  ASSUME NEW h \in [Addresses -> Objects], NEW o \in Addresses, NEW a \in Vals
  PROVE  /\ WithKid(h[o], a) \in Objects
         /\ WithKid(h[o], a).kind = h[o].kind /\ WithKid(h[o], a).idx = h[o].idx
         /\ WithKid(h[o], a).code = h[o].code
         /\ WithKid(h[o], a).kids = Append(h[o].kids, a)
         /\ Len(WithKid(h[o], a).kids) = Len(h[o].kids) + 1
         /\ DOMAIN WithKid(h[o], a).kids = 1..(Len(h[o].kids) + 1)
         /\ \A j \in DOMAIN h[o].kids : WithKid(h[o], a).kids[j] = h[o].kids[j]
         /\ WithKid(h[o], a).kids[Len(h[o].kids) + 1] = a
<1> DEFINE kids == Append(h[o].kids, a)
<1>1. /\ h[o].kind \in Kinds /\ h[o].idx \in Int /\ h[o].code \in Int
      /\ h[o].kids \in Seq(Vals) /\ Len(h[o].kids) \in Nat
  BY ObjectsOf
<1>2. /\ kids \in Seq(Vals) /\ Len(kids) = Len(h[o].kids) + 1
      /\ DOMAIN kids = 1..(Len(h[o].kids) + 1)
      /\ \A j \in DOMAIN h[o].kids : kids[j] = h[o].kids[j]
      /\ kids[Len(h[o].kids) + 1] = a
  BY <1>1
<1> HIDE DEF kids
<1>3. WithKid(h[o], a) = [kind |-> h[o].kind, idx |-> h[o].idx, code |-> h[o].code, kids |-> kids]
  BY DEF WithKid, Obj, kids
<1>4. /\ WithKid(h[o], a) \in Objects
      /\ WithKid(h[o], a).kind = h[o].kind /\ WithKid(h[o], a).idx = h[o].idx
      /\ WithKid(h[o], a).code = h[o].code /\ WithKid(h[o], a).kids = kids
  BY <1>1, <1>2, <1>3 DEF Objects
<1> QED BY <1>2, <1>4 DEF kids

(* An element is put into the innermost container.                           *)
WithElement(hp, o, a) == [hp EXCEPT ![o] = WithKid(hp[o], a)]

LEMMA HeapWithKid ==
  ASSUME NEW hp, NEW g, HeapOK(hp, g), NEW o \in Addresses, NEW a \in Vals, NotFree(hp, a),
         hp[o].kind # "free", Len(hp[o].kids) <= MaxKids,
         NEW hp2, hp2 = WithElement(hp, o, a)
  PROVE  /\ HeapOK(hp2, g) /\ FreeIn(hp2) = FreeIn(hp)
         /\ \A p \in Addresses : hp2[p].kind = hp[p].kind
<1>1. hp \in [Addresses -> Objects]
  BY DEF HeapOK
<1>2. WithKid(hp[o], a) \in Objects /\ WithKid(hp[o], a).kind = hp[o].kind
  BY <1>1, KidAdded
<1>3. /\ hp2 \in [Addresses -> Objects] /\ hp2[o] = WithKid(hp[o], a)
      /\ \A p \in Addresses : p # o => hp2[p] = hp[p]
  BY <1>1, <1>2 DEF WithElement
<1>4. \A p \in Addresses : hp2[p].kind = hp[p].kind
  BY <1>2, <1>3
<1>5. \A v : NotFree(hp, v) => NotFree(hp2, v)
  BY <1>4 DEF NotFree
<1>6. ASSUME NEW p \in Addresses
      PROVE  Len(hp2[p].kids) <= MaxKids + 1 /\ \A i \in DOMAIN hp2[p].kids : NotFree(hp2, hp2[p].kids[i])
  <2>1. CASE p # o
    BY <1>3, <1>5, <2>1 DEF HeapOK
  <2>2. CASE p = o
    <3>1. /\ Len(hp2[o].kids) = Len(hp[o].kids) + 1
          /\ DOMAIN hp2[o].kids = 1..(Len(hp[o].kids) + 1)
          /\ \A j \in DOMAIN hp[o].kids : hp2[o].kids[j] = hp[o].kids[j]
          /\ hp2[o].kids[Len(hp[o].kids) + 1] = a
      BY <1>1, <1>3, KidAdded
    <3>2. DOMAIN hp[o].kids = 1..Len(hp[o].kids) /\ Len(hp[o].kids) \in Nat /\ MaxKids \in Nat
      BY <1>1, ObjectsOf, WorkspaceSizes
    <3>3. ASSUME NEW i \in DOMAIN hp2[o].kids PROVE NotFree(hp2, hp2[o].kids[i])
      <4>1. i \in DOMAIN hp[o].kids \/ i = Len(hp[o].kids) + 1
        BY <3>1, <3>2
      <4>2. CASE i \in DOMAIN hp[o].kids
        <5>1. NotFree(hp, hp[o].kids[i]) /\ hp2[o].kids[i] = hp[o].kids[i]
          BY <3>1, <4>2 DEF HeapOK
        <5> QED BY <1>5, <5>1
      <4>3. CASE i = Len(hp[o].kids) + 1
        BY <1>5, <3>1, <4>3
      <4> QED BY <4>1, <4>2, <4>3
    <3>4. Len(hp2[o].kids) <= MaxKids + 1
      BY <3>1, <3>2
    <3> QED BY <2>2, <3>3, <3>4
  <2> QED BY <2>1, <2>2
<1>7. \A n \in Slots : NotFree(hp2, g[n])
  BY <1>5 DEF HeapOK
<1>8. FreeIn(hp2) = FreeIn(hp)
  BY <1>4 DEF FreeIn
<1>9. \A p, q \in Addresses : hp2[p].kind = "builtin" /\ hp2[q].kind = "builtin" => p = q
  BY <1>4 DEF HeapOK
<1>10. g \in [Slots -> Vals \cup {None}]
  BY DEF HeapOK
<1>11. HeapOK(hp2, g)
  BY <1>3, <1>6, <1>7, <1>9, <1>10 DEF HeapOK
<1> QED BY <1>4, <1>8, <1>11

LEMMA ElementDelivered ==
  ASSUME NEW h, NEW vs, NEW n, NEW ids, NEW open, NEW rids, NEW ropen, NEW hp, NEW g, NEW v, NEW a,
         h \in [Addresses -> Objects], \A o \in Addresses : Len(h[o].kids) <= MaxKids + 1,
         MetOK(h, ids), StackOK(h, vs, n, ids, open), Copied(h, ids, rids, hp),
         Stacks(h, ids, rids, hp, open, ropen), HeapOK(hp, g),
         open # <<>>, IsNext(h, vs, n, open, v), a \in Vals, Same(ids, rids, v, a), NotFree(hp, a),
         NEW hp2, hp2 = WithElement(hp, Head(ropen).at, a)
  PROVE  /\ Copied(h, ids, rids, hp2) /\ Stacks(h, ids, rids, hp2, Less(open), Less(ropen))
         /\ HeapOK(hp2, g) /\ FreeIn(hp2) = FreeIn(hp)
<1> DEFINE at == ropen[1].at
           src == open[1].at
           len == Len(hp[at].kids)
<1>1. /\ open \in Seq(Containers) /\ Head(open) = open[1] /\ 1 \in DOMAIN open
      /\ DOMAIN open = 1..Len(open) /\ open[1].left > 0
      /\ Less(open) \in Seq(Containers) /\ Len(Less(open)) = Len(open)
      /\ DOMAIN Less(open) = DOMAIN open /\ Less(open)[1].at = open[1].at
      /\ Less(open)[1].left = open[1].left - 1
      /\ \A i \in DOMAIN open : i # 1 => Less(open)[i] = open[i]
      /\ v = NextElement(h, open[1])
  BY LessFacts DEF StackOK, IsNext
<1>2. /\ ropen \in Seq(Containers) /\ Len(ropen) = Len(open) /\ ropen # <<>>
      /\ Len(open) \in Nat /\ DOMAIN ropen = DOMAIN open /\ Head(ropen) = ropen[1]
  <2>1. ropen \in Seq(Containers) /\ Len(ropen) = Len(open) /\ Len(open) \in Nat \ {0}
    BY <1>1 DEF Stacks
  <2> QED BY <1>1, <2>1
<1>3. BothOpen(h, ids, rids, hp, open[1], ropen[1])
  BY <1>1 DEF Stacks
<1>4. open[1] \in Containers /\ ropen[1] \in Containers
  BY <1>1, <1>2, ElementOfSeq
<1>5. /\ src \in Addresses /\ at \in Addresses /\ open[1].left \in Nat
      /\ ropen[1].left = open[1].left
  BY <1>3, <1>4 DEF Containers, BothOpen
<1>6. /\ Less(ropen) \in Seq(Containers) /\ Len(Less(ropen)) = Len(ropen)
      /\ Less(ropen)[1].at = ropen[1].at /\ Less(ropen)[1].left = ropen[1].left - 1
      /\ \A i \in DOMAIN open : i # 1 => Less(ropen)[i] = ropen[i]
  BY <1>1, <1>2, <1>5, LessFacts
<1>0. open[1].at = src /\ ropen[1].at = at /\ Len(hp[at].kids) = len
  OBVIOUS
<1> HIDE DEF at, src, len
<1>7. PICK p0 \in DOMAIN ids : ids[p0] = src /\ rids[p0] = at
  BY <1>0, <1>3, <1>5 DEF BothOpen, Same
<1>8. Saved(h[src]) /\ ~Skip(h[src])
  BY <1>0, <1>1 DEF StackOK, Saved, Skip
<1>9. /\ hp[at].kind = h[src].kind /\ Filled(ids, rids, h[src], hp[at])
      /\ len + open[1].left = Len(h[src].kids)
  <2>1. CopyOf(ids, rids, h[src], at, hp)
    BY <1>7 DEF Copied
  <2> QED BY <1>0, <1>3, <1>8, <2>1 DEF CopyOf, BothOpen
<1>10. hp[at].kind # "free"
  BY <1>8, <1>9 DEF Saved
<1>11. hp \in [Addresses -> Objects] /\ hp2 = WithElement(hp, at, a)
  BY <1>0, <1>2 DEF HeapOK
<1>12. len \in Nat /\ Len(h[src].kids) \in Nat /\ MaxKids \in Nat
  BY <1>0, <1>5, <1>11, ObjectsOf, WorkspaceSizes
<1>13. len <= MaxKids
  <2>1. Len(h[src].kids) <= MaxKids + 1
    BY <1>5
  <2> QED BY <1>1, <1>5, <1>9, <1>12, <2>1
<1>14. HeapOK(hp2, g) /\ FreeIn(hp2) = FreeIn(hp) /\ \A p \in Addresses : hp2[p].kind = hp[p].kind
  <2>1. Len(hp[at].kids) <= MaxKids
    BY <1>0, <1>13
  <2>2. HeapOK(hp, g) /\ a \in Vals /\ NotFree(hp, a)
    OBVIOUS
  <2>3. at \in Addresses /\ hp2 = WithElement(hp, at, a)
    BY <1>5, <1>11
  <2> QED BY ONLY <1>10, <2>1, <2>2, <2>3, HeapWithKid
<1>15. /\ \A p : p # at => hp2[p] = hp[p]
       /\ hp2[at] = WithKid(hp[at], a)
  BY <1>5, <1>11 DEF WithElement
<1>16. /\ hp2[at].idx = hp[at].idx /\ hp2[at].code = hp[at].code
       /\ hp2[at].kind = hp[at].kind
       /\ Len(hp2[at].kids) = len + 1 /\ DOMAIN hp2[at].kids = 1..(len + 1)
       /\ DOMAIN hp[at].kids = 1..len
       /\ \A j \in 1..len : hp2[at].kids[j] = hp[at].kids[j]
       /\ hp2[at].kids[len + 1] = a
  BY SMTT(30), <1>0, <1>5, <1>11, <1>15, KidAdded, ObjectsOf
<1>17. v = h[src].kids[len + 1]
  <2>1. Len(h[src].kids) + 1 - open[1].left = len + 1
    BY <1>5, <1>9, <1>12
  <2> QED BY <1>0, <1>1, <2>1 DEF NextElement
<1>18. Filled(ids, rids, h[src], hp2[at])
  <2>1. len + 1 <= Len(h[src].kids)
    BY <1>1, <1>5, <1>9, <1>12
  <2>2. ASSUME NEW j \in DOMAIN hp2[at].kids PROVE Same(ids, rids, h[src].kids[j], hp2[at].kids[j])
    <3>1. j \in 1..len \/ j = len + 1
      BY <1>12, <1>16
    <3> QED BY <1>9, <1>16, <1>17, <3>1 DEF Filled
  <2> QED BY <1>9, <1>16, <2>1, <2>2 DEF Filled
<1>19. \A p \in DOMAIN ids : rids[p] = at => p = p0
  BY <1>5, <1>7 DEF Copied, Addresses
<1>20. Copied(h, ids, rids, hp2)
  <2>1. ASSUME NEW p \in DOMAIN ids PROVE CopyOf(ids, rids, h[ids[p]], rids[p], hp2)
    <3>1. CopyOf(ids, rids, h[ids[p]], rids[p], hp)
      BY DEF Copied
    <3>2. CASE p = p0
      BY <1>5, <1>7, <1>8, <1>9, <1>16, <1>18, <3>1, <3>2 DEF CopyOf
    <3>3. CASE p # p0
      <4>1. hp2[rids[p]] = hp[rids[p]]
        BY <1>15, <1>19, <3>3
      <4> QED BY <3>1, <4>1 DEF CopyOf
    <3> QED BY <3>2, <3>3
  <2> QED BY <2>1 DEF Copied
<1>21. Stacks(h, ids, rids, hp2, Less(open), Less(ropen))
  <2>1. ASSUME NEW i \in DOMAIN open PROVE BothOpen(h, ids, rids, hp2, Less(open)[i], Less(ropen)[i])
    <3>1. BothOpen(h, ids, rids, hp, open[i], ropen[i])
      BY DEF Stacks
    <3>2. CASE i = 1
      <4>1. Len(hp2[at].kids) + (open[1].left - 1) = Len(h[src].kids)
        <5>1. Len(hp2[at].kids) = len + 1 /\ len \in Nat /\ open[1].left \in Nat
          BY <1>5, <1>12, <1>16
        <5>2. len + open[1].left = Len(h[src].kids)
          BY <1>9
        <5> QED BY ONLY <5>1, <5>2
      <4>2. /\ Less(open)[1].at = src /\ Less(open)[1].left = open[1].left - 1
            /\ Less(ropen)[1].at = at /\ Less(ropen)[1].left = open[1].left - 1
        BY <1>0, <1>1, <1>5, <1>6
      <4>3. Same(ids, rids, src, at)
        BY <1>0, <1>3 DEF BothOpen
      <4> QED BY <3>2, <4>1, <4>2, <4>3 DEF BothOpen
    <3>3. CASE i # 1
      <4>1. Less(open)[i] = open[i] /\ Less(ropen)[i] = ropen[i]
        BY <1>1, <1>6, <3>3
      <4>2. ropen[i].at # at
        <5>1. open[i].at # src
          BY <1>0, <1>1, <3>3 DEF StackOK
        <5>2. open[i].at \in Addresses
          <6>1. open[i] \in Containers
            BY <1>1, ElementOfSeq
          <6> QED BY <6>1 DEF Containers
        <5>3. PICK p \in DOMAIN ids : ids[p] = open[i].at /\ rids[p] = ropen[i].at
          BY <3>1, <5>2 DEF BothOpen, Same
        <5> QED BY <1>7, <1>19, <5>1, <5>3
      <4>3. hp2[ropen[i].at] = hp[ropen[i].at]
        BY <1>15, <4>2
      <4> QED BY <3>1, <4>1, <4>3 DEF BothOpen
    <3> QED BY <3>2, <3>3
  <2>2. ASSUME NEW p \in DOMAIN ids, Saved(h[ids[p]])
        PROVE  IsOpen(Less(open), ids[p]) \/ Len(hp2[rids[p]].kids) = Len(h[ids[p]].kids)
    <3>1. CASE IsOpen(open, ids[p])
      <4>1. PICK i \in DOMAIN open : open[i].at = ids[p]
        BY <3>1 DEF IsOpen
      <4>2. i \in DOMAIN Less(open) /\ Less(open)[i].at = ids[p]
        BY <1>1, <4>1
      <4> QED BY <4>2 DEF IsOpen
    <3>2. CASE ~IsOpen(open, ids[p])
      <4>1. p # p0
        BY <1>0, <1>1, <1>7, <3>2 DEF IsOpen
      <4>2. hp2[rids[p]] = hp[rids[p]]
        BY <1>15, <1>19, <4>1
      <4> QED BY <2>2, <3>2, <4>2 DEF Stacks
    <3> QED BY <3>1, <3>2
  <2> QED BY <1>1, <1>2, <1>6, <2>1, <2>2 DEF Stacks
<1> QED BY <1>14, <1>20, <1>21

LEMMA LowestIn ==
  ASSUME NEW S \in SUBSET Addresses, S # {}
  PROVE  Lowest(S) \in S
<1>1. S \subseteq Nat
  BY WorkspaceSizes DEF Addresses
<1>2. \E o \in S : \A p \in S : o <= p
  <2> SUFFICES ASSUME ~\E o \in S : \A p \in S : o <= p PROVE FALSE
    OBVIOUS
  <2> DEFINE T == {n \in Nat : \A m \in S : n < m}
  <2>1. 0 \in T
    <3>1. ASSUME NEW m \in S PROVE 0 < m
      BY WorkspaceSizes DEF Addresses
    <3> QED BY <3>1
  <2>2. ASSUME NEW n \in Nat, n \in T PROVE n + 1 \in T
    <3> SUFFICES ASSUME NEW m \in S PROVE n + 1 < m
      OBVIOUS
    <3>1. n + 1 \notin S
      <4> SUFFICES ASSUME n + 1 \in S PROVE FALSE
        OBVIOUS
      <4>1. \A p \in S : n + 1 <= p
        BY <1>1, <2>2
      <4> QED BY <4>1
    <3> QED BY <1>1, <2>2, <3>1
  <2>3. Nat \subseteq T
    <3> HIDE DEF T
    <3> QED BY <2>1, <2>2, NatSet
  <2>4. PICK o : o \in S
    OBVIOUS
  <2>5. o \in Nat /\ o < o
    BY <1>1, <2>3, <2>4
  <2> QED BY <2>5
<1> QED BY <1>2 DEF Lowest

LEMMA FreeCounted ==
  ASSUME NEW hp
  PROVE  IsFiniteSet(FreeIn(hp)) /\ Cardinality(FreeIn(hp)) \in Nat /\ FreeIn(hp) \subseteq Addresses
<1>1. IsFiniteSet(Addresses) /\ FreeIn(hp) \subseteq Addresses
  BY FS_Interval, WorkspaceSizes DEF Addresses, FreeIn
<1> QED BY <1>1, FS_Subset, FS_CardinalityType

(* An object is put at a free address.                                       *)
WithObject(hp, o, obj) == [hp EXCEPT ![o] = obj]

LEMMA HeapWithObject ==
  ASSUME NEW hp, NEW g, HeapOK(hp, g), NEW o \in FreeIn(hp), NEW obj \in Objects,
         obj.kind # "free", Len(obj.kids) <= MaxKids + 1,
         \A i \in DOMAIN obj.kids : NotFree(hp, obj.kids[i]),
         obj.kind = "builtin" => \A p \in Addresses : hp[p].kind # "builtin",
         NEW hp2, hp2 = WithObject(hp, o, obj)
  PROVE  /\ HeapOK(hp2, g) /\ hp2[o] = obj /\ \A p : p # o => hp2[p] = hp[p]
         /\ FreeIn(hp2) = FreeIn(hp) \ {o}
         /\ Cardinality(FreeIn(hp2)) = Cardinality(FreeIn(hp)) - 1
         /\ \A v : NotFree(hp, v) => NotFree(hp2, v)
<1>1. hp \in [Addresses -> Objects] /\ o \in Addresses /\ g \in [Slots -> Vals \cup {None}]
  BY DEF HeapOK, FreeIn
<1>2. hp2 \in [Addresses -> Objects] /\ hp2[o] = obj /\ \A p : p # o => hp2[p] = hp[p]
  BY <1>1 DEF WithObject
<1>3. \A v : NotFree(hp, v) => NotFree(hp2, v)
  BY <1>2 DEF NotFree
<1>4. ASSUME NEW p \in Addresses
      PROVE  Len(hp2[p].kids) <= MaxKids + 1 /\ \A i \in DOMAIN hp2[p].kids : NotFree(hp2, hp2[p].kids[i])
  <2>1. CASE p = o
    BY <1>2, <1>3, <2>1
  <2>2. CASE p # o
    BY <1>2, <1>3, <2>2 DEF HeapOK
  <2> QED BY <2>1, <2>2
<1>5. \A n \in Slots : NotFree(hp2, g[n])
  BY <1>3 DEF HeapOK
<1>6. \A p, q \in Addresses : hp2[p].kind = "builtin" /\ hp2[q].kind = "builtin" => p = q
  <2> TAKE p, q \in Addresses
  <2>1. CASE obj.kind = "builtin"
    BY <1>2, <2>1
  <2>2. CASE obj.kind # "builtin"
    BY <1>2, <2>2 DEF HeapOK
  <2> QED BY <2>1, <2>2
<1>7. HeapOK(hp2, g)
  BY <1>1, <1>2, <1>4, <1>5, <1>6 DEF HeapOK
<1>8. FreeIn(hp2) = FreeIn(hp) \ {o}
  BY <1>1, <1>2 DEF FreeIn
<1>9. Cardinality(FreeIn(hp) \ {o}) = Cardinality(FreeIn(hp)) - 1
  BY FreeCounted, FS_RemoveElement
<1> QED BY <1>2, <1>3, <1>7, <1>8, <1>9

-----------------------------------------------------------------------------
(* One more object is met.                                                   *)
LEMMA SameKept ==
  ASSUME NEW ids \in Seq(Addresses), NEW rids \in Seq(Vals), Len(rids) = Len(ids),
         NEW x \in Addresses, NEW b \in Vals
  PROVE  /\ \A v, a : Same(ids, rids, v, a) => Same(Append(ids, x), Append(rids, b), v, a)
         /\ Same(Append(ids, x), Append(rids, b), x, b)
<1>1. /\ DOMAIN ids = 1..Len(ids) /\ DOMAIN Append(ids, x) = 1..(Len(ids) + 1) /\ Len(ids) \in Nat
      /\ \A p \in DOMAIN ids : /\ p \in DOMAIN Append(ids, x) /\ Append(ids, x)[p] = ids[p]
                               /\ Append(rids, b)[p] = rids[p]
      /\ Len(ids) + 1 \in DOMAIN Append(ids, x)
      /\ Append(ids, x)[Len(ids) + 1] = x /\ Append(rids, b)[Len(ids) + 1] = b
  OBVIOUS
<1> QED BY <1>1 DEF Same

LEMMA CopiedMet ==
  ASSUME NEW h, NEW ids, NEW rids, NEW hp, MetOK(h, ids), Copied(h, ids, rids, hp),
         NEW x \in Addresses, \A p \in DOMAIN ids : ids[p] # x, NotFree(h, x),
         NEW b \in Vals, b # 0 => \A p \in DOMAIN ids : rids[p] # b,
         NEW hp2, \A p \in DOMAIN ids : rids[p] # 0 => hp2[rids[p]] = hp[rids[p]],
         CopyOf(Append(ids, x), Append(rids, b), h[x], b, hp2)
  PROVE  /\ MetOK(h, Append(ids, x))
         /\ Copied(h, Append(ids, x), Append(rids, b), hp2)
<1> DEFINE ids2 == Append(ids, x)
           rids2 == Append(rids, b)
           last == Len(ids) + 1
<1>1. ids \in Seq(Addresses) /\ rids \in Seq(Vals) /\ Len(rids) = Len(ids)
  BY DEF MetOK, Copied
<1>2. /\ ids2 \in Seq(Addresses) /\ rids2 \in Seq(Vals) /\ Len(rids2) = Len(ids2)
      /\ DOMAIN ids = 1..Len(ids) /\ DOMAIN ids2 = 1..last /\ Len(ids) \in Nat
      /\ \A p \in DOMAIN ids : ids2[p] = ids[p] /\ rids2[p] = rids[p]
      /\ ids2[last] = x /\ rids2[last] = b
  BY <1>1
<1>3. \A v, a : Same(ids, rids, v, a) => Same(ids2, rids2, v, a)
  BY <1>1, SameKept
<1>4. CopyOf(ids2, rids2, h[x], b, hp2)
  OBVIOUS
<1> HIDE DEF ids2, rids2
<1>5. \A p \in DOMAIN ids2 : p \in DOMAIN ids \/ p = last
  BY <1>2
<1> HIDE DEF last
<1>6. ASSUME NEW p \in DOMAIN ids2 PROVE CopyOf(ids2, rids2, h[ids2[p]], rids2[p], hp2)
  <2>1. CASE p = last
    BY <1>2, <1>4, <2>1
  <2>2. CASE p \in DOMAIN ids
    <3>1. CopyOf(ids, rids, h[ids[p]], rids[p], hp) /\ ids2[p] = ids[p] /\ rids2[p] = rids[p]
      BY <1>2, <2>2 DEF Copied
    <3> QED BY <1>3, <2>2, <3>1 DEF CopyOf, Filled
  <2> QED BY <1>5, <2>1, <2>2
<1>7. \A p, q \in DOMAIN ids2 : rids2[p] = rids2[q] /\ rids2[p] # 0 => p = q
  BY <1>2, <1>5 DEF Copied
<1>8. MetOK(h, ids2)
  BY <1>2, <1>5 DEF MetOK
<1> QED BY <1>2, <1>6, <1>7, <1>8 DEF Copied, ids2, rids2

LEMMA StacksMet ==
  ASSUME NEW h, NEW ids, NEW rids, NEW hp, NEW open, NEW ropen, MetOK(h, ids),
         Copied(h, ids, rids, hp), Stacks(h, ids, rids, hp, open, ropen),
         open \in Seq(Containers),
         NEW x \in Addresses, NEW b \in Vals, ~Saved(h[x]),
         NEW hp2, \A p \in DOMAIN ids : rids[p] # 0 => hp2[rids[p]] = hp[rids[p]]
  PROVE  Stacks(h, Append(ids, x), Append(rids, b), hp2, open, ropen)
<1> DEFINE ids2 == Append(ids, x)
           rids2 == Append(rids, b)
           last == Len(ids) + 1
<1>1. ids \in Seq(Addresses) /\ rids \in Seq(Vals) /\ Len(rids) = Len(ids)
  BY DEF MetOK, Copied
<1>2. /\ DOMAIN ids = 1..Len(ids) /\ DOMAIN ids2 = 1..last /\ Len(ids) \in Nat
      /\ \A p \in DOMAIN ids : ids2[p] = ids[p] /\ rids2[p] = rids[p]
      /\ ids2[last] = x /\ rids2[last] = b
  BY <1>1
<1>3. \A v, a : Same(ids, rids, v, a) => Same(ids2, rids2, v, a)
  BY <1>1, SameKept
<1> HIDE DEF ids2, rids2
<1>4. \A p \in DOMAIN ids2 : p \in DOMAIN ids \/ p = last
  BY <1>2
<1> HIDE DEF last
<1>5. ASSUME NEW i \in DOMAIN open PROVE BothOpen(h, ids2, rids2, hp2, open[i], ropen[i])
  <2>1. BothOpen(h, ids, rids, hp, open[i], ropen[i])
    BY DEF Stacks
  <2>2. open[i].at \in Addresses /\ ropen[i].at \in Addresses
    <3>1. open[i] \in Containers /\ ropen[i] \in Containers
      BY ElementOfSeq DEF Stacks
    <3> QED BY <3>1 DEF Containers
  <2>3. PICK p \in DOMAIN ids : ids[p] = open[i].at /\ rids[p] = ropen[i].at
    BY <2>1, <2>2 DEF BothOpen, Same
  <2>4. hp2[ropen[i].at] = hp[ropen[i].at]
    <3>1. ropen[i].at # 0
      BY <2>2 DEF Addresses
    <3> QED BY <2>3, <3>1
  <2> QED BY <1>3, <2>1, <2>4 DEF BothOpen
<1>6. ASSUME NEW p \in DOMAIN ids2, Saved(h[ids2[p]])
      PROVE  IsOpen(open, ids2[p]) \/ Len(hp2[rids2[p]].kids) = Len(h[ids2[p]].kids)
  <2>1. p \in DOMAIN ids /\ ids2[p] = ids[p] /\ rids2[p] = rids[p]
    BY <1>2, <1>4, <1>6
  <2>2. rids[p] # 0
    <3>1. CopyOf(ids, rids, h[ids[p]], rids[p], hp)
      BY <2>1 DEF Copied
    <3> QED BY <1>6, <2>1, <3>1 DEF CopyOf, Saved, Skip
  <2> QED BY <1>6, <2>1, <2>2 DEF Stacks
<1> QED BY <1>5, <1>6 DEF Stacks, ids2, rids2

LEMMA StacksOpened ==
  ASSUME NEW h, NEW ids, NEW rids, NEW hp, NEW open, NEW ropen, MetOK(h, ids),
         Copied(h, ids, rids, hp), Stacks(h, ids, rids, hp, open, ropen),
         open \in Seq(Containers),
         NEW x \in Addresses, NEW b \in Addresses, NEW m \in Nat, m = Len(h[x].kids),
         NEW hp2, hp2[b].kids = <<>>, \A p \in DOMAIN ids : rids[p] # 0 => hp2[rids[p]] = hp[rids[p]]
  PROVE  Stacks(h, Append(ids, x), Append(rids, b), hp2, Opened(x, m, open), Opened(b, m, ropen))
<1> DEFINE ids2 == Append(ids, x)
           rids2 == Append(rids, b)
           last == Len(ids) + 1
           more == Opened(x, m, open)
           rmore == Opened(b, m, ropen)
<1>1. /\ ids \in Seq(Addresses) /\ rids \in Seq(Vals) /\ Len(rids) = Len(ids)
      /\ ropen \in Seq(Containers) /\ Len(ropen) = Len(open) /\ Len(open) \in Nat
      /\ x \in Vals /\ b \in Vals
  BY DEF MetOK, Copied, Stacks, Vals
<1>2. /\ DOMAIN ids = 1..Len(ids) /\ DOMAIN ids2 = 1..last /\ Len(ids) \in Nat
      /\ \A p \in DOMAIN ids : ids2[p] = ids[p] /\ rids2[p] = rids[p]
      /\ ids2[last] = x /\ rids2[last] = b
  BY <1>1
<1>3. /\ \A v, a : Same(ids, rids, v, a) => Same(ids2, rids2, v, a)
      /\ Same(ids2, rids2, x, b)
  BY <1>1, SameKept
<1> HIDE DEF ids2, rids2
<1>4. \A p \in DOMAIN ids2 : p \in DOMAIN ids \/ p = last
  BY <1>2
<1> HIDE DEF last
<1>5. /\ more \in Seq(Containers) /\ Len(more) = Len(open) + 1
      /\ DOMAIN more = 1..(Len(open) + 1) /\ DOMAIN open = 1..Len(open)
      /\ more[1] = [at |-> x, left |-> m]
      /\ \A i \in DOMAIN open : more[i + 1] = open[i]
      /\ rmore \in Seq(Containers) /\ Len(rmore) = Len(open) + 1
      /\ rmore[1] = [at |-> b, left |-> m]
      /\ \A i \in DOMAIN open : rmore[i + 1] = ropen[i]
  <2> HIDE DEF more, rmore
  <2>1. /\ more \in Seq(Containers) /\ Len(more) = Len(open) + 1
        /\ DOMAIN more = 1..(Len(open) + 1) /\ DOMAIN open = 1..Len(open)
        /\ more[1] = [at |-> x, left |-> m]
        /\ \A i \in DOMAIN open : more[i + 1] = open[i]
    BY OpenedFacts DEF more
  <2>2. /\ rmore \in Seq(Containers) /\ Len(rmore) = Len(ropen) + 1
        /\ DOMAIN ropen = 1..Len(ropen)
        /\ rmore[1] = [at |-> b, left |-> m]
        /\ \A i \in DOMAIN ropen : rmore[i + 1] = ropen[i]
    BY <1>1, OpenedFacts DEF rmore
  <2> QED BY <1>1, <2>1, <2>2
<1> HIDE DEF more, rmore
<1>6. more[1].at = x /\ more[1].left = m /\ rmore[1].at = b /\ rmore[1].left = m
  BY <1>5
<1>7. \A i \in DOMAIN more : i = 1 \/ (i - 1 \in DOMAIN open /\ more[i] = open[i - 1]
                                        /\ rmore[i] = ropen[i - 1])
  <2> TAKE i \in DOMAIN more
  <2>1. CASE i # 1
    <3>1. i - 1 \in DOMAIN open /\ (i - 1) + 1 = i
      BY <1>1, <1>5, <2>1
    <3> QED BY <1>5, <3>1
  <2> QED BY <2>1
<1>8. ASSUME NEW i \in DOMAIN open PROVE BothOpen(h, ids2, rids2, hp2, open[i], ropen[i])
  <2>1. BothOpen(h, ids, rids, hp, open[i], ropen[i])
    BY DEF Stacks
  <2>2. open[i].at \in Addresses /\ ropen[i].at \in Addresses
    <3>1. open[i] \in Containers /\ ropen[i] \in Containers
      BY ElementOfSeq DEF Stacks
    <3> QED BY <3>1 DEF Containers
  <2>3. PICK p \in DOMAIN ids : ids[p] = open[i].at /\ rids[p] = ropen[i].at
    BY <2>1, <2>2 DEF BothOpen, Same
  <2>4. hp2[ropen[i].at] = hp[ropen[i].at]
    <3>1. ropen[i].at # 0
      BY <2>2 DEF Addresses
    <3> QED BY <2>3, <3>1
  <2> QED BY <1>3, <2>1, <2>4 DEF BothOpen
<1>9. ASSUME NEW i \in DOMAIN more PROVE BothOpen(h, ids2, rids2, hp2, more[i], rmore[i])
  <2>1. CASE i = 1
    <3>1. Len(hp2[b].kids) = 0 /\ 0 + m = Len(h[x].kids)
      OBVIOUS
    <3> QED BY <1>3, <1>6, <2>1, <3>1 DEF BothOpen
  <2>2. CASE i # 1
    BY <1>7, <1>8, <2>2
  <2> QED BY <2>1, <2>2
<1>10. ASSUME NEW p \in DOMAIN ids2, Saved(h[ids2[p]])
       PROVE  IsOpen(more, ids2[p]) \/ Len(hp2[rids2[p]].kids) = Len(h[ids2[p]].kids)
  <2>1. CASE p = last
    <3>1. 1 \in DOMAIN more /\ more[1].at = ids2[p]
      BY <1>1, <1>2, <1>5, <1>6, <2>1
    <3> QED BY <3>1 DEF IsOpen
  <2>2. CASE p \in DOMAIN ids
    <3>1. ids2[p] = ids[p] /\ rids2[p] = rids[p]
      BY <1>2, <2>2
    <3>2. rids[p] # 0
      <4>1. CopyOf(ids, rids, h[ids[p]], rids[p], hp)
        BY <2>2 DEF Copied
      <4> QED BY <1>10, <3>1, <4>1 DEF CopyOf, Saved, Skip
    <3>3. CASE IsOpen(open, ids[p])
      <4>1. PICK i \in DOMAIN open : open[i].at = ids[p]
        BY <3>3 DEF IsOpen
      <4>2. i + 1 \in DOMAIN more /\ more[i + 1].at = ids[p]
        BY <1>1, <1>5, <4>1
      <4> QED BY <3>1, <4>2 DEF IsOpen
    <3>4. CASE Len(hp[rids[p]].kids) = Len(h[ids[p]].kids)
      BY <2>2, <3>1, <3>2, <3>4
    <3> QED BY <1>10, <2>2, <3>1, <3>3, <3>4 DEF Stacks
  <2> QED BY <1>4, <2>1, <2>2
<1>11. Len(rmore) = Len(more)
  BY <1>5
<1> QED BY <1>5, <1>9, <1>10, <1>11 DEF Stacks, ids2, rids2, more, rmore

LEMMA StacksTail ==
  ASSUME NEW h, NEW vs, NEW n, NEW ids, NEW rids, NEW hp, NEW open, NEW ropen,
         Stacks(h, ids, rids, hp, open, ropen), MetOK(h, ids), Copied(h, ids, rids, hp),
         StackOK(h, vs, n, ids, open), open # <<>>, Head(open).left = 0
  PROVE  /\ Stacks(h, ids, rids, hp, Tail(open), Tail(ropen))
         /\ ropen # <<>> /\ Head(ropen).left = 0
         /\ Head(ropen).at \in Addresses /\ Head(open).at \in Addresses
         /\ Same(ids, rids, Head(open).at, Head(ropen).at)
<1> DEFINE tail == Tail(open)
           rtail == Tail(ropen)
<1>1. /\ open \in Seq(Containers) /\ ropen \in Seq(Containers) /\ Len(ropen) = Len(open)
      /\ Len(open) \in Nat \ {0}
  BY DEF StackOK, Stacks
<1>2. ropen # <<>>
  BY <1>1
<1>3. /\ tail \in Seq(Containers) /\ Len(tail) = Len(open) - 1
      /\ Head(open) = open[1] /\ DOMAIN open = 1..Len(open) /\ 1 \in DOMAIN open
      /\ DOMAIN tail = 1..(Len(open) - 1)
      /\ \A i \in DOMAIN tail : tail[i] = open[i + 1] /\ i + 1 \in DOMAIN open
      /\ rtail \in Seq(Containers) /\ Len(rtail) = Len(open) - 1
      /\ Head(ropen) = ropen[1] /\ DOMAIN ropen = DOMAIN open
      /\ \A i \in DOMAIN tail : rtail[i] = ropen[i + 1]
  BY <1>1, <1>2, TailFacts
<1> HIDE DEF tail, rtail
<1>4. BothOpen(h, ids, rids, hp, open[1], ropen[1])
  BY <1>3 DEF Stacks
<1>5. open[1] \in Containers /\ ropen[1] \in Containers
  BY <1>1, <1>3, ElementOfSeq
<1>6. /\ open[1].at \in Addresses /\ ropen[1].at \in Addresses /\ open[1].left = 0
      /\ ropen[1].left = 0 /\ Same(ids, rids, open[1].at, ropen[1].at)
      /\ Len(hp[ropen[1].at].kids) + 0 = Len(h[open[1].at].kids)
  BY <1>3, <1>4, <1>5 DEF Containers, BothOpen
<1>7. PICK p0 \in DOMAIN ids : ids[p0] = open[1].at /\ rids[p0] = ropen[1].at
  BY <1>6 DEF Same
<1>8. Saved(h[open[1].at])
  BY <1>3 DEF StackOK
<1>9. Len(hp[ropen[1].at].kids) = Len(h[open[1].at].kids)
  <2>1. CopyOf(ids, rids, h[open[1].at], ropen[1].at, hp)
    BY <1>7 DEF Copied
  <2>2. Len(hp[ropen[1].at].kids) <= Len(h[open[1].at].kids)
    BY <1>8, <2>1 DEF CopyOf, Filled, Saved, Skip
  <2> QED BY <1>6, <2>2
<1>10. ASSUME NEW p \in DOMAIN ids, Saved(h[ids[p]])
       PROVE  IsOpen(tail, ids[p]) \/ Len(hp[rids[p]].kids) = Len(h[ids[p]].kids)
  <2>1. CASE IsOpen(open, ids[p])
    <3>1. PICK i \in DOMAIN open : open[i].at = ids[p]
      BY <2>1 DEF IsOpen
    <3>2. CASE i = 1
      <4>1. p = p0
        BY <1>7, <3>1, <3>2 DEF MetOK
      <4> QED BY <1>7, <1>9, <4>1
    <3>3. CASE i # 1
      <4>1. i - 1 \in DOMAIN tail /\ (i - 1) + 1 = i
        BY <1>1, <1>3, <3>3
      <4>2. tail[i - 1].at = ids[p]
        BY <1>3, <3>1, <4>1
      <4> QED BY <4>1, <4>2 DEF IsOpen
    <3> QED BY <3>2, <3>3
  <2>2. CASE ~IsOpen(open, ids[p])
    BY <1>10, <2>2 DEF Stacks
  <2> QED BY <2>1, <2>2
<1>11. \A i \in DOMAIN tail : BothOpen(h, ids, rids, hp, tail[i], rtail[i])
  BY <1>3 DEF Stacks
<1>12. Stacks(h, ids, rids, hp, tail, rtail)
  BY <1>3, <1>10, <1>11 DEF Stacks
<1> QED BY <1>2, <1>3, <1>6, <1>12 DEF tail, rtail

-----------------------------------------------------------------------------
(* The first n values were delivered to the globals of these names, and the  *)
(* other globals are as they were.                                           *)
Distinct(names) == names \in Seq(Slots) /\ \A i, j \in DOMAIN names : names[i] = names[j] => i = j

GlobalsRead(vs, names, n, ids, rids, glob, g0) ==
    /\ \A i \in 1..n : Same(ids, rids, vs[i], glob[names[i]])
    /\ \A m \in Slots : (\A i \in 1..n : names[i] # m) => glob[m] = g0[m]

WithGlobal(g, m, a) == [g EXCEPT ![m] = a]

LEMMA GlobalDelivered ==
  ASSUME NEW vs, NEW names, Distinct(names), NEW n \in Nat, n < Len(names),
         NEW ids, NEW rids, NEW glob, NEW g0, GlobalsRead(vs, names, n, ids, rids, glob, g0),
         NEW a \in Vals, Same(ids, rids, vs[n + 1], a), NEW hp, HeapOK(hp, glob), NotFree(hp, a),
         NEW glob2, glob2 = WithGlobal(glob, names[n + 1], a)
  PROVE  GlobalsRead(vs, names, n + 1, ids, rids, glob2, g0) /\ HeapOK(hp, glob2)
<1>1. /\ names \in Seq(Slots) /\ Len(names) \in Nat /\ DOMAIN names = 1..Len(names)
      /\ n + 1 \in DOMAIN names /\ \A i \in 1..n : i \in DOMAIN names /\ i # n + 1
  BY DEF Distinct
<1>2. names[n + 1] \in Slots
  BY <1>1
<1>3. glob \in [Slots -> Vals \cup {None}]
  BY DEF HeapOK
<1>4. /\ glob2 \in [Slots -> Vals \cup {None}] /\ glob2[names[n + 1]] = a
      /\ \A m : m # names[n + 1] => glob2[m] = glob[m]
  BY <1>2, <1>3 DEF WithGlobal
<1>5. \A m \in Slots : NotFree(hp, glob2[m])
  BY <1>4 DEF HeapOK
<1>6. HeapOK(hp, glob2)
  BY <1>4, <1>5 DEF HeapOK
<1>7. ASSUME NEW i \in 1..(n + 1) PROVE Same(ids, rids, vs[i], glob2[names[i]])
  <2>1. CASE i = n + 1
    BY <1>4, <2>1
  <2>2. CASE i \in 1..n
    <3>1. names[i] # names[n + 1]
      BY <1>1, <2>2 DEF Distinct
    <3> QED BY <1>4, <2>2, <3>1 DEF GlobalsRead
  <2>3. i = n + 1 \/ i \in 1..n
    OBVIOUS
  <2> QED BY <2>1, <2>2, <2>3
<1>8. ASSUME NEW m \in Slots, \A i \in 1..(n + 1) : names[i] # m PROVE glob2[m] = g0[m]
  <2>1. m # names[n + 1] /\ \A i \in 1..n : names[i] # m
    BY <1>8
  <2> QED BY <1>4, <2>1 DEF GlobalsRead
<1> QED BY <1>6, <1>7, <1>8 DEF GlobalsRead

LEMMA GlobalsKept ==
  ASSUME NEW vs, NEW names, NEW n, NEW ids, NEW rids, NEW glob, NEW g0, NEW ids2, NEW rids2,
         \A v, a : Same(ids, rids, v, a) => Same(ids2, rids2, v, a),
         GlobalsRead(vs, names, n, ids, rids, glob, g0)
  PROVE  GlobalsRead(vs, names, n, ids2, rids2, glob, g0)
BY DEF GlobalsRead

-----------------------------------------------------------------------------
(* The tokens that make objects.                                             *)
Makes(out) == {i \in 1..Len(out) : out[i].tag \in {7, 9}}

LEMMA MakesFinite ==
  ASSUME NEW out, IsSeq(out)
  PROVE  IsFiniteSet(Makes(out)) /\ Cardinality(Makes(out)) \in Nat
<1>1. Len(out) \in Nat
  BY IsSeqFacts
<1>2. IsFiniteSet(1..Len(out)) /\ Makes(out) \subseteq 1..Len(out)
  BY <1>1, FS_Interval DEF Makes
<1> QED BY <1>2, FS_Subset, FS_CardinalityType

LEMMA MakesAppended ==
  ASSUME NEW out, IsSeq(out), NEW t
  PROVE  Cardinality(Makes(Append(out, t)))
           = Cardinality(Makes(out)) + IF t.tag \in {7, 9} THEN 1 ELSE 0
<1>1. /\ Len(Append(out, t)) = Len(out) + 1 /\ Len(out) \in Nat
      /\ \A i \in 1..Len(out) : Append(out, t)[i] = out[i]
      /\ Append(out, t)[Len(out) + 1] = t
  BY Appended, IsSeqFacts
<1>2. IsFiniteSet(Makes(out)) /\ Cardinality(Makes(out)) \in Nat
  BY MakesFinite
<1>3. CASE t.tag \in {7, 9}
  <2>1. Makes(Append(out, t)) = Makes(out) \cup {Len(out) + 1} /\ Len(out) + 1 \notin Makes(out)
    BY <1>1, <1>3 DEF Makes
  <2>2. Cardinality(Makes(out) \cup {Len(out) + 1}) = Cardinality(Makes(out)) + 1
    BY <1>2, <2>1, FS_AddElement
  <2> QED BY <1>3, <2>1, <2>2
<1>4. CASE t.tag \notin {7, 9}
  <2>1. Makes(Append(out, t)) = Makes(out)
    BY <1>1, <1>4 DEF Makes
  <2> QED BY <1>2, <1>4, <2>1
<1> QED BY <1>3, <1>4

(* The tokens of out come first in final.                                    *)
Begins(out, final) ==
    /\ IsSeq(out) /\ IsSeq(final) /\ Len(out) <= Len(final)
    /\ \A i \in 1..Len(out) : final[i] = out[i]

LEMMA BeginsFewer ==
  ASSUME NEW out, NEW final, Begins(out, final)
  PROVE  Cardinality(Makes(out)) <= Cardinality(Makes(final))
<1>1. Len(out) \in Nat /\ Len(final) \in Nat
  BY IsSeqFacts DEF Begins
<1>2. Makes(out) \subseteq Makes(final)
  BY <1>1 DEF Makes, Begins
<1> QED BY <1>2, MakesFinite, FS_Subset DEF Begins

(* The objects that were met are not more than there are.                    *)
LEMMA MetBounded ==
  ASSUME NEW h, NEW ids, MetOK(h, ids)
  PROVE  Len(ids) \in Nat /\ Len(ids) <= MaxObjs
<1>1. /\ ids \in Seq(Addresses) /\ Len(ids) \in Nat /\ DOMAIN ids = 1..Len(ids)
      /\ ids \in [1..Len(ids) -> Addresses]
  BY DEF MetOK
<1>2. ids \in Injection(1..Len(ids), Addresses)
  BY <1>1 DEF MetOK, Injection, IsInjective
<1>3. IsFiniteSet(Addresses) /\ Cardinality(Addresses) = MaxObjs
  BY FS_Interval, WorkspaceSizes DEF Addresses
<1>4. Cardinality(1..Len(ids)) <= Cardinality(Addresses)
  BY <1>2, <1>3, FS_Injection
<1>5. Cardinality(1..Len(ids)) = Len(ids)
  BY <1>1, FS_Interval
<1> QED BY <1>1, <1>3, <1>4, <1>5

(* The state of the reader, by its fields, where the collector does not run. *)
Reader(k, n, hp, g, ids, open, v) ==
    [read |-> k, named |-> n, heap |-> hp, glob |-> g, ids |-> ids, open |-> open,
     val |-> v, gc |-> 0]

(* One field of it is set.                                                   *)
LEMMA SetNamed ==
  ASSUME NEW k, NEW n, NEW hp, NEW g, NEW ids, NEW open, NEW v, NEW x
  PROVE  [Reader(k, n, hp, g, ids, open, v) EXCEPT !.named = x] = Reader(k, x, hp, g, ids, open, v)
BY DEF Reader

LEMMA SetHeap ==
  ASSUME NEW k, NEW n, NEW hp, NEW g, NEW ids, NEW open, NEW v, NEW x
  PROVE  [Reader(k, n, hp, g, ids, open, v) EXCEPT !.heap = x] = Reader(k, n, x, g, ids, open, v)
BY DEF Reader

LEMMA SetGlob ==
  ASSUME NEW k, NEW n, NEW hp, NEW g, NEW ids, NEW open, NEW v, NEW x
  PROVE  [Reader(k, n, hp, g, ids, open, v) EXCEPT !.glob = x] = Reader(k, n, hp, x, ids, open, v)
BY DEF Reader

LEMMA SetIds ==
  ASSUME NEW k, NEW n, NEW hp, NEW g, NEW ids, NEW open, NEW v, NEW x
  PROVE  [Reader(k, n, hp, g, ids, open, v) EXCEPT !.ids = x] = Reader(k, n, hp, g, x, open, v)
BY DEF Reader

LEMMA SetOpen ==
  ASSUME NEW k, NEW n, NEW hp, NEW g, NEW ids, NEW open, NEW v, NEW x
  PROVE  [Reader(k, n, hp, g, ids, open, v) EXCEPT !.open = x] = Reader(k, n, hp, g, ids, x, v)
BY DEF Reader

LEMMA SetVal ==
  ASSUME NEW k, NEW n, NEW hp, NEW g, NEW ids, NEW open, NEW v, NEW x
  PROVE  [Reader(k, n, hp, g, ids, open, v) EXCEPT !.val = x] = Reader(k, n, hp, g, ids, open, x)
BY DEF Reader

LEMMA SetGc ==
  ASSUME NEW k, NEW n, NEW hp, NEW g, NEW ids, NEW open, NEW v
  PROVE  [Reader(k, n, hp, g, ids, open, v) EXCEPT !.gc = 0] = Reader(k, n, hp, g, ids, open, v)
BY DEF Reader

LEMMA ReaderVal ==
  ASSUME NEW k, NEW n, NEW hp, NEW g, NEW ids, NEW open, NEW v
  PROVE  Reader(k, n, hp, g, ids, open, v).val = v
BY DEF Reader

LEMMA DeliverIs ==
  ASSUME NEW snap, NEW k, NEW n, NEW hp, NEW g, NEW ids, NEW open, NEW v
  PROVE  Deliver(snap, Reader(k, n, hp, g, ids, open, v)) =
           IF open = <<>> THEN Reader(k, n + 1, hp, WithGlobal(g, snap.names[n + 1], v), ids, open, v)
           ELSE Reader(k, n, WithElement(hp, Head(open).at, v), g, ids, Less(open), v)
<1> DEFINE st == Reader(k, n, hp, g, ids, open, v)
           less == Less(open)
           at == Head(open).at
           name == snap.names[n + 1]
           g2 == [g EXCEPT ![name] = v]
           hp2 == [hp EXCEPT ![at] = WithKid(hp[at], v)]
<1>1. st.open = open /\ st.named = n /\ st.val = v /\ st.heap = hp /\ st.glob = g
  BY DEF Reader
<1>2. CASE open = <<>>
  <2>1. Deliver(snap, st) = [st EXCEPT !.named = n + 1, !.glob = g2]
    <3> HIDE DEF st
    <3>1. [st EXCEPT !.named = @ + 1, !.glob[snap.names[st.named + 1]] = st.val]
            = [st EXCEPT !.named = n + 1, !.glob = g2]
      BY <1>1
    <3> HIDE DEF g2
    <3> QED BY <1>1, <1>2, <3>1 DEF Deliver
  <2> HIDE DEF g2
  <2>2. [st EXCEPT !.named = n + 1, !.glob = g2] = Reader(k, n + 1, hp, g2, ids, open, v)
    <3> HIDE DEF st
    <3>1. [st EXCEPT !.named = n + 1, !.glob = g2] = [[st EXCEPT !.named = n + 1] EXCEPT !.glob = g2]
      OBVIOUS
    <3>2. [st EXCEPT !.named = n + 1] = Reader(k, n + 1, hp, g, ids, open, v)
      BY SetNamed DEF st
    <3>3. [[st EXCEPT !.named = n + 1] EXCEPT !.glob = g2]
            = [Reader(k, n + 1, hp, g, ids, open, v) EXCEPT !.glob = g2]
      BY <3>2, Zenon
    <3> QED BY <3>1, <3>3, SetGlob
  <2> QED BY <1>2, <2>1, <2>2 DEF g2, WithGlobal
<1>3. CASE open # <<>>
  <2>1. Deliver(snap, st) = [st EXCEPT !.heap = hp2, !.open = less]
    <3> HIDE DEF st
    <3>1. [st EXCEPT !.heap[Head(st.open).at] = WithKid(@, st.val), !.open = Less(@)]
            = [st EXCEPT !.heap = hp2, !.open = less]
      BY <1>1
    <3> HIDE DEF hp2, less
    <3> QED BY <1>1, <1>3, <3>1 DEF Deliver
  <2> HIDE DEF hp2, less
  <2>2. [st EXCEPT !.heap = hp2, !.open = less] = Reader(k, n, hp2, g, ids, less, v)
    <3> HIDE DEF st
    <3>1. [st EXCEPT !.heap = hp2, !.open = less] = [[st EXCEPT !.heap = hp2] EXCEPT !.open = less]
      OBVIOUS
    <3>2. [st EXCEPT !.heap = hp2] = Reader(k, n, hp2, g, ids, open, v)
      BY SetHeap DEF st
    <3>3. [[st EXCEPT !.heap = hp2] EXCEPT !.open = less]
            = [Reader(k, n, hp2, g, ids, open, v) EXCEPT !.open = less]
      BY <3>2, Zenon
    <3> QED BY <3>1, <3>3, SetOpen
  <2> QED BY <1>3, <2>1, <2>2 DEF hp2, less, WithElement
<1> QED BY <1>2, <1>3

LEMMA AllocateIs ==
  ASSUME NEW k, NEW n, NEW hp, NEW g, NEW ids, NEW open, NEW v, NEW obj
  PROVE  Allocate(Reader(k, n, hp, g, ids, open, v), obj) =
           Reader(k, n, WithObject(hp, Lowest(FreeIn(hp)), obj), g, ids, open, Lowest(FreeIn(hp)))
<1> DEFINE st == Reader(k, n, hp, g, ids, open, v)
           o == Lowest(FreeIn(hp))
           hp2 == [hp EXCEPT ![o] = obj]
<1>1. st.heap = hp /\ st.gc = 0
  BY DEF Reader
<1>2. Allocate(st, obj) = [st EXCEPT !.heap = hp2, !.gc = 0, !.val = o]
  <2> HIDE DEF st
  <2>1. (IF st.gc = 1 THEN Sweep(st.heap, st.glob) ELSE st.heap) = hp
    BY <1>1
  <2>2. [st EXCEPT !.heap = hp2, !.gc = IF @ = 0 THEN 0 ELSE @ - 1, !.val = o]
          = [st EXCEPT !.heap = hp2, !.gc = 0, !.val = o]
    <3> HIDE DEF hp2, o
    <3> QED BY <1>1
  <2> QED BY <2>1, <2>2 DEF Allocate
<1> HIDE DEF hp2, o
<1>3. [st EXCEPT !.heap = hp2, !.gc = 0, !.val = o] = Reader(k, n, hp2, g, ids, open, o)
  <2> HIDE DEF st
  <2>1. [st EXCEPT !.heap = hp2, !.gc = 0, !.val = o]
          = [[[st EXCEPT !.heap = hp2] EXCEPT !.gc = 0] EXCEPT !.val = o]
    OBVIOUS
  <2>2. [st EXCEPT !.heap = hp2] = Reader(k, n, hp2, g, ids, open, v)
    BY SetHeap DEF st
  <2>3. [Reader(k, n, hp2, g, ids, open, v) EXCEPT !.gc = 0] = Reader(k, n, hp2, g, ids, open, v)
    BY SetGc
  <2>4. [[[st EXCEPT !.heap = hp2] EXCEPT !.gc = 0] EXCEPT !.val = o]
          = [Reader(k, n, hp2, g, ids, open, v) EXCEPT !.val = o]
    BY <2>2, <2>3, Zenon
  <2> QED BY <2>1, <2>4, SetVal
<1> QED BY <1>2, <1>3 DEF hp2, o, WithObject

LEMMA RememberIs ==
  ASSUME NEW k, NEW n, NEW hp, NEW g, NEW ids, NEW open, NEW v, NEW o
  PROVE  Remember(Reader(k, n, hp, g, ids, open, v), o) = Reader(k, n, hp, g, Append(ids, o), open, o)
<1> DEFINE more == Append(ids, o)
           st == Reader(k, n, hp, g, ids, open, v)
<1>1. st.ids = ids
  BY DEF Reader
<1> HIDE DEF st
<1>2. Remember(st, o) = [st EXCEPT !.ids = more, !.val = o]
  BY <1>1 DEF Remember
<1> HIDE DEF more
<1>3. [st EXCEPT !.ids = more, !.val = o] = [[st EXCEPT !.ids = more] EXCEPT !.val = o]
  OBVIOUS
<1>4. [st EXCEPT !.ids = more] = Reader(k, n, hp, g, more, open, v)
  BY SetIds DEF st
<1>5. Remember(st, o) = Reader(k, n, hp, g, more, open, o)
  <2>1. [[st EXCEPT !.ids = more] EXCEPT !.val = o] = [Reader(k, n, hp, g, more, open, v) EXCEPT !.val = o]
    BY <1>4, Zenon
  <2> QED BY <1>2, <1>3, <2>1, SetVal
<1> QED BY <1>5 DEF more, st

LEMMA ContainerIs ==
  ASSUME NEW k, NEW n, NEW hp, NEW g, NEW ids, NEW open, NEW o, NEW m
  PROVE  Container(Reader(k, n, hp, g, ids, open, o), m)
           = Reader(k, n, hp, g, Append(ids, o), Opened(o, m, open), o)
<1> DEFINE more == Append(ids, o)
           st == Reader(k, n, hp, g, ids, open, o)
           st2 == Reader(k, n, hp, g, more, open, o)
           opened == Opened(o, m, open)
<1>1. st.val = o
  BY DEF Reader
<1>2. st2.open = open
  BY DEF Reader
<1>3. Remember(st, o) = st2
  BY RememberIs
<1> HIDE DEF st, st2
<1>4. Container(st, m) = [st2 EXCEPT !.open = opened]
  BY <1>1, <1>2, <1>3 DEF Container
<1> HIDE DEF opened, more
<1>5. [st2 EXCEPT !.open = opened] = Reader(k, n, hp, g, more, opened, o)
  BY SetOpen DEF st2
<1> QED BY <1>4, <1>5 DEF opened, more, st

Builtins(hp) == {o \in Addresses : hp[o].kind = "builtin"}
NewBuiltin == Obj("builtin", 0, NoCode, <<>>)

LEMMA BuiltinIs ==
  ASSUME NEW k, NEW n, NEW hp, NEW g, NEW ids, NEW open, NEW v
  PROVE  Builtin(Reader(k, n, hp, g, ids, open, v)) =
           IF Builtins(hp) # {} THEN Reader(k, n, hp, g, ids, open, Lowest(Builtins(hp)))
           ELSE Allocate(Reader(k, n, hp, g, ids, open, v), NewBuiltin)
<1> DEFINE st == Reader(k, n, hp, g, ids, open, v)
<1>1. st.heap = hp
  BY DEF Reader
<1>2. Builtin(st) = IF Builtins(hp) # {} THEN [st EXCEPT !.val = Lowest(Builtins(hp))]
                    ELSE Allocate(st, NewBuiltin)
  <2> HIDE DEF st
  <2> QED BY <1>1 DEF Builtin, Builtins, NewBuiltin
<1>3. \A b : [st EXCEPT !.val = b] = Reader(k, n, hp, g, ids, open, b)
  BY DEF Reader
<1> QED BY <1>2, <1>3

LEMMA ReadValueIs ==
  ASSUME NEW snap, NEW k, NEW n, NEW hp, NEW g, NEW ids, NEW open, NEW v,
         NEW t, t = snap.out[k + 1]
  PROVE  /\ t.tag = 6 =>
              ReadValue(snap, Reader(k, n, hp, g, ids, open, v))
                = Deliver(snap, Reader(k + 1, n, hp, g, ids, open, ids[t.id]))
         /\ t.tag \in {8, 10} =>
              ReadValue(snap, Reader(k, n, hp, g, ids, open, v))
                = Deliver(snap, Reader(k + 1, n, hp, g, Append(ids, 0), open, 0))
         /\ t.tag = 9 /\ Builtins(hp) # {} =>
              ReadValue(snap, Reader(k, n, hp, g, ids, open, v))
                = Deliver(snap, Reader(k + 1, n, hp, g, Append(ids, Lowest(Builtins(hp))), open,
                                       Lowest(Builtins(hp))))
         /\ t.tag = 9 /\ Builtins(hp) = {} =>
              ReadValue(snap, Reader(k, n, hp, g, ids, open, v))
                = Deliver(snap, Reader(k + 1, n, WithObject(hp, Lowest(FreeIn(hp)), NewBuiltin), g,
                                       Append(ids, Lowest(FreeIn(hp))), open, Lowest(FreeIn(hp))))
         /\ t.tag = 7 =>
              ReadValue(snap, Reader(k, n, hp, g, ids, open, v))
                = Reader(k + 1, n, WithObject(hp, Lowest(FreeIn(hp)), Obj(t.kind, t.idx, t.code, <<>>)), g,
                         Append(ids, Lowest(FreeIn(hp))), Opened(Lowest(FreeIn(hp)), t.n, open),
                         Lowest(FreeIn(hp)))
         /\ t.tag \notin {6, 7, 8, 9, 10} =>
              ReadValue(snap, Reader(k, n, hp, g, ids, open, v))
                = Deliver(snap, Reader(k + 1, n, hp, g, ids, open, 0))
<1> DEFINE st == Reader(k, n, hp, g, ids, open, v)
           st1 == Reader(k + 1, n, hp, g, ids, open, v)
           Val(a) == [st1 EXCEPT !.val = a]
           o == Lowest(FreeIn(hp))
           b == Lowest(Builtins(hp))
<1>1. st.read = k /\ st.ids = ids
  BY DEF Reader
<1>2. [st EXCEPT !.read = @ + 1] = st1
  BY DEF Reader
<1>3. ReadValue(snap, st) =
        CASE t.tag = 6        -> Deliver(snap, Val(ids[t.id]))
          [] t.tag \in {8,10} -> Deliver(snap, Skipped(st1))
          [] t.tag = 9        -> Deliver(snap, Remember(Builtin(st1), Builtin(st1).val))
          [] t.tag = 7        -> Container(Allocate(st1, Obj(t.kind, t.idx, t.code, <<>>)), t.n)
          [] OTHER            -> Deliver(snap, Val(0))
  <2> HIDE DEF st, st1
  <2> QED BY <1>1, <1>2 DEF ReadValue
<1>4. \A a : Val(a) = Reader(k + 1, n, hp, g, ids, open, a)
  BY DEF Reader
<1>5. Skipped(st1) = Reader(k + 1, n, hp, g, Append(ids, 0), open, 0)
  BY RememberIs DEF Skipped
<1> HIDE DEF Val, o, b
<1>6. ASSUME Builtins(hp) # {}
      PROVE  Remember(Builtin(st1), Builtin(st1).val) = Reader(k + 1, n, hp, g, Append(ids, b), open, b)
  <2>1. Builtin(st1) = Reader(k + 1, n, hp, g, ids, open, b)
    BY <1>6, BuiltinIs DEF b
  <2>2. Builtin(st1).val = b
    BY <2>1, ReaderVal
  <2> HIDE DEF st1
  <2> QED BY <2>1, <2>2, RememberIs
<1>7. ASSUME Builtins(hp) = {}
      PROVE  Remember(Builtin(st1), Builtin(st1).val)
               = Reader(k + 1, n, WithObject(hp, o, NewBuiltin), g, Append(ids, o), open, o)
  <2>1. Builtin(st1) = Allocate(st1, NewBuiltin)
    BY <1>7, BuiltinIs
  <2>2. Allocate(st1, NewBuiltin) = Reader(k + 1, n, WithObject(hp, o, NewBuiltin), g, ids, open, o)
    BY AllocateIs DEF o
  <2>3. Builtin(st1).val = o
    BY <2>1, <2>2, ReaderVal
  <2> HIDE DEF st1
  <2> QED BY <2>1, <2>2, <2>3, RememberIs
<1>8. ASSUME NEW obj, NEW m
      PROVE  Container(Allocate(st1, obj), m)
               = Reader(k + 1, n, WithObject(hp, o, obj), g, Append(ids, o), Opened(o, m, open), o)
  <2>1. Allocate(st1, obj) = Reader(k + 1, n, WithObject(hp, o, obj), g, ids, open, o)
    BY AllocateIs DEF o
  <2> HIDE DEF st1
  <2> QED BY <2>1, ContainerIs
<1> HIDE DEF st, st1
<1>9. t.tag = 6 => ReadValue(snap, st) = Deliver(snap, Val(ids[t.id]))
  BY <1>3
<1>10. t.tag \in {8, 10} => ReadValue(snap, st) = Deliver(snap, Skipped(st1))
  BY <1>3
<1>11. t.tag = 9 => ReadValue(snap, st) = Deliver(snap, Remember(Builtin(st1), Builtin(st1).val))
  BY <1>3
<1>12. t.tag = 7 => ReadValue(snap, st) = Container(Allocate(st1, Obj(t.kind, t.idx, t.code, <<>>)), t.n)
  BY <1>3
<1>13. t.tag \notin {6, 7, 8, 9, 10} => ReadValue(snap, st) = Deliver(snap, Val(0))
  BY <1>3
<1> QED BY Zenon, <1>4, <1>5, <1>6, <1>7, <1>8, <1>9, <1>10, <1>11, <1>12, <1>13 DEF st, o, b

LEMMA ReadNextIs ==
  ASSUME NEW snap, NEW k, NEW n, NEW hp, NEW g, NEW ids, NEW open, NEW v
  PROVE  /\ open # <<>> /\ Head(open).left = 0 =>
              ReadNext(snap, Reader(k, n, hp, g, ids, open, v))
                = Deliver(snap, Reader(k, n, hp, g, ids, Tail(open), Head(open).at))
         /\ ~(open # <<>> /\ Head(open).left = 0) /\ k < Len(snap.out) =>
              ReadNext(snap, Reader(k, n, hp, g, ids, open, v))
                = ReadValue(snap, Reader(k, n, hp, g, ids, open, v))
         /\ ~(open # <<>> /\ Head(open).left = 0) /\ ~(k < Len(snap.out)) =>
              ReadNext(snap, Reader(k, n, hp, g, ids, open, v))
                = Reader(k, n, hp, g, ids, open, v)
<1> DEFINE st == Reader(k, n, hp, g, ids, open, v)
           rest == Tail(open)
           at == Head(open).at
<1>1. st.open = open /\ st.read = k
  BY DEF Reader
<1>2. [st EXCEPT !.val = Head(st.open).at, !.open = Tail(@)] = Reader(k, n, hp, g, ids, rest, at)
  <2>1. [st EXCEPT !.val = Head(st.open).at, !.open = Tail(@)] = [st EXCEPT !.val = at, !.open = rest]
    BY <1>1
  <2> HIDE DEF rest, at, st
  <2>2. [st EXCEPT !.val = at, !.open = rest] = [[st EXCEPT !.val = at] EXCEPT !.open = rest]
    OBVIOUS
  <2>3. [st EXCEPT !.val = at] = Reader(k, n, hp, g, ids, open, at)
    BY SetVal DEF st
  <2>4. [[st EXCEPT !.val = at] EXCEPT !.open = rest]
          = [Reader(k, n, hp, g, ids, open, at) EXCEPT !.open = rest]
    BY <2>3, Zenon
  <2> QED BY <2>1, <2>2, <2>4, SetOpen
<1> HIDE DEF st
<1> QED BY <1>1, <1>2 DEF ReadNext, st, rest, at

(* The writer and the reader go in step.  h: the heap that is written, vs:   *)
(* the values of the globals, names: their names, g0: the globals before the *)
(* load, free0: the addresses that were free then.                           *)
Source(h, gs, vs, names) ==
    /\ HeapOK(h, gs) /\ vs \in Seq(Vals) /\ \A i \in DOMAIN vs : NotFree(h, vs[i])
    /\ Distinct(names) /\ Len(names) = Len(vs)

Good(h, vs, names, g0, free0, n, ids, open, out, hp, g, rids, ropen) ==
    /\ IsSeq(out) /\ MetOK(h, ids) /\ StackOK(h, vs, n, ids, open)
    /\ Copied(h, ids, rids, hp) /\ Stacks(h, ids, rids, hp, open, ropen)
    /\ GlobalsRead(vs, names, n, ids, rids, g, g0) /\ HeapOK(hp, g)
    /\ Cardinality(Makes(out)) <= Len(ids)
    /\ free0 <= Cardinality(FreeIn(hp)) + Cardinality(Makes(out))

Together(h, vs, names, g0, free0, w, r) ==
    \E n, ids, open, out, hp, g, rids, ropen, v :
      /\ w = Writer(n, ids, open, out) /\ r = Reader(Len(out), n, hp, g, rids, ropen, v)
      /\ Good(h, vs, names, g0, free0, n, ids, open, out, hp, g, rids, ropen)

LEMMA TogetherIs ==
  ASSUME NEW h, NEW vs, NEW names, NEW g0, NEW free0, NEW n, NEW ids, NEW open, NEW out,
         NEW hp, NEW g, NEW rids, NEW ropen, NEW v,
         Good(h, vs, names, g0, free0, n, ids, open, out, hp, g, rids, ropen)
  PROVE  Together(h, vs, names, g0, free0, Writer(n, ids, open, out),
                  Reader(Len(out), n, hp, g, rids, ropen, v))
BY Zenon DEF Together

LEMMA NextIn ==
  ASSUME NEW h, NEW gs, NEW vs, NEW names, Source(h, gs, vs, names),
         NEW n, NEW ids, NEW open, StackOK(h, vs, n, ids, open), NEW v, IsNext(h, vs, n, open, v)
  PROVE  v \in Vals /\ NotFree(h, v)
<1>1. CASE open = <<>>
  <2>1. n + 1 \in DOMAIN vs /\ v = vs[n + 1]
    <3>1. vs \in Seq(Vals) /\ n \in 0..Len(vs) /\ n < Len(vs) /\ v = vs[n + 1]
      BY <1>1 DEF Source, StackOK, IsNext
    <3> QED BY <3>1
  <2> QED BY <2>1 DEF Source
<1>2. CASE open # <<>>
  <2>1. /\ open \in Seq(Containers) /\ Head(open) = open[1] /\ 1 \in DOMAIN open
    BY <1>2, TailFacts DEF StackOK
  <2>2. open[1] \in Containers
    BY <2>1, ElementOfSeq
  <2>3. open[1].at \in Addresses /\ open[1].left \in Nat
    BY <2>2 DEF Containers
  <2> DEFINE kids == h[open[1].at].kids
  <2>4. h \in [Addresses -> Objects]
    BY DEF Source, HeapOK
  <2>5. Len(kids) \in Nat /\ DOMAIN kids = 1..Len(kids) /\ \A i \in DOMAIN kids : kids[i] \in Vals
    BY <2>3, <2>4, ObjectsOf
  <2>6. open[1].left > 0 /\ open[1].left <= Len(kids)
    BY <1>2, <2>1 DEF IsNext, StackOK
  <2>7. v = kids[Len(kids) + 1 - open[1].left]
    BY <1>2, <2>1 DEF IsNext, NextElement
  <2>8. Len(kids) + 1 - open[1].left \in DOMAIN kids
    <3> HIDE DEF kids
    <3> QED BY <2>3, <2>5, <2>6
  <2>9. \A i \in DOMAIN kids : NotFree(h, kids[i])
    BY <2>3 DEF Source, HeapOK
  <2> QED BY <2>5, <2>7, <2>8, <2>9
<1> QED BY <1>1, <1>2

(* A token is written that makes no object.                                  *)
LEMMA GoodToken ==
  ASSUME NEW h, NEW vs, NEW names, NEW g0, NEW free0, NEW n, NEW ids, NEW open, NEW out,
         NEW hp, NEW g, NEW rids, NEW ropen,
         Good(h, vs, names, g0, free0, n, ids, open, out, hp, g, rids, ropen),
         NEW t, t.tag \notin {7, 9}
  PROVE  Good(h, vs, names, g0, free0, n, ids, open, Append(out, t), hp, g, rids, ropen)
<1>1. IsSeq(out)
  BY DEF Good
<1>2. Cardinality(Makes(Append(out, t))) = Cardinality(Makes(out)) /\ IsSeq(Append(out, t))
  <2>1. Cardinality(Makes(out)) \in Nat
    BY <1>1, MakesFinite
  <2> QED BY <1>1, <2>1, MakesAppended, Appended
<1> QED BY <1>2 DEF Good

(* A value is complete.                                                      *)
LEMMA GoodDelivered ==
  ASSUME NEW h, NEW gs, NEW vs, NEW names, Source(h, gs, vs, names), NEW g0, NEW free0,
         NEW n, NEW ids, NEW open, NEW out, NEW hp, NEW g, NEW rids, NEW ropen,
         Good(h, vs, names, g0, free0, n, ids, open, out, hp, g, rids, ropen),
         NEW v, IsNext(h, vs, n, open, v), NEW a \in Vals, Same(ids, rids, v, a), NotFree(hp, a),
         NEW snap, snap.names = names
  PROVE  Together(h, vs, names, g0, free0, Written(Writer(n, ids, open, out)),
                  Deliver(snap, Reader(Len(out), n, hp, g, rids, ropen, a)))
<1> DEFINE k == Len(out)
<1>1. Len(open) = Len(ropen) /\ open \in Seq(Containers) /\ ropen \in Seq(Containers)
  BY DEF Good, Stacks, StackOK
<1>2. open = <<>> <=> ropen = <<>>
  BY <1>1
<1>3. CASE open = <<>>
  <2> DEFINE g2 == WithGlobal(g, names[n + 1], a)
  <2>1. n \in Nat /\ n < Len(names) /\ v = vs[n + 1] /\ Distinct(names) /\ n < Len(vs) /\ Len(vs) \in Nat
    BY <1>3 DEF IsNext, Source, Good, StackOK
  <2>2. GlobalsRead(vs, names, n + 1, ids, rids, g2, g0) /\ HeapOK(hp, g2)
    <3> HIDE DEF g2
    <3>1. GlobalsRead(vs, names, n, ids, rids, g, g0) /\ HeapOK(hp, g) /\ Same(ids, rids, vs[n + 1], a)
      BY <2>1 DEF Good
    <3>2. g2 = WithGlobal(g, names[n + 1], a)
      BY DEF g2
    <3> QED BY <2>1, <3>1, <3>2, GlobalDelivered
  <2> HIDE DEF g2
  <2>3. StackOK(h, vs, n + 1, ids, <<>>)
    BY <1>3, <2>1, StackNamed DEF Good
  <2>4. Good(h, vs, names, g0, free0, n + 1, ids, open, out, hp, g2, rids, ropen)
    BY <1>3, <2>2, <2>3 DEF Good
  <2>5. Written(Writer(n, ids, open, out)) = Writer(n + 1, ids, open, out)
    BY <1>3, WrittenIs
  <2>6. Deliver(snap, Reader(k, n, hp, g, rids, ropen, a)) = Reader(k, n + 1, hp, g2, rids, ropen, a)
    BY <1>2, <1>3, DeliverIs DEF g2
  <2> QED BY <2>4, <2>5, <2>6, TogetherIs
<1>4. CASE open # <<>>
  <2> DEFINE hp2 == WithElement(hp, Head(ropen).at, a)
             less == Less(open)
             rless == Less(ropen)
  <2>1. /\ Copied(h, ids, rids, hp2) /\ Stacks(h, ids, rids, hp2, less, rless)
        /\ HeapOK(hp2, g) /\ FreeIn(hp2) = FreeIn(hp)
    <3> HIDE DEF hp2
    <3>1. /\ h \in [Addresses -> Objects] /\ \A o \in Addresses : Len(h[o].kids) <= MaxKids + 1
      BY DEF Source, HeapOK
    <3>2. /\ MetOK(h, ids) /\ StackOK(h, vs, n, ids, open) /\ Copied(h, ids, rids, hp)
          /\ Stacks(h, ids, rids, hp, open, ropen) /\ HeapOK(hp, g)
      BY DEF Good
    <3>3. hp2 = WithElement(hp, Head(ropen).at, a)
      BY DEF hp2
    <3> QED BY <1>4, <3>1, <3>2, <3>3, ElementDelivered
  <2>2. StackOK(h, vs, n, ids, less)
    <3>1. Head(open).left > 0 /\ h \in [Addresses -> Objects]
      BY <1>4 DEF IsNext, Source, HeapOK
    <3> QED BY <1>4, <3>1, StackLess DEF Good
  <2>5. Written(Writer(n, ids, open, out)) = Writer(n, ids, less, out)
    BY <1>4, WrittenIs
  <2>6. Deliver(snap, Reader(k, n, hp, g, rids, ropen, a)) = Reader(k, n, hp2, g, rids, rless, a)
    BY <1>2, <1>4, DeliverIs
  <2> HIDE DEF hp2, less, rless
  <2>4. Good(h, vs, names, g0, free0, n, ids, less, out, hp2, g, rids, rless)
    BY <2>1, <2>2 DEF Good
  <2> QED BY <2>4, <2>5, <2>6, TogetherIs
<1> QED BY <1>3, <1>4

(* An object is met that is no container; it is b in the new heap.           *)
LEMMA GoodMet ==
  ASSUME NEW h, NEW gs, NEW vs, NEW names, Source(h, gs, vs, names), NEW g0, NEW free0 \in Nat,
         NEW n, NEW ids, NEW open, NEW out, NEW hp, NEW g, NEW rids, NEW ropen,
         Good(h, vs, names, g0, free0, n, ids, open, out, hp, g, rids, ropen),
         NEW x \in Addresses, \A p \in DOMAIN ids : ids[p] # x, NotFree(h, x), ~Saved(h[x]),
         NEW b \in Vals, b # 0 => \A p \in DOMAIN ids : rids[p] # b,
         NEW hp2, \A p \in DOMAIN ids : rids[p] # 0 => hp2[rids[p]] = hp[rids[p]],
         CopyOf(Append(ids, x), Append(rids, b), h[x], b, hp2), HeapOK(hp2, g), NEW t,
         Cardinality(FreeIn(hp)) <= Cardinality(FreeIn(hp2)) + IF t.tag \in {7, 9} THEN 1 ELSE 0
  PROVE  /\ Good(h, vs, names, g0, free0, n, Append(ids, x), open, Append(out, t), hp2, g,
                 Append(rids, b), ropen)
         /\ Same(Append(ids, x), Append(rids, b), x, b)
<1> DEFINE ids2 == Append(ids, x)
           rids2 == Append(rids, b)
           out2 == Append(out, t)
<1>1. /\ IsSeq(out) /\ MetOK(h, ids) /\ StackOK(h, vs, n, ids, open)
      /\ Copied(h, ids, rids, hp) /\ Stacks(h, ids, rids, hp, open, ropen)
      /\ GlobalsRead(vs, names, n, ids, rids, g, g0)
      /\ Cardinality(Makes(out)) <= Len(ids)
      /\ free0 <= Cardinality(FreeIn(hp)) + Cardinality(Makes(out))
  BY DEF Good
<1>2. /\ ids \in Seq(Addresses) /\ rids \in Seq(Vals) /\ Len(rids) = Len(ids)
      /\ open \in Seq(Containers)
  BY <1>1 DEF MetOK, Copied, StackOK
<1>3. MetOK(h, ids2) /\ Copied(h, ids2, rids2, hp2)
  BY <1>1, CopiedMet
<1>4. Stacks(h, ids2, rids2, hp2, open, ropen)
  BY <1>1, <1>2, StacksMet
<1>5. StackOK(h, vs, n, ids2, open)
  BY <1>1, <1>2, StackMet
<1>6. /\ \A v, a : Same(ids, rids, v, a) => Same(ids2, rids2, v, a)
      /\ Same(ids2, rids2, x, b)
  BY <1>2, SameKept
<1>7. GlobalsRead(vs, names, n, ids2, rids2, g, g0)
  <2> HIDE DEF ids2, rids2
  <2> QED BY <1>1, <1>6, GlobalsKept
<1>8. /\ IsSeq(out2) /\ Len(ids2) = Len(ids) + 1 /\ Len(ids) \in Nat
      /\ Cardinality(Makes(out2)) = Cardinality(Makes(out)) + IF t.tag \in {7, 9} THEN 1 ELSE 0
  BY <1>1, <1>2, Appended, MakesAppended
<1>9. /\ Cardinality(Makes(out)) \in Nat /\ Cardinality(FreeIn(hp)) \in Nat
      /\ Cardinality(FreeIn(hp2)) \in Nat
  BY <1>1, MakesFinite, FreeCounted
<1> HIDE DEF ids2, rids2, out2
<1>10. Cardinality(Makes(out2)) <= Len(ids2)
  BY <1>1, <1>8, <1>9
<1>11. free0 <= Cardinality(FreeIn(hp2)) + Cardinality(Makes(out2))
  BY <1>1, <1>8, <1>9
<1>12. Good(h, vs, names, g0, free0, n, ids2, open, out2, hp2, g, rids2, ropen)
  BY <1>3, <1>4, <1>5, <1>7, <1>8, <1>10, <1>11 DEF Good
<1> QED BY <1>6, <1>12 DEF ids2, rids2, out2

LEMMA NoAddress == 0 \notin Addresses /\ Vals = {0} \cup Addresses
BY WorkspaceSizes DEF Addresses, Vals

LEMMA TokenKinds ==
  ASSUME NEW o, o.kind \in Kinds, o.kind # "free"
  PROVE  /\ Skip(o) \/ Saved(o) \/ o.kind = "builtin"
         /\ Skip(o) => Token(o).tag \in {8, 10}
         /\ o.kind = "builtin" => Token(o).tag = 9
         /\ Saved(o) => /\ Token(o).tag = 7 /\ Token(o).kind = o.kind /\ Token(o).idx = o.idx
                        /\ Token(o).code = o.code /\ Token(o).n = Len(o.kids)
<1>1. Skip(o) \/ Saved(o) \/ o.kind = "builtin"
  BY DEF Kinds, Skip, Saved
<1>2. CASE o.kind = "native"
  BY <1>2 DEF Token, Skip, Saved
<1>3. CASE o.kind = "module"
  BY <1>3 DEF Token, Skip, Saved
<1>4. CASE o.kind = "builtin"
  BY <1>4 DEF Token, Skip, Saved
<1>5. CASE Saved(o)
  <2>1. Token(o) = [tag |-> 7, kind |-> o.kind, idx |-> o.idx, code |-> o.code, n |-> Len(o.kids)]
    BY <1>5 DEF Token, Saved
  <2> QED BY <1>1, <1>5, <2>1 DEF Saved, Skip
<1> QED BY <1>1, <1>2, <1>3, <1>4, <1>5 DEF Skip

(* The copies are objects of the kinds of the originals.                     *)
LEMMA CopyKind ==
  ASSUME NEW h, NEW ids, NEW rids, NEW hp, h \in [Addresses -> Objects],
         MetOK(h, ids), Copied(h, ids, rids, hp), NEW p \in DOMAIN ids
  PROVE  /\ ids[p] \in Addresses /\ h[ids[p]].kind \in Kinds /\ h[ids[p]].kind # "free"
         /\ rids[p] \in Vals /\ NotFree(hp, rids[p])
         /\ rids[p] # 0 => rids[p] \in Addresses /\ hp[rids[p]].kind = h[ids[p]].kind
         /\ (rids[p] = 0) <=> Skip(h[ids[p]])
<1>1. ids \in Seq(Addresses) /\ rids \in Seq(Vals) /\ Len(rids) = Len(ids)
  BY DEF MetOK, Copied
<1>2. ids[p] \in Addresses /\ rids[p] \in Vals
  BY <1>1
<1>3. h[ids[p]].kind # "free" /\ h[ids[p]].kind \in Kinds
  BY <1>2, ObjectsOf DEF MetOK, NotFree
<1>4. CopyOf(ids, rids, h[ids[p]], rids[p], hp)
  BY DEF Copied
<1> QED BY <1>2, <1>3, <1>4, NoAddress DEF CopyOf, NotFree

LEMMA NotMetFree ==
  ASSUME NEW h, NEW ids, NEW rids, NEW hp, h \in [Addresses -> Objects],
         MetOK(h, ids), Copied(h, ids, rids, hp), NEW o \in FreeIn(hp), NEW p \in DOMAIN ids
  PROVE  rids[p] # o
<1>1. o \in Addresses /\ hp[o].kind = "free"
  BY DEF FreeIn
<1> QED BY <1>1, CopyKind, NoAddress DEF NotFree

LEMMA NewObjects ==
  /\ \A kind \in Kinds, idx \in Int, code \in Int :
       /\ Obj(kind, idx, code, <<>>) \in Objects
       /\ Obj(kind, idx, code, <<>>).kind = kind /\ Obj(kind, idx, code, <<>>).idx = idx
       /\ Obj(kind, idx, code, <<>>).code = code /\ Obj(kind, idx, code, <<>>).kids = <<>>
  /\ NewBuiltin \in Objects /\ NewBuiltin.kind = "builtin" /\ NewBuiltin.kids = <<>>
<1>1. \A kind \in Kinds, idx \in Int, code \in Int :
       /\ Obj(kind, idx, code, <<>>) \in Objects
       /\ Obj(kind, idx, code, <<>>).kind = kind /\ Obj(kind, idx, code, <<>>).idx = idx
       /\ Obj(kind, idx, code, <<>>).code = code /\ Obj(kind, idx, code, <<>>).kids = <<>>
  <2>1. <<>> \in Seq(Vals)
    OBVIOUS
  <2> QED BY <2>1 DEF Obj, Objects
<1>2. "builtin" \in Kinds /\ 0 \in Int
  BY DEF Kinds
<1> QED BY <1>1, <1>2 DEF NewBuiltin, NoCode

(* A container is met: it is begun on both sides.                            *)
LEMMA GoodOpened ==
  ASSUME NEW h, NEW gs, NEW vs, NEW names, Source(h, gs, vs, names), NEW g0, NEW free0 \in Nat,
         NEW n, NEW ids, NEW open, NEW out, NEW hp, NEW g, NEW rids, NEW ropen,
         Good(h, vs, names, g0, free0, n, ids, open, out, hp, g, rids, ropen),
         NEW x \in Addresses, IsNext(h, vs, n, open, x), \A p \in DOMAIN ids : ids[p] # x,
         NotFree(h, x), Saved(h[x]), NEW o \in FreeIn(hp), NEW hp2,
         hp2 = WithObject(hp, o, Obj(h[x].kind, h[x].idx, h[x].code, <<>>)),
         NEW t, t.tag = 7, NEW m, m = Len(h[x].kids)
  PROVE  Good(h, vs, names, g0, free0, n, Append(ids, x), Opened(x, m, open), Append(out, t), hp2, g,
              Append(rids, o), Opened(o, m, ropen))
<1> DEFINE ids2 == Append(ids, x)
           rids2 == Append(rids, o)
           out2 == Append(out, t)
           obj == Obj(h[x].kind, h[x].idx, h[x].code, <<>>)
<1>1. /\ IsSeq(out) /\ MetOK(h, ids) /\ StackOK(h, vs, n, ids, open)
      /\ Copied(h, ids, rids, hp) /\ Stacks(h, ids, rids, hp, open, ropen)
      /\ GlobalsRead(vs, names, n, ids, rids, g, g0) /\ HeapOK(hp, g)
      /\ Cardinality(Makes(out)) <= Len(ids)
      /\ free0 <= Cardinality(FreeIn(hp)) + Cardinality(Makes(out))
  BY DEF Good
<1>2. /\ ids \in Seq(Addresses) /\ rids \in Seq(Vals) /\ Len(rids) = Len(ids)
      /\ open \in Seq(Containers) /\ h \in [Addresses -> Objects]
      /\ o \in Addresses /\ o \in Vals /\ o # 0
  BY <1>1, NoAddress DEF MetOK, Copied, StackOK, Source, HeapOK, FreeIn
<1>3. /\ h[x].kind \in Kinds /\ h[x].idx \in Int /\ h[x].code \in Int /\ m \in Nat
  BY <1>2, ObjectsOf
<1>4. /\ obj \in Objects /\ obj.kind = h[x].kind /\ obj.idx = h[x].idx /\ obj.code = h[x].code
      /\ obj.kids = <<>> /\ hp2 = WithObject(hp, o, obj)
  BY <1>3, NewObjects
<1> HIDE DEF obj
<1>5. obj.kind # "free" /\ obj.kind # "builtin"
  BY <1>4 DEF Saved
<1>6. /\ HeapOK(hp2, g) /\ hp2[o] = obj /\ \A p : p # o => hp2[p] = hp[p]
      /\ Cardinality(FreeIn(hp2)) = Cardinality(FreeIn(hp)) - 1
  <2>1. Len(obj.kids) <= MaxKids + 1 /\ \A i \in DOMAIN obj.kids : NotFree(hp, obj.kids[i])
    <3>1. Len(obj.kids) = 0 /\ DOMAIN obj.kids = {}
      BY <1>4
    <3> QED BY <3>1, WorkspaceSizes
  <2> QED BY <1>1, <1>4, <1>5, <2>1, HeapWithObject
<1>7. \A p \in DOMAIN ids : rids[p] # o
  BY <1>1, <1>2, NotMetFree
<1>8. \A p \in DOMAIN ids : rids[p] # 0 => hp2[rids[p]] = hp[rids[p]]
  BY <1>6, <1>7
<1>9. CopyOf(ids2, rids2, h[x], o, hp2)
  <2>1. Filled(ids2, rids2, h[x], hp2[o])
    <3>1. Len(<<>>) = 0 /\ DOMAIN <<>> = {}
      OBVIOUS
    <3>2. 0 <= m /\ m = Len(h[x].kids)
      BY <1>3
    <3> HIDE DEF ids2, rids2
    <3> QED BY <1>4, <1>6, <3>1, <3>2 DEF Filled
  <2>2. hp2[o].kind = h[x].kind
    BY <1>4, <1>6
  <2> HIDE DEF ids2, rids2
  <2> QED BY <1>2, <2>1, <2>2 DEF CopyOf, Saved, Skip
<1>10. MetOK(h, ids2) /\ Copied(h, ids2, rids2, hp2)
  <2>1. /\ x \in Addresses /\ \A p \in DOMAIN ids : ids[p] # x
        /\ NotFree(h, x) /\ MetOK(h, ids) /\ Copied(h, ids, rids, hp)
    BY <1>1
  <2> QED BY ONLY <2>1, <1>2, <1>7, <1>8, <1>9, CopiedMet
<1>11. Stacks(h, ids2, rids2, hp2, Opened(x, m, open), Opened(o, m, ropen))
  <2>1. hp2[o].kids = <<>>
    BY <1>4, <1>6
  <2>2. /\ MetOK(h, ids) /\ Copied(h, ids, rids, hp) /\ Stacks(h, ids, rids, hp, open, ropen)
        /\ open \in Seq(Containers) /\ x \in Addresses /\ o \in Addresses /\ m \in Nat
        /\ m = Len(h[x].kids)
    BY <1>1, <1>2, <1>3
  <2> QED BY ONLY <1>8, <2>1, <2>2, StacksOpened
<1>12. StackOK(h, vs, n, ids2, Opened(x, m, open))
  <2>1. StackOK(h, vs, n, ids2, open)
    BY <1>1, <1>2, StackMet
  <2>2. \E p \in DOMAIN ids2 : ids2[p] = x
    <3>1. Len(ids) + 1 \in DOMAIN ids2 /\ ids2[Len(ids) + 1] = x
      BY <1>2
    <3> QED BY <3>1
  <2>3. \A i \in DOMAIN open : open[i].at # x
    BY <1>1 DEF StackOK
  <2> HIDE DEF ids2
  <2> QED BY <1>3, <2>1, <2>2, <2>3, StackOpened
<1>13. /\ \A v, a : Same(ids, rids, v, a) => Same(ids2, rids2, v, a)
  BY <1>2, SameKept
<1>14. GlobalsRead(vs, names, n, ids2, rids2, g, g0)
  <2> HIDE DEF ids2, rids2
  <2> QED BY <1>1, <1>13, GlobalsKept
<1>15. /\ IsSeq(out2) /\ Len(ids2) = Len(ids) + 1 /\ Len(ids) \in Nat
       /\ Cardinality(Makes(out2)) = Cardinality(Makes(out)) + 1
  BY <1>1, <1>2, Appended, MakesAppended
<1>16. Cardinality(Makes(out)) \in Nat /\ Cardinality(FreeIn(hp)) \in Nat
  BY <1>1, MakesFinite, FreeCounted
<1> HIDE DEF ids2, rids2, out2
<1>17. Cardinality(Makes(out2)) <= Len(ids2)
  BY <1>1, <1>15, <1>16
<1>18. free0 <= Cardinality(FreeIn(hp2)) + Cardinality(Makes(out2))
  BY <1>1, <1>6, <1>15, <1>16
<1>19. Good(h, vs, names, g0, free0, n, ids2, Opened(x, m, open), out2, hp2, g, rids2, Opened(o, m, ropen))
  BY <1>6, <1>10, <1>11, <1>12, <1>14, <1>15, <1>17, <1>18 DEF Good
<1> QED BY <1>19 DEF ids2, rids2, out2

(* The next token.                                                           *)
LEMMA NextToken ==
  ASSUME NEW out, IsSeq(out), NEW t, NEW final, Begins(Append(out, t), final)
  PROVE  /\ Len(out) < Len(final) /\ final[Len(out) + 1] = t
         /\ Cardinality(Makes(out)) + (IF t.tag \in {7, 9} THEN 1 ELSE 0) <= Cardinality(Makes(final))
<1>1. /\ Len(Append(out, t)) = Len(out) + 1 /\ Len(out) \in Nat
      /\ Append(out, t)[Len(out) + 1] = t
  BY Appended, IsSeqFacts
<1>2. Len(final) \in Nat
  BY IsSeqFacts DEF Begins
<1>3. Len(out) < Len(final) /\ final[Len(out) + 1] = t
  BY <1>1, <1>2 DEF Begins
<1> QED BY <1>3, MakesAppended, BeginsFewer

(* There is room for the object that the next token makes.                   *)
LEMMA RoomForNext ==
  ASSUME NEW h, NEW vs, NEW names, NEW g0, NEW free0 \in Nat, NEW n, NEW ids, NEW open, NEW out,
         NEW hp, NEW g, NEW rids, NEW ropen,
         Good(h, vs, names, g0, free0, n, ids, open, out, hp, g, rids, ropen),
         NEW t, t.tag \in {7, 9}, NEW final, Begins(Append(out, t), final),
         Cardinality(Makes(final)) <= free0
  PROVE  Lowest(FreeIn(hp)) \in FreeIn(hp)
<1>1. IsSeq(out) /\ IsSeq(final)
  BY DEF Good, Begins
<1>2. /\ Cardinality(Makes(out)) \in Nat /\ Cardinality(Makes(final)) \in Nat
      /\ Cardinality(FreeIn(hp)) \in Nat /\ IsFiniteSet(FreeIn(hp)) /\ FreeIn(hp) \subseteq Addresses
  BY <1>1, MakesFinite, FreeCounted
<1>3. Cardinality(Makes(out)) + 1 <= Cardinality(Makes(final))
  BY <1>1, NextToken
<1>4. free0 <= Cardinality(FreeIn(hp)) + Cardinality(Makes(out))
  BY DEF Good
<1>5. Cardinality(FreeIn(hp)) # 0
  BY <1>2, <1>3, <1>4
<1>6. FreeIn(hp) # {}
  BY <1>5, FS_EmptySet
<1> QED BY <1>2, <1>6, LowestIn

(* The object that was met already, or one like it, is what tag 6 delivers.  *)
LEMMA AgainIs ==
  ASSUME NEW ids \in Seq(Addresses), NEW v, v \in ToSet(ids)
  PROVE  /\ Again(ids, v).tag = 6 /\ Again(ids, v).id \in DOMAIN ids
         /\ ids[Again(ids, v).id] = v
<1>1. \E i \in DOMAIN ids : ids[i] = v
  BY DEF ToSet
<1> DEFINE i == CHOOSE i \in DOMAIN ids : ids[i] = v
<1>2. i \in DOMAIN ids /\ ids[i] = v
  BY <1>1
<1>3. Again(ids, v).tag = 6 /\ Again(ids, v).id = i
  BY DEF Again
<1> QED BY <1>2, <1>3

(* A value is written and read.                                              *)
LEMMA ValueStep ==
  ASSUME NEW h, NEW gs, NEW vs, NEW names, Source(h, gs, vs, names), NEW g0, NEW free0 \in Nat,
         NEW n, NEW ids, NEW open, NEW out, NEW hp, NEW g, NEW rids, NEW ropen, NEW a0,
         Good(h, vs, names, g0, free0, n, ids, open, out, hp, g, rids, ropen),
         NEW v, IsNext(h, vs, n, open, v), NEW snap, snap.names = names,
         ~(ropen # <<>> /\ Head(ropen).left = 0),
         Begins(WriteValue(h, v, Writer(n, ids, open, out)).out, snap.out),
         Cardinality(Makes(snap.out)) <= free0
  PROVE  Together(h, vs, names, g0, free0, WriteValue(h, v, Writer(n, ids, open, out)),
                  ReadNext(snap, Reader(Len(out), n, hp, g, rids, ropen, a0)))
<1> DEFINE st == Writer(n, ids, open, out)
           w2 == WriteValue(h, v, st)
           k == Len(out)
           rd == Reader(k, n, hp, g, rids, ropen, a0)
           t == Token(h[v])
<1>1. /\ IsSeq(out) /\ MetOK(h, ids) /\ StackOK(h, vs, n, ids, open)
      /\ Copied(h, ids, rids, hp) /\ HeapOK(hp, g)
  BY DEF Good
<1>2. /\ ids \in Seq(Addresses) /\ rids \in Seq(Vals) /\ Len(rids) = Len(ids)
      /\ h \in [Addresses -> Objects]
  BY <1>1 DEF MetOK, Copied, Source, HeapOK
<1>3. v \in Vals /\ NotFree(h, v)
  BY <1>1, NextIn
<1>4. \A y : Len(Append(out, y)) = k + 1 /\ IsSeq(Append(out, y))
  BY <1>1, Appended
<1>5. ASSUME NEW y, Begins(Append(out, y), snap.out)
      PROVE  ReadNext(snap, rd) = ReadValue(snap, rd) /\ snap.out[k + 1] = y
  <2>1. k < Len(snap.out) /\ snap.out[k + 1] = y
    BY <1>1, <1>5, NextToken
  <2> QED BY <2>1, ReadNextIs
<1>6. \A m, i, o, y : /\ Written(Writer(m, i, o, y)).out = y /\ Writer(m, i, o, y).out = y
  BY WrittenIs, WriterFields
<1> SUFFICES Together(h, vs, names, g0, free0, w2, ReadNext(snap, rd))
  OBVIOUS
<1> HIDE DEF st, w2, rd, t
<1>7. CASE v \notin Addresses
  <2> DEFINE y == [tag |-> 0]
  <2>1. w2 = Written(Writer(n, ids, open, Append(out, y)))
    BY <1>7, ValueWrittenIs DEF w2, st
  <2>2. y.tag = 0
    OBVIOUS
  <2> HIDE DEF y
  <2>3. Begins(Append(out, y), snap.out)
    BY <1>6, <2>1 DEF w2, st
  <2>4. ReadNext(snap, rd) = Deliver(snap, Reader(k + 1, n, hp, g, rids, ropen, 0))
    BY <1>5, <2>2, <2>3, ReadValueIs DEF rd
  <2>5. Good(h, vs, names, g0, free0, n, ids, open, Append(out, y), hp, g, rids, ropen)
    BY <2>2, GoodToken
  <2>6. 0 \in Vals /\ Same(ids, rids, v, 0) /\ NotFree(hp, 0)
    BY <1>7, NoAddress DEF Same, NotFree
  <2>7. Together(h, vs, names, g0, free0, Written(Writer(n, ids, open, Append(out, y))),
                 Deliver(snap, Reader(Len(Append(out, y)), n, hp, g, rids, ropen, 0)))
    BY <2>5, <2>6, GoodDelivered
  <2> QED BY <1>4, <2>1, <2>4, <2>7 DEF w2, st, rd
<1>8. CASE v \in Addresses /\ v \in ToSet(ids)
  <2> DEFINE y == Again(ids, v)
             a == rids[y.id]
  <2>1. w2 = Written(Writer(n, ids, open, Append(out, y)))
    BY <1>8, ValueWrittenIs DEF w2, st
  <2>2. y.tag = 6 /\ y.id \in DOMAIN ids /\ ids[y.id] = v
    BY <1>2, <1>8, AgainIs
  <2> HIDE DEF y, a
  <2>3. Begins(Append(out, y), snap.out)
    BY <1>6, <2>1 DEF w2, st
  <2>4. ReadNext(snap, rd) = Deliver(snap, Reader(k + 1, n, hp, g, rids, ropen, a))
    BY <1>5, <2>2, <2>3, ReadValueIs DEF rd, a
  <2>5. Good(h, vs, names, g0, free0, n, ids, open, Append(out, y), hp, g, rids, ropen)
    BY <2>2, GoodToken
  <2>6. a \in Vals /\ Same(ids, rids, v, a) /\ NotFree(hp, a)
    BY <1>1, <1>2, <1>8, <2>2, CopyKind DEF Same, a
  <2>7. Together(h, vs, names, g0, free0, Written(Writer(n, ids, open, Append(out, y))),
                 Deliver(snap, Reader(Len(Append(out, y)), n, hp, g, rids, ropen, a)))
    BY <2>5, <2>6, GoodDelivered
  <2> QED BY <1>4, <2>1, <2>4, <2>7 DEF w2, st, rd
<1>9. CASE v \in Addresses /\ v \notin ToSet(ids)
  <2>1. \A p \in DOMAIN ids : ids[p] # v
    BY <1>9 DEF ToSet
  <2>2. h[v].kind \in Kinds /\ h[v].kind # "free"
    BY <1>2, <1>3, <1>9, ObjectsOf DEF NotFree
  <2>3. /\ Skip(h[v]) \/ Saved(h[v]) \/ h[v].kind = "builtin"
        /\ Skip(h[v]) => t.tag \in {8, 10}
        /\ h[v].kind = "builtin" => t.tag = 9
        /\ Saved(h[v]) => /\ t.tag = 7 /\ t.kind = h[v].kind /\ t.idx = h[v].idx
                          /\ t.code = h[v].code /\ t.n = Len(h[v].kids)
    BY <2>2, TokenKinds DEF t
  <2>4. t.tag # 7 => w2 = Written(Writer(n, Append(ids, v), open, Append(out, t)))
    BY <1>9, ValueWrittenIs DEF w2, st, t
  <2>5. t.tag = 7 => w2 = Writer(n, Append(ids, v), Opened(v, t.n, open), Append(out, t))
    BY <1>9, ValueWrittenIs DEF w2, st, t
  <2>6. Begins(Append(out, t), snap.out)
    BY <1>6, <2>4, <2>5 DEF w2, st
  <2>7. ReadNext(snap, rd) = ReadValue(snap, rd) /\ snap.out[k + 1] = t
    BY <1>5, <2>6
  <2>8. \A p \in DOMAIN ids : NotFree(hp, rids[p]) /\ (rids[p] # 0 => rids[p] \in Addresses)
    BY <1>1, <1>2, CopyKind
  <2> DEFINE o == Lowest(FreeIn(hp))
             b == Lowest(Builtins(hp))
  <2> HIDE DEF o, b
  <2>9. t.tag \in {7, 9} => o \in FreeIn(hp)
    BY <2>6, RoomForNext DEF o
  (* It is not a container; x becomes a in hp2.                              *)
  <2>10. ASSUME NEW a \in Vals, NEW hp2, ~Saved(h[v]), NotFree(hp2, a), HeapOK(hp2, g),
                a # 0 => \A p \in DOMAIN ids : rids[p] # a,
                \A p \in DOMAIN ids : rids[p] # 0 => hp2[rids[p]] = hp[rids[p]],
                CopyOf(Append(ids, v), Append(rids, a), h[v], a, hp2),
                Cardinality(FreeIn(hp)) <= Cardinality(FreeIn(hp2)) + IF t.tag \in {7, 9} THEN 1 ELSE 0,
                ReadNext(snap, rd) = Deliver(snap, Reader(k + 1, n, hp2, g, Append(rids, a), ropen, a)),
                t.tag # 7
         PROVE  Together(h, vs, names, g0, free0, w2, ReadNext(snap, rd))
    <3>1. /\ Good(h, vs, names, g0, free0, n, Append(ids, v), open, Append(out, t), hp2, g,
                  Append(rids, a), ropen)
          /\ Same(Append(ids, v), Append(rids, a), v, a)
      <4>1. v \in Addresses /\ NotFree(h, v)
        BY <1>3, <1>9
      <4>2. /\ Source(h, gs, vs, names) /\ free0 \in Nat
            /\ Good(h, vs, names, g0, free0, n, ids, open, out, hp, g, rids, ropen)
        OBVIOUS
      <4> QED BY ONLY <4>1, <4>2, <2>1, <2>10, GoodMet
    <3>2. Together(h, vs, names, g0, free0, Written(Writer(n, Append(ids, v), open, Append(out, t))),
                   Deliver(snap, Reader(Len(Append(out, t)), n, hp2, g, Append(rids, a), ropen, a)))
      <4>1. /\ Source(h, gs, vs, names) /\ IsNext(h, vs, n, open, v) /\ snap.names = names
        OBVIOUS
      <4> QED BY ONLY <4>1, <2>10, <3>1, GoodDelivered
    <3> QED BY <1>4, <2>4, <2>10, <3>2
  <2>11. CASE Skip(h[v])
    <3>1. t.tag \in {8, 10} /\ ~Saved(h[v])
      BY <2>3, <2>11 DEF Skip, Saved
    <3>2. ReadNext(snap, rd) = Deliver(snap, Reader(k + 1, n, hp, g, Append(rids, 0), ropen, 0))
      BY <2>7, <3>1, ReadValueIs DEF rd
    <3>3. CopyOf(Append(ids, v), Append(rids, 0), h[v], 0, hp)
      BY <2>11 DEF CopyOf
    <3>4. Cardinality(FreeIn(hp)) <= Cardinality(FreeIn(hp)) + IF t.tag \in {7, 9} THEN 1 ELSE 0
      BY <3>1, FreeCounted
    <3>5. 0 \in Vals /\ NotFree(hp, 0) /\ t.tag # 7
      BY <3>1, NoAddress DEF NotFree
    <3> QED BY ONLY <1>1, <2>10, <3>1, <3>2, <3>3, <3>4, <3>5
  <2>12. CASE h[v].kind = "builtin" /\ Builtins(hp) # {}
    <3>1. t.tag = 9 /\ ~Saved(h[v]) /\ ~Skip(h[v])
      BY <2>3, <2>12 DEF Saved, Skip
    <3>2. ReadNext(snap, rd) = Deliver(snap, Reader(k + 1, n, hp, g, Append(rids, b), ropen, b))
      BY <2>7, <2>12, <3>1, ReadValueIs DEF rd, b
    <3>3. b \in Addresses /\ hp[b].kind = "builtin"
      <4>1. b \in Builtins(hp)
        <5>1. Builtins(hp) \in SUBSET Addresses
          BY DEF Builtins
        <5> QED BY <2>12, <5>1, LowestIn DEF b
      <4> QED BY <4>1 DEF Builtins
    <3>4. b \in Vals /\ NotFree(hp, b) /\ b # 0 /\ t.tag # 7
      BY <3>1, <3>3, NoAddress DEF NotFree
    <3>5. CopyOf(Append(ids, v), Append(rids, b), h[v], b, hp)
      BY <2>12, <3>1, <3>3, <3>4 DEF CopyOf
    <3>6. ASSUME NEW p \in DOMAIN ids PROVE rids[p] # b
      <4>1. rids[p] = b => h[ids[p]].kind = "builtin" /\ ids[p] \in Addresses
        BY SMTT(30), <1>1, <1>2, <3>3, <3>4, CopyKind
      <4>2. ids[p] # v
        BY <2>1
      <4>3. \A x, y \in Addresses : h[x].kind = "builtin" /\ h[y].kind = "builtin" => x = y
        BY DEF Source, HeapOK
      <4> QED BY <1>9, <2>12, <4>1, <4>2, <4>3
    <3>7. Cardinality(FreeIn(hp)) <= Cardinality(FreeIn(hp)) + IF t.tag \in {7, 9} THEN 1 ELSE 0
      BY <3>1, FreeCounted
    <3> QED BY ONLY <1>1, <2>10, <3>1, <3>2, <3>4, <3>5, <3>6, <3>7
  <2>13. CASE h[v].kind = "builtin" /\ Builtins(hp) = {}
    <3> DEFINE hp2 == WithObject(hp, o, NewBuiltin)
    <3>1. t.tag = 9 /\ ~Saved(h[v]) /\ ~Skip(h[v]) /\ o \in FreeIn(hp) /\ t.tag # 7
      BY <2>3, <2>9, <2>13 DEF Saved, Skip
    <3>2. ReadNext(snap, rd) = Deliver(snap, Reader(k + 1, n, hp2, g, Append(rids, o), ropen, o))
      BY <2>7, <2>13, <3>1, ReadValueIs DEF rd, o
    <3>3. o \in Addresses /\ o \in Vals /\ o # 0
      BY <3>1, NoAddress DEF FreeIn
    <3>4. /\ NewBuiltin \in Objects /\ NewBuiltin.kind = "builtin" /\ NewBuiltin.kids = <<>>
      BY NewObjects
    <3>5. /\ HeapOK(hp2, g) /\ hp2[o] = NewBuiltin /\ \A p : p # o => hp2[p] = hp[p]
          /\ Cardinality(FreeIn(hp2)) = Cardinality(FreeIn(hp)) - 1
      <4>1. Len(NewBuiltin.kids) <= MaxKids + 1 /\ \A i \in DOMAIN NewBuiltin.kids : NotFree(hp, NewBuiltin.kids[i])
        <5>1. Len(NewBuiltin.kids) = 0 /\ DOMAIN NewBuiltin.kids = {}
          BY <3>4
        <5> QED BY <5>1, WorkspaceSizes
      <4>2. \A p \in Addresses : hp[p].kind # "builtin"
        BY <2>13 DEF Builtins
      <4>3. NewBuiltin.kind # "free"
        BY <3>4
      <4>4. HeapOK(hp, g)
        BY <1>1
      <4> QED BY ONLY <3>1, <3>4, <4>1, <4>2, <4>3, <4>4, HeapWithObject
    <3> HIDE DEF hp2
    <3>6. ASSUME NEW p \in DOMAIN ids PROVE rids[p] # o
      BY <1>1, <1>2, <3>1, NotMetFree
    <3>7. CopyOf(Append(ids, v), Append(rids, o), h[v], o, hp2)
      BY <2>13, <3>1, <3>3, <3>4, <3>5 DEF CopyOf
    <3>8. Cardinality(FreeIn(hp)) <= Cardinality(FreeIn(hp2)) + IF t.tag \in {7, 9} THEN 1 ELSE 0
      BY <3>1, <3>5, FreeCounted
    <3>9. NotFree(hp2, o) /\ \A p \in DOMAIN ids : rids[p] # 0 => hp2[rids[p]] = hp[rids[p]]
      BY <3>4, <3>5, <3>6 DEF NotFree
    <3> QED BY ONLY <2>10, <3>1, <3>2, <3>3, <3>5, <3>6, <3>7, <3>8, <3>9
  <2>14. CASE Saved(h[v])
    <3> DEFINE obj == Obj(h[v].kind, h[v].idx, h[v].code, <<>>)
               hp2 == WithObject(hp, o, obj)
    <3>1. t.tag = 7 /\ t.n = Len(h[v].kids) /\ o \in FreeIn(hp)
      BY <2>3, <2>9, <2>14
    <3>2. obj = Obj(t.kind, t.idx, t.code, <<>>)
      BY <2>3, <2>14
    <3> HIDE DEF obj
    <3>3. ReadNext(snap, rd) = Reader(k + 1, n, hp2, g, Append(rids, o), Opened(o, t.n, ropen), o)
      BY <2>7, <3>1, <3>2, ReadValueIs DEF rd, o
    <3>4. Good(h, vs, names, g0, free0, n, Append(ids, v), Opened(v, t.n, open), Append(out, t), hp2, g,
               Append(rids, o), Opened(o, t.n, ropen))
      <4>1. /\ Source(h, gs, vs, names) /\ free0 \in Nat
            /\ Good(h, vs, names, g0, free0, n, ids, open, out, hp, g, rids, ropen)
            /\ v \in Addresses /\ IsNext(h, vs, n, open, v) /\ NotFree(h, v) /\ Saved(h[v])
        BY <1>3, <1>9, <2>14
      <4>2. hp2 = WithObject(hp, o, Obj(h[v].kind, h[v].idx, h[v].code, <<>>))
        BY DEF obj
      <4> QED BY ONLY <2>1, <3>1, <4>1, <4>2, GoodOpened
    <3>5. Together(h, vs, names, g0, free0,
                   Writer(n, Append(ids, v), Opened(v, t.n, open), Append(out, t)),
                   Reader(Len(Append(out, t)), n, hp2, g, Append(rids, o), Opened(o, t.n, ropen), o))
      BY ONLY <3>4, TogetherIs
    <3> QED BY <1>4, <2>5, <3>1, <3>3, <3>5 DEF w2, st, rd
  <2>15. Together(h, vs, names, g0, free0, w2, ReadNext(snap, rd))
    BY <2>3, <2>11, <2>12, <2>13, <2>14 DEF w2, st, rd
  <2> QED BY <2>15 DEF w2, st, rd
<1> QED BY <1>7, <1>8, <1>9

(* Everything is written.                                                    *)
Done(vs, w) == w.open = <<>> /\ w.named = Len(vs)

LEMMA NextStep ==
  ASSUME NEW h, NEW gs, NEW vs, NEW names, Source(h, gs, vs, names), NEW g0, NEW free0 \in Nat,
         NEW w, NEW r, Together(h, vs, names, g0, free0, w, r), NEW snap, snap.names = names,
         Begins(WriteNext(h, vs, w).out, snap.out), Done(vs, w) => w.out = snap.out,
         Cardinality(Makes(snap.out)) <= free0
  PROVE  Together(h, vs, names, g0, free0, WriteNext(h, vs, w), ReadNext(snap, r))
<1>1. PICK n, ids, open, out, hp, g, rids, ropen, a0 :
        /\ w = Writer(n, ids, open, out) /\ r = Reader(Len(out), n, hp, g, rids, ropen, a0)
        /\ Good(h, vs, names, g0, free0, n, ids, open, out, hp, g, rids, ropen)
  BY Zenon DEF Together
<1> DEFINE wr == Writer(n, ids, open, out)
           rd == Reader(Len(out), n, hp, g, rids, ropen, a0)
<1>2. /\ IsSeq(out) /\ MetOK(h, ids) /\ StackOK(h, vs, n, ids, open)
      /\ Copied(h, ids, rids, hp) /\ Stacks(h, ids, rids, hp, open, ropen) /\ HeapOK(hp, g)
  BY <1>1 DEF Good
<1>3. h \in [Addresses -> Objects] /\ vs \in Seq(Vals) /\ n \in 0..Len(vs)
  BY <1>2 DEF Source, HeapOK, StackOK
<1>4. /\ open \in Seq(Containers) /\ ropen \in Seq(Containers) /\ Len(ropen) = Len(open)
      /\ Len(open) \in Nat /\ (open = <<>> <=> ropen = <<>>)
  <2>1. open \in Seq(Containers) /\ ropen \in Seq(Containers) /\ Len(ropen) = Len(open)
    BY <1>2 DEF StackOK, Stacks
  <2> QED BY <2>1
<1>5. CASE open # <<>> /\ Head(open).left = 0
  <2> DEFINE v == Head(open).at
             a == Head(ropen).at
             tail == Tail(open)
             rtail == Tail(ropen)
  <2>1. /\ Stacks(h, ids, rids, hp, tail, rtail)
        /\ ropen # <<>> /\ Head(ropen).left = 0 /\ a \in Addresses /\ v \in Addresses
        /\ Same(ids, rids, v, a)
    BY <1>2, <1>5, StacksTail
  <2>2. StackOK(h, vs, n, ids, tail) /\ IsNext(h, vs, n, tail, v)
    BY <1>2, <1>5, StackTail
  <2>3. WriteNext(h, vs, wr) = Written(Writer(n, ids, tail, out))
    BY <1>5, NextWrittenIs
  <2>4. ReadNext(snap, rd) = Deliver(snap, Reader(Len(out), n, hp, g, rids, rtail, a))
    BY <2>1, ReadNextIs
  <2> HIDE DEF v, a, tail, rtail, wr, rd
  <2>5. Good(h, vs, names, g0, free0, n, ids, tail, out, hp, g, rids, rtail)
    BY <1>1, <2>1, <2>2 DEF Good
  <2>6. a \in Vals /\ NotFree(hp, a)
    <3>1. PICK p \in DOMAIN ids : ids[p] = v /\ rids[p] = a
      BY <2>1 DEF Same
    <3> QED BY <1>2, <1>3, <3>1, CopyKind
  <2>7. Together(h, vs, names, g0, free0, Written(Writer(n, ids, tail, out)),
                 Deliver(snap, Reader(Len(out), n, hp, g, rids, rtail, a)))
    BY <2>1, <2>2, <2>5, <2>6, GoodDelivered
  <2> QED BY <1>1, <2>3, <2>4, <2>7 DEF wr, rd
<1>6. ASSUME NEW v, IsNext(h, vs, n, open, v), ~(ropen # <<>> /\ Head(ropen).left = 0),
             WriteNext(h, vs, wr) = WriteValue(h, v, wr)
      PROVE  Together(h, vs, names, g0, free0, WriteNext(h, vs, w), ReadNext(snap, r))
  <2>1. Begins(WriteValue(h, v, wr).out, snap.out)
    BY <1>1, <1>6
  <2>2. Together(h, vs, names, g0, free0, WriteValue(h, v, wr), ReadNext(snap, rd))
    BY <1>1, <1>6, <2>1, ValueStep
  <2> QED BY <1>1, <1>6, <2>2
<1>7. CASE open # <<>> /\ Head(open).left # 0
  <2>1. Head(open) = open[1] /\ 1 \in DOMAIN open /\ Head(ropen) = ropen[1]
    BY <1>4, <1>7, TailFacts
  <2>2. ropen[1].left = open[1].left
    BY <1>2, <2>1 DEF Stacks, BothOpen
  <2>3. open[1].left \in Nat
    <3>1. open[1] \in Containers
      BY <1>4, <2>1, ElementOfSeq
    <3> QED BY <3>1 DEF Containers
  <2>4. IsNext(h, vs, n, open, NextElement(h, Head(open)))
    BY <1>7, <2>1, <2>3 DEF IsNext
  <2>5. WriteNext(h, vs, wr) = WriteValue(h, NextElement(h, Head(open)), wr)
    BY <1>7, NextWrittenIs
  <2> QED BY <1>6, <1>7, <2>1, <2>2, <2>4, <2>5
<1>8. CASE open = <<>> /\ n < Len(vs)
  <2>1. IsNext(h, vs, n, open, vs[n + 1])
    BY <1>8 DEF IsNext
  <2>2. WriteNext(h, vs, wr) = WriteValue(h, vs[n + 1], wr)
    BY <1>8, NextWrittenIs
  <2> QED BY <1>4, <1>6, <1>8, <2>1, <2>2
<1>9. CASE open = <<>> /\ ~(n < Len(vs))
  <2>1. WriteNext(h, vs, wr) = wr
    BY <1>9, NextWrittenIs
  <2>2. w.open = <<>> /\ w.named = n /\ w.out = out
    BY <1>1, <1>9, WriterFields
  <2>3. n = Len(vs)
    BY <1>3, <1>9
  <2>4. out = snap.out
    BY <2>2, <2>3 DEF Done
  <2>5. ~(Len(out) < Len(snap.out))
    <3>1. Len(out) \in Nat
      BY <1>2, IsSeqFacts
    <3> QED BY <2>4, <3>1
  <2>6. ReadNext(snap, rd) = rd
    BY <1>4, <1>9, <2>5, ReadNextIs
  <2> QED BY <1>1, <2>1, <2>6
<1> QED BY <1>5, <1>7, <1>8, <1>9

-----------------------------------------------------------------------------
(* The tokens of the writer.                                                 *)
LEMMA BeginsSelf == ASSUME NEW out, IsSeq(out) PROVE Begins(out, out)
BY IsSeqFacts DEF Begins

LEMMA BeginsMore == ASSUME NEW out, IsSeq(out), NEW t PROVE Begins(out, Append(out, t))
BY Appended, IsSeqFacts DEF Begins

LEMMA BeginsOn ==
  ASSUME NEW a, NEW b, NEW c, Begins(a, b), Begins(b, c)
  PROVE  Begins(a, c)
<1>1. Len(a) \in Nat /\ Len(b) \in Nat /\ Len(c) \in Nat
  BY IsSeqFacts DEF Begins
<1>2. Len(a) <= Len(c) /\ \A i \in 1..Len(a) : c[i] = a[i]
  BY <1>1 DEF Begins
<1> QED BY <1>2 DEF Begins

LEMMA OutGrows ==
  ASSUME NEW h, NEW vs, NEW st, IsWriter(st), IsSeq(st.out)
  PROVE  IsWriter(WriteNext(h, vs, st)) /\ Begins(st.out, WriteNext(h, vs, st).out)
<1>1. PICK n, ids, open, out : st = Writer(n, ids, open, out)
  BY DEF IsWriter
<1>2. IsSeq(out) /\ st.out = out
  BY <1>1, WriterFields
<1> DEFINE Grows(x) == IsWriter(x) /\ Begins(out, x.out)
<1>3. \A m, i, o : Grows(Writer(m, i, o, out)) /\ Grows(Written(Writer(m, i, o, out)))
  BY <1>2, BeginsSelf, WriterFields, WrittenIs
<1>4. \A m, i, o, t : /\ Grows(Writer(m, i, o, Append(out, t)))
                      /\ Grows(Written(Writer(m, i, o, Append(out, t))))
  BY <1>2, BeginsMore, WriterFields, WrittenIs
<1>5. \A v : Grows(WriteValue(h, v, st))
  <2> TAKE v
  <2>1. CASE v \notin Addresses
    BY <1>1, <1>4, <2>1, ValueWrittenIs
  <2>2. CASE v \in Addresses /\ v \in ToSet(ids)
    BY <1>1, <1>4, <2>2, ValueWrittenIs
  <2>3. CASE v \in Addresses /\ v \notin ToSet(ids) /\ Token(h[v]).tag # 7
    BY <1>1, <1>4, <2>3, ValueWrittenIs
  <2>4. CASE v \in Addresses /\ v \notin ToSet(ids) /\ Token(h[v]).tag = 7
    BY <1>1, <1>4, <2>4, ValueWrittenIs
  <2> QED BY <2>1, <2>2, <2>3, <2>4
<1> HIDE DEF Grows
<1>6. Grows(WriteNext(h, vs, st))
  BY <1>1, <1>3, <1>5, NextWrittenIs
<1> QED BY <1>2, <1>6 DEF Grows

LEMMA TraceWriters ==
  ASSUME NEW h, NEW vs, NEW after, WriteTrace(h, vs, after), NEW k \in 0..MaxSteps
  PROVE  IsWriter(after[k]) /\ IsSeq(after[k].out)
<1> DEFINE S == {j \in Nat : j <= MaxSteps => IsWriter(after[j]) /\ IsSeq(after[j].out)}
<1>1. 0 \in S
  <2>1. after[0] = Writer(0, <<>>, <<>>, <<>>)
    BY DEF WriteTrace, WriteInit, Writer
  <2>2. <<>> \in Seq({})
    OBVIOUS
  <2>3. IsSeq(<<>>)
    BY <2>2, SeqIs
  <2> QED BY <2>1, <2>3, WriterFields
<1>2. ASSUME NEW j \in Nat, j \in S PROVE j + 1 \in S
  <2> SUFFICES ASSUME j + 1 <= MaxSteps PROVE IsWriter(after[j + 1]) /\ IsSeq(after[j + 1].out)
    OBVIOUS
  <2>1. j + 1 \in 1..MaxSteps /\ (j + 1) - 1 = j /\ j <= MaxSteps
    BY WorkspaceSizes
  <2>2. after[j + 1] = WriteNext(h, vs, after[j])
    BY <2>1 DEF WriteTrace
  <2> QED BY <1>2, <2>1, <2>2, OutGrows DEF Begins
<1>3. k \in S
  <2> HIDE DEF S
  <2> QED BY <1>1, <1>2, NatSet
<1> QED BY <1>3

LEMMA DoneStays ==
  ASSUME NEW h, NEW vs, Len(vs) \in Nat, NEW st, IsWriter(st), Done(vs, st)
  PROVE  WriteNext(h, vs, st) = st
<1>1. st = Writer(st.named, st.ids, <<>>, st.out) /\ ~(st.named < Len(vs))
  BY DEF IsWriter, Done
<1> QED BY <1>1, NextWrittenIs

LEMMA TraceGrows ==
  ASSUME NEW h, NEW vs, Len(vs) \in Nat, NEW after, WriteTrace(h, vs, after), NEW k \in 0..MaxSteps
  PROVE  /\ Begins(after[k].out, after[MaxSteps].out)
         /\ Done(vs, after[k]) => after[MaxSteps] = after[k]
<1> DEFINE P(d) == k + d <= MaxSteps => /\ Begins(after[k].out, after[k + d].out)
                                        /\ Done(vs, after[k]) => after[k + d] = after[k]
           S == {d \in Nat : P(d)}
<1>1. P(0)
  BY TraceWriters, BeginsSelf
<1>2. ASSUME NEW d \in Nat, P(d) PROVE P(d + 1)
  <2> SUFFICES ASSUME k + (d + 1) <= MaxSteps
               PROVE  /\ Begins(after[k].out, after[k + (d + 1)].out)
                      /\ Done(vs, after[k]) => after[k + (d + 1)] = after[k]
    OBVIOUS
  <2>1. /\ k + (d + 1) \in 1..MaxSteps /\ (k + (d + 1)) - 1 = k + d /\ k + d <= MaxSteps
        /\ k + d \in 0..MaxSteps
    BY WorkspaceSizes
  <2>2. after[k + (d + 1)] = WriteNext(h, vs, after[k + d])
    BY <2>1 DEF WriteTrace
  <2>3. IsWriter(after[k + d]) /\ IsSeq(after[k + d].out) /\ IsWriter(after[k])
    BY <2>1, TraceWriters
  <2>4. Begins(after[k + d].out, after[k + (d + 1)].out)
    BY <2>2, <2>3, OutGrows
  <2>5. Done(vs, after[k]) => after[k + (d + 1)] = after[k]
    BY <1>2, <2>1, <2>2, <2>3, DoneStays
  <2>6. Begins(after[k].out, after[k + d].out)
    BY <1>2, <2>1
  <2> QED BY <2>4, <2>5, <2>6, BeginsOn
<1>3. 0 \in S
  BY <1>1
<1>4. ASSUME NEW d \in Nat, d \in S PROVE d + 1 \in S
  <2> HIDE DEF P
  <2> QED BY <1>2, <1>4
<1>5. MaxSteps - k \in S
  <2> HIDE DEF S
  <2>1. MaxSteps - k \in Nat
    BY WorkspaceSizes
  <2> QED BY <1>3, <1>4, <2>1, NatSet
<1>6. k + (MaxSteps - k) = MaxSteps
  BY WorkspaceSizes
<1>7. P(MaxSteps - k)
  <2> HIDE DEF P
  <2> QED BY <1>5
<1> QED BY <1>6, <1>7, WorkspaceSizes

-----------------------------------------------------------------------------
(* The writer and the reader of its tokens, from the start to the end.       *)
LEMMA TogetherInit ==
  ASSUME NEW h, NEW gs, NEW vs, NEW names, Source(h, gs, vs, names), NEW h0, NEW g0, HeapOK(h0, g0)
  PROVE  Together(h, vs, names, g0, Cardinality(FreeIn(h0)), WriteInit, ReadInit(h0, g0, 0))
<1>1. WriteInit = Writer(0, <<>>, <<>>, <<>>)
  BY DEF WriteInit, Writer
<1>2. /\ Len(<<>>) = 0 /\ DOMAIN <<>> = {} /\ \A S : <<>> \in Seq(S)
  OBVIOUS
<1>3. ReadInit(h0, g0, 0) = Reader(Len(<<>>), 0, h0, g0, <<>>, <<>>, 0)
  BY <1>2 DEF ReadInit, Reader
<1>4. IsSeq(<<>>) /\ Makes(<<>>) = {} /\ Cardinality(Makes(<<>>)) = 0
  <2>1. IsSeq(<<>>)
    BY <1>2, SeqIs
  <2>2. Makes(<<>>) = {}
    BY <1>2 DEF Makes
  <2> QED BY <2>1, <2>2, FS_EmptySet
<1>5. MetOK(h, <<>>) /\ Copied(h, <<>>, <<>>, h0)
  BY <1>2 DEF MetOK, Copied
<1>6. StackOK(h, vs, 0, <<>>, <<>>)
  <2>1. 0 \in 0..Len(vs)
    <3>1. vs \in Seq(Vals)
      BY DEF Source
    <3> QED BY <3>1
  <2> QED BY <1>2, <2>1 DEF StackOK
<1>7. Stacks(h, <<>>, <<>>, h0, <<>>, <<>>)
  BY <1>2 DEF Stacks
<1>8. GlobalsRead(vs, names, 0, <<>>, <<>>, g0, g0)
  BY DEF GlobalsRead
<1>9. /\ Cardinality(FreeIn(h0)) <= Cardinality(FreeIn(h0)) + Cardinality(Makes(<<>>))
      /\ Cardinality(Makes(<<>>)) <= Len(<<>>)
  BY <1>2, <1>4, FreeCounted
<1>10. Good(h, vs, names, g0, Cardinality(FreeIn(h0)), 0, <<>>, <<>>, <<>>, h0, g0, <<>>, <<>>)
  BY <1>4, <1>5, <1>6, <1>7, <1>8, <1>9 DEF Good
<1> QED BY <1>1, <1>3, <1>10, TogetherIs

LEMMA InStep ==
  ASSUME NEW h, NEW gs, NEW vs, NEW names, Source(h, gs, vs, names), NEW h0, NEW g0, HeapOK(h0, g0),
         NEW snap, snap.names = names, snap.out = WriteAll(h, vs),
         Cardinality(Makes(snap.out)) <= Cardinality(FreeIn(h0)),
         NEW W, WriteTrace(h, vs, W), NEW R, ReadTrace(snap, h0, g0, 0, R)
  PROVE  Together(h, vs, names, g0, Cardinality(FreeIn(h0)), W[MaxSteps], R[MaxSteps])
<1> DEFINE free0 == Cardinality(FreeIn(h0))
           S == {k \in Nat : k <= MaxSteps => Together(h, vs, names, g0, free0, W[k], R[k])}
<1>1. free0 \in Nat /\ Len(vs) \in Nat /\ snap.out = W[MaxSteps].out
  <2>1. vs \in Seq(Vals)
    BY DEF Source
  <2> QED BY <2>1, FreeCounted DEF WriteTrace
<1> HIDE DEF free0
<1>2. 0 \in S
  <2>1. W[0] = WriteInit /\ R[0] = ReadInit(h0, g0, 0)
    BY DEF WriteTrace, ReadTrace
  <2> QED BY <2>1, TogetherInit DEF free0
<1>3. ASSUME NEW k \in Nat, k \in S PROVE k + 1 \in S
  <2> SUFFICES ASSUME k + 1 <= MaxSteps
               PROVE Together(h, vs, names, g0, free0, W[k + 1], R[k + 1])
    OBVIOUS
  <2>1. /\ k + 1 \in 1..MaxSteps /\ (k + 1) - 1 = k /\ k <= MaxSteps
        /\ k \in 0..MaxSteps /\ k + 1 \in 0..MaxSteps
    BY WorkspaceSizes
  <2>2. W[k + 1] = WriteNext(h, vs, W[k]) /\ R[k + 1] = ReadNext(snap, R[k])
    BY <2>1 DEF WriteTrace, ReadTrace
  <2>3. Begins(W[k + 1].out, snap.out) /\ (Done(vs, W[k]) => W[k].out = snap.out)
    <3>1. \A j \in 0..MaxSteps : /\ Begins(W[j].out, W[MaxSteps].out)
                                 /\ Done(vs, W[j]) => W[MaxSteps] = W[j]
      BY <1>1, TraceGrows
    <3> QED BY <1>1, <2>1, <3>1
  <2>4. Together(h, vs, names, g0, free0, W[k], R[k])
    BY <1>3, <2>1
  <2>5. Cardinality(Makes(snap.out)) <= free0
    BY DEF free0
  <2> QED BY <1>1, <2>2, <2>3, <2>4, <2>5, NextStep
<1>4. MaxSteps \in S
  <2> HIDE DEF S
  <2> QED BY <1>2, <1>3, NatSet, WorkspaceSizes
<1> QED BY <1>4, WorkspaceSizes DEF free0

(* The writer comes to an end.  owed: the elements that the open containers  *)
(* still have to write, counted from the outermost one.                      *)
Owed(open, owed, due) ==
    /\ owed \in [0..Len(open) -> Nat] /\ owed[0] = 0 /\ due = owed[Len(open)]
    /\ \A j \in 1..Len(open) : owed[j] = owed[j - 1] + open[Len(open) + 1 - j].left

Owes(open, due) == due \in Nat /\ \E owed : Owed(open, owed, due)

LEMMA OwesNothing == Owes(<<>>, 0)
<1> DEFINE owed == [j \in 0..0 |-> 0]
<1>1. Len(<<>>) = 0
  OBVIOUS
<1>2. owed \in [0..0 -> Nat] /\ owed[0] = 0
  OBVIOUS
<1> HIDE DEF owed
<1>3. Owed(<<>>, owed, 0)
  BY <1>1, <1>2 DEF Owed
<1> QED BY <1>3 DEF Owes

LEMMA OwesTail ==
  ASSUME NEW open \in Seq(Containers), open # <<>>, NEW due, Owes(open, due)
  PROVE  /\ Head(open).left \in Nat /\ due - Head(open).left \in Nat
         /\ Owes(Tail(open), due - Head(open).left)
<1> DEFINE len == Len(open)
           tail == Tail(open)
           left == Head(open).left
<1>1. PICK owed : Owed(open, owed, due)
  BY DEF Owes
<1>2. /\ len \in Nat \ {0} /\ Len(tail) = len - 1 /\ Head(open) = open[1]
      /\ 1 \in DOMAIN open
      /\ \A i \in 1..(len - 1) : tail[i] = open[i + 1]
  BY TailFacts
<1>3. left \in Nat
  <2>1. open[1] \in Containers
    BY <1>2, ElementOfSeq
  <2> QED BY <1>2, <2>1 DEF Containers
<1>4. owed \in [0..len -> Nat] /\ owed[0] = 0 /\ due = owed[len]
      /\ \A j \in 1..len : owed[j] = owed[j - 1] + open[len + 1 - j].left
  BY <1>1 DEF Owed
<1> DEFINE less == [j \in 0..(len - 1) |-> owed[j]]
<1>5. less \in [0..(len - 1) -> Nat] /\ less[0] = 0 /\ \A j \in 0..(len - 1) : less[j] = owed[j]
  <2> HIDE DEF len
  <2> QED BY <1>2, <1>4
<1> HIDE DEF len, tail, less, left
<1>6. owed[len] = owed[len - 1] + left
  <2>1. len \in 1..len /\ len + 1 - len = 1
    BY <1>2
  <2> QED BY <1>2, <1>4, <2>1 DEF left
<1>7. ASSUME NEW j \in 1..(len - 1)
      PROVE  less[j] = less[j - 1] + tail[(len - 1) + 1 - j].left
  <2>1. /\ j \in 1..len /\ j \in 0..(len - 1) /\ j - 1 \in 0..(len - 1) /\ len - j \in 1..(len - 1)
        /\ (len - j) + 1 = len + 1 - j /\ (len - 1) + 1 - j = len - j
    BY <1>2
  <2> QED BY <1>2, <1>4, <1>5, <2>1
<1>8. due - left = less[len - 1] /\ less[len - 1] \in Nat
  BY <1>2, <1>3, <1>4, <1>5, <1>6
<1>9. Owed(tail, less, due - left)
  BY <1>2, <1>5, <1>7, <1>8 DEF Owed
<1> QED BY <1>3, <1>8, <1>9 DEF Owes, tail, left

LEMMA OwesOpened ==
  ASSUME NEW open \in Seq(Containers), NEW v \in Addresses, NEW m \in Nat, NEW due, Owes(open, due)
  PROVE  Owes(Opened(v, m, open), due + m)
<1> DEFINE len == Len(open)
           more == Opened(v, m, open)
<1>1. PICK owed : Owed(open, owed, due)
  BY DEF Owes
<1>2. /\ len \in Nat /\ Len(more) = len + 1 /\ more[1] = [at |-> v, left |-> m]
      /\ \A i \in 1..len : more[i + 1] = open[i]
  BY OpenedFacts
<1>3. more[1].left = m
  BY <1>2
<1>4. owed \in [0..len -> Nat] /\ owed[0] = 0 /\ due = owed[len]
      /\ \A j \in 1..len : owed[j] = owed[j - 1] + open[len + 1 - j].left
  BY <1>1 DEF Owed
<1> DEFINE all == [j \in 0..(len + 1) |-> IF j = len + 1 THEN due + m ELSE owed[j]]
<1> HIDE DEF len, more
<1>5. /\ all \in [0..(len + 1) -> Nat] /\ all[0] = 0 /\ all[len + 1] = due + m
      /\ \A j \in 0..len : all[j] = owed[j]
  <2>1. due \in Nat
    BY DEF Owes
  <2> QED BY <1>2, <1>4, <2>1
<1> HIDE DEF all
<1>6. ASSUME NEW j \in 1..(len + 1)
      PROVE  all[j] = all[j - 1] + more[(len + 1) + 1 - j].left
  <2>1. CASE j = len + 1
    <3>1. (len + 1) + 1 - j = 1 /\ j - 1 = len /\ len \in 0..len
      BY <1>2, <2>1
    <3> QED BY <1>3, <1>4, <1>5, <2>1, <3>1
  <2>2. CASE j # len + 1
    <3>1. /\ j \in 1..len /\ j \in 0..len /\ j - 1 \in 0..len /\ len + 1 - j \in 1..len
          /\ (len + 1 - j) + 1 = (len + 1) + 1 - j
      BY <1>2, <2>2
    <3> QED BY <1>2, <1>4, <1>5, <3>1
  <2> QED BY <2>1, <2>2
<1>7. Owed(more, all, due + m)
  BY <1>2, <1>5, <1>6 DEF Owed
<1>8. due + m \in Nat
  BY DEF Owes
<1> QED BY <1>7, <1>8 DEF Owes, more

LEMMA OwesLess ==
  ASSUME NEW open \in Seq(Containers), open # <<>>, Head(open).left > 0, NEW due, Owes(open, due)
  PROVE  due - 1 \in Nat /\ Owes(Less(open), due - 1)
<1> DEFINE len == Len(open)
           less == Less(open)
<1>1. PICK owed : Owed(open, owed, due)
  BY DEF Owes
<1>2. /\ len \in Nat \ {0} /\ Len(less) = len /\ Head(open) = open[1] /\ 1 \in DOMAIN open
      /\ less[1].left = open[1].left - 1 /\ open[1].left > 0
      /\ \A i \in 1..len : i # 1 => less[i] = open[i]
  BY LessFacts
<1>3. open[1].left \in Nat
  <2>1. open[1] \in Containers
    BY <1>2, ElementOfSeq
  <2> QED BY <2>1 DEF Containers
<1>4. owed \in [0..len -> Nat] /\ owed[0] = 0 /\ due = owed[len]
      /\ \A j \in 1..len : owed[j] = owed[j - 1] + open[len + 1 - j].left
  BY <1>1 DEF Owed
<1> DEFINE all == [j \in 0..len |-> IF j = len THEN due - 1 ELSE owed[j]]
<1> HIDE DEF len, less
<1>5. owed[len] = owed[len - 1] + open[1].left /\ owed[len - 1] \in Nat
  <2>1. len \in 1..len /\ len + 1 - len = 1 /\ len - 1 \in 0..len
    BY <1>2
  <2> QED BY <1>4, <2>1
<1>6. due - 1 \in Nat
  BY <1>2, <1>3, <1>4, <1>5
<1>7. /\ all \in [0..len -> Nat] /\ all[0] = 0 /\ all[len] = due - 1
      /\ \A j \in 0..(len - 1) : all[j] = owed[j]
  BY <1>2, <1>4, <1>6
<1> HIDE DEF all
<1>8. ASSUME NEW j \in 1..len PROVE all[j] = all[j - 1] + less[len + 1 - j].left
  <2>1. CASE j = len
    <3>1. len + 1 - j = 1 /\ j - 1 = len - 1 /\ len - 1 \in 0..(len - 1)
      BY <1>2, <2>1
    <3>2. all[j - 1] = owed[len - 1] /\ all[j] = due - 1
      BY <1>7, <2>1, <3>1
    <3>3. due - 1 = owed[len - 1] + (open[1].left - 1)
      BY <1>3, <1>4, <1>5
    <3> QED BY <1>2, <3>1, <3>2, <3>3
  <2>2. CASE j # len
    <3>1. /\ j \in 0..(len - 1) /\ j - 1 \in 0..(len - 1) /\ len + 1 - j \in 1..len /\ len + 1 - j # 1
      BY <1>2, <2>2
    <3> QED BY <1>2, <1>4, <1>7, <3>1
  <2> QED BY <2>1, <2>2
<1>9. Owed(less, all, due - 1)
  BY <1>2, <1>7, <1>8 DEF Owed
<1> QED BY <1>6, <1>9 DEF Owes, less

-----------------------------------------------------------------------------
(* The steps for the objects that were not met yet.                          *)
Unmet(met) == (MaxKids + 2) * (MaxObjs - met)

LEMMA UnmetFacts ==
  /\ Unmet(0) + NGlobals = MaxSteps
  /\ \A met \in 0..MaxObjs : Unmet(met) \in Nat
  /\ \A met \in Nat : Unmet(met + 1) = Unmet(met) - (MaxKids + 2)
<1>1. \A a, b \in Nat : a * b \in Nat /\ a * b = b * a
  OBVIOUS
<1>2. \A a, b, c \in Int : a * (b - (c + 1)) = a * (b - c) - a
  OBVIOUS
<1>3. MaxKids + 2 \in Nat /\ MaxObjs \in Nat /\ MaxObjs - 0 = MaxObjs /\ NGlobals \in Nat
  BY WorkspaceSizes
<1>4. Unmet(0) + NGlobals = MaxSteps
  <2>1. (MaxKids + 2) * MaxObjs = MaxObjs * (MaxKids + 2) /\ MaxObjs * (MaxKids + 2) \in Nat
    BY <1>1, <1>3
  <2>2. Unmet(0) = (MaxKids + 2) * MaxObjs
    BY <1>3 DEF Unmet
  <2> QED BY <1>3, <2>1, <2>2 DEF MaxSteps
<1>5. ASSUME NEW met \in 0..MaxObjs PROVE Unmet(met) \in Nat
  <2>1. MaxObjs - met \in Nat
    BY <1>3
  <2> QED BY <1>1, <1>3, <2>1 DEF Unmet
<1>6. ASSUME NEW met \in Nat PROVE Unmet(met + 1) = Unmet(met) - (MaxKids + 2)
  BY <1>2, <1>3 DEF Unmet
<1> QED BY <1>4, <1>5, <1>6

(* The state of the writer, with at most b steps to go.                      *)
Going(h, vs, w, b) ==
    \E n, ids, open, out, due :
      /\ w = Writer(n, ids, open, out)
      /\ IsSeq(out) /\ MetOK(h, ids) /\ StackOK(h, vs, n, ids, open)
      /\ Cardinality(Makes(out)) <= Len(ids)
      /\ Owes(open, due) /\ due + (Len(vs) - n) + Unmet(Len(ids)) <= b

LEMMA GoingIs ==
  ASSUME NEW h, NEW vs, NEW n, NEW ids, NEW open, NEW out, NEW due, NEW b,
         IsSeq(out), MetOK(h, ids), StackOK(h, vs, n, ids, open),
         Cardinality(Makes(out)) <= Len(ids), Owes(open, due),
         due + (Len(vs) - n) + Unmet(Len(ids)) <= b
  PROVE  Going(h, vs, Writer(n, ids, open, out), b)
BY Zenon DEF Going

(* A value that was next is complete.                                        *)
LEMMA GoingWritten ==
  ASSUME NEW h, NEW vs, NEW n, NEW ids, NEW open, NEW out, NEW due, NEW b \in Int,
         h \in [Addresses -> Objects], vs \in Seq(Vals),
         IsSeq(out), MetOK(h, ids), StackOK(h, vs, n, ids, open),
         Cardinality(Makes(out)) <= Len(ids), Owes(open, due),
         due + (Len(vs) - n) + Unmet(Len(ids)) <= b,
         NEW v, IsNext(h, vs, n, open, v)
  PROVE  Going(h, vs, Written(Writer(n, ids, open, out)), b - 1)
<1>1. Len(ids) \in 0..MaxObjs /\ Len(vs) \in Nat /\ n \in Nat /\ due \in Nat /\ open \in Seq(Containers)
  BY MetBounded, WorkspaceSizes DEF StackOK, Owes
<1>2. Unmet(Len(ids)) \in Nat
  BY <1>1, UnmetFacts
<1>3. CASE open = <<>>
  <2>1. n < Len(vs)
    BY <1>3 DEF IsNext
  <2>2. StackOK(h, vs, n + 1, ids, open)
    BY <1>1, <1>3, <2>1, StackNamed
  <2>3. due + (Len(vs) - (n + 1)) + Unmet(Len(ids)) <= b - 1
    BY <1>1, <1>2
  <2>4. Written(Writer(n, ids, open, out)) = Writer(n + 1, ids, open, out)
    BY <1>3, WrittenIs
  <2> QED BY <2>2, <2>3, <2>4, GoingIs
<1>4. CASE open # <<>>
  <2>1. Head(open).left > 0
    BY <1>4 DEF IsNext
  <2>2. StackOK(h, vs, n, ids, Less(open))
    BY <1>4, <2>1, StackLess
  <2>3. due - 1 \in Nat /\ Owes(Less(open), due - 1)
    BY <1>1, <1>4, <2>1, OwesLess
  <2>4. (due - 1) + (Len(vs) - n) + Unmet(Len(ids)) <= b - 1
    BY <1>1, <1>2
  <2>5. Written(Writer(n, ids, open, out)) = Writer(n, ids, Less(open), out)
    BY <1>4, WrittenIs
  <2> QED BY <2>2, <2>3, <2>4, <2>5, GoingIs
<1> QED BY <1>3, <1>4

LEMMA GoingValue ==
  ASSUME NEW h, NEW gs, NEW vs, NEW names, Source(h, gs, vs, names),
         NEW n, NEW ids, NEW open, NEW out, NEW due, NEW b \in Int,
         IsSeq(out), MetOK(h, ids), StackOK(h, vs, n, ids, open),
         Cardinality(Makes(out)) <= Len(ids), Owes(open, due),
         due + (Len(vs) - n) + Unmet(Len(ids)) <= b,
         NEW v, IsNext(h, vs, n, open, v)
  PROVE  Going(h, vs, WriteValue(h, v, Writer(n, ids, open, out)), b - 1)
<1> DEFINE st == Writer(n, ids, open, out)
           t == Token(h[v])
           ids2 == Append(ids, v)
<1>1. h \in [Addresses -> Objects] /\ vs \in Seq(Vals)
  BY DEF Source, HeapOK
<1>2. /\ Len(ids) \in 0..MaxObjs /\ Len(vs) \in Nat /\ n \in Nat /\ due \in Nat
      /\ open \in Seq(Containers) /\ ids \in Seq(Addresses) /\ MaxKids \in Nat
      /\ Cardinality(Makes(out)) \in Nat
  <2>1. Len(ids) \in 0..MaxObjs /\ MaxKids \in Nat
    BY MetBounded, WorkspaceSizes
  <2>2. Cardinality(Makes(out)) \in Nat
    BY MakesFinite
  <2> QED BY <1>1, <2>1, <2>2 DEF StackOK, Owes, MetOK
<1>3. v \in Vals /\ NotFree(h, v)
  BY NextIn
<1>4. ASSUME NEW y, y.tag \notin {7, 9}
      PROVE  Going(h, vs, Written(Writer(n, ids, open, Append(out, y))), b - 1)
  <2>1. IsSeq(Append(out, y)) /\ Cardinality(Makes(Append(out, y))) <= Len(ids)
    BY <1>2, <1>4, Appended, MakesAppended
  <2> QED BY <1>1, <2>1, GoingWritten
<1>5. CASE v \notin Addresses
  BY <1>4, <1>5, ValueWrittenIs
<1>6. CASE v \in Addresses /\ v \in ToSet(ids)
  <2>1. Again(ids, v).tag = 6
    BY <1>2, <1>6, AgainIs
  <2> QED BY <1>4, <1>6, <2>1, ValueWrittenIs
<1>7. CASE v \in Addresses /\ v \notin ToSet(ids)
  <2>1. \A p \in DOMAIN ids : ids[p] # v
    BY <1>7 DEF ToSet
  <2>2. h[v].kind \in Kinds /\ h[v].kind # "free" /\ Len(h[v].kids) \in Nat /\ Len(h[v].kids) <= MaxKids + 1
    BY <1>1, <1>3, <1>7, ObjectsOf DEF NotFree, Source, HeapOK
  <2>3. /\ Len(ids2) = Len(ids) + 1 /\ DOMAIN ids2 = 1..(Len(ids) + 1) /\ ids2 \in Seq(Addresses)
        /\ DOMAIN ids = 1..Len(ids) /\ Len(ids) \in Nat
        /\ \A p \in DOMAIN ids : ids2[p] = ids[p]
        /\ ids2[Len(ids) + 1] = v
    BY <1>2, <1>7
  <2>4. StackOK(h, vs, n, ids2, open)
    BY <1>2, <1>7, StackMet
  <2> HIDE DEF ids2
  <2>5. \A p \in DOMAIN ids2 : p \in DOMAIN ids \/ p = Len(ids) + 1
    BY <2>3
  <2>6. MetOK(h, ids2)
    BY <1>3, <2>1, <2>3, <2>5 DEF MetOK
  <2>7. IsSeq(Append(out, t)) /\ Cardinality(Makes(Append(out, t))) <= Len(ids2)
    <3> HIDE DEF t
    <3>1. IsSeq(Append(out, t))
      BY Appended
    <3>2. Cardinality(Makes(Append(out, t))) = Cardinality(Makes(out)) + IF t.tag \in {7, 9} THEN 1 ELSE 0
      BY MakesAppended
    <3> QED BY <1>2, <2>3, <3>1, <3>2
  <2>8. /\ Unmet(Len(ids2)) = Unmet(Len(ids)) - (MaxKids + 2)
        /\ Unmet(Len(ids2)) \in Nat /\ Unmet(Len(ids)) \in Nat
    <3>1. Len(ids2) \in 0..MaxObjs
      BY <2>6, MetBounded, WorkspaceSizes
    <3> QED BY <1>2, <2>3, <3>1, UnmetFacts
  <2>9. /\ Saved(h[v]) => t.tag = 7 /\ t.n = Len(h[v].kids)
        /\ t.tag = 7 => Saved(h[v])
    BY <2>2, TokenKinds
  <2>10. CASE t.tag # 7
    <3>1. WriteValue(h, v, st) = Written(Writer(n, ids2, open, Append(out, t)))
      BY <1>7, <2>10, ValueWrittenIs DEF ids2
    <3>2. due + (Len(vs) - n) + Unmet(Len(ids2)) <= b
      BY <1>2, <2>8
    <3> HIDE DEF t, st
    <3>3. Going(h, vs, Written(Writer(n, ids2, open, Append(out, t))), b - 1)
      BY <1>1, <2>4, <2>6, <2>7, <3>2, GoingWritten
    <3> QED BY <3>1, <3>3 DEF st
  <2>11. CASE t.tag = 7
    <3> DEFINE m == Len(h[v].kids)
    <3>1. WriteValue(h, v, st) = Writer(n, ids2, Opened(v, m, open), Append(out, t))
      BY <1>7, <2>9, <2>11, ValueWrittenIs DEF ids2
    <3>2. Saved(h[v]) /\ m \in Nat
      BY <2>2, <2>9, <2>11
    <3>3. StackOK(h, vs, n, ids2, Opened(v, m, open))
      <4>1. \A i \in DOMAIN open : open[i].at # v
        BY <2>1 DEF StackOK
      <4>2. \E p \in DOMAIN ids2 : ids2[p] = v
        BY <2>3
      <4> QED BY <1>7, <2>4, <3>2, <4>1, <4>2, StackOpened
    <3>4. Owes(Opened(v, m, open), due + m)
      BY <1>2, <1>7, <3>2, OwesOpened
    <3>5. (due + m) + (Len(vs) - n) + Unmet(Len(ids2)) <= b - 1
      <4>1. m <= MaxKids + 1
        BY <2>2
      <4>2. due + (Len(vs) - n) + Unmet(Len(ids)) <= b
        OBVIOUS
      <4> HIDE DEF m
      <4> QED BY SMTT(30), <1>2, <2>8, <3>2, <4>1, <4>2
    <3> HIDE DEF t, st, m
    <3>6. Going(h, vs, Writer(n, ids2, Opened(v, m, open), Append(out, t)), b - 1)
      BY <2>6, <2>7, <3>3, <3>4, <3>5, GoingIs
    <3> QED BY <3>1, <3>6 DEF st
  <2> QED BY <2>10, <2>11
<1> QED BY <1>5, <1>6, <1>7

LEMMA GoingNext ==
  ASSUME NEW h, NEW gs, NEW vs, NEW names, Source(h, gs, vs, names),
         NEW w, NEW b \in Int, Going(h, vs, w, b)
  PROVE  /\ Done(vs, w) => WriteNext(h, vs, w) = w
         /\ ~Done(vs, w) => Going(h, vs, WriteNext(h, vs, w), b - 1) /\ b >= 1
<1>1. PICK n, ids, open, out, due :
        /\ w = Writer(n, ids, open, out)
        /\ IsSeq(out) /\ MetOK(h, ids) /\ StackOK(h, vs, n, ids, open)
        /\ Cardinality(Makes(out)) <= Len(ids)
        /\ Owes(open, due) /\ due + (Len(vs) - n) + Unmet(Len(ids)) <= b
  BY Zenon DEF Going
<1> DEFINE wr == Writer(n, ids, open, out)
<1>2. h \in [Addresses -> Objects] /\ vs \in Seq(Vals)
  BY DEF Source, HeapOK
<1>3. /\ Len(ids) \in 0..MaxObjs /\ Len(vs) \in Nat /\ n \in 0..Len(vs) /\ due \in Nat
      /\ open \in Seq(Containers) /\ Unmet(Len(ids)) \in Nat
  <2>1. Len(ids) \in 0..MaxObjs
    BY <1>1, MetBounded, WorkspaceSizes
  <2> QED BY <1>1, <1>2, <2>1, UnmetFacts DEF StackOK, Owes
<1>4. Done(vs, w) <=> open = <<>> /\ n = Len(vs)
  BY <1>1, WriterFields DEF Done
<1>5. CASE open # <<>> /\ Head(open).left = 0
  <2>1. StackOK(h, vs, n, ids, Tail(open)) /\ IsNext(h, vs, n, Tail(open), Head(open).at)
    BY <1>1, <1>5, StackTail
  <2>2. Owes(Tail(open), due)
    <3>1. Owes(Tail(open), due - 0)
      BY <1>1, <1>3, <1>5, OwesTail
    <3> QED BY <1>3, <3>1
  <2>3. WriteNext(h, vs, wr) = Written(Writer(n, ids, Tail(open), out))
    BY <1>5, NextWrittenIs
  <2>4. Going(h, vs, Written(Writer(n, ids, Tail(open), out)), b - 1)
    BY <1>1, <1>2, <2>1, <2>2, GoingWritten
  <2>5. n < Len(vs)
    <3>1. Len(open) \in DOMAIN open
      BY <1>3, <1>5
    <3> QED BY <1>1, <3>1 DEF StackOK
  <2> QED BY <1>1, <1>3, <1>4, <1>5, <2>3, <2>4, <2>5
<1>6. CASE open # <<>> /\ Head(open).left # 0
  <2>1. Head(open).left \in Nat
    BY <1>1, <1>3, <1>6, OwesTail
  <2>2. IsNext(h, vs, n, open, NextElement(h, Head(open)))
    BY <1>6, <2>1 DEF IsNext
  <2>3. WriteNext(h, vs, wr) = WriteValue(h, NextElement(h, Head(open)), wr)
    BY <1>6, NextWrittenIs
  <2>4. Going(h, vs, WriteValue(h, NextElement(h, Head(open)), wr), b - 1)
    BY <1>1, <2>2, GoingValue
  <2>5. n < Len(vs)
    <3>1. Len(open) \in DOMAIN open
      BY <1>3, <1>6
    <3> QED BY <1>1, <3>1 DEF StackOK
  <2> QED BY <1>1, <1>3, <1>4, <1>6, <2>3, <2>4, <2>5
<1>7. CASE open = <<>> /\ n < Len(vs)
  <2>1. IsNext(h, vs, n, open, vs[n + 1])
    BY <1>7 DEF IsNext
  <2>2. WriteNext(h, vs, wr) = WriteValue(h, vs[n + 1], wr)
    BY <1>7, NextWrittenIs
  <2>3. Going(h, vs, WriteValue(h, vs[n + 1], wr), b - 1)
    BY <1>1, <2>1, GoingValue
  <2> QED BY <1>1, <1>3, <1>4, <1>7, <2>2, <2>3
<1>8. CASE open = <<>> /\ ~(n < Len(vs))
  <2>1. n = Len(vs)
    BY <1>3, <1>8
  <2>2. WriteNext(h, vs, wr) = wr
    BY <1>8, NextWrittenIs
  <2> QED BY <1>1, <1>4, <1>8, <2>1, <2>2
<1> QED BY <1>5, <1>6, <1>7, <1>8

(* In the end everything is written, and not more tokens make an object than *)
(* there can be objects.                                                     *)
LEMMA WriterEnds ==
  ASSUME NEW h, NEW gs, NEW vs, NEW names, Source(h, gs, vs, names), Len(vs) <= NGlobals,
         NEW W, WriteTrace(h, vs, W)
  PROVE  /\ Done(vs, W[MaxSteps]) /\ WriteAll(h, vs) = W[MaxSteps].out
         /\ Cardinality(Makes(WriteAll(h, vs))) <= MaxObjs
<1> DEFINE S == {k \in Nat : k <= MaxSteps =>
                   /\ \E b \in Int : Going(h, vs, W[k], b)
                   /\ Done(vs, W[k]) \/ Going(h, vs, W[k], MaxSteps - k)}
<1>1. MaxSteps \in Nat /\ vs \in Seq(Vals) /\ Len(vs) \in Nat
  BY WorkspaceSizes DEF Source
<1>2. 0 \in S
  <2>1. W[0] = Writer(0, <<>>, <<>>, <<>>)
    BY DEF WriteTrace, WriteInit, Writer
  <2>2. /\ Len(<<>>) = 0 /\ DOMAIN <<>> = {} /\ \A A : <<>> \in Seq(A)
    OBVIOUS
  <2>3. IsSeq(<<>>) /\ Cardinality(Makes(<<>>)) = 0
    <3>1. IsSeq(<<>>)
      BY <2>2, SeqIs
    <3>2. Makes(<<>>) = {}
      BY <2>2 DEF Makes
    <3> QED BY <3>1, <3>2, FS_EmptySet
  <2>4. MetOK(h, <<>>) /\ StackOK(h, vs, 0, <<>>, <<>>)
    BY <1>1, <2>2 DEF MetOK, StackOK
  <2>5. 0 + (Len(vs) - 0) + Unmet(Len(<<>>)) <= MaxSteps
    <3>1. Unmet(0) + NGlobals = MaxSteps /\ Unmet(0) \in Nat
      BY UnmetFacts, WorkspaceSizes
    <3> QED BY <1>1, <2>2, <3>1, WorkspaceSizes
  <2>6. Cardinality(Makes(<<>>)) <= Len(<<>>)
    BY <2>2, <2>3
  <2>7. Going(h, vs, W[0], MaxSteps)
    BY <2>1, <2>3, <2>4, <2>5, <2>6, OwesNothing, GoingIs
  <2> QED BY <1>1, <2>7
<1>3. ASSUME NEW k \in Nat, k \in S PROVE k + 1 \in S
  <2> SUFFICES ASSUME k + 1 <= MaxSteps
               PROVE  /\ \E b \in Int : Going(h, vs, W[k + 1], b)
                      /\ Done(vs, W[k + 1]) \/ Going(h, vs, W[k + 1], MaxSteps - (k + 1))
    OBVIOUS
  <2>1. k + 1 \in 1..MaxSteps /\ (k + 1) - 1 = k /\ k <= MaxSteps
    BY <1>1
  <2>2. W[k + 1] = WriteNext(h, vs, W[k])
    BY <2>1 DEF WriteTrace
  <2>3. PICK b \in Int : Going(h, vs, W[k], b)
    BY <1>3, <2>1
  <2>4. Done(vs, W[k]) \/ Going(h, vs, W[k], MaxSteps - k)
    BY <1>3, <2>1
  <2>5. CASE Done(vs, W[k])
    BY <2>2, <2>3, <2>5, GoingNext
  <2>6. CASE ~Done(vs, W[k])
    <3>1. MaxSteps - k \in Int /\ (MaxSteps - k) - 1 = MaxSteps - (k + 1) /\ MaxSteps - (k + 1) \in Int
      BY <1>1
    <3>2. Going(h, vs, WriteNext(h, vs, W[k]), (MaxSteps - k) - 1)
      BY <2>4, <2>6, <3>1, GoingNext
    <3> QED BY <2>2, <3>1, <3>2
  <2> QED BY <2>5, <2>6
<1>4. MaxSteps \in S
  <2> HIDE DEF S
  <2> QED BY <1>1, <1>2, <1>3, NatSet
<1>5. PICK b \in Int : Going(h, vs, W[MaxSteps], b)
  BY <1>1, <1>4
<1>6. Done(vs, W[MaxSteps])
  <2> SUFFICES ASSUME ~Done(vs, W[MaxSteps]) PROVE FALSE
    OBVIOUS
  <2>1. Going(h, vs, W[MaxSteps], 0)
    BY <1>1, <1>4
  <2> QED BY <2>1, GoingNext
<1>7. Cardinality(Makes(W[MaxSteps].out)) <= MaxObjs
  <2>1. PICK n, ids, open, out, due :
          /\ W[MaxSteps] = Writer(n, ids, open, out)
          /\ IsSeq(out) /\ MetOK(h, ids) /\ Cardinality(Makes(out)) <= Len(ids)
    BY <1>5, Zenon DEF Going
  <2> QED BY <2>1, WriterFields, MetBounded, MakesFinite, WorkspaceSizes
<1> QED BY <1>6, <1>7 DEF WriteTrace

(* The names of the globals that are written.                                *)
NamesRun(g, upTo) ==
    /\ upTo[0] = <<>>
    /\ \A n \in 1..NGlobals : upTo[n] = IF IsSaved(g, n) THEN Append(upTo[n - 1], n) ELSE upTo[n - 1]
    /\ Names(g) = upTo[NGlobals]

LEMMA NamesLoop ==
  ASSUME NEW g
  PROVE  \E upTo : NamesRun(g, upTo)
<1> DEFINE Step(n, x) == IF IsSaved(g, n) THEN Append(x, n) ELSE x
           Loop(m, f) == f = [i \in 0..m |-> IF i = 0 THEN <<>> ELSE Step(i, f[i - 1])]
           S == {m \in Nat : \E f : Loop(m, f)}
<1>1. NGlobals \in S
  <2> HIDE DEF Step
  <2>1. 0 \in S
    <3>1. Loop(0, [i \in 0..0 |-> <<>>])
      OBVIOUS
    <3> QED BY <3>1
  <2>2. ASSUME NEW m \in Nat, m \in S PROVE m + 1 \in S
    <3>1. PICK e : Loop(m, e)
      BY <2>2
    <3> DEFINE f == [i \in 0..(m + 1) |-> IF i = m + 1 THEN Step(m + 1, e[m]) ELSE e[i]]
    <3>2. ASSUME NEW i \in 0..(m + 1)
          PROVE  f[i] = IF i = 0 THEN <<>> ELSE Step(i, f[i - 1])
      <4>1. CASE i = 0
        BY <3>1, <4>1
      <4>2. CASE i = m + 1
        BY <3>1, <4>2
      <4>3. CASE i \in 1..m
        <5>1. f[i] = e[i] /\ f[i - 1] = e[i - 1] /\ i \in 0..m /\ i # 0
          BY <4>3
        <5> QED BY <3>1, <5>1
      <4> QED BY <4>1, <4>2, <4>3
    <3>3. Loop(m + 1, f)
      <4> HIDE DEF f
      <4>1. f = [i \in 0..(m + 1) |-> f[i]]
        BY DEF f
      <4> QED BY <3>2, <4>1
    <3>4. m + 1 \in Nat
      OBVIOUS
    <3> HIDE DEF Loop
    <3> QED BY <3>3, <3>4
  <2> HIDE DEF S
  <2> QED BY <2>1, <2>2, NatSet, WorkspaceSizes
<1> DEFINE upTo[n \in 0..NGlobals] == IF n = 0 THEN <<>> ELSE Step(n, upTo[n - 1])
<1>2. upTo = [n \in 0..NGlobals |-> IF n = 0 THEN <<>> ELSE Step(n, upTo[n - 1])]
  <2> HIDE DEF Step
  <2> QED BY <1>1 DEF upTo
<1>3. Names(g) = upTo[NGlobals]
  BY DEF Names
<1> HIDE DEF upTo, Step
<1>4. upTo[0] = <<>>
  BY <1>2, WorkspaceSizes
<1>5. \A n \in 1..NGlobals : upTo[n] = Step(n, upTo[n - 1])
  BY <1>2, WorkspaceSizes
<1> QED BY <1>3, <1>4, <1>5 DEF NamesRun, Step

LEMMA NamesEqual ==
  ASSUME NEW g, NEW g2, \A n \in Slots : IsSaved(g, n) <=> IsSaved(g2, n)
  PROVE  Names(g) = Names(g2)
<1>1. PICK u : NamesRun(g, u)
  BY NamesLoop
<1>2. PICK u2 : NamesRun(g2, u2)
  BY NamesLoop
<1> DEFINE S == {n \in Nat : n <= NGlobals => u[n] = u2[n]}
<1>3. 0 \in S
  BY <1>1, <1>2 DEF NamesRun
<1>4. ASSUME NEW n \in Nat, n \in S PROVE n + 1 \in S
  <2> SUFFICES ASSUME n + 1 <= NGlobals PROVE u[n + 1] = u2[n + 1]
    OBVIOUS
  <2>1. n + 1 \in 1..NGlobals /\ n + 1 \in Slots /\ (n + 1) - 1 = n /\ u[n] = u2[n]
    BY <1>4, WorkspaceSizes DEF Slots
  <2> QED BY <1>1, <1>2, <2>1 DEF NamesRun
<1>5. NGlobals \in S
  <2> HIDE DEF S
  <2> QED BY <1>3, <1>4, NatSet, WorkspaceSizes
<1> QED BY <1>1, <1>2, <1>5 DEF NamesRun

(* The names of slots up to n.                                               *)
NamesUpTo(g, n, s) ==
    /\ s \in Seq(Slots) /\ Len(s) <= n
    /\ \A i \in DOMAIN s : s[i] <= n
    /\ \A i, j \in DOMAIN s : s[i] = s[j] => i = j
    /\ \A m \in 1..n : IsSaved(g, m) <=> \E i \in DOMAIN s : s[i] = m

LEMMA NamesFacts ==
  ASSUME NEW g
  PROVE  NamesUpTo(g, NGlobals, Names(g))
<1>1. PICK u : NamesRun(g, u)
  BY NamesLoop
<1> DEFINE S == {n \in Nat : n <= NGlobals => NamesUpTo(g, n, u[n])}
<1>2. 0 \in S
  <2>1. <<>> \in Seq(Slots) /\ Len(<<>>) = 0 /\ DOMAIN <<>> = {} /\ 1..0 = {}
    OBVIOUS
  <2>2. NamesUpTo(g, 0, <<>>)
    BY <2>1 DEF NamesUpTo
  <2>3. u[0] = <<>>
    BY <1>1 DEF NamesRun
  <2> HIDE DEF NamesUpTo
  <2> QED BY <2>2, <2>3
<1>3. ASSUME NEW n \in Nat, n \in S PROVE n + 1 \in S
  <2> SUFFICES ASSUME n + 1 <= NGlobals PROVE NamesUpTo(g, n + 1, u[n + 1])
    OBVIOUS
  <2>1. n + 1 \in 1..NGlobals /\ n + 1 \in Slots /\ (n + 1) - 1 = n /\ Slots \subseteq Nat
    BY WorkspaceSizes DEF Slots
  <2>2. NamesUpTo(g, n, u[n])
    <3>1. n <= NGlobals
      BY <2>1, WorkspaceSizes
    <3> QED BY <1>3, <3>1
  <2>3. u[n + 1] = IF IsSaved(g, n + 1) THEN Append(u[n], n + 1) ELSE u[n]
    BY <1>1, <2>1 DEF NamesRun
  <2>4. /\ u[n] \in Seq(Slots) /\ Len(u[n]) \in Nat /\ Len(u[n]) <= n
        /\ \A i \in DOMAIN u[n] : u[n][i] <= n /\ u[n][i] \in Nat
        /\ \A i, j \in DOMAIN u[n] : u[n][i] = u[n][j] => i = j
        /\ \A m \in 1..n : IsSaved(g, m) <=> \E i \in DOMAIN u[n] : u[n][i] = m
    <3>1. /\ u[n] \in Seq(Slots) /\ Len(u[n]) <= n
          /\ \A i \in DOMAIN u[n] : u[n][i] <= n
          /\ \A i, j \in DOMAIN u[n] : u[n][i] = u[n][j] => i = j
          /\ \A m \in 1..n : IsSaved(g, m) <=> \E i \in DOMAIN u[n] : u[n][i] = m
      BY <2>2 DEF NamesUpTo
    <3>2. Len(u[n]) \in Nat /\ \A i \in DOMAIN u[n] : u[n][i] \in Slots
      BY <3>1
    <3> QED BY <2>1, <3>1, <3>2
  <2>5. CASE ~IsSaved(g, n + 1)
    <3>1. u[n + 1] = u[n]
      BY <2>3, <2>5
    <3>2. \A i \in DOMAIN u[n] : u[n][i] # n + 1
      BY <2>4
    <3>3. \A m \in 1..(n + 1) : m \in 1..n \/ m = n + 1
      OBVIOUS
    <3>4. \A m \in 1..(n + 1) : IsSaved(g, m) <=> \E i \in DOMAIN u[n] : u[n][i] = m
      BY <2>4, <2>5, <3>2, <3>3
    <3> QED BY <2>4, <3>1, <3>4 DEF NamesUpTo
  <2>6. CASE IsSaved(g, n + 1)
    <3> DEFINE s == u[n]
               s2 == Append(s, n + 1)
    <3>1. u[n + 1] = s2
      BY <2>3, <2>6
    <3>2. /\ s2 \in Seq(Slots) /\ Len(s2) = Len(s) + 1 /\ DOMAIN s = 1..Len(s)
          /\ DOMAIN s2 = 1..(Len(s) + 1) /\ s2[Len(s) + 1] = n + 1
          /\ \A i \in DOMAIN s : i \in DOMAIN s2 /\ s2[i] = s[i]
      BY <2>1, <2>4
    <3> HIDE DEF s2
    <3>3. \A i \in DOMAIN s2 : i \in DOMAIN s \/ i = Len(s) + 1
      BY <2>4, <3>2
    <3>4. \A i \in DOMAIN s2 : s2[i] <= n + 1
      BY <2>4, <3>2, <3>3
    <3>5. \A i \in DOMAIN s : s[i] # n + 1
      BY <2>4
    <3>6. \A i, j \in DOMAIN s2 : s2[i] = s2[j] => i = j
      BY <2>4, <3>2, <3>3, <3>5
    <3>7. ASSUME NEW m \in 1..(n + 1) PROVE IsSaved(g, m) <=> \E i \in DOMAIN s2 : s2[i] = m
      <4>1. CASE m = n + 1
        <5>1. Len(s) + 1 \in DOMAIN s2
          BY <2>4, <3>2
        <5> QED BY <2>6, <3>2, <4>1, <5>1
      <4>2. CASE m # n + 1
        <5>1. m \in 1..n
          BY <4>2
        <5>2. (\E i \in DOMAIN s2 : s2[i] = m) <=> \E i \in DOMAIN s : s[i] = m
          BY <3>2, <3>3, <4>2
        <5> QED BY <2>4, <5>1, <5>2
      <4> QED BY <4>1, <4>2
    <3> QED BY <2>4, <3>1, <3>2, <3>4, <3>6, <3>7 DEF NamesUpTo
  <2> QED BY <2>5, <2>6
<1>4. NGlobals \in S
  <2> HIDE DEF S
  <2> QED BY <1>2, <1>3, NatSet, WorkspaceSizes
<1> QED BY <1>1, <1>4, WorkspaceSizes DEF NamesRun

LEMMA NamedSource ==
  ASSUME NEW h, NEW g, HeapOK(h, g)
  PROVE  /\ Source(h, g, NamedValues(g), Names(g)) /\ Len(NamedValues(g)) <= NGlobals
         /\ Names(g) \in Seq(Slots) /\ DOMAIN NamedValues(g) = DOMAIN Names(g)
         /\ \A i \in DOMAIN Names(g) : NamedValues(g)[i] = g[Names(g)[i]]
         /\ \A m \in Slots : IsSaved(g, m) <=> \E i \in DOMAIN Names(g) : Names(g)[i] = m
<1> DEFINE names == Names(g)
           vs == NamedValues(g)
<1>1. /\ names \in Seq(Slots) /\ Len(names) <= NGlobals /\ Len(names) \in Nat
      /\ DOMAIN names = 1..Len(names)
      /\ \A i, j \in DOMAIN names : names[i] = names[j] => i = j
      /\ \A m \in Slots : IsSaved(g, m) <=> \E i \in DOMAIN names : names[i] = m
  <2>1. NamesUpTo(g, NGlobals, names)
    BY NamesFacts
  <2> HIDE DEF names
  <2> QED BY <2>1 DEF NamesUpTo, Slots
<1>2. vs = [i \in 1..Len(names) |-> g[names[i]]]
  BY <1>1 DEF NamedValues
<1>3. g \in [Slots -> Vals \cup {None}] /\ \A n \in Slots : NotFree(h, g[n])
  BY DEF HeapOK
<1> HIDE DEF names, vs
<1>4. \A i \in 1..Len(names) : names[i] \in Slots /\ g[names[i]] \in Vals /\ NotFree(h, g[names[i]])
  <2> TAKE i \in 1..Len(names)
  <2>1. names[i] \in Slots /\ i \in DOMAIN names
    BY <1>1
  <2>2. g[names[i]] # None
    BY <1>1, <2>1 DEF IsSaved
  <2> QED BY <1>3, <2>1, <2>2
<1>5. vs \in [1..Len(names) -> Vals] /\ \A i \in 1..Len(names) : vs[i] = g[names[i]]
  BY <1>2, <1>4
<1>6. vs \in Seq(Vals) /\ Len(vs) = Len(names) /\ DOMAIN vs = DOMAIN names
  <2>1. vs \in Seq(Vals)
    BY <1>1, <1>5, SeqDef
  <2> QED BY <1>1, <1>5, <2>1
<1>7. Source(h, g, vs, names)
  BY <1>1, <1>4, <1>5, <1>6 DEF Source, Distinct
<1> QED BY <1>1, <1>5, <1>6, <1>7 DEF names, vs

-----------------------------------------------------------------------------
(* What is reachable is closed: a path meets no object twice.                *)
LEMMA ReachFacts ==
  ASSUME NEW h, NEW T \in SUBSET Addresses
  PROVE  /\ T \subseteq Reach(h, T) /\ Reach(h, T) \subseteq Addresses
         /\ \A o \in Reach(h, T), p \in Addresses : p \in ToSet(h[o].kids) => p \in Reach(h, T)
<1>1. PICK after : /\ after[0] = T
                   /\ \A k \in 1..MaxObjs : after[k] = Grown(h, after[k - 1])
                   /\ Reach(h, T) = after[MaxObjs]
  BY ReachLoop, WorkspaceSizes DEF ReachRun
<1> DEFINE P(k) == /\ T \subseteq after[k] /\ after[k] \subseteq Addresses
                   /\ Grown(h, after[k]) = after[k] \/ Cardinality(after[k]) >= k
           S == {k \in Nat : k <= MaxObjs => P(k)}
<1>2. IsFiniteSet(Addresses) /\ Cardinality(Addresses) = MaxObjs /\ MaxObjs \in Nat
  BY FS_Interval, WorkspaceSizes DEF Addresses
<1>3. \A A \in SUBSET Addresses : IsFiniteSet(A) /\ Cardinality(A) \in Nat
  BY <1>2, FS_Subset, FS_CardinalityType
<1>4. 0 \in S
  <2>1. Cardinality(T) \in Nat
    BY <1>3
  <2>2. P(0)
    BY <1>1, <2>1
  <2> QED BY <2>2
<1>5. ASSUME NEW k \in Nat, k \in S PROVE k + 1 \in S
  <2> SUFFICES ASSUME k + 1 <= MaxObjs PROVE P(k + 1)
    OBVIOUS
  <2>1. k + 1 \in 1..MaxObjs /\ (k + 1) - 1 = k /\ k <= MaxObjs
    BY <1>2
  <2>2. P(k)
    BY <1>5, <2>1
  <2>3. after[k + 1] = Grown(h, after[k])
    BY <1>1, <2>1
  <2>4. after[k] \subseteq after[k + 1] /\ after[k + 1] \subseteq Addresses
    BY <2>2, <2>3 DEF Grown
  <2>5. CASE Grown(h, after[k]) = after[k]
    BY <2>2, <2>3, <2>4, <2>5
  <2>6. CASE Grown(h, after[k]) # after[k]
    <3>1. PICK x : x \in after[k + 1] /\ x \notin after[k]
      BY <2>3, <2>4, <2>6
    <3>2. /\ IsFiniteSet(after[k]) /\ IsFiniteSet(after[k + 1]) /\ Cardinality(after[k + 1]) \in Nat
          /\ Cardinality(after[k]) \in Nat
      BY <1>3, <2>2, <2>4
    <3>3. Cardinality(after[k] \cup {x}) = Cardinality(after[k]) + 1
      BY <3>1, <3>2, FS_AddElement
    <3>4. after[k] \cup {x} \subseteq after[k + 1]
      BY <2>4, <3>1
    <3>5. Cardinality(after[k] \cup {x}) <= Cardinality(after[k + 1])
      BY <3>2, <3>4, FS_Subset
    <3>6. Cardinality(after[k]) >= k
      BY <2>2, <2>6
    <3>7. Cardinality(after[k + 1]) >= k + 1
      BY <3>2, <3>3, <3>5, <3>6
    <3> QED BY <2>2, <2>4, <3>7
  <2> QED BY <2>5, <2>6
<1>6. P(MaxObjs)
  <2>1. MaxObjs \in S
    <3> HIDE DEF S
    <3> QED BY <1>2, <1>4, <1>5, NatSet
  <2> HIDE DEF P
  <2> QED BY <1>2, <2>1
<1>7. Grown(h, after[MaxObjs]) = after[MaxObjs]
  <2>1. CASE Cardinality(after[MaxObjs]) >= MaxObjs
    <3>1. Cardinality(after[MaxObjs]) <= MaxObjs /\ Cardinality(after[MaxObjs]) \in Nat
      BY <1>2, <1>3, <1>6, FS_Subset
    <3>2. after[MaxObjs] = Addresses
      <4>1. Cardinality(after[MaxObjs]) = Cardinality(Addresses)
        BY <1>2, <2>1, <3>1
      <4> QED BY <1>2, <1>6, <4>1, FS_Subset
    <3> QED BY <3>2 DEF Grown
  <2> QED BY <1>6, <2>1
<1> QED BY <1>1, <1>6, <1>7 DEF Grown

LEMMA SweptOK ==
  ASSUME NEW h, NEW g, HeapOK(h, g)
  PROVE  HeapOK(Sweep(h, g), g)
<1> DEFINE reach == Reach(h, Refs(g))
           h2 == Sweep(h, g)
<1>1. /\ Refs(g) \in SUBSET Addresses
      /\ Refs(g) \subseteq reach /\ reach \subseteq Addresses
      /\ \A o \in reach, p \in Addresses : p \in ToSet(h[o].kids) => p \in reach
  <2>1. Refs(g) \in SUBSET Addresses
    BY DEF Refs
  <2> QED BY <2>1, ReachFacts
<1>2. \A o \in Addresses : h2[o] = IF o \in reach THEN h[o] ELSE Free
  BY DEF Sweep
<1>3. h \in [Addresses -> Objects] /\ g \in [Slots -> Vals \cup {None}]
  BY DEF HeapOK
<1>4. Free \in Objects /\ Free.kids = <<>> /\ Free.kind = "free"
  <2>1. "free" \in Kinds /\ 0 \in Int
    BY DEF Kinds
  <2> QED BY <2>1, NewObjects DEF Free, NoCode
<1>5. h2 = [o \in Addresses |-> IF o \in reach THEN h[o] ELSE Free]
  BY DEF Sweep
<1> HIDE DEF reach, h2
<1>6. h2 \in [Addresses -> Objects]
  BY <1>3, <1>4, <1>5
<1>7. \A v : NotFree(h, v) /\ (v \in Addresses => v \in reach) => NotFree(h2, v)
  BY <1>2 DEF NotFree
<1>8. ASSUME NEW o \in Addresses
      PROVE  Len(h2[o].kids) <= MaxKids + 1 /\ \A i \in DOMAIN h2[o].kids : NotFree(h2, h2[o].kids[i])
  <2>1. CASE o \in reach
    <3>1. h2[o] = h[o]
      BY <1>2, <2>1
    <3>2. \A i \in DOMAIN h[o].kids : h[o].kids[i] \in ToSet(h[o].kids) /\ NotFree(h, h[o].kids[i])
      BY DEF ToSet, HeapOK
    <3>3. Len(h[o].kids) <= MaxKids + 1
      BY DEF HeapOK
    <3> QED BY <1>1, <1>7, <2>1, <3>1, <3>2, <3>3
  <2>2. CASE o \notin reach
    <3>1. h2[o].kids = <<>> /\ Len(<<>>) = 0 /\ DOMAIN <<>> = {}
      BY <1>2, <1>4, <2>2
    <3> QED BY <3>1, WorkspaceSizes
  <2> QED BY <2>1, <2>2
<1>9. \A n \in Slots : NotFree(h2, g[n])
  <2> TAKE n \in Slots
  <2>1. g[n] \in Addresses => g[n] \in reach
    BY <1>1 DEF Refs
  <2>2. NotFree(h, g[n])
    BY DEF HeapOK
  <2> QED BY <1>7, <2>1, <2>2
<1>10. \A o, p \in Addresses : h2[o].kind = "builtin" /\ h2[p].kind = "builtin" => o = p
  BY <1>2, <1>4 DEF HeapOK
<1>11. HeapOK(h2, g)
  BY <1>3, <1>6, <1>8, <1>9, <1>10 DEF HeapOK
<1> QED BY <1>11 DEF h2

(* What a load leaves: every object that was written has its copy.           *)
Restored(h, vs, names, g0, ids, rids, hp, g) ==
    /\ MetOK(h, ids) /\ Copied(h, ids, rids, hp) /\ HeapOK(hp, g)
    /\ \A p \in DOMAIN ids : Saved(h[ids[p]]) => Len(hp[rids[p]].kids) = Len(h[ids[p]].kids)
    /\ GlobalsRead(vs, names, Len(vs), ids, rids, g, g0)

LEMMA GoodAtEnd ==
  ASSUME NEW h, NEW vs, NEW names, NEW g0, NEW free0, NEW ids, NEW out, NEW hp, NEW g, NEW rids,
         NEW ropen, Good(h, vs, names, g0, free0, Len(vs), ids, <<>>, out, hp, g, rids, ropen)
  PROVE  Restored(h, vs, names, g0, ids, rids, hp, g)
<1>1. \A v : ~IsOpen(<<>>, v)
  <2>1. DOMAIN <<>> = {}
    OBVIOUS
  <2> QED BY <2>1 DEF IsOpen
<1> QED BY <1>1 DEF Good, Stacks, Restored

LEMMA SessionRestored ==
  ASSUME NEW h, NEW gs, NEW vs, NEW names, Source(h, gs, vs, names), Len(vs) <= NGlobals,
         NEW h0, NEW g0, HeapOK(h0, g0),
         NEW snap, snap.names = names, snap.out = WriteAll(h, vs),
         Cardinality(Makes(snap.out)) <= Cardinality(FreeIn(h0)),
         NEW st, st = ReadSession(snap, h0, g0, 0)
  PROVE  \E ids, rids : Restored(h, vs, names, g0, ids, rids, st.heap, st.glob)
<1> DEFINE free0 == Cardinality(FreeIn(h0))
<1>1. PICK W : WriteTrace(h, vs, W)
  BY WriteLoop, WorkspaceSizes
<1>2. PICK R : ReadTrace(snap, h0, g0, 0, R)
  BY ReadLoop, WorkspaceSizes
<1>3. Together(h, vs, names, g0, free0, W[MaxSteps], R[MaxSteps])
  BY <1>1, <1>2, InStep
<1>4. W[MaxSteps].open = <<>> /\ W[MaxSteps].named = Len(vs)
  BY <1>1, WriterEnds DEF Done
<1>5. st = R[MaxSteps]
  BY <1>2, Zenon DEF ReadTrace
<1> DEFINE w == W[MaxSteps]
           r == R[MaxSteps]
<1> HIDE DEF free0, w, r
<1>6. PICK n, ids, open, out, hp, g, rids, ropen, v :
        /\ w = Writer(n, ids, open, out) /\ r = Reader(Len(out), n, hp, g, rids, ropen, v)
        /\ Good(h, vs, names, g0, free0, n, ids, open, out, hp, g, rids, ropen)
  <2>1. Together(h, vs, names, g0, free0, w, r)
    BY <1>3 DEF w, r
  <2> QED BY <2>1, Zenon DEF Together
<1>7. open = <<>> /\ n = Len(vs)
  BY <1>4, <1>6, WriterFields DEF w
<1>8. Good(h, vs, names, g0, free0, Len(vs), ids, <<>>, out, hp, g, rids, ropen)
  BY <1>6, <1>7
<1>9. Restored(h, vs, names, g0, ids, rids, hp, g)
  BY <1>8, GoodAtEnd
<1>10. st.heap = hp /\ st.glob = g
  BY <1>5, <1>6 DEF Reader, r
<1> QED BY <1>9, <1>10

(* A heap and globals with nothing in them.                                  *)
LEMMA EmptyOK ==
  /\ HeapOK([o \in Addresses |-> Free], [n \in Slots |-> None])
  /\ Cardinality(FreeIn([o \in Addresses |-> Free])) = MaxObjs
<1> DEFINE h == [o \in Addresses |-> Free]
           g == [n \in Slots |-> None]
<1>1. Free \in Objects /\ Free.kids = <<>> /\ Free.kind = "free"
  <2>1. "free" \in Kinds /\ 0 \in Int
    BY DEF Kinds
  <2> QED BY <2>1, NewObjects DEF Free, NoCode
<1>2. h \in [Addresses -> Objects] /\ g \in [Slots -> Vals \cup {None}]
  BY <1>1
<1>3. \A o \in Addresses : h[o].kids = <<>> /\ h[o].kind = "free"
  BY <1>1
<1>4. \A n \in Slots : g[n] = None
  OBVIOUS
<1>5. \A v : v = None => v \notin Addresses
  BY WorkspaceAssumption DEF Addresses
<1> HIDE DEF h, g
<1>6. \A o \in Addresses : Len(h[o].kids) = 0 /\ DOMAIN h[o].kids = {}
  BY <1>3
<1>7. HeapOK(h, g)
  BY <1>2, <1>3, <1>4, <1>5, <1>6, WorkspaceSizes DEF HeapOK, NotFree
<1>8. FreeIn(h) = Addresses
  BY <1>3 DEF FreeIn
<1>9. Cardinality(Addresses) = MaxObjs
  BY FS_Interval, WorkspaceSizes DEF Addresses
<1> QED BY <1>7, <1>8, <1>9 DEF h, g

-----------------------------------------------------------------------------
(* Two heaps that are written alike.  M: the values that correspond.         *)
Alike(h1, h2, M) ==
    /\ M \subseteq Vals \X Vals
    /\ \A v, a : <<v, a>> \in M => (v \in Addresses <=> a \in Addresses)
    /\ \A v, a, w, b : <<v, a>> \in M /\ <<w, b>> \in M /\ v \in Addresses /\ w \in Addresses
                         => (v = w <=> a = b)
    /\ \A v, a : <<v, a>> \in M /\ v \in Addresses =>
         /\ Token(h1[v]) = Token(h2[a])
         /\ Token(h1[v]).tag = 7 =>
              /\ Token(h1[v]).n = Len(h1[v].kids) /\ Len(h1[v].kids) \in Nat
              /\ Len(h2[a].kids) = Len(h1[v].kids)
              /\ \A j \in 1..Len(h1[v].kids) : <<h1[v].kids[j], h2[a].kids[j]>> \in M

Paired(s, t, M) == Len(s) = Len(t) /\ \A i \in 1..Len(s) : <<s[i], t[i]>> \in M

\* The containers that are being written.
PairedOpen(h1, s, t, M) ==
    /\ s \in Seq(Containers) /\ t \in Seq(Containers) /\ Len(s) = Len(t)
    /\ \A i \in 1..Len(s) : /\ <<s[i].at, t[i].at>> \in M /\ s[i].left = t[i].left
                            /\ Token(h1[s[i].at]).tag = 7 /\ s[i].left <= Len(h1[s[i].at].kids)
                            /\ Len(h1[s[i].at].kids) \in Nat
                            /\ i # 1 => s[i].left > 0

PairedMet(s, t, M) ==
    /\ s \in Seq(Addresses) /\ t \in Seq(Addresses) /\ Paired(s, t, M)
    /\ \A p, q \in 1..Len(s) : s[p] = s[q] => p = q

Parallel(h1, M, w1, w2) ==
    \E n, ids1, ids2, open1, open2, out :
      /\ w1 = Writer(n, ids1, open1, out) /\ w2 = Writer(n, ids2, open2, out)
      /\ n \in Nat /\ PairedMet(ids1, ids2, M) /\ PairedOpen(h1, open1, open2, M)

LEMMA ParallelIs ==
  ASSUME NEW h1, NEW M, NEW n \in Nat, NEW ids1, NEW ids2, NEW open1, NEW open2, NEW out,
         PairedMet(ids1, ids2, M), PairedOpen(h1, open1, open2, M)
  PROVE  Parallel(h1, M, Writer(n, ids1, open1, out), Writer(n, ids2, open2, out))
BY Zenon DEF Parallel

LEMMA PairedEmpty ==
  ASSUME NEW h1, NEW s, NEW t, NEW M, PairedOpen(h1, s, t, M)
  PROVE  s = <<>> <=> t = <<>>
<1>1. s \in Seq(Containers) /\ t \in Seq(Containers) /\ Len(s) = Len(t)
  BY DEF PairedOpen
<1> QED BY <1>1

LEMMA PairedTop ==
  ASSUME NEW h1, NEW s, NEW t, NEW M, PairedOpen(h1, s, t, M), s # <<>>
  PROVE  /\ Head(s) = s[1] /\ Head(t) = t[1] /\ 1 \in 1..Len(s)
         /\ s[1].left = t[1].left /\ s[1].left \in Nat /\ s[1].at \in Addresses
<1>1. s \in Seq(Containers) /\ t \in Seq(Containers) /\ Len(s) = Len(t) /\ t # <<>>
  BY PairedEmpty DEF PairedOpen
<1>2. Head(s) = s[1] /\ Head(t) = t[1] /\ 1 \in DOMAIN s /\ DOMAIN s = 1..Len(s)
  BY <1>1, TailFacts
<1>3. s[1] \in Containers
  BY <1>1, <1>2, ElementOfSeq
<1> QED BY <1>2, <1>3 DEF PairedOpen, Containers

LEMMA PairedTail ==
  ASSUME NEW h1, NEW s, NEW t, NEW M, PairedOpen(h1, s, t, M), s # <<>>
  PROVE  /\ PairedOpen(h1, Tail(s), Tail(t), M)
         /\ Tail(s) # <<>> => Head(Tail(s)).left > 0
<1> DEFINE s2 == Tail(s)
           t2 == Tail(t)
<1>1. s \in Seq(Containers) /\ t \in Seq(Containers) /\ Len(s) = Len(t) /\ t # <<>>
      /\ Len(s) \in Nat
  BY PairedEmpty DEF PairedOpen
<1>2. /\ s2 \in Seq(Containers) /\ Len(s2) = Len(s) - 1 /\ DOMAIN s2 = 1..(Len(s) - 1)
      /\ DOMAIN s = 1..Len(s)
      /\ \A i \in DOMAIN s2 : s2[i] = s[i + 1] /\ i + 1 \in DOMAIN s
  BY <1>1, TailFacts
<1>3. /\ t2 \in Seq(Containers) /\ Len(t2) = Len(t) - 1 /\ DOMAIN t2 = 1..(Len(t) - 1)
      /\ \A i \in DOMAIN t2 : t2[i] = t[i + 1]
  BY <1>1, TailFacts
<1>4. s2 # <<>> => Head(s2) = s2[1] /\ 1 \in DOMAIN s2
  <2> HIDE DEF s2
  <2> QED BY <1>2, TailFacts
<1> HIDE DEF s2, t2
<1>5. \A i \in 1..Len(s2) : s2[i] = s[i + 1] /\ t2[i] = t[i + 1] /\ i + 1 \in 1..Len(s) /\ i + 1 # 1
  BY SMTT(30), <1>1, <1>2, <1>3
<1>6. Len(s2) = Len(t2)
  BY <1>1, <1>2, <1>3
<1>7. \A i \in 1..Len(s2) : s2[i].left > 0
  BY <1>5 DEF PairedOpen
<1>8. PairedOpen(h1, s2, t2, M)
  BY <1>2, <1>3, <1>5, <1>6, <1>7 DEF PairedOpen
<1> QED BY <1>2, <1>4, <1>7, <1>8 DEF s2, t2

LEMMA PairedLess ==
  ASSUME NEW h1, NEW s, NEW t, NEW M, PairedOpen(h1, s, t, M), s # <<>>, Head(s).left > 0
  PROVE  PairedOpen(h1, Less(s), Less(t), M)
<1> DEFINE s2 == Less(s)
           t2 == Less(t)
<1>1. s \in Seq(Containers) /\ t \in Seq(Containers) /\ Len(s) = Len(t) /\ t # <<>>
  BY PairedEmpty DEF PairedOpen
<1>2. Head(s) = s[1] /\ Head(t) = t[1] /\ s[1].left = t[1].left /\ s[1].left \in Nat
  BY PairedTop
<1>3. /\ s2 \in Seq(Containers) /\ Len(s2) = Len(s) /\ s2[1].at = s[1].at
      /\ s2[1].left = s[1].left - 1 /\ DOMAIN s = 1..Len(s)
      /\ \A i \in DOMAIN s : i # 1 => s2[i] = s[i]
  BY <1>1, LessFacts
<1>4. /\ t2 \in Seq(Containers) /\ Len(t2) = Len(t) /\ t2[1].at = t[1].at
      /\ t2[1].left = t[1].left - 1 /\ DOMAIN t = 1..Len(t)
      /\ \A i \in DOMAIN t : i # 1 => t2[i] = t[i]
  BY <1>1, <1>2, LessFacts
<1> HIDE DEF s2, t2
<1>5. \A i \in 1..Len(s) : /\ s2[i].at = s[i].at /\ t2[i].at = t[i].at
                           /\ s2[i].left = t2[i].left
                           /\ i # 1 => s2[i].left = s[i].left
  BY <1>1, <1>2, <1>3, <1>4 DEF PairedOpen
<1>6. ASSUME NEW i \in 1..Len(s)
      PROVE  /\ <<s2[i].at, t2[i].at>> \in M /\ Token(h1[s2[i].at]).tag = 7
             /\ s2[i].left <= Len(h1[s2[i].at].kids) /\ Len(h1[s2[i].at].kids) \in Nat
             /\ i # 1 => s2[i].left > 0
  <2>1. /\ <<s[i].at, t[i].at>> \in M /\ Token(h1[s[i].at]).tag = 7
        /\ s[i].left <= Len(h1[s[i].at].kids) /\ Len(h1[s[i].at].kids) \in Nat
        /\ i # 1 => s[i].left > 0
    BY DEF PairedOpen
  <2>2. s2[i].left <= Len(h1[s[i].at].kids)
    BY <1>2, <1>3, <1>5, <2>1
  <2> QED BY <1>5, <2>1, <2>2
<1>7. Len(s2) = Len(t2)
  BY <1>1, <1>3, <1>4
<1>8. PairedOpen(h1, s2, t2, M)
  BY <1>3, <1>4, <1>5, <1>6, <1>7 DEF PairedOpen
<1> QED BY <1>8 DEF s2, t2

LEMMA ParallelWritten ==
  ASSUME NEW h1, NEW M, NEW n \in Nat, NEW ids1, NEW ids2, NEW open1, NEW open2, NEW out,
         PairedMet(ids1, ids2, M), PairedOpen(h1, open1, open2, M),
         open1 # <<>> => Head(open1).left > 0
  PROVE  Parallel(h1, M, Written(Writer(n, ids1, open1, out)), Written(Writer(n, ids2, open2, out)))
<1>1. open1 = <<>> <=> open2 = <<>>
  BY PairedEmpty
<1>2. CASE open1 = <<>>
  <2>1. Written(Writer(n, ids1, open1, out)) = Writer(n + 1, ids1, open1, out)
    BY <1>2, WrittenIs
  <2>2. Written(Writer(n, ids2, open2, out)) = Writer(n + 1, ids2, open2, out)
    BY <1>1, <1>2, WrittenIs
  <2>3. n + 1 \in Nat
    OBVIOUS
  <2> QED BY <2>1, <2>2, <2>3, ParallelIs
<1>3. CASE open1 # <<>>
  <2>1. Written(Writer(n, ids1, open1, out)) = Writer(n, ids1, Less(open1), out)
    BY <1>3, WrittenIs
  <2>2. Written(Writer(n, ids2, open2, out)) = Writer(n, ids2, Less(open2), out)
    BY <1>1, <1>3, WrittenIs
  <2>3. PairedOpen(h1, Less(open1), Less(open2), M)
    BY <1>3, PairedLess
  <2> QED BY <2>1, <2>2, <2>3, ParallelIs
<1> QED BY <1>2, <1>3

(* Two values that correspond are written.                                   *)
LEMMA ParallelValue ==
  ASSUME NEW h1, NEW h2, NEW M, Alike(h1, h2, M), NEW n \in Nat,
         NEW ids1, NEW ids2, NEW open1, NEW open2, NEW out,
         PairedMet(ids1, ids2, M), PairedOpen(h1, open1, open2, M),
         open1 # <<>> => Head(open1).left > 0, NEW v, NEW a, <<v, a>> \in M
  PROVE  Parallel(h1, M, WriteValue(h1, v, Writer(n, ids1, open1, out)),
                         WriteValue(h2, a, Writer(n, ids2, open2, out)))
<1>1. /\ ids1 \in Seq(Addresses) /\ ids2 \in Seq(Addresses) /\ Len(ids1) = Len(ids2)
      /\ DOMAIN ids1 = 1..Len(ids1) /\ DOMAIN ids2 = 1..Len(ids1) /\ Len(ids1) \in Nat
      /\ \A p \in 1..Len(ids1) : <<ids1[p], ids2[p]>> \in M /\ ids1[p] \in Addresses
      /\ \A p, q \in 1..Len(ids1) : ids1[p] = ids1[q] => p = q
  BY DEF PairedMet, Paired
<1>2. v \in Addresses <=> a \in Addresses
  BY DEF Alike
<1>3. v \in Addresses => \A p \in 1..Len(ids1) : ids1[p] = v <=> ids2[p] = a
  BY <1>1 DEF Alike
<1>4. CASE v \notin Addresses
  <2> DEFINE zero == [tag |-> 0]
             out2 == Append(out, zero)
  <2>1. WriteValue(h1, v, Writer(n, ids1, open1, out)) = Written(Writer(n, ids1, open1, out2))
    BY <1>4, ValueWrittenIs
  <2>2. WriteValue(h2, a, Writer(n, ids2, open2, out)) = Written(Writer(n, ids2, open2, out2))
    BY <1>2, <1>4, ValueWrittenIs
  <2> HIDE DEF out2
  <2> QED BY <2>1, <2>2, ParallelWritten
<1>5. CASE v \in Addresses /\ v \in ToSet(ids1)
  <2>1. a \in Addresses /\ a \in ToSet(ids2)
    BY <1>1, <1>2, <1>3, <1>5 DEF ToSet
  <2>2. Again(ids1, v).id = Again(ids2, a).id
    <3>1. Again(ids1, v).id \in 1..Len(ids1) /\ ids1[Again(ids1, v).id] = v
      BY <1>1, <1>5, AgainIs
    <3>2. Again(ids2, a).id \in 1..Len(ids1) /\ ids2[Again(ids2, a).id] = a
      BY <1>1, <2>1, AgainIs
    <3> QED BY <1>1, <1>3, <1>5, <3>1, <3>2
  <2>3. Again(ids1, v) = Again(ids2, a)
    BY <2>2 DEF Again
  <2> DEFINE y == Again(ids1, v)
             out2 == Append(out, y)
  <2>4. WriteValue(h1, v, Writer(n, ids1, open1, out)) = Written(Writer(n, ids1, open1, out2))
    BY <1>5, ValueWrittenIs
  <2>5. WriteValue(h2, a, Writer(n, ids2, open2, out)) = Written(Writer(n, ids2, open2, out2))
    BY <2>1, <2>3, ValueWrittenIs
  <2> HIDE DEF out2
  <2> QED BY <2>4, <2>5, ParallelWritten
<1>6. CASE v \in Addresses /\ v \notin ToSet(ids1)
  <2>1. a \in Addresses /\ a \notin ToSet(ids2)
    BY <1>1, <1>2, <1>3, <1>6 DEF ToSet
  <2> DEFINE t == Token(h1[v])
             met1 == Append(ids1, v)
             met2 == Append(ids2, a)
             out2 == Append(out, t)
  <2>2. t = Token(h2[a])
    BY <1>6 DEF Alike
  <2>3. PairedMet(met1, met2, M)
    <3>1. /\ met1 \in Seq(Addresses) /\ met2 \in Seq(Addresses) /\ Len(met1) = Len(met2)
          /\ Len(met1) = Len(ids1) + 1 /\ met1[Len(ids1) + 1] = v /\ met2[Len(ids1) + 1] = a
          /\ \A p \in 1..Len(ids1) : met1[p] = ids1[p] /\ met2[p] = ids2[p]
      BY <1>1, <1>6, <2>1
    <3> HIDE DEF met1, met2
    <3>2. \A p \in 1..Len(met1) : p \in 1..Len(ids1) \/ p = Len(ids1) + 1
      BY <1>1, <3>1
    <3>3. \A p \in 1..Len(met1) : <<met1[p], met2[p]>> \in M
      BY <1>1, <3>1, <3>2
    <3>4. \A p \in 1..Len(ids1) : ids1[p] # v
      BY <1>1, <1>6 DEF ToSet
    <3>5. \A p, q \in 1..Len(met1) : met1[p] = met1[q] => p = q
      BY SMTT(30), <1>1, <3>1, <3>2, <3>4
    <3> QED BY <3>1, <3>3, <3>5 DEF PairedMet, Paired
  <2>4. CASE t.tag # 7
    <3>1. WriteValue(h1, v, Writer(n, ids1, open1, out)) = Written(Writer(n, met1, open1, out2))
      BY <1>6, <2>4, ValueWrittenIs
    <3>2. WriteValue(h2, a, Writer(n, ids2, open2, out)) = Written(Writer(n, met2, open2, out2))
      BY <2>1, <2>2, <2>4, ValueWrittenIs
    <3> HIDE DEF met1, met2, out2
    <3> QED BY <2>3, <3>1, <3>2, ParallelWritten
  <2>5. CASE t.tag = 7
    <3> DEFINE m == t.n
               more1 == Opened(v, m, open1)
               more2 == Opened(a, m, open2)
    <3>1. WriteValue(h1, v, Writer(n, ids1, open1, out)) = Writer(n, met1, more1, out2)
      BY <1>6, <2>5, ValueWrittenIs
    <3>2. WriteValue(h2, a, Writer(n, ids2, open2, out)) = Writer(n, met2, more2, out2)
      BY <2>1, <2>2, <2>5, ValueWrittenIs
    <3>3. m = Len(h1[v].kids) /\ m \in Nat /\ Token(h1[v]).tag = 7
      BY <1>6, <2>5 DEF Alike
    <3> HIDE DEF m
    <3>4. PairedOpen(h1, more1, more2, M)
      <4>1. open1 \in Seq(Containers) /\ open2 \in Seq(Containers) /\ Len(open1) = Len(open2)
            /\ Len(open1) \in Nat
        BY DEF PairedOpen
      <4> DEFINE last == Len(open1) + 1
      <4> HIDE DEF more1, more2
      <4>2. /\ more1 \in Seq(Containers) /\ Len(more1) = last /\ more1[1] = [at |-> v, left |-> m]
            /\ \A i \in 1..Len(open1) : more1[i + 1] = open1[i]
        <5>1. /\ more1 \in Seq(Containers) /\ Len(more1) = Len(open1) + 1 /\ DOMAIN open1 = 1..Len(open1)
              /\ more1[1] = [at |-> v, left |-> m] /\ \A i \in DOMAIN open1 : more1[i + 1] = open1[i]
          BY SMTT(30), <1>6, <3>3, <4>1, OpenedFacts DEF more1
        <5> QED BY <5>1
      <4>3. /\ more2 \in Seq(Containers) /\ Len(more2) = last /\ more2[1] = [at |-> a, left |-> m]
            /\ \A i \in 1..Len(open1) : more2[i + 1] = open2[i]
        <5>1. /\ more2 \in Seq(Containers) /\ Len(more2) = Len(open2) + 1 /\ DOMAIN open2 = 1..Len(open2)
              /\ more2[1] = [at |-> a, left |-> m] /\ \A i \in DOMAIN open2 : more2[i + 1] = open2[i]
          BY SMTT(30), <2>1, <3>3, <4>1, OpenedFacts DEF more2
        <5> QED BY <4>1, <5>1
      <4>4. ASSUME NEW i \in 1..last
            PROVE  /\ <<more1[i].at, more2[i].at>> \in M /\ more1[i].left = more2[i].left
                   /\ Token(h1[more1[i].at]).tag = 7 /\ more1[i].left <= Len(h1[more1[i].at].kids)
                   /\ Len(h1[more1[i].at].kids) \in Nat /\ (i # 1 => more1[i].left > 0)
        <5>1. CASE i = 1
          <6>1. more1[i].at = v /\ more1[i].left = m /\ more2[i].at = a /\ more2[i].left = m
            BY <4>2, <4>3, <5>1
          <6>2. m <= Len(h1[v].kids) /\ Len(h1[v].kids) \in Nat
            BY <3>3
          <6> QED BY <3>3, <5>1, <6>1, <6>2
        <5>2. CASE i # 1
          <6>1. i - 1 \in 1..Len(open1) /\ (i - 1) + 1 = i
            BY <4>1, <5>2
          <6>2. more1[i] = open1[i - 1] /\ more2[i] = open2[i - 1]
            BY <4>2, <4>3, <6>1
          <6>3. open1[i - 1].left > 0
            <7>1. CASE i - 1 = 1
              <8>1. open1 # <<>>
                BY <4>1, <6>1
              <8>2. Head(open1) = open1[1]
                BY <8>1, PairedTop
              <8> QED BY <7>1, <8>1, <8>2
            <7>2. CASE i - 1 # 1
              BY <6>1, <7>2 DEF PairedOpen
            <7> QED BY <7>1, <7>2
          <6> QED BY <6>1, <6>2, <6>3 DEF PairedOpen
        <5> QED BY <5>1, <5>2
      <4> QED BY <4>2, <4>3, <4>4 DEF PairedOpen
    <3> HIDE DEF met1, met2, out2, more1, more2
    <3> QED BY <2>3, <3>1, <3>2, <3>4, ParallelIs
  <2> QED BY <2>4, <2>5
<1> QED BY <1>4, <1>5, <1>6

LEMMA ParallelNext ==
  ASSUME NEW h1, NEW h2, NEW M, Alike(h1, h2, M), NEW vs1, NEW vs2, Paired(vs1, vs2, M),
         Len(vs1) \in Nat, NEW w1, NEW w2, Parallel(h1, M, w1, w2)
  PROVE  Parallel(h1, M, WriteNext(h1, vs1, w1), WriteNext(h2, vs2, w2))
<1>1. PICK n, ids1, ids2, open1, open2, out :
        /\ w1 = Writer(n, ids1, open1, out) /\ w2 = Writer(n, ids2, open2, out)
        /\ n \in Nat /\ PairedMet(ids1, ids2, M) /\ PairedOpen(h1, open1, open2, M)
  BY Zenon DEF Parallel
<1> DEFINE x1 == Writer(n, ids1, open1, out)
           x2 == Writer(n, ids2, open2, out)
<1>2. /\ open1 = <<>> <=> open2 = <<>>
      /\ open1 # <<>> => /\ Head(open1) = open1[1] /\ Head(open2) = open2[1] /\ 1 \in 1..Len(open1)
                         /\ open1[1].left = open2[1].left /\ open1[1].left \in Nat
                         /\ open1[1].at \in Addresses
  <2>1. open1 = <<>> <=> open2 = <<>>
    BY <1>1, PairedEmpty
  <2>2. open1 # <<>> => /\ Head(open1) = open1[1] /\ Head(open2) = open2[1] /\ 1 \in 1..Len(open1)
                         /\ open1[1].left = open2[1].left /\ open1[1].left \in Nat
                         /\ open1[1].at \in Addresses
    BY <1>1, PairedTop
  <2> QED BY <2>1, <2>2
<1> SUFFICES Parallel(h1, M, WriteNext(h1, vs1, x1), WriteNext(h2, vs2, x2))
  BY <1>1
<1>3. CASE open1 # <<>> /\ Head(open1).left # 0
  <2> DEFINE v == NextElement(h1, Head(open1))
             a == NextElement(h2, Head(open2))
  <2>1. WriteNext(h1, vs1, x1) = WriteValue(h1, v, x1)
    BY <1>3, NextWrittenIs
  <2>2. WriteNext(h2, vs2, x2) = WriteValue(h2, a, x2)
    BY <1>2, <1>3, NextWrittenIs
  <2>3. <<v, a>> \in M
    <3> DEFINE x == open1[1].at
               y == open2[1].at
               l == open1[1].left
               m == Len(h1[x].kids)
    <3>1. /\ <<x, y>> \in M /\ Token(h1[x]).tag = 7 /\ l <= m /\ m \in Nat
          /\ open2[1].left = l /\ l \in Nat /\ l # 0
      BY <1>1, <1>2, <1>3 DEF PairedOpen
    <3>2. x \in Addresses
      BY <1>2, <1>3
    <3>3. v = h1[x].kids[m + 1 - l] /\ a = h2[y].kids[Len(h2[y].kids) + 1 - l]
      BY <1>2, <1>3, <3>1 DEF NextElement
    <3>4. Len(h2[y].kids) = m /\ \A j \in 1..m : <<h1[x].kids[j], h2[y].kids[j]>> \in M
      BY <3>1, <3>2 DEF Alike
    <3> HIDE DEF m, l, x, y
    <3>5. m + 1 - l \in 1..m
      BY <3>1
    <3> HIDE DEF v, a
    <3> QED BY <3>3, <3>4, <3>5
  <2>4. Head(open1).left > 0
    BY <1>2, <1>3
  <2> HIDE DEF v, a
  <2> QED BY <1>1, <2>1, <2>2, <2>3, <2>4, ParallelValue
<1>4. CASE open1 # <<>> /\ Head(open1).left = 0
  <2> DEFINE t1 == Tail(open1)
             t2 == Tail(open2)
  <2>1. WriteNext(h1, vs1, x1) = Written(Writer(n, ids1, t1, out))
    BY <1>4, NextWrittenIs
  <2>2. WriteNext(h2, vs2, x2) = Written(Writer(n, ids2, t2, out))
    BY <1>2, <1>4, NextWrittenIs
  <2>3. PairedOpen(h1, t1, t2, M) /\ (t1 # <<>> => Head(t1).left > 0)
    BY <1>1, <1>4, PairedTail
  <2> HIDE DEF t1, t2
  <2> QED BY <1>1, <2>1, <2>2, <2>3, ParallelWritten
<1>5. CASE open1 = <<>> /\ n < Len(vs1)
  <2> DEFINE v == vs1[n + 1]
             a == vs2[n + 1]
  <2>1. n < Len(vs2) /\ <<v, a>> \in M
    <3>1. n + 1 \in 1..Len(vs1)
      BY <1>1, <1>5
    <3> QED BY <1>5, <3>1 DEF Paired
  <2>2. WriteNext(h1, vs1, x1) = WriteValue(h1, v, x1)
    BY <1>5, NextWrittenIs
  <2>3. WriteNext(h2, vs2, x2) = WriteValue(h2, a, x2)
    BY <1>2, <1>5, <2>1, NextWrittenIs
  <2> HIDE DEF v, a
  <2> QED BY <1>1, <1>5, <2>1, <2>2, <2>3, ParallelValue
<1>6. CASE open1 = <<>> /\ ~(n < Len(vs1))
  <2>1. ~(n < Len(vs2))
    BY <1>6 DEF Paired
  <2>2. WriteNext(h1, vs1, x1) = x1
    BY <1>6, NextWrittenIs
  <2>3. WriteNext(h2, vs2, x2) = x2
    BY <1>2, <1>6, <2>1, NextWrittenIs
  <2> QED BY <1>1, <2>2, <2>3
<1> QED BY <1>3, <1>4, <1>5, <1>6

LEMMA WrittenAlike ==
  ASSUME NEW h1, NEW h2, NEW M, Alike(h1, h2, M), NEW vs1, NEW vs2, Paired(vs1, vs2, M),
         Len(vs1) \in Nat
  PROVE  WriteAll(h1, vs1) = WriteAll(h2, vs2)
<1>1. PICK W1 : WriteTrace(h1, vs1, W1)
  BY WriteLoop, WorkspaceSizes
<1>2. PICK W2 : WriteTrace(h2, vs2, W2)
  BY WriteLoop, WorkspaceSizes
<1> DEFINE S == {k \in Nat : k <= MaxSteps => Parallel(h1, M, W1[k], W2[k])}
<1>3. 0 \in S
  <2>1. W1[0] = Writer(0, <<>>, <<>>, <<>>) /\ W2[0] = Writer(0, <<>>, <<>>, <<>>)
    BY <1>1, <1>2 DEF WriteTrace, WriteInit, Writer
  <2>2. Len(<<>>) = 0 /\ 1..0 = {} /\ \A A : <<>> \in Seq(A)
    OBVIOUS
  <2>3. PairedMet(<<>>, <<>>, M) /\ PairedOpen(h1, <<>>, <<>>, M)
    BY <2>2 DEF PairedMet, PairedOpen, Paired
  <2>4. Parallel(h1, M, Writer(0, <<>>, <<>>, <<>>), Writer(0, <<>>, <<>>, <<>>))
    BY <2>3, ParallelIs
  <2> QED BY <2>1, <2>4
<1>4. ASSUME NEW k \in Nat, k \in S PROVE k + 1 \in S
  <2> SUFFICES ASSUME k + 1 <= MaxSteps PROVE Parallel(h1, M, W1[k + 1], W2[k + 1])
    OBVIOUS
  <2>1. k + 1 \in 1..MaxSteps /\ (k + 1) - 1 = k /\ k <= MaxSteps
    BY WorkspaceSizes
  <2>2. W1[k + 1] = WriteNext(h1, vs1, W1[k]) /\ W2[k + 1] = WriteNext(h2, vs2, W2[k])
    BY <1>1, <1>2, <2>1 DEF WriteTrace
  <2>3. Parallel(h1, M, W1[k], W2[k])
    BY <1>4, <2>1
  <2> QED BY <2>2, <2>3, ParallelNext
<1>5. MaxSteps \in S
  <2> HIDE DEF S
  <2> QED BY <1>3, <1>4, NatSet, WorkspaceSizes
<1>6. Parallel(h1, M, W1[MaxSteps], W2[MaxSteps])
  BY <1>5, WorkspaceSizes
<1>7. W1[MaxSteps].out = W2[MaxSteps].out
  BY <1>6, WriterFields DEF Parallel
<1> QED BY <1>1, <1>2, <1>7 DEF WriteTrace

-----------------------------------------------------------------------------
(* What is kept of a heap corresponds to the copy of it.                     *)
KeptOf(h, v) == IF v \notin {0, None} /\ h[v].kind \in {"native", "module"} THEN 0 ELSE v
KeptIn(h) == [o \in Addresses |-> [h[o] EXCEPT !.kids = [i \in DOMAIN @ |-> KeptOf(h, @[i])]]]

Copies(ids, rids) ==
    {m \in Vals \X Vals :
       IF m[1] = 0 THEN m[2] = 0
       ELSE m[2] # 0 /\ \E p \in DOMAIN ids : ids[p] = m[1] /\ rids[p] = m[2]}

LEMMA CopiesIs ==
  ASSUME NEW ids, NEW rids, NEW v, NEW a
  PROVE  <<v, a>> \in Copies(ids, rids) <=>
           /\ v \in Vals /\ a \in Vals
           /\ IF v = 0 THEN a = 0
              ELSE a # 0 /\ \E p \in DOMAIN ids : ids[p] = v /\ rids[p] = a
BY DEF Copies

LEMMA KeptInIs ==
  ASSUME NEW h \in [Addresses -> Objects], NEW o \in Addresses
  PROVE  /\ KeptIn(h)[o].kind = h[o].kind /\ KeptIn(h)[o].idx = h[o].idx
         /\ KeptIn(h)[o].code = h[o].code
         /\ Len(KeptIn(h)[o].kids) = Len(h[o].kids)
         /\ \A j \in 1..Len(h[o].kids) : KeptIn(h)[o].kids[j] = KeptOf(h, h[o].kids[j])
<1> DEFINE kids == [i \in DOMAIN h[o].kids |-> KeptOf(h, h[o].kids[i])]
<1>1. h[o] \in Objects /\ Len(h[o].kids) \in Nat /\ DOMAIN h[o].kids = 1..Len(h[o].kids)
  BY ObjectsOf
<1>2. KeptIn(h)[o] = [h[o] EXCEPT !.kids = kids]
  BY DEF KeptIn
<1>3. Len(kids) = Len(h[o].kids) /\ \A j \in 1..Len(h[o].kids) : kids[j] = KeptOf(h, h[o].kids[j])
  <2>1. DOMAIN kids = 1..Len(h[o].kids)
    BY <1>1
  <2>2. kids = [i \in 1..Len(h[o].kids) |-> KeptOf(h, h[o].kids[i])]
    BY <1>1
  <2>3. \A j \in 1..Len(h[o].kids) : kids[j] = KeptOf(h, h[o].kids[j])
    BY <2>2
  <2>4. IsSeq(kids)
    <3> DEFINE X == {KeptOf(h, h[o].kids[i]) : i \in 1..Len(h[o].kids)}
    <3>1. kids \in [1..Len(h[o].kids) -> X]
      BY <2>2
    <3> HIDE DEF kids, X
    <3>2. kids \in Seq(X)
      BY <1>1, <3>1, SeqDef
    <3> QED BY <3>2, SeqIs
  <2> HIDE DEF kids
  <2>5. Len(kids) \in Nat /\ DOMAIN kids = 1..Len(kids)
    BY <2>4, LenProperties DEF IsSeq
  <2>6. \A m, n \in Nat : 1..m = 1..n => m = n
    <3> TAKE m, n \in Nat
    <3>1. m < n => n \in 1..n /\ n \notin 1..m
      OBVIOUS
    <3>2. n < m => m \in 1..m /\ m \notin 1..n
      OBVIOUS
    <3> QED BY <3>1, <3>2
  <2> QED BY <1>1, <2>1, <2>3, <2>5, <2>6
<1> HIDE DEF kids
<1> QED BY <1>1, <1>2, <1>3 DEF Objects

LEMMA CopiesAlike ==
  ASSUME NEW h, NEW gs, HeapOK(h, gs), NEW vs, NEW names, NEW g0, NEW ids, NEW rids, NEW hp, NEW g,
         Restored(h, vs, names, g0, ids, rids, hp, g)
  PROVE  /\ Alike(KeptIn(h), hp, Copies(ids, rids))
         /\ \A v \in Vals : \A a : Same(ids, rids, v, a) => <<KeptOf(h, v), a>> \in Copies(ids, rids)
<1> DEFINE M == Copies(ids, rids)
<1>1. /\ h \in [Addresses -> Objects] /\ hp \in [Addresses -> Objects]
      /\ ids \in Seq(Addresses) /\ rids \in Seq(Vals) /\ Len(rids) = Len(ids)
      /\ \A p, q \in DOMAIN ids : ids[p] = ids[q] => p = q
      /\ \A p \in DOMAIN ids : NotFree(h, ids[p])
      /\ \A p, q \in DOMAIN ids : rids[p] = rids[q] /\ rids[p] # 0 => p = q
      /\ \A p \in DOMAIN ids : CopyOf(ids, rids, h[ids[p]], rids[p], hp)
      /\ \A p \in DOMAIN ids : Saved(h[ids[p]]) => Len(hp[rids[p]].kids) = Len(h[ids[p]].kids)
  BY DEF HeapOK, Restored, MetOK, Copied
<1>2. /\ \A p \in DOMAIN ids : ids[p] \in Addresses /\ rids[p] \in Vals
      /\ \A v \in Vals : v \in Addresses <=> v # 0
      /\ \A v \in Vals : v # None
  <2>1. \A p \in DOMAIN ids : ids[p] \in Addresses /\ rids[p] \in Vals
    BY <1>1
  <2>2. 0 \notin Addresses
    BY DEF Addresses
  <2>3. \A v \in Vals : v \in 0..MaxObjs
    BY WorkspaceSizes DEF Vals, Addresses
  <2> QED BY <2>1, <2>2, <2>3, WorkspaceAssumption DEF Vals
<1>3. ASSUME NEW v \in Vals, NEW a, Same(ids, rids, v, a) PROVE <<KeptOf(h, v), a>> \in M
  <2>1. CASE v \notin Addresses
    <3>1. v = 0 /\ a = 0
      BY <1>2, <1>3, <2>1 DEF Same
    <3>2. KeptOf(h, v) = 0
      BY <3>1 DEF KeptOf
    <3> QED BY <3>1, <3>2, CopiesIs DEF Vals
  <2>2. CASE v \in Addresses
    <3>1. PICK p \in DOMAIN ids : ids[p] = v /\ rids[p] = a
      BY <1>3, <2>2 DEF Same
    <3>2. CopyOf(ids, rids, h[v], a, hp) /\ a \in Vals /\ v # 0 /\ v # None
      BY <1>1, <1>2, <2>2, <3>1
    <3>3. CASE Skip(h[v])
      <4>1. KeptOf(h, v) = 0 /\ a = 0
        BY <3>2, <3>3 DEF KeptOf, CopyOf, Skip
      <4> QED BY <3>2, <4>1, CopiesIs
    <3>4. CASE ~Skip(h[v])
      <4>1. KeptOf(h, v) = v /\ a # 0
        BY <3>2, <3>4 DEF KeptOf, CopyOf, Skip
      <4> QED BY <3>1, <3>2, <4>1, CopiesIs
    <3> QED BY <3>3, <3>4
  <2> QED BY <2>1, <2>2
<1>4. \A v, a : <<v, a>> \in M =>
        /\ v \in Vals /\ a \in Vals
        /\ v \in Addresses => \E p \in DOMAIN ids : ids[p] = v /\ rids[p] = a /\ a # 0
        /\ v = 0 => a = 0
  BY <1>2, CopiesIs
<1>5. M \subseteq Vals \X Vals
  BY DEF Copies
<1> HIDE DEF M
<1>6. \A v, a : <<v, a>> \in M => (v \in Addresses <=> a \in Addresses)
  BY <1>2, <1>4
<1>7. ASSUME NEW v, NEW a, NEW w, NEW b, <<v, a>> \in M, <<w, b>> \in M, v \in Addresses, w \in Addresses
      PROVE  v = w <=> a = b
  <2>1. PICK p \in DOMAIN ids : ids[p] = v /\ rids[p] = a /\ a # 0
    BY <1>4, <1>7
  <2>2. PICK q \in DOMAIN ids : ids[q] = w /\ rids[q] = b /\ b # 0
    BY <1>4, <1>7
  <2> QED BY <1>1, <2>1, <2>2
<1>8. ASSUME NEW v, NEW a, <<v, a>> \in M, v \in Addresses
      PROVE  /\ Token(KeptIn(h)[v]) = Token(hp[a])
             /\ Token(KeptIn(h)[v]).tag = 7 =>
                  /\ Token(KeptIn(h)[v]).n = Len(KeptIn(h)[v].kids)
                  /\ Len(KeptIn(h)[v].kids) \in Nat
                  /\ Len(hp[a].kids) = Len(KeptIn(h)[v].kids)
                  /\ \A j \in 1..Len(KeptIn(h)[v].kids) : <<KeptIn(h)[v].kids[j], hp[a].kids[j]>> \in M
  <2>1. PICK p \in DOMAIN ids : ids[p] = v /\ rids[p] = a /\ a # 0
    BY <1>4, <1>8
  <2>2. /\ CopyOf(ids, rids, h[v], a, hp) /\ NotFree(h, v)
        /\ Saved(h[v]) => Len(hp[a].kids) = Len(h[v].kids)
    BY <1>1, <2>1
  <2>3. /\ hp[a].kind = h[v].kind /\ h[v].kind \in Kinds /\ h[v].kind # "free" /\ ~Skip(h[v])
        /\ Len(h[v].kids) \in Nat /\ \A i \in 1..Len(h[v].kids) : h[v].kids[i] \in Vals
    <3>1. /\ h[v].kind \in Kinds /\ Len(h[v].kids) \in Nat
          /\ DOMAIN h[v].kids = 1..Len(h[v].kids)
          /\ \A i \in DOMAIN h[v].kids : h[v].kids[i] \in Vals
      BY <1>1, <1>8, ObjectsOf
    <3> QED BY <1>8, <2>1, <2>2, <3>1 DEF CopyOf, NotFree
  <2> DEFINE o == KeptIn(h)[v]
  <2>4. /\ o.kind = h[v].kind /\ o.idx = h[v].idx /\ o.code = h[v].code
        /\ Len(o.kids) = Len(h[v].kids)
        /\ \A j \in 1..Len(h[v].kids) : o.kids[j] = KeptOf(h, h[v].kids[j])
    BY <1>1, <1>8, KeptInIs
  <2> HIDE DEF o
  <2>5. CASE h[v].kind = "builtin"
    <3>1. Token(o) = [tag |-> 9] /\ Token(hp[a]) = [tag |-> 9]
      BY <2>3, <2>4, <2>5 DEF Token
    <3> QED BY <3>1 DEF o
  <2>6. CASE h[v].kind # "builtin"
    <3>1. Saved(h[v])
      BY <2>3, <2>6 DEF Saved, Skip, Kinds
    <3>2. Filled(ids, rids, h[v], hp[a]) /\ Len(hp[a].kids) = Len(h[v].kids)
      BY <2>2, <2>3, <3>1 DEF CopyOf
    <3>3. /\ Token(o) = [tag |-> 7, kind |-> o.kind, idx |-> o.idx, code |-> o.code, n |-> Len(o.kids)]
          /\ Token(hp[a]) = [tag |-> 7, kind |-> hp[a].kind, idx |-> hp[a].idx,
                             code |-> hp[a].code, n |-> Len(hp[a].kids)]
      BY <2>3, <2>4, <3>1 DEF Token, Saved
    <3>4. Token(o) = Token(hp[a]) /\ Token(o).n = Len(o.kids)
      BY <2>3, <2>4, <3>2, <3>3 DEF Filled
    <3>5. ASSUME NEW j \in 1..Len(o.kids) PROVE <<o.kids[j], hp[a].kids[j]>> \in M
      <4>1. j \in 1..Len(h[v].kids) /\ j \in DOMAIN hp[a].kids
        <5>1. DOMAIN hp[a].kids = 1..Len(hp[a].kids)
          <6>1. a \in Addresses
            BY <1>6, <1>8
          <6> QED BY <1>1, <6>1, ObjectsOf
        <5> QED BY <2>4, <3>2, <5>1
      <4>2. Same(ids, rids, h[v].kids[j], hp[a].kids[j])
        BY <3>2, <4>1 DEF Filled
      <4>3. o.kids[j] = KeptOf(h, h[v].kids[j]) /\ h[v].kids[j] \in Vals
        BY <2>3, <2>4, <4>1
      <4> QED BY <1>3, <4>2, <4>3
    <3> QED BY <2>3, <2>4, <3>2, <3>4, <3>5 DEF o
  <2> QED BY <2>5, <2>6
<1>9. Alike(KeptIn(h), hp, M)
  BY <1>5, <1>6, <1>7, <1>8 DEF Alike
<1> QED BY <1>3, <1>9 DEF M

KeptBy(h, g) == [n \in Slots |-> IF n \in BuiltinSlots THEN None ELSE KeptOf(h, g[n])]

LEMMA ValsAreSome == None \notin Vals /\ 0 \in Vals
<1>1. \A v \in Vals : v \in 0..MaxObjs
  BY WorkspaceSizes DEF Vals, Addresses
<1> QED BY <1>1, WorkspaceAssumption DEF Vals

LEMMA KeptOfFacts ==
  ASSUME NEW h, NEW v
  PROVE  /\ v \in Vals => KeptOf(h, v) \in Vals
         /\ KeptOf(h, v) = None <=> v = None
<1>1. None \notin Vals /\ 0 \in Vals
  BY ValsAreSome
<1> QED BY <1>1 DEF KeptOf

\* The slots that are defined after a load are those that were written.
LEMMA SlotsRestored ==
  ASSUME NEW h, NEW g, HeapOK(h, g), NEW g0, \A n \in Slots : g0[n] = None,
         NEW ids, NEW rids, NEW hp, NEW glob,
         Restored(h, NamedValues(g), Names(g), g0, ids, rids, hp, glob), NEW n \in Slots
  PROVE  /\ glob[n] # None <=> IsSaved(g, n)
         /\ IsSaved(g, n) => g[n] \in Vals /\ glob[n] \in Vals /\ Same(ids, rids, g[n], glob[n])
<1>1. /\ DOMAIN NamedValues(g) = DOMAIN Names(g)
      /\ \A i \in DOMAIN Names(g) : NamedValues(g)[i] = g[Names(g)[i]]
      /\ \A m \in Slots : IsSaved(g, m) <=> \E i \in DOMAIN Names(g) : Names(g)[i] = m
      /\ NamedValues(g) \in Seq(Vals)
  BY NamedSource DEF Source
<1>2. DOMAIN Names(g) = 1..Len(NamedValues(g))
  BY <1>1
<1>3. /\ \A i \in 1..Len(NamedValues(g)) : Same(ids, rids, NamedValues(g)[i], glob[Names(g)[i]])
      /\ \A m \in Slots : (\A i \in 1..Len(NamedValues(g)) : Names(g)[i] # m) => glob[m] = g0[m]
  BY DEF Restored, GlobalsRead
<1>4. /\ rids \in Seq(Vals) /\ ids \in Seq(Addresses) /\ Len(rids) = Len(ids)
  BY DEF Restored, Copied, MetOK
<1>5. CASE ~IsSaved(g, n)
  BY <1>1, <1>2, <1>3, <1>5
<1>6. CASE IsSaved(g, n)
  <2>1. PICK i \in DOMAIN Names(g) : Names(g)[i] = n
    BY <1>1, <1>6
  <2>2. Same(ids, rids, g[n], glob[n])
    BY <1>1, <1>2, <1>3, <2>1
  <2>3. g[n] \in Vals
    BY <1>6 DEF HeapOK, IsSaved
  <2>4. glob[n] \in Vals
    <3>1. \A p \in DOMAIN ids : rids[p] \in Vals
      BY <1>4
    <3> QED BY <2>2, <3>1, ValsAreSome DEF Same
  <2> QED BY <1>6, <2>2, <2>3, <2>4, ValsAreSome
<1> QED BY <1>5, <1>6

LEMMA GraphRestored ==
  ASSUME NEW h, NEW g, HeapOK(h, g),
         NEW snap, snap.names = Names(g), snap.out = WriteAll(h, NamedValues(g)),
         NEW st, st = ReadSession(snap, [o \in Addresses |-> Free], [n \in Slots |-> None], 0)
  PROVE  /\ Names(st.glob) = Names(KeptBy(h, g))
         /\ WriteAll(st.heap, NamedValues(st.glob))
              = WriteAll(KeptIn(h), NamedValues(KeptBy(h, g)))
         /\ \A n \in Slots : st.glob[n] = None <=> KeptBy(h, g)[n] = None
<1> DEFINE vs == NamedValues(g)
           names == Names(g)
           h0 == [o \in Addresses |-> Free]
           g0 == [n \in Slots |-> None]
           kept == KeptBy(h, g)
<1>1. Source(h, g, vs, names) /\ Len(vs) <= NGlobals
  BY NamedSource
<1>2. HeapOK(h0, g0) /\ Cardinality(FreeIn(h0)) = MaxObjs /\ \A n \in Slots : g0[n] = None
  BY EmptyOK
<1>3. Cardinality(Makes(snap.out)) <= Cardinality(FreeIn(h0))
  <2>1. PICK W : WriteTrace(h, vs, W)
    BY WriteLoop, WorkspaceSizes
  <2>2. Cardinality(Makes(WriteAll(h, vs))) <= MaxObjs
    BY <1>1, <2>1, WriterEnds
  <2> QED BY <1>2, <2>2
<1> HIDE DEF vs, names, h0, g0
<1>4. PICK ids, rids : Restored(h, vs, names, g0, ids, rids, st.heap, st.glob)
  <2>1. snap.names = names /\ snap.out = WriteAll(h, vs) /\ st = ReadSession(snap, h0, g0, 0)
    BY DEF vs, names, h0, g0
  <2> QED BY <1>1, <1>2, <1>3, <2>1, SessionRestored
<1>5. \A n \in Slots : /\ st.glob[n] # None <=> IsSaved(g, n)
                       /\ IsSaved(g, n) => /\ g[n] \in Vals /\ st.glob[n] \in Vals
                                         /\ Same(ids, rids, g[n], st.glob[n])
  BY <1>2, <1>4, SlotsRestored DEF vs, names
<1> DEFINE M == Copies(ids, rids)
<1>6. /\ Alike(KeptIn(h), st.heap, M)
      /\ \A v \in Vals : \A a : Same(ids, rids, v, a) => <<KeptOf(h, v), a>> \in M
  BY <1>4, CopiesAlike
<1>7. \A n \in Slots : /\ kept[n] # None <=> IsSaved(g, n)
                       /\ IsSaved(g, n) => kept[n] = KeptOf(h, g[n])
  BY KeptOfFacts DEF KeptBy, IsSaved
<1> HIDE DEF kept, M
<1>15. \A n \in Slots : st.glob[n] = None <=> kept[n] = None
  BY <1>5, <1>7
<1>8. Names(st.glob) = Names(kept)
  <2>1. \A n \in Slots : IsSaved(st.glob, n) <=> IsSaved(kept, n)
    BY <1>15 DEF IsSaved
  <2> QED BY <2>1, NamesEqual
<1>9. Names(kept) = names
  <2>1. \A n \in Slots : IsSaved(kept, n) <=> IsSaved(g, n)
    BY <1>7 DEF IsSaved
  <2> QED BY <2>1, NamesEqual DEF names
<1>10. /\ names \in Seq(Slots) /\ Len(names) \in Nat /\ DOMAIN names = 1..Len(names)
       /\ \A i \in DOMAIN names : names[i] \in Slots /\ IsSaved(g, names[i])
  <2>1. /\ names \in Seq(Slots)
        /\ \A m \in Slots : IsSaved(g, m) <=> \E i \in DOMAIN names : names[i] = m
    BY NamedSource DEF names
  <2>2. Len(names) \in Nat /\ DOMAIN names = 1..Len(names) /\ \A i \in DOMAIN names : names[i] \in Slots
    BY <2>1
  <2> QED BY <2>1, <2>2
<1> DEFINE s1 == NamedValues(kept)
           s2 == NamedValues(st.glob)
<1>11. /\ s1 = [i \in DOMAIN names |-> kept[names[i]]]
       /\ s2 = [i \in DOMAIN names |-> st.glob[names[i]]]
  BY <1>8, <1>9 DEF NamedValues
<1> HIDE DEF s1, s2
<1>12. Len(s1) = Len(names) /\ Len(s2) = Len(names)
  <2>1. \A i \in 1..Len(names) : kept[names[i]] \in Vals /\ st.glob[names[i]] \in Vals
    BY <1>5, <1>7, <1>10, KeptOfFacts
  <2>2. s1 \in [1..Len(names) -> Vals] /\ s2 \in [1..Len(names) -> Vals]
    BY <1>10, <1>11, <2>1
  <2>3. s1 \in Seq(Vals) /\ s2 \in Seq(Vals)
    BY <1>10, <2>2, SeqDef
  <2> QED BY <1>10, <2>2, <2>3, LenProperties
<1>13. Paired(s1, s2, M)
  <2>1. \A i \in 1..Len(names) : <<s1[i], s2[i]>> \in M
    BY <1>5, <1>6, <1>7, <1>10, <1>11
  <2> QED BY <1>12, <2>1 DEF Paired
<1>14. WriteAll(KeptIn(h), s1) = WriteAll(st.heap, s2)
  BY <1>6, <1>10, <1>12, <1>13, WrittenAlike
<1> QED BY <1>8, <1>14, <1>15 DEF s1, s2, kept

-----------------------------------------------------------------------------
(* Snapshots and functions.                                                  *)
LEMMA SnapshotTaken ==
  ASSUME NEW f, NEW h, NEW g, NEW t, FnsOK(f), ~t => ClosuresIn(h, Sources(f)),
         ~GcMayRun => HeapOK(h, g)
  PROVE  SnapshotOK(Snapshot(f, h, g, t))
<1> DEFINE vs == NamedValues(g)
<1>1. /\ Snapshot(f, h, g, t).fns = f /\ Snapshot(f, h, g, t).tainted = t
      /\ Snapshot(f, h, g, t).out = WriteAll(h, vs) /\ Snapshot(f, h, g, t).names = Names(g)
  BY DEF Snapshot
<1> HIDE DEF vs
<1>2. Len(WriteAll(h, vs)) \in Nat
  <2> DEFINE C == {<<h[o].idx, h[o].code>> : o \in Addresses}
  <2>1. ClosuresIn(h, C)
    BY DEF ClosuresIn
  <2> HIDE DEF C
  <2> QED BY <2>1, AllWritten, WorkspaceSizes
<1>3. ~t => TokensIn(WriteAll(h, vs), Sources(f))
  BY AllWritten, WorkspaceSizes
<1>4. ~GcMayRun => Graph(Snapshot(f, h, g, t))
  BY <1>1 DEF Graph, vs
<1> QED BY <1>1, <1>2, <1>3, <1>4 DEF SnapshotOK

LEMMA FunctionsLoaded ==
  ASSUME NEW f, FnsOK(f)
  PROVE  [i \in DOMAIN f |-> ReadFunction(f[i], 0)] = f
<1>1. f \in Seq(FnRecords) /\ f \in [1..Len(f) -> FnRecords] /\ DOMAIN f = 1..Len(f)
  BY DEF FnsOK
<1>2. \A r \in FnRecords : ReadFunction(r, 0) = r
  BY DEF ReadFunction, Fn, FnRecords
<1> QED BY <1>1, <1>2

LEMMA FunctionsAppended ==
  ASSUME NEW f, NEW a, NEW b, FnsOK(f), FnsOK(a), Len(f) + Len(a) <= MaxFns,
         b = [i \in DOMAIN a |-> ReadFunction(a[i], Len(f))]
  PROVE  /\ FnsOK(f \o b)
         /\ f = <<>> => f \o b = a
         /\ a = <<>> => f \o b = f
<1>1. /\ f \in Seq(FnRecords) /\ a \in Seq(FnRecords)
      /\ Len(f) \in Nat /\ Len(a) \in Nat /\ DOMAIN f = 1..Len(f) /\ DOMAIN a = 1..Len(a)
      /\ \A i \in 1..Len(f) : f[i] \in FnRecords
      /\ \A i \in 1..Len(a) : a[i] \in FnRecords
  BY DEF FnsOK
<1>2. \A r \in FnRecords, n \in Nat :
        /\ ReadFunction(r, n) \in FnRecords /\ ReadFunction(r, n).code = r.code
        /\ r.nested = 0 => ReadFunction(r, n).nested = 0
        /\ r.nested # 0 => ReadFunction(r, n).nested = r.nested + n
  BY DEF ReadFunction, Fn, FnRecords
<1>3. /\ b \in [1..Len(a) -> FnRecords] /\ DOMAIN b = 1..Len(a)
      /\ \A i \in 1..Len(a) : b[i] = ReadFunction(a[i], Len(f))
  BY <1>1, <1>2
<1>4. b \in Seq(FnRecords) /\ Len(b) = Len(a)
  BY <1>1, <1>3
<1>5. /\ f \o b \in Seq(FnRecords) /\ Len(f \o b) = Len(f) + Len(a)
      /\ DOMAIN (f \o b) = 1..(Len(f) + Len(a))
      /\ \A i \in 1..Len(f) : (f \o b)[i] = f[i]
      /\ \A i \in 1..Len(a) : (f \o b)[Len(f) + i] = b[i]
  BY <1>1, <1>4
<1>6. ASSUME NEW i \in DOMAIN (f \o b), (f \o b)[i].nested # 0
      PROVE  /\ (f \o b)[i].nested \in DOMAIN (f \o b)
             /\ (f \o b)[(f \o b)[i].nested].code = -(f \o b)[i].code
  <2>1. CASE i \in 1..Len(f)
    <3>1. (f \o b)[i] = f[i] /\ f[i].nested \in 1..Len(f) /\ f[f[i].nested].code = -f[i].code
      BY <1>1, <1>5, <1>6, <2>1 DEF FnsOK
    <3> QED BY SMTT(30), <1>1, <1>5, <3>1
  <2>2. CASE i \notin 1..Len(f)
    <3>1. PICK j \in 1..Len(a) : i = Len(f) + j
      <4>1. i \in 1..(Len(f) + Len(a)) /\ Len(f) \in Nat /\ Len(a) \in Nat
        BY <1>1, <1>5
      <4>2. i - Len(f) \in 1..Len(a) /\ i = Len(f) + (i - Len(f))
        BY <2>2, <4>1
      <4> QED BY <4>2
    <3>2. (f \o b)[i] = ReadFunction(a[j], Len(f)) /\ a[j] \in FnRecords
      BY <1>1, <1>3, <1>5, <3>1
    <3> DEFINE n == a[j].nested
    <3>3. n # 0 /\ (f \o b)[i].nested = n + Len(f) /\ (f \o b)[i].code = a[j].code
      <4>1. ReadFunction(a[j], Len(f)).nested # 0
        BY <1>6, <3>2
      <4>2. Len(f) \in Nat /\ a[j] \in FnRecords
        BY <1>1, <3>2
      <4>3. a[j].nested # 0
        BY <1>2, <4>1, <4>2
      <4>4. /\ ReadFunction(a[j], Len(f)).code = a[j].code
            /\ ReadFunction(a[j], Len(f)).nested = a[j].nested + Len(f)
        BY <1>2, <4>2, <4>3
      <4> QED BY <3>2, <4>3, <4>4
    <3>4. n \in 1..Len(a) /\ a[n].code = -a[j].code
      BY <1>1, <3>3 DEF FnsOK
    <3>5. (f \o b)[Len(f) + n].code = a[n].code
      <4>1. /\ n \in 1..Len(a) /\ (f \o b)[Len(f) + n] = ReadFunction(a[n], Len(f))
            /\ a[n] \in FnRecords
        <5> HIDE DEF n
        <5> QED BY <1>1, <1>3, <1>5, <3>4
      <4> HIDE DEF n
      <4> QED BY <1>1, <1>2, <4>1
    <3>6. n + Len(f) \in 1..(Len(f) + Len(a)) /\ n + Len(f) = Len(f) + n
      BY <1>1, <3>4
    <3> HIDE DEF n
    <3> QED BY <1>5, <3>3, <3>4, <3>5, <3>6
  <2> QED BY <2>1, <2>2
<1>7. f = <<>> => f \o b = a
  <2> SUFFICES ASSUME f = <<>> PROVE f \o b = a
    OBVIOUS
  <2>1. Len(f) = 0
    OBVIOUS
  <2>2. b = a
    BY <2>1, FunctionsLoaded
  <2> QED BY <1>1, <2>2
<1>8. a = <<>> => f \o b = f
  <2> SUFFICES ASSUME a = <<>> PROVE f \o b = f
    OBVIOUS
  <2>1. Len(b) = 0
    BY <1>4
  <2> QED BY <1>1, <1>4, <2>1
<1> QED BY <1>5, <1>6, <1>7, <1>8 DEF FnsOK

LEMMA NoSources == Sources(<<>>) = {}
BY DEF Sources

(* A function is appended that is code and makes no closures, or closures of *)
(* the last one.                                                             *)
LEMMA FunctionAppended ==
  ASSUME NEW f, FnsOK(f), Len(f) + 1 <= MaxFns, NEW e \in FnRecords,
         e.nested # 0 => e.nested = Len(f) /\ f[Len(f)].code = -e.code
  PROVE  /\ FnsOK(f \o <<e>>) /\ Len(f \o <<e>>) = Len(f) + 1
         /\ (f \o <<e>>)[Len(f) + 1] = e
         /\ Sources(f) \subseteq Sources(f \o <<e>>)
         /\ <<Len(f) + 1, e.code>> \in Sources(f \o <<e>>)
<1> DEFINE b == <<e>>
           r == f \o b
           code == e.code
           nested == e.nested
<1>1. f \in Seq(FnRecords) /\ Len(f) \in Nat
  BY DEF FnsOK
<1>3. b \in Seq(FnRecords) /\ Len(b) = 1 /\ b[1] = e
  OBVIOUS
<1> HIDE DEF b
<1>5. /\ r \in Seq(FnRecords) /\ Len(r) = Len(f) + 1
      /\ DOMAIN f = 1..Len(f) /\ DOMAIN r = 1..(Len(f) + 1)
      /\ \A i \in 1..Len(f) : r[i] = f[i]
      /\ r[Len(f) + 1] = e
  <2>1. /\ f \o b \in Seq(FnRecords) /\ Len(f \o b) = Len(f) + Len(b)
        /\ DOMAIN f = 1..Len(f) /\ DOMAIN (f \o b) = 1..(Len(f) + Len(b))
        /\ \A i \in 1..Len(f) : (f \o b)[i] = f[i]
        /\ \A i \in 1..Len(b) : (f \o b)[Len(f) + i] = b[i]
    <3>1. f \in Seq(FnRecords) /\ b \in Seq(FnRecords)
      BY <1>1, <1>3
    <3> QED BY <3>1
  <2> QED BY <1>3, <2>1
<1>6. r[Len(f) + 1].code = code /\ r[Len(f) + 1].nested = nested
  BY <1>5
<1> HIDE DEF r
<1>7. ASSUME NEW i \in DOMAIN r, r[i].nested # 0
      PROVE  r[i].nested \in DOMAIN r /\ r[r[i].nested].code = -r[i].code
  <2>1. CASE i \in 1..Len(f)
    <3>1. r[i] = f[i] /\ f[i].nested \in 1..Len(f) /\ f[f[i].nested].code = -f[i].code
      BY <1>5, <1>7, <2>1 DEF FnsOK
    <3>2. 1..Len(f) \subseteq 1..(Len(f) + 1)
      BY <1>1
    <3>3. f[i].nested \in DOMAIN r /\ r[f[i].nested] = f[f[i].nested]
      BY <1>5, <3>1, <3>2
    <3> QED BY <3>1, <3>3
  <2>2. CASE i \notin 1..Len(f)
    <3>1. i = Len(f) + 1
      BY <1>1, <1>5, <2>2
    <3>2. nested = Len(f) /\ nested # 0 /\ f[nested].code = -code
      BY <1>6, <1>7, <3>1
    <3>3. nested \in 1..Len(f) /\ nested \in 1..(Len(f) + 1)
      BY <1>1, <3>2
    <3> QED BY <1>5, <1>6, <3>1, <3>2, <3>3
  <2> QED BY <2>1, <2>2
<1>8. FnsOK(r)
  BY <1>5, <1>7 DEF FnsOK
<1>9. Len(f) + 1 \in 1..(Len(f) + 1) /\ 1..Len(f) \subseteq 1..(Len(f) + 1)
  BY <1>1
<1>10. Sources(f) \subseteq Sources(r) /\ <<Len(f) + 1, code>> \in Sources(r)
  BY <1>5, <1>6, <1>9 DEF Sources
<1> QED BY <1>5, <1>8, <1>10 DEF r, b

LEMMA OneDefined ==
  ASSUME NEW f, FnsOK(f), NEW code \in Int, Len(f) + 2 <= MaxFns, MaxFns \in Nat,
         NEW r, r = f \o <<Fn(code, 0)>>
  PROVE  FnsOK(r) /\ Sources(f) \subseteq Sources(r) /\ <<Len(r), code>> \in Sources(r)
<1>1. Len(f) \in Nat
  BY DEF FnsOK
<1>2. Len(f) + 1 <= MaxFns
  BY <1>1
<1>3. PICK e \in FnRecords : e = Fn(code, 0) /\ e.code = code /\ e.nested = 0
  BY DEF Fn, FnRecords
<1>4. /\ FnsOK(f \o <<e>>) /\ Len(f \o <<e>>) = Len(f) + 1
      /\ Sources(f) \subseteq Sources(f \o <<e>>)
      /\ <<Len(f) + 1, e.code>> \in Sources(f \o <<e>>)
  BY <1>2, <1>3, FunctionAppended
<1> QED BY <1>3, <1>4

LEMMA PairAppended ==
  ASSUME NEW S, NEW f \in Seq(S), NEW x \in S, NEW y \in S
  PROVE  f \o <<x, y>> = (f \o <<x>>) \o <<y>>
<1> DEFINE one == f \o <<x>>
           two == f \o <<x, y>>
           both == one \o <<y>>
<1>1. /\ Len(f) \in Nat /\ <<x>> \in Seq(S) /\ <<y>> \in Seq(S) /\ <<x, y>> \in Seq(S)
      /\ Len(<<x>>) = 1 /\ Len(<<y>>) = 1 /\ Len(<<x, y>>) = 2
  OBVIOUS
<1>2. /\ one \in Seq(S) /\ Len(one) = Len(f) + 1 /\ one[Len(f) + 1] = x
      /\ \A i \in 1..Len(f) : one[i] = f[i]
  BY <1>1
<1>3. /\ two \in Seq(S) /\ Len(two) = Len(f) + 2
      /\ two[Len(f) + 1] = x /\ two[Len(f) + 2] = y
      /\ \A i \in 1..Len(f) : two[i] = f[i]
  BY <1>1
<1> HIDE DEF one
<1>4. /\ both \in Seq(S) /\ Len(both) = Len(one) + 1 /\ both[Len(one) + 1] = y
      /\ \A i \in 1..Len(one) : both[i] = one[i]
  BY <1>1, <1>2
<1> HIDE DEF two, both
<1>5. ASSUME NEW i \in 1..(Len(f) + 2) PROVE both[i] = two[i]
  <2>1. i \in 1..Len(f) \/ i = Len(f) + 1 \/ i = Len(f) + 2
    BY <1>1
  <2> QED BY <1>1, <1>2, <1>3, <1>4, <2>1
<1>6. both = two
  BY <1>1, <1>2, <1>3, <1>4, <1>5
<1> QED BY <1>6 DEF one, two, both

LEMMA TwoDefined ==
  ASSUME NEW f, FnsOK(f), NEW code \in Int, Len(f) + 2 <= MaxFns, MaxFns \in Nat,
         NEW r, r = f \o <<Fn(-code, 0), Fn(code, Len(f) + 1)>>
  PROVE  FnsOK(r) /\ Sources(f) \subseteq Sources(r) /\ <<Len(r), code>> \in Sources(r)
<1>1. f \in Seq(FnRecords) /\ Len(f) \in Nat
  BY DEF FnsOK
<1>2. Len(f) + 1 <= MaxFns /\ (Len(f) + 1) + 1 <= MaxFns
  BY <1>1
<1>3. PICK d \in FnRecords : d = Fn(-code, 0) /\ d.code = -code /\ d.nested = 0
  <2>1. -code \in Int
    OBVIOUS
  <2> QED BY SMTT(30), <2>1 DEF Fn, FnRecords
<1>0. Len(f) + 1 \in Nat
  BY <1>1
<1>4. PICK e \in FnRecords :
        e = Fn(code, Len(f) + 1) /\ e.code = code /\ e.nested = Len(f) + 1
  BY <1>0 DEF Fn, FnRecords
<1>5. r = (f \o <<d>>) \o <<e>>
  BY SMTT(30), <1>1, <1>3, <1>4, PairAppended
<1>6. PICK g : g = f \o <<d>>
  OBVIOUS
<1>7. /\ FnsOK(g) /\ Len(g) = Len(f) + 1 /\ g[Len(f) + 1] = d
      /\ Sources(f) \subseteq Sources(g)
  BY <1>2, <1>3, <1>6, FunctionAppended
<1>8. e.nested = Len(g) /\ g[Len(g)].code = -e.code
  BY <1>3, <1>4, <1>7
<1>9. /\ FnsOK(g \o <<e>>) /\ Len(g \o <<e>>) = Len(g) + 1
      /\ Sources(g) \subseteq Sources(g \o <<e>>)
      /\ <<Len(g) + 1, e.code>> \in Sources(g \o <<e>>)
  BY <1>2, <1>7, <1>8, FunctionAppended
<1> QED BY <1>4, <1>5, <1>6, <1>7, <1>9

LEMMA ClosuresStay ==
  ASSUME NEW h, NEW C, NEW D, ClosuresIn(h, C), C \subseteq D
  PROVE  ClosuresIn(h, D)
BY DEF ClosuresIn

-----------------------------------------------------------------------------
(* The file holds snapshots.                                                 *)
LEMMA ContentRead ==
  ASSUME FileOK, Readable
  PROVE  SnapshotOK(Content)
<1>1. target \in Inodes /\ Content = Stored(target) /\ Content # Torn
  BY DEF FileOK, Readable, Content
<1>2. Content = blocks[target][1] /\ blocks[target][1] # None
  BY <1>1 DEF Stored
<1> QED BY <1>1, <1>2 DEF FileOK

LEMMA FileKept ==
  ASSUME FileOK, UNCHANGED fileVars
  PROVE  FileOK'
BY DEF FileOK, fileVars

LEMMA BlocksUnlinked ==
  ASSUME FileOK, Unlinked
  PROVE  /\ DOMAIN blocks' = Inodes /\ \A i \in Inodes : DOMAIN blocks'[i] = 1..2
         /\ \A i \in Inodes, b \in 1..2 : blocks'[i][b] = None \/ SnapshotOK(blocks'[i][b])
BY DEF FileOK, Unlinked, Blank

LEMMA FileOpened ==
  ASSUME FileOK, NEW w, NEW v, SnapshotOK(v), Open(w, v)
  PROVE  FileOK'
<1>1. PICK i \in Inodes : blocks' = [blocks EXCEPT ![i] = Blank]
  BY DEF Open
<1>2. /\ DOMAIN blocks' = Inodes /\ \A j \in Inodes : DOMAIN blocks'[j] = 1..2
      /\ \A j \in Inodes, b \in 1..2 : blocks'[j][b] = None \/ SnapshotOK(blocks'[j][b])
  BY <1>1 DEF FileOK, Blank
<1>3. DOMAIN val' = Writers /\ \A u \in Writers : val'[u] = None \/ SnapshotOK(val'[u])
  BY DEF FileOK, Open
<1> QED BY <1>2, <1>3 DEF FileOK, Open

LEMMA BlockWritten ==
  ASSUME FileOK, NEW w \in Writers, WriteFirst(w) \/ WriteRest(w)
  PROVE  FileOK'
<1>1. PICK b \in 1..2 : blocks' = [blocks EXCEPT ![fd[w]][b] = val[w]]
  BY DEF WriteFirst, WriteRest
<1>2. /\ DOMAIN blocks' = Inodes /\ \A i \in Inodes : DOMAIN blocks'[i] = 1..2
      /\ \A i \in Inodes, c \in 1..2 : blocks'[i][c] = None \/ SnapshotOK(blocks'[i][c])
  BY <1>1 DEF FileOK
<1> QED BY <1>2 DEF FileOK, WriteFirst, WriteRest

LEMMA SaveEnded ==
  ASSUME FileOK, NEW w \in Writers, GiveUp(w), Unlinked, {target', temp'} \subseteq Inodes \cup {None}
  PROVE  FileOK'
<1>1. DOMAIN val' = Writers /\ \A u \in Writers : val'[u] = None \/ SnapshotOK(val'[u])
  BY DEF FileOK, GiveUp
<1> QED BY <1>1, BlocksUnlinked DEF FileOK

LEMMA FileStep ==
  ASSUME FileOK, NEW w \in Writers,
         \/ WriteFirst(w) \/ WriteRest(w) \/ WriteFails(w)
         \/ Replace(w) \/ ReplaceFails(w) \/ Crash(w) \/ Delete
  PROVE  FileOK'
<1>1. CASE WriteFirst(w) \/ WriteRest(w)
  BY <1>1, BlockWritten
<1>2. CASE WriteFails(w) \/ Replace(w) \/ ReplaceFails(w) \/ Crash(w)
  <2>1. GiveUp(w) /\ Unlinked /\ {target', temp'} \subseteq {target, temp, None}
    BY <1>2 DEF WriteFails, Replace, ReplaceFails, Crash
  <2> QED BY <2>1, SaveEnded DEF FileOK
<1>3. CASE Delete
  BY <1>3, BlocksUnlinked DEF Delete, FileOK
<1> QED BY <1>1, <1>2, <1>3

-----------------------------------------------------------------------------
(* The steps of the session.                                                 *)
LEMMA HeapBound ==
  ASSUME NEW C, NEW n, NEW v, NEW h, DOMAIN h = Addresses, Bind(n, v, h)
  PROVE  /\ DOMAIN heap' = Addresses
         /\ ClosuresIn(h, C) => ClosuresIn(heap', C)
BY SweptHeap, SweptDomain DEF Bind

LEMMA NewBound ==
  ASSUME NEW C, NEW n, NEW obj, DOMAIN heap = Addresses, BindNew(n, obj)
  PROVE  /\ DOMAIN heap' = Addresses
         /\ ClosuresIn(heap, C) /\ (obj.kind = "fn" => <<obj.idx, obj.code>> \in C)
              => ClosuresIn(heap', C)
<1> DEFINE o == Lowest(FreeIn(heap))
           h == [heap EXCEPT ![o] = obj]
<1>1. DOMAIN h = Addresses
  OBVIOUS
<1>2. Bind(n, o, h)
  BY DEF BindNew
<1>3. ClosuresIn(heap, C) /\ (obj.kind = "fn" => <<obj.idx, obj.code>> \in C)
        => ClosuresIn(h, C)
  <2> HIDE DEF o
  <2> QED BY PlacedObject
<1> HIDE DEF o, h
<1> QED BY <1>1, <1>2, <1>3, HeapBound

(* Nothing but the heap changes.                                             *)
LEMMA OtherHeap ==
  ASSUME SessionOK, fns' = fns, jit' = jit, disturbed' = disturbed, commands' \in Nat,
         DOMAIN heap' = Addresses,
         ClosuresIn(heap, Sources(fns)) => ClosuresIn(heap', Sources(fns))
  PROVE  SessionOK'
BY DEF SessionOK, FnsOK, ClosuresIn

LEMMA Defined ==
  ASSUME SessionOK, NEW n \in Slots, Define(n)
  PROVE  SessionOK'
<1> DEFINE code == commands + 1
<1>1. commands' = code /\ code \in Nat
  BY DEF Define, Command, SessionOK
<1>2. PICK nested, kids :
        /\ nested \in BOOLEAN /\ Len(fns) + 2 <= MaxFns
        /\ fns' = fns \o IF nested THEN <<Fn(-code, 0), Fn(code, Len(fns) + 1)>>
                         ELSE <<Fn(code, 0)>>
        /\ BindNew(n, Obj("fn", Len(fns'), code, kids))
  BY DEF Define
<1> HIDE DEF code
<1>3. /\ FnsOK(fns') /\ Sources(fns) \subseteq Sources(fns')
      /\ <<Len(fns'), code>> \in Sources(fns')
  <2>1. FnsOK(fns) /\ MaxFns \in Nat /\ code \in Int
    BY <1>1, WorkspaceSizes DEF SessionOK
  <2>2. CASE nested
    <3>1. fns' = fns \o <<Fn(-code, 0), Fn(code, Len(fns) + 1)>>
      BY <1>2, <2>2
    <3> QED BY <1>2, <2>1, <3>1, TwoDefined
  <2>3. CASE ~nested
    <3>1. fns' = fns \o <<Fn(code, 0)>>
      BY <1>2, <2>3
    <3> QED BY <1>2, <2>1, <3>1, OneDefined
  <2> QED BY <2>2, <2>3
<1>4. jit' = jit /\ disturbed' = disturbed
  BY DEF Define
<1>5. /\ DOMAIN heap' = Addresses
      /\ ~disturbed => ClosuresIn(heap', Sources(fns'))
  <2> DEFINE obj == Obj("fn", Len(fns'), code, kids)
  <2>1. obj.idx = Len(fns') /\ obj.code = code
    BY DEF Obj
  <2>2. BindNew(n, obj) /\ DOMAIN heap = Addresses
    BY <1>2 DEF SessionOK
  <2>3. ~disturbed => ClosuresIn(heap, Sources(fns'))
    BY <1>3, ClosuresStay DEF SessionOK
  <2> HIDE DEF obj
  <2> QED BY <1>3, <2>1, <2>2, <2>3, NewBound
<1>6. ~disturbed => \A i \in 1..MaxFns : jit'[i] # NoCode => <<i, jit'[i]>> \in Sources(fns')
  BY <1>3, <1>4 DEF SessionOK
<1> QED BY <1>1, <1>3, <1>4, <1>5, <1>6 DEF SessionOK, FnsOK, ClosuresIn, Sources

LEMMA ObjectMade ==
  ASSUME SessionOK, NEW n \in Slots, MakeObject(n)
  PROVE  SessionOK'
<1>1. fns' = fns /\ jit' = jit /\ disturbed' = disturbed /\ commands' \in Nat
  BY DEF MakeObject, Command, SessionOK
<1>2. DOMAIN heap = Addresses
  BY DEF SessionOK
<1>3. PICK k \in {"list", "native", "builtin", "module"} :
        \/ \E o \in Addresses : Bind(n, o, heap)
        \/ BindNew(n, Obj(k, 0, NoCode, <<>>))
  BY DEF MakeObject
<1>4. CASE \E o \in Addresses : Bind(n, o, heap)
  <2>1. /\ DOMAIN heap' = Addresses
        /\ ClosuresIn(heap, Sources(fns)) => ClosuresIn(heap', Sources(fns))
    BY <1>2, <1>4, HeapBound
  <2> QED BY <1>1, <2>1, OtherHeap
<1>5. CASE BindNew(n, Obj(k, 0, NoCode, <<>>))
  <2>1. Obj(k, 0, NoCode, <<>>).kind # "fn"
    BY DEF Obj
  <2>2. /\ DOMAIN heap' = Addresses
        /\ ClosuresIn(heap, Sources(fns)) => ClosuresIn(heap', Sources(fns))
    BY <1>2, <1>5, <2>1, NewBound
  <2> QED BY <1>1, <2>2, OtherHeap
<1> QED BY <1>3, <1>4, <1>5

LEMMA Pushed ==
  ASSUME SessionOK, NEW n \in Slots, NEW m \in Slots, Push(n, m)
  PROVE  SessionOK'
<1>1. fns' = fns /\ jit' = jit /\ disturbed' = disturbed /\ commands' \in Nat
  BY DEF Push, Command, SessionOK
<1>2. DOMAIN heap = Addresses
  BY DEF SessionOK
<1> DEFINE kids == Append(heap[globals[n]].kids, globals[m])
<1>3. /\ heap' = [heap EXCEPT ![globals[n]].kids = kids]
      /\ heap[globals[n]].kind = "list"
  BY DEF Push
<1> HIDE DEF kids
<1>4. PICK obj : obj = [heap[globals[n]] EXCEPT !.kids = kids]
  OBVIOUS
<1>5. obj.kind = "list"
  BY <1>3, <1>4
<1>6. heap' = [heap EXCEPT ![globals[n]] = obj]
  BY <1>3, <1>4
<1>7. /\ DOMAIN heap' = Addresses
      /\ ClosuresIn(heap, Sources(fns)) => ClosuresIn(heap', Sources(fns))
  BY <1>2, <1>5, <1>6, PlacedObject
<1> QED BY <1>1, <1>7, OtherHeap

LEMMA Assigned ==
  ASSUME SessionOK, NEW n \in Slots, NEW m \in Slots, Assign(n, m)
  PROVE  SessionOK'
<1>1. fns' = fns /\ jit' = jit /\ disturbed' = disturbed /\ commands' \in Nat
  BY DEF Assign, Command, SessionOK
<1>2. /\ DOMAIN heap' = Addresses
      /\ ClosuresIn(heap, Sources(fns)) => ClosuresIn(heap', Sources(fns))
  BY HeapBound DEF Assign, SessionOK
<1> QED BY <1>1, <1>2, OtherHeap

LEMMA Cleared ==
  ASSUME SessionOK, Clear
  PROVE  SessionOK'
<1>1. fns' = fns /\ jit' = jit /\ disturbed' = disturbed /\ commands' \in Nat
  BY DEF Clear, Command, SessionOK
<1>2. /\ DOMAIN heap' = Addresses
      /\ ClosuresIn(heap, Sources(fns)) => ClosuresIn(heap', Sources(fns))
  BY SweptHeap, SweptDomain DEF Clear
<1> QED BY <1>1, <1>2, OtherHeap

(* Nothing but the machine code changes.                                     *)
LEMMA OtherCode ==
  ASSUME SessionOK, fns' = fns, heap' = heap, disturbed' = disturbed, commands' \in Nat,
         DOMAIN jit' = 1..MaxFns,
         ~disturbed => \A i \in 1..MaxFns : jit'[i] # NoCode => <<i, jit'[i]>> \in Sources(fns)
  PROVE  SessionOK'
BY DEF SessionOK, FnsOK, ClosuresIn

LEMMA Compiled ==
  ASSUME SessionOK, NEW n \in Slots, Compile(n)
  PROVE  SessionOK'
<1>1. fns' = fns /\ heap' = heap /\ disturbed' = disturbed /\ commands' \in Nat
  BY DEF Compile, Command, SessionOK
<1>2. PICK i \in DOMAIN fns : jit' = [jit EXCEPT ![i] = fns[i].code]
  BY DEF Compile
<1>3. <<i, fns[i].code>> \in Sources(fns)
  BY DEF Sources
<1>4. DOMAIN jit' = 1..MaxFns /\ DOMAIN jit = 1..MaxFns
  BY <1>2 DEF SessionOK
<1>5. ~disturbed => \A j \in 1..MaxFns : jit'[j] # NoCode => <<j, jit'[j]>> \in Sources(fns)
  BY <1>2, <1>3, <1>4 DEF SessionOK
<1> QED BY <1>1, <1>4, <1>5, OtherCode

LEMMA Invalidated ==
  ASSUME SessionOK, InvalidateJIT
  PROVE  SessionOK'
<1>1. fns' = fns /\ heap' = heap /\ disturbed' = disturbed /\ commands' \in Nat
  BY DEF InvalidateJIT, Command, SessionOK
<1>2. jit' = [i \in 1..MaxFns |-> NoCode]
  BY DEF InvalidateJIT
<1> QED BY <1>1, <1>2, OtherCode

(* What a load finds is as it was saved.                                     *)
LEMMA Loaded ==
  ASSUME FileOK, SessionOK, Load
  PROVE  SessionOK'
<1>1. SnapshotOK(Content)
  BY ContentRead DEF Load
<1> DEFINE empty == [o \in Addresses |-> Free]
<1>2. PICK gc, g : /\ fns' = [i \in DOMAIN Content.fns |-> ReadFunction(Content.fns[i], 0)]
                   /\ heap' = ReadSession(Content, empty, g, gc).heap
  BY DEF Load
<1>3. fns' = Content.fns /\ FnsOK(fns')
  BY <1>1, <1>2, FunctionsLoaded DEF SnapshotOK
<1>4. /\ jit' = jit /\ commands' \in Nat
      /\ disturbed' = (Content.tainted \/ \E i \in DOMAIN jit : jit[i] # NoCode)
  BY DEF Load, Command, SessionOK
<1>5. \A C : DOMAIN empty = Addresses /\ ClosuresIn(empty, C)
  BY DEF ClosuresIn, Free, Obj
<1> HIDE DEF empty
<1>6. DOMAIN heap' = Addresses
  <2>1. \E C : TokensIn(Content.out, C)
    <3>1. TokensIn(Content.out, {<<Content.out[i].idx, Content.out[i].code>> :
                                   i \in 1..Len(Content.out)})
      BY DEF TokensIn, TokenIn
    <3> QED BY <3>1
  <2> QED BY <1>1, <1>2, <1>5, <2>1, SessionRead, WorkspaceSizes DEF SnapshotOK
<1>7. ~disturbed' => ClosuresIn(heap', Sources(fns'))
  BY <1>1, <1>2, <1>3, <1>4, <1>5, SessionRead, WorkspaceSizes DEF SnapshotOK
<1>8. DOMAIN jit' = 1..MaxFns /\ (~disturbed' => \A i \in 1..MaxFns : jit'[i] = NoCode)
  BY <1>4 DEF SessionOK
<1> QED BY <1>3, <1>4, <1>6, <1>7, <1>8 DEF SessionOK, FnsOK, ClosuresIn, Sources

(* A merge finds what it was saved with, unless it is on top of functions.   *)
LEMMA Merged ==
  ASSUME FileOK, SessionOK, Merge
  PROVE  SessionOK'
<1>1. SnapshotOK(Content)
  BY ContentRead DEF Merge
<1> DEFINE b == [i \in DOMAIN Content.fns |-> ReadFunction(Content.fns[i], Len(fns))]
           closures(gc) == ReadSession(Content, heap, globals, gc)
<1>2. PICK gc : /\ fns' = fns \o b
                /\ heap' = Sweep(closures(gc).heap, closures(gc).glob)
  BY DEF Merge
<1>3. /\ FnsOK(fns) /\ FnsOK(Content.fns) /\ Len(fns) + Len(Content.fns) <= MaxFns
      /\ DOMAIN heap = Addresses
  BY <1>1 DEF Merge, SessionOK, SnapshotOK
<1>4. /\ FnsOK(fns')
      /\ fns = <<>> => fns' = Content.fns
      /\ Content.fns = <<>> => fns' = fns
  BY <1>2, <1>3, FunctionsAppended
<1>5. /\ jit' = jit /\ commands' \in Nat
      /\ ~disturbed' => ~disturbed /\ ~Content.tainted /\ (fns = <<>> \/ Content.fns = <<>>)
  BY DEF Merge, Command, SessionOK
<1>6. Sources(<<>>) = {}
  BY NoSources
<1>7. ~disturbed' => /\ Sources(fns) \subseteq Sources(fns')
                     /\ Sources(Content.fns) \subseteq Sources(fns')
  BY <1>4, <1>5, <1>6
<1>8. ~disturbed' => ClosuresIn(heap', Sources(fns'))
  <2> SUFFICES ASSUME ~disturbed' PROVE ClosuresIn(heap', Sources(fns'))
    OBVIOUS
  <2>1. ClosuresIn(heap, Sources(fns'))
    BY <1>5, <1>7, ClosuresStay DEF SessionOK
  <2>2. TokensIn(Content.out, Sources(fns'))
    BY <1>1, <1>5, <1>7 DEF SnapshotOK, TokensIn, TokenIn
  <2>3. ClosuresIn(closures(gc).heap, Sources(fns'))
    BY <1>1, <1>3, <2>1, <2>2, SessionRead, WorkspaceSizes DEF SnapshotOK
  <2> HIDE DEF closures
  <2> QED BY <1>2, <2>3, SweptHeap
<1>9. DOMAIN heap' = Addresses
  BY <1>2, SweptDomain
<1>10. ~disturbed' => \A i \in 1..MaxFns : jit'[i] # NoCode => <<i, jit'[i]>> \in Sources(fns')
  BY <1>5, <1>7 DEF SessionOK
<1> QED BY <1>4, <1>5, <1>8, <1>9, <1>10 DEF SessionOK, FnsOK, ClosuresIn, Sources

LEMMA Restarted ==
  ASSUME SessionOK, Restart
  PROVE  SessionOK'
<1>1. fns' = <<>> /\ jit' = [i \in 1..MaxFns |-> NoCode] /\ commands' \in Nat
  BY DEF Restart, SessionOK
<1>2. heap' = [o \in Addresses |-> Free]
  BY DEF Restart
<1>3. FnsOK(<<>>)
  BY WorkspaceSizes DEF FnsOK
<1>4. DOMAIN heap' = Addresses /\ \A C : ClosuresIn(heap', C)
  BY <1>2 DEF ClosuresIn, Free, Obj
<1> QED BY <1>1, <1>3, <1>4 DEF SessionOK, FnsOK, ClosuresIn, Sources

-----------------------------------------------------------------------------
(* The graph of the session.                                                 *)
LEMMA GraphBound ==
  ASSUME NEW h, HeapOK(h, globals), NEW n \in Slots, NEW v \in Vals \cup {None}, NotFree(h, v),
         Bind(n, v, h)
  PROVE  HeapOK(heap', globals')
<1>1. globals \in [Slots -> Vals \cup {None}] /\ globals' = [globals EXCEPT ![n] = v]
  BY DEF HeapOK, Bind
<1>2. /\ globals' \in [Slots -> Vals \cup {None}]
      /\ \A m \in Slots : globals'[m] = IF m = n THEN v ELSE globals[m]
  BY <1>1
<1>3. HeapOK(h, globals')
  BY <1>2 DEF HeapOK
<1>4. heap' = Sweep(h, globals')
  BY DEF Bind
<1> QED BY <1>3, <1>4, SweptOK

LEMMA GraphBoundNew ==
  ASSUME HeapOK(heap, globals), NEW n \in Slots, NEW obj \in Objects,
         obj.kind # "free", Len(obj.kids) <= MaxKids + 1,
         \A i \in DOMAIN obj.kids : NotFree(heap, obj.kids[i]),
         obj.kind = "builtin" => \A p \in Addresses : heap[p].kind # "builtin",
         BindNew(n, obj)
  PROVE  HeapOK(heap', globals')
<1> DEFINE o == Lowest(FreeIn(heap))
           h == WithObject(heap, o, obj)
<1>1. o \in FreeIn(heap) /\ o \in Addresses
  BY LowestIn, FreeCounted DEF BindNew
<1>2. Bind(n, o, h)
  BY DEF BindNew, WithObject
<1> HIDE DEF o
<1>3. HeapOK(h, globals) /\ h[o] = obj
  BY <1>1, HeapWithObject
<1> HIDE DEF h
<1>4. o \in Vals \cup {None} /\ NotFree(h, o)
  BY <1>1, <1>3 DEF Vals, NotFree
<1> QED BY <1>2, <1>3, <1>4, GraphBound

LEMMA GlobalOf ==
  ASSUME HeapOK(heap, globals), NEW m \in Slots
  PROVE  /\ globals[m] \in Vals \cup {None} /\ NotFree(heap, globals[m])
         /\ globals[m] \notin {0, None} => globals[m] \in Addresses
         /\ globals[m] # None => globals[m] \in Vals
BY DEF HeapOK, Vals

LEMMA GraphDefined ==
  ASSUME SessionOK, SessionOK', HeapOK(heap, globals), NEW n \in Slots, Define(n)
  PROVE  HeapOK(heap', globals')
<1>1. PICK kids \in {<<>>} \cup {<<globals[m]>> : m \in {m \in Slots : globals[m] # None}} :
        BindNew(n, Obj("fn", Len(fns'), commands + 1, kids))
  BY DEF Define
<1> DEFINE obj == Obj("fn", Len(fns'), commands + 1, kids)
<1>2. Len(fns') \in Int /\ commands + 1 \in Int
  <2>1. fns' \in Seq(FnRecords) /\ commands \in Nat
    BY DEF SessionOK, FnsOK
  <2> QED BY <2>1
<1>3. kids \in Seq(Vals) /\ Len(kids) <= MaxKids + 1 /\ \A i \in DOMAIN kids : NotFree(heap, kids[i])
  <2>1. CASE kids = <<>>
    <3>1. Len(<<>>) = 0 /\ DOMAIN <<>> = {} /\ <<>> \in Seq(Vals)
      OBVIOUS
    <3> QED BY <2>1, <3>1, WorkspaceSizes
  <2>2. CASE kids # <<>>
    <3>1. PICK m \in Slots : globals[m] # None /\ kids = <<globals[m]>>
      BY <1>1, <2>2
    <3>2. globals[m] \in Vals /\ NotFree(heap, globals[m])
      BY <3>1, GlobalOf
    <3>3. kids \in Seq(Vals) /\ Len(kids) = 1 /\ DOMAIN kids = {1} /\ kids[1] = globals[m]
      BY <3>1, <3>2
    <3> QED BY <3>2, <3>3, WorkspaceSizes
  <2> QED BY <2>1, <2>2
<1>4. obj = [kind |-> "fn", idx |-> Len(fns'), code |-> commands + 1, kids |-> kids]
  BY DEF Obj
<1>5. obj \in Objects /\ obj.kind = "fn" /\ obj.kids = kids
  BY <1>2, <1>3, <1>4 DEF Objects, Kinds
<1> HIDE DEF obj
<1>6. BindNew(n, obj)
  BY <1>1 DEF obj
<1> QED BY <1>3, <1>5, <1>6, GraphBoundNew

LEMMA GraphMade ==
  ASSUME HeapOK(heap, globals), NEW n \in Slots, MakeObject(n)
  PROVE  HeapOK(heap', globals')
<1>1. PICK k \in {"list", "native", "builtin", "module"} :
        IF k \in {"builtin", "module"} /\ \E o \in Addresses : heap[o].kind = k
        THEN \E o \in Addresses : heap[o].kind = k /\ Bind(n, o, heap)
        ELSE BindNew(n, Obj(k, 0, NoCode, <<>>))
  BY DEF MakeObject
<1>2. CASE \E o \in Addresses : heap[o].kind = k /\ Bind(n, o, heap)
  <2>1. PICK o \in Addresses : heap[o].kind = k /\ Bind(n, o, heap)
    BY <1>2
  <2>2. o \in Vals \cup {None} /\ NotFree(heap, o)
    BY <2>1 DEF Vals, NotFree
  <2> QED BY <2>1, <2>2, GraphBound
<1>3. CASE /\ BindNew(n, Obj(k, 0, NoCode, <<>>))
           /\ k = "builtin" => \A o \in Addresses : heap[o].kind # k
  <2> DEFINE obj == Obj(k, 0, NoCode, <<>>)
  <2>1. obj = [kind |-> k, idx |-> 0, code |-> 0, kids |-> <<>>]
    BY DEF Obj, NoCode
  <2>2. obj \in Objects /\ obj.kind = k /\ obj.kids = <<>> /\ k # "free"
    <3>1. k \in Kinds /\ <<>> \in Seq(Vals) /\ 0 \in Int
      BY DEF Kinds
    <3>2. \A s : s \in Seq(Vals) =>
            [kind |-> k, idx |-> 0, code |-> 0, kids |-> s] \in Objects
      BY <3>1 DEF Objects
    <3>3. obj \in Objects
      BY <2>1, <3>1, <3>2, Zenon
    <3> QED BY <2>1, <3>3
  <2> HIDE DEF obj
  <2>3. Len(obj.kids) = 0 /\ DOMAIN obj.kids = {}
    BY <2>2
  <2>4. Len(obj.kids) <= MaxKids + 1 /\ \A i \in DOMAIN obj.kids : NotFree(heap, obj.kids[i])
    BY <2>3, WorkspaceSizes
  <2>5. BindNew(n, obj)
    BY <1>3 DEF obj
  <2> QED BY <1>3, <2>2, <2>4, <2>5, GraphBoundNew
<1> QED BY <1>1, <1>2, <1>3

LEMMA GraphPushed ==
  ASSUME HeapOK(heap, globals), NEW n \in Slots, NEW m \in Slots, Push(n, m)
  PROVE  HeapOK(heap', globals')
<1> DEFINE o == globals[n]
           a == globals[m]
           kids == Append(heap[o].kids, a)
<1>1. /\ o \in Addresses /\ a \in Vals /\ NotFree(heap, a) /\ heap[o].kind # "free"
      /\ Len(heap[o].kids) <= MaxKids
  <2>1. o \in Addresses /\ a \in Vals /\ NotFree(heap, a)
    BY GlobalOf DEF Push
  <2>2. heap[o].kind = "list" /\ Len(heap[o].kids) < MaxKids
    BY DEF Push
  <2>3. Len(heap[o].kids) \in Nat
    BY <2>1, ObjectsOf DEF HeapOK
  <2> QED BY <2>1, <2>2, <2>3, WorkspaceSizes
<1>2. heap' = [heap EXCEPT ![o] = [heap[o] EXCEPT !.kids = kids]] /\ globals' = globals
  BY DEF Push
<1>3. heap[o] \in Objects
  BY <1>1 DEF HeapOK
<1> HIDE DEF o, a
<1>4. [heap[o] EXCEPT !.kids = kids] = WithKid(heap[o], a)
  <2> HIDE DEF kids
  <2>1. [heap[o] EXCEPT !.kids = kids]
          = [kind |-> heap[o].kind, idx |-> heap[o].idx, code |-> heap[o].code, kids |-> kids]
    BY <1>3 DEF Objects
  <2> QED BY <2>1 DEF WithKid, Obj, kids
<1>5. heap' = WithElement(heap, o, a)
  BY <1>2, <1>4 DEF WithElement
<1> QED BY <1>1, <1>2, <1>5, HeapWithKid

LEMMA GraphAssigned ==
  ASSUME HeapOK(heap, globals), NEW n \in Slots, NEW m \in Slots, Assign(n, m)
  PROVE  HeapOK(heap', globals')
BY GlobalOf, GraphBound DEF Assign

LEMMA GraphCleared ==
  ASSUME HeapOK(heap, globals), Clear
  PROVE  HeapOK(heap', globals')
<1>1. globals' = [n \in Slots |-> None] /\ heap' = Sweep(heap, globals')
  BY DEF Clear
<1>2. None \notin Addresses
  BY ValsAreSome DEF Vals
<1>3. globals' \in [Slots -> Vals \cup {None}] /\ \A n \in Slots : NotFree(heap, globals'[n])
  BY <1>1, <1>2 DEF NotFree
<1>4. HeapOK(heap, globals')
  BY <1>3 DEF HeapOK
<1> QED BY <1>1, <1>4, SweptOK

\* What is read from the file, into a heap that has room for it.
LEMMA GraphRead ==
  ASSUME ~GcMayRun, FileOK, Readable, NEW h0, NEW g0, HeapOK(h0, g0),
         \/ Cardinality(FreeIn(h0)) = MaxObjs
         \/ Weight(Content) <= Cardinality(FreeIn(h0)),
         NEW gc \in GcChoices(Content), NEW st, st = ReadSession(Content, h0, g0, gc)
  PROVE  HeapOK(st.heap, st.glob)
<1>1. gc = 0
  BY DEF GcChoices
<1>2. PICK h, g : /\ HeapOK(h, g) /\ Content.names = Names(g)
                  /\ Content.out = WriteAll(h, NamedValues(g))
  BY ContentRead DEF SnapshotOK, Graph
<1>3. /\ Source(h, g, NamedValues(g), Names(g)) /\ Len(NamedValues(g)) <= NGlobals
  BY <1>2, NamedSource
<1>4. Cardinality(Makes(Content.out)) <= Cardinality(FreeIn(h0))
  <2>1. CASE Cardinality(FreeIn(h0)) = MaxObjs
    <3>1. PICK W : WriteTrace(h, NamedValues(g), W)
      BY WriteLoop, WorkspaceSizes
    <3> QED BY <1>2, <1>3, <2>1, <3>1, WriterEnds
  <2>2. CASE Weight(Content) <= Cardinality(FreeIn(h0))
    BY <2>2 DEF Weight, Makes
  <2> QED BY <2>1, <2>2
<1>5. \E ids, rids : Restored(h, NamedValues(g), Names(g), g0, ids, rids, st.heap, st.glob)
  BY <1>1, <1>2, <1>3, <1>4, SessionRestored
<1> QED BY <1>5 DEF Restored

LEMMA GraphLoaded ==
  ASSUME ~GcMayRun, FileOK, HeapOK(heap, globals), Load \/ Merge
  PROVE  HeapOK(heap', globals')
<1>1. CASE Load
  <2> DEFINE h0 == [o \in Addresses |-> Free]
             g0 == [n \in Slots |-> None]
  <2>1. PICK gc \in GcChoices(Content) : /\ globals' = ReadSession(Content, h0, g0, gc).glob
                                         /\ heap' = ReadSession(Content, h0, g0, gc).heap
    BY <1>1 DEF Load
  <2>2. Readable
    BY <1>1 DEF Load
  <2>3. HeapOK(h0, g0) /\ Cardinality(FreeIn(h0)) = MaxObjs
    BY EmptyOK
  <2> HIDE DEF h0, g0
  <2> QED BY <2>1, <2>2, <2>3, GraphRead
<1>2. CASE Merge
  <2>1. PICK gc \in GcChoices(Content) :
          /\ globals' = ReadSession(Content, heap, globals, gc).glob
          /\ heap' = Sweep(ReadSession(Content, heap, globals, gc).heap,
                           ReadSession(Content, heap, globals, gc).glob)
    BY <1>2 DEF Merge
  <2>2. Readable /\ Weight(Content) <= Cardinality(FreeIn(heap))
    BY <1>2 DEF Merge
  <2> DEFINE st == ReadSession(Content, heap, globals, gc)
  <2>3. HeapOK(st.heap, st.glob)
    <3> HIDE DEF st
    <3>1. st = ReadSession(Content, heap, globals, gc)
      BY DEF st
    <3> QED BY <2>2, <3>1, GraphRead
  <2>4. globals' = st.glob /\ heap' = Sweep(st.heap, st.glob)
    BY <2>1
  <2> HIDE DEF st
  <2> QED BY <2>3, <2>4, SweptOK
<1> QED BY <1>1, <1>2

LEMMA GraphNext ==
  ASSUME FileOK, SessionOK, SessionOK', GraphOK, [WorkspaceNext]_workspaceVars
  PROVE  GraphOK'
<1> SUFFICES ASSUME ~GcMayRun PROVE HeapOK(heap', globals')
  BY DEF GraphOK
<1>1. HeapOK(heap, globals)
  BY DEF GraphOK
<1>2. ASSUME UNCHANGED <<heap, globals>> PROVE HeapOK(heap', globals')
  BY <1>1, <1>2
<1>3. ASSUME NEW n \in Slots, Define(n) \/ MakeObject(n) PROVE HeapOK(heap', globals')
  BY <1>1, <1>3, GraphDefined, GraphMade
<1>4. ASSUME NEW n \in Slots, Compile(n) PROVE HeapOK(heap', globals')
  BY <1>2, <1>4 DEF Compile
<1>5. ASSUME NEW n \in Slots, NEW m \in Slots, Push(n, m) \/ Assign(n, m)
      PROVE  HeapOK(heap', globals')
  BY <1>1, <1>5, GraphPushed, GraphAssigned
<1>6. CASE Clear
  BY <1>1, <1>6, GraphCleared
<1>7. CASE Load \/ Merge
  BY <1>1, <1>7, GraphLoaded
<1>8. CASE Restart
  BY <1>8, EmptyOK DEF Restart
<1>9. CASE InvalidateJIT \/ Save \/ Write \/ DeleteWorkspace \/ UNCHANGED workspaceVars
  BY <1>2, <1>9 DEF InvalidateJIT, Save, Write, DeleteWorkspace, workspaceVars, sessionVars
<1> QED BY <1>3, <1>4, <1>5, <1>6, <1>7, <1>8, <1>9 DEF WorkspaceNext

-----------------------------------------------------------------------------
LEMMA SessionKept ==
  ASSUME SessionOK, UNCHANGED <<fns, heap, jit, disturbed>>, commands' \in Nat
  PROVE  SessionOK'
BY DEF SessionOK, FnsOK, ClosuresIn, Sources

LEMMA WorkspaceInitInv == WorkspaceInit => SessionInv
<1> SUFFICES ASSUME WorkspaceInit PROVE SessionInv
  OBVIOUS
<1>1. FileOK
  BY DEF WorkspaceInit, FileInit, FileOK, Blank
<1>2. FnsOK(<<>>)
  BY WorkspaceSizes DEF FnsOK
<1>3. DOMAIN heap = Addresses /\ \A C : ClosuresIn(heap, C)
  BY DEF WorkspaceInit, ClosuresIn, Free, Obj
<1>4. SessionOK
  BY <1>2, <1>3 DEF WorkspaceInit, SessionOK
<1>5. GraphOK
  BY EmptyOK DEF WorkspaceInit, GraphOK
<1> QED BY <1>1, <1>4, <1>5 DEF SessionInv

LEMMA FileAndFunctionsNext ==
  SessionInv /\ [WorkspaceNext]_workspaceVars => FileOK' /\ SessionOK'
<1> SUFFICES ASSUME SessionInv, [WorkspaceNext]_workspaceVars PROVE FileOK' /\ SessionOK'
  OBVIOUS
<1>1. FileOK /\ SessionOK /\ GraphOK
  BY DEF SessionInv
<1>2. Repl \in Writers
  BY WorkspaceAssumption
<1>3. ASSUME UNCHANGED fileVars PROVE FileOK'
  BY <1>1, <1>3, FileKept
<1>4. ASSUME NEW n \in Slots, Define(n) \/ MakeObject(n) \/ Compile(n) PROVE FileOK' /\ SessionOK'
  <2>1. SessionOK'
    BY <1>1, <1>4, Defined, ObjectMade, Compiled
  <2>2. UNCHANGED fileVars
    BY <1>4 DEF Define, MakeObject, Compile
  <2> QED BY <1>3, <2>1, <2>2
<1>5. ASSUME NEW n \in Slots, NEW m \in Slots, Push(n, m) \/ Assign(n, m) PROVE FileOK' /\ SessionOK'
  <2>1. SessionOK'
    BY <1>1, <1>5, Pushed, Assigned
  <2>2. UNCHANGED fileVars
    BY <1>5 DEF Push, Assign
  <2> QED BY <1>3, <2>1, <2>2
<1>6. CASE InvalidateJIT \/ Clear
  <2>1. SessionOK'
    BY <1>1, <1>6, Invalidated, Cleared
  <2>2. UNCHANGED fileVars
    BY <1>6 DEF InvalidateJIT, Clear
  <2> QED BY <1>3, <2>1, <2>2
<1>7. CASE Save
  <2>1. SnapshotOK(Snapshot(fns, heap, globals, disturbed))
    BY <1>1, SnapshotTaken DEF SessionOK, GraphOK
  <2>2. FileOK'
    BY <1>1, <1>7, <2>1, FileOpened DEF Save
  <2>3. SessionOK'
    <3>1. UNCHANGED <<fns, heap, jit, disturbed>> /\ commands' \in Nat
      BY <1>1, <1>7 DEF Save, Command, SessionOK
    <3> QED BY <1>1, <3>1, SessionKept
  <2> QED BY <2>2, <2>3
<1>8. CASE Write
  <2>1. FileOK'
    BY <1>1, <1>2, <1>8, FileStep DEF Write
  <2>2. UNCHANGED <<fns, heap, jit, disturbed>> /\ commands' \in Nat
    BY <1>1, <1>8 DEF Write, sessionVars, SessionOK
  <2> QED BY <1>1, <2>1, <2>2, SessionKept
<1>9. CASE Load \/ Merge
  <2>1. SessionOK'
    BY <1>1, <1>9, Loaded, Merged
  <2>2. UNCHANGED fileVars
    BY <1>9 DEF Load, Merge
  <2> QED BY <1>3, <2>1, <2>2
<1>10. CASE DeleteWorkspace
  <2>1. FileOK'
    BY <1>1, <1>2, <1>10, FileStep DEF DeleteWorkspace
  <2>2. UNCHANGED <<fns, heap, jit, disturbed>> /\ commands' \in Nat
    BY <1>1, <1>10 DEF DeleteWorkspace, Command, SessionOK
  <2> QED BY <1>1, <2>1, <2>2, SessionKept
<1>11. CASE Restart
  <2>1. SessionOK'
    BY <1>1, <1>11, Restarted
  <2>2. UNCHANGED fileVars \/ Crash(Repl)
    BY <1>11 DEF Restart
  <2>3. FileOK'
    BY <1>1, <1>2, <1>3, <2>2, FileStep
  <2> QED BY <2>1, <2>3
<1>12. CASE UNCHANGED workspaceVars
  <2>1. UNCHANGED fileVars /\ UNCHANGED <<fns, heap, jit, disturbed>> /\ commands' \in Nat
    BY <1>1, <1>12 DEF workspaceVars, sessionVars, SessionOK
  <2> QED BY <1>1, <1>3, <2>1, SessionKept
<1> QED
  BY <1>4, <1>5, <1>6, <1>7, <1>8, <1>9, <1>10, <1>11, <1>12 DEF WorkspaceNext

LEMMA WorkspaceNextInv == SessionInv /\ [WorkspaceNext]_workspaceVars => SessionInv'
BY FileAndFunctionsNext, GraphNext DEF SessionInv

(* A closure that can be called runs the function it was made from, for any  *)
(* number of globals, objects, functions and commands, whether or not a load *)
(* collects (saveJCW, loadJCW, profileFrameStart).                           *)
THEOREM ClosuresKeepTheirCode == WorkspaceSpec => []CallsRunOwnCode
<1>1. SessionInv => CallsRunOwnCode
  <2> SUFFICES ASSUME SessionInv PROVE CallsRunOwnCode
    OBVIOUS
  <2>1. SessionOK /\ FnsOK(fns)
    BY DEF SessionInv, SessionOK
  <2>2. Reachable \subseteq Addresses
    BY ReachOfAddresses, WorkspaceSizes DEF Reachable, Refs
  <2>3. DOMAIN fns \subseteq 1..MaxFns
    BY <2>1, WorkspaceSizes DEF FnsOK
  <2>4. ASSUME ~disturbed, NEW o \in Reachable, heap[o].kind = "fn"
        PROVE  Runs(heap[o].idx, heap[o].code)
    <3>1. <<heap[o].idx, heap[o].code>> \in Sources(fns)
      BY <2>1, <2>2, <2>4 DEF SessionOK, ClosuresIn
    <3>2. heap[o].idx \in DOMAIN fns /\ fns[heap[o].idx].code = heap[o].code
      BY <3>1 DEF Sources
    <3>3. jit[heap[o].idx] # NoCode => <<heap[o].idx, jit[heap[o].idx]>> \in Sources(fns)
      BY <2>1, <2>3, <2>4, <3>2 DEF SessionOK
    <3> QED BY <3>2, <3>3 DEF Sources, Runs
  <2>5. \A i \in DOMAIN fns : fns[i].nested # 0 =>
          fns[i].nested \in DOMAIN fns /\ fns[fns[i].nested].code = -fns[i].code
    BY <2>1 DEF FnsOK
  <2> QED BY <2>4, <2>5 DEF CallsRunOwnCode
<1> QED BY <1>1, WorkspaceInitInv, WorkspaceNextInv, PTL DEF WorkspaceSpec

(* A save and a load restore the object graph of the globals, which objects  *)
(* are shared and which contain themselves included, for any number of       *)
(* globals, objects and elements, in every state of the prompt that any      *)
(* commands lead to: what is saved of the copy is what is saved of the       *)
(* session (saveJCW, loadJCW), and exactly these globals are defined         *)
(* afterwards; builtins that were redefined are not among them.  A load that *)
(* collects half way loses part of the graph, so this is about one that does *)
(* not.                                                                      *)
THEOREM RoundTripKeepsTheGraph ==
  ASSUME GcMayRun = FALSE
  PROVE  WorkspaceSpec => []RoundTrip
<1>1. SessionInv => RoundTrip
  <2> SUFFICES ASSUME SessionInv PROVE RoundTrip
    OBVIOUS
  <2> DEFINE snap == Snapshot(fns, heap, globals, FALSE)
             st == ReadSession(snap, [o \in Addresses |-> Free], [n \in Slots |-> None], 0)
  <2>1. HeapOK(heap, globals)
    BY DEF SessionInv, GraphOK
  <2>2. KeptHeap = KeptIn(heap) /\ KeptGlobals = KeptBy(heap, globals)
    BY DEF KeptHeap, KeptGlobals, KeptIn, KeptBy, Kept, Lost, KeptOf
  <2>3. snap.names = Names(globals) /\ snap.out = WriteAll(heap, NamedValues(globals))
    BY DEF Snapshot
  <2>4. /\ Names(st.glob) = Names(KeptGlobals)
        /\ WriteAll(st.heap, NamedValues(st.glob)) = WriteAll(KeptHeap, NamedValues(KeptGlobals))
        /\ \A n \in Slots : st.glob[n] = None <=> KeptGlobals[n] = None
    <3> HIDE DEF snap
    <3> QED BY <2>1, <2>2, <2>3, GraphRestored
  <2>5. Snapshot(fns, st.heap, st.glob, FALSE) = Snapshot(fns, KeptHeap, KeptGlobals, FALSE)
    <3> HIDE DEF st
    <3> QED BY <2>4 DEF Snapshot
  <2>6. GcChoices(snap) = {0}
    BY DEF GcChoices
  <2> HIDE DEF snap
  <2> QED BY <2>4, <2>5, <2>6 DEF RoundTrip, snap
<1> QED BY <1>1, WorkspaceInitInv, WorkspaceNextInv, PTL DEF WorkspaceSpec

(* The values of the register include every snapshot of the session.         *)
SnapshotsAreValues == Snapshot(fns, heap, globals, disturbed) \in Values

LEMMA SessionStepOfFile ==
  SnapshotsAreValues /\ [WorkspaceNext]_workspaceVars => [FileNext]_fileVars
<1> SUFFICES ASSUME SnapshotsAreValues, [WorkspaceNext]_workspaceVars PROVE [FileNext]_fileVars
  OBVIOUS
<1>1. Repl \in Writers
  BY WorkspaceAssumption
<1>2. ASSUME NEW n \in Slots, Define(n) \/ MakeObject(n) \/ Compile(n) PROVE UNCHANGED fileVars
  BY <1>2 DEF Define, MakeObject, Compile
<1>3. ASSUME NEW n \in Slots, NEW m \in Slots, Push(n, m) \/ Assign(n, m)
      PROVE  UNCHANGED fileVars
  BY <1>3 DEF Push, Assign
<1>4. CASE InvalidateJIT \/ Clear \/ Load \/ Merge
  BY <1>4 DEF InvalidateJIT, Clear, Load, Merge
<1>5. CASE Save
  BY <1>1, <1>5 DEF Save, SnapshotsAreValues, FileNext
<1>6. CASE Write
  BY <1>1, <1>6 DEF Write, FileNext, SaveStep
<1>7. CASE DeleteWorkspace
  BY <1>7 DEF DeleteWorkspace, FileNext
<1>8. CASE Restart
  BY <1>1, <1>8 DEF Restart, FileNext, SaveStep
<1>9. CASE UNCHANGED workspaceVars
  BY <1>9 DEF workspaceVars
<1> QED
  BY <1>2, <1>3, <1>4, <1>5, <1>6, <1>7, <1>8, <1>9 DEF WorkspaceNext

(* The file of a session that is its one writer is a register of snapshots:  *)
(* whatever the session does, and wherever a save, a rename or the process   *)
(* fails, /ws load and /ws merge find the last complete snapshot.            *)
THEOREM SessionFileIsAtomic ==
  ASSUME OneWriter
  PROVE  WorkspaceSpec /\ []SnapshotsAreValues => FileIsAtomic
<1>1. WorkspaceInit => FileInit
  BY DEF WorkspaceInit
<1>2. FileSpec => FileIsAtomic
  BY SaveIsAtomic
<1> QED BY <1>1, <1>2, SessionStepOfFile, PTL DEF WorkspaceSpec, FileSpec

-----------------------------------------------------------------------------
(* The window.                                                               *)

Images == Frames \cup {"blank"}

AppStages == {"start", "spin", "idle", "lock", "copy", "post", "join", "gone"}
ThreadStages == {"none", "create", "assign", "loop", "closing", "paint", "draw", "done"}

WindowTypeOK ==
    /\ app \in AppStages /\ thread \in ThreadStages
    /\ hwnd \in BOOLEAN /\ running \in BOOLEAN /\ quit \in BOOLEAN /\ dirty \in BOOLEAN
    /\ window \in {"none", "open", "destroyed"}
    /\ posted \in Seq({"app", "close"})
    /\ buffer \in [1..2 -> Images] /\ screen \in [1..2 -> Images]
    /\ lock \in {"free", "app", "window"}
    /\ frame \in Images
    /\ events \in Seq({"input", "close"})
    /\ shows \in Nat /\ inputs \in Nat /\ closes \in Nat /\ polled \in Nat
    /\ lostClose \in BOOLEAN

(* The constructor starts the window thread, once.                           *)
Started == app = "start" => thread = "none"

(* Who holds bufMutex is exactly who is between two halves; the halves of    *)
(* the buffer differ only then, and those of the screen only while it is     *)
(* drawn, from the buffer that nobody changes meanwhile.                     *)
Halves ==
    /\ lock = "app" <=> app = "copy"
    /\ lock = "window" <=> thread = "draw"
    /\ app = "copy" => buffer[1] = frame
    /\ app # "copy" => buffer[1] = buffer[2]
    /\ thread = "draw" => screen[1] = buffer[1]
    /\ NoTornFrame

(* Messages are posted to an open window only, which exists from its         *)
(* creation to WM_CLOSE.                                                     *)
Lifetime ==
    /\ thread \in {"none", "create"} => window = "none"
    /\ thread \in {"assign", "closing"} => window = "open"
    /\ thread \in {"loop", "paint", "draw"} => window # "none"
    /\ window # "open" => posted = <<>>
    /\ closes = IF thread = "closing" \/ window = "destroyed" THEN 1 ELSE 0

OnlyInputs(n) == \A i \in 1..n : events[i] = "input"

(* The single "close" is the last event, until the script has polled it.     *)
Queue ==
    /\ polled <= closes
    /\ closes = 0 => OnlyInputs(Len(events))
    /\ closes = 1 /\ polled = 0 =>
         events # <<>> /\ Last(events) = "close" /\ OnlyInputs(Len(events) - 1)
    /\ polled = 1 => events = <<>>

WindowInv == WindowTypeOK /\ Started /\ Halves /\ Lifetime /\ Queue

-----------------------------------------------------------------------------
(* The two queues.                                                           *)
LEMMA PostMessageKind ==
  ASSUME WindowTypeOK, NEW m \in {"app", "close"}, PostMessage(m)
  PROVE  posted' \in Seq({"app", "close"})
BY DEF WindowTypeOK, PostMessage

(* PushEvent appends, and drops the oldest event when the queue is full.     *)
LEMMA PushEventEffect ==
  ASSUME WindowTypeOK, NEW e \in {"input", "close"}, PushEvent(e)
  PROVE  /\ events' \in Seq({"input", "close"})
         /\ events' # <<>>
         /\ Last(events') = e
         /\ OnlyInputs(Len(events)) => \A i \in 1..Len(events') - 1 : events'[i] = "input"
<1> DEFINE q == Append(events, e)
<1>1. /\ q \in Seq({"input", "close"}) /\ Len(q) = Len(events) + 1
      /\ q[Len(events) + 1] = e
      /\ \A i \in 1..Len(events) : q[i] = events[i]
  BY DEF WindowTypeOK
<1>2. Len(events) \in Nat /\ q # <<>>
  BY <1>1 DEF WindowTypeOK
<1>3. CASE ~(Len(q) > QueueCap)
  <2>1. events' = q
    BY <1>3 DEF PushEvent
  <2> QED BY <1>1, <1>2, <2>1 DEF Last, OnlyInputs
<1>4. CASE Len(q) > QueueCap
  <2>1. events' = Tail(q)
    BY <1>4 DEF PushEvent
  <2>2. Len(q) > 1
    BY <1>1, <1>2, <1>4, WindowAssumption
  <2>3. /\ Tail(q) \in Seq({"input", "close"}) /\ Len(Tail(q)) = Len(q) - 1
        /\ \A i \in 1..Len(Tail(q)) : Tail(q)[i] = q[i + 1]
    BY <1>1, <1>2, HeadTailProperties
  <2>4. Len(events') = Len(events) /\ Len(events) >= 1 /\ events' # <<>>
    BY <1>1, <1>2, <2>1, <2>2, <2>3
  <2>5. Last(events') = e
    BY <1>1, <1>2, <2>1, <2>3, <2>4 DEF Last
  <2>6. ASSUME OnlyInputs(Len(events)), NEW i \in 1..Len(events') - 1
        PROVE  events'[i] = "input"
    BY <1>1, <1>2, <2>1, <2>3, <2>4, <2>6 DEF OnlyInputs
  <2> QED BY <2>1, <2>3, <2>4, <2>5, <2>6
<1> QED BY <1>3, <1>4

-----------------------------------------------------------------------------
LEMMA NoMessages == <<>> \in Seq({"app", "close"}) /\ <<>> \in Seq({"input", "close"})
BY EmptySeq

LEMMA WindowTypeInit == WindowInit => WindowTypeOK
<1>1. Whole("blank") \in [1..2 -> Images]
  BY DEF Whole, Images
<1>2. WindowInit => /\ app \in AppStages /\ thread \in ThreadStages
              /\ hwnd \in BOOLEAN /\ running \in BOOLEAN /\ quit \in BOOLEAN
              /\ dirty \in BOOLEAN /\ lostClose \in BOOLEAN
  BY DEF WindowInit, AppStages, ThreadStages
<1>3. WindowInit => /\ posted \in Seq({"app", "close"}) /\ events \in Seq({"input", "close"})
              /\ buffer \in [1..2 -> Images] /\ screen \in [1..2 -> Images]
              /\ frame \in Images
  BY <1>1, NoMessages DEF WindowInit, Images
<1> QED BY <1>2, <1>3 DEF WindowInit, WindowTypeOK

LEMMA WindowTypeNext == WindowTypeOK /\ [WindowNext]_windowVars => WindowTypeOK'
<1> SUFFICES ASSUME WindowTypeOK, [WindowNext]_windowVars PROVE WindowTypeOK'
  OBVIOUS
<1> USE DEF WindowTypeOK, App, Win, appVars, msgVars, eventVars, AppStages, ThreadStages, Images
<1>1. CASE Constructed
  BY <1>1 DEF Constructed
<1>2. CASE CopyUpper
  BY <1>2 DEF CopyUpper
<1>3. CASE CopyLower
  BY <1>3 DEF CopyLower
<1>4. CASE PostRedraw
  BY <1>4, PostMessageKind DEF PostRedraw
<1>5. CASE Joined
  BY <1>5 DEF Joined
<1>6. CASE Construct
  BY <1>6 DEF Construct
<1>7. CASE PollEvent
  BY <1>7, HeadTailProperties DEF PollEvent
<1>8. CASE Destroy
  <2>1. posted' \in Seq({"app", "close"})
    BY <1>8, PostMessageKind DEF Destroy
  <2>2. lostClose' \in BOOLEAN
    BY <1>8 DEF Destroy, Delivers
  <2> QED BY <1>8, <2>1, <2>2 DEF Destroy
<1>9. CASE CreateWindow
  BY <1>9 DEF CreateWindow
<1>10. CASE CreateFails
  BY ZenonT(60), <1>10 DEF CreateFails
<1>11. CASE AssignHwnd
  BY <1>11 DEF AssignHwnd
<1>12. CASE DispatchPosted
  <2>1. posted' \in Seq({"app", "close"}) /\ events' \in Seq({"input", "close"})
    BY <1>12, PushEventEffect, HeadTailProperties DEF DispatchPosted
  <2>2. /\ thread' \in ThreadStages
        /\ closes' \in Nat
    BY <1>12 DEF DispatchPosted
  <2>3. dirty' \in BOOLEAN
    BY <1>12, Zenon DEF DispatchPosted
  <2>4. UNCHANGED <<app, hwnd, running, window, quit, appVars, screen, inputs,
                    polled, lostClose>>
    BY <1>12 DEF DispatchPosted
  <2> QED BY <2>1, <2>2, <2>3, <2>4
<1>13. CASE DestroyWindow
  BY <1>13, NoMessages DEF DestroyWindow
<1>14. CASE BeginPaint
  BY ZenonT(60), <1>14 DEF BeginPaint
<1>15. CASE DrawUpper
  BY <1>15 DEF DrawUpper
<1>16. CASE DrawLower
  BY <1>16 DEF DrawLower
<1>17. CASE LoopEnds
  BY <1>17 DEF LoopEnds
<1>18. CASE Input
  BY <1>18, PushEventEffect DEF Input
<1>19. CASE UserCloses
  BY <1>19, PushEventEffect DEF UserCloses
<1>20. ASSUME NEW f \in Frames, Show(f) PROVE WindowTypeOK'
  BY <1>20 DEF Show
<1>21. CASE UNCHANGED windowVars
  BY <1>21 DEF windowVars
<1> QED
  BY <1>1, <1>2, <1>3, <1>4, <1>5, <1>6, <1>7, <1>8, <1>9, <1>10, <1>11, <1>12, <1>13,
     <1>14, <1>15, <1>16, <1>17, <1>18, <1>19, <1>20, <1>21 DEF WindowNext, MainStep, Script,
     ThreadStep, Creation, User

(* Type correctness of the two threads' shared state.                        *)
THEOREM WindowTypeCorrect == WindowSpec => []WindowTypeOK
BY WindowTypeInit, WindowTypeNext, PTL DEF WindowSpec

-----------------------------------------------------------------------------
(* A torn image.                                                             *)
LEMMA HalvesInit == WindowInit => Started /\ Halves
BY DEF WindowInit, Started, Halves, NoTornFrame, Whole

LEMMA StartedNext == Started /\ [WindowNext]_windowVars => Started'
<1> SUFFICES ASSUME Started, [WindowNext]_windowVars PROVE Started'
  OBVIOUS
<1> USE DEF Started, App, Win, windowVars
<1>1. ASSUME MainStep \/ Script PROVE app' # "start"
  BY <1>1 DEF MainStep, Script, Constructed, CopyUpper, CopyLower, PostRedraw, Joined,
              Construct, PollEvent, Destroy, Show
<1>2. ASSUME ThreadStep \/ User PROVE UNCHANGED app /\ thread # "none"
  BY <1>2 DEF ThreadStep, User, Creation, CreateWindow, CreateFails, AssignHwnd,
              DispatchPosted, DestroyWindow, BeginPaint, DrawUpper, DrawLower, LoopEnds,
              Input, UserCloses
<1> QED BY <1>1, <1>2 DEF WindowNext

(* The thread that draws owns the mutex, so that the buffer stands still.    *)
LEMMA HalvesNext == WindowTypeOK /\ Started /\ Halves /\ [WindowNext]_windowVars => Halves'
<1> SUFFICES ASSUME WindowTypeOK, Started, Halves, [WindowNext]_windowVars PROVE Halves'
  OBVIOUS
<1> USE DEF WindowTypeOK, Started, Halves, NoTornFrame, App, Win, appVars, msgVars, eventVars
<1>1. CASE Constructed
  BY <1>1 DEF Constructed
<1>2. CASE CopyUpper
  BY <1>2 DEF CopyUpper
<1>3. CASE CopyLower
  BY <1>3 DEF CopyLower
<1>4. CASE PostRedraw
  BY <1>4 DEF PostRedraw
<1>5. CASE Joined
  BY <1>5 DEF Joined
<1>6. CASE Construct
  BY <1>6 DEF Construct
<1>7. CASE PollEvent
  BY <1>7 DEF PollEvent
<1>8. CASE Destroy
  BY <1>8 DEF Destroy
<1>9. CASE CreateWindow
  BY <1>9 DEF CreateWindow
<1>10. CASE CreateFails
  BY <1>10 DEF CreateFails
<1>11. CASE AssignHwnd
  BY <1>11 DEF AssignHwnd
<1>12. CASE DispatchPosted
  BY <1>12 DEF DispatchPosted
<1>13. CASE DestroyWindow
  BY <1>13 DEF DestroyWindow
<1>14. CASE BeginPaint
  BY <1>14 DEF BeginPaint
<1>15. CASE DrawUpper
  BY <1>15 DEF DrawUpper
<1>16. CASE DrawLower
  BY <1>16 DEF DrawLower
<1>17. CASE LoopEnds
  BY <1>17 DEF LoopEnds
<1>18. CASE Input
  BY <1>18 DEF Input
<1>19. CASE UserCloses
  BY <1>19 DEF UserCloses
<1>20. ASSUME NEW f \in Frames, Show(f) PROVE Halves'
  BY <1>20 DEF Show
<1>21. CASE UNCHANGED windowVars
  BY <1>21 DEF windowVars
<1> QED
  BY <1>1, <1>2, <1>3, <1>4, <1>5, <1>6, <1>7, <1>8, <1>9, <1>10, <1>11, <1>12, <1>13,
     <1>14, <1>15, <1>16, <1>17, <1>18, <1>19, <1>20, <1>21 DEF WindowNext, MainStep, Script,
     ThreadStep, Creation, User

-----------------------------------------------------------------------------
(* The life of the native window.                                            *)
LEMMA LifetimeInit == WindowInit => Lifetime
BY DEF WindowInit, Lifetime

(* Only an open window is closed, so WM_CLOSE is queued for the script once.  *)
LEMMA LifetimeNext == WindowTypeOK /\ Started /\ Lifetime /\ [WindowNext]_windowVars => Lifetime'
<1> SUFFICES ASSUME WindowTypeOK, Started, Lifetime, [WindowNext]_windowVars PROVE Lifetime'
  OBVIOUS
<1> USE DEF WindowTypeOK, Started, Lifetime, App, Win, appVars, msgVars, eventVars
<1>1. CASE Constructed
  BY <1>1 DEF Constructed
<1>2. CASE CopyUpper
  BY <1>2 DEF CopyUpper
<1>3. CASE CopyLower
  BY <1>3 DEF CopyLower
<1>4. CASE PostRedraw
  BY <1>4 DEF PostRedraw, PostMessage, Delivers
<1>5. CASE Joined
  BY <1>5 DEF Joined
<1>6. CASE Construct
  BY <1>6 DEF Construct
<1>7. CASE PollEvent
  BY <1>7 DEF PollEvent
<1>8. CASE Destroy
  BY <1>8 DEF Destroy, PostMessage, Delivers
<1>9. CASE CreateWindow
  BY <1>9 DEF CreateWindow
<1>10. CASE CreateFails
  BY <1>10 DEF CreateFails
<1>11. CASE AssignHwnd
  BY <1>11 DEF AssignHwnd
<1>12. CASE DispatchPosted
  BY <1>12 DEF DispatchPosted
<1>13. CASE DestroyWindow
  BY <1>13 DEF DestroyWindow
<1>14. CASE BeginPaint
  BY <1>14 DEF BeginPaint
<1>15. CASE DrawUpper
  BY <1>15 DEF DrawUpper
<1>16. CASE DrawLower
  BY <1>16 DEF DrawLower
<1>17. CASE LoopEnds
  BY <1>17 DEF LoopEnds
<1>18. CASE Input
  BY <1>18 DEF Input
<1>19. CASE UserCloses
  BY <1>19 DEF UserCloses
<1>20. ASSUME NEW f \in Frames, Show(f) PROVE Lifetime'
  BY <1>20 DEF Show
<1>21. CASE UNCHANGED windowVars
  BY <1>21 DEF windowVars
<1> QED
  BY <1>1, <1>2, <1>3, <1>4, <1>5, <1>6, <1>7, <1>8, <1>9, <1>10, <1>11, <1>12, <1>13,
     <1>14, <1>15, <1>16, <1>17, <1>18, <1>19, <1>20, <1>21 DEF WindowNext, MainStep, Script,
     ThreadStep, Creation, User

-----------------------------------------------------------------------------
(* The script's queue.  While no "close" is queued it holds inputs only, and *)
(* then the window takes no more messages.                                   *)
LEMMA QueueInit == WindowInit => Queue
BY DEF WindowInit, Queue, OnlyInputs

(* A "close" is pushed on a queue of inputs.                                 *)
LEMMA ClosePushed ==
  ASSUME WindowTypeOK, Lifetime, Queue, closes = 0, PushEvent("close"), closes' = closes + 1,
         UNCHANGED polled
  PROVE  Queue'
<1>1. OnlyInputs(Len(events)) /\ polled = 0
  BY DEF Queue, WindowTypeOK
<1>2. /\ events' \in Seq({"input", "close"}) /\ events' # <<>> /\ Last(events') = "close"
      /\ \A i \in 1..Len(events') - 1 : events'[i] = "input"
  BY <1>1, PushEventEffect
<1> QED BY <1>1, <1>2 DEF Queue, OnlyInputs, Last

LEMMA QueueNext == WindowTypeOK /\ Lifetime /\ Queue /\ [WindowNext]_windowVars => Queue'
<1> SUFFICES ASSUME WindowTypeOK, Lifetime, Queue, [WindowNext]_windowVars PROVE Queue'
  OBVIOUS
<1>1. CASE PollEvent
  <2>1. /\ events # <<>> /\ events' = Tail(events) /\ UNCHANGED closes
        /\ polled' = polled + (IF Head(events) = "close" THEN 1 ELSE 0)
    BY <1>1 DEF PollEvent
  <2>2. /\ Len(events) \in Nat /\ Len(events) >= 1 /\ Head(events) = events[1]
        /\ events' \in Seq({"input", "close"}) /\ Len(events') = Len(events) - 1
        /\ \A i \in 1..Len(events') : events'[i] = events[i + 1]
    BY <2>1, HeadTailProperties DEF WindowTypeOK
  <2>3. CASE closes = 0
    <3>1. OnlyInputs(Len(events)) /\ polled = 0
      BY <2>3 DEF Queue, WindowTypeOK
    <3>2. Head(events) = "input" /\ \A i \in 1..Len(events') : events'[i] = "input"
      BY <2>2, <3>1 DEF OnlyInputs
    <3> QED BY <2>1, <2>3, <3>1, <3>2 DEF Queue, OnlyInputs
  <2>4. CASE closes = 1
    <3>1. polled = 0 /\ events[Len(events)] = "close" /\ OnlyInputs(Len(events) - 1)
      BY <2>1, <2>4 DEF Queue, WindowTypeOK, Last
    <3>2. CASE Len(events) = 1
      BY <2>1, <2>2, <2>4, <3>1, <3>2 DEF Queue
    <3>3. CASE Len(events) > 1
      <4>1. polled' = 0
        BY <2>1, <2>2, <3>1, <3>3 DEF OnlyInputs
      <4>2. events' # <<>> /\ events'[Len(events')] = "close"
        BY <2>2, <3>1, <3>3
      <4>3. \A i \in 1..Len(events') - 1 : events'[i] = "input"
        BY <2>2, <3>1, <3>3 DEF OnlyInputs
      <4> QED BY <2>1, <2>4, <4>1, <4>2, <4>3 DEF Queue, OnlyInputs, Last
    <3> QED BY <2>2, <3>2, <3>3
  <2> QED BY <2>3, <2>4 DEF Lifetime
<1>2. CASE DispatchPosted
  <2>1. CASE Head(posted) = "app"
    BY <1>2, <2>1 DEF DispatchPosted, Queue, OnlyInputs
  <2>2. CASE Head(posted) = "close"
    <3>1. PushEvent("close") /\ closes' = closes + 1 /\ UNCHANGED polled
      BY <1>2, <2>2 DEF DispatchPosted
    <3>2. closes = 0
      BY <1>2, <2>2 DEF DispatchPosted, Win, Lifetime
    <3> QED BY <3>1, <3>2, ClosePushed
  <2> QED BY <1>2, <2>1, <2>2 DEF DispatchPosted
<1>3. CASE UserCloses
  <2>1. closes = 0
    BY <1>3 DEF UserCloses, Win, Lifetime
  <2> QED BY <1>3, <2>1, ClosePushed DEF UserCloses
<1>4. CASE Input
  <2>1. closes = 0 /\ PushEvent("input") /\ UNCHANGED <<closes, polled>>
    BY <1>4 DEF Input, Win, Lifetime
  <2>2. polled = 0 /\ OnlyInputs(Len(events))
    BY <2>1 DEF Queue, WindowTypeOK
  <2>3. /\ events' \in Seq({"input", "close"}) /\ events' # <<>> /\ Last(events') = "input"
        /\ \A i \in 1..Len(events') - 1 : events'[i] = "input"
    BY <2>1, <2>2, PushEventEffect
  <2>4. \A i \in 1..Len(events') : events'[i] = "input"
    BY <2>3 DEF Last
  <2> QED BY <2>1, <2>2, <2>4 DEF Queue, OnlyInputs
<1>5. ASSUME UNCHANGED eventVars PROVE Queue'
  BY <1>5 DEF eventVars, Queue, OnlyInputs, Last
<1>6. ASSUME MainStep PROVE UNCHANGED eventVars
  BY <1>6 DEF MainStep, eventVars, Constructed, CopyUpper, CopyLower, PostRedraw, Joined
<1>7. ASSUME Script, ~PollEvent PROVE UNCHANGED eventVars
  BY <1>7 DEF Script, eventVars, Construct, Destroy, Show
<1>8. ASSUME ThreadStep, ~DispatchPosted PROVE UNCHANGED eventVars
  BY <1>8 DEF ThreadStep, Creation, eventVars, CreateWindow, CreateFails, AssignHwnd,
              DestroyWindow, BeginPaint, DrawUpper, DrawLower, LoopEnds
<1>9. CASE UNCHANGED windowVars
  BY <1>5, <1>9 DEF windowVars
<1> QED BY <1>1, <1>2, <1>3, <1>4, <1>5, <1>6, <1>7, <1>8, <1>9 DEF WindowNext, User

LEMMA WindowInvInit == WindowInit => WindowInv
BY WindowTypeInit, HalvesInit, LifetimeInit, QueueInit DEF WindowInv

LEMMA WindowInvNext == WindowInv /\ [WindowNext]_windowVars => WindowInv'
BY WindowTypeNext, StartedNext, HalvesNext, LifetimeNext, QueueNext DEF WindowInv

-----------------------------------------------------------------------------
(* What is drawn is one image, never the upper half of one and the lower     *)
(* half of another, for any number of images and in every interleaving of    *)
(* show() and WM_PAINT.                                                      *)
THEOREM NeverTorn == WindowSpec => []NoTornFrame
<1>1. WindowInv => NoTornFrame
  BY DEF WindowInv, Halves
<1> QED BY <1>1, WindowInvInit, WindowInvNext, PTL DEF WindowSpec

(* Once the window is destroyed exactly one "close" has been queued, it is   *)
(* the last event, and neither the cap of the queue nor a race between the   *)
(* user and the destructor has lost it.                                      *)
THEOREM CloseAlwaysDelivered == WindowSpec => []CloseDelivered
<1>1. WindowInv => CloseDelivered
  BY DEF WindowInv, WindowTypeOK, Lifetime, Queue, CloseDelivered
<1> QED BY <1>1, WindowInvInit, WindowInvNext, PTL DEF WindowSpec
=============================================================================
