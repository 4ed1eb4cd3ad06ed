---------------------------- MODULE AtomicFile ----------------------------
(* writeBytesAtomically (vm/BytecodeSerializer.cpp): a snapshot is written   *)
(* to <path>.tmp, which is then renamed over <path>.  A directory entry is   *)
(* an inode; an inode holds two blocks, so that a file may be half written,  *)
(* and a writer that has it open keeps it when its name goes away.  A writer *)
(* is a jc2 process; it may die between any two system calls.                *)
EXTENDS Naturals

CONSTANTS Writers, Values, Inodes, None,
          Torn                    \* what a reader makes of a damaged file

ASSUME NoneAssumption == None \notin Values /\ None \notin Inodes
ASSUME TornAssumption == Torn \notin Values /\ Torn # None

VARIABLES target,   \* the inode named <path>, or None
          temp,     \* the inode named <path>.tmp, or None
          blocks,   \* the two blocks of every inode: the snapshot each comes from
          pc,       \* where each writer is in writeBytesAtomically
          fd,       \* the inode each writer has open, or None
          val       \* the snapshot each writer is saving, or None

fileVars == <<target, temp, blocks, pc, fd, val>>

Stages == {"idle", "open", "half", "written"}

Live == {target, temp} \cup {fd[w] : w \in Writers}

Blank == [b \in 1..2 |-> None]

\* An inode that no name and no writer refers to any more is gone.
Unlinked == blocks' = [i \in Inodes |-> IF i \in Live' THEN blocks[i] ELSE Blank]

FileTypeOK ==
    /\ target \in Inodes \cup {None}
    /\ temp \in Inodes \cup {None}
    /\ blocks \in [Inodes -> [1..2 -> Values \cup {None}]]
    /\ pc \in [Writers -> Stages]
    /\ fd \in [Writers -> Inodes \cup {None}]
    /\ val \in [Writers -> Values \cup {None}]

FileInit ==
    /\ target = None
    /\ temp = None
    /\ blocks = [i \in Inodes |-> Blank]
    /\ pc = [w \in Writers |-> "idle"]
    /\ fd = [w \in Writers |-> None]
    /\ val = [w \in Writers |-> None]

(* std::ofstream file(temp, trunc): the file of that name is emptied, or a   *)
(* new one is made.                                                          *)
Open(w, v) ==
    /\ pc[w] = "idle"
    /\ \E i \in Inodes :
          /\ IF temp = None THEN i \notin Live ELSE i = temp
          /\ temp' = i
          /\ blocks' = [blocks EXCEPT ![i] = Blank]
          /\ fd' = [fd EXCEPT ![w] = i]
    /\ pc' = [pc EXCEPT ![w] = "open"]
    /\ val' = [val EXCEPT ![w] = v]
    /\ UNCHANGED target

(* file.write: the first block reaches the file.                             *)
WriteFirst(w) ==
    /\ pc[w] = "open"
    /\ blocks' = [blocks EXCEPT ![fd[w]][1] = val[w]]
    /\ pc' = [pc EXCEPT ![w] = "half"]
    /\ UNCHANGED <<target, temp, fd, val>>

(* The rest of file.write, file.flush and file.close.                        *)
WriteRest(w) ==
    /\ pc[w] = "half"
    /\ blocks' = [blocks EXCEPT ![fd[w]][2] = val[w]]
    /\ pc' = [pc EXCEPT ![w] = "written"]
    /\ fd' = [fd EXCEPT ![w] = None]
    /\ UNCHANGED <<target, temp, val>>

GiveUp(w) ==
    /\ pc' = [pc EXCEPT ![w] = "idle"]
    /\ fd' = [fd EXCEPT ![w] = None]
    /\ val' = [val EXCEPT ![w] = None]

(* The stream reports an error (a full disk): fs::remove(temp) and a throw.  *)
WriteFails(w) ==
    /\ pc[w] \in {"open", "half"}
    /\ temp' = None
    /\ GiveUp(w)
    /\ UNCHANGED target
    /\ Unlinked

(* Mutant of Replace: the file is renamed before all of it is written.       *)
ReplaceEarly(w) ==
    /\ pc[w] \in {"half", "written"}
    /\ temp # None
    /\ target' = temp
    /\ temp' = None
    /\ GiveUp(w)
    /\ Unlinked

(* fs::rename(temp, target).                                                 *)
Replace(w) ==
    /\ pc[w] = "written"
    /\ temp # None
    /\ target' = temp
    /\ temp' = None
    /\ GiveUp(w)
    /\ Unlinked

(* fs::rename reports an error: fs::remove(temp) and a throw.                *)
ReplaceFails(w) ==
    /\ pc[w] = "written"
    /\ temp' = None
    /\ GiveUp(w)
    /\ UNCHANGED target
    /\ Unlinked

(* The process dies during a save: its files stay as they are.               *)
Crash(w) ==
    /\ pc[w] # "idle"
    /\ GiveUp(w)
    /\ UNCHANGED <<target, temp>>
    /\ Unlinked

(* deleteWorkspace: fs::remove(targetPath).                                  *)
Delete ==
    /\ target # None
    /\ target' = None
    /\ UNCHANGED <<temp, pc, fd, val>>
    /\ Unlinked

SaveStep(w) == \/ WriteFirst(w) \/ WriteRest(w) \/ WriteFails(w)
               \/ Replace(w) \/ ReplaceFails(w) \/ Crash(w)

FileNext == \/ \E w \in Writers : SaveStep(w) \/ \E v \in Values : Open(w, v)
            \/ Delete

FileSpec == FileInit /\ [][FileNext]_fileVars

-----------------------------------------------------------------------------
(* What a reader of the file finds.  Two blocks of different snapshots, or a *)
(* block that was never written, is no snapshot at all.                      *)
Stored(i) == IF blocks[i][1] = blocks[i][2] /\ blocks[i][1] # None
             THEN blocks[i][1] ELSE Torn

Content == IF target = None THEN None ELSE Stored(target)

Register == INSTANCE FileRegister WITH content <- Content, pending <- val

(* The .jcw file is a register: "A crash while writing must never leave a    *)
(* half-written file behind" (BytecodeSerializer.cpp:19-20), and a reader    *)
(* finds the previous complete snapshot until the new one is complete.       *)
FileIsAtomic == Register!RegSpec
=============================================================================
