---------------------------- MODULE MCWorkspace ----------------------------
(* Workspace for TLC: one REPL, snapshots of the sessions it reaches.        *)
EXTENDS Workspace

CONSTANT repl

MCWriters == {repl}

\* Every snapshot: FileRegister only asks whether a value is one.
MCValues == [fns : Seq(Functions), names : Seq(Slots), tainted : BOOLEAN,
             out : Seq([tag : {0, 8, 9, 10}] \cup [tag : {6}, id : Addresses]
                       \cup [tag : {7}, kind : {"fn", "list"}, idx : 0..MaxFns,
                             code : 0..MaxCommands, n : 0..MaxKids])]

\* The three snapshots there can be at a time: the file, the temporary file.
MCInodes == 1..3
=============================================================================
