----------------------------- MODULE ByteStream -----------------------------
(* What a connected stream socket promises its reader: the calls of recv     *)
(* return, in order and without gaps, what the other side has written, and   *)
(* the empty string only when all of it has been returned.                   *)
EXTENDS Naturals, Sequences

VARIABLES sent,      \* all that was written
          received,  \* all that the calls of recv have returned
          atEnd      \* a call has returned the empty string

StreamInit == sent = <<>> /\ received = <<>> /\ atEnd = FALSE

Write ==
    /\ Len(sent') > Len(sent) /\ SubSeq(sent', 1, Len(sent)) = sent
    /\ UNCHANGED <<received, atEnd>>

Read ==
    /\ Len(received') > Len(received) /\ SubSeq(received', 1, Len(received)) = received
    /\ Len(received') <= Len(sent) /\ received' = SubSeq(sent, 1, Len(received'))
    /\ UNCHANGED <<sent, atEnd>>

ReadEnd ==
    /\ received = sent
    /\ atEnd' = TRUE
    /\ UNCHANGED <<sent, received>>

StreamSpec == StreamInit /\ [][Write \/ Read \/ ReadEnd]_<<sent, received, atEnd>>
=============================================================================
