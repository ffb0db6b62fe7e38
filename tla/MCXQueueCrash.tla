---------------------------- MODULE MCXQueueCrash ----------------------------
(* Instance of XQueueCrash for TLC. *)
EXTENDS XQueueCrash

CONSTANTS w1, w2, r1

MCWriters == {w1, w2}
MCReaders == {r1}
AllTimed == Writers \cup Readers

\* w1 writes messages of one block and of two, w2 of one.
MCSizes == [w \in Writers |-> IF w = w1 THEN {1, 2} ELSE {1}]
=============================================================================
