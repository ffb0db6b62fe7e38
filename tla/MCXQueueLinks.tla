---------------------------- MODULE MCXQueueLinks ----------------------------
(***************************************************************************)
(* Instances of XQueueLinks for TLC.                                       *)
(***************************************************************************)
EXTENDS XQueueLinks

CONSTANTS w1, w2, r1

MCWriters == {w1, w2}
MCReaders == {r1}
MCTimed == {w1, w2, r1}

\* One writer of messages of one or two blocks, and one of two or three.
MCSizes == [w \in Writers |-> IF w = w1 THEN {1, 2} ELSE {2, 3}]
=============================================================================
