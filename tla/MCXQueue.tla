------------------------------ MODULE MCXQueue ------------------------------
(***************************************************************************)
(* Instances of XQueue for TLC: two client threads, one or two server      *)
(* threads, and blocks of one byte of data and one of header.              *)
(***************************************************************************)
EXTENDS XQueue

CONSTANTS w1, w2, r1, r2

MCWriters == {w1, w2}
OneReader == {r1}
TwoReaders == {r1, r2}
NoThreads == {}
AllTimed == Writers \cup Readers

\* w1 writes messages of several blocks, w2 of one block, and w2 also tries
\* sizes that Write() refuses.
OneLong == [w \in Writers |-> IF w = w1 THEN {2, 3} ELSE {0, 1, 4}]

\* w1 writes messages of one block and of all three, w2 of two, and w2 also tries
\* sizes that Write() refuses.
MixedSizes == [w \in Writers |-> IF w = w1 THEN {1, 3} ELSE {0, 2, 4}]
=============================================================================
