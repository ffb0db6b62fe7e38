------------------------------ MODULE LossyQueue ------------------------------
(***************************************************************************)
(* What a CXQueueIo at each end of a queue promises: a message that is     *)
(* handed to Enque() is received at most once and in its turn, or lost.    *)
(***************************************************************************)
EXTENDS SequencesExt, Integers

VARIABLES
    made,     \* number of messages so far, which are numbered
    pending,  \* the messages on their way
    received  \* the messages handed to OnXQueuePkt()

vars == <<made, pending, received>>

\* Messages in the order of their numbers, each once.
InTurn(s) == \A i, j \in 1 .. Len(s) : i < j => s[i] < s[j]

\* t is what is left of s when some messages get lost.
LeftOf(s, t) == ToSet(t) \subseteq ToSet(s) /\ InTurn(t)

Init == made = 0 /\ pending = <<>> /\ received = <<>>

Put == /\ made' = made + 1
       /\ pending' = Append(pending, made + 1)
       /\ UNCHANGED received

Lose == /\ LeftOf(pending, pending')
        /\ UNCHANGED <<made, received>>

\* The messages that came in one packet with the one that is received are lost.
Get == /\ pending # <<>>
       /\ received' = Append(received, Head(pending))
       /\ LeftOf(Tail(pending), pending')
       /\ UNCHANGED made

Next == Put \/ Lose \/ Get

Spec == Init /\ [][Next]_vars
=============================================================================
