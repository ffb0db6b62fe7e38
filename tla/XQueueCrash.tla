----------------------------- MODULE XQueueCrash -----------------------------
(***************************************************************************)
(* XQueue when processes die: a client or a server thread is gone between  *)
(* two of its steps and starts over, and a server process is restarted and *)
(* calls Create() on the queue its clients still have open.                *)
(*                                                                         *)
(* The shared memory and the named semaphores outlive the process that     *)
(* dies, so what it held stays as it was.  A death inside a section of a   *)
(* mutex, which leaves the mutex abandoned, is not modelled.               *)
(***************************************************************************)
EXTENDS XQueue

CONSTANTS MaxDeaths,   \* bound: threads that die
          MaxCreates,  \* bound: restarts of the server
          MidWrite     \* the server may come back while clients hold blocks

ASSUME CrashAssumption ==
    MaxDeaths \in Nat /\ MaxCreates \in Nat /\ MidWrite \in BOOLEAN

VARIABLES deaths, creates

crashVars == <<vars, deaths, creates>>

CrashInit == Init /\ deaths = 0 /\ creates = 0

-----------------------------------------------------------------------------
\* The process of thread t dies inside Write() or Read() and is started again:
\* the blocks t had taken from a list are on none any more, and the tokens it
\* had taken, or had still to release, are gone.
Die(t) ==
    /\ deaths < MaxDeaths
    /\ pc[t] # "idle"
    /\ deaths' = deaths + 1
    /\ pc' = [pc EXCEPT ![t] = "idle"]
    /\ chain' = [chain EXCEPT ![t] = <<>>]
    /\ msg' = [w \in Writers |-> IF w = t THEN NoMsg ELSE msg[w]]
    /\ owed' = [r \in Readers |-> IF r = t THEN 0 ELSE owed[r]]
    /\ got' = [r \in Readers |-> IF r = t THEN <<>> ELSE got[r]]
    /\ UNCHANGED <<Lists, writeSem, readSem, sent, buf, creates>>

\* The server process dies, its threads with it, and comes back: Create() finds
\* the memory, and writes the block variables and the free list anew.
Recreate(list, count) ==
    /\ creates < MaxCreates
    /\ MidWrite \/ \A w \in Writers : chain[w] = <<>>
    /\ creates' = creates + 1
    /\ free' = [i \in 1 .. QueueSize |-> i - 1]
    /\ nFree' = QueueSize
    /\ used' = list
    /\ nUsed' = count
    /\ block' = [b \in Blocks |-> Blank]
    /\ pc' = [t \in Threads |-> IF t \in Readers THEN "idle" ELSE pc[t]]
    /\ chain' = [t \in Threads |-> IF t \in Readers THEN <<>> ELSE chain[t]]
    /\ got' = [r \in Readers |-> <<>>]
    /\ owed' = [r \in Readers |-> 0]
    /\ UNCHANGED <<writeSem, readSem, msg, sent, buf, deaths>>

\* Create() that leaves the used list.
CreateKeepsUsed == Recreate(used, nUsed)

\* Create() by a server that comes back: the used list is empty, and the
\* semaphores, which its clients have open, keep their counts.
Create == Recreate(<<>>, 0)

CrashNext ==
    \/ Next /\ UNCHANGED <<deaths, creates>>
    \/ \E t \in Threads : Die(t)
    \/ Create

CrashSpec == CrashInit /\ [][CrashNext]_crashVars

-----------------------------------------------------------------------------
(* What survives of XQueue's promises: Ownership, and the order of the    *)
(* messages.                                                               *)

\* A server that comes back loses the messages in the queue and its answers.
Forget ==
    /\ creates' = creates + 1
    /\ Queued' = <<>>
    /\ \A r \in Readers : got'[r] = <<>> /\ chain'[r] = <<>>
    /\ UNCHANGED msg

\* But for what a restart of the server loses, all the messages come whole,
\* once and in the order in which the writes took effect, whoever dies and
\* wherever (Write(), Read(), Create()).
FifoButForRestarts ==
    /\ Fifo!Init
    /\ [][Fifo!Next \/ Forget]_(Fifo!vars)
=============================================================================
