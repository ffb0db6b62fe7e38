------------------------------- MODULE XQueueIo -------------------------------
(***************************************************************************)
(* CXQueueIo (XQueueIo/Include/XQueueIO.h) at both ends of an XQueue: in   *)
(* one process Enque() puts messages on a deque from which the thread of   *)
(* CWriter writes them to the queue; in another the thread of CReader      *)
(* reads them and hands them up.  The queue itself is what module          *)
(* FifoQueue promises, with room for QueueSize messages.                   *)
(*                                                                         *)
(* A section under m_deqCondMutex is one action.  The writer waits for the *)
(* condition inside its section, so that there is no moment between its    *)
(* look at the deque and its wait.                                         *)
(***************************************************************************)
EXTENDS SequencesExt, Integers

CONSTANTS
    Producer,    \* threads that call Enque()
    Configs,     \* what Init() may find in the configuration
    QueueSize,   \* room in the queue
    SlotReused,  \* a slot of the deque may be used again during one Send()
    Stops,       \* Stop() may be called
    MaxMsgs      \* bound: messages

Side == {"writer", "reader"}

Config == [main : Side,                \* who has MAIN = 1 and creates the queue
           m_uiTest : {0, 1},
           m_uiWaitPermit : Nat,
           m_uiBufferPermit : Nat,
           m_uiMaxQuoPerWrite : 1 .. 10]

ASSUME XQueueIoAssumption ==
    /\ Configs \subseteq Config
    /\ QueueSize \in Nat \ {0} /\ MaxMsgs \in Nat
    /\ SlotReused \in BOOLEAN /\ Stops \in BOOLEAN

VARIABLES
    config,      \* the configuration of the two
    made,        \* messages given to Enque(), which are numbered
    unsignalled, \* producers between Unlock() and Signal() of Enque()
    deqMsg,      \* m_deqMsg
    writer,      \* where the writer's thread is
    oMsg,        \* oMsg, the front of the deque when it was taken
    nSize,       \* nSize
    sWriteVal,   \* sWriteVal, a sequence of messages
    queue,       \* the messages in the queue, each with whether its packet ends there
    opened,      \* the sides that have the queue open
    reader,      \* where the reader's thread is
    received,    \* the messages given to OnXQueuePkt()
    bEndThread,  \* m_bEndThread of the two threads
    stop         \* how far Stop() of each side is

locals == <<oMsg, nSize, sWriteVal>>
ends == <<bEndThread, stop>>
moving == <<made, unsignalled, deqMsg, writer, locals, queue, opened, reader, received, ends>>
vars == <<config, moving>>

Init ==
    /\ config \in Configs
    /\ made = 0 /\ unsignalled = {} /\ deqMsg = <<>>
    /\ writer = "open" /\ oMsg = 0 /\ nSize = 0 /\ sWriteVal = <<>>
    /\ queue = <<>> /\ opened = {}
    /\ reader = "open" /\ received = <<>>
    /\ bEndThread = [s \in Side |-> FALSE] /\ stop = [s \in Side |-> "running"]

-----------------------------------------------------------------------------
(* Enque(): under the mutex the message goes on the deque, after it the    *)
(* condition is signalled.                                                 *)

Enque(p) ==
    /\ made < MaxMsgs /\ p \notin unsignalled
    /\ made' = made + 1 /\ deqMsg' = Append(deqMsg, made + 1)
    /\ unsignalled' = unsignalled \cup {p}
    /\ UNCHANGED <<writer, locals, queue, opened, reader, received, ends>>

\* A Signal() that nobody hears.
SignalNobody == writer' = writer

Signal == writer' = IF writer = "asleep" THEN "check" ELSE writer

EnqueSignal(p) ==
    /\ p \in unsignalled /\ unsignalled' = unsignalled \ {p}
    /\ Signal
    /\ UNCHANGED <<made, deqMsg, locals, queue, opened, reader, received, ends>>

-----------------------------------------------------------------------------
(* Start() and the first loop of the threads: the side that is MAIN        *)
(* creates the queue, the other one opens it once it is there.             *)

Open(s) ==
    /\ s \notin opened
    /\ config.main = s \/ opened # {}
    /\ opened' = opened \cup {s}

WriterOpen ==
    /\ writer = "open"
    /\ IF bEndThread["writer"] THEN writer' = "ended" /\ UNCHANGED opened
       ELSE IF "writer" \in opened THEN writer' = "loop" /\ UNCHANGED opened
       ELSE Open("writer") /\ UNCHANGED writer
    /\ UNCHANGED <<made, unsignalled, deqMsg, locals, queue, reader, received, ends>>

ReaderOpen ==
    /\ reader = "open"
    /\ IF bEndThread["reader"] THEN reader' = "ended" /\ UNCHANGED opened
       ELSE IF "reader" \in opened THEN reader' = "loop" /\ UNCHANGED opened
       ELSE Open("reader") /\ UNCHANGED reader
    /\ UNCHANGED <<made, unsignalled, deqMsg, writer, locals, queue, received, ends>>

-----------------------------------------------------------------------------
(* The writer's second loop.                                               *)

WriterLoop ==
    /\ writer = "loop"
    /\ writer' = IF bEndThread["writer"] THEN "ended" ELSE "check"
    /\ UNCHANGED <<made, unsignalled, deqMsg, locals, queue, opened, reader, received, ends>>

\* A wait that looks at the deque only.
WriterWaitForMessages ==
    /\ writer = "check" /\ deqMsg = <<>>
    /\ writer' = "asleep"
    /\ UNCHANGED <<made, unsignalled, deqMsg, locals, queue, opened, reader, received, ends>>

\* Nothing to write, or the end.
WriterWait ==
    /\ writer = "check" /\ deqMsg = <<>> /\ ~bEndThread["writer"]
    /\ writer' = "asleep"
    /\ UNCHANGED <<made, unsignalled, deqMsg, locals, queue, opened, reader, received, ends>>

WriterEnd ==
    /\ writer = "check" /\ bEndThread["writer"]
    /\ writer' = "ended" /\ deqMsg' = <<>>
    /\ UNCHANGED <<made, unsignalled, locals, queue, opened, reader, received, ends>>

Working == writer = "check" /\ deqMsg # <<>> /\ ~bEndThread["writer"]

Overflow == Len(deqMsg) >= config.m_uiBufferPermit

\* The deque with a fifth of its permitted size taken off its front.
Shortened == SubSeq(deqMsg, config.m_uiBufferPermit \div 5 + 1, Len(deqMsg))

\* The front of the deque, as a reference, and then the overflow.
TakeFront ==
    /\ Working /\ config.m_uiTest = 0
    /\ oMsg' = Head(deqMsg) /\ nSize' = Len(deqMsg)
    /\ deqMsg' = IF Overflow THEN Shortened ELSE deqMsg
    /\ writer' = "send"
    /\ UNCHANGED <<made, unsignalled, sWriteVal, queue, opened, reader, received, ends>>

\* The next messages in one string; what is there already is written first.
TakeBatch ==
    /\ Working /\ config.m_uiTest = 1
    /\ IF sWriteVal # <<>> THEN UNCHANGED <<deqMsg, nSize, sWriteVal>>
       ELSE /\ nSize' = Len(deqMsg)
            /\ IF Overflow THEN deqMsg' = Shortened /\ UNCHANGED sWriteVal
               ELSE LET nCount == IF config.m_uiMaxQuoPerWrite < Len(deqMsg)
                                  THEN config.m_uiMaxQuoPerWrite ELSE Len(deqMsg)
                    IN  /\ sWriteVal' = SubSeq(deqMsg, 1, nCount)
                        /\ deqMsg' = SubSeq(deqMsg, nCount + 1, Len(deqMsg))
    /\ writer' = "write"
    /\ UNCHANGED <<made, unsignalled, oMsg, queue, opened, reader, received, ends>>

Room(packet) == Len(queue) + Len(packet) <= QueueSize

\* A packet as the queue has it.
Packed(packet) == [i \in 1 .. Len(packet) |-> [msg |-> packet[i], ends |-> i = Len(packet)]]

\* m_Queue.Write(): the packet is in the queue, or there was no room for it within
\* m_uiTimeout; a packet of nothing is refused.
Written(packet) == packet # <<>> /\ Room(packet) /\ queue' = queue \o Packed(packet)

NotWritten(packet) == (packet = <<>> \/ ~Room(packet)) /\ UNCHANGED queue

\* No second try.
GiveUpAtOnce == TRUE

\* Too many wait to try again.
GiveUp == nSize > config.m_uiWaitPermit

\* What the reference oMsg finds: after an overflow the element is gone, but the
\* memory keeps it until the deque comes round to it again.
Referenced ==
    {oMsg} \cup IF SlotReused /\ oMsg \notin ToSet(deqMsg) THEN ToSet(deqMsg) ELSE {}

Send ==
    /\ writer = "send"
    /\ \E m \in Referenced :
        \/ Written(<<m>>) /\ writer' = "pop"
        \/ NotWritten(<<m>>) /\ writer' = IF GiveUp THEN "pop" ELSE "loop"
    /\ UNCHANGED <<made, unsignalled, deqMsg, locals, opened, reader, received, ends>>

\* pop_front() left out.
PopForgotten ==
    /\ writer = "pop" /\ writer' = "loop"
    /\ UNCHANGED <<made, unsignalled, deqMsg, locals, queue, opened, reader, received, ends>>

\* Off the front, which is another one after an overflow.
Pop ==
    /\ writer = "pop"
    /\ deqMsg' = Tail(deqMsg) /\ writer' = "loop"
    /\ UNCHANGED <<made, unsignalled, locals, queue, opened, reader, received, ends>>

WriteBatch ==
    /\ writer = "write" /\ writer' = "loop"
    /\ \/ Written(sWriteVal) /\ sWriteVal' = <<>>
       \/ NotWritten(sWriteVal) /\ sWriteVal' = IF GiveUp THEN <<>> ELSE sWriteVal
    /\ UNCHANGED <<made, unsignalled, deqMsg, oMsg, nSize, opened, reader, received, ends>>

-----------------------------------------------------------------------------
(* The reader's second loop.                                               *)

\* Recv(): Decode() of a message that takes the first of a packet.  Without one
\* Read() gives up after m_uiTimeout.
Recv ==
    /\ reader = "loop" /\ ~bEndThread["reader"]
    /\ \E n \in 1 .. Len(queue) :
        /\ queue[n].ends /\ \A i \in 1 .. n - 1 : ~queue[i].ends
        /\ queue' = SubSeq(queue, n + 1, Len(queue))
    /\ received' = Append(received, Head(queue).msg)
    /\ UNCHANGED <<made, unsignalled, deqMsg, writer, locals, opened, reader, ends>>

ReaderEnd ==
    /\ reader = "loop" /\ bEndThread["reader"] /\ reader' = "ended"
    /\ UNCHANGED <<made, unsignalled, deqMsg, writer, locals, queue, opened, received, ends>>

-----------------------------------------------------------------------------
(* Stop(): EndThread() of the side's thread, which for the writer signals  *)
(* the condition, then Close().                                            *)

StopBegin(s) ==
    /\ Stops /\ stop[s] = "running"
    /\ bEndThread' = [bEndThread EXCEPT ![s] = TRUE]
    /\ stop' = [stop EXCEPT ![s] = IF s = "writer" THEN "signal" ELSE "join"]
    /\ UNCHANGED <<made, unsignalled, deqMsg, writer, locals, queue, opened, reader, received>>

StopSignal ==
    /\ stop["writer"] = "signal" /\ stop' = [stop EXCEPT !["writer"] = "join"]
    /\ Signal
    /\ UNCHANGED <<made, unsignalled, deqMsg, locals, queue, opened, reader, received, bEndThread>>

\* The queue goes with the last one that has it open.
StopClose(s) ==
    /\ stop[s] = "join" /\ (IF s = "writer" THEN writer ELSE reader) = "ended"
    /\ stop' = [stop EXCEPT ![s] = "stopped"]
    /\ opened' = opened \ {s}
    /\ queue' = IF opened \subseteq {s} THEN <<>> ELSE queue
    /\ UNCHANGED <<made, unsignalled, deqMsg, writer, locals, reader, received, bEndThread>>

-----------------------------------------------------------------------------
WriterThread == WriterOpen \/ WriterLoop \/ WriterWait \/ WriterEnd \/ TakeFront \/ TakeBatch
                \/ Send \/ Pop \/ WriteBatch

ReaderThread == ReaderOpen \/ Recv \/ ReaderEnd

Stopping(s) == StopClose(s) \/ (s = "writer" /\ StopSignal)

Next ==
    /\ \/ \E p \in Producer : Enque(p) \/ EnqueSignal(p)
       \/ WriterThread \/ ReaderThread
       \/ \E s \in Side : StopBegin(s) \/ Stopping(s)
    /\ UNCHANGED config

Spec == Init /\ [][Next]_vars

\* Every thread goes on with what it does.  Nobody has to call Enque() or Stop().
Fairness ==
    /\ \A p \in Producer : WF_moving(EnqueSignal(p))
    /\ WF_moving(WriterThread) /\ WF_moving(ReaderThread)
    /\ \A s \in Side : WF_moving(Stopping(s))

FairSpec == Spec /\ Fairness
-----------------------------------------------------------------------------
TypeOK ==
    /\ config \in Config
    /\ made \in 0 .. MaxMsgs /\ unsignalled \subseteq Producer
    /\ deqMsg \in Seq(1 .. made) /\ oMsg \in 0 .. made /\ nSize \in 0 .. made
    /\ sWriteVal \in Seq(1 .. made)
    /\ queue \in Seq([msg : 1 .. made, ends : BOOLEAN]) /\ received \in Seq(1 .. made)
    /\ opened \subseteq Side
    /\ writer \in {"open", "loop", "check", "asleep", "send", "pop", "write", "ended"}
    /\ reader \in {"open", "loop", "ended"}
    /\ bEndThread \in [Side -> BOOLEAN]
    /\ stop \in [Side -> {"running", "signal", "join", "stopped"}]

\* The permits are never reached.
Ample == config.m_uiWaitPermit >= MaxMsgs /\ config.m_uiBufferPermit > MaxMsgs

\* The messages in the queue.
InQueue == [i \in 1 .. Len(queue) |-> queue[i].msg]

\* What the writer still has to write.
Unwritten == IF writer = "pop" THEN Tail(deqMsg) ELSE deqMsg

\* Below its permits, and until it is stopped, the writer loses nothing and writes
\* nothing twice, however often a write times out.
NothingLost ==
    Ample /\ ~bEndThread["writer"] =>
        LET written == InQueue \o sWriteVal \o Unwritten
            n       == Len(written)
        IN  /\ \A i \in 1 .. n : written[i] = made - n + i
            /\ config.m_uiTest = 0 => Len(received) = made - n

\* The element that oMsg refers to although an overflow has taken it off the deque.
Held == IF writer = "send" /\ oMsg \notin ToSet(deqMsg) THEN <<oMsg>> ELSE <<>>

Lossy == INSTANCE LossyQueue WITH
    pending <- InQueue \o sWriteVal \o Held \o Unwritten

\* Each message is received at most once and in its turn, whatever is lost by overflow,
\* timeouts and Stop().
LossySpec == Lossy!Spec

\* Below its permits, and with messages written one at a time, each is received in
\* the end, if nobody calls Stop().
Received == \A m \in 1 .. MaxMsgs :
    Ample /\ config.m_uiTest = 0 /\ m <= made
        ~> m \in ToSet(received) \/ bEndThread["writer"] \/ bEndThread["reader"]

\* Stop() ends its thread and returns.
StopReturns == \A s \in Side : bEndThread[s] ~> stop[s] = "stopped"
=============================================================================
