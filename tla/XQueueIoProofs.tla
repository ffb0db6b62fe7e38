---------------------------- MODULE XQueueIoProofs ----------------------------
(***************************************************************************)
(* Theorems about XQueueIo, for any number of producers and messages, any  *)
(* room in the queue and any permits, whichever side creates the queue and *)
(* whenever either is stopped.                                             *)
(***************************************************************************)
EXTENDS XQueueIo, SequenceTheorems, TLAPS

-----------------------------------------------------------------------------
(* Types.                                                                  *)

\* What Enque() makes longer by one.
MsgSeq == Seq(1 .. made)

Slot == [msg : 1 .. made, ends : BOOLEAN]

\* TypeOK in three parts: the messages, the threads, and what Stop() says.
MessagesOK ==
    /\ made \in 0 .. MaxMsgs
    /\ deqMsg \in MsgSeq /\ oMsg \in 0 .. made /\ nSize \in 0 .. made
    /\ sWriteVal \in MsgSeq /\ queue \in Seq(Slot) /\ received \in MsgSeq

ThreadsOK ==
    /\ config \in Config /\ unsignalled \subseteq Producer /\ opened \subseteq Side
    /\ writer \in {"open", "loop", "check", "asleep", "send", "pop", "write", "ended"}
    /\ reader \in {"open", "loop", "ended"}

StopOK ==
    /\ bEndThread \in [Side -> BOOLEAN]
    /\ stop \in [Side -> {"running", "signal", "join", "stopped"}]

\* A side that is told to end is being stopped; a writer that has the front of the
\* deque in hand leaves it there, and has the queue open until it is stopped.
Turns ==
    /\ \A s \in Side : ~bEndThread[s] <=> stop[s] = "running"
    /\ writer \in {"send", "pop"} => deqMsg # <<>>
    /\ writer = "send" => oMsg # 0
    /\ writer = "ended" => bEndThread["writer"]
    /\ writer # "open" => "writer" \in opened \/ bEndThread["writer"]

\* The deque holds the last messages that were made.
Newest == \A i \in 1 .. Len(deqMsg) : deqMsg[i] = made - Len(deqMsg) + i

Typed == MessagesOK /\ ThreadsOK /\ StopOK /\ Turns /\ Newest

LEMMA Parts == TypeOK <=> MessagesOK /\ ThreadsOK /\ StopOK
BY Zenon DEF TypeOK, MessagesOK, ThreadsOK, StopOK, MsgSeq, Slot

LEMMA Bounds == QueueSize \in Nat \ {0} /\ MaxMsgs \in Nat /\ Configs \subseteq Config
BY XQueueIoAssumption DEF XQueueIoAssumption

LEMMA Permits ==
    ASSUME ThreadsOK
    PROVE  /\ config.m_uiWaitPermit \in Nat /\ config.m_uiBufferPermit \in Nat
           /\ config.m_uiMaxQuoPerWrite \in 1 .. 10 /\ config.m_uiTest \in {0, 1}
BY DEF ThreadsOK, Config

\* The two parts of a sequence that is cut after k elements.
LEMMA CutFront ==
    ASSUME NEW S, NEW s \in Seq(S), NEW k \in 0 .. Len(s)
    PROVE  /\ SubSeq(s, 1, k) \in Seq(S) /\ Len(SubSeq(s, 1, k)) = k
           /\ \A i \in 1 .. k : SubSeq(s, 1, k)[i] = s[i]
<1>1. Len(s) \in Nat /\ k \in Nat /\ \A i \in 1 .. k : s[i] \in S OBVIOUS
<1>2. QED BY <1>1, SubSeqProperties

LEMMA CutRest ==
    ASSUME NEW S, NEW s \in Seq(S), NEW k \in 0 .. Len(s)
    PROVE  /\ SubSeq(s, k + 1, Len(s)) \in Seq(S)
           /\ Len(SubSeq(s, k + 1, Len(s))) = Len(s) - k
           /\ \A i \in 1 .. Len(s) - k : SubSeq(s, k + 1, Len(s))[i] = s[i + k]
<1>1. Len(s) \in Nat /\ k \in Nat /\ \A i \in k + 1 .. Len(s) : s[i] \in S OBVIOUS
<1>2. \A i \in 1 .. Len(s) - k : i \in Int /\ k + 1 + i - 1 = i + k BY <1>1
<1>3. QED BY <1>1, <1>2, SubSeqProperties

\* What is left of a deque whose front is taken off: an overflow takes less than all.
LEMMA StillThere ==
    ASSUME MessagesOK, ThreadsOK, deqMsg # <<>>, Overflow
    PROVE  /\ Shortened \in MsgSeq /\ Shortened # <<>>
           /\ Len(Shortened) = Len(deqMsg) - config.m_uiBufferPermit \div 5
           /\ \A i \in 1 .. Len(Shortened) :
                Shortened[i] = deqMsg[i + config.m_uiBufferPermit \div 5]
<1> DEFINE cut == config.m_uiBufferPermit \div 5
<1>1. cut \in Nat /\ cut < Len(deqMsg) /\ Len(deqMsg) \in Nat /\ deqMsg \in Seq(1 .. made)
  BY Permits DEF MessagesOK, MsgSeq, Overflow
<1>2. Shortened = SubSeq(deqMsg, cut + 1, Len(deqMsg)) BY DEF Shortened
<1> HIDE DEF cut
<1>3. /\ SubSeq(deqMsg, cut + 1, Len(deqMsg)) \in Seq(1 .. made)
      /\ Len(SubSeq(deqMsg, cut + 1, Len(deqMsg))) = Len(deqMsg) - cut
      /\ \A i \in 1 .. Len(deqMsg) - cut :
            SubSeq(deqMsg, cut + 1, Len(deqMsg))[i] = deqMsg[i + cut]
  <2>1. cut \in 0 .. Len(deqMsg) BY <1>1
  <2>2. QED BY <1>1, <2>1, CutRest
<1>4. QED BY <1>1, <1>2, <1>3, EmptySeq DEF cut, MsgSeq

LEMMA TypeInit == Init => Typed
<1>1. ASSUME Init PROVE Typed
  <2>1. MessagesOK BY <1>1, Bounds, EmptySeq DEF Init, MessagesOK, MsgSeq
  <2>2. ThreadsOK BY <1>1, Bounds DEF Init, ThreadsOK
  <2>3. StopOK BY <1>1 DEF Init, StopOK
  <2>4. Turns /\ Newest BY <1>1 DEF Init, Turns, Newest
  <2>5. QED BY <2>1, <2>2, <2>3, <2>4 DEF Typed
<1>2. QED BY <1>1

\* The messages stay what they are when no more are made.
LEMMA SameMade ==
    ASSUME UNCHANGED made
    PROVE  /\ MsgSeq' = MsgSeq /\ Slot' = Slot
           /\ UNCHANGED deqMsg /\ Newest => Newest'
BY DEF MsgSeq, Slot, Newest

\* No more messages than were made are on the deque.
LEMMA NotMore ==
    ASSUME MessagesOK, Newest
    PROVE  Len(deqMsg) \in 0 .. made
<1>1. made \in Nat /\ Len(deqMsg) \in Nat /\ \A i \in 1 .. Len(deqMsg) : deqMsg[i] \in 1 .. made
  BY ElementOfSeq, LenProperties DEF MessagesOK, MsgSeq
<1>2. CASE Len(deqMsg) = 0 BY <1>1, <1>2
<1>3. CASE Len(deqMsg) # 0
  <2>1. deqMsg[1] \in 1 .. made /\ deqMsg[1] = made - Len(deqMsg) + 1 BY <1>1, <1>3 DEF Newest
  <2>2. QED BY <2>1, <1>1
<1>4. QED BY <1>2, <1>3

\* What TakeBatch() takes.
Count == IF config.m_uiMaxQuoPerWrite < Len(deqMsg) THEN config.m_uiMaxQuoPerWrite
         ELSE Len(deqMsg)

LEMMA CountOK ==
    ASSUME MessagesOK, ThreadsOK, deqMsg # <<>>
    PROVE  /\ Count \in 1 .. Len(deqMsg)
           /\ SubSeq(deqMsg, 1, Count) \in MsgSeq /\ Len(SubSeq(deqMsg, 1, Count)) = Count
           /\ SubSeq(deqMsg, Count + 1, Len(deqMsg)) \in MsgSeq
           /\ Len(SubSeq(deqMsg, Count + 1, Len(deqMsg))) = Len(deqMsg) - Count
           /\ \A i \in 1 .. Count : SubSeq(deqMsg, 1, Count)[i] = deqMsg[i]
           /\ \A i \in 1 .. Len(deqMsg) - Count :
                SubSeq(deqMsg, Count + 1, Len(deqMsg))[i] = deqMsg[i + Count]
<1>1. deqMsg \in Seq(1 .. made) /\ Len(deqMsg) \in Nat /\ Len(deqMsg) > 0
  BY DEF MessagesOK, MsgSeq
<1>2. Count \in 1 .. Len(deqMsg) BY <1>1, Permits DEF Count
<1>3. Count \in 0 .. Len(deqMsg) BY <1>2
<1> HIDE DEF Count
<1>4. /\ SubSeq(deqMsg, 1, Count) \in Seq(1 .. made) /\ Len(SubSeq(deqMsg, 1, Count)) = Count
      /\ \A i \in 1 .. Count : SubSeq(deqMsg, 1, Count)[i] = deqMsg[i]
  BY <1>1, <1>3, CutFront
<1>5. /\ SubSeq(deqMsg, Count + 1, Len(deqMsg)) \in Seq(1 .. made)
      /\ Len(SubSeq(deqMsg, Count + 1, Len(deqMsg))) = Len(deqMsg) - Count
      /\ \A i \in 1 .. Len(deqMsg) - Count :
            SubSeq(deqMsg, Count + 1, Len(deqMsg))[i] = deqMsg[i + Count]
  BY <1>1, <1>3, CutRest
<1>6. QED BY <1>2, <1>4, <1>5 DEF MsgSeq

\* A packet in the queue is its messages.
LEMMA PackedOK ==
    ASSUME NEW p \in MsgSeq
    PROVE  /\ Packed(p) \in Seq(Slot) /\ Len(Packed(p)) = Len(p)
           /\ \A i \in 1 .. Len(p) : /\ Packed(p)[i].msg = p[i]
                                     /\ Packed(p)[i].ends <=> i = Len(p)
<1> DEFINE n == Len(p)
           q == [i \in 1 .. n |-> [msg |-> p[i], ends |-> i = n]]
<1>1. n \in Nat /\ \A i \in 1 .. n : p[i] \in 1 .. made
  BY ElementOfSeq, LenProperties DEF MsgSeq
<1>2. \A i \in 1 .. n : (i = n) \in BOOLEAN OBVIOUS
<1>3. \A i \in 1 .. n : [msg |-> p[i], ends |-> i = n] \in Slot BY <1>1, <1>2, Zenon DEF Slot
<1>4. q \in Seq(Slot) /\ Len(q) = n BY <1>1, <1>3, IsASeq
<1>5. Packed(p) = q BY DEF Packed
<1>6. \A i \in 1 .. n : q[i] = [msg |-> p[i], ends |-> i = n] OBVIOUS
<1>7. \A i \in 1 .. n : q[i].msg = p[i] /\ (q[i].ends <=> i = n)
  BY <1>6, Zenon
<1>8. QED BY <1>4, <1>5, <1>7

\* A message more is made.
LEMMA MoreMade ==
    ASSUME MessagesOK, made' = made + 1
    PROVE  /\ \A s \in MsgSeq : s \in MsgSeq'
           /\ \A q \in Seq(Slot) : q \in Seq(Slot')
           /\ \A s \in MsgSeq : /\ Append(s, made + 1) \in MsgSeq' /\ Append(s, made + 1) # <<>>
                                /\ Len(Append(s, made + 1)) = Len(s) + 1
                                /\ Append(s, made + 1)[Len(s) + 1] = made + 1
                                /\ \A i \in 1 .. Len(s) : Append(s, made + 1)[i] = s[i]
<1>1. made \in Nat BY DEF MessagesOK
<1>2. 1 .. made \subseteq 1 .. made + 1 /\ made + 1 \in 1 .. made + 1 BY <1>1
<1>3. Slot \subseteq Slot' BY <1>2, Zenon DEF Slot
<1>4. Seq(1 .. made) \subseteq Seq(1 .. made + 1) BY <1>2, SeqMonotonic, Zenon
<1>5. Seq(Slot) \subseteq Seq(Slot') BY <1>3, SeqMonotonic, Zenon
<1>6. ASSUME NEW s \in Seq(1 .. made)
      PROVE  /\ Append(s, made + 1) \in Seq(1 .. made + 1) /\ Append(s, made + 1) # <<>>
             /\ Len(Append(s, made + 1)) = Len(s) + 1
             /\ Append(s, made + 1)[Len(s) + 1] = made + 1
             /\ \A i \in 1 .. Len(s) : Append(s, made + 1)[i] = s[i]
  <2>1. s \in Seq(1 .. made + 1) BY <1>4
  <2>2. QED BY <1>2, <2>1, AppendProperties, EmptySeq
<1>7. QED BY <1>4, <1>5, <1>6 DEF MsgSeq

\* The types of the threads where only their places change.
LEMMA TypeEnque ==
    ASSUME Typed, NEW p \in Producer, Enque(p) \/ EnqueSignal(p), UNCHANGED config
    PROVE  Typed'
<1>1. CASE Enque(p)
  <2>1. /\ made < MaxMsgs /\ made' = made + 1 /\ deqMsg' = Append(deqMsg, made + 1)
        /\ unsignalled' = unsignalled \cup {p}
        /\ UNCHANGED <<writer, locals, queue, opened, reader, received, ends>>
    BY <1>1, Zenon DEF Enque
  <2>2. MessagesOK /\ ThreadsOK /\ StopOK /\ Turns /\ Newest BY DEF Typed
  <2>3. /\ deqMsg' \in MsgSeq' /\ deqMsg' # <<>> /\ sWriteVal \in MsgSeq'
        /\ queue \in Seq(Slot') /\ received \in MsgSeq'
    BY <2>1, <2>2, MoreMade DEF MessagesOK
  <2>4. made' \in 0 .. MaxMsgs /\ oMsg \in 0 .. made' /\ nSize \in 0 .. made'
    BY <2>1, <2>2, Bounds DEF MessagesOK
  <2>5. MessagesOK' BY <2>1, <2>3, <2>4 DEF MessagesOK, locals
  <2>6. ThreadsOK' BY <2>1, <2>2 DEF ThreadsOK
  <2>7. StopOK' /\ Turns' BY <2>1, <2>2, <2>3, Zenon DEF StopOK, Turns, ends, locals
  <2>8. Newest'
    <3>1. deqMsg \in MsgSeq /\ Len(deqMsg) \in Nat /\ made \in Nat
      BY <2>2, LenProperties DEF MessagesOK, MsgSeq
    <3>2. /\ Len(deqMsg') = Len(deqMsg) + 1 /\ deqMsg'[Len(deqMsg) + 1] = made + 1
          /\ \A i \in 1 .. Len(deqMsg) : deqMsg'[i] = deqMsg[i]
      BY <2>1, <2>2, <3>1, MoreMade
    <3>3. ASSUME NEW i \in 1 .. Len(deqMsg) + 1
          PROVE  deqMsg'[i] = made + 1 - (Len(deqMsg) + 1) + i
      <4>1. CASE i = Len(deqMsg) + 1 BY <3>1, <3>2, <4>1
      <4>2. CASE i # Len(deqMsg) + 1
        <5>1. i \in 1 .. Len(deqMsg) BY <3>1, <4>2
        <5>2. deqMsg[i] = made - Len(deqMsg) + i BY <5>1, <2>2 DEF Newest
        <5>3. QED BY <5>1, <5>2, <3>1, <3>2
      <4>3. QED BY <4>1, <4>2
    <3>4. made' = made + 1 /\ Len(deqMsg') = Len(deqMsg) + 1 BY <2>1, <3>2
    <3>5. ASSUME NEW i \in 1 .. Len(deqMsg')
          PROVE  deqMsg'[i] = made' - Len(deqMsg') + i
      <4>1. i \in 1 .. Len(deqMsg) + 1 BY <3>4
      <4>2. QED BY <3>1, <3>3, <3>4, <4>1
    <3>6. QED BY <3>5 DEF Newest
  <2>9. QED BY <2>5, <2>6, <2>7, <2>8 DEF Typed
<1>2. CASE EnqueSignal(p)
  <2>1. /\ unsignalled' = unsignalled \ {p} /\ writer' = IF writer = "asleep" THEN "check" ELSE writer
        /\ UNCHANGED <<made, deqMsg, locals, queue, opened, reader, received, ends>>
    BY <1>2, Zenon DEF EnqueSignal, Signal
  <2>2. MessagesOK /\ ThreadsOK /\ StopOK /\ Turns /\ Newest BY DEF Typed
  <2>3. MessagesOK' /\ Newest' BY <2>1, <2>2, SameMade DEF MessagesOK, locals
  <2>4. ThreadsOK' BY <2>1, <2>2 DEF ThreadsOK
  <2>5. StopOK' BY <2>1, <2>2, Zenon DEF StopOK, ends
  <2>6. UNCHANGED <<bEndThread, stop, deqMsg, opened, oMsg>> BY <2>1 DEF ends, locals
  <2>7. \A w \in {"open", "send", "pop", "ended"} : writer' = w <=> writer = w BY <2>1
  <2>8. Turns' BY <2>2, <2>6, <2>7 DEF Turns
  <2>9. QED BY <2>3, <2>4, <2>5, <2>8 DEF Typed
<1>3. QED BY <1>1, <1>2

\* Where a thread goes while the messages and Stop() stay as they are.
LEMMA TypePlaces ==
    ASSUME Typed, UNCHANGED config,
           WriterOpen \/ ReaderOpen \/ WriterLoop \/ WriterWait \/ ReaderEnd
    PROVE  Typed'
<1>1. /\ UNCHANGED <<made, unsignalled, deqMsg, locals, queue, received, ends, config>>
      /\ writer' \in {writer, "ended", "loop", "check", "asleep"}
      /\ reader' \in {reader, "ended", "loop"}
      /\ opened' \in {opened, opened \cup {"writer"}, opened \cup {"reader"}}
      /\ writer' = "ended" /\ writer # "ended" => bEndThread["writer"]
      /\ writer = "open" /\ writer' # "open" => bEndThread["writer"] \/ "writer" \in opened
  BY DEF WriterOpen, ReaderOpen, WriterLoop, WriterWait, ReaderEnd, Open
<1>2. MessagesOK /\ ThreadsOK /\ StopOK /\ Turns /\ Newest BY DEF Typed
<1>3. MessagesOK' /\ Newest' BY <1>1, <1>2, SameMade DEF MessagesOK, locals
<1>4. ThreadsOK' BY <1>1, <1>2 DEF ThreadsOK, Side
<1>5. UNCHANGED <<bEndThread, stop, deqMsg, oMsg>> /\ opened \subseteq opened'
  BY <1>1 DEF ends, locals
<1>6. StopOK' BY <1>5, <1>2, Zenon DEF StopOK
<1>7. Turns' BY <1>1, <1>2, <1>5 DEF Turns
<1>8. QED BY <1>3, <1>4, <1>6, <1>7 DEF Typed

\* The first n messages are taken off the deque.
TakenOff(n) ==
    /\ n \in 0 .. Len(deqMsg) /\ deqMsg' \in MsgSeq
    /\ Len(deqMsg') = Len(deqMsg) - n
    /\ \A i \in 1 .. Len(deqMsg) - n : deqMsg'[i] = deqMsg[i + n]

LEMMA StillNewest ==
    ASSUME MessagesOK, Newest, UNCHANGED made, NEW n, TakenOff(n)
    PROVE  Newest'
<1>1. Len(deqMsg) \in Nat /\ made \in Nat BY LenProperties DEF MessagesOK, MsgSeq
<1>2. /\ n \in 0 .. Len(deqMsg) /\ Len(deqMsg') = Len(deqMsg) - n
      /\ \A i \in 1 .. Len(deqMsg) - n : deqMsg'[i] = deqMsg[i + n]
  BY DEF TakenOff
<1>3. SUFFICES ASSUME NEW i \in 1 .. Len(deqMsg) - n
               PROVE  deqMsg'[i] = made - (Len(deqMsg) - n) + i
  BY <1>2 DEF Newest
<1>4. i + n \in 1 .. Len(deqMsg) BY <1>1, <1>2
<1>5. deqMsg[i + n] = made - Len(deqMsg) + (i + n) BY <1>4 DEF Newest
<1>6. QED BY <1>1, <1>2, <1>5

LEMMA OffNone ==
    ASSUME MessagesOK, UNCHANGED deqMsg
    PROVE  TakenOff(0)
<1>1. Len(deqMsg) \in Nat /\ deqMsg \in MsgSeq BY LenProperties DEF MessagesOK, MsgSeq
<1>2. QED BY <1>1 DEF TakenOff

LEMMA OffAll ==
    ASSUME MessagesOK, deqMsg' = <<>>
    PROVE  TakenOff(Len(deqMsg))
<1>1. Len(deqMsg) \in Nat /\ <<>> \in MsgSeq /\ Len(<<>>) = 0
  BY LenProperties, EmptySeq DEF MessagesOK, MsgSeq
<1>2. QED BY <1>1 DEF TakenOff

LEMMA OffFront ==
    ASSUME MessagesOK, deqMsg # <<>>, deqMsg' = Tail(deqMsg)
    PROVE  TakenOff(1)
<1>1. /\ Tail(deqMsg) \in MsgSeq /\ Len(Tail(deqMsg)) = Len(deqMsg) - 1
      /\ \A i \in 1 .. Len(Tail(deqMsg)) : Tail(deqMsg)[i] = deqMsg[i + 1]
  BY HeadTailProperties DEF MessagesOK, MsgSeq
<1>2. Len(deqMsg) \in Nat /\ Len(deqMsg) # 0 BY LenProperties, EmptySeq DEF MessagesOK, MsgSeq
<1>3. QED BY <1>1, <1>2 DEF TakenOff

LEMMA OffByOverflow ==
    ASSUME MessagesOK, ThreadsOK, deqMsg # <<>>, Overflow, deqMsg' = Shortened
    PROVE  TakenOff(config.m_uiBufferPermit \div 5) /\ deqMsg' # <<>>
<1> DEFINE n == config.m_uiBufferPermit \div 5
<1>1. Len(deqMsg) \in Nat /\ n \in Nat BY LenProperties, Permits DEF MessagesOK, MsgSeq
<1>2. /\ Shortened \in MsgSeq /\ Len(Shortened) = Len(deqMsg) - n /\ Shortened # <<>>
      /\ \A i \in 1 .. Len(Shortened) : Shortened[i] = deqMsg[i + n]
  BY StillThere
<1>3. Len(Shortened) \in Nat BY <1>2, LenProperties DEF MsgSeq
<1> HIDE DEF n
<1>4. TakenOff(n) BY <1>1, <1>2, <1>3 DEF TakenOff
<1>5. QED BY <1>2, <1>4 DEF n

LEMMA OffByBatch ==
    ASSUME MessagesOK, ThreadsOK, deqMsg # <<>>,
           deqMsg' = SubSeq(deqMsg, Count + 1, Len(deqMsg))
    PROVE  TakenOff(Count)
<1>1. Len(deqMsg) \in Nat BY LenProperties DEF MessagesOK, MsgSeq
<1>2. Count \in 1 .. Len(deqMsg) BY CountOK
<1>3. QED BY <1>1, <1>2, CountOK DEF TakenOff

\* The writer takes messages off the deque, or what it has of them.
LEMMA TypeTake ==
    ASSUME Typed, UNCHANGED config, WriterEnd \/ TakeFront \/ TakeBatch
    PROVE  Typed'
<1>1. MessagesOK /\ ThreadsOK /\ StopOK /\ Turns /\ Newest BY DEF Typed
<1>2. /\ UNCHANGED <<made, unsignalled, queue, opened, reader, received, ends, config>>
      /\ writer = "check" /\ writer' \in {"ended", "send", "write"}
      /\ writer' = "ended" => bEndThread["writer"]
  BY DEF WriterEnd, TakeFront, TakeBatch, Working
<1>3. /\ oMsg' \in 0 .. made /\ nSize' \in 0 .. made
      /\ sWriteVal' \in MsgSeq /\ (writer' = "send" => deqMsg' # <<>> /\ oMsg' # 0)
      /\ \E n \in Int : TakenOff(n)
  <2>1. CASE WriterEnd
    <3>1. deqMsg' = <<>> /\ UNCHANGED locals /\ writer' = "ended" BY <2>1 DEF WriterEnd
    <3>2. TakenOff(Len(deqMsg)) /\ Len(deqMsg) \in Int
      BY <3>1, <1>1, OffAll, LenProperties DEF MessagesOK, MsgSeq
    <3>3. QED BY <3>1, <3>2, <1>1 DEF MessagesOK, locals
  <2>2. CASE TakeFront
    <3>1. /\ oMsg' = Head(deqMsg) /\ nSize' = Len(deqMsg) /\ deqMsg # <<>> /\ UNCHANGED sWriteVal
          /\ deqMsg' = IF Overflow THEN Shortened ELSE deqMsg
      BY <2>2 DEF TakeFront, Working
    <3>2. Head(deqMsg) \in 1 .. made BY <3>1, <1>1, HeadTailProperties DEF MessagesOK, MsgSeq
    <3>3. config.m_uiBufferPermit \div 5 \in Int BY <1>1, Permits
    <3>4. deqMsg' # <<>> /\ \E n \in Int : TakenOff(n)
      BY <3>1, <3>3, <1>1, OffByOverflow, OffNone
    <3>5. QED BY <3>1, <3>2, <3>4, <1>1, NotMore DEF MessagesOK
  <2>3. CASE TakeBatch
    <3>1. writer' = "write" BY <2>3 DEF TakeBatch
    <3>2. CASE sWriteVal # <<>>
      <4>1. UNCHANGED <<deqMsg, locals>> BY <2>3, <3>2 DEF TakeBatch, locals
      <4>2. QED BY <3>1, <4>1, <1>1, OffNone DEF MessagesOK, locals
    <3>3. CASE sWriteVal = <<>>
      <4>1. deqMsg # <<>> /\ nSize' = Len(deqMsg) /\ UNCHANGED oMsg
        BY <2>3, <3>3 DEF TakeBatch, Working
      <4>2. \/ Overflow /\ deqMsg' = Shortened /\ UNCHANGED sWriteVal
            \/ /\ sWriteVal' = SubSeq(deqMsg, 1, Count)
               /\ deqMsg' = SubSeq(deqMsg, Count + 1, Len(deqMsg))
        BY <2>3, <3>3, Zenon DEF TakeBatch, Count
      <4>3. oMsg' \in 0 .. made /\ nSize' \in 0 .. made BY <4>1, <1>1, NotMore DEF MessagesOK
      <4>4. config.m_uiBufferPermit \div 5 \in Int BY <1>1, Permits
      <4>5. CASE Overflow /\ deqMsg' = Shortened /\ UNCHANGED sWriteVal
        BY <3>1, <4>1, <4>3, <4>4, <4>5, <1>1, OffByOverflow DEF MessagesOK
      <4>6. CASE /\ sWriteVal' = SubSeq(deqMsg, 1, Count)
                 /\ deqMsg' = SubSeq(deqMsg, Count + 1, Len(deqMsg))
        <5>1. TakenOff(Count) /\ Count \in Int BY <4>1, <4>6, <1>1, OffByBatch, CountOK
        <5>2. QED BY <3>1, <4>1, <4>3, <4>6, <5>1, <1>1, CountOK
      <4>7. QED BY <4>2, <4>5, <4>6
    <3>4. QED BY <3>2, <3>3
  <2>4. QED BY <2>1, <2>2, <2>3
<1>4. PICK n \in Int : TakenOff(n) BY <1>3
<1>5. deqMsg' \in MsgSeq /\ Newest' BY <1>1, <1>2, <1>4, StillNewest DEF TakenOff
<1>6. UNCHANGED <<bEndThread, stop, opened, reader, queue, received, made>> BY <1>2 DEF ends
<1>7. MsgSeq' = MsgSeq /\ Slot' = Slot BY <1>6 DEF MsgSeq, Slot
<1>8. MessagesOK' BY <1>1, <1>3, <1>5, <1>6, <1>7 DEF MessagesOK
<1>9. ThreadsOK' BY <1>1, <1>2 DEF ThreadsOK
<1>10. StopOK' BY <1>6, <1>1, Zenon DEF StopOK
<1>11. Turns' BY <1>6, <1>1, <1>2, <1>3 DEF Turns
<1>12. QED BY <1>5, <1>8, <1>9, <1>10, <1>11 DEF Typed

\* Sending, and what the reader takes out of the queue.
LEMMA TypeSend ==
    ASSUME Typed, UNCHANGED config, Send \/ Pop \/ WriteBatch \/ Recv
    PROVE  Typed'
<1>1. MessagesOK /\ ThreadsOK /\ StopOK /\ Turns /\ Newest BY DEF Typed
<1>2. /\ UNCHANGED <<made, unsignalled, oMsg, nSize, opened, reader, ends, config>>
      /\ writer' \in {writer, "pop", "loop"}
      /\ writer' = "pop" => writer \in {"pop", "send"} /\ UNCHANGED deqMsg
      /\ writer' = writer => UNCHANGED deqMsg
      /\ writer' # writer => writer \in {"pop", "send", "write"}
  BY DEF Send, Pop, WriteBatch, Recv, locals
<1>3. UNCHANGED <<bEndThread, stop, opened, reader, made>> BY <1>2 DEF ends
<1>4. MsgSeq' = MsgSeq /\ Slot' = Slot BY <1>3 DEF MsgSeq, Slot
<1>5. deqMsg' \in MsgSeq /\ Newest'
  <2>1. \/ UNCHANGED deqMsg
        \/ deqMsg # <<>> /\ deqMsg' = Tail(deqMsg)
    BY <1>1 DEF Send, Pop, WriteBatch, Recv, Turns
  <2>2. \E n \in Int : TakenOff(n) BY <2>1, <1>1, OffNone, OffFront
  <2>3. PICK n \in Int : TakenOff(n) BY <2>2
  <2>4. QED BY <1>1, <1>3, <2>3, StillNewest DEF TakenOff
<1>6. sWriteVal' \in MsgSeq
  BY <1>1, EmptySeq DEF Send, Pop, WriteBatch, Recv, MessagesOK, MsgSeq, locals
<1>7. queue' \in Seq(Slot) /\ received' \in MsgSeq
  <2>0. queue \in Seq(Slot) /\ received \in MsgSeq /\ sWriteVal \in MsgSeq BY <1>1 DEF MessagesOK
  <2>1. CASE Recv
    <3>1. PICK n \in 1 .. Len(queue) : queue' = SubSeq(queue, n + 1, Len(queue)) BY <2>1 DEF Recv
    <3>2. received' = Append(received, Head(queue).msg) BY <2>1 DEF Recv
    <3>3. queue # <<>> BY <3>1
    <3>4. queue \in Seq(Slot) /\ n \in 0 .. Len(queue) BY <1>1, LenProperties DEF MessagesOK
    <3>5. queue' \in Seq(Slot) BY <3>1, <3>4, CutRest
    <3>6. Head(queue) \in Slot BY <3>3, <3>4, HeadTailProperties
    <3>7. Head(queue).msg \in 1 .. made BY <3>6 DEF Slot
    <3>8. QED BY <3>2, <3>5, <3>7, <2>0, AppendProperties DEF MsgSeq
  <2>2. CASE Send
    <3>1. UNCHANGED received /\ writer = "send" BY <2>2 DEF Send
    <3>2. PICK m \in Referenced : UNCHANGED queue \/ queue' = queue \o Packed(<<m>>)
      BY <2>2 DEF Send, Written, NotWritten
    <3>3. m \in 1 .. made
      <4>1. \A i \in 1 .. Len(deqMsg) : deqMsg[i] \in 1 .. made
        BY <1>1, ElementOfSeq DEF MessagesOK, MsgSeq
      <4>2. oMsg \in 1 .. made BY <3>1, <1>1 DEF MessagesOK, Turns
      <4>3. m = oMsg \/ m \in ToSet(deqMsg) BY DEF Referenced
      <4>4. QED BY <4>1, <4>2, <4>3 DEF ToSet
    <3>4. <<m>> \in MsgSeq BY <3>3 DEF MsgSeq
    <3>5. Packed(<<m>>) \in Seq(Slot) BY <3>4, PackedOK
    <3>6. QED BY <3>1, <3>2, <3>5, <2>0, ConcatProperties
  <2>3. CASE WriteBatch
    <3>1. UNCHANGED received /\ (UNCHANGED queue \/ queue' = queue \o Packed(sWriteVal))
      BY <2>3 DEF WriteBatch, Written, NotWritten
    <3>2. Packed(sWriteVal) \in Seq(Slot) BY <2>0, PackedOK
    <3>3. QED BY <3>1, <3>2, <2>0, ConcatProperties
  <2>4. CASE Pop BY <2>4, <2>0 DEF Pop
  <2>5. QED BY <2>1, <2>2, <2>3, <2>4
<1>8. MessagesOK' BY <1>1, <1>2, <1>4, <1>5, <1>6, <1>7 DEF MessagesOK
<1>9. ThreadsOK' BY <1>1, <1>2 DEF ThreadsOK
<1>10. StopOK' BY <1>3, <1>1, Zenon DEF StopOK
<1>11. Turns' BY <1>1, <1>2, <1>3 DEF Turns
<1>12. QED BY <1>5, <1>8, <1>9, <1>10, <1>11 DEF Typed

\* Stop() changes no message, except that a queue nobody has open is gone.
LEMMA TypeStop ==
    ASSUME Typed, UNCHANGED config, NEW s \in Side, StopBegin(s) \/ Stopping(s)
    PROVE  Typed'
<1>1. MessagesOK /\ ThreadsOK /\ StopOK /\ Turns /\ Newest BY DEF Typed
<1>2. /\ UNCHANGED <<made, unsignalled, deqMsg, locals, reader, received, config>>
      /\ writer' \in {writer, "check"} /\ (writer' # writer => writer = "asleep")
      /\ opened' \in {opened, opened \ {s}} /\ (opened' # opened => stop[s] = "join")
      /\ queue' \in {queue, <<>>}
  BY DEF StopBegin, Stopping, StopClose, StopSignal, Signal
<1>3. \/ /\ stop[s] = "running" /\ bEndThread' = [bEndThread EXCEPT ![s] = TRUE]
         /\ \E x \in {"signal", "join"} : stop' = [stop EXCEPT ![s] = x]
      \/ /\ stop[s] # "running" /\ bEndThread' = bEndThread
         /\ \E x \in {"join", "stopped"} : stop' = [stop EXCEPT ![s] = x]
  BY Zenon DEF StopBegin, Stopping, StopClose, StopSignal, ends
<1>4. MessagesOK' /\ Newest'
  <2>1. queue' \in Seq(Slot) BY <1>1, <1>2, EmptySeq DEF MessagesOK
  <2>2. QED BY <2>1, <1>1, <1>2, SameMade DEF MessagesOK, locals
<1>5. ThreadsOK' BY <1>1, <1>2 DEF ThreadsOK
<1>6. StopOK' BY <1>1, <1>3 DEF StopOK
<1>7. \A u \in Side : ~bEndThread'[u] <=> stop'[u] = "running"
  <2>1. TAKE u \in Side
  <2>2. ~bEndThread[u] <=> stop[u] = "running" BY <1>1 DEF Turns
  <2>3. CASE u # s BY <2>2, <2>3, <1>1, <1>3 DEF StopOK
  <2>4. CASE u = s
    <3>1. stop'[s] # "running" BY <1>1, <1>3 DEF StopOK
    <3>2. bEndThread'[s] BY <2>2, <2>4, <1>1, <1>3 DEF StopOK
    <3>3. QED BY <2>4, <3>1, <3>2
  <2>5. QED BY <2>3, <2>4
<1>8. bEndThread["writer"] => bEndThread'["writer"] BY <1>1, <1>3 DEF StopOK, Side
<1>9. opened' = opened \/ s # "writer" \/ bEndThread'["writer"]
  <2>1. CASE s = "writer" /\ opened' # opened
    <3>1. stop["writer"] # "running" BY <2>1, <1>2
    <3>2. bEndThread["writer"] BY <3>1, <1>1 DEF Turns, Side
    <3>3. QED BY <3>2, <1>8
  <2>2. QED BY <2>1
<1>10. Turns' BY <1>1, <1>2, <1>7, <1>8, <1>9 DEF Turns, locals
<1>11. QED BY <1>4, <1>5, <1>6, <1>10 DEF Typed

LEMMA TypeStep == Typed /\ [Next]_vars => Typed'
<1> SUFFICES ASSUME Typed, [Next]_vars PROVE Typed'
  OBVIOUS
<1>1. CASE UNCHANGED vars
  BY <1>1, Zenon DEF vars, moving, locals, ends, Typed, MessagesOK, ThreadsOK, StopOK, Turns,
                     Newest, MsgSeq, Slot
<1>2. CASE Next
  <2>1. UNCHANGED config BY <1>2 DEF Next
  <2>2. CASE \E p \in Producer : Enque(p) \/ EnqueSignal(p) BY <2>1, <2>2, TypeEnque
  <2>3. CASE WriterThread
    BY <2>1, <2>3, TypePlaces, TypeTake, TypeSend DEF WriterThread
  <2>4. CASE ReaderThread BY <2>1, <2>4, TypePlaces, TypeSend DEF ReaderThread
  <2>5. CASE \E s \in Side : StopBegin(s) \/ Stopping(s) BY <2>1, <2>5, TypeStop
  <2>6. QED BY <1>2, <2>2, <2>3, <2>4, <2>5 DEF Next
<1>3. QED BY <1>1, <1>2

LEMMA AlwaysTyped == Spec => []Typed
BY TypeInit, TypeStep, PTL DEF Spec

\* Every variable has its type, for any permits, also a buffer permit of zero, with which
\* every look at the deque is an overflow.
THEOREM TypeCorrect == Spec => []TypeOK
<1>1. Typed => TypeOK BY Parts DEF Typed
<1>2. QED BY <1>1, AlwaysTyped, PTL

\* The writer takes off the deque only what is there: no pop_front() of an empty deque,
\* although Stop() and an overflow may come between its look at the deque and the pop.
THEOREM FrontIsThere == Spec => [](writer = "pop" => deqMsg # <<>>)
<1>1. Typed => (writer = "pop" => deqMsg # <<>>) BY DEF Typed, Turns
<1>2. QED BY <1>1, AlwaysTyped, PTL

-----------------------------------------------------------------------------
(* Below the permits nothing is lost.                                      *)

\* How many messages are on the deque, of those that the writer still has to write.
Left == IF writer = "pop" THEN Len(deqMsg) - 1 ELSE Len(deqMsg)

\* The messages in the writer's string, and those in the queue, are the ones before.
StringNext ==
    \A i \in 1 .. Len(sWriteVal) : sWriteVal[i] = made - Left - Len(sWriteVal) + i

QueueNext ==
    \A i \in 1 .. Len(queue) : queue[i].msg = made - Left - Len(sWriteVal) - Len(queue) + i

\* With messages written one at a time, each has a packet of its own, and those before
\* the queue have been received.
OneByOne ==
    /\ sWriteVal = <<>> /\ \A i \in 1 .. Len(queue) : queue[i].ends
    /\ Len(received) = made - Left - Len(queue)

Intact == Ample /\ ~bEndThread["writer"]

\* Which way of writing the thread is in the middle of.
Way == /\ writer \in {"send", "pop"} => config.m_uiTest = 0
       /\ writer = "write" => config.m_uiTest = 1

InLine ==
    /\ StringNext /\ QueueNext
    /\ config.m_uiTest = 0 => OneByOne
    /\ writer = "send" => oMsg = deqMsg[1]
    /\ writer = "open" => queue = <<>> /\ sWriteVal = <<>>

Kept == Typed /\ Way /\ (Intact => InLine)

LEMMA Lengths ==
    ASSUME Typed
    PROVE  /\ made \in Nat /\ Len(deqMsg) \in 0 .. made /\ Len(sWriteVal) \in Nat
           /\ Len(queue) \in Nat /\ Len(received) \in Nat /\ Left \in Nat
           /\ deqMsg \in MsgSeq /\ sWriteVal \in MsgSeq /\ queue \in Seq(Slot)
           /\ received \in MsgSeq
<1>1. MessagesOK /\ Turns /\ Newest BY DEF Typed
<1>2. Len(deqMsg) \in 0 .. made BY <1>1, NotMore
<1>3. writer = "pop" => Len(deqMsg) # 0 BY <1>1, EmptySeq DEF Turns, MessagesOK, MsgSeq
<1>4. QED BY <1>1, <1>2, <1>3, LenProperties DEF MessagesOK, MsgSeq, Left

\* The permits are not reached.
LEMMA NoneReached ==
    ASSUME Typed, Intact
    PROVE  ~Overflow /\ ~GiveUp
<1>1. made \in 0 .. MaxMsgs /\ nSize \in 0 .. made BY DEF Typed, MessagesOK
<1>2. Len(deqMsg) \in 0 .. made BY Lengths
<1>3. config.m_uiWaitPermit \in Nat /\ config.m_uiBufferPermit \in Nat BY Permits DEF Typed
<1>4. config.m_uiWaitPermit >= MaxMsgs /\ config.m_uiBufferPermit > MaxMsgs BY DEF Intact, Ample
<1>5. QED BY <1>1, <1>2, <1>3, <1>4, Bounds DEF Overflow, GiveUp

LEMMA KeptInit == Init => Kept
<1>1. ASSUME Init PROVE Kept
  <2>1. Typed BY <1>1, TypeInit
  <2>2. Left = 0 /\ Len(queue) = 0 /\ Len(sWriteVal) = 0 /\ Len(received) = 0 /\ made = 0
    BY <1>1 DEF Init, Left
  <2>3. StringNext /\ QueueNext BY <2>2 DEF StringNext, QueueNext
  <2>4. sWriteVal = <<>> /\ \A i \in 1 .. Len(queue) : queue[i].ends BY <1>1, <2>2 DEF Init
  <2>5. OneByOne BY <2>2, <2>4 DEF OneByOne
  <2>6. QED BY <1>1, <2>1, <2>3, <2>5 DEF Init, Kept, Way, InLine
<1>2. QED BY <1>1

\* Messages are made and the threads move, and what was made stays in line.
LEMMA StaysInLine ==
    ASSUME Typed, Typed', Intact => InLine, UNCHANGED <<config, sWriteVal, queue, received, oMsg>>,
           bEndThread["writer"] => bEndThread'["writer"],
           made' - Left' = made - Left, made' \in Nat, Left' \in Nat,
           writer' = "send" => writer = "send" /\ deqMsg'[1] = deqMsg[1],
           writer' = "open" => writer = "open"
    PROVE  Intact' => InLine'
<1> SUFFICES ASSUME Intact' PROVE InLine'
  OBVIOUS
<1>1. Intact BY DEF Intact, Ample
<1>2. InLine BY <1>1
<1>3. made \in Nat /\ Left \in Nat BY Lengths
<1> DEFINE d == made - Left
<1>4. d \in Int /\ made' - Left' = d
  <2>1. d \in Int BY <1>3
  <2>2. QED BY <2>1, Zenon
<1>5. \A i \in 1 .. Len(sWriteVal) : sWriteVal[i] = d - Len(sWriteVal) + i
  BY <1>2 DEF InLine, StringNext
<1>6. \A i \in 1 .. Len(queue) : queue[i].msg = d - Len(sWriteVal) - Len(queue) + i
  BY <1>2 DEF InLine, QueueNext
<1>7. config.m_uiTest = 0 =>
        /\ sWriteVal = <<>> /\ \A i \in 1 .. Len(queue) : queue[i].ends
        /\ Len(received) = d - Len(queue)
  BY <1>2 DEF InLine, OneByOne
<1> HIDE DEF d
<1>8. StringNext' BY <1>4, <1>5 DEF StringNext
<1>9. QueueNext' BY <1>4, <1>6 DEF QueueNext
<1>10. config.m_uiTest' = 0 => OneByOne' BY <1>4, <1>7 DEF OneByOne
<1>11. QED BY <1>2, <1>8, <1>9, <1>10 DEF InLine

LEMMA KeptEnque ==
    ASSUME Kept, Typed', UNCHANGED config, NEW p \in Producer, Enque(p) \/ EnqueSignal(p)
    PROVE  Kept'
<1>1. Typed /\ Way /\ (Intact => InLine) BY DEF Kept
<1>2. CASE Enque(p)
  <2>1. /\ made' = made + 1 /\ deqMsg' = Append(deqMsg, made + 1)
        /\ UNCHANGED <<writer, sWriteVal, queue, received, oMsg, bEndThread>>
    BY <1>2, Zenon DEF Enque, locals, ends
  <2>2. deqMsg \in MsgSeq /\ MessagesOK BY <1>1, Lengths DEF Typed
  <2>3. /\ Len(deqMsg') = Len(deqMsg) + 1 /\ deqMsg' \in MsgSeq'
        /\ \A i \in 1 .. Len(deqMsg) : deqMsg'[i] = deqMsg[i]
    BY <2>1, <2>2, MoreMade
  <2>4. made \in Nat /\ Len(deqMsg) \in Nat /\ Left \in Nat BY <1>1, Lengths
  <2>5. made' - Left' = made - Left /\ made' \in Nat /\ Left' \in Nat
    <3>1. writer' = writer /\ Len(deqMsg') = Len(deqMsg) + 1 BY <2>1, <2>3
    <3>2. Left' = Left + 1 BY <2>4, <3>1 DEF Left
    <3>3. QED BY <2>1, <2>4, <3>2
  <2>6. writer' = "send" => deqMsg'[1] = deqMsg[1]
    <3>1. SUFFICES ASSUME writer = "send" PROVE deqMsg'[1] = deqMsg[1] BY <2>1
    <3>2. deqMsg # <<>> BY <3>1, <1>1 DEF Typed, Turns
    <3>3. 1 \in 1 .. Len(deqMsg) BY <2>2, <2>4, <3>2, EmptySeq DEF MsgSeq
    <3>4. QED BY <2>3, <3>3
  <2>7. Intact' => InLine' BY <1>1, <2>1, <2>5, <2>6, StaysInLine
  <2>8. Way' BY <1>1, <2>1 DEF Way
  <2>9. QED BY <2>7, <2>8 DEF Kept
<1>3. CASE EnqueSignal(p)
  <2>1. /\ writer' = IF writer = "asleep" THEN "check" ELSE writer
        /\ UNCHANGED <<made, deqMsg, sWriteVal, queue, received, oMsg, bEndThread>>
    BY <1>3, Zenon DEF EnqueSignal, Signal, locals, ends
  <2>2. made \in Nat /\ Left \in Nat /\ UNCHANGED Left BY <1>1, <2>1, Lengths DEF Left
  <2>3. Intact' => InLine' BY <1>1, <2>1, <2>2, StaysInLine
  <2>4. Way' BY <1>1, <2>1 DEF Way
  <2>5. QED BY <2>3, <2>4 DEF Kept
<1>4. QED BY <1>2, <1>3

LEMMA KeptPlaces ==
    ASSUME Kept, Typed', UNCHANGED config,
           WriterOpen \/ ReaderOpen \/ WriterLoop \/ WriterWait \/ ReaderEnd \/ Pop
    PROVE  Kept'
<1>1. Typed /\ Way /\ (Intact => InLine) BY DEF Kept
<1>2. /\ UNCHANGED <<made, sWriteVal, queue, received, oMsg, bEndThread>>
      /\ \/ writer' = writer
         \/ writer' \in {"ended", "loop", "check", "asleep"}
      /\ \/ UNCHANGED deqMsg /\ (writer = "pop" => writer' = "pop")
         \/ deqMsg' = Tail(deqMsg) /\ writer = "pop" /\ writer' = "loop"
  BY DEF WriterOpen, ReaderOpen, WriterLoop, WriterWait, ReaderEnd, Pop, Open, locals, ends
<1>3. made \in Nat /\ Left \in Nat /\ deqMsg \in MsgSeq BY <1>1, Lengths
<1>4. UNCHANGED Left
  <2>1. CASE UNCHANGED deqMsg /\ (writer = "pop" => writer' = "pop")
    BY <1>2, <2>1 DEF Left
  <2>2. CASE deqMsg' = Tail(deqMsg) /\ writer = "pop" /\ writer' = "loop"
    <3>1. deqMsg # <<>> BY <2>2, <1>1 DEF Typed, Turns
    <3>2. Len(deqMsg') = Len(deqMsg) - 1 BY <2>2, <3>1, <1>3, HeadTailProperties DEF MsgSeq
    <3>3. QED BY <2>2, <3>2 DEF Left
  <2>3. QED BY <1>2, <2>1, <2>2
<1>5. writer' = "send" => writer = "send" /\ deqMsg'[1] = deqMsg[1] BY <1>2
<1>6. writer' = "open" => writer = "open" BY <1>2
<1>7. Intact' => InLine' BY <1>1, <1>2, <1>3, <1>4, <1>5, <1>6, StaysInLine
<1>8. Way' BY <1>1, <1>2 DEF Way
<1>9. QED BY <1>7, <1>8 DEF Kept

LEMMA KeptTake ==
    ASSUME Kept, Typed', UNCHANGED config, WriterEnd \/ TakeFront \/ TakeBatch
    PROVE  Kept'
<1>1. Typed /\ Way /\ (Intact => InLine) BY DEF Kept
<1>2. /\ made \in Nat /\ Left \in Nat /\ Len(deqMsg) \in Nat /\ deqMsg \in MsgSeq
      /\ MessagesOK /\ ThreadsOK /\ Newest
  BY <1>1, Lengths DEF Typed
<1>3. CASE WriterEnd
  <2>1. writer' = "ended" /\ bEndThread["writer"] /\ UNCHANGED bEndThread
    BY <1>3 DEF WriterEnd, ends
  <2>2. ~Intact' /\ Way' BY <2>1 DEF Intact, Way
  <2>3. QED BY <2>2 DEF Kept
<1>4. CASE TakeFront
  <2>1. /\ UNCHANGED <<made, sWriteVal, queue, received, bEndThread>>
        /\ writer = "check" /\ writer' = "send" /\ config.m_uiTest = 0
        /\ oMsg' = Head(deqMsg) /\ deqMsg # <<>>
        /\ deqMsg' = IF Overflow THEN Shortened ELSE deqMsg
    BY <1>4 DEF TakeFront, Working, ends
  <2>2. Way' BY <2>1 DEF Way
  <2>3. ASSUME Intact' PROVE InLine'
    <3>1. Intact BY <2>1, <2>3 DEF Intact, Ample
    <3>2. UNCHANGED <<deqMsg, Left>> BY <1>1, <2>1, <3>1, NoneReached DEF Left
    <3>3. oMsg' = deqMsg'[1] BY <2>1, <3>2, <1>2
    <3>4. InLine BY <1>1, <3>1
    <3>5. StringNext' /\ QueueNext' BY <2>1, <3>2, <3>4 DEF InLine, StringNext, QueueNext
    <3>6. OneByOne' BY <2>1, <3>2, <3>4 DEF InLine, OneByOne
    <3>7. QED BY <2>1, <3>3, <3>5, <3>6 DEF InLine
  <2>4. QED BY <2>2, <2>3 DEF Kept
<1>5. CASE TakeBatch
  <2>1. /\ UNCHANGED <<made, queue, received, oMsg, bEndThread>>
        /\ writer = "check" /\ writer' = "write" /\ config.m_uiTest = 1 /\ deqMsg # <<>>
        /\ \/ UNCHANGED <<deqMsg, sWriteVal>>
           \/ Overflow
           \/ /\ sWriteVal = <<>> /\ sWriteVal' = SubSeq(deqMsg, 1, Count)
              /\ deqMsg' = SubSeq(deqMsg, Count + 1, Len(deqMsg))
    BY <1>5, Zenon DEF TakeBatch, Working, ends, Count
  <2>2. Way' BY <2>1 DEF Way
  <2>3. ASSUME Intact' PROVE InLine'
    <3>1. Intact BY <2>1, <2>3 DEF Intact, Ample
    <3>2. ~Overflow BY <1>1, <3>1, NoneReached
    <3>3. InLine BY <1>1, <3>1
    <3>4. CASE UNCHANGED <<deqMsg, sWriteVal>>
      <4>1. UNCHANGED Left BY <2>1, <3>4 DEF Left
      <4>2. StringNext' /\ QueueNext' BY <2>1, <3>3, <3>4, <4>1 DEF InLine, StringNext, QueueNext
      <4>3. QED BY <2>1, <4>2 DEF InLine
    <3>5. CASE /\ sWriteVal = <<>> /\ sWriteVal' = SubSeq(deqMsg, 1, Count)
               /\ deqMsg' = SubSeq(deqMsg, Count + 1, Len(deqMsg))
      <4> DEFINE n == Count
      <4>1. /\ n \in 1 .. Len(deqMsg) /\ Len(sWriteVal') = n /\ Len(deqMsg') = Len(deqMsg) - n
            /\ \A i \in 1 .. n : sWriteVal'[i] = deqMsg[i]
        BY <3>5, <1>2, <2>1, CountOK
      <4> HIDE DEF n
      <4>2. Left = Len(deqMsg) /\ Left' = Len(deqMsg) - n BY <2>1, <4>1 DEF Left
      <4>3. Len(sWriteVal) = 0 BY <3>5
      <4>4. \A i \in 1 .. n : sWriteVal'[i] = made - Left' - n + i
        <5>1. TAKE i \in 1 .. n
        <5>2. i \in 1 .. Len(deqMsg) BY <1>2, <4>1
        <5>3. deqMsg[i] = made - Len(deqMsg) + i BY <5>2, <1>2 DEF Newest
        <5>4. QED BY <1>2, <4>1, <4>2, <5>3
      <4>5. StringNext' BY <2>1, <4>1, <4>4 DEF StringNext
      <4>6. \A i \in 1 .. Len(queue) : queue[i].msg = made - Len(deqMsg) - 0 - Len(queue) + i
        BY <3>3, <4>2, <4>3 DEF InLine, QueueNext
      <4>7. made - Left' - Len(sWriteVal') - Len(queue) = made - Len(deqMsg) - 0 - Len(queue)
        BY <1>1, <1>2, <4>1, <4>2, Lengths
      <4>8. QueueNext' BY <2>1, <4>6, <4>7 DEF QueueNext
      <4>9. QED BY <2>1, <4>5, <4>8 DEF InLine
    <3>6. QED BY <2>1, <3>2, <3>4, <3>5
  <2>4. QED BY <2>2, <2>3 DEF Kept
<1>6. QED BY <1>3, <1>4, <1>5

\* A packet behind what is in the queue.
LEMMA Behind ==
    ASSUME Typed, NEW p \in MsgSeq, queue' = queue \o Packed(p)
    PROVE  /\ Len(queue') = Len(queue) + Len(p)
           /\ \A i \in 1 .. Len(queue) : queue'[i] = queue[i]
           /\ \A i \in 1 .. Len(p) : /\ queue'[i + Len(queue)].msg = p[i]
                                     /\ queue'[i + Len(queue)].ends <=> i = Len(p)
<1>1. queue \in Seq(Slot) /\ Len(queue) \in Nat /\ Len(p) \in Nat
  BY Lengths, LenProperties DEF MsgSeq
<1>2. /\ Packed(p) \in Seq(Slot) /\ Len(Packed(p)) = Len(p)
      /\ \A i \in 1 .. Len(p) : /\ Packed(p)[i].msg = p[i]
                                /\ Packed(p)[i].ends <=> i = Len(p)
  BY PackedOK
<1>3. /\ Len(queue') = Len(queue) + Len(p)
      /\ \A i \in 1 .. Len(queue) : queue'[i] = queue[i]
      /\ \A i \in Len(queue) + 1 .. Len(queue) + Len(p) : queue'[i] = Packed(p)[i - Len(queue)]
  <2>1. PICK r \in Seq(Slot) : r = Packed(p) /\ Len(r) = Len(p) BY <1>2
  <2>2. queue' = queue \o r BY <2>1
  <2>3. /\ Len(queue \o r) = Len(queue) + Len(r)
        /\ \A i \in 1 .. Len(queue) + Len(r) :
              (queue \o r)[i] = IF i <= Len(queue) THEN queue[i] ELSE r[i - Len(queue)]
    BY <1>1, ConcatProperties
  <2>4. QED BY <1>1, <2>1, <2>2, <2>3
<1>4. ASSUME NEW i \in 1 .. Len(p)
      PROVE  queue'[i + Len(queue)] = Packed(p)[i]
  <2>1. i + Len(queue) \in Len(queue) + 1 .. Len(queue) + Len(p) /\ (i + Len(queue)) - Len(queue) = i
    BY <1>1
  <2>2. QED BY <1>3, <2>1
<1>5. ASSUME NEW i \in 1 .. Len(p)
      PROVE  /\ queue'[i + Len(queue)].msg = p[i]
             /\ queue'[i + Len(queue)].ends <=> i = Len(p)
  BY <1>2, <1>4, Zenon
<1>6. QED BY <1>3, <1>5

LEMMA KeptSend ==
    ASSUME Kept, Typed', UNCHANGED config, Send
    PROVE  Kept'
<1>1. Typed /\ Way /\ (Intact => InLine) BY DEF Kept
<1>2. /\ UNCHANGED <<made, deqMsg, sWriteVal, oMsg, received, bEndThread>>
      /\ writer = "send" /\ writer' \in {"pop", "loop"} /\ config.m_uiTest = 0
  BY <1>1 DEF Send, locals, ends, Way
<1>3. Way' BY <1>2 DEF Way
<1>4. /\ made \in Nat /\ Len(deqMsg) \in Nat /\ deqMsg \in MsgSeq /\ deqMsg # <<>>
      /\ Len(queue) \in Nat /\ queue \in Seq(Slot) /\ Newest
  BY <1>1, <1>2, Lengths DEF Typed, Turns
<1>5. ASSUME Intact' PROVE InLine'
  <2>1. Intact BY <1>2, <1>5 DEF Intact, Ample
  <2>2. InLine BY <1>1, <2>1
  <2>3. /\ oMsg = deqMsg[1] /\ OneByOne /\ sWriteVal = <<>> /\ Left = Len(deqMsg)
        /\ Len(received) = made - Len(deqMsg) - Len(queue)
        /\ \A i \in 1 .. Len(queue) : queue[i].ends
    BY <2>2, <1>2 DEF InLine, OneByOne, Left
  <2>4. 1 \in 1 .. Len(deqMsg) BY <1>4, EmptySeq DEF MsgSeq
  <2>5. oMsg \in ToSet(deqMsg) BY <2>3, <2>4 DEF ToSet
  <2>6. oMsg = made - Len(deqMsg) + 1 BY <2>3, <2>4, <1>4 DEF Newest
  <2>7. Len(sWriteVal) = 0 BY <2>3
  <2>8. \A i \in 1 .. Len(queue) : queue[i].msg = made - Len(deqMsg) - Len(queue) + i
    BY <2>2, <2>3, <2>7, <1>4 DEF InLine, QueueNext
  <2>9. StringNext' BY <1>2, <2>7 DEF StringNext
  <2>10. CASE queue' = queue \o Packed(<<oMsg>>) /\ writer' = "pop"
    <3>1. <<oMsg>> \in MsgSeq /\ Len(<<oMsg>>) = 1 /\ <<oMsg>>[1] = oMsg
      <4>1. oMsg \in 1 .. made BY <1>4, <2>3, <2>4, ElementOfSeq DEF MsgSeq
      <4>2. QED BY <4>1 DEF MsgSeq
    <3>2. /\ Len(queue') = Len(queue) + 1
          /\ \A i \in 1 .. Len(queue) : queue'[i] = queue[i]
          /\ queue'[1 + Len(queue)].msg = oMsg /\ queue'[1 + Len(queue)].ends
      BY <1>1, <2>10, <3>1, Behind
    <3>3. Left' = Len(deqMsg) - 1 BY <1>2, <2>10 DEF Left
    <3>4. ASSUME NEW i \in 1 .. Len(queue')
          PROVE  /\ queue'[i].msg = made - Len(deqMsg) - Len(queue) + i
                 /\ queue'[i].ends
      <4>1. CASE i = 1 + Len(queue) BY <4>1, <3>2, <2>6, <1>4
      <4>2. CASE i # 1 + Len(queue)
        <5>1. i \in 1 .. Len(queue) BY <4>2, <3>2, <1>4
        <5>2. queue'[i] = queue[i] BY <5>1, <3>2
        <5>3. QED BY <5>1, <5>2, <2>3, <2>8
      <4>3. QED BY <4>1, <4>2
    <3>5. made - Left' - 0 - Len(queue') = made - Len(deqMsg) - Len(queue) BY <3>2, <3>3, <1>4
    <3>6. QueueNext' BY <1>2, <2>7, <3>4, <3>5 DEF QueueNext
    <3>7. Len(received') = made - Left' - Len(queue') BY <1>2, <1>4, <2>3, <3>2, <3>3
    <3>8. OneByOne' BY <1>2, <2>3, <3>4, <3>7 DEF OneByOne
    <3>9. QED BY <1>2, <2>9, <3>6, <3>8 DEF InLine
  <2>11. CASE UNCHANGED queue /\ writer' = "loop"
    <3>1. UNCHANGED Left BY <1>2, <2>11 DEF Left
    <3>2. QueueNext' BY <1>2, <2>2, <2>11, <3>1 DEF InLine, QueueNext
    <3>3. OneByOne' BY <1>2, <2>3, <2>11, <3>1 DEF OneByOne
    <3>4. QED BY <1>2, <2>9, <2>11, <3>2, <3>3 DEF InLine
  <2>12. PICK m \in Referenced :
            \/ Written(<<m>>) /\ writer' = "pop"
            \/ NotWritten(<<m>>) /\ writer' = IF GiveUp THEN "pop" ELSE "loop"
    BY DEF Send
  <2>13. m = oMsg BY <2>5 DEF Referenced
  <2>14. ~GiveUp BY <1>1, <2>1, NoneReached
  <2>15. QED BY <2>10, <2>11, <2>12, <2>13, <2>14 DEF Written, NotWritten
<1>6. QED BY <1>3, <1>5 DEF Kept

LEMMA KeptWriteBatch ==
    ASSUME Kept, Typed', UNCHANGED config, WriteBatch
    PROVE  Kept'
<1>1. Typed /\ Way /\ (Intact => InLine) BY DEF Kept
<1>2. /\ UNCHANGED <<made, deqMsg, oMsg, received, bEndThread>>
      /\ writer = "write" /\ writer' = "loop" /\ config.m_uiTest = 1
      /\ \/ queue' = queue \o Packed(sWriteVal) /\ sWriteVal' = <<>>
         \/ UNCHANGED queue /\ sWriteVal' = IF GiveUp THEN <<>> ELSE sWriteVal
  BY <1>1 DEF WriteBatch, ends, Way, Written, NotWritten
<1>3. Way' BY <1>2 DEF Way
<1>4. /\ made \in Nat /\ Left \in Nat /\ UNCHANGED Left
      /\ Len(queue) \in Nat /\ Len(sWriteVal) \in Nat /\ sWriteVal \in MsgSeq
  BY <1>1, <1>2, Lengths DEF Left
<1>5. ASSUME Intact' PROVE InLine'
  <2>1. Intact BY <1>2, <1>5 DEF Intact, Ample
  <2>2. InLine /\ ~GiveUp BY <1>1, <2>1, NoneReached
  <2>3. CASE queue' = queue \o Packed(sWriteVal) /\ sWriteVal' = <<>>
    <3>1. /\ Len(queue') = Len(queue) + Len(sWriteVal)
          /\ \A i \in 1 .. Len(queue) : queue'[i] = queue[i]
          /\ \A i \in 1 .. Len(sWriteVal) : queue'[i + Len(queue)].msg = sWriteVal[i]
      BY <1>1, <1>4, <2>3, Behind
    <3>2. Len(sWriteVal') = 0 BY <2>3
    <3>3. StringNext' BY <3>2 DEF StringNext
    <3>4. ASSUME NEW i \in 1 .. Len(queue')
          PROVE  queue'[i].msg = made - Left - 0 - Len(queue') + i
      <4>1. CASE i <= Len(queue)
        <5>1. i \in 1 .. Len(queue) BY <4>1, <3>1, <1>4
        <5>2. queue'[i] = queue[i] BY <5>1, <3>1
        <5>3. queue[i].msg = made - Left - Len(sWriteVal) - Len(queue) + i
          BY <5>1, <2>2 DEF InLine, QueueNext
        <5>4. QED BY <5>2, <5>3, <3>1, <1>4
      <4>2. CASE i > Len(queue)
        <5> DEFINE j == i - Len(queue)
        <5>1. j \in 1 .. Len(sWriteVal) /\ j + Len(queue) = i BY <4>2, <3>1, <1>4
        <5>2. sWriteVal[j] = made - Left - Len(sWriteVal) + j BY <5>1, <2>2 DEF InLine, StringNext
        <5>3. queue'[i].msg = sWriteVal[j] BY <5>1, <3>1
        <5>4. QED BY <5>2, <5>3, <3>1, <1>4
      <4>3. QED BY <4>1, <4>2, <1>4
    <3>5. QueueNext' BY <1>2, <1>4, <3>2, <3>4 DEF QueueNext
    <3>6. QED BY <1>2, <3>3, <3>5 DEF InLine
  <2>4. CASE UNCHANGED <<queue, sWriteVal>>
    <3>1. StringNext' /\ QueueNext' BY <1>2, <1>4, <2>2, <2>4 DEF InLine, StringNext, QueueNext
    <3>2. QED BY <1>2, <3>1 DEF InLine
  <2>5. QED BY <1>2, <2>2, <2>3, <2>4
<1>6. QED BY <1>3, <1>5 DEF Kept

LEMMA KeptRecv ==
    ASSUME Kept, Typed', UNCHANGED config, Recv
    PROVE  Kept'
<1>1. Typed /\ Way /\ (Intact => InLine) BY DEF Kept
<1>2. /\ UNCHANGED <<made, deqMsg, writer, sWriteVal, oMsg, bEndThread>>
      /\ received' = Append(received, Head(queue).msg)
  BY DEF Recv, locals, ends
<1>3. PICK n \in 1 .. Len(queue) :
        /\ queue[n].ends /\ \A i \in 1 .. n - 1 : ~queue[i].ends
        /\ queue' = SubSeq(queue, n + 1, Len(queue))
  BY DEF Recv
<1>4. Way' BY <1>1, <1>2 DEF Way
<1>5. /\ made \in Nat /\ Left \in Nat /\ UNCHANGED Left
      /\ Len(queue) \in Nat /\ Len(sWriteVal) \in Nat /\ queue \in Seq(Slot)
      /\ received \in MsgSeq /\ Len(received) \in Nat
  BY <1>1, <1>2, Lengths DEF Left
<1>6. /\ Len(queue') = Len(queue) - n /\ n \in Nat
      /\ \A i \in 1 .. Len(queue) - n : queue'[i] = queue[i + n]
  <2>1. n \in 0 .. Len(queue) BY <1>5
  <2>2. QED BY <1>3, <1>5, <2>1, CutRest
<1>7. Len(received') = Len(received) + 1
  <2>1. queue # <<>> BY <1>3
  <2>2. Head(queue) \in Slot BY <2>1, <1>5, HeadTailProperties
  <2>3. Head(queue).msg \in 1 .. made BY <2>2 DEF Slot
  <2>4. QED BY <1>2, <1>5, <2>3, AppendProperties DEF MsgSeq
<1>8. ASSUME Intact' PROVE InLine'
  <2>1. Intact BY <1>2, <1>8 DEF Intact, Ample
  <2>2. InLine BY <1>1, <2>1
  <2>3. StringNext' BY <1>2, <1>5, <2>2 DEF InLine, StringNext
  <2>4. ASSUME NEW i \in 1 .. Len(queue')
        PROVE  /\ i + n \in 1 .. Len(queue) /\ queue'[i] = queue[i + n]
               /\ queue'[i].msg = made - Left - Len(sWriteVal) - Len(queue') + i
    <3>1. i + n \in 1 .. Len(queue) /\ queue'[i] = queue[i + n] BY <1>5, <1>6
    <3>2. queue[i + n].msg = made - Left - Len(sWriteVal) - Len(queue) + (i + n)
      BY <3>1, <2>2 DEF InLine, QueueNext
    <3>3. QED BY <3>1, <3>2, <1>5, <1>6
  <2>5. QueueNext' BY <1>2, <1>5, <2>4 DEF QueueNext
  <2>6. ASSUME config.m_uiTest = 0 PROVE OneByOne'
    <3>1. OneByOne BY <2>2, <2>6 DEF InLine
    <3>2. \A i \in 1 .. Len(queue) : queue[i].ends BY <3>1 DEF OneByOne
    <3>3. n = 1
      <4>1. CASE n > 1
        <5>1. 1 \in 1 .. Len(queue) /\ 1 \in 1 .. n - 1 BY <4>1, <1>5, <1>6
        <5>2. QED BY <5>1, <3>2, <1>3
      <4>2. QED BY <4>1, <1>6
    <3>4. \A i \in 1 .. Len(queue') : queue'[i].ends BY <2>4, <3>2
    <3>5. Len(received') = made - Left - Len(queue')
      BY <1>5, <1>6, <1>7, <3>1, <3>3 DEF OneByOne
    <3>6. QED BY <1>2, <1>5, <3>1, <3>4, <3>5 DEF OneByOne
  <2>7. QED BY <1>2, <2>2, <2>3, <2>5, <2>6 DEF InLine
<1>9. QED BY <1>4, <1>8 DEF Kept

LEMMA KeptStop ==
    ASSUME Kept, Typed', UNCHANGED config, NEW s \in Side, StopBegin(s) \/ Stopping(s)
    PROVE  Kept'
<1>1. Typed /\ Way /\ (Intact => InLine) BY DEF Kept
<1>2. /\ UNCHANGED <<made, deqMsg, oMsg, sWriteVal, received>>
      /\ writer' = writer \/ (writer = "asleep" /\ writer' = "check")
  <2>1. CASE StopBegin(s) BY <2>1, Zenon DEF StopBegin, locals
  <2>2. CASE StopSignal BY <2>2 DEF StopSignal, Signal, locals
  <2>3. CASE StopClose(s) BY <2>3, Zenon DEF StopClose, locals
  <2>4. QED BY <2>1, <2>2, <2>3, Zenon DEF Stopping
<1>3. Way' BY <1>1, <1>2 DEF Way
<1>4. made \in Nat /\ Left \in Nat /\ UNCHANGED Left BY <1>1, <1>2, Lengths DEF Left
<1>5. StopOK /\ Turns BY <1>1 DEF Typed
<1>6. bEndThread["writer"] => bEndThread'["writer"]
  <2>1. \/ bEndThread' = [bEndThread EXCEPT ![s] = TRUE]
        \/ bEndThread' = bEndThread
    BY Zenon DEF StopBegin, Stopping, StopClose, StopSignal, ends
  <2>2. QED BY <2>1, <1>5 DEF StopOK, Side
<1>7. ASSUME ~bEndThread["writer"]
      PROVE  UNCHANGED queue \/ (writer = "open" /\ queue' = <<>>)
  <2>1. stop["writer"] = "running" BY <1>5, <1>7 DEF Turns, Side
  <2>2. CASE StopBegin(s) BY <2>2, Zenon DEF StopBegin
  <2>3. CASE s = "writer" /\ StopSignal BY <2>1, <2>3 DEF StopSignal
  <2>4. CASE StopClose(s)
    <3>1. s # "writer" BY <2>1, <2>4 DEF StopClose
    <3>2. \/ UNCHANGED queue
          \/ opened \subseteq {s} /\ queue' = <<>>
      BY <2>4 DEF StopClose
    <3>3. opened \subseteq {s} => writer = "open" BY <1>5, <1>7, <3>1 DEF Turns
    <3>4. QED BY <3>2, <3>3, Zenon
  <2>5. QED BY <2>2, <2>3, <2>4, Zenon DEF Stopping
<1>8. ASSUME Intact' PROVE UNCHANGED queue
  <2>1. Intact /\ ~bEndThread["writer"] BY <1>6, <1>8 DEF Intact, Ample
  <2>2. InLine BY <1>1, <2>1
  <2>3. QED BY <1>7, <2>1, <2>2 DEF InLine
<1>9. ASSUME Intact' PROVE InLine'
  <2>1. UNCHANGED queue BY <1>8, <1>9
  <2>2. writer' = "send" => writer = "send" /\ deqMsg'[1] = deqMsg[1] BY <1>2
  <2>3. writer' = "open" => writer = "open" BY <1>2
  <2>4. made' - Left' = made - Left /\ made' \in Nat /\ Left' \in Nat BY <1>2, <1>4
  <2>5. QED BY <1>1, <1>2, <1>6, <1>9, <2>1, <2>2, <2>3, <2>4, StaysInLine
<1>10. QED BY <1>3, <1>9 DEF Kept

LEMMA KeptStep == Kept /\ [Next]_vars => Kept'
<1> SUFFICES ASSUME Kept, [Next]_vars PROVE Kept'
  OBVIOUS
<1>1. Typed' BY TypeStep DEF Kept
<1>2. CASE UNCHANGED vars
  <2>1. UNCHANGED <<config, made, deqMsg, writer, oMsg, sWriteVal, queue, received, bEndThread>>
    BY <1>2 DEF vars, moving, locals, ends
  <2>2. UNCHANGED Left BY <2>1 DEF Left
  <2>3. Way' BY <2>1 DEF Kept, Way
  <2>4. Intact' => InLine'
    BY <2>1, <2>2, Zenon DEF Kept, Intact, Ample, InLine, StringNext, QueueNext, OneByOne
  <2>5. QED BY <1>1, <2>3, <2>4 DEF Kept
<1>3. CASE Next
  <2>1. UNCHANGED config BY <1>3 DEF Next
  <2>2. CASE \E p \in Producer : Enque(p) \/ EnqueSignal(p) BY <1>1, <2>1, <2>2, KeptEnque
  <2>3. CASE WriterThread
    BY <1>1, <2>1, <2>3, KeptPlaces, KeptTake, KeptSend, KeptWriteBatch DEF WriterThread
  <2>4. CASE ReaderThread BY <1>1, <2>1, <2>4, KeptPlaces, KeptRecv DEF ReaderThread
  <2>5. CASE \E s \in Side : StopBegin(s) \/ Stopping(s) BY <1>1, <2>1, <2>5, KeptStop
  <2>6. QED BY <1>3, <2>2, <2>3, <2>4, <2>5 DEF Next
<1>4. QED BY <1>2, <1>3

\* The messages of the queue, and those still to write, as sequences.
LEMMA Contents ==
    ASSUME Typed
    PROVE  /\ InQueue \in MsgSeq /\ Len(InQueue) = Len(queue)
           /\ \A i \in 1 .. Len(queue) : InQueue[i] = queue[i].msg
           /\ Unwritten \in MsgSeq /\ Len(Unwritten) = Left
           /\ \A i \in 1 .. Left : Unwritten[i] = made - Left + i
<1>1. /\ queue \in Seq(Slot) /\ Len(queue) \in Nat /\ Left \in Nat /\ made \in Nat
      /\ deqMsg \in MsgSeq /\ Len(deqMsg) \in Nat
  BY Lengths
<1>2. ASSUME NEW i \in 1 .. Len(queue) PROVE queue[i].msg \in 1 .. made
  <2>1. queue[i] \in Slot BY <1>1, ElementOfSeq
  <2>2. QED BY <2>1 DEF Slot
<1>3. /\ InQueue \in MsgSeq /\ Len(InQueue) = Len(queue)
      /\ \A i \in 1 .. Len(queue) : InQueue[i] = queue[i].msg
  <2> DEFINE n == Len(queue)
             q == [i \in 1 .. n |-> queue[i].msg]
  <2>1. n \in Nat /\ \A i \in 1 .. n : queue[i].msg \in 1 .. made BY <1>1, <1>2
  <2>2. q \in Seq(1 .. made) /\ Len(q) = n BY <2>1, IsASeq
  <2>3. InQueue = q BY DEF InQueue
  <2>4. QED BY <2>2, <2>3 DEF MsgSeq
<1>4. Newest /\ Turns BY DEF Typed
<1>5. CASE writer = "pop"
  <2>1. deqMsg # <<>> BY <1>4, <1>5 DEF Turns
  <2>2. Unwritten = Tail(deqMsg) /\ Left = Len(deqMsg) - 1 BY <1>5 DEF Unwritten, Left
  <2>3. /\ Tail(deqMsg) \in MsgSeq /\ Len(Tail(deqMsg)) = Left
        /\ \A i \in 1 .. Left : Tail(deqMsg)[i] = deqMsg[i + 1]
    BY <1>1, <2>1, <2>2, HeadTailProperties DEF MsgSeq
  <2>4. ASSUME NEW i \in 1 .. Left PROVE deqMsg[i + 1] = made - Left + i
    <3>1. i + 1 \in 1 .. Len(deqMsg) BY <1>1, <2>2
    <3>2. deqMsg[i + 1] = made - Len(deqMsg) + (i + 1) BY <3>1, <1>4 DEF Newest
    <3>3. QED BY <1>1, <2>2, <3>2
  <2>5. QED BY <1>3, <2>2, <2>3, <2>4
<1>6. CASE writer # "pop"
  <2>1. Unwritten = deqMsg /\ Left = Len(deqMsg) BY <1>6 DEF Unwritten, Left
  <2>2. QED BY <1>1, <1>3, <1>4, <2>1 DEF Newest
<1>7. QED BY <1>5, <1>6

LEMMA KeptIsEnough == Kept => NothingLost
<1> SUFFICES ASSUME Kept, Intact
             PROVE  LET written == InQueue \o sWriteVal \o Unwritten
                        n       == Len(written)
                    IN  /\ \A i \in 1 .. n : written[i] = made - n + i
                        /\ config.m_uiTest = 0 => Len(received) = made - n
  BY Zenon DEF NothingLost, Intact
<1>1. Typed /\ InLine BY DEF Kept
<1>2. /\ made \in Nat /\ Len(sWriteVal) \in Nat /\ Len(queue) \in Nat /\ Left \in Nat
      /\ sWriteVal \in MsgSeq
  BY <1>1, Lengths
<1>3. /\ InQueue \in MsgSeq /\ Len(InQueue) = Len(queue)
      /\ \A i \in 1 .. Len(queue) : InQueue[i] = queue[i].msg
      /\ Unwritten \in MsgSeq /\ Len(Unwritten) = Left
      /\ \A i \in 1 .. Left : Unwritten[i] = made - Left + i
  BY <1>1, Contents
<1>10. InQueue \in Seq(1 .. made) /\ sWriteVal \in Seq(1 .. made) /\ Unwritten \in Seq(1 .. made)
  BY <1>2, <1>3 DEF MsgSeq
<1> DEFINE packed == InQueue \o sWriteVal
           written == packed \o Unwritten
           n == Len(written)
<1>4. /\ packed \in Seq(1 .. made) /\ Len(packed) = Len(queue) + Len(sWriteVal)
      /\ \A i \in 1 .. Len(queue) + Len(sWriteVal) :
            packed[i] = IF i <= Len(queue) THEN InQueue[i] ELSE sWriteVal[i - Len(queue)]
  <2>1. /\ packed \in Seq(1 .. made) /\ Len(packed) = Len(InQueue) + Len(sWriteVal)
        /\ \A i \in 1 .. Len(InQueue) + Len(sWriteVal) :
              packed[i] = IF i <= Len(InQueue) THEN InQueue[i] ELSE sWriteVal[i - Len(InQueue)]
    BY <1>10, ConcatProperties
  <2>2. QED BY <2>1, <1>3
<1> HIDE DEF packed
<1>5. /\ written \in Seq(1 .. made) /\ Len(written) = Len(packed) + Left
      /\ \A i \in 1 .. Len(packed) + Left :
            written[i] = IF i <= Len(packed) THEN packed[i] ELSE Unwritten[i - Len(packed)]
  <2>1. packed \in Seq(1 .. made) BY <1>4
  <2>2. /\ written \in Seq(1 .. made) /\ Len(written) = Len(packed) + Len(Unwritten)
        /\ \A i \in 1 .. Len(packed) + Len(Unwritten) :
              written[i] = IF i <= Len(packed) THEN packed[i] ELSE Unwritten[i - Len(packed)]
    BY <1>10, <2>1, ConcatProperties
  <2>3. QED BY <2>2, <1>3
<1>6. n = Len(queue) + Len(sWriteVal) + Left BY <1>4, <1>5
<1> HIDE DEF written, n
<1>7. ASSUME NEW i \in 1 .. n PROVE written[i] = made - n + i
  <2>1. CASE i <= Len(queue)
    <3>1. i \in 1 .. Len(queue) /\ i \in 1 .. Len(queue) + Len(sWriteVal) /\ i <= Len(packed)
          /\ i \in 1 .. Len(packed) + Left
      BY <2>1, <1>2, <1>4, <1>6
    <3>2. written[i] = queue[i].msg
      <4>1. written[i] = packed[i] BY <3>1, <1>5
      <4>2. packed[i] = InQueue[i] BY <3>1, <2>1, <1>4
      <4>3. QED BY <3>1, <4>1, <4>2, <1>3
    <3>3. queue[i].msg = made - Left - Len(sWriteVal) - Len(queue) + i
      BY <3>1, <1>1 DEF InLine, QueueNext
    <3>4. QED BY <3>2, <3>3, <1>2, <1>6
  <2>2. CASE i > Len(queue) /\ i <= Len(queue) + Len(sWriteVal)
    <3> DEFINE j == i - Len(queue)
    <3>1. j \in 1 .. Len(sWriteVal) /\ i \in 1 .. Len(queue) + Len(sWriteVal) /\ i <= Len(packed)
          /\ i \in 1 .. Len(packed) + Left /\ ~(i <= Len(queue))
      BY <2>2, <1>2, <1>4, <1>6
    <3>2. written[i] = sWriteVal[j] BY <3>1, <1>4, <1>5
    <3>3. sWriteVal[j] = made - Left - Len(sWriteVal) + j BY <3>1, <1>1 DEF InLine, StringNext
    <3>4. QED BY <3>2, <3>3, <1>2, <1>6
  <2>3. CASE i > Len(queue) + Len(sWriteVal)
    <3> DEFINE j == i - Len(packed)
    <3>1. j \in 1 .. Left /\ i \in 1 .. Len(packed) + Left /\ ~(i <= Len(packed))
      BY <2>3, <1>2, <1>4, <1>6
    <3>2. written[i] = Unwritten[j] BY <3>1, <1>5
    <3>3. Unwritten[j] = made - Left + j BY <3>1, <1>3
    <3>4. QED BY <3>2, <3>3, <1>2, <1>4, <1>6
  <2>4. QED BY <2>1, <2>2, <2>3, <1>2, <1>6
<1>8. config.m_uiTest = 0 => Len(received) = made - n
  <2>1. SUFFICES ASSUME config.m_uiTest = 0 PROVE Len(received) = made - n
    OBVIOUS
  <2>2. Len(received) = made - Left - Len(queue) /\ sWriteVal = <<>>
    BY <2>1, <1>1 DEF InLine, OneByOne
  <2>3. Len(sWriteVal) = 0 BY <2>2
  <2>4. QED BY <2>2, <2>3, <1>2, <1>6
<1>9. QED BY <1>7, <1>8 DEF written, n, packed

LEMMA AlwaysKept == Spec => []Kept
<1>1. Init => Kept BY KeptInit
<1>2. Kept /\ [Next]_vars => Kept' BY KeptStep
<1>3. QED BY <1>1, <1>2, PTL DEF Spec

\* Below its permits, and until it is stopped, the writer loses nothing and writes
\* nothing twice, whichever way it writes and however often a write times out.
THEOREM NoneIsLost == Spec => []NothingLost
<1>1. Kept => NothingLost BY KeptIsEnough
<1>2. QED BY <1>1, AlwaysKept, PTL

-----------------------------------------------------------------------------
(* Sequences of numbers in their order, and what is left of them.          *)

Numbers == Seq(Nat)

InTurn(s) == Lossy!InTurn(s)
LeftOf(s, t) == Lossy!LeftOf(s, t)

LEMMA TurnDef == \A s : InTurn(s) <=> \A i, j \in 1 .. Len(s) : i < j => s[i] < s[j]
BY DEF InTurn, Lossy!InTurn

LEMMA LeftDef == \A s, t : LeftOf(s, t) <=> ToSet(t) \subseteq ToSet(s) /\ InTurn(t)
BY Zenon DEF LeftOf, InTurn, Lossy!LeftOf, Lossy!ToSet, ToSet

LEMMA ElementsOf ==
    ASSUME NEW s \in Numbers
    PROVE  /\ Len(s) \in Nat /\ ToSet(s) \subseteq Nat
           /\ \A x : x \in ToSet(s) <=> \E i \in 1 .. Len(s) : s[i] = x
<1>1. Len(s) \in Nat /\ DOMAIN s = 1 .. Len(s) /\ \A i \in 1 .. Len(s) : s[i] \in Nat
  BY LenProperties, ElementOfSeq DEF Numbers
<1>2. \A x : x \in ToSet(s) <=> \E i \in 1 .. Len(s) : s[i] = x BY <1>1 DEF ToSet
<1>3. QED BY <1>1, <1>2

LEMMA NoElements == ToSet(<<>>) = {} /\ InTurn(<<>>) /\ <<>> \in Numbers
<1>1. <<>> \in Numbers /\ Len(<<>>) = 0 BY EmptySeq DEF Numbers
<1>2. QED BY <1>1, ElementsOf, TurnDef

LEMMA OneElement ==
    ASSUME NEW x \in Nat
    PROVE  <<x>> \in Numbers /\ ToSet(<<x>>) = {x} /\ InTurn(<<x>>)
<1>1. <<x>> \in Numbers /\ Len(<<x>>) = 1 /\ <<x>>[1] = x BY DEF Numbers
<1>2. QED BY <1>1, ElementsOf, TurnDef

\* One sequence behind another.
LEMMA Joined ==
    ASSUME NEW a \in Numbers, NEW b \in Numbers
    PROVE  /\ a \o b \in Numbers /\ ToSet(a \o b) = ToSet(a) \cup ToSet(b)
           /\ InTurn(a \o b) <=>
                InTurn(a) /\ InTurn(b) /\ \A x \in ToSet(a), y \in ToSet(b) : x < y
<1>1. /\ Len(a) \in Nat /\ Len(b) \in Nat
      /\ \A x : x \in ToSet(a) <=> \E i \in 1 .. Len(a) : a[i] = x
      /\ \A x : x \in ToSet(b) <=> \E i \in 1 .. Len(b) : b[i] = x
  BY ElementsOf
<1> DEFINE c == a \o b
<1>2. /\ c \in Numbers /\ Len(c) = Len(a) + Len(b)
      /\ \A i \in 1 .. Len(a) + Len(b) : c[i] = IF i <= Len(a) THEN a[i] ELSE b[i - Len(a)]
  BY ConcatProperties DEF Numbers
<1> HIDE DEF c
<1>3. \A x : x \in ToSet(c) <=> \E i \in 1 .. Len(c) : c[i] = x BY <1>2, ElementsOf
<1>4. \A i \in 1 .. Len(a) : i \in 1 .. Len(c) /\ c[i] = a[i] BY <1>1, <1>2
<1>5. \A i \in 1 .. Len(b) : i + Len(a) \in 1 .. Len(c) /\ c[i + Len(a)] = b[i]
  <2>1. TAKE i \in 1 .. Len(b)
  <2>2. i + Len(a) \in 1 .. Len(a) + Len(b) /\ ~(i + Len(a) <= Len(a)) /\ i + Len(a) - Len(a) = i
    BY <1>1
  <2>3. QED BY <1>2, <2>2
<1>6. ASSUME NEW i \in 1 .. Len(c)
      PROVE  i \in 1 .. Len(a) \/ \E j \in 1 .. Len(b) : i = j + Len(a)
  <2>1. CASE i <= Len(a) BY <2>1, <1>1, <1>2
  <2>2. CASE i > Len(a)
    <3>1. i - Len(a) \in 1 .. Len(b) /\ i = (i - Len(a)) + Len(a) BY <2>2, <1>1, <1>2
    <3>2. QED BY <3>1
  <2>3. QED BY <2>1, <2>2, <1>1, <1>2
<1>7. ToSet(c) = ToSet(a) \cup ToSet(b)
  <2>1. ASSUME NEW x \in ToSet(c) PROVE x \in ToSet(a) \cup ToSet(b)
    <3>1. PICK i \in 1 .. Len(c) : c[i] = x BY <1>3
    <3>2. CASE i \in 1 .. Len(a) BY <3>1, <3>2, <1>1, <1>4
    <3>3. CASE \E j \in 1 .. Len(b) : i = j + Len(a) BY <3>1, <3>3, <1>1, <1>5
    <3>4. QED BY <3>2, <3>3, <1>6
  <2>2. ASSUME NEW x \in ToSet(a) PROVE x \in ToSet(c)
    <3>1. PICK i \in 1 .. Len(a) : a[i] = x BY <1>1
    <3>2. QED BY <3>1, <1>3, <1>4
  <2>3. ASSUME NEW x \in ToSet(b) PROVE x \in ToSet(c)
    <3>1. PICK i \in 1 .. Len(b) : b[i] = x BY <1>1
    <3>2. QED BY <3>1, <1>3, <1>5
  <2>4. QED BY <2>1, <2>2, <2>3
<1>8. ASSUME InTurn(c)
      PROVE  InTurn(a) /\ InTurn(b) /\ \A x \in ToSet(a), y \in ToSet(b) : x < y
  <2>1. \A i, j \in 1 .. Len(c) : i < j => c[i] < c[j] BY <1>8, TurnDef
  <2>2. \A i, j \in 1 .. Len(a) : i < j => a[i] < a[j] BY <2>1, <1>4
  <2>3. ASSUME NEW i \in 1 .. Len(b), NEW j \in 1 .. Len(b), i < j PROVE b[i] < b[j]
    <3>1. i + Len(a) < j + Len(a) BY <1>1, <2>3
    <3>2. QED BY <3>1, <2>1, <1>5
  <2>4. ASSUME NEW x \in ToSet(a), NEW y \in ToSet(b) PROVE x < y
    <3>1. PICK i \in 1 .. Len(a) : a[i] = x BY <1>1
    <3>2. PICK j \in 1 .. Len(b) : b[j] = y BY <1>1
    <3>3. i < j + Len(a) BY <1>1
    <3>4. QED BY <3>1, <3>2, <3>3, <2>1, <1>4, <1>5
  <2>5. QED BY <2>2, <2>3, <2>4, TurnDef
<1>9. ASSUME InTurn(a), InTurn(b), \A x \in ToSet(a), y \in ToSet(b) : x < y
      PROVE  InTurn(c)
  <2>1. /\ \A i, j \in 1 .. Len(a) : i < j => a[i] < a[j]
        /\ \A i, j \in 1 .. Len(b) : i < j => b[i] < b[j]
    BY <1>9, TurnDef
  <2>2. \A i \in 1 .. Len(a) : a[i] \in ToSet(a) BY <1>1
  <2>3. \A i \in 1 .. Len(b) : b[i] \in ToSet(b) BY <1>1
  <2>4. ASSUME NEW i \in 1 .. Len(c), NEW j \in 1 .. Len(c), i < j PROVE c[i] < c[j]
    <3>1. CASE j \in 1 .. Len(a)
      <4>1. i \in 1 .. Len(a) BY <3>1, <2>4, <1>1
      <4>2. QED BY <4>1, <3>1, <2>1, <2>4, <1>4
    <3>2. CASE \E k \in 1 .. Len(b) : j = k + Len(a)
      <4>1. PICK k \in 1 .. Len(b) : j = k + Len(a) BY <3>2
      <4>2. CASE i \in 1 .. Len(a)
        <5>1. c[i] \in ToSet(a) /\ c[j] \in ToSet(b) BY <4>1, <4>2, <2>2, <2>3, <1>4, <1>5
        <5>2. QED BY <5>1, <1>9
      <4>3. CASE \E h \in 1 .. Len(b) : i = h + Len(a)
        <5>1. PICK h \in 1 .. Len(b) : i = h + Len(a) BY <4>3
        <5>2. h < k BY <4>1, <5>1, <2>4, <1>1
        <5>3. QED BY <4>1, <5>1, <5>2, <2>1, <1>5
      <4>4. QED BY <4>2, <4>3, <1>6
    <3>3. QED BY <3>1, <3>2, <1>6
  <2>5. QED BY <2>4, TurnDef
<1>10. QED BY <1>2, <1>7, <1>8, <1>9 DEF c

\* Of two sequences one behind the other, what is left of each is left of both.
LEMMA LeftOfBoth ==
    ASSUME NEW a \in Numbers, NEW b \in Numbers, NEW c \in Numbers, NEW d \in Numbers,
           InTurn(a \o b), LeftOf(a, c), LeftOf(b, d)
    PROVE  LeftOf(a \o b, c \o d)
<1>1. ToSet(c) \subseteq ToSet(a) /\ ToSet(d) \subseteq ToSet(b) /\ InTurn(c) /\ InTurn(d)
  BY LeftDef
<1>2. \A x \in ToSet(a), y \in ToSet(b) : x < y BY Joined
<1>3. \A x \in ToSet(c), y \in ToSet(d) : x < y BY <1>1, <1>2
<1>4. InTurn(c \o d) BY <1>1, <1>3, Joined
<1>5. ToSet(c \o d) \subseteq ToSet(a \o b) BY <1>1, Joined
<1>6. QED BY <1>4, <1>5, LeftDef

\* All is left, or nothing, or what is behind a cut.
LEMMA LeftAll == ASSUME NEW s, InTurn(s) PROVE LeftOf(s, s)
BY LeftDef

LEMMA LeftNone == ASSUME NEW s PROVE LeftOf(s, <<>>)
BY LeftDef, NoElements

LEMMA LeftBehind ==
    ASSUME NEW s \in Numbers, NEW t \in Numbers, NEW n \in Nat, InTurn(s),
           n <= Len(s), Len(t) = Len(s) - n, \A i \in 1 .. Len(s) - n : t[i] = s[i + n]
    PROVE  LeftOf(s, t)
<1>1. Len(s) \in Nat BY ElementsOf
<1>2. \A i, j \in 1 .. Len(s) : i < j => s[i] < s[j] BY TurnDef
<1>3. ASSUME NEW i \in 1 .. Len(t) PROVE i + n \in 1 .. Len(s) /\ t[i] = s[i + n]
  BY <1>1
<1>4. ASSUME NEW i \in 1 .. Len(t), NEW j \in 1 .. Len(t), i < j PROVE t[i] < t[j]
  <2>1. i + n < j + n BY <1>1, <1>4
  <2>2. QED BY <2>1, <1>2, <1>3
<1>5. InTurn(t) BY <1>4, TurnDef
<1>6. ASSUME NEW x \in ToSet(t) PROVE x \in ToSet(s)
  <2>1. PICK i \in 1 .. Len(t) : t[i] = x BY ElementsOf
  <2>2. QED BY <2>1, <1>3, ElementsOf
<1>7. QED BY <1>5, <1>6, LeftDef

-----------------------------------------------------------------------------
(* Messages come in their turn, whatever is lost.                          *)

\* A message that the writer has in hand is not behind the front of the deque; of the
\* two ways of writing only one has a string.
Aligned ==
    /\ Typed /\ Way
    /\ config.m_uiTest = 0 => sWriteVal = <<>>
    /\ writer = "send" => oMsg <= deqMsg[1]

LEMMA AlignedInit == Init => Aligned
<1>1. Init => Typed BY TypeInit
<1>2. QED BY <1>1 DEF Init, Aligned, Way

LEMMA AlignedFront ==
    ASSUME Aligned, Typed', UNCHANGED config, TakeFront
    PROVE  Aligned'
<1>1. /\ UNCHANGED <<made, sWriteVal>> /\ writer' = "send" /\ config.m_uiTest = 0
      /\ oMsg' = Head(deqMsg) /\ deqMsg # <<>>
      /\ deqMsg' = IF Overflow THEN Shortened ELSE deqMsg
  BY DEF TakeFront, Working
<1>2. MessagesOK /\ ThreadsOK /\ Newest BY DEF Aligned, Typed
<1>3. /\ made \in Nat /\ deqMsg \in MsgSeq /\ Len(deqMsg) \in Nat
      /\ Len(deqMsg') \in Nat /\ deqMsg' \in Seq(1 .. made') /\ deqMsg' # <<>>
  <2>1. Typed BY DEF Aligned
  <2>2. deqMsg' \in Seq(1 .. made') BY DEF Typed, MessagesOK, MsgSeq
  <2>3. deqMsg' # <<>> BY <1>1 DEF Typed, Turns
  <2>4. QED BY <2>1, <2>2, <2>3, Lengths, LenProperties
<1>4. 1 \in 1 .. Len(deqMsg) /\ 1 \in 1 .. Len(deqMsg') BY <1>1, <1>3, EmptySeq DEF MsgSeq
<1>5. Head(deqMsg) = deqMsg[1] BY <1>1, <1>3 DEF MsgSeq
<1>6. deqMsg[1] = made - Len(deqMsg) + 1 BY <1>2, <1>4 DEF Newest
<1>7. deqMsg'[1] = made - Len(deqMsg') + 1
  <2>1. Newest' BY DEF Typed
  <2>2. QED BY <1>1, <1>4, <2>1 DEF Newest
<1>8. Len(deqMsg') <= Len(deqMsg)
  <2>1. CASE Overflow
    <3>1. config.m_uiBufferPermit \div 5 \in Nat BY <1>2, Permits
    <3>2. Len(deqMsg') = Len(deqMsg) - config.m_uiBufferPermit \div 5
      BY <1>1, <1>2, <2>1, StillThere
    <3>3. QED BY <3>1, <3>2, <1>3
  <2>2. CASE ~Overflow BY <1>1, <1>3, <2>2
  <2>3. QED BY <2>1, <2>2
<1>9. oMsg' <= deqMsg'[1]
  <2>1. oMsg' = made - Len(deqMsg) + 1 BY <1>1, <1>5, <1>6
  <2>2. made \in Nat /\ Len(deqMsg) \in Nat /\ Len(deqMsg') \in Nat BY <1>3
  <2>3. made - Len(deqMsg) + 1 <= made - Len(deqMsg') + 1 BY <2>2, <1>8
  <2>4. QED BY <2>1, <2>3, <1>7
<1>10. QED BY <1>1, <1>9 DEF Aligned, Way

LEMMA AlignedStep == Aligned /\ [Next]_vars => Aligned'
<1> SUFFICES ASSUME Aligned, [Next]_vars PROVE Aligned'
  OBVIOUS
<1>1. Typed' BY TypeStep DEF Aligned
<1>2. Typed /\ Way BY DEF Aligned
<1>3. CASE TakeFront /\ UNCHANGED config BY <1>1, <1>3, AlignedFront
<1>4. CASE \E p \in Producer : Enque(p) /\ UNCHANGED config
  <2>1. /\ made' = made + 1 /\ deqMsg' = Append(deqMsg, made + 1)
        /\ UNCHANGED <<config, writer, sWriteVal, oMsg>>
    BY <1>4, Zenon DEF Enque, locals
  <2>2. ASSUME writer = "send" PROVE deqMsg'[1] = deqMsg[1]
    <3>1. deqMsg # <<>> /\ deqMsg \in MsgSeq /\ Len(deqMsg) \in Nat /\ MessagesOK
      BY <2>2, <1>2, Lengths DEF Typed, Turns
    <3>2. 1 \in 1 .. Len(deqMsg) BY <3>1, EmptySeq DEF MsgSeq
    <3>3. \A i \in 1 .. Len(deqMsg) : deqMsg'[i] = deqMsg[i] BY <2>1, <3>1, MoreMade
    <3>4. QED BY <3>2, <3>3
  <2>3. QED BY <1>1, <2>1, <2>2 DEF Aligned, Way
<1>5. CASE /\ UNCHANGED config /\ writer' # "send" /\ (writer' = "pop" => writer = "send")
           /\ writer' = "write" => config.m_uiTest = 1
           /\ config.m_uiTest = 1 \/ UNCHANGED sWriteVal \/ sWriteVal' = <<>>
  <2>1. config.m_uiTest \in {0, 1} BY <1>2, Permits DEF Typed
  <2>2. QED BY <1>1, <1>2, <1>5, <2>1 DEF Aligned, Way
<1>6. CASE UNCHANGED <<config, deqMsg, writer, oMsg, sWriteVal>>
  BY <1>1, <1>6 DEF Aligned, Way
<1>7. CASE UNCHANGED vars BY <1>6, <1>7 DEF vars, moving, locals
<1>8. CASE Next
  <2>1. UNCHANGED config BY <1>8 DEF Next
  <2>2. ASSUME NEW p \in Producer, Enque(p) PROVE Aligned' BY <2>1, <2>2, <1>4
  <2>3. ASSUME NEW p \in Producer, EnqueSignal(p) PROVE Aligned'
    <3>1. CASE writer = "asleep"
      <4>1. writer' = "check" /\ UNCHANGED sWriteVal
        BY <2>3, <3>1 DEF EnqueSignal, Signal, locals
      <4>2. QED BY <2>1, <4>1, <1>5
    <3>2. CASE writer # "asleep"
      <4>1. UNCHANGED <<deqMsg, writer, oMsg, sWriteVal>>
        BY <2>3, <3>2 DEF EnqueSignal, Signal, locals
      <4>2. QED BY <2>1, <4>1, <1>6
    <3>3. QED BY <3>1, <3>2
  <2>4. CASE WriterOpen \/ WriterLoop \/ WriterWait \/ WriterEnd
    <3>1. UNCHANGED sWriteVal /\ (writer' = writer \/ writer' \in {"ended", "loop", "check", "asleep"})
          /\ writer \notin {"send", "pop", "write"}
      BY <2>4 DEF WriterOpen, WriterLoop, WriterWait, WriterEnd, locals
    <3>2. QED BY <2>1, <3>1, <1>5
  <2>5. CASE TakeFront BY <2>1, <2>5, <1>3
  <2>6. CASE TakeBatch
    <3>1. writer' = "write" /\ config.m_uiTest = 1 BY <2>6 DEF TakeBatch
    <3>2. QED BY <2>1, <3>1, <1>5
  <2>7. CASE Send \/ Pop \/ WriteBatch
    <3>1. /\ writer' \in {"pop", "loop"} /\ (writer' = "pop" => writer = "send")
          /\ UNCHANGED sWriteVal \/ (writer = "write")
      BY <2>7 DEF Send, Pop, WriteBatch, locals
    <3>2. QED BY <2>1, <3>1, <1>2, <1>5 DEF Way
  <2>8. CASE ReaderThread
    <3>1. UNCHANGED <<deqMsg, writer, oMsg, sWriteVal>>
      BY <2>8 DEF ReaderThread, ReaderOpen, Recv, ReaderEnd, locals
    <3>2. QED BY <2>1, <3>1, <1>6
  <2>9. ASSUME NEW s \in Side, StopBegin(s) \/ Stopping(s) PROVE Aligned'
    <3>1. CASE StopSignal /\ writer = "asleep"
      <4>1. writer' = "check" /\ UNCHANGED sWriteVal BY <3>1 DEF StopSignal, Signal, locals
      <4>2. QED BY <2>1, <4>1, <1>5
    <3>2. CASE StopSignal /\ writer # "asleep"
      <4>1. UNCHANGED <<deqMsg, writer, oMsg, sWriteVal>>
        BY <3>2 DEF StopSignal, Signal, locals
      <4>2. QED BY <2>1, <4>1, <1>6
    <3>3. CASE StopBegin(s) \/ StopClose(s)
      <4>1. UNCHANGED <<deqMsg, writer, oMsg, sWriteVal>>
        BY <3>3, Zenon DEF StopBegin, StopClose, locals
      <4>2. QED BY <2>1, <4>1, <1>6
    <3>4. QED BY <2>9, <3>1, <3>2, <3>3 DEF Stopping
  <2>10. QED BY <1>8, <2>2, <2>3, <2>4, <2>5, <2>6, <2>7, <2>8, <2>9 DEF Next, WriterThread
<1>9. QED BY <1>7, <1>8

LEMMA Associative ==
    ASSUME NEW a \in Numbers, NEW b \in Numbers, NEW c \in Numbers
    PROVE  (a \o b) \o c = a \o (b \o c)
BY ConcatAssociative DEF Numbers

\* The messages on their way.
Pending == InQueue \o sWriteVal \o Held \o Unwritten

PiecesOK ==
    /\ InQueue \in Numbers /\ sWriteVal \in Numbers /\ Held \in Numbers
    /\ Unwritten \in Numbers /\ deqMsg \in Numbers
    /\ Held \o Unwritten \in Numbers /\ sWriteVal \o (Held \o Unwritten) \in Numbers
    /\ Pending \in Numbers /\ Pending = InQueue \o (sWriteVal \o (Held \o Unwritten))

LEMMA Pieces == Typed => PiecesOK
<1> SUFFICES ASSUME Typed PROVE PiecesOK
  OBVIOUS
<1>1. made \in Nat /\ 1 .. made \subseteq Nat BY Lengths
<1>2. ASSUME NEW s \in MsgSeq PROVE s \in Numbers
  BY <1>1, <1>2, SeqMonotonic DEF MsgSeq, Numbers
<1>3. InQueue \in Numbers /\ sWriteVal \in Numbers /\ Unwritten \in Numbers /\ deqMsg \in Numbers
  BY <1>2, Contents, Lengths
<1>4. oMsg \in Nat BY <1>1 DEF Typed, MessagesOK
<1>5. Held \in Numbers BY <1>4, OneElement, NoElements DEF Held
<1>6. Held \o Unwritten \in Numbers /\ sWriteVal \o (Held \o Unwritten) \in Numbers
      /\ InQueue \o sWriteVal \in Numbers
  BY <1>3, <1>5, Joined
<1>7. (InQueue \o sWriteVal) \o Held \in Numbers /\ Pending \in Numbers
  BY <1>3, <1>5, <1>6, Joined DEF Pending
<1>8. ((InQueue \o sWriteVal) \o Held) \o Unwritten = (InQueue \o sWriteVal) \o (Held \o Unwritten)
  <2>1. PICK q \in Numbers : q = InQueue \o sWriteVal BY <1>6
  <2>2. (q \o Held) \o Unwritten = q \o (Held \o Unwritten) BY <1>3, <1>5, Associative
  <2>3. QED BY <2>1, <2>2
<1>9. (InQueue \o sWriteVal) \o (Held \o Unwritten) = InQueue \o (sWriteVal \o (Held \o Unwritten))
  BY <1>3, <1>6, Associative
<1>10. QED BY <1>3, <1>5, <1>6, <1>7, <1>8, <1>9 DEF Pending, PiecesOK

\* What is in turn as a whole is in turn in its parts.
LEMMA PiecesInTurn ==
    ASSUME Typed, InTurn(Pending)
    PROVE  /\ InTurn(InQueue) /\ InTurn(sWriteVal \o (Held \o Unwritten)) /\ InTurn(sWriteVal)
           /\ InTurn(Held \o Unwritten) /\ InTurn(Held) /\ InTurn(Unwritten)
<1>1. InTurn(InQueue \o (sWriteVal \o (Held \o Unwritten))) BY Pieces DEF PiecesOK
<1>2. InTurn(InQueue) /\ InTurn(sWriteVal \o (Held \o Unwritten)) BY <1>1, Pieces, Joined DEF PiecesOK
<1>3. InTurn(sWriteVal) /\ InTurn(Held \o Unwritten) BY <1>2, Pieces, Joined DEF PiecesOK
<1>4. QED BY <1>2, <1>3, Pieces, Joined DEF PiecesOK

\* The queue and the string stay, and of the deque with what is held something is left.
LEMMA LosesBehind ==
    ASSUME Typed, Typed', InTurn(Pending), UNCHANGED <<queue, sWriteVal>>,
           LeftOf(Held \o Unwritten, (Held \o Unwritten)')
    PROVE  LeftOf(Pending, Pending')
<1>1. UNCHANGED InQueue BY DEF InQueue
<1>2. /\ InQueue \in Numbers /\ sWriteVal \in Numbers
      /\ Held \o Unwritten \in Numbers /\ sWriteVal \o (Held \o Unwritten) \in Numbers
      /\ Pending = InQueue \o (sWriteVal \o (Held \o Unwritten))
  BY Pieces DEF PiecesOK
<1>3. /\ (Held \o Unwritten)' \in Numbers
      /\ (sWriteVal \o (Held \o Unwritten))' \in Numbers
      /\ Pending' = (InQueue \o (sWriteVal \o (Held \o Unwritten)))'
  <2>1. PiecesOK' BY Pieces, PTL
  <2>2. QED BY <2>1 DEF PiecesOK, Numbers
<1>4. InTurn(InQueue) /\ InTurn(sWriteVal) /\ InTurn(sWriteVal \o (Held \o Unwritten))
  BY PiecesInTurn
<1>5. LeftOf(sWriteVal, sWriteVal) /\ LeftOf(InQueue, InQueue) BY <1>4, LeftAll
<1>6. LeftOf(sWriteVal \o (Held \o Unwritten), sWriteVal \o (Held \o Unwritten)')
  BY <1>2, <1>3, <1>4, <1>5, LeftOfBoth
<1>7. QED BY <1>1, <1>2, <1>3, <1>5, <1>6, LeftOfBoth

\* A message that is made comes behind all others.
LEMMA Puts ==
    ASSUME Aligned, Typed', NEW p \in Producer, Enque(p)
    PROVE  Pending' = Append(Pending, made + 1)
<1>1. /\ made' = made + 1 /\ deqMsg' = Append(deqMsg, made + 1)
      /\ UNCHANGED <<writer, sWriteVal, oMsg, queue>>
  BY Zenon DEF Enque, locals
<1>2. Typed /\ PiecesOK BY Pieces DEF Aligned
<1>3. made \in Nat /\ deqMsg \in MsgSeq /\ MessagesOK /\ Turns BY <1>2, Lengths DEF Typed
<1>4. UNCHANGED InQueue BY <1>1 DEF InQueue
<1>5. ASSUME writer = "send" PROVE oMsg # made + 1
  BY <1>3, <1>5 DEF MessagesOK
<1>6. writer = "send" => (oMsg \in ToSet(deqMsg') <=> oMsg \in ToSet(deqMsg))
  <2>1. deqMsg' = deqMsg \o <<made + 1>> BY <1>1, <1>2, <1>3, AppendIsConcat DEF PiecesOK, Numbers
  <2>2. ToSet(deqMsg') = ToSet(deqMsg) \cup {made + 1}
    BY <2>1, <1>2, <1>3, OneElement, Joined DEF PiecesOK
  <2>3. QED BY <1>5, <2>2
<1>7. UNCHANGED Held BY <1>1, <1>6 DEF Held
<1>8. Unwritten' = Append(Unwritten, made + 1)
  <2>1. CASE writer = "pop"
    <3>1. deqMsg # <<>> BY <2>1, <1>3 DEF Turns
    <3>2. Tail(Append(deqMsg, made + 1)) = Append(Tail(deqMsg), made + 1)
      BY <3>1, <1>2, HeadTailAppend DEF PiecesOK, Numbers
    <3>3. QED BY <2>1, <3>2, <1>1 DEF Unwritten
  <2>2. CASE writer # "pop" BY <2>2, <1>1 DEF Unwritten
  <2>3. QED BY <2>1, <2>2
<1> DEFINE q == InQueue \o sWriteVal \o Held
<1>9. q \in Numbers BY <1>2, Joined DEF PiecesOK
<1>10. Pending = q \o Unwritten /\ Pending' = q \o Append(Unwritten, made + 1)
  BY <1>1, <1>4, <1>7, <1>8 DEF Pending
<1> HIDE DEF q
<1>11. made + 1 \in Nat /\ Unwritten \in Numbers /\ Pending \in Numbers
  BY <1>2, <1>3 DEF PiecesOK
<1>12. <<made + 1>> \in Numbers BY <1>11, OneElement
<1>13. ASSUME NEW r \in Numbers PROVE Append(r, made + 1) = r \o <<made + 1>>
  BY <1>11, <1>13, AppendIsConcat DEF Numbers
<1>14. ASSUME NEW r \in Numbers PROVE (q \o r) \o <<made + 1>> = q \o (r \o <<made + 1>>)
  BY <1>9, <1>12, <1>14, Associative
<1>15. (q \o Unwritten) \o <<made + 1>> = q \o (Unwritten \o <<made + 1>>)
  BY <1>11, <1>14
<1>16. Append(Pending, made + 1) = Pending \o <<made + 1>> BY <1>11, <1>13
<1>17. Append(Unwritten, made + 1) = Unwritten \o <<made + 1>> BY <1>11, <1>13
<1>18. QED BY <1>10, <1>15, <1>16, <1>17

\* What is on the deque is in turn.
LEMMA DequeInTurn ==
    ASSUME Typed
    PROVE  InTurn(deqMsg) /\ InTurn(Unwritten)
<1>1. made \in Nat /\ Len(deqMsg) \in Nat /\ Left \in Nat BY Lengths
<1>2. \A i \in 1 .. Len(deqMsg) : deqMsg[i] = made - Len(deqMsg) + i BY DEF Typed, Newest
<1>3. Len(Unwritten) = Left /\ \A i \in 1 .. Left : Unwritten[i] = made - Left + i BY Contents
<1>4. \A i, j \in 1 .. Len(deqMsg) : i < j => deqMsg[i] < deqMsg[j] BY <1>1, <1>2
<1>5. \A i, j \in 1 .. Len(Unwritten) : i < j => Unwritten[i] < Unwritten[j] BY <1>1, <1>3
<1>6. QED BY <1>4, <1>5, TurnDef

\* What is left of the deque when messages are taken off its front.
LEMMA LeftOfDeque ==
    ASSUME Typed, Typed', NEW n, TakenOff(n)
    PROVE  LeftOf(deqMsg, deqMsg')
<1>1. n \in Nat /\ n <= Len(deqMsg) /\ Len(deqMsg') = Len(deqMsg) - n
      /\ \A i \in 1 .. Len(deqMsg) - n : deqMsg'[i] = deqMsg[i + n]
  BY Lengths DEF TakenOff
<1>2. deqMsg \in Numbers BY Pieces DEF PiecesOK
<1>3. PiecesOK' BY Pieces, PTL
<1>4. deqMsg' \in Numbers BY <1>3 DEF PiecesOK, Numbers
<1>5. InTurn(deqMsg) BY DequeInTurn
<1>6. QED BY <1>1, <1>2, <1>4, <1>5, LeftBehind

\* A state in which nothing is held and nothing popped.
LEMMA HoldsNone == Typed => (writer \notin {"send", "pop"} => Held \o Unwritten = deqMsg)
<1> SUFFICES ASSUME Typed, writer \notin {"send", "pop"} PROVE Held \o Unwritten = deqMsg
  OBVIOUS
<1>1. Held = <<>> /\ Unwritten = deqMsg BY DEF Held, Unwritten
<1>2. deqMsg \in Numbers BY Pieces DEF PiecesOK
<1>3. QED BY <1>1, <1>2, ConcatEmptySeq DEF Numbers

-----------------------------------------------------------------------------
(* What each step leaves of the messages on their way.                     *)

\* What is behind the queue.
Rest == sWriteVal \o (Held \o Unwritten)

LEMMA Apart ==
    Typed => InQueue \in Numbers /\ Rest \in Numbers /\ Pending = InQueue \o Rest
BY Pieces DEF PiecesOK, Rest

\* Something of the queue is left, and something of what is behind it.
LEMMA Loses ==
    ASSUME Typed, Typed', InTurn(Pending), LeftOf(InQueue, InQueue'), LeftOf(Rest, Rest')
    PROVE  LeftOf(Pending, Pending')
<1>1. InQueue \in Numbers /\ Rest \in Numbers /\ Pending = InQueue \o Rest BY Apart
<1>2. InQueue' \in Numbers /\ Rest' \in Numbers /\ Pending' = InQueue' \o Rest'
  <2>1. (InQueue \in Numbers /\ Rest \in Numbers /\ Pending = InQueue \o Rest)' BY Apart, PTL
  <2>2. QED BY <2>1 DEF Numbers
<1>3. QED BY <1>1, <1>2, LeftOfBoth

\* Nothing is lost that nobody touches.
LEMMA Unmoved ==
    ASSUME Typed, InTurn(Pending), UNCHANGED <<queue, sWriteVal, Held, Unwritten>>
    PROVE  LeftOf(Pending, Pending')
<1>1. UNCHANGED InQueue BY DEF InQueue
<1>2. UNCHANGED Pending BY <1>1 DEF Pending
<1>3. QED BY <1>2, LeftAll

\* The front goes that was written, or given up: it was not counted any more.
LEMMA LosesPop ==
    ASSUME Typed, InTurn(Pending), Pop
    PROVE  LeftOf(Pending, Pending')
<1>1. /\ writer = "pop" /\ writer' = "loop" /\ deqMsg' = Tail(deqMsg)
      /\ UNCHANGED <<queue, sWriteVal>>
  BY DEF Pop, locals
<1>2. UNCHANGED <<Held, Unwritten>> BY <1>1 DEF Held, Unwritten
<1>3. QED BY <1>1, <1>2, Unmoved

\* The writer's thread ends and what is on the deque with it.
LEMMA LosesEnd ==
    ASSUME Typed, Typed', InTurn(Pending), WriterEnd
    PROVE  LeftOf(Pending, Pending')
<1>1. /\ writer' = "ended" /\ deqMsg' = <<>>
      /\ UNCHANGED <<queue, sWriteVal>>
  BY DEF WriterEnd, locals
<1>2. (writer \notin {"send", "pop"} => Held \o Unwritten = deqMsg)' BY HoldsNone, PTL
<1>3. (Held \o Unwritten)' = <<>> BY <1>1, <1>2
<1>4. QED BY <1>1, <1>3, LeftNone, LosesBehind

\* What an overflow takes off the deque is lost, except for what the writer holds.
LEMMA LosesFront ==
    ASSUME Aligned, Aligned', InTurn(Pending), TakeFront
    PROVE  LeftOf(Pending, Pending')
<1>1. /\ writer = "check" /\ writer' = "send" /\ deqMsg # <<>> /\ oMsg' = Head(deqMsg)
      /\ deqMsg' = IF Overflow THEN Shortened ELSE deqMsg
      /\ UNCHANGED <<queue, sWriteVal>>
  BY DEF TakeFront, Working
<1>2. Typed /\ Typed' /\ MessagesOK /\ ThreadsOK BY DEF Aligned, Typed
<1>3. LeftOf(deqMsg, deqMsg')
  <2>1. PICK n \in Nat : TakenOff(n)
    <3>1. CASE Overflow
      <4>1. TakenOff(config.m_uiBufferPermit \div 5) BY <3>1, <1>1, <1>2, OffByOverflow
      <4>2. QED BY <4>1, <1>2, Permits
    <3>2. CASE ~Overflow BY <3>2, <1>1, <1>2, OffNone
    <3>3. QED BY <3>1, <3>2
  <2>2. QED BY <2>1, <1>2, LeftOfDeque
<1>4. Held \o Unwritten = deqMsg BY <1>1, <1>2, HoldsNone
<1>5. deqMsg \in Numbers /\ Len(deqMsg) >= 1 /\ oMsg' = deqMsg[1]
  <2>1. deqMsg \in Numbers BY <1>2, Pieces DEF PiecesOK
  <2>2. QED BY <2>1, <1>1, EmptySeq DEF Numbers
<1>6. oMsg' \in ToSet(deqMsg) BY <1>5, ElementsOf
<1>7. PiecesOK' BY <1>2, Pieces, PTL
<1>8. deqMsg' \in Numbers /\ oMsg' \in Nat
  BY <1>5, <1>6, <1>7, ElementsOf DEF PiecesOK, Numbers
<1>9. LeftOf(deqMsg, (Held \o Unwritten)')
  <2>1. CASE oMsg' \in ToSet(deqMsg')
    <3>1. Held' = <<>> /\ Unwritten' = deqMsg' BY <2>1, <1>1 DEF Held, Unwritten
    <3>2. (Held \o Unwritten)' = deqMsg' BY <3>1, <1>8, ConcatEmptySeq DEF Numbers
    <3>3. QED BY <3>2, <1>3
  <2>2. CASE oMsg' \notin ToSet(deqMsg')
    <3>1. Held' = <<oMsg'>> /\ Unwritten' = deqMsg' BY <2>2, <1>1 DEF Held, Unwritten
    <3>2. <<oMsg'>> \in Numbers /\ ToSet(<<oMsg'>>) = {oMsg'} /\ InTurn(<<oMsg'>>)
      BY <1>8, OneElement
    <3>3. ToSet(deqMsg') \subseteq ToSet(deqMsg) /\ InTurn(deqMsg') BY <1>3, LeftDef
    <3>4. ASSUME NEW x \in ToSet(deqMsg') PROVE oMsg' < x
      <4>1. PICK i \in 1 .. Len(deqMsg') : deqMsg'[i] = x BY <1>8, ElementsOf
      <4>2. oMsg' <= deqMsg'[1] BY <1>1 DEF Aligned
      <4>3. i = 1 \/ deqMsg'[1] < deqMsg'[i] BY <4>1, <3>3, TurnDef, <1>8, ElementsOf
      <4>4. deqMsg'[1] \in Nat /\ x \in Nat
        BY <4>1, <1>8, ElementsOf DEF Numbers
      <4>5. oMsg' # x BY <2>2
      <4>6. QED BY <4>1, <4>2, <4>3, <4>4, <4>5, <1>8
    <3>5. InTurn(<<oMsg'>> \o deqMsg')
          /\ ToSet(<<oMsg'>> \o deqMsg') = {oMsg'} \cup ToSet(deqMsg')
      BY <3>2, <3>3, <3>4, <1>8, Joined
    <3>6. QED BY <3>1, <3>3, <3>5, <1>6, LeftDef
  <2>3. QED BY <2>1, <2>2
<1>10. QED BY <1>1, <1>2, <1>4, <1>9, LosesBehind

LEMMA CutInTwo ==
    ASSUME NEW s \in Numbers, NEW k \in 1 .. Len(s)
    PROVE  s = SubSeq(s, 1, k) \o SubSeq(s, k + 1, Len(s))
<1>1. Len(s) \in Nat BY ElementsOf
<1>2. 1 \in 1 .. Len(s) + 1 /\ k \in 1 - 1 .. Len(s) /\ Len(s) \in k .. Len(s) BY <1>1
<1>3. SubSeq(s, 1, k) \o SubSeq(s, k + 1, Len(s)) = SubSeq(s, 1, Len(s))
  BY <1>2, ConcatAdjacentSubSeq DEF Numbers
<1>4. QED BY <1>3, SubSeqFull DEF Numbers

\* The next messages of the deque go into the string.
LEMMA LosesBatch ==
    ASSUME Typed, Typed', InTurn(Pending), TakeBatch
    PROVE  LeftOf(Pending, Pending')
<1>1. /\ writer = "check" /\ writer' = "write" /\ deqMsg # <<>>
      /\ UNCHANGED queue
  BY DEF TakeBatch, Working
<1>2. Held \o Unwritten = deqMsg BY <1>1, HoldsNone
<1>3. (Held \o Unwritten)' = deqMsg'
  <2>1. (writer \notin {"send", "pop"} => Held \o Unwritten = deqMsg)' BY HoldsNone, PTL
  <2>2. QED BY <2>1, <1>1
<1>4. CASE sWriteVal # <<>>
  <2>1. UNCHANGED <<deqMsg, sWriteVal>> BY <1>4 DEF TakeBatch
  <2>2. UNCHANGED <<Held, Unwritten>> BY <1>1, <2>1 DEF Held, Unwritten
  <2>3. QED BY <1>1, <2>1, <2>2, Unmoved
<1>5. CASE sWriteVal = <<>> /\ Overflow
  <2>1. deqMsg' = Shortened /\ UNCHANGED sWriteVal BY <1>5 DEF TakeBatch
  <2>2. MessagesOK /\ ThreadsOK BY DEF Typed
  <2>3. TakenOff(config.m_uiBufferPermit \div 5) BY <1>1, <1>5, <2>1, <2>2, OffByOverflow
  <2>4. LeftOf(deqMsg, deqMsg') BY <2>3, LeftOfDeque
  <2>5. QED BY <1>1, <1>2, <1>3, <2>1, <2>4, LosesBehind
<1>6. CASE sWriteVal = <<>> /\ ~Overflow
  <2>1. /\ sWriteVal' = SubSeq(deqMsg, 1, Count)
        /\ deqMsg' = SubSeq(deqMsg, Count + 1, Len(deqMsg))
    BY <1>6 DEF TakeBatch, Count
  <2>2. MessagesOK /\ ThreadsOK BY DEF Typed
  <2>3. Count \in 1 .. Len(deqMsg) BY <1>1, <2>2, CountOK
  <2>4. deqMsg \in Numbers /\ Len(deqMsg) \in Nat BY Pieces, Lengths DEF PiecesOK
  <2>5. deqMsg = sWriteVal' \o deqMsg'
    <3>1. PICK s \in Numbers : s = deqMsg BY <2>4
    <3>2. PICK k \in 1 .. Len(s) : k = Count BY <2>3, <3>1
    <3>3. QED BY <2>1, <3>1, <3>2, CutInTwo
  <2>6. Rest = deqMsg BY <1>2, <1>6, <2>4, ConcatEmptySeq DEF Rest, Numbers
  <2>7. Rest' = deqMsg BY <1>3, <2>5 DEF Rest
  <2>8. UNCHANGED InQueue BY <1>1 DEF InQueue
  <2>9. InTurn(InQueue) /\ InTurn(Rest) BY PiecesInTurn DEF Rest
  <2>10. LeftOf(InQueue, InQueue') /\ LeftOf(Rest, Rest')
    BY <2>6, <2>7, <2>8, <2>9, LeftAll
  <2>11. QED BY <2>10, Loses
<1>7. QED BY <1>4, <1>5, <1>6

\* A packet that is written is in the queue as it was.
LEMMA QueueGrows ==
    ASSUME Typed, Typed', UNCHANGED made, NEW p \in MsgSeq, queue' = queue \o Packed(p)
    PROVE  InQueue' = InQueue \o p
<1>1. /\ Len(queue') = Len(queue) + Len(p)
      /\ \A i \in 1 .. Len(queue) : queue'[i] = queue[i]
      /\ \A i \in 1 .. Len(p) : queue'[i + Len(queue)].msg = p[i]
  BY Behind
<1>2. p \in Numbers /\ made \in Nat /\ Len(p) \in Nat /\ Len(queue) \in Nat
  <2>1. made \in Nat /\ 1 .. made \subseteq Nat BY Lengths
  <2>2. QED BY <2>1, Lengths, SeqMonotonic, LenProperties DEF MsgSeq, Numbers
<1>3. /\ InQueue \in Numbers /\ Len(InQueue) = Len(queue)
      /\ \A i \in 1 .. Len(queue) : InQueue[i] = queue[i].msg
  BY Pieces, Contents DEF PiecesOK
<1>4. /\ InQueue' = [i \in 1 .. Len(queue') |-> queue'[i].msg]
  BY DEF InQueue
<1>5. InQueue' \in Numbers
  <2>1. PiecesOK' BY Pieces, PTL
  <2>2. QED BY <2>1 DEF PiecesOK, Numbers
<1>6. PICK q \in Numbers : q = InQueue BY <1>3
<1>7. PICK r \in Numbers : r = InQueue' BY <1>5
<1>8. q \o p \in Numbers /\ Len(q \o p) = Len(q) + Len(p)
      /\ \A i \in 1 .. Len(q) + Len(p) :
           (q \o p)[i] = IF i <= Len(q) THEN q[i] ELSE p[i - Len(q)]
  BY <1>2, ConcatProperties DEF Numbers
<1>9. Len(r) = Len(q \o p) BY <1>1, <1>2, <1>3, <1>4, <1>6, <1>7, <1>8 DEF Numbers
<1>10. ASSUME NEW i \in 1 .. Len(r) PROVE r[i] = (q \o p)[i]
  <2>1. i \in 1 .. Len(queue) + Len(p) /\ Len(q) = Len(queue)
    BY <1>3, <1>6, <1>8, <1>9
  <2>2. r[i] = queue'[i].msg BY <1>1, <1>4, <1>7, <2>1
  <2>3. CASE i <= Len(queue)
    <3>1. i \in 1 .. Len(queue) BY <2>1, <2>3, <1>2
    <3>2. q[i] = queue'[i].msg BY <3>1, <1>1, <1>3, <1>6
    <3>3. QED BY <2>1, <2>2, <2>3, <3>2, <1>8
  <2>4. CASE i > Len(queue)
    <3>1. i - Len(queue) \in 1 .. Len(p) /\ i = (i - Len(queue)) + Len(queue)
      BY <2>1, <2>4, <1>2
    <3>2. queue'[i].msg = p[i - Len(queue)] BY <3>1, <1>1
    <3>3. (q \o p)[i] = p[i - Len(queue)] BY <2>1, <2>4, <1>2, <1>8
    <3>4. QED BY <2>2, <3>2, <3>3
  <2>5. QED BY <2>1, <2>3, <2>4, <1>2
<1>11. r = q \o p BY <1>8, <1>9, <1>10, SeqEqual DEF Numbers
<1>12. QED BY <1>6, <1>7, <1>11

\* The front of the deque, which is what the writer holds unless it still is there.
LEMMA OneWritten ==
    ASSUME Aligned, writer = "send"
    PROVE  /\ <<oMsg>> \in Numbers /\ Tail(deqMsg) \in Numbers
           /\ ToSet(Tail(deqMsg)) \subseteq ToSet(deqMsg) /\ InTurn(Tail(deqMsg))
           /\ ToSet(Held \o Unwritten) = {oMsg} \cup ToSet(deqMsg)
           /\ InTurn(<<oMsg>> \o Tail(deqMsg))
<1>1. Typed /\ PiecesOK /\ Turns /\ MessagesOK BY Pieces DEF Aligned, Typed
<1>2. deqMsg \in Numbers /\ deqMsg # <<>> /\ oMsg \in Nat /\ oMsg <= deqMsg[1]
      /\ InTurn(deqMsg)
  BY <1>1, DequeInTurn, Lengths DEF PiecesOK, Turns, Aligned, MessagesOK
<1>3. Len(deqMsg) \in Nat /\ Len(deqMsg) >= 1 /\ ToSet(deqMsg) \subseteq Nat
      /\ \A x : x \in ToSet(deqMsg) <=> \E i \in 1 .. Len(deqMsg) : deqMsg[i] = x
  BY <1>2, ElementsOf, EmptySeq DEF Numbers
<1>4. /\ Tail(deqMsg) \in Numbers /\ Len(Tail(deqMsg)) = Len(deqMsg) - 1
      /\ \A i \in 1 .. Len(deqMsg) - 1 : Tail(deqMsg)[i] = deqMsg[i + 1]
  BY <1>2, HeadTailProperties DEF Numbers
<1>5. LeftOf(deqMsg, Tail(deqMsg)) BY <1>2, <1>3, <1>4, LeftBehind
<1>6. ToSet(Tail(deqMsg)) \subseteq ToSet(deqMsg) /\ InTurn(Tail(deqMsg)) BY <1>5, LeftDef
<1>7. <<oMsg>> \in Numbers /\ ToSet(<<oMsg>>) = {oMsg} /\ InTurn(<<oMsg>>)
  BY <1>2, OneElement
<1>8. ASSUME NEW x \in ToSet(Tail(deqMsg)) PROVE oMsg < x
  <2>1. PICK i \in 1 .. Len(deqMsg) - 1 : Tail(deqMsg)[i] = x BY <1>4, ElementsOf
  <2>2. deqMsg[1] < deqMsg[i + 1] BY <1>2, <1>3, <2>1, TurnDef
  <2>3. deqMsg[1] \in Nat /\ deqMsg[i + 1] \in Nat BY <1>2, <1>3, <2>1 DEF Numbers
  <2>4. QED BY <1>2, <1>4, <2>1, <2>2, <2>3
<1>9. InTurn(<<oMsg>> \o Tail(deqMsg)) BY <1>4, <1>6, <1>7, <1>8, Joined
<1>10. ToSet(Held \o Unwritten) = {oMsg} \cup ToSet(deqMsg)
  <2>1. Unwritten = deqMsg
    BY DEF Unwritten
  <2>2. ToSet(Held \o Unwritten) = ToSet(Held) \cup ToSet(deqMsg)
    BY <1>1, <2>1, Joined DEF PiecesOK
  <2>3. ToSet(Held) \cup ToSet(deqMsg) = {oMsg} \cup ToSet(deqMsg)
    BY <1>7, NoElements DEF Held
  <2>4. QED BY <2>2, <2>3
<1>11. QED BY <1>4, <1>6, <1>7, <1>9, <1>10

\* The message that is written leaves the deque; the one that is given up is lost.
LEMMA LosesSend ==
    ASSUME SlotReused = FALSE, Aligned, Aligned', InTurn(Pending), Send
    PROVE  LeftOf(Pending, Pending')
<1>1. /\ writer = "send" /\ UNCHANGED <<made, deqMsg, oMsg, sWriteVal>>
  BY DEF Send, locals
<1>2. \/ Written(<<oMsg>>) /\ writer' = "pop"
      \/ NotWritten(<<oMsg>>) /\ writer' = IF GiveUp THEN "pop" ELSE "loop"
  BY DEF Send, Referenced
<1>3. Typed /\ Typed' /\ PiecesOK BY Pieces DEF Aligned
<1>4. sWriteVal = <<>> /\ sWriteVal' = <<>> BY <1>1 DEF Aligned, Way
<1>5. /\ <<oMsg>> \in Numbers /\ Tail(deqMsg) \in Numbers
      /\ ToSet(Tail(deqMsg)) \subseteq ToSet(deqMsg) /\ InTurn(Tail(deqMsg))
      /\ ToSet(Held \o Unwritten) = {oMsg} \cup ToSet(deqMsg)
      /\ InTurn(<<oMsg>> \o Tail(deqMsg))
  BY <1>1, OneWritten
<1>6. InTurn(Held \o Unwritten) /\ InTurn(InQueue) /\ InTurn(deqMsg)
  BY <1>3, PiecesInTurn, DequeInTurn
<1>7. /\ InQueue \in Numbers /\ Held \o Unwritten \in Numbers /\ deqMsg \in Numbers
  BY <1>3 DEF PiecesOK
<1>8. Held' = <<>> BY <1>2 DEF Held
<1>9. (Held \o Unwritten)' = Unwritten'
  <2>1. PiecesOK' BY <1>3, Pieces, PTL
  <2>2. Unwritten' \in Numbers BY <2>1 DEF PiecesOK, Numbers
  <2>3. QED BY <1>8, <2>2, ConcatEmptySeq DEF Numbers
<1>10. CASE Written(<<oMsg>>) /\ writer' = "pop"
  <2>1. Unwritten' = Tail(deqMsg) BY <1>1, <1>10 DEF Unwritten
  <2>2. queue' = queue \o Packed(<<oMsg>>) BY <1>10 DEF Written
  <2>3. <<oMsg>> \in MsgSeq
    <3>1. oMsg \in 1 .. made BY <1>1, <1>3 DEF Typed, MessagesOK, Turns
    <3>2. QED BY <3>1 DEF MsgSeq
  <2>4. InQueue' = InQueue \o <<oMsg>> BY <1>1, <1>3, <2>2, <2>3, QueueGrows
  <2>5. Rest' = Tail(deqMsg) BY <1>4, <1>5, <1>9, <2>1, ConcatEmptySeq DEF Rest, Numbers
  <2>6. Pending' = (InQueue \o <<oMsg>>) \o Tail(deqMsg)
    <3>1. (Pending = InQueue \o Rest)' BY <1>3, Apart, PTL
    <3>2. QED BY <2>4, <2>5, <3>1
  <2>7. Pending' = InQueue \o (<<oMsg>> \o Tail(deqMsg))
    BY <1>5, <1>7, <2>6, Associative
  <2>8. Pending = InQueue \o (Held \o Unwritten)
    <3>1. Pending = InQueue \o Rest BY <1>3, Apart
    <3>2. Rest = Held \o Unwritten BY <1>4, <1>7, ConcatEmptySeq DEF Rest, Numbers
    <3>3. QED BY <3>1, <3>2
  <2>9. <<oMsg>> \o Tail(deqMsg) \in Numbers
        /\ ToSet(<<oMsg>> \o Tail(deqMsg)) = {oMsg} \cup ToSet(Tail(deqMsg))
    <3>1. oMsg \in Nat BY <1>3 DEF Typed, MessagesOK
    <3>2. QED BY <1>5, <3>1, Joined, OneElement
  <2>10. LeftOf(Held \o Unwritten, <<oMsg>> \o Tail(deqMsg)) BY <1>5, <2>9, LeftDef
  <2>11. QED BY <1>6, <1>7, <2>7, <2>8, <2>9, <2>10, LeftAll, LeftOfBoth
<1>11. CASE NotWritten(<<oMsg>>) /\ writer' = IF GiveUp THEN "pop" ELSE "loop"
  <2>1. UNCHANGED queue BY <1>11 DEF NotWritten
  <2>2. Unwritten' \in {deqMsg, Tail(deqMsg)} BY <1>1, <1>11 DEF Unwritten
  <2>3. LeftOf(Held \o Unwritten, Unwritten') BY <1>5, <1>6, <2>2, LeftDef
  <2>4. QED BY <1>1, <1>3, <1>9, <2>1, <2>3, LosesBehind
<1>12. QED BY <1>2, <1>10, <1>11

\* The string is in the queue, or is kept for the next try, or is given up.
LEMMA LosesWriteBatch ==
    ASSUME Typed, Typed', InTurn(Pending), WriteBatch
    PROVE  LeftOf(Pending, Pending')
<1>1. /\ writer = "write" /\ writer' = "loop" /\ UNCHANGED <<made, deqMsg>>
      /\ \/ Written(sWriteVal) /\ sWriteVal' = <<>>
         \/ NotWritten(sWriteVal) /\ sWriteVal' = IF GiveUp THEN <<>> ELSE sWriteVal
  BY DEF WriteBatch
<1>2. Held \o Unwritten = deqMsg BY <1>1, HoldsNone
<1>3. (Held \o Unwritten)' = deqMsg
  <2>1. (writer \notin {"send", "pop"} => Held \o Unwritten = deqMsg)' BY HoldsNone, PTL
  <2>2. QED BY <2>1, <1>1
<1>4. /\ InQueue \in Numbers /\ sWriteVal \in Numbers /\ deqMsg \in Numbers
      /\ Pending = InQueue \o (sWriteVal \o deqMsg)
  BY <1>2, Pieces DEF PiecesOK
<1>5. InTurn(InQueue) /\ InTurn(deqMsg) /\ InTurn(sWriteVal) /\ InTurn(sWriteVal \o deqMsg)
  BY <1>2, PiecesInTurn, DequeInTurn
<1>6. CASE Written(sWriteVal) /\ sWriteVal' = <<>>
  <2>1. queue' = queue \o Packed(sWriteVal) BY <1>6 DEF Written
  <2>2. InQueue' = InQueue \o sWriteVal BY <1>1, <2>1, Lengths, QueueGrows
  <2>3. Rest' = deqMsg BY <1>3, <1>4, <1>6, ConcatEmptySeq DEF Rest, Numbers
  <2>4. (Pending = InQueue \o Rest)' BY Apart, PTL
  <2>5. Pending' = (InQueue \o sWriteVal) \o deqMsg BY <2>2, <2>3, <2>4
  <2>6. Pending' = Pending BY <1>4, <2>5, Associative
  <2>7. QED BY <2>6, LeftAll
<1>7. CASE NotWritten(sWriteVal) /\ sWriteVal' = IF GiveUp THEN <<>> ELSE sWriteVal
  <2>1. UNCHANGED queue BY <1>7 DEF NotWritten
  <2>2. UNCHANGED InQueue BY <2>1 DEF InQueue
  <2>3. LeftOf(sWriteVal, sWriteVal') /\ sWriteVal' \in Numbers
    BY <1>4, <1>5, <1>7, LeftAll, LeftNone, NoElements
  <2>4. LeftOf(sWriteVal \o deqMsg, sWriteVal' \o deqMsg)
    BY <1>4, <1>5, <2>3, LeftAll, LeftOfBoth
  <2>5. LeftOf(Rest, Rest') BY <1>2, <1>3, <2>4 DEF Rest
  <2>6. LeftOf(InQueue, InQueue') BY <1>5, <2>2, LeftAll
  <2>7. QED BY <2>5, <2>6, Loses
<1>8. QED BY <1>1, <1>6, <1>7

\* With the last one that has it open the queue goes, and what is in it.
LEMMA LosesClose ==
    ASSUME Typed, Typed', InTurn(Pending), NEW s \in Side, StopClose(s)
    PROVE  LeftOf(Pending, Pending')
<1>1. /\ UNCHANGED <<deqMsg, writer, oMsg, sWriteVal>>
      /\ queue' = IF opened \subseteq {s} THEN <<>> ELSE queue
  BY DEF StopClose, locals
<1>2. UNCHANGED Rest BY <1>1 DEF Rest, Held, Unwritten
<1>3. InTurn(InQueue) /\ InTurn(Rest) BY PiecesInTurn DEF Rest
<1>4. LeftOf(Rest, Rest') BY <1>2, <1>3, LeftAll
<1>5. CASE queue' = queue
  <2>1. UNCHANGED InQueue BY <1>5 DEF InQueue
  <2>2. QED BY <1>3, <1>4, <2>1, LeftAll, Loses
<1>6. CASE queue' = <<>>
  <2>1. InQueue' = <<>> BY <1>6 DEF InQueue
  <2>2. QED BY <1>4, <2>1, LeftNone, Loses
<1>7. QED BY <1>1, <1>5, <1>6

\* The front of two sequences is that of the first, and the rest is that of the first
\* with the second.
LEMMA HeadTailOfJoined ==
    ASSUME NEW a \in Numbers, NEW b \in Numbers, a # <<>>
    PROVE  a \o b # <<>> /\ Head(a \o b) = Head(a) /\ Tail(a \o b) = Tail(a) \o b
<1>1. Len(a) \in Nat /\ Len(b) \in Nat /\ Len(a) >= 1 BY ElementsOf, EmptySeq DEF Numbers
<1>2. /\ a \o b \in Numbers /\ Len(a \o b) = Len(a) + Len(b)
      /\ \A i \in 1 .. Len(a) + Len(b) :
           (a \o b)[i] = IF i <= Len(a) THEN a[i] ELSE b[i - Len(a)]
  BY ConcatProperties DEF Numbers
<1>3. PICK c \in Numbers : c = a \o b BY <1>2
<1>4. c # <<>> BY <1>1, <1>2, <1>3, EmptySeq DEF Numbers
<1>5. /\ Tail(c) \in Numbers /\ Len(Tail(c)) = Len(c) - 1
      /\ \A i \in 1 .. Len(c) - 1 : Tail(c)[i] = c[i + 1]
      /\ Head(c) = c[1]
  BY <1>4, HeadTailProperties DEF Numbers
<1>6. /\ Tail(a) \in Numbers /\ Len(Tail(a)) = Len(a) - 1
      /\ \A i \in 1 .. Len(a) - 1 : Tail(a)[i] = a[i + 1]
      /\ Head(a) = a[1]
  BY HeadTailProperties DEF Numbers
<1>7. PICK t \in Numbers : t = Tail(a) BY <1>6
<1>8. /\ t \o b \in Numbers /\ Len(t \o b) = Len(t) + Len(b)
      /\ \A i \in 1 .. Len(t) + Len(b) :
           (t \o b)[i] = IF i <= Len(t) THEN t[i] ELSE b[i - Len(t)]
  BY ConcatProperties DEF Numbers
<1>9. Len(Tail(c)) = Len(t \o b) BY <1>1, <1>2, <1>3, <1>5, <1>6, <1>7, <1>8
<1>10. ASSUME NEW i \in 1 .. Len(Tail(c)) PROVE Tail(c)[i] = (t \o b)[i]
  <2>1. i \in 1 .. Len(t) + Len(b) /\ i + 1 \in 1 .. Len(a) + Len(b)
        /\ Len(t) = Len(a) - 1 /\ i \in 1 .. Len(c) - 1
    BY <1>1, <1>2, <1>3, <1>5, <1>6, <1>7
  <2>2. Tail(c)[i] = IF i + 1 <= Len(a) THEN a[i + 1] ELSE b[(i + 1) - Len(a)]
    BY <1>2, <1>3, <1>5, <2>1
  <2>3. (t \o b)[i] = IF i <= Len(t) THEN t[i] ELSE b[i - Len(t)] BY <1>8, <2>1
  <2>4. i <= Len(t) => t[i] = a[i + 1] BY <1>6, <1>7, <2>1
  <2>5. i - Len(t) = (i + 1) - Len(a) /\ (i <= Len(t) <=> i + 1 <= Len(a)) BY <1>1, <2>1
  <2>6. QED BY <2>2, <2>3, <2>4, <2>5
<1>11. Tail(c) = t \o b BY <1>5, <1>8, <1>9, <1>10, SeqEqual DEF Numbers
<1>12. Head(c) = Head(a) BY <1>1, <1>2, <1>3, <1>5, <1>6
<1>13. QED BY <1>3, <1>4, <1>7, <1>11, <1>12

\* What is received is the first of the messages on their way; the others of its
\* packet are lost.
LEMMA Gets ==
    ASSUME Typed, Typed', InTurn(Pending), Recv
    PROVE  /\ Pending # <<>> /\ received' = Append(received, Head(Pending))
           /\ LeftOf(Tail(Pending), Pending')
<1>1. PICK n \in 1 .. Len(queue) : queue' = SubSeq(queue, n + 1, Len(queue)) BY DEF Recv
<1>2. /\ received' = Append(received, Head(queue).msg)
      /\ UNCHANGED <<deqMsg, writer, oMsg, sWriteVal>>
  BY DEF Recv, locals
<1>3. /\ Len(queue) \in Nat /\ queue \in Seq(Slot) /\ Len(InQueue) = Len(queue)
      /\ \A i \in 1 .. Len(queue) : InQueue[i] = queue[i].msg
  BY Lengths, Contents
<1>4. n \in Nat /\ n >= 1 /\ n <= Len(queue) /\ n \in 0 .. Len(queue) BY <1>1, <1>3
<1>5. /\ Len(queue') = Len(queue) - n
      /\ \A i \in 1 .. Len(queue) - n : queue'[i] = queue[i + n]
  BY <1>1, <1>3, <1>4, CutRest
<1>6. InQueue \in Numbers /\ Rest \in Numbers /\ Pending = InQueue \o Rest BY Apart
<1>7. InQueue' \in Numbers /\ Pending' = InQueue' \o Rest
  <2>1. (InQueue \in Numbers /\ Pending = InQueue \o Rest)' BY Apart, PTL
  <2>2. UNCHANGED Rest BY <1>2 DEF Rest, Held, Unwritten
  <2>3. QED BY <2>1, <2>2 DEF Numbers
<1>8. PICK q \in Numbers : q = InQueue BY <1>6
<1>9. PICK r \in Numbers : r = Rest BY <1>6
<1>10. q # <<>> /\ Len(q) = Len(queue) BY <1>3, <1>4, <1>8, EmptySeq DEF Numbers
<1>11. /\ Tail(q) \in Numbers /\ Len(Tail(q)) = Len(q) - 1
       /\ \A i \in 1 .. Len(q) - 1 : Tail(q)[i] = q[i + 1]
       /\ Head(q) = q[1]
  BY <1>10, HeadTailProperties DEF Numbers
<1>12. q \o r # <<>> /\ Head(q \o r) = Head(q) /\ Tail(q \o r) = Tail(q) \o r
  BY <1>10, HeadTailOfJoined
<1>13. Head(queue).msg = Head(q)
  <2>1. Head(queue) = queue[1] BY <1>3, <1>4
  <2>2. q[1] = queue[1].msg BY <1>3, <1>4, <1>8
  <2>3. QED BY <1>11, <2>1, <2>2
<1>14. InTurn(q) /\ InTurn(r) /\ InTurn(q \o r) BY <1>6, <1>8, <1>9, PiecesInTurn DEF Rest
<1>15. LeftOf(q, Tail(q))
  <2>1. 1 \in Nat /\ 1 <= Len(q) BY <1>3, <1>4, <1>10
  <2>2. QED BY <2>1, <1>11, <1>14, LeftBehind
<1>16. InTurn(Tail(q) \o r)
  <2>1. ToSet(Tail(q)) \subseteq ToSet(q) /\ InTurn(Tail(q)) BY <1>15, LeftDef
  <2>2. \A x \in ToSet(q), y \in ToSet(r) : x < y BY <1>14, Joined
  <2>3. QED BY <1>11, <1>14, <2>1, <2>2, Joined
<1>17. LeftOf(Tail(q), InQueue')
  <2>1. /\ Len(InQueue') = Len(queue) - n
        /\ \A i \in 1 .. Len(queue) - n : InQueue'[i] = queue'[i].msg
    <3>1. InQueue' = [i \in 1 .. Len(queue') |-> queue'[i].msg] BY DEF InQueue
    <3>2. Len(queue) - n \in Nat BY <1>4
    <3>3. QED BY <3>1, <3>2, <1>5, <1>7 DEF Numbers
  <2>2. ASSUME NEW i \in 1 .. Len(q) - n PROVE InQueue'[i] = Tail(q)[i + (n - 1)]
    <3>1. i \in 1 .. Len(queue) - n /\ i + n \in 1 .. Len(queue)
          /\ i + (n - 1) \in 1 .. Len(q) - 1 /\ (i + (n - 1)) + 1 = i + n
      BY <1>3, <1>4, <1>10
    <3>2. InQueue'[i] = queue[i + n].msg BY <2>1, <3>1, <1>5
    <3>3. Tail(q)[i + (n - 1)] = q[i + n] BY <3>1, <1>11
    <3>4. q[i + n] = queue[i + n].msg BY <3>1, <1>3, <1>8
    <3>5. QED BY <3>2, <3>3, <3>4
  <2>3. n - 1 \in Nat /\ Len(Tail(q)) - (n - 1) = Len(q) - n /\ n - 1 <= Len(Tail(q))
        /\ Len(InQueue') = Len(Tail(q)) - (n - 1)
    BY <1>3, <1>4, <1>10, <1>11, <2>1
  <2>4. \A i \in 1 .. Len(Tail(q)) - (n - 1) : InQueue'[i] = Tail(q)[i + (n - 1)]
    BY <2>2, <2>3
  <2>5. InTurn(Tail(q)) BY <1>15, LeftDef
  <2>6. QED BY <1>7, <1>11, <2>3, <2>4, <2>5, LeftBehind
<1>18. LeftOf(Tail(q) \o r, InQueue' \o r)
  BY <1>7, <1>11, <1>14, <1>16, <1>17, LeftAll, LeftOfBoth
<1>19. QED BY <1>2, <1>6, <1>7, <1>8, <1>9, <1>12, <1>13, <1>18

-----------------------------------------------------------------------------
(* XQueueIo implements LossyQueue.                                         *)

\* All messages that are on their way have been made.
LEMMA PendingMade ==
    ASSUME Typed
    PROVE  ToSet(Pending) \subseteq 1 .. made
<1>1. PiecesOK BY Pieces
<1>2. ASSUME NEW s \in MsgSeq PROVE ToSet(s) \subseteq 1 .. made
  <2>1. s \in Seq(1 .. made) BY DEF MsgSeq
  <2>2. ASSUME NEW M, NEW t \in Seq(M) PROVE ToSet(t) \subseteq M
    BY <2>2, LenProperties, ElementOfSeq DEF ToSet
  <2>3. QED BY <2>1, <2>2
<1>3. ToSet(InQueue) \cup ToSet(sWriteVal) \cup ToSet(Unwritten) \subseteq 1 .. made
  BY <1>2, Contents, Lengths
<1>4. ToSet(Held) \subseteq 1 .. made
  <2>1. CASE Held = <<>> BY <2>1, NoElements
  <2>2. CASE Held = <<oMsg>> /\ writer = "send"
    <3>1. oMsg \in 1 .. made /\ oMsg \in Nat
      BY <2>2, Lengths DEF Typed, MessagesOK, Turns
    <3>2. QED BY <2>2, <3>1, OneElement
  <2>3. QED BY <2>1, <2>2 DEF Held
<1>5. ToSet(Held \o Unwritten) = ToSet(Held) \cup ToSet(Unwritten)
  BY <1>1, Joined DEF PiecesOK
<1>6. ToSet(sWriteVal \o (Held \o Unwritten)) = ToSet(sWriteVal) \cup ToSet(Held \o Unwritten)
  BY <1>1, Joined DEF PiecesOK
<1>7. ToSet(Pending) = ToSet(InQueue) \cup ToSet(sWriteVal \o (Held \o Unwritten))
  BY <1>1, Joined DEF PiecesOK
<1>8. QED BY <1>3, <1>4, <1>5, <1>6, <1>7

\* With one message more they still are in turn.
LEMMA PutsInTurn ==
    ASSUME Typed, InTurn(Pending)
    PROVE  InTurn(Append(Pending, made + 1))
<1>1. PICK q \in Numbers : q = Pending BY Pieces DEF PiecesOK
<1>2. made + 1 \in Nat /\ made \in Nat BY Lengths
<1>3. Append(q, made + 1) = q \o <<made + 1>> BY <1>2, AppendIsConcat DEF Numbers
<1>4. <<made + 1>> \in Numbers /\ ToSet(<<made + 1>>) = {made + 1} /\ InTurn(<<made + 1>>)
  BY <1>2, OneElement
<1>5. ASSUME NEW x \in ToSet(q) PROVE x <= made
  <2>1. ToSet(Pending) \subseteq 1 .. made BY PendingMade
  <2>2. QED BY <1>1, <1>2, <2>1
<1>6. ToSet(q) \subseteq Nat BY ElementsOf
<1>7. \A x \in ToSet(q), y \in ToSet(<<made + 1>>) : x < y BY <1>2, <1>4, <1>5, <1>6
<1>8. InTurn(q) BY <1>1
<1>9. InTurn(q \o <<made + 1>>) BY <1>4, <1>7, <1>8, Joined
<1>10. QED BY <1>1, <1>3, <1>9

\* The writer's front and the messages on their way: the inductive invariant.
Orderly == Aligned /\ InTurn(Pending)

LEMMA OrderlyInit == Init => Orderly /\ Lossy!Init
<1> SUFFICES ASSUME Init PROVE Orderly /\ Lossy!Init
  OBVIOUS
<1>1. made = 0 /\ received = <<>> /\ InQueue = <<>> /\ sWriteVal = <<>> /\ Held = <<>>
      /\ Unwritten = <<>>
  BY DEF Init, InQueue, Held, Unwritten
<1>2. Pending = <<>> BY <1>1 DEF Pending
<1>3. QED BY <1>1, <1>2, AlignedInit, NoElements DEF Orderly, Pending, Lossy!Init

\* One step, and what it is to the messages on their way.
LEMMA OrderlyNext ==
    ASSUME SlotReused = FALSE, Orderly, Aligned', Next
    PROVE  \/ /\ made' = made + 1 /\ received' = received
              /\ Pending' = Append(Pending, made + 1)
           \/ LeftOf(Pending, Pending') /\ UNCHANGED <<made, received>>
           \/ /\ Pending # <<>> /\ received' = Append(received, Head(Pending))
              /\ LeftOf(Tail(Pending), Pending') /\ UNCHANGED made
<1>1. Typed /\ Typed' /\ InTurn(Pending) /\ Aligned BY DEF Orderly, Aligned
<1>2. ASSUME NEW p \in Producer, Enque(p)
      PROVE  made' = made + 1 /\ received' = received /\ Pending' = Append(Pending, made + 1)
  <2>1. made' = made + 1 /\ received' = received BY <1>2 DEF Enque
  <2>2. QED BY <1>1, <1>2, <2>1, Puts
<1>3. ASSUME NEW p \in Producer, EnqueSignal(p)
      PROVE  LeftOf(Pending, Pending') /\ UNCHANGED <<made, received>>
  <2>1. UNCHANGED <<made, received, queue, sWriteVal, Held, Unwritten>>
    BY <1>3 DEF EnqueSignal, Signal, locals, Held, Unwritten
  <2>2. QED BY <1>1, <2>1, Unmoved
<1>4. CASE WriterThread
  <2>1. UNCHANGED <<made, received>>
    BY <1>4 DEF WriterThread, WriterOpen, WriterLoop, WriterWait, WriterEnd, TakeFront,
                TakeBatch, Send, Pop, WriteBatch
  <2>2. CASE WriterEnd BY <1>1, <2>1, <2>2, LosesEnd
  <2>3. CASE TakeFront BY <1>1, <2>1, <2>3, LosesFront
  <2>4. CASE TakeBatch BY <1>1, <2>1, <2>4, LosesBatch
  <2>5. CASE Send BY <1>1, <2>1, <2>5, LosesSend
  <2>6. CASE Pop BY <1>1, <2>1, <2>6, LosesPop
  <2>7. CASE WriteBatch BY <1>1, <2>1, <2>7, LosesWriteBatch
  <2>8. CASE WriterOpen \/ WriterLoop \/ WriterWait
    <3>1. UNCHANGED <<queue, sWriteVal, Held, Unwritten>>
      BY <2>8 DEF WriterOpen, WriterLoop, WriterWait, locals, Held, Unwritten
    <3>2. QED BY <1>1, <2>1, <3>1, Unmoved
  <2>9. QED BY <1>4, <2>2, <2>3, <2>4, <2>5, <2>6, <2>7, <2>8 DEF WriterThread
<1>5. CASE ReaderOpen \/ ReaderEnd
  <2>1. UNCHANGED <<made, received, queue, sWriteVal, Held, Unwritten>>
    BY <1>5 DEF ReaderOpen, ReaderEnd, locals, Held, Unwritten
  <2>2. QED BY <1>1, <2>1, Unmoved
<1>6. CASE Recv
  <2>1. UNCHANGED made BY <1>6 DEF Recv
  <2>2. QED BY <1>1, <1>6, <2>1, Gets
<1>7. ASSUME NEW s \in Side, StopBegin(s) \/ Stopping(s)
      PROVE  LeftOf(Pending, Pending') /\ UNCHANGED <<made, received>>
  <2>1. CASE StopBegin(s)
    <3>1. UNCHANGED <<made, received, queue, sWriteVal, Held, Unwritten>>
      BY <2>1 DEF StopBegin, locals, Held, Unwritten
    <3>2. QED BY <1>1, <3>1, Unmoved
  <2>2. CASE StopSignal
    <3>1. UNCHANGED <<made, received, queue, sWriteVal, Held, Unwritten>>
      BY <2>2 DEF StopSignal, Signal, locals, Held, Unwritten
    <3>2. QED BY <1>1, <3>1, Unmoved
  <2>3. CASE StopClose(s)
    <3>1. UNCHANGED <<made, received>> BY <2>3 DEF StopClose
    <3>2. QED BY <1>1, <2>3, <3>1, LosesClose
  <2>4. QED BY <1>7, <2>1, <2>2, <2>3 DEF Stopping
<1>8. QED BY <1>2, <1>3, <1>4, <1>5, <1>6, <1>7 DEF Next, ReaderThread

LEMMA OrderlyStep ==
    ASSUME SlotReused = FALSE
    PROVE  Orderly /\ [Next]_vars => Orderly' /\ [Lossy!Next]_Lossy!vars
<1> SUFFICES ASSUME Orderly, [Next]_vars PROVE Orderly' /\ [Lossy!Next]_Lossy!vars
  OBVIOUS
<1>1. Aligned' BY AlignedStep DEF Orderly
<1>2. CASE Next
  <2>1. Typed /\ InTurn(Pending) BY DEF Orderly, Aligned
  <2>2. CASE /\ made' = made + 1 /\ received' = received
             /\ Pending' = Append(Pending, made + 1)
    <3>1. InTurn(Pending') BY <2>1, <2>2, PutsInTurn
    <3>2. Lossy!Put BY <2>2 DEF Lossy!Put, Pending
    <3>3. QED BY <1>1, <3>1, <3>2 DEF Orderly, InTurn, Lossy!InTurn, Lossy!Next
  <2>3. CASE LeftOf(Pending, Pending') /\ UNCHANGED <<made, received>>
    <3>1. InTurn(Pending') BY <2>3, LeftDef
    <3>2. Lossy!Lose BY <2>3 DEF Lossy!Lose, LeftOf, Pending
    <3>3. QED BY <1>1, <3>1, <3>2 DEF Orderly, InTurn, Lossy!InTurn, Lossy!Next
  <2>4. CASE /\ Pending # <<>> /\ received' = Append(received, Head(Pending))
             /\ LeftOf(Tail(Pending), Pending') /\ UNCHANGED made
    <3>1. InTurn(Pending') BY <2>4, LeftDef
    <3>2. Lossy!Get BY <2>4 DEF Lossy!Get, LeftOf, Pending
    <3>3. QED BY <1>1, <3>1, <3>2 DEF Orderly, InTurn, Lossy!InTurn, Lossy!Next
  <2>5. QED BY <1>1, <1>2, <2>2, <2>3, <2>4, OrderlyNext
<1>3. CASE UNCHANGED vars
  <2>1. UNCHANGED <<made, received, queue, sWriteVal, Held, Unwritten, InQueue, Pending>>
    BY <1>3 DEF vars, moving, locals, Held, Unwritten, InQueue, Pending
  <2>2. UNCHANGED Lossy!vars BY <2>1 DEF Lossy!vars
  <2>3. InTurn(Pending') BY <2>1 DEF Orderly
  <2>4. QED BY <1>1, <2>2, <2>3 DEF Orderly, InTurn, Lossy!InTurn
<1>4. QED BY <1>2, <1>3

\* Where no slot of the deque is used again while Send() has a reference to it, each
\* message that Enque() takes is received at most once and in its turn, whatever
\* overflow, timeouts, short packets and Stop() lose of them (Enque(), the loop of
\* CWriter and Recv() of CReader).
THEOREM ImplementsLossy ==
    ASSUME SlotReused = FALSE
    PROVE  Spec => LossySpec
<1>1. Init => Orderly /\ Lossy!Init BY OrderlyInit
<1>2. Orderly /\ [Next]_vars => Orderly' /\ [Lossy!Next]_Lossy!vars BY OrderlyStep
<1>3. QED BY <1>1, <1>2, PTL DEF Spec, LossySpec, Lossy!Spec

=============================================================================
