------------------------------ MODULE XQueueData ------------------------------
(***************************************************************************)
(* The parameters of a CXQueue, the messages its clients send, and how a   *)
(* message is cut into blocks and put together again.                      *)
(***************************************************************************)
EXTENDS Integers, Sequences

CONSTANTS Writers,    \* client threads, the callers of Write()
          Readers,    \* server threads, the callers of Read()
          Timed,      \* the threads that pass a finite dwTimeOut
          QueueSize,  \* m_nQueueSize, the number of data blocks
          BlockSize,  \* m_nBlockSize, bytes in a block with its header
          DataSize,   \* m_nDataSize, bytes of data in a block
          Sizes,      \* Sizes[w]: the nDataSize values w writes
          BufSizes,   \* the *lpcbSize values the servers read with
          MaxMsgs,    \* bound: calls of Write() per writer
          NoMsg       \* not a message

ASSUME QueueAssumption ==
    /\ Writers \cap Readers = {}
    /\ Timed \subseteq Writers \cup Readers
    /\ QueueSize \in Nat \ {0}
    /\ DataSize \in Nat \ {0}
    /\ BlockSize \in Nat /\ DataSize < BlockSize
    /\ Sizes \in [Writers -> SUBSET Nat]
    /\ BufSizes \subseteq Nat
    /\ MaxMsgs \in Nat

Blocks == 0 .. QueueSize - 1

\* What a client sends: who, its how-manieth write, and nDataSize.
Message == [from : Writers, seq : 1 .. MaxMsgs, size : UNION {Sizes[w] : w \in Writers}]

ASSUME NoMsgAssumption == NoMsg \notin Message

Threads == Writers \cup Readers

-----------------------------------------------------------------------------
\* CalculateNoBlocks: the number of blocks that n bytes take.
CalculateNoBlocks(n) ==
    LET full == n \div DataSize
        all  == IF n % DataSize # 0 THEN full + 1 ELSE full
    IN  IF all = 0 THEN 1 ELSE all

NumBlocks(m) == CalculateNoBlocks(m.size)

\* The sizes Write() refuses: XQUEUE_ERROR_PARAMETER and XQUEUE_ERROR_TOO_BIG.
Refused(n) == \/ n = 0
              \/ n >= BlockSize * (QueueSize - 1)
              \/ CalculateNoBlocks(n) > QueueSize

Blank == [of |-> NoMsg, part |-> 0, size |-> 0, cont |-> FALSE]

\* Filled() with the flag set while no byte remains.
FilledFlagLate(m, i) == [of   |-> m, part |-> i,
                         size |-> IF i * DataSize < m.size THEN DataSize
                                                           ELSE m.size - (i - 1) * DataSize,
                         cont |-> i * DataSize <= m.size]

\* The i-th block of message m as Write() fills it: its bytes, its size, and
\* the continuation flag when bytes remain.
Filled(m, i) == [of   |-> m, part |-> i,
                 size |-> IF i * DataSize < m.size THEN DataSize
                                                   ELSE m.size - (i - 1) * DataSize,
                 cont |-> i * DataSize < m.size]

\* The buffer that holds message m and nothing else.
Image(m) == [i \in 1 .. NumBlocks(m) |-> [of |-> m, part |-> i]]

\* Released() for a count of n that releases n + 1, 1 or none.
ReleasedOneMore(sem, n) == IF sem + n + 1 <= QueueSize THEN sem + n + 1 ELSE sem
ReleasedOnce(sem, n) == IF sem + 1 <= QueueSize THEN sem + 1 ELSE sem
ReleasedNone(sem, n) == sem

\* ReleaseSemaphore: refused by the system when it would exceed the maximum.
Released(sem, n) == IF sem + n <= QueueSize THEN sem + n ELSE sem

\* The message that copied parts make up; anything else is no message.
Assembled(parts) ==
    IF parts = <<>> THEN NoMsg
    ELSE IF parts[1].of \in Message /\ parts = Image(parts[1].of) THEN parts[1].of
    ELSE <<"garbled", parts>>
=============================================================================
