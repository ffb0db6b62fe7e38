-------------------------------- MODULE XQueue --------------------------------
(***************************************************************************)
(* CXQueue (src/Src/Framwork/XQueue): a queue of messages in shared memory *)
(* cut into fixed-size blocks.  A block is on the free list, on the used   *)
(* list, or held by the one thread that is filling or emptying it.  Two    *)
(* named mutexes guard the two lists (WriteLock the free one, ReadLock the *)
(* used one) and two semaphores count: m_hWriteSem the free blocks and     *)
(* m_hReadSem the messages.                                                *)
(*                                                                         *)
(* One action is one wait on a semaphore, one critical section of one      *)
(* mutex, one ReleaseSemaphore, or work on blocks the thread owns.  The    *)
(* mutexes themselves are not variables here: no section nests in another  *)
(* and none waits inside, so a section is one step.  Module XQueueLinks    *)
(* spells the sections out, mutexes and links included, and implements     *)
(* this module.  No thread dies inside an operation here.                  *)
(***************************************************************************)
EXTENDS XQueueData, SequencesExt

VARIABLES
    free,      \* the free list, front first
    nFree,     \* FreeDataBlocks
    used,      \* the used list, front first
    nUsed,     \* UsedDataBlocks
    block,     \* block[b]: the part of a message in b, its DataSize, its flag
    writeSem,  \* count of m_hWriteSem
    readSem,   \* count of m_hReadSem
    pc,        \* where each thread is
    chain,     \* chain[t]: the blocks t holds, in the order it linked them
    msg,       \* msg[w]: the message w is writing
    sent,      \* sent[w]: calls of Write() w has made
    buf,       \* buf[r]: the *lpcbSize of r's Read()
    got,       \* got[r]: the parts copied to the buffer of r's last Read()
    owed       \* owed[r]: blocks r freed and has not yet counted in writeSem

vars == <<free, nFree, used, nUsed, block, writeSem, readSem, pc, chain, msg,
          sent, buf, got, owed>>

-----------------------------------------------------------------------------
(* The two lists. *)

\* Add() at the front.
AddInFront(list, count, b) ==
    IF count >= QueueSize THEN [list |-> list, count |-> count]
                          ELSE [list |-> <<b>> \o list, count |-> count + 1]

\* Add(): append b and count it, unless the count says that the list is full.
Add(list, count, b) ==
    IF count >= QueueSize THEN [list |-> list, count |-> count]
                          ELSE [list |-> Append(list, b), count |-> count + 1]

\* Extent() without looking at the flag.
ExtentOfOne(list) == 1

\* The last block of the message at the head of a list: follow the
\* continuation flags, or stop where the links end.
Extent(list) ==
    CHOOSE k \in 1 .. Len(list) :
        /\ block[list[k]].cont => k = Len(list)
        /\ \A j \in 1 .. k - 1 : block[list[j]].cont

TotalSize(list) == FoldLeft(LAMBDA n, b : n + block[b].size, 0, list)

\* What copying the blocks of a list puts in the caller's buffer.
Copy(list) == [i \in 1 .. Len(list) |-> [of |-> block[list[i]].of, part |-> block[list[i]].part]]

Goto(t, label) == pc' = [pc EXCEPT ![t] = label]

\* Write() returns: its locals are gone.
Return(w) == /\ Goto(w, "idle")
             /\ msg' = [msg EXCEPT ![w] = NoMsg]

Lists == <<free, nFree, used, nUsed, block>>

-----------------------------------------------------------------------------
\* Create(): every block on the free list, the used list empty, m_hWriteSem
\* at the number of blocks and m_hReadSem at 0.
Init ==
    /\ free = [i \in 1 .. QueueSize |-> i - 1]
    /\ nFree = QueueSize
    /\ used = <<>>
    /\ nUsed = 0
    /\ block = [b \in Blocks |-> Blank]
    /\ writeSem = QueueSize
    /\ readSem = 0
    /\ pc = [t \in Threads |-> "idle"]
    /\ chain = [t \in Threads |-> <<>>]
    /\ msg = [w \in Writers |-> NoMsg]
    /\ sent = [w \in Writers |-> 0]
    /\ buf = [r \in Readers |-> 0]
    /\ got = [r \in Readers |-> <<>>]
    /\ owed = [r \in Readers |-> 0]

-----------------------------------------------------------------------------
(* Write(): WriteSingleBlock() is WriteMultiBlock() with one round. *)

\* The call, up to the first wait: the sizes it refuses return at once.
Write(w, n) ==
    /\ pc[w] = "idle"
    /\ sent[w] < MaxMsgs
    /\ sent' = [sent EXCEPT ![w] = @ + 1]
    /\ IF Refused(n)
       THEN UNCHANGED <<pc, msg>>
       ELSE /\ msg' = [msg EXCEPT ![w] = [from |-> w, seq |-> sent[w] + 1, size |-> n]]
            /\ Goto(w, "wsem")
    /\ UNCHANGED <<Lists, writeSem, readSem, chain, buf, got, owed>>

\* WaitForSemWrite() with its result ignored.
WaitForSemWriteUnchecked(w) ==
    /\ pc[w] = "wsem"
    /\ writeSem' = writeSem - 1
    /\ Goto(w, "alloc")
    /\ UNCHANGED <<Lists, readSem, chain, msg, sent, buf, got, owed>>

\* WaitForSemWrite() succeeds: a token for one more block.
WaitForSemWrite(w) ==
    /\ pc[w] = "wsem"
    /\ writeSem > 0
    /\ writeSem' = writeSem - 1
    /\ Goto(w, "alloc")
    /\ UNCHANGED <<Lists, readSem, chain, msg, sent, buf, got, owed>>

\* WaitForSemWrite() times out: XQUEUE_ERROR_TIMEOUT, after giving back the
\* blocks that earlier rounds took.
WriteTimeout(w) ==
    /\ pc[w] = "wsem"
    /\ w \in Timed
    /\ writeSem = 0
    /\ IF chain[w] = <<>> THEN Return(w) ELSE Goto(w, "giveback") /\ UNCHANGED msg
    /\ UNCHANGED <<Lists, writeSem, readSem, chain, sent, buf, got, owed>>

\* WriteLock(); GetFreeBlock(); WriteUnlock(), and the copy into the block it
\* returned, which only w can reach.  Without a block the write fails with
\* XQUEUE_ERROR_NO_FREE, and AddFreeList(first, NULL) puts nothing back while
\* FreeDataBlocks is raised all the same.
AllocBlock(w) ==
    /\ pc[w] = "alloc"
    /\ IF nFree = 0 \/ free = <<>>
       THEN /\ nFree' = nFree + Len(chain[w])
            /\ chain' = [chain EXCEPT ![w] = <<>>]
            /\ Return(w)
            /\ UNCHANGED <<free, block>>
       ELSE /\ free' = Tail(free)
            /\ nFree' = nFree - 1
            /\ chain' = [chain EXCEPT ![w] = Append(@, Head(free))]
            /\ block' = [block EXCEPT ![Head(free)] = Filled(msg[w], Len(chain[w]) + 1)]
            /\ Goto(w, IF Len(chain[w]) + 1 < NumBlocks(msg[w]) THEN "wsem" ELSE "append")
            /\ UNCHANGED msg
    /\ UNCHANGED <<used, nUsed, writeSem, readSem, sent, buf, got, owed>>

\* ReadLock(); AddUsed() or AddUsedList(); ReadUnlock(): the write takes effect.
AppendUsed(w) ==
    /\ pc[w] = "append"
    /\ IF NumBlocks(msg[w]) = 1
       THEN LET a == Add(used, nUsed, chain[w][1])
            IN  used' = a.list /\ nUsed' = a.count
       ELSE /\ used' = used \o chain[w]
            /\ nUsed' = nUsed + Len(chain[w])
    /\ chain' = [chain EXCEPT ![w] = <<>>]
    /\ Goto(w, "post")
    /\ UNCHANGED <<free, nFree, block, writeSem, readSem, msg, sent, buf, got, owed>>

\* ReleaseSemaphore(m_hReadSem, 1), and Write() returns XQUEUE_ERROR_SUCCESS.
PostRead(w) ==
    /\ pc[w] = "post"
    /\ readSem' = Released(readSem, 1)
    /\ Return(w)
    /\ UNCHANGED <<Lists, writeSem, chain, sent, buf, got, owed>>

\* GiveBack() that goes on to use the blocks, and one that does not count them.
GiveBackKeepsChain(w) ==
    /\ pc[w] = "giveback"
    /\ free' = free \o chain[w]
    /\ nFree' = nFree + Len(chain[w])
    /\ Return(w)
    /\ UNCHANGED <<used, nUsed, block, writeSem, readSem, chain, sent, buf, got, owed>>

GiveBackUncounted(w) ==
    /\ pc[w] = "giveback"
    /\ free' = free \o chain[w]
    /\ chain' = [chain EXCEPT ![w] = <<>>]
    /\ Return(w)
    /\ UNCHANGED <<nFree, used, nUsed, block, writeSem, readSem, sent, buf, got, owed>>

\* The failed multi-block write returns its blocks to the free list, but not
\* the semaphore tokens it took for them.
GiveBack(w) ==
    /\ pc[w] = "giveback"
    /\ free' = free \o chain[w]
    /\ nFree' = nFree + Len(chain[w])
    /\ chain' = [chain EXCEPT ![w] = <<>>]
    /\ Return(w)
    /\ UNCHANGED <<used, nUsed, block, writeSem, readSem, sent, buf, got, owed>>

-----------------------------------------------------------------------------
(* Read(). *)

Read(r, n) ==
    /\ pc[r] = "idle"
    /\ buf' = [buf EXCEPT ![r] = n]
    /\ got' = [got EXCEPT ![r] = <<>>]
    /\ Goto(r, "rsem")
    /\ UNCHANGED <<Lists, writeSem, readSem, chain, msg, sent, owed>>

\* WaitForSemRead() succeeds.
WaitForSemRead(r) ==
    /\ pc[r] = "rsem"
    /\ readSem > 0
    /\ readSem' = readSem - 1
    /\ Goto(r, "take")
    /\ UNCHANGED <<Lists, writeSem, chain, msg, sent, buf, got, owed>>

\* WaitForSemRead() times out: XQUEUE_ERROR_TIMEOUT.
ReadTimeout(r) ==
    /\ pc[r] = "rsem"
    /\ r \in Timed
    /\ readSem = 0
    /\ Goto(r, "idle")
    /\ UNCHANGED <<Lists, writeSem, readSem, chain, msg, sent, buf, got, owed>>

\* The section under ReadLock().  An empty used list is XQUEUE_ERROR_NO_DATA
\* and a buffer too small is XQUEUE_ERROR_MORE_DATA; both leave the list alone
\* and keep the token.  Otherwise the message leaves the used list; a message
\* of one block is copied here (ReadSingleBlock), a longer one is only
\* detached (GetUsedListForward).
TakeMessage(r) ==
    LET n     == Extent(used)
        front == SubSeq(used, 1, n)
    IN
    /\ pc[r] = "take"
    /\ IF used = <<>> \/ TotalSize(front) > buf[r]
       THEN /\ Goto(r, "idle")
            /\ UNCHANGED <<Lists, chain, got>>
       ELSE /\ used' = SubSeq(used, n + 1, Len(used))
            /\ nUsed' = nUsed - n
            /\ chain' = [chain EXCEPT ![r] = front]
            /\ IF block[Head(used)].cont
               THEN /\ Goto(r, "copy")
                    /\ UNCHANGED <<block, got>>
               ELSE /\ Goto(r, "free")
                    /\ got' = [got EXCEPT ![r] = Copy(front)]
                    /\ block' = [block EXCEPT ![Head(used)].size = 0]
            /\ UNCHANGED <<free, nFree>>
    /\ UNCHANGED <<writeSem, readSem, msg, sent, buf, owed>>

\* ReadMultiBlock() copies the blocks, under no lock, and clears the DataSize
\* (and with it the flag) of every block but the last.
CopyOut(r) ==
    /\ pc[r] = "copy"
    /\ got' = [got EXCEPT ![r] = Copy(chain[r])]
    /\ block' = [b \in Blocks |->
                   IF \E i \in 1 .. Len(chain[r]) - 1 : chain[r][i] = b
                   THEN [block[b] EXCEPT !.size = 0, !.cont = FALSE] ELSE block[b]]
    /\ Goto(r, "free")
    /\ UNCHANGED <<free, nFree, used, nUsed, writeSem, readSem, chain, msg, sent, buf, owed>>

\* WriteLock(); AddFree() or AddFreeList(); WriteUnlock().
FreeBlocks(r) ==
    /\ pc[r] = "free"
    /\ IF Len(chain[r]) = 1
       THEN LET a == Add(free, nFree, chain[r][1])
            IN  free' = a.list /\ nFree' = a.count
       ELSE /\ free' = free \o chain[r]
            /\ nFree' = nFree + Len(chain[r])
    /\ chain' = [chain EXCEPT ![r] = <<>>]
    /\ owed' = [owed EXCEPT ![r] = Len(chain[r])]
    /\ Goto(r, "release")
    /\ UNCHANGED <<used, nUsed, block, writeSem, readSem, msg, sent, buf, got>>

\* ReleaseSemaphore(m_hWriteSem, nBlocks), and Read() returns.
ReleaseWrite(r) ==
    /\ pc[r] = "release"
    /\ writeSem' = Released(writeSem, owed[r])
    /\ owed' = [owed EXCEPT ![r] = 0]
    /\ Goto(r, "idle")
    /\ UNCHANGED <<Lists, readSem, chain, msg, sent, buf, got>>

-----------------------------------------------------------------------------
\* The steps of a Write() under way, and of a Read().
WriteStep(w) == \/ WaitForSemWrite(w) \/ WriteTimeout(w) \/ AllocBlock(w)
                \/ AppendUsed(w) \/ PostRead(w) \/ GiveBack(w)

ReadStep(r) == \/ WaitForSemRead(r) \/ ReadTimeout(r) \/ TakeMessage(r)
               \/ CopyOut(r) \/ FreeBlocks(r) \/ ReleaseWrite(r)

Next == \/ \E w \in Writers : WriteStep(w) \/ \E n \in Sizes[w] : Write(w, n)
        \/ \E r \in Readers : ReadStep(r) \/ \E n \in BufSizes : Read(r, n)

Spec == Init /\ [][Next]_vars

\* A thread inside an operation keeps running, and CReader::ThreadEntry calls
\* Read() again as soon as it has returned.  Nobody has to call Write().
Fairness == /\ \A w \in Writers : WF_vars(WriteStep(w))
            /\ \A r \in Readers : WF_vars(ReadStep(r) \/ \E n \in BufSizes : Read(r, n))

FairSpec == Spec /\ Fairness
-----------------------------------------------------------------------------
(* What must hold. *)

Labels == {"idle", "wsem", "alloc", "append", "post", "giveback",
           "rsem", "take", "copy", "free", "release"}

Part == [of : Message \cup {NoMsg}, part : Nat]

Contents == [of : Message \cup {NoMsg}, part : Nat, size : Int, cont : BOOLEAN]

\* Every variable has its type; the counts are allowed to go wrong here.
TypeOK ==
    /\ free \in Seq(Blocks) /\ nFree \in Int
    /\ used \in Seq(Blocks) /\ nUsed \in Int
    /\ block \in [Blocks -> Contents]
    /\ writeSem \in 0 .. QueueSize
    /\ readSem \in 0 .. QueueSize
    /\ pc \in [Threads -> Labels]
    /\ chain \in [Threads -> Seq(Blocks)]
    /\ msg \in [Writers -> Message \cup {NoMsg}]
    /\ sent \in [Writers -> 0 .. MaxMsgs]
    /\ buf \in [Readers -> Nat]
    /\ got \in [Readers -> Seq(Part)]
    /\ owed \in [Readers -> Nat]

\* No block is in two places: the lists and the chains that threads hold name
\* no block twice and no block in common.  Write() fills its blocks and
\* ReadMultiBlock() empties them outside the locks on the strength of this.
Distinct(list) == \A i, j \in 1 .. Len(list) : list[i] = list[j] => i = j

Apart(a, b) == ToSet(a) \cap ToSet(b) = {}

Ownership ==
    /\ Distinct(free) /\ Distinct(used) /\ Apart(free, used)
    /\ \A t \in Threads : /\ Distinct(chain[t])
                          /\ Apart(chain[t], free) /\ Apart(chain[t], used)
    /\ \A t, u \in Threads : t # u => Apart(chain[t], chain[u])

\* No block is lost, and FreeDataBlocks and UsedDataBlocks are the lengths of
\* the lists: failed and timed-out writes included, whatever the interleaving.
Conservation ==
    /\ nFree = Len(free)
    /\ nUsed = Len(used)
    /\ Blocks = ToSet(free) \cup ToSet(used) \cup UNION {ToSet(chain[t]) : t \in Threads}

\* Every token of m_hWriteSem, taken or not, stands for a block on the free
\* list, so GetFreeBlock() never returns NULL to a writer that got its token.
Allocating == {w \in Writers : pc[w] = "alloc"}

OwedBlocks == {p \in Readers \X (1 .. QueueSize) : p[2] <= owed[p[1]]}

WriteTokens ==
    writeSem + Cardinality(Allocating) + Cardinality(OwedBlocks) <= Len(free)

\* The used list is a sequence of whole messages, each in consecutive blocks
\* in the order of its bytes, with the flag on all but its last block.
UsedWhole ==
    \A i \in 1 .. Len(used) :
        LET b == block[used[i]] IN
        /\ b.of \in Message
        /\ b = Filled(b.of, b.part)
        /\ b.part > 1 => i > 1 /\ block[used[i - 1]] = Filled(b.of, b.part - 1)
        /\ b.cont => i < Len(used)

\* Of a finite set of numbers: how many are not above i, and the k-th of them.
Rank(set, i) == Cardinality({j \in set : j <= i})
Nth(set, k) == CHOOSE i \in set : Rank(set, i) = k

\* The messages on the used list: one for each last block, in the order of the list.
Ends == {i \in 1 .. Len(used) : ~ block[used[i]].cont}

Queued == [k \in 1 .. Cardinality(Ends) |-> block[used[Nth(Ends, k)]].of]

Taking == {r \in Readers : pc[r] = "take"}

ReadTokens == readSem + Cardinality(Taking) <= Len(Queued)

\* Every token of m_hReadSem, taken or not, stands for a message on the used
\* list, which is whole: no Read() that got its token returns
\* XQUEUE_ERROR_NO_DATA, or one message with the end of another.
Readable == UsedWhole /\ ReadTokens

Posting == {w \in Writers : pc[w] = "post"}

NoStranded == readSem + Cardinality(Taking) + Cardinality(Posting) = Len(Queued)

NoTokenLost ==
    writeSem + Cardinality(Allocating) + Cardinality(OwedBlocks) = Len(free)

\* When no write times out and no server's buffer is too small, the tokens count
\* the messages and the free blocks: none can be left on the used list with no token
\* to read it by, and no block on the free list with none to write it by.
SemaphoresExact == NoStranded /\ NoTokenLost

-----------------------------------------------------------------------------
(* The queue of blocks implements the queue of messages. *)

\* A write is under way until AppendUsed, where it takes effect, or until it
\* gives up.
Sending == [w \in Writers |-> IF pc[w] \in {"wsem", "alloc", "append"} THEN msg[w] ELSE NoMsg]

\* A message detached for a read is that reader's.
Received == [r \in Readers |-> Assembled(IF pc[r] = "copy" THEN Copy(chain[r]) ELSE got[r])]

Fifo == INSTANCE FifoQueue WITH
    Messages <- Message,
    queue    <- Queued,
    sending  <- Sending,
    received <- Received

\* Whole messages, in the order in which the writes took effect, each at most
\* once, and nothing of a write that timed out.
FifoSpec == Fifo!Spec

\* With servers that keep reading, no message stays on the used list for ever.
EventuallyRead == \A m \in Message :
    (\E i \in 1 .. Len(used) : block[used[i]].of = m) ~>
    ~ \E i \in 1 .. Len(used) : block[used[i]].of = m

\* A call of Write() returns.
WriteReturns == \A w \in Writers : pc[w] # "idle" ~> pc[w] = "idle"
=============================================================================
