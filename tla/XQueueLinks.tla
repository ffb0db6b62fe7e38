----------------------------- MODULE XQueueLinks -----------------------------
(***************************************************************************)
(* CXQueue one level below module XQueue: the free list and the used list  *)
(* as the code keeps them, in list heads, tails and counters of the        *)
(* variable block and in the ForwardLink and BackLink of every data block, *)
(* and the two mutexes as objects that a thread acquires and releases.     *)
(*                                                                         *)
(* A critical section takes two steps: "enter" acquires the mutex and      *)
(* reads the list head or tail the section starts from, "leave" does the   *)
(* section's writes and releases the mutex.  Between the two any other     *)
(* thread may run; only the mutex keeps it off the list.                   *)
(***************************************************************************)
EXTENDS XQueueData, SequencesExt

CONSTANT Nil  \* XQUEUE_INVALID_BLOCK, a null block pointer, no mutex owner

ASSUME NilAssumption == Nil \notin Blocks \cup Threads

VARIABLES
    list,    \* list[k]: head (ForwardLink), tail (BackLink) and count of list k
    fwd,     \* fwd[b]: ForwardLink of block b
    back,    \* back[b]: BackLink of block b
    block,   \* block[b]: the part of a message in b, its DataSize, its flag
    mutex,   \* mutex[k]: the thread that owns WriteLock ("free"), ReadLock ("used")
    writeSem, readSem, pc, msg, sent, buf, got, owed,  \* as in XQueue
    cur,     \* cur[t]: the block number t read when it entered its section
    first,   \* first[t], last[t]: pWriteBlockFirst and pWriteBlockLast of a
    last,    \* writer, pReadBlockFirst and pReadBlockLast of a reader
    cnt      \* cnt[t]: nCount

shared == <<list, fwd, back, block, mutex, writeSem, readSem>>
locals == <<msg, sent, buf, got, owed, cur, first, last, cnt>>
vars == <<shared, pc, locals>>

-----------------------------------------------------------------------------
(* Links.  The operators take the memory as it is and say what it becomes. *)

Goto(t, label) == pc' = [pc EXCEPT ![t] = label]

\* The link of block b becomes c; a null pointer b has no link.
Link(links, b, c) == IF b = Nil THEN links ELSE [links EXCEPT ![b] = c]

\* Add(): b becomes the tail of list k.
Add(k, b) ==
    IF list[k].count >= QueueSize
    THEN UNCHANGED <<list, fwd, back>>
    ELSE LET t == cur[mutex[k]] IN
         /\ list' = [list EXCEPT ![k] =
                [head |-> IF t = Nil THEN b ELSE @.head, tail |-> b, count |-> @.count + 1]]
         /\ fwd' = Link(Link(fwd, t, b), b, Nil)
         /\ back' = Link(back, b, t)

\* AddUsedList() and AddFreeList(): the chain from a to z goes behind the tail
\* of list k.  Both return at once when one end is a null pointer; the caller
\* adds n to the count in any case.  AddFreeList() cuts the chain at z and at
\* a, AddUsedList() leaves them as the writer linked them.
AddList(k, a, z, n) ==
    LET t   == cur[mutex[k]]
        cut == k = "free"
    IN
    IF a = Nil \/ z = Nil
    THEN /\ list' = [list EXCEPT ![k].count = @ + n]
         /\ UNCHANGED <<fwd, back>>
    ELSE /\ list' = [list EXCEPT ![k] =
                [head |-> IF t = Nil THEN a ELSE @.head, tail |-> z, count |-> @.count + n]]
         /\ fwd' = IF cut THEN Link(Link(fwd, t, a), z, Nil) ELSE Link(fwd, t, a)
         /\ back' = IF cut \/ t # Nil THEN Link(back, a, t) ELSE back

\* RemoveTo() that leaves the tail of an emptied list.
RemoveToKeepsTail(k, z, n, cut) ==
    LET h == fwd[z] IN
    /\ list' = [list EXCEPT ![k] = [head |-> h, tail |-> @.tail, count |-> @.count - n]]
    /\ back' = Link(back, h, Nil)
    /\ fwd' = IF cut THEN [fwd EXCEPT ![z] = Nil] ELSE fwd

\* GetBlock() on a nonempty list, ReadSingleBlock() and GetUsedListForward():
\* the head of list k becomes what follows z, and n blocks are off its count.
\* GetUsedListForward() also cuts the message off at z.
RemoveTo(k, z, n, cut) ==
    LET h == fwd[z] IN
    /\ list' = [list EXCEPT ![k] =
            [head |-> h, tail |-> IF h = Nil THEN Nil ELSE @.tail, count |-> @.count - n]]
    /\ back' = Link(back, h, Nil)
    /\ fwd' = IF cut THEN [fwd EXCEPT ![z] = Nil] ELSE fwd

\* The blocks from a on, up to z or to the end of the links; at most one more
\* than there are, so that a cycle shows as a repetition.
Walk(a, z) ==
    LET walk[n \in 0 .. QueueSize] ==
            IF n = 0 THEN <<a>>
            ELSE LET s == walk[n - 1]
                     b == Last(s)
                 IN  IF b = z \/ fwd[b] = Nil THEN s ELSE Append(s, fwd[b])
    IN  IF a = Nil THEN <<>> ELSE walk[QueueSize]

\* The blocks of the message that starts at a, by the continuation flags.
MessageAt(a) ==
    LET s == Walk(a, Nil)
    IN  SubSeq(s, 1, CHOOSE k \in 1 .. Len(s) :
                        /\ block[s[k]].cont => k = Len(s)
                        /\ \A j \in 1 .. k - 1 : block[s[j]].cont)

TotalSize(s) == FoldLeft(LAMBDA n, b : n + block[b].size, 0, s)

Copy(s) == [i \in 1 .. Len(s) |-> [of |-> block[s[i]].of, part |-> block[s[i]].part]]

-----------------------------------------------------------------------------
Init ==
    /\ list = [free |-> [head |-> 0, tail |-> QueueSize - 1, count |-> QueueSize],
               used |-> [head |-> Nil, tail |-> Nil, count |-> 0]]
    /\ fwd = [b \in Blocks |-> IF b = QueueSize - 1 THEN Nil ELSE b + 1]
    /\ back = [b \in Blocks |-> IF b = 0 THEN Nil ELSE b - 1]
    /\ block = [b \in Blocks |-> Blank]
    /\ mutex = [free |-> Nil, used |-> Nil]
    /\ writeSem = QueueSize
    /\ readSem = 0
    /\ pc = [t \in Threads |-> "idle"]
    /\ msg = [w \in Writers |-> NoMsg]
    /\ sent = [w \in Writers |-> 0]
    /\ buf = [r \in Readers |-> 0]
    /\ got = [r \in Readers |-> <<>>]
    /\ owed = [r \in Readers |-> 0]
    /\ cur = [t \in Threads |-> Nil]
    /\ first = [t \in Threads |-> Nil]
    /\ last = [t \in Threads |-> Nil]
    /\ cnt = [t \in Threads |-> 0]

-----------------------------------------------------------------------------
(* Critical sections. *)

\* Enter() without waiting for the mutex.
EnterUnlocked(t, k, end, label) ==
    /\ mutex' = [mutex EXCEPT ![k] = t]
    /\ cur' = [cur EXCEPT ![t] = list[k][end]]
    /\ Goto(t, label)
    /\ UNCHANGED <<list, fwd, back, block, writeSem, readSem,
                   msg, sent, buf, got, owed, first, last, cnt>>

\* WriteLock() or ReadLock() with its default INFINITE timeout, and the read of
\* the head or of the tail of the list.
Enter(t, k, end, label) ==
    /\ mutex[k] = Nil
    /\ mutex' = [mutex EXCEPT ![k] = t]
    /\ cur' = [cur EXCEPT ![t] = list[k][end]]
    /\ Goto(t, label)
    /\ UNCHANGED <<list, fwd, back, block, writeSem, readSem,
                   msg, sent, buf, got, owed, first, last, cnt>>

\* WriteUnlock() or ReadUnlock().
Unlock(k) == mutex' = [mutex EXCEPT ![k] = Nil]

\* The locals of an operation that returns.
Forget(t) == /\ cur' = [cur EXCEPT ![t] = Nil]
             /\ first' = [first EXCEPT ![t] = Nil]
             /\ last' = [last EXCEPT ![t] = Nil]
             /\ cnt' = [cnt EXCEPT ![t] = 0]

Return(w) == /\ Forget(w)
             /\ msg' = [msg EXCEPT ![w] = NoMsg]
             /\ Goto(w, "idle")

-----------------------------------------------------------------------------
(* Write(). *)

Write(w, n) ==
    /\ pc[w] = "idle"
    /\ sent[w] < MaxMsgs
    /\ sent' = [sent EXCEPT ![w] = @ + 1]
    /\ IF Refused(n)
       THEN UNCHANGED <<pc, msg>>
       ELSE /\ msg' = [msg EXCEPT ![w] = [from |-> w, seq |-> sent[w] + 1, size |-> n]]
            /\ Goto(w, "wsem")
    /\ UNCHANGED <<shared, buf, got, owed, cur, first, last, cnt>>

WaitForSemWrite(w) ==
    /\ pc[w] = "wsem"
    /\ writeSem > 0
    /\ writeSem' = writeSem - 1
    /\ Goto(w, "wlock")
    /\ UNCHANGED <<list, fwd, back, block, mutex, readSem, locals>>

WriteTimeout(w) ==
    /\ pc[w] = "wsem"
    /\ w \in Timed
    /\ writeSem = 0
    /\ IF cnt[w] = 0
       THEN Return(w)
       ELSE Goto(w, "giveback") /\ UNCHANGED <<msg, cur, first, last, cnt>>
    /\ UNCHANGED <<shared, sent, buf, got, owed>>

EnterGetBlock(w) == pc[w] = "wlock" /\ Enter(w, "free", "head", "getblock")

\* GetBlock() on the free list.  It returns NULL when the count is 0 or the
\* head is invalid, and pWriteBlockLast is then NULL.
GetFreeBlock(w) ==
    /\ pc[w] = "getblock"
    /\ Unlock("free")
    /\ IF list.free.count = 0 \/ cur[w] = Nil
       THEN /\ IF cnt[w] = 0 THEN Return(w)
               ELSE /\ last' = [last EXCEPT ![w] = Nil]
                    /\ Goto(w, "giveback")
                    /\ UNCHANGED <<msg, cur, first, cnt>>
            /\ UNCHANGED <<list, fwd, back>>
       ELSE /\ RemoveTo("free", cur[w], 1, FALSE)
            /\ Goto(w, "fill")
            /\ UNCHANGED <<msg, cur, first, last, cnt>>
    /\ UNCHANGED <<block, writeSem, readSem, sent, buf, got, owed>>

\* The copy into the block.  A block of a multi-block message is linked behind
\* the one before it; WriteSingleBlock() leaves the links to Add().
FillBlock(w) ==
    LET b == cur[w]
        p == last[w]
        n == cnt[w] + 1
        all == NumBlocks(msg[w])
    IN
    /\ pc[w] = "fill"
    /\ block' = [block EXCEPT ![b] = Filled(msg[w], n)]
    /\ IF all > 1
       THEN /\ fwd' = Link(Link(fwd, p, b), b, Nil)
            /\ back' = Link(back, b, p)
       ELSE UNCHANGED <<fwd, back>>
    /\ first' = [first EXCEPT ![w] = IF @ = Nil THEN b ELSE @]
    /\ last' = [last EXCEPT ![w] = b]
    /\ cnt' = [cnt EXCEPT ![w] = n]
    /\ cur' = [cur EXCEPT ![w] = Nil]
    /\ Goto(w, IF n < all THEN "wsem" ELSE "rlock")
    /\ UNCHANGED <<list, mutex, writeSem, readSem, msg, sent, buf, got, owed>>

EnterAppend(w) == pc[w] = "rlock" /\ Enter(w, "used", "tail", "append")

AppendUsed(w) ==
    /\ pc[w] = "append"
    /\ IF NumBlocks(msg[w]) = 1 THEN Add("used", first[w])
                                ELSE AddList("used", first[w], last[w], cnt[w])
    /\ Unlock("used")
    /\ Forget(w)
    /\ Goto(w, "post")
    /\ UNCHANGED <<block, writeSem, readSem, msg, sent, buf, got, owed>>

PostRead(w) ==
    /\ pc[w] = "post"
    /\ readSem' = Released(readSem, 1)
    /\ Return(w)
    /\ UNCHANGED <<list, fwd, back, block, mutex, writeSem, sent, buf, got, owed>>

EnterGiveBack(w) == pc[w] = "giveback" /\ Enter(w, "free", "tail", "putback")

GiveBack(w) ==
    /\ pc[w] = "putback"
    /\ AddList("free", first[w], last[w], cnt[w])
    /\ Unlock("free")
    /\ Return(w)
    /\ UNCHANGED <<block, writeSem, readSem, sent, buf, got, owed>>

-----------------------------------------------------------------------------
(* Read(). *)

Read(r, n) ==
    /\ pc[r] = "idle"
    /\ buf' = [buf EXCEPT ![r] = n]
    /\ got' = [got EXCEPT ![r] = <<>>]
    /\ Goto(r, "rsem")
    /\ UNCHANGED <<shared, msg, sent, owed, cur, first, last, cnt>>

WaitForSemRead(r) ==
    /\ pc[r] = "rsem"
    /\ readSem > 0
    /\ readSem' = readSem - 1
    /\ Goto(r, "rlock")
    /\ UNCHANGED <<list, fwd, back, block, mutex, writeSem, locals>>

ReadTimeout(r) ==
    /\ pc[r] = "rsem"
    /\ r \in Timed
    /\ readSem = 0
    /\ Goto(r, "idle")
    /\ UNCHANGED <<shared, locals>>

EnterTake(r) == pc[r] = "rlock" /\ Enter(r, "used", "head", "take")

\* NO_DATA, MORE_DATA, ReadSingleBlock() or GetUsedListForward(), in that order.
TakeMessage(r) ==
    LET b == cur[r]
        s == MessageAt(b)
    IN
    /\ pc[r] = "take"
    /\ Unlock("used")
    /\ IF b = Nil \/ TotalSize(s) > buf[r]
       THEN /\ Forget(r)
            /\ Goto(r, "idle")
            /\ UNCHANGED <<list, fwd, back, block, got>>
       ELSE /\ first' = [first EXCEPT ![r] = b]
            /\ last' = [last EXCEPT ![r] = Last(s)]
            /\ cnt' = [cnt EXCEPT ![r] = Len(s)]
            /\ RemoveTo("used", Last(s), Len(s), block[b].cont)
            /\ IF block[b].cont
               THEN /\ Goto(r, "copy")
                    /\ UNCHANGED <<block, got>>
               ELSE /\ Goto(r, "flock")
                    /\ got' = [got EXCEPT ![r] = Copy(s)]
                    /\ block' = [block EXCEPT ![b].size = 0]
            /\ cur' = [cur EXCEPT ![r] = Nil]
    /\ UNCHANGED <<writeSem, readSem, msg, sent, buf, owed>>

\* ReadMultiBlock() before its lock: it follows the flags and the links anew.
CopyOut(r) ==
    LET s == MessageAt(first[r])
        z == Last(s)
    IN
    /\ pc[r] = "copy"
    /\ got' = [got EXCEPT ![r] = Copy(s)]
    /\ block' = [b \in Blocks |-> IF b # z /\ Contains(s, b)
                                  THEN [block[b] EXCEPT !.size = 0, !.cont = FALSE] ELSE block[b]]
    /\ last' = [last EXCEPT ![r] = z]
    /\ cnt' = [cnt EXCEPT ![r] = Len(s)]
    /\ Goto(r, "flock")
    /\ UNCHANGED <<list, fwd, back, mutex, writeSem, readSem, msg, sent, buf, owed, cur, first>>

EnterFree(r) == pc[r] = "flock" /\ Enter(r, "free", "tail", "free")

FreeBlocks(r) ==
    /\ pc[r] = "free"
    /\ IF cnt[r] = 1 THEN Add("free", first[r])
                     ELSE AddList("free", first[r], last[r], cnt[r])
    /\ Unlock("free")
    /\ owed' = [owed EXCEPT ![r] = cnt[r]]
    /\ Forget(r)
    /\ Goto(r, "release")
    /\ UNCHANGED <<block, writeSem, readSem, msg, sent, buf, got>>

ReleaseWrite(r) ==
    /\ pc[r] = "release"
    /\ writeSem' = Released(writeSem, owed[r])
    /\ owed' = [owed EXCEPT ![r] = 0]
    /\ Goto(r, "idle")
    /\ UNCHANGED <<list, fwd, back, block, mutex, readSem,
                   msg, sent, buf, got, cur, first, last, cnt>>

-----------------------------------------------------------------------------
WriteStep(w) ==
    \/ WaitForSemWrite(w) \/ WriteTimeout(w)
    \/ EnterGetBlock(w) \/ GetFreeBlock(w) \/ FillBlock(w)
    \/ EnterAppend(w) \/ AppendUsed(w) \/ PostRead(w)
    \/ EnterGiveBack(w) \/ GiveBack(w)

ReadStep(r) ==
    \/ WaitForSemRead(r) \/ ReadTimeout(r)
    \/ EnterTake(r) \/ TakeMessage(r) \/ CopyOut(r)
    \/ EnterFree(r) \/ FreeBlocks(r) \/ ReleaseWrite(r)

Next == \/ \E w \in Writers : WriteStep(w) \/ \E n \in Sizes[w] : Write(w, n)
        \/ \E r \in Readers : ReadStep(r) \/ \E n \in BufSizes : Read(r, n)

Spec == Init /\ [][Next]_vars
-----------------------------------------------------------------------------
(* What must hold. *)

Chain(k) == Walk(list[k].head, Nil)

Labels == {"idle", "wsem", "wlock", "getblock", "fill", "rlock", "append", "post",
           "giveback", "putback", "rsem", "take", "copy", "flock", "free", "release"}

BlockOrNil == Blocks \cup {Nil}

TypeOK ==
    /\ list \in [{"free", "used"} -> [head : BlockOrNil, tail : BlockOrNil, count : 0 .. QueueSize]]
    /\ fwd \in [Blocks -> BlockOrNil] /\ back \in [Blocks -> BlockOrNil]
    /\ block \in [Blocks -> [of : Message \cup {NoMsg}, part : 0 .. QueueSize,
                             size : 0 .. DataSize, cont : BOOLEAN]]
    /\ mutex \in [{"free", "used"} -> Threads \cup {Nil}]
    /\ writeSem \in 0 .. QueueSize /\ readSem \in 0 .. QueueSize
    /\ pc \in [Threads -> Labels]
    /\ msg \in [Writers -> Message \cup {NoMsg}]
    /\ sent \in [Writers -> 0 .. MaxMsgs]
    /\ owed \in [Readers -> 0 .. QueueSize] /\ cnt \in [Threads -> 0 .. QueueSize]
    /\ cur \in [Threads -> BlockOrNil]
    /\ first \in [Threads -> BlockOrNil] /\ last \in [Threads -> BlockOrNil]

\* The two directions of each list agree: every BackLink undoes a ForwardLink,
\* the tail is where the walk from the head ends, and the head has no BackLink.
LinksMirror ==
    \A k \in {"free", "used"} :
        LET s == Chain(k) IN
        /\ s = <<>> => list[k].tail = Nil
        /\ s # <<>> => /\ list[k].tail = Last(s)
                       /\ fwd[Last(s)] = Nil
                       /\ back[s[1]] = Nil
        /\ \A i \in 1 .. Len(s) - 1 : back[s[i + 1]] = s[i]

-----------------------------------------------------------------------------
(* The linked lists implement the lists of XQueue. *)

\* The block a writer has popped and not filled yet counts as filled already:
\* nobody else can see it.
Popped(w, b) == pc[w] = "fill" /\ cur[w] = b

AbsBlock(b) ==
    IF \E w \in Writers : Popped(w, b)
    THEN LET w == CHOOSE w \in Writers : Popped(w, b) IN Filled(msg[w], cnt[w] + 1)
    ELSE block[b]

AbsChain(t) == Walk(first[t], last[t]) \o IF pc[t] = "fill" THEN <<cur[t]>> ELSE <<>>

\* A section takes effect when it is left.
AbsPc(t) ==
    CASE pc[t] \in {"wlock", "getblock"} -> "alloc"
      [] pc[t] = "fill" -> IF cnt[t] + 1 < NumBlocks(msg[t]) THEN "wsem" ELSE "append"
      [] pc[t] = "rlock" -> IF t \in Writers THEN "append" ELSE "take"
      [] pc[t] = "putback" -> "giveback"
      [] pc[t] = "flock" -> "free"
      [] OTHER -> pc[t]

Lists == INSTANCE XQueue WITH
    free  <- Chain("free"), nFree <- list.free.count,
    used  <- Chain("used"), nUsed <- list.used.count,
    block <- [b \in Blocks |-> AbsBlock(b)],
    chain <- [t \in Threads |-> AbsChain(t)],
    pc    <- [t \in Threads |-> AbsPc(t)]

\* Links, heads, tails and counters behave as lists under atomic sections.
ListsSpec == Lists!Spec
=============================================================================
