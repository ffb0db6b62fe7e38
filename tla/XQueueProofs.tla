----------------------------- MODULE XQueueProofs -----------------------------
(***************************************************************************)
(* Proofs about XQueue, for any number of client and server threads, any   *)
(* queue geometry and any message sizes.  First the blocks: types, who has *)
(* them, counters, tokens of m_hWriteSem.  Then the messages: the blocks   *)
(* of the used list are whole messages in the order of their bytes, a read *)
(* takes the first of them, and what servers receive is what clients wrote,*)
(* each at most once and in order.  Last the tokens of m_hReadSem, which   *)
(* never outnumber these messages, and count them when no call gives up.   *)
(* What of this outlives the threads and the server is at the end.         *)
(***************************************************************************)
EXTENDS XQueueCrash, SequenceTheorems, FiniteSetTheorems, TLAPS

-----------------------------------------------------------------------------
(* The inductive invariant behind the type invariant. *)

\* What a client has with it inside Write(): the message from its first wait
\* on, and no more blocks than the message takes from its first GetFreeBlock()
\* until AddUsedList().
WriterState ==
    \A w \in Writers :
        /\ pc[w] \in {"idle", "wsem", "alloc", "append", "post", "giveback"}
        /\ pc[w] # "idle" => msg[w] \in Message
        /\ pc[w] \in {"idle", "post"} => chain[w] = <<>>
        /\ pc[w] \in {"wsem", "alloc"} => Len(chain[w]) < NumBlocks(msg[w])
        /\ pc[w] = "append" => Len(chain[w]) = NumBlocks(msg[w])
        /\ pc[w] = "giveback" => chain[w] # <<>>

\* What a server has with it inside Read(): the blocks it took from the used
\* list until it has freed them.
ReaderState ==
    \A r \in Readers :
        /\ pc[r] \in {"idle", "rsem", "take", "copy", "free", "release"}
        /\ pc[r] \in {"copy", "free"} => chain[r] # <<>>
        /\ pc[r] \notin {"copy", "free"} => chain[r] = <<>>

Typed == TypeOK /\ WriterState /\ ReaderState

-----------------------------------------------------------------------------
(* Lemmas about numbers and about the operators of XQueueData and XQueue. *)

\* A nonempty set of natural numbers has a least element.
LEMMA LeastNat ==
  ASSUME NEW T \in SUBSET Nat, T # {}
  PROVE  \E x \in T : \A y \in T : x <= y
<1> DEFINE Down == {0 .. x : x \in T}
           Less(y, x) == <<0 .. y, 0 .. x>> \in StrictSubsetOrdering(Nat)
<1>1. \A x \in T : 0 .. x \in FiniteSubsetsOf(Nat)
  <2> TAKE x \in T
  <2>1. IsFiniteSet(0 .. x) BY FS_Interval
  <2>2. 0 .. x \in SUBSET Nat OBVIOUS
  <2>3. QED BY <2>1, <2>2 DEF FiniteSubsetsOf
<1>2. Down \subseteq FiniteSubsetsOf(Nat) /\ Down # {}
  BY <1>1
<1>3. \E D \in Down : \A E \in Down : ~ (<<E, D>> \in StrictSubsetOrdering(Nat))
  BY <1>2, FS_StrictSubsetOrderingWellFounded, WFMin
<1>4. PICK x \in T : \A y \in T : ~ Less(y, x)
  BY <1>3
<1>5. ASSUME NEW y \in T, y < x
      PROVE  Less(y, x)
  <2>1. /\ 0 .. y \subseteq 0 .. x /\ 0 .. y # 0 .. x
        /\ 0 .. x \in SUBSET Nat /\ 0 .. y \in SUBSET Nat
    BY <1>5
  <2>2. QED BY <2>1 DEF StrictSubsetOrdering
<1> HIDE DEF Less, Down
<1>6. ASSUME NEW y \in T PROVE x <= y
  <2>1. x \in Nat /\ y \in Nat OBVIOUS
  <2>2. ~ (y < x) BY <1>4, <1>5
  <2>3. QED BY <2>1, <2>2
<1>7. QED
  BY <1>6

\* Every message takes a block.
LEMMA NumBlocksType ==
  ASSUME NEW m \in Message
  PROVE  NumBlocks(m) \in Nat \ {0}
<1>1. m.size \in Nat /\ DataSize \in Nat \ {0} BY QueueAssumption DEF Message
<1>2. m.size \div DataSize \in Nat BY <1>1
<1>3. QED BY <1>2 DEF NumBlocks, CalculateNoBlocks

\* What Write() puts in a block has the type of a block's contents.
LEMMA FilledType ==
  ASSUME NEW m \in Message, NEW i \in Nat
  PROVE  Filled(m, i) \in Contents
<1>1. DataSize \in Nat BY QueueAssumption
<1>2. m.size \in Nat BY QueueAssumption DEF Message
<1>3. /\ i * DataSize \in Int
      /\ m.size - (i - 1) * DataSize \in Int
  BY <1>1, <1>2
<1>4. QED BY <1>1, <1>2, <1>3 DEF Filled, Contents

\* Clearing the DataSize of a block, and its flag, leaves it a block.
LEMMA ClearedType ==
  ASSUME NEW c \in Contents
  PROVE  /\ [c EXCEPT !.size = 0] \in Contents
         /\ [c EXCEPT !.size = 0, !.cont = FALSE] \in Contents
<1>1. ASSUME NEW d \in Contents
      PROVE  [d EXCEPT !.size = 0] \in Contents
  BY DEF Contents
<1>2. ASSUME NEW d \in Contents
      PROVE  [d EXCEPT !.cont = FALSE] \in Contents
  BY DEF Contents
<1>3. [[c EXCEPT !.size = 0] EXCEPT !.cont = FALSE] \in Contents
  BY <1>1, <1>2
<1>4. QED BY <1>1, <1>3

\* The message at the head of a nonempty list ends within the list.
LEMMA ExtentType ==
  ASSUME TypeOK, NEW list \in Seq(Blocks), list # <<>>
  PROVE  Extent(list) \in 1 .. Len(list)
<1> DEFINE Stops(k) == block[list[k]].cont => k = Len(list)
           T == {k \in 1 .. Len(list) : Stops(k)}
<1>1. Len(list) \in Nat \ {0} BY EmptySeq
<1>2. T \in SUBSET Nat /\ Len(list) \in T BY <1>1
<1>3. PICK k \in T : \A j \in T : k <= j BY <1>2, LeastNat, Zenon
<1>4. ASSUME NEW j \in 1 .. k - 1 PROVE block[list[j]].cont
  <2>1. k \in 1 .. Len(list) BY <1>3
  <2>2. j \in 1 .. Len(list) /\ ~ (k <= j) BY <1>1, <2>1
  <2>3. j \notin T BY <2>2, <1>3
  <2>4. QED BY <2>2, <2>3
<1>5. /\ k \in 1 .. Len(list)
      /\ block[list[k]].cont => k = Len(list)
      /\ \A j \in 1 .. k - 1 : block[list[j]].cont
  BY <1>3, <1>4
<1>6. QED BY <1>5 DEF Extent

\* Copying blocks yields a sequence of parts of messages.
LEMMA CopyType ==
  ASSUME TypeOK, NEW list \in Seq(Blocks)
  PROVE  Copy(list) \in Seq(Part)
BY DEF Copy, Part, Contents, TypeOK

\* Cutting a list in two after its n-th block.
LEMMA CutType ==
  ASSUME NEW list \in Seq(Blocks), NEW n \in 1 .. Len(list)
  PROVE  /\ SubSeq(list, 1, n) \in Seq(Blocks)
         /\ SubSeq(list, 1, n) # <<>>
         /\ Len(SubSeq(list, 1, n)) = n
         /\ \A i \in 1 .. n : SubSeq(list, 1, n)[i] = list[i]
         /\ SubSeq(list, n + 1, Len(list)) \in Seq(Blocks)
         /\ Len(SubSeq(list, n + 1, Len(list))) = Len(list) - n
         /\ \A i \in 1 .. Len(list) - n : SubSeq(list, n + 1, Len(list))[i] = list[n + i]
<1>1. Len(list) \in Nat /\ n \in Int /\ n + 1 \in Int BY LenProperties
<1>2. \A i \in 1 .. Len(list) : list[i] \in Blocks BY ElementOfSeq
<1>3. \A i \in 1 .. n : list[i] \in Blocks BY <1>1, <1>2
<1>4. \A i \in n + 1 .. Len(list) : list[i] \in Blocks BY <1>1, <1>2
<1>5. /\ SubSeq(list, 1, n) \in Seq(Blocks)
      /\ Len(SubSeq(list, 1, n)) = n
      /\ \A i \in 1 .. n : SubSeq(list, 1, n)[i] = list[i]
  BY <1>1, <1>3, SubSeqProperties
<1>6. SubSeq(list, 1, n) # <<>> BY <1>5, EmptySeq
<1>7. /\ SubSeq(list, n + 1, Len(list)) \in Seq(Blocks)
      /\ Len(SubSeq(list, n + 1, Len(list))) = Len(list) - n
      /\ \A i \in 1 .. Len(list) - (n + 1) + 1 :
            SubSeq(list, n + 1, Len(list))[i] = list[n + 1 + i - 1]
  BY <1>1, <1>4, SubSeqProperties
<1>8. \A i \in 1 .. Len(list) - n : SubSeq(list, n + 1, Len(list))[i] = list[n + i]
  BY <1>1, <1>7
<1>9. QED BY <1>5, <1>6, <1>7, <1>8

\* Add() appends the block or leaves the list alone.
LEMMA AddType ==
  ASSUME NEW list \in Seq(Blocks), NEW count \in Int, NEW b \in Blocks
  PROVE  /\ Add(list, count, b).list \in {list, Append(list, b)}
         /\ Add(list, count, b).list \in Seq(Blocks)
         /\ Add(list, count, b).count \in Int
BY AppendProperties DEF Add

-----------------------------------------------------------------------------
(* Type correctness. *)

\* Create() leaves every variable with its type.
LEMMA TypedInit == Init => Typed
<1> SUFFICES ASSUME Init PROVE Typed OBVIOUS
<1> USE QueueAssumption
<1>1. free \in Seq(Blocks) BY DEF Init, Blocks
<1>2. TypeOK
  BY <1>1, NoMsgAssumption DEF Init, TypeOK, Blank, Contents, Threads, Labels
<1>3. WriterState /\ ReaderState
  BY DEF Init, WriterState, ReaderState, Threads
<1>4. QED BY <1>2, <1>3 DEF Typed

\* A call of Write(), refused or not, keeps the types.
LEMMA TypedWrite ==
  ASSUME Typed, NEW w \in Writers, NEW n \in Sizes[w], Write(w, n)
  PROVE  Typed'
<1> USE DEF Typed
<1>1. w \in Threads /\ sent[w] + 1 \in 1 .. MaxMsgs /\ n \in UNION {Sizes[v] : v \in Writers}
  BY QueueAssumption DEF Write, TypeOK, Threads
<1>2. [from |-> w, seq |-> sent[w] + 1, size |-> n] \in Message
  BY <1>1 DEF Message
<1>3. TypeOK'
  <2>1. pc' \in [Threads -> Labels] BY DEF Write, TypeOK, Goto, Labels
  <2>2. msg' \in [Writers -> Message \cup {NoMsg}] BY <1>2 DEF Write, TypeOK
  <2>3. sent' \in [Writers -> 0 .. MaxMsgs] BY <1>1, QueueAssumption DEF Write, TypeOK
  <2>4. QED BY <2>1, <2>2, <2>3 DEF Write, TypeOK, Lists
<1>4. WriterState'
  <2>1. chain' = chain BY DEF Write
  <2>2. ASSUME NEW v \in Writers, v # w
        PROVE  pc'[v] = pc[v] /\ msg'[v] = msg[v]
    BY <2>2 DEF Write, TypeOK, Goto, Threads
  <2>3. chain[w] = <<>> /\ Len(chain[w]) = 0 BY DEF Write, WriterState
  <2>4. CASE Refused(n) BY <2>1, <2>4 DEF Write, WriterState
  <2>5. CASE ~ Refused(n)
    <3>1. pc'[w] = "wsem" /\ msg'[w] \in Message
      BY <1>1, <1>2, <2>5 DEF Write, TypeOK, Goto
    <3>2. Len(chain'[w]) < NumBlocks(msg'[w]) BY <2>1, <2>3, <3>1, NumBlocksType
    <3>3. QED BY <2>1, <2>2, <3>1, <3>2 DEF WriterState
  <2>6. QED BY <2>4, <2>5
<1>5. ReaderState'
  BY <1>1, QueueAssumption DEF Write, TypeOK, Goto, ReaderState, Threads
<1>6. QED BY <1>3, <1>4, <1>5

\* So does each step of a Write() under way.
LEMMA TypedWriteStep ==
  ASSUME Typed, NEW w \in Writers, WriteStep(w)
  PROVE  Typed'
<1> USE QueueAssumption DEF Typed, Goto, Return, Lists
<1>w. w \in Threads BY DEF Threads
<1>1. CASE WaitForSemWrite(w)
  <2>1. TypeOK' BY <1>1, <1>w DEF WaitForSemWrite, TypeOK, Labels
  <2>2. WriterState' BY <1>1, <1>w DEF WaitForSemWrite, TypeOK, WriterState, Threads
  <2>3. ReaderState' BY <1>1, <1>w DEF WaitForSemWrite, TypeOK, ReaderState, Threads
  <2>4. QED BY <2>1, <2>2, <2>3
<1>2. CASE WriteTimeout(w)
  <2>1. TypeOK' BY <1>2, <1>w DEF WriteTimeout, TypeOK, Labels
  <2>2. WriterState'
    <3>1. ASSUME NEW v \in Writers, v # w
          PROVE  pc'[v] = pc[v] /\ msg'[v] = msg[v] /\ chain'[v] = chain[v]
      BY <1>2, <3>1 DEF WriteTimeout, TypeOK, Threads
    <3>2. chain'[w] = chain[w] BY <1>2 DEF WriteTimeout
    <3>3. \/ pc'[w] = "idle" /\ chain[w] = <<>>
          \/ pc'[w] = "giveback" /\ msg'[w] = msg[w] /\ msg[w] \in Message /\ chain[w] # <<>>
      BY <1>2, <1>w DEF WriteTimeout, TypeOK, WriterState
    <3>4. QED BY <3>1, <3>2, <3>3 DEF WriterState
  <2>3. ReaderState' BY <1>2, <1>w DEF WriteTimeout, TypeOK, ReaderState, Threads
  <2>4. QED BY <2>1, <2>2, <2>3
<1>3. CASE AllocBlock(w)
  <2>1. chain[w] \in Seq(Blocks) /\ Len(chain[w]) \in Nat /\ <<>> \in Seq(Blocks)
    BY <1>w, LenProperties, EmptySeq DEF TypeOK
  <2>2. CASE nFree = 0 \/ free = <<>>
    <3>1. TypeOK'
      <4>1. pc' \in [Threads -> Labels] BY <1>3, <2>2 DEF AllocBlock, TypeOK, Labels
      <4>2. nFree' \in Int BY <1>3, <2>1, <2>2 DEF AllocBlock, TypeOK
      <4>3. chain' \in [Threads -> Seq(Blocks)] BY <1>3, <2>1, <2>2 DEF AllocBlock, TypeOK
      <4>4. msg' \in [Writers -> Message \cup {NoMsg}] BY <1>3, <2>2 DEF AllocBlock, TypeOK
      <4>5. QED BY <1>3, <2>2, <4>1, <4>2, <4>3, <4>4 DEF AllocBlock, TypeOK
    <3>2. WriterState' BY <1>3, <1>w, <2>1, <2>2 DEF AllocBlock, TypeOK, WriterState, Threads
    <3>3. ReaderState' BY <1>3, <1>w, <2>1, <2>2 DEF AllocBlock, TypeOK, ReaderState, Threads
    <3>4. QED BY <3>1, <3>2, <3>3
  <2>3. CASE ~(nFree = 0 \/ free = <<>>)
    <3>1. Head(free) \in Blocks /\ Tail(free) \in Seq(Blocks)
      BY <2>3, HeadTailProperties DEF TypeOK
    <3>2. /\ Append(chain[w], Head(free)) \in Seq(Blocks)
          /\ Append(chain[w], Head(free)) # <<>>
      BY <2>1, <3>1, AppendProperties
    <3>3. msg[w] \in Message BY <1>3 DEF AllocBlock, WriterState
    <3>4. Filled(msg[w], Len(chain[w]) + 1)
            \in Contents
      BY <2>1, <3>3, FilledType
    <3>5. TypeOK'
      <4>1. pc' \in [Threads -> Labels] BY <1>3, <2>3 DEF AllocBlock, TypeOK, Labels
      <4>2. free' \in Seq(Blocks) /\ nFree' \in Int
        <5>1. free' = Tail(free) /\ nFree' = nFree - 1 BY <1>3, <2>3 DEF AllocBlock
        <5>2. QED BY <5>1, <3>1 DEF TypeOK
      <4>3. chain' \in [Threads -> Seq(Blocks)] BY <1>3, <2>3, <3>2 DEF AllocBlock, TypeOK
      <4>4. block' \in [Blocks -> Contents]
        BY <1>3, <2>3, <3>1, <3>4 DEF AllocBlock, TypeOK
      <4>5. QED BY <1>3, <2>3, <4>1, <4>2, <4>3, <4>4 DEF AllocBlock, TypeOK
    <3>6. WriterState'
      <4>1. /\ Len(chain[w]) < NumBlocks(msg[w]) /\ NumBlocks(msg[w]) \in Nat
            /\ Len(Append(chain[w], Head(free))) = Len(chain[w]) + 1
        BY <1>3, <2>1, <3>1, <3>3, NumBlocksType, AppendProperties DEF AllocBlock, WriterState
      <4>2. /\ msg' = msg
            /\ chain' = [chain EXCEPT ![w] = Append(chain[w], Head(free))]
            /\ pc' = [pc EXCEPT ![w] =
                       IF Len(chain[w]) + 1 < NumBlocks(msg[w]) THEN "wsem" ELSE "append"]
        BY <1>3, <2>3 DEF AllocBlock
      <4>3. ASSUME NEW v \in Writers, v # w
            PROVE  pc'[v] = pc[v] /\ chain'[v] = chain[v]
        BY <4>2, <4>3 DEF TypeOK, Threads
      <4>4. chain'[w] = Append(chain[w], Head(free)) BY <1>w, <4>2 DEF TypeOK
      <4>5. pc'[w] = IF Len(chain[w]) + 1 < NumBlocks(msg[w]) THEN "wsem" ELSE "append"
        BY <1>w, <4>2 DEF TypeOK
      <4>6. CASE Len(chain[w]) + 1 < NumBlocks(msg[w])
        <5>1. pc'[w] = "wsem" /\ Len(chain'[w]) < NumBlocks(msg'[w])
          BY <4>1, <4>2, <4>4, <4>5, <4>6
        <5>2. QED BY <3>3, <4>2, <4>3, <5>1 DEF WriterState
      <4>7. CASE ~ (Len(chain[w]) + 1 < NumBlocks(msg[w]))
        <5>1. pc'[w] = "append" /\ Len(chain'[w]) = NumBlocks(msg'[w])
          BY <2>1, <4>1, <4>2, <4>4, <4>5, <4>7
        <5>2. QED BY <3>3, <4>2, <4>3, <5>1 DEF WriterState
      <4>8. QED BY <4>6, <4>7
    <3>7. ReaderState'
      BY <1>3, <1>w, <2>3 DEF AllocBlock, TypeOK, ReaderState, Threads
    <3>8. QED BY <3>5, <3>6, <3>7
  <2>4. QED BY <2>2, <2>3
<1>4. CASE AppendUsed(w)
  <2>1. chain[w] \in Seq(Blocks) /\ Len(chain[w]) \in Nat \ {0} /\ <<>> \in Seq(Blocks)
    <3>1. chain[w] \in Seq(Blocks) /\ <<>> \in Seq(Blocks) BY <1>w, EmptySeq DEF TypeOK
    <3>2. Len(chain[w]) = NumBlocks(msg[w]) /\ msg[w] \in Message
      BY <1>4 DEF AppendUsed, WriterState
    <3>3. QED BY <3>1, <3>2, NumBlocksType
  <2>2. chain[w][1] \in Blocks BY <2>1, ElementOfSeq
  <2>3. /\ Add(used, nUsed, chain[w][1]).list \in Seq(Blocks)
        /\ Add(used, nUsed, chain[w][1]).count \in Int
    BY <2>2, AddType DEF TypeOK
  <2>4. used \o chain[w] \in Seq(Blocks) BY <2>1, ConcatProperties DEF TypeOK
  <2>5. TypeOK'
    <3>1. pc' \in [Threads -> Labels] BY <1>4 DEF AppendUsed, TypeOK, Labels
    <3>2. used' \in Seq(Blocks) /\ nUsed' \in Int
      <4>1. CASE NumBlocks(msg[w]) = 1 BY <1>4, <2>3, <4>1 DEF AppendUsed
      <4>2. CASE NumBlocks(msg[w]) # 1 
        <5>1. used' = used \o chain[w] /\ nUsed' = nUsed + Len(chain[w])
          BY <1>4, <4>2 DEF AppendUsed
        <5>2. QED BY <2>1, <2>4, <5>1 DEF TypeOK
      <4>3. QED BY <4>1, <4>2
    <3>3. chain' \in [Threads -> Seq(Blocks)] BY <1>4, <2>1 DEF AppendUsed, TypeOK
    <3>4. QED BY <1>4, <3>1, <3>2, <3>3 DEF AppendUsed, TypeOK
  <2>6. WriterState' BY <1>4, <1>w DEF AppendUsed, TypeOK, WriterState, Threads
  <2>7. ReaderState' BY <1>4, <1>w DEF AppendUsed, TypeOK, ReaderState, Threads
  <2>8. QED BY <2>5, <2>6, <2>7
<1>5. CASE PostRead(w)
  <2>1. TypeOK' BY <1>5, <1>w DEF PostRead, TypeOK, Labels, Released
  <2>2. WriterState' BY <1>5, <1>w DEF PostRead, TypeOK, WriterState, Threads
  <2>3. ReaderState' BY <1>5, <1>w DEF PostRead, TypeOK, ReaderState, Threads
  <2>4. QED BY <2>1, <2>2, <2>3
<1>6. CASE GiveBack(w)
  <2>1. chain[w] \in Seq(Blocks) /\ Len(chain[w]) \in Nat /\ <<>> \in Seq(Blocks)
    BY <1>w, LenProperties, EmptySeq DEF TypeOK
  <2>2. free \o chain[w] \in Seq(Blocks) BY <2>1, ConcatProperties DEF TypeOK
  <2>3. TypeOK' BY <1>6, <1>w, <2>1, <2>2 DEF GiveBack, TypeOK, Labels
  <2>4. WriterState' BY <1>6, <1>w DEF GiveBack, TypeOK, WriterState, Threads
  <2>5. ReaderState' BY <1>6, <1>w DEF GiveBack, TypeOK, ReaderState, Threads
  <2>6. QED BY <2>3, <2>4, <2>5
<1>7. QED BY <1>1, <1>2, <1>3, <1>4, <1>5, <1>6 DEF WriteStep

\* So does a call of Read().
LEMMA TypedRead ==
  ASSUME Typed, NEW r \in Readers, NEW n \in BufSizes, Read(r, n)
  PROVE  Typed'
<1> USE QueueAssumption DEF Typed, Goto, Lists
<1>1. r \in Threads /\ n \in Nat /\ <<>> \in Seq(Part) BY EmptySeq DEF Threads
<1>2. TypeOK' BY <1>1 DEF Read, TypeOK, Labels
<1>3. WriterState' BY <1>1 DEF Read, TypeOK, WriterState, Threads
<1>4. ReaderState' BY <1>1 DEF Read, TypeOK, ReaderState, Threads
<1>5. QED BY <1>2, <1>3, <1>4

\* So does each step of a Read() under way.
LEMMA TypedReadStep ==
  ASSUME Typed, NEW r \in Readers, ReadStep(r)
  PROVE  Typed'
<1> USE QueueAssumption DEF Typed, Goto, Lists
<1>r. r \in Threads BY DEF Threads
<1>c. chain[r] \in Seq(Blocks) /\ Len(chain[r]) \in Nat /\ <<>> \in Seq(Blocks)
  BY <1>r, LenProperties, EmptySeq DEF TypeOK
<1>1. CASE WaitForSemRead(r)
  <2>1. TypeOK' BY <1>1, <1>r DEF WaitForSemRead, TypeOK, Labels
  <2>2. WriterState' BY <1>1, <1>r DEF WaitForSemRead, TypeOK, WriterState, Threads
  <2>3. ReaderState' BY <1>1, <1>r DEF WaitForSemRead, TypeOK, ReaderState, Threads
  <2>4. QED BY <2>1, <2>2, <2>3
<1>2. CASE ReadTimeout(r)
  <2>1. TypeOK' BY <1>2, <1>r DEF ReadTimeout, TypeOK, Labels
  <2>2. WriterState' BY <1>2, <1>r DEF ReadTimeout, TypeOK, WriterState, Threads
  <2>3. ReaderState' BY <1>2, <1>r DEF ReadTimeout, TypeOK, ReaderState, Threads
  <2>4. QED BY <2>1, <2>2, <2>3
<1>3. CASE TakeMessage(r)
  <2> DEFINE n == Extent(used)
             front == SubSeq(used, 1, n)
             rest == SubSeq(used, n + 1, Len(used))
  <2>1. CASE used = <<>> \/ TotalSize(front) > buf[r]
    <3>1. TypeOK' BY <1>3, <1>r, <2>1 DEF TakeMessage, TypeOK, Labels
    <3>2. WriterState' BY <1>3, <1>r, <2>1 DEF TakeMessage, TypeOK, WriterState, Threads
    <3>3. ReaderState' BY <1>3, <1>r, <2>1 DEF TakeMessage, TypeOK, ReaderState, Threads
    <3>4. QED BY <3>1, <3>2, <3>3
  <2>2. CASE ~(used = <<>> \/ TotalSize(front) > buf[r])
    <3>1. used \in Seq(Blocks) /\ used # <<>> BY <2>2 DEF TypeOK
    <3>2. n \in 1 .. Len(used) BY <3>1, ExtentType
    <3>3. front \in Seq(Blocks) /\ front # <<>> /\ rest \in Seq(Blocks)
      BY <3>1, <3>2, CutType
    <3>4. Head(used) \in Blocks BY <3>1, HeadTailProperties
    <3>5. Copy(front) \in Seq(Part) BY <3>3, CopyType
    <3>6. n \in Int BY <3>1, <3>2, LenProperties
    <3> HIDE DEF n, front, rest
    <3>7. /\ pc[r] = "take"
          /\ used' = rest
          /\ nUsed' = nUsed - n
          /\ chain' = [chain EXCEPT ![r] = front]
          /\ \/ pc' = [pc EXCEPT ![r] = "copy"] /\ block' = block /\ got' = got
             \/ /\ pc' = [pc EXCEPT ![r] = "free"]
                /\ got' = [got EXCEPT ![r] = Copy(front)]
                /\ block' = [block EXCEPT ![Head(used)].size = 0]
          /\ UNCHANGED <<free, nFree, writeSem, readSem, msg, sent, buf, owed>>
      BY <1>3, <2>2 DEF TakeMessage, n, front, rest
    <3>8. TypeOK'
      <4>1. pc' \in [Threads -> Labels] BY <3>7 DEF TypeOK, Labels
      <4>2. used' \in Seq(Blocks) /\ nUsed' \in Int BY <3>3, <3>6, <3>7 DEF TypeOK
      <4>3. chain' \in [Threads -> Seq(Blocks)] BY <3>3, <3>7 DEF TypeOK
      <4>4. got' \in [Readers -> Seq(Part)] BY <3>5, <3>7 DEF TypeOK
      <4>5. block' \in [Blocks -> Contents]
        <5>1. [block[Head(used)] EXCEPT !.size = 0] \in Contents
          BY <3>4, ClearedType DEF TypeOK
        <5>2. QED BY <3>4, <3>7, <5>1 DEF TypeOK
      <4>6. QED BY <3>7, <4>1, <4>2, <4>3, <4>4, <4>5 DEF TypeOK
    <3>9. WriterState' BY <1>r, <3>7 DEF TypeOK, WriterState, Threads
    <3>10. ReaderState' BY <1>r, <3>3, <3>7 DEF TypeOK, ReaderState, Threads
    <3>11. QED BY <3>8, <3>9, <3>10
  <2>3. QED BY <2>1, <2>2
<1>4. CASE CopyOut(r)
  <2>1. Copy(chain[r]) \in Seq(Part) BY <1>c, CopyType
  <2>2. TypeOK'
    <3>1. pc' \in [Threads -> Labels] BY <1>4 DEF CopyOut, TypeOK, Labels
    <3>2. got' \in [Readers -> Seq(Part)] BY <1>4, <2>1 DEF CopyOut, TypeOK
    <3>3. block' \in [Blocks -> Contents]
      <4>1. \A b \in Blocks : block[b] \in Contents BY DEF TypeOK
      <4>2. \A b \in Blocks : [block[b] EXCEPT !.size = 0, !.cont = FALSE] \in Contents
        BY <4>1, ClearedType
      <4>3. QED BY <1>4, <4>1, <4>2 DEF CopyOut
    <3>4. QED BY <1>4, <3>1, <3>2, <3>3 DEF CopyOut, TypeOK
  <2>3. WriterState' BY <1>4, <1>r DEF CopyOut, TypeOK, WriterState, Threads
  <2>4. ReaderState' BY <1>4, <1>r DEF CopyOut, TypeOK, ReaderState, Threads
  <2>5. QED BY <2>2, <2>3, <2>4
<1>5. CASE FreeBlocks(r)
  <2>1. free \o chain[r] \in Seq(Blocks) BY <1>c, ConcatProperties DEF TypeOK
  <2>2. ASSUME Len(chain[r]) = 1
        PROVE  /\ Add(free, nFree, chain[r][1]).list \in Seq(Blocks)
               /\ Add(free, nFree, chain[r][1]).count \in Int
    <3>1. chain[r][1] \in Blocks BY <1>c, <2>2, ElementOfSeq
    <3>2. QED BY <3>1, AddType DEF TypeOK
  <2>3. TypeOK'
    <3>1. pc' \in [Threads -> Labels] BY <1>5 DEF FreeBlocks, TypeOK, Labels
    <3>2. free' \in Seq(Blocks) /\ nFree' \in Int
      <4>1. CASE Len(chain[r]) = 1 BY <1>5, <2>2, <4>1 DEF FreeBlocks
      <4>2. CASE Len(chain[r]) # 1 
        <5>1. free' = free \o chain[r] /\ nFree' = nFree + Len(chain[r])
          BY <1>5, <4>2 DEF FreeBlocks
        <5>2. QED BY <1>c, <2>1, <5>1 DEF TypeOK
      <4>3. QED BY <4>1, <4>2
    <3>3. chain' \in [Threads -> Seq(Blocks)] /\ owed' \in [Readers -> Nat]
      BY <1>5, <1>c DEF FreeBlocks, TypeOK
    <3>4. QED BY <1>5, <3>1, <3>2, <3>3 DEF FreeBlocks, TypeOK
  <2>4. WriterState' BY <1>5, <1>r DEF FreeBlocks, TypeOK, WriterState, Threads
  <2>5. ReaderState' BY <1>5, <1>r DEF FreeBlocks, TypeOK, ReaderState, Threads
  <2>6. QED BY <2>3, <2>4, <2>5
<1>6. CASE ReleaseWrite(r)
  <2>1. TypeOK' BY <1>6, <1>r DEF ReleaseWrite, TypeOK, Labels, Released
  <2>2. WriterState' BY <1>6, <1>r DEF ReleaseWrite, TypeOK, WriterState, Threads
  <2>3. ReaderState' BY <1>6, <1>r DEF ReleaseWrite, TypeOK, ReaderState, Threads
  <2>4. QED BY <2>1, <2>2, <2>3
<1>7. QED BY <1>1, <1>2, <1>3, <1>4, <1>5, <1>6 DEF ReadStep

\* And so does every step of the system, stuttering included.
LEMMA TypedNext == Typed /\ [Next]_vars => Typed'
<1> SUFFICES ASSUME Typed, [Next]_vars PROVE Typed' OBVIOUS
<1>1. CASE UNCHANGED vars
  BY <1>1 DEF vars, Typed, TypeOK, WriterState, ReaderState
<1>2. CASE Next
  BY <1>2, TypedWrite, TypedWriteStep, TypedRead, TypedReadStep DEF Next
<1>3. QED BY <1>1, <1>2

\* Every variable keeps its type, and a thread has a message and blocks where
\* its code uses them.
THEOREM TypeCorrect == Spec => []TypeOK
<1>1. Typed => TypeOK BY DEF Typed
<1>2. QED BY <1>1, TypedInit, TypedNext, PTL DEF Spec

-----------------------------------------------------------------------------
(* Lemmas about the blocks of a list. *)

\* The blocks of a list are the values of its positions.
LEMMA SetOf ==
  ASSUME NEW s \in Seq(Blocks)
  PROVE  /\ ToSet(s) = {s[i] : i \in 1 .. Len(s)}
         /\ ToSet(s) \in SUBSET Blocks
         /\ Len(s) \in Nat
<1>1. DOMAIN s = 1 .. Len(s) /\ Len(s) \in Nat BY LenProperties
<1>2. \A i \in 1 .. Len(s) : s[i] \in Blocks BY ElementOfSeq
<1>3. QED BY <1>1, <1>2 DEF ToSet

\* The empty list has no blocks and names none twice.
LEMMA NoBlocks == /\ <<>> \in Seq(Blocks)
                  /\ Len(<<>>) = 0
                  /\ ToSet(<<>>) = {}
                  /\ Distinct(<<>>)
BY EmptySeq DEF ToSet, Distinct

\* Append(): one more block, named once if it was not there.
LEMMA OneMore ==
  ASSUME NEW s \in Seq(Blocks), NEW b \in Blocks
  PROVE  /\ Append(s, b) \in Seq(Blocks)
         /\ Len(Append(s, b)) = Len(s) + 1
         /\ ToSet(Append(s, b)) = ToSet(s) \cup {b}
         /\ Distinct(s) /\ b \notin ToSet(s) => Distinct(Append(s, b))
<1>1. /\ Append(s, b) \in Seq(Blocks)
      /\ Len(Append(s, b)) = Len(s) + 1
      /\ \A i \in 1 .. Len(s) : Append(s, b)[i] = s[i]
      /\ Append(s, b)[Len(s) + 1] = b
  BY AppendProperties
<1>2. Len(s) \in Nat /\ ToSet(s) = {s[i] : i \in 1 .. Len(s)} BY SetOf
<1>3. ToSet(Append(s, b)) = {Append(s, b)[i] : i \in 1 .. Len(s) + 1} BY <1>1, SetOf
<1> DEFINE a == Append(s, b)
<1> HIDE DEF a
<1>4. ToSet(a) = ToSet(s) \cup {b}
  <2>1. 1 .. Len(s) + 1 = (1 .. Len(s)) \cup {Len(s) + 1} BY <1>2
  <2>2. QED BY <1>1, <1>2, <1>3, <2>1 DEF a
<1>5. ASSUME Distinct(s), b \notin ToSet(s)
      PROVE  Distinct(a)
  <2> SUFFICES ASSUME NEW i \in 1 .. Len(a), NEW j \in 1 .. Len(a), a[i] = a[j]
               PROVE  i = j
    BY DEF Distinct
  <2>1. \A k \in 1 .. Len(s) : a[k] = s[k] /\ s[k] # b BY <1>1, <1>2, <1>5 DEF a
  <2>2. CASE i = Len(s) + 1 /\ j = Len(s) + 1 BY <2>2
  <2>3. CASE i = Len(s) + 1 /\ j \in 1 .. Len(s) BY <2>1, <2>3, <1>1 DEF a
  <2>4. CASE j = Len(s) + 1 /\ i \in 1 .. Len(s) BY <2>1, <2>4, <1>1 DEF a
  <2>5. CASE i \in 1 .. Len(s) /\ j \in 1 .. Len(s) BY <2>1, <2>5, <1>5 DEF Distinct
  <2>6. QED BY <1>1, <1>2, <2>2, <2>3, <2>4, <2>5 DEF a
<1>6. QED BY <1>1, <1>4, <1>5 DEF a

\* Tail(): one block less.
LEMMA OneLess ==
  ASSUME NEW s \in Seq(Blocks), s # <<>>
  PROVE  /\ Head(s) \in Blocks
         /\ Tail(s) \in Seq(Blocks)
         /\ Len(Tail(s)) = Len(s) - 1
         /\ ToSet(s) = {Head(s)} \cup ToSet(Tail(s))
         /\ Distinct(s) => Distinct(Tail(s)) /\ Head(s) \notin ToSet(Tail(s))
<1> DEFINE t == Tail(s)
           h == Head(s)
<1>1. h \in Blocks /\ t \in Seq(Blocks) /\ Len(t) = Len(s) - 1
  BY HeadTailProperties
<1>2. \A i \in 1 .. Len(t) : t[i] = s[i + 1] BY HeadTailProperties
<1>3. h = s[1] /\ Len(s) \in Nat \ {0} BY EmptySeq
<1>4. ToSet(s) = {s[i] : i \in 1 .. Len(s)} /\ ToSet(t) = {t[i] : i \in 1 .. Len(t)}
  BY <1>1, SetOf
<1> HIDE DEF t, h
<1>5. ToSet(s) = {h} \cup ToSet(t)
  <2>1. ASSUME NEW i \in 1 .. Len(s) PROVE s[i] \in {h} \cup ToSet(t)
    <3>1. CASE i = 1 BY <3>1, <1>3
    <3>2. CASE i # 1
      <4>1. i - 1 \in 1 .. Len(t) /\ (i - 1) + 1 = i BY <1>1, <1>3, <3>2
      <4>2. QED BY <4>1, <1>2, <1>4
    <3>3. QED BY <3>1, <3>2
  <2>2. ASSUME NEW i \in 1 .. Len(t) PROVE t[i] \in ToSet(s)
    <3>1. i + 1 \in 1 .. Len(s) BY <1>1, <1>3
    <3>2. QED BY <3>1, <1>2, <1>4
  <2>3. h \in ToSet(s) BY <1>3, <1>4
  <2>4. QED BY <1>4, <2>1, <2>2, <2>3
<1>6. ASSUME Distinct(s)
      PROVE  Distinct(t) /\ h \notin ToSet(t)
  <2>1. \A i \in 1 .. Len(t) : i + 1 \in 1 .. Len(s) /\ i + 1 # 1 BY <1>1, <1>3
  <2>2. Distinct(t)
    <3>1. ASSUME NEW i \in 1 .. Len(t), NEW j \in 1 .. Len(t), t[i] = t[j] PROVE i = j
      <4>1. i + 1 = j + 1 BY <3>1, <2>1, <1>2, <1>6 DEF Distinct
      <4>2. QED BY <4>1, <1>1, <1>3
    <3>2. QED BY <3>1 DEF Distinct
  <2>3. ASSUME NEW i \in 1 .. Len(t) PROVE t[i] # h
    <3>1. 1 \in 1 .. Len(s) BY <1>3
    <3>2. QED BY <3>1, <2>1, <1>2, <1>3, <1>6 DEF Distinct
  <2>4. QED BY <2>2, <2>3, <1>4
<1>7. QED BY <1>1, <1>5, <1>6 DEF t, h

\* Joining two lists that have no block in common.
LEMMA Joined ==
  ASSUME NEW s \in Seq(Blocks), NEW t \in Seq(Blocks)
  PROVE  /\ s \o t \in Seq(Blocks)
         /\ Len(s \o t) = Len(s) + Len(t)
         /\ ToSet(s \o t) = ToSet(s) \cup ToSet(t)
         /\ Distinct(s) /\ Distinct(t) /\ Apart(s, t) => Distinct(s \o t)
<1> DEFINE u == s \o t
<1>1. /\ u \in Seq(Blocks)
      /\ Len(u) = Len(s) + Len(t)
      /\ \A i \in 1 .. Len(s) + Len(t) : u[i] = IF i <= Len(s) THEN s[i] ELSE t[i - Len(s)]
  BY ConcatProperties
<1> HIDE DEF u
<1>2. /\ ToSet(s) = {s[i] : i \in 1 .. Len(s)} /\ Len(s) \in Nat
      /\ ToSet(t) = {t[i] : i \in 1 .. Len(t)} /\ Len(t) \in Nat
      /\ ToSet(u) = {u[i] : i \in 1 .. Len(u)}
  BY <1>1, SetOf
<1>3. \A i \in 1 .. Len(s) : i \in 1 .. Len(u) /\ u[i] = s[i] BY <1>1, <1>2
<1>4. ASSUME NEW i \in 1 .. Len(t)
      PROVE  i + Len(s) \in 1 .. Len(u) /\ u[i + Len(s)] = t[i]
  <2>1. i + Len(s) \in 1 .. Len(u) /\ ~ (i + Len(s) <= Len(s)) /\ (i + Len(s)) - Len(s) = i
    BY <1>1, <1>2
  <2>2. QED BY <2>1, <1>1
<1>5. ASSUME NEW i \in 1 .. Len(u), ~ (i <= Len(s))
      PROVE  i - Len(s) \in 1 .. Len(t) /\ u[i] = t[i - Len(s)]
  BY <1>1, <1>2, <1>5
<1>6. ASSUME NEW i \in 1 .. Len(u), i <= Len(s)
      PROVE  i \in 1 .. Len(s) /\ u[i] = s[i]
  BY <1>1, <1>2, <1>6
<1>7. ToSet(u) = ToSet(s) \cup ToSet(t)
  <2>1. ASSUME NEW i \in 1 .. Len(u) PROVE u[i] \in ToSet(s) \cup ToSet(t)
    <3>1. CASE i <= Len(s) BY <3>1, <1>2, <1>6
    <3>2. CASE ~ (i <= Len(s)) BY <3>2, <1>2, <1>5
    <3>3. QED BY <3>1, <3>2
  <2>2. \A i \in 1 .. Len(s) : s[i] \in ToSet(u) BY <1>2, <1>3
  <2>3. \A i \in 1 .. Len(t) : t[i] \in ToSet(u) BY <1>2, <1>4
  <2>4. QED BY <1>2, <2>1, <2>2, <2>3
<1>8. ASSUME Distinct(s), Distinct(t), Apart(s, t)
      PROVE  Distinct(u)
  <2> SUFFICES ASSUME NEW i \in 1 .. Len(u), NEW j \in 1 .. Len(u), u[i] = u[j]
               PROVE  i = j
    BY DEF Distinct
  <2>1. \A k \in 1 .. Len(s), l \in 1 .. Len(t) : s[k] # t[l] BY <1>2, <1>8 DEF Apart
  <2>2. CASE i <= Len(s) /\ j <= Len(s) BY <2>2, <1>6, <1>8 DEF Distinct
  <2>3. CASE i <= Len(s) /\ ~ (j <= Len(s)) BY <2>3, <1>5, <1>6, <2>1
  <2>4. CASE ~ (i <= Len(s)) /\ j <= Len(s) BY <2>4, <1>5, <1>6, <2>1
  <2>5. CASE ~ (i <= Len(s)) /\ ~ (j <= Len(s))
    <3>1. i - Len(s) = j - Len(s) BY <2>5, <1>5, <1>8 DEF Distinct
    <3>2. QED BY <3>1, <1>2, <1>1
  <2>6. QED BY <2>2, <2>3, <2>4, <2>5
<1>9. QED BY <1>1, <1>7, <1>8 DEF u

\* The two ends of a list that is cut have no block in common.
LEMMA CutApart ==
  ASSUME NEW s \in Seq(Blocks), NEW n \in 1 .. Len(s)
  PROVE  LET front == SubSeq(s, 1, n)
             rest  == SubSeq(s, n + 1, Len(s))
         IN  /\ front \o rest = s
             /\ ToSet(s) = ToSet(front) \cup ToSet(rest)
             /\ Distinct(s) => Distinct(front) /\ Distinct(rest) /\ Apart(front, rest)
<1> DEFINE front == SubSeq(s, 1, n)
           rest  == SubSeq(s, n + 1, Len(s))
<1>1. /\ front \in Seq(Blocks) /\ Len(front) = n /\ \A i \in 1 .. n : front[i] = s[i]
      /\ rest \in Seq(Blocks) /\ Len(rest) = Len(s) - n
      /\ \A i \in 1 .. Len(s) - n : rest[i] = s[n + i]
  BY CutType
<1>2. Len(s) \in Nat /\ n \in Nat BY LenProperties
<1>3. front \o rest = s
  <2>1. /\ 1 \in 1 .. Len(s) + 1 /\ n \in 1 - 1 .. Len(s) /\ Len(s) \in n .. Len(s)
    BY <1>2
  <2>2. SubSeq(s, 1, n) \o SubSeq(s, n + 1, Len(s)) = SubSeq(s, 1, Len(s))
    BY <2>1, ConcatAdjacentSubSeq
  <2>3. QED BY <2>2, SubSeqFull
<1> HIDE DEF front, rest
<1>4. ToSet(s) = ToSet(front) \cup ToSet(rest) BY <1>1, <1>3, Joined
<1>5. /\ ToSet(front) = {front[i] : i \in 1 .. Len(front)}
      /\ ToSet(rest) = {rest[i] : i \in 1 .. Len(rest)}
  BY <1>1, SetOf
<1>6. ASSUME Distinct(s)
      PROVE  Distinct(front) /\ Distinct(rest) /\ Apart(front, rest)
  <2>1. \A i \in 1 .. Len(front) : i \in 1 .. Len(s) /\ i <= n /\ front[i] = s[i]
    BY <1>1, <1>2
  <2>2. \A i \in 1 .. Len(rest) : n + i \in 1 .. Len(s) /\ ~ (n + i <= n) /\ rest[i] = s[n + i]
    BY <1>1, <1>2
  <2>3. Distinct(front) BY <2>1, <1>6 DEF Distinct
  <2>4. Distinct(rest)
    <3>1. ASSUME NEW i \in 1 .. Len(rest), NEW j \in 1 .. Len(rest), rest[i] = rest[j]
          PROVE  i = j
      <4>1. n + i = n + j BY <3>1, <2>2, <1>6 DEF Distinct
      <4>2. QED BY <4>1, <1>1, <1>2
    <3>2. QED BY <3>1 DEF Distinct
  <2>5. ASSUME NEW i \in 1 .. Len(front), NEW j \in 1 .. Len(rest)
        PROVE  front[i] # rest[j]
    BY <2>1, <2>2, <1>6 DEF Distinct
  <2>6. QED BY <2>3, <2>4, <2>5, <1>5 DEF Apart
<1>7. QED BY <1>3, <1>4, <1>6 DEF front, rest

-----------------------------------------------------------------------------
(* Ownership. *)

\* A step of thread t that moves blocks between the two lists and t's chain.
LEMMA Moved ==
  ASSUME Typed, Typed', Ownership, NEW t \in Threads,
         \A u \in Threads \ {t} : chain'[u] = chain[u],
         Distinct(free'), Distinct(used'), Distinct(chain'[t]),
         Apart(free', used'), Apart(chain'[t], free'), Apart(chain'[t], used'),
         ToSet(free') \cup ToSet(used') \cup ToSet(chain'[t])
           \subseteq ToSet(free) \cup ToSet(used) \cup ToSet(chain[t])
  PROVE  Ownership'
<1>1. ASSUME NEW u \in Threads, u # t
      PROVE  /\ Distinct(chain[u])
             /\ ToSet(chain[u]) \cap ToSet(free') = {}
             /\ ToSet(chain[u]) \cap ToSet(used') = {}
             /\ ToSet(chain[u]) \cap ToSet(chain'[t]) = {}
  BY <1>1 DEF Ownership, Apart
<1>2. ASSUME NEW u \in Threads
      PROVE  Distinct(chain'[u]) /\ Apart(chain'[u], free') /\ Apart(chain'[u], used')
  <2>1. CASE u = t BY <2>1
  <2>2. CASE u # t BY <2>2, <1>1 DEF Apart
  <2>3. QED BY <2>1, <2>2
<1>3. ASSUME NEW u \in Threads, NEW v \in Threads, u # v
      PROVE  Apart(chain'[u], chain'[v])
  <2>1. CASE u = t BY <2>1, <1>1, <1>3 DEF Apart
  <2>2. CASE v = t BY <2>2, <1>1, <1>3 DEF Apart
  <2>3. CASE u # t /\ v # t BY <2>3, <1>3 DEF Ownership
  <2>4. QED BY <2>1, <2>2, <2>3
<1>4. QED BY <1>2, <1>3 DEF Ownership

\* Create() puts every block on the free list, once.
LEMMA OwnershipInit == Init => Ownership
<1> SUFFICES ASSUME Init PROVE Ownership OBVIOUS
<1>1. Distinct(free) /\ Distinct(used) /\ ToSet(used) = {}
  BY QueueAssumption, NoBlocks DEF Init, Distinct
<1>2. \A t \in Threads : chain[t] = <<>> BY DEF Init
<1>3. QED BY <1>1, <1>2, NoBlocks DEF Ownership, Apart

\* No step puts a block in two places.
LEMMA OwnershipNext == Typed /\ Typed' /\ Ownership /\ [Next]_vars => Ownership'
<1> SUFFICES ASSUME Typed, Typed', Ownership, [Next]_vars
             PROVE  Ownership'
  OBVIOUS
<1>0. /\ free \in Seq(Blocks) /\ used \in Seq(Blocks)
      /\ chain \in [Threads -> Seq(Blocks)]
  BY DEF Typed, TypeOK
<1>1. CASE UNCHANGED <<free, used, chain>>
  BY <1>1 DEF Ownership
<1>2. ASSUME NEW w \in Writers, AllocBlock(w)
      PROVE  Ownership'
  <2>1. w \in Threads /\ chain[w] \in Seq(Blocks) BY <1>0 DEF Threads
  <2>2. CASE nFree = 0 \/ free = <<>>
    <3>1. /\ UNCHANGED <<free, used>>
          /\ chain' = [chain EXCEPT ![w] = <<>>]
      BY <1>2, <2>2 DEF AllocBlock
    <3>2. chain'[w] = <<>> /\ \A u \in Threads \ {w} : chain'[u] = chain[u]
      BY <1>0, <2>1, <3>1
    <3>3. QED BY <2>1, <3>1, <3>2, NoBlocks, Moved DEF Ownership, Apart
  <2>3. CASE ~ (nFree = 0 \/ free = <<>>)
    <3>1. /\ free' = Tail(free) /\ used' = used
          /\ chain' = [chain EXCEPT ![w] = Append(chain[w], Head(free))]
      BY <1>2, <2>3 DEF AllocBlock
    <3>2. /\ chain'[w] = Append(chain[w], Head(free))
          /\ \A u \in Threads \ {w} : chain'[u] = chain[u]
      BY <1>0, <2>1, <3>1
    <3>3. /\ Head(free) \in Blocks
          /\ ToSet(free) = {Head(free)} \cup ToSet(free')
          /\ Distinct(free') /\ Head(free) \notin ToSet(free')
      BY <1>0, <2>3, <3>1, OneLess DEF Ownership
    <3>4. Head(free) \notin ToSet(chain[w]) /\ Head(free) \notin ToSet(used)
      BY <2>1, <3>3 DEF Ownership, Apart
    <3>5. ToSet(chain'[w]) = ToSet(chain[w]) \cup {Head(free)} /\ Distinct(chain'[w])
      BY <2>1, <3>2, <3>3, <3>4, OneMore DEF Ownership
    <3>6. /\ ToSet(chain[w]) \cap ToSet(free) = {} /\ ToSet(chain[w]) \cap ToSet(used) = {}
          /\ ToSet(free) \cap ToSet(used) = {} /\ Distinct(used)
      BY <2>1 DEF Ownership, Apart
    <3>7. Apart(free', used') /\ Apart(chain'[w], free') /\ Apart(chain'[w], used')
      BY <3>1, <3>3, <3>4, <3>5, <3>6 DEF Apart
    <3>8. ToSet(free') \cup ToSet(used') \cup ToSet(chain'[w])
            = ToSet(free) \cup ToSet(used) \cup ToSet(chain[w])
      BY <3>1, <3>3, <3>5
    <3>9. QED BY <2>1, <3>1, <3>2, <3>3, <3>5, <3>6, <3>7, <3>8, Moved
  <2>4. QED BY <2>2, <2>3
<1>3. ASSUME NEW w \in Writers, AppendUsed(w)
      PROVE  Ownership'
  <2>1. /\ w \in Threads /\ chain[w] \in Seq(Blocks) /\ Len(chain[w]) \in Nat \ {0}
        /\ nUsed \in Int
    <3>1. w \in Threads /\ chain[w] \in Seq(Blocks) /\ nUsed \in Int
      BY <1>0 DEF Threads, Typed, TypeOK
    <3>2. Len(chain[w]) = NumBlocks(msg[w]) /\ msg[w] \in Message
      BY <1>3 DEF AppendUsed, Typed, WriterState
    <3>3. QED BY <3>1, <3>2, NumBlocksType
  <2>2. /\ free' = free
        /\ chain'[w] = <<>>
        /\ \A u \in Threads \ {w} : chain'[u] = chain[u]
    BY <1>0, <1>3, <2>1 DEF AppendUsed
  <2>3. /\ Distinct(free) /\ Distinct(used) /\ Distinct(chain[w])
        /\ Apart(free, used) /\ Apart(chain[w], free) /\ Apart(chain[w], used)
        /\ Apart(used, chain[w])
    BY <2>1 DEF Ownership, Apart
  <2>4. chain[w][1] \in Blocks /\ chain[w][1] \in ToSet(chain[w])
    BY <2>1, SetOf, ElementOfSeq
  <2>5. \/ used' = used
        \/ used' = Append(used, chain[w][1])
        \/ used' = used \o chain[w]
    <3>1. CASE NumBlocks(msg[w]) = 1
      BY <1>0, <1>3, <2>1, <2>4, <3>1, AddType DEF AppendUsed
    <3>2. CASE NumBlocks(msg[w]) # 1 BY <1>3, <3>2 DEF AppendUsed
    <3>3. QED BY <3>1, <3>2
  <2>6. Distinct(used') /\ ToSet(used') \subseteq ToSet(used) \cup ToSet(chain[w])
    <3>1. CASE used' = used BY <3>1, <2>3
    <3>2. CASE used' = Append(used, chain[w][1])
      BY <1>0, <2>3, <2>4, <3>2, OneMore DEF Apart
    <3>3. CASE used' = used \o chain[w] BY <1>0, <2>1, <2>3, <3>3, Joined
    <3>4. QED BY <2>5, <3>1, <3>2, <3>3
  <2>7. QED BY <2>1, <2>2, <2>3, <2>6, NoBlocks, Moved DEF Apart
<1>4. ASSUME NEW w \in Writers, GiveBack(w)
      PROVE  Ownership'
  <2>1. w \in Threads /\ chain[w] \in Seq(Blocks) BY <1>0 DEF Threads
  <2>2. /\ used' = used /\ free' = free \o chain[w]
        /\ chain'[w] = <<>>
        /\ \A u \in Threads \ {w} : chain'[u] = chain[u]
    BY <1>0, <1>4, <2>1 DEF GiveBack
  <2>3. /\ Distinct(free) /\ Distinct(used) /\ Distinct(chain[w])
        /\ Apart(free, used) /\ Apart(chain[w], used) /\ Apart(free, chain[w])
    BY <2>1 DEF Ownership, Apart
  <2>4. Distinct(free') /\ ToSet(free') = ToSet(free) \cup ToSet(chain[w])
    BY <1>0, <2>1, <2>2, <2>3, Joined
  <2>5. QED BY <2>1, <2>2, <2>3, <2>4, NoBlocks, Moved DEF Apart
<1>5. ASSUME NEW r \in Readers, TakeMessage(r)
      PROVE  Ownership'
  <2> DEFINE n == Extent(used)
             front == SubSeq(used, 1, n)
             rest == SubSeq(used, n + 1, Len(used))
  <2>1. r \in Threads BY DEF Threads
  <2>2. CASE used = <<>> \/ TotalSize(front) > buf[r]
    BY <1>1, <1>5, <2>2 DEF TakeMessage, Lists
  <2>3. CASE ~ (used = <<>> \/ TotalSize(front) > buf[r])
    <3>1. n \in 1 .. Len(used) BY <1>0, <2>3, ExtentType DEF Typed
    <3>2. /\ ToSet(used) = ToSet(front) \cup ToSet(rest)
          /\ Distinct(front) /\ Distinct(rest) /\ Apart(front, rest)
      BY <1>0, <3>1, CutApart DEF Ownership
    <3> HIDE DEF n, front, rest
    <3>3. /\ free' = free /\ used' = rest
          /\ chain' = [chain EXCEPT ![r] = front]
      BY <1>5, <2>3 DEF TakeMessage, n, front, rest
    <3>4. chain'[r] = front /\ \A u \in Threads \ {r} : chain'[u] = chain[u]
      BY <1>0, <2>1, <3>3
    <3>5. Distinct(free) /\ Apart(free, used) BY DEF Ownership
    <3>6. QED BY <2>1, <3>2, <3>3, <3>4, <3>5, Moved DEF Apart
  <2>4. QED BY <2>2, <2>3
<1>6. ASSUME NEW r \in Readers, FreeBlocks(r)
      PROVE  Ownership'
  <2>1. r \in Threads /\ chain[r] \in Seq(Blocks) /\ nFree \in Int
    BY <1>0 DEF Threads, Typed, TypeOK
  <2>2. /\ used' = used
        /\ chain'[r] = <<>>
        /\ \A u \in Threads \ {r} : chain'[u] = chain[u]
    BY <1>0, <1>6, <2>1 DEF FreeBlocks
  <2>3. /\ Distinct(free) /\ Distinct(used) /\ Distinct(chain[r])
        /\ Apart(free, used) /\ Apart(chain[r], used) /\ Apart(free, chain[r])
    BY <2>1 DEF Ownership, Apart
  <2>4. Distinct(free') /\ ToSet(free') \subseteq ToSet(free) \cup ToSet(chain[r])
    <3>1. CASE Len(chain[r]) = 1
      <4>1. chain[r][1] \in Blocks /\ chain[r][1] \in ToSet(chain[r])
        BY <2>1, <3>1, SetOf, ElementOfSeq
      <4>2. free' = free \/ free' = Append(free, chain[r][1])
        BY <1>0, <1>6, <2>1, <3>1, <4>1, AddType DEF FreeBlocks
      <4>3. CASE free' = free BY <4>3, <2>3
      <4>4. CASE free' = Append(free, chain[r][1])
        <5>1. chain[r][1] \notin ToSet(free) BY <2>3, <4>1 DEF Apart
        <5>2. QED BY <1>0, <2>3, <4>1, <4>4, <5>1, OneMore
      <4>5. QED BY <4>2, <4>3, <4>4
    <3>2. CASE Len(chain[r]) # 1
      <4>1. free' = free \o chain[r] BY <1>6, <3>2 DEF FreeBlocks
      <4>2. QED BY <1>0, <2>1, <2>3, <4>1, Joined
    <3>3. QED BY <3>1, <3>2
  <2>5. QED BY <2>1, <2>2, <2>3, <2>4, NoBlocks, Moved DEF Apart
<1>7. ASSUME NEW w \in Writers,
             \/ \E n \in Sizes[w] : Write(w, n)
             \/ WaitForSemWrite(w) \/ WriteTimeout(w) \/ PostRead(w)
      PROVE  Ownership'
  BY <1>1, <1>7 DEF Write, WaitForSemWrite, WriteTimeout, PostRead, Lists
<1>8. ASSUME NEW r \in Readers,
             \/ \E n \in BufSizes : Read(r, n)
             \/ WaitForSemRead(r) \/ ReadTimeout(r) \/ CopyOut(r) \/ ReleaseWrite(r)
      PROVE  Ownership'
  BY <1>1, <1>8 DEF Read, WaitForSemRead, ReadTimeout, CopyOut, ReleaseWrite, Lists
<1>9. CASE UNCHANGED vars
  BY <1>1, <1>9 DEF vars
<1>10. CASE Next
  BY <1>10, <1>2, <1>3, <1>4, <1>5, <1>6, <1>7, <1>8 DEF Next, WriteStep, ReadStep
<1>11. QED BY <1>9, <1>10

\* No block is ever in two places, however the threads interleave.
THEOREM BlocksOwnedOnce == Spec => []Ownership
<1>1. Typed /\ Ownership /\ [Next]_vars => (Typed /\ Ownership)'
  BY TypedNext, OwnershipNext
<1>2. Init => Typed /\ Ownership
  BY TypedInit, OwnershipInit
<1>3. QED BY <1>1, <1>2, PTL DEF Spec

-----------------------------------------------------------------------------
(* Conservation and the tokens of m_hWriteSem.  XQueue loses no block, its   *)
(* counters are the lengths of its lists, and the tokens never outnumber the *)
(* free blocks.  The three hold together or not at all: a token without a    *)
(* block would take GetFreeBlock() into its NO_FREE branch, which loses      *)
(* blocks, and a lost or doubled block would let the tokens outnumber the    *)
(* list.                                                                     *)

\* The sets that WriteTokens counts are finite, and only a server between
\* AddFreeList() and ReleaseSemaphore() owes tokens.
Counted ==
    /\ IsFiniteSet(Allocating)
    /\ IsFiniteSet(OwedBlocks)
    /\ \A r \in Readers : /\ owed[r] <= QueueSize
                          /\ pc[r] # "release" => owed[r] = 0

Safe == Typed /\ Ownership /\ Conservation /\ WriteTokens /\ Counted

\* The blocks that are promised to writers, by m_hWriteSem or by a reader, and a
\* step that promises as many more as it puts on the free list.
Promised == writeSem + Cardinality(Allocating) + Cardinality(OwedBlocks)

Balance == Promised' - Promised = Len(free') - Len(free)

-----------------------------------------------------------------------------
(* Counting. *)

\* A list that names no block twice is as long as it has blocks.
LEMMA ListLength ==
  ASSUME NEW s \in Seq(Blocks), Distinct(s)
  PROVE  Len(s) \in 0 .. QueueSize
<1>1. Len(s) \in Nat /\ DOMAIN s = 1 .. Len(s) /\ ToSet(s) \in SUBSET Blocks
  BY SetOf, LenProperties
<1>2. IsFiniteSet(1 .. Len(s)) /\ Cardinality(1 .. Len(s)) = Len(s)
  BY <1>1, FS_Interval
<1>3. IsFiniteSet(Blocks) /\ Cardinality(Blocks) = QueueSize
  BY QueueAssumption, FS_Interval DEF Blocks
<1>4. s \in [1 .. Len(s) -> Blocks] BY LenProperties
<1>5. s \in Injection(1 .. Len(s), Blocks)
  BY <1>1, <1>4 DEF Injection, IsInjective, Distinct
<1>6. Cardinality(1 .. Len(s)) <= Cardinality(Blocks)
  BY <1>3, <1>5, FS_Injection
<1>7. QED BY <1>1, <1>2, <1>3, <1>6

\* There is room for a block that is not on the list.
LEMMA RoomForOne ==
  ASSUME NEW s \in Seq(Blocks), Distinct(s), NEW b \in Blocks, b \notin ToSet(s)
  PROVE  Len(s) < QueueSize
<1>1. /\ Append(s, b) \in Seq(Blocks) /\ Distinct(Append(s, b))
      /\ Len(Append(s, b)) = Len(s) + 1
  BY OneMore
<1>2. Len(s) \in Nat /\ Len(Append(s, b)) \in 0 .. QueueSize /\ QueueSize \in Nat
  BY <1>1, ListLength, SetOf, QueueAssumption
<1>3. QED BY <1>1, <1>2

\* So Add() always adds when its counter is right.
LEMMA AddAdds ==
  ASSUME NEW s \in Seq(Blocks), Distinct(s), NEW b \in Blocks, b \notin ToSet(s)
  PROVE  /\ Add(s, Len(s), b).list = Append(s, b)
         /\ Add(s, Len(s), b).count = Len(s) + 1
BY RoomForOne, SetOf, QueueAssumption DEF Add

\* The tokens that one reader owes are as many as its owed says.
LEMMA Column ==
  ASSUME NEW r, NEW n \in Nat
  PROVE  IsFiniteSet({r} \X (1 .. n)) /\ Cardinality({r} \X (1 .. n)) = n
<1>1. IsFiniteSet({r}) /\ Cardinality({r}) = 1 BY FS_Singleton
<1>2. IsFiniteSet(1 .. n) /\ Cardinality(1 .. n) = n BY FS_Interval
<1>3. /\ IsFiniteSet({r} \X (1 .. n))
      /\ Cardinality({r} \X (1 .. n)) = Cardinality({r}) * Cardinality(1 .. n)
  BY <1>1, <1>2, FS_Product
<1>4. QED BY <1>1, <1>2, <1>3

\* A step of t alone leaves the allocating writers alone when t is not one.
LEMMA SameAllocating ==
  ASSUME NEW t \in Threads, pc[t] # "alloc", pc'[t] # "alloc",
         \A u \in Threads \ {t} : pc'[u] = pc[u]
  PROVE  Allocating' = Allocating
<1>1. ASSUME NEW w \in Writers PROVE pc'[w] = "alloc" <=> pc[w] = "alloc"
  <2>1. w \in Threads BY DEF Threads
  <2>2. CASE w = t BY <2>2
  <2>3. CASE w # t BY <2>1, <2>3
  <2>4. QED BY <2>2, <2>3
<1>2. QED BY <1>1 DEF Allocating

\* A step that moves blocks between the two lists and t's chain, losing none.
LEMMA NoneLost ==
  ASSUME Conservation, NEW t \in Threads,
         \A u \in Threads \ {t} : chain'[u] = chain[u],
         ToSet(free') \cup ToSet(used') \cup ToSet(chain'[t])
           = ToSet(free) \cup ToSet(used) \cup ToSet(chain[t])
  PROVE  Blocks = ToSet(free') \cup ToSet(used') \cup UNION {ToSet(chain'[u]) : u \in Threads}
<1> DEFINE Rest == UNION {ToSet(chain[u]) : u \in Threads \ {t}}
<1>1. UNION {ToSet(chain[u]) : u \in Threads} = ToSet(chain[t]) \cup Rest
  OBVIOUS
<1>2. UNION {ToSet(chain'[u]) : u \in Threads} = ToSet(chain'[t]) \cup Rest
  OBVIOUS
<1> HIDE DEF Rest
<1>3. QED BY <1>1, <1>2 DEF Conservation

-----------------------------------------------------------------------------
\* Create() starts with a token for every block.
LEMMA SafeInit == Init => Safe
<1> SUFFICES ASSUME Init PROVE Safe OBVIOUS
<1>1. Typed /\ Ownership BY TypedInit, OwnershipInit
<1>2. /\ free \in Seq(Blocks) /\ Len(free) = QueueSize
      /\ DOMAIN free = 1 .. QueueSize
  BY <1>1, QueueAssumption DEF Init, Typed, TypeOK
<1>3. Conservation
  <2>1. nFree = Len(free) /\ nUsed = Len(used) BY <1>2 DEF Init
  <2>2. ASSUME NEW b \in Blocks PROVE b \in ToSet(free)
    <3>1. b + 1 \in 1 .. QueueSize /\ free[b + 1] = b BY QueueAssumption DEF Blocks, Init
    <3>2. QED BY <1>2, <3>1 DEF ToSet
  <2>3. ToSet(free) \subseteq Blocks BY <1>2, SetOf
  <2>4. ToSet(used) = {} /\ \A t \in Threads : ToSet(chain[t]) = {}
    BY NoBlocks DEF Init
  <2>5. QED BY <2>1, <2>2, <2>3, <2>4 DEF Conservation
<1>4. Allocating = {} BY DEF Init, Allocating, Threads
<1>5. OwedBlocks = {} BY DEF Init, OwedBlocks
<1>6. WriteTokens
  BY <1>2, <1>4, <1>5, FS_EmptySet, QueueAssumption DEF WriteTokens, Init
<1>7. Counted
  BY <1>4, <1>5, FS_EmptySet, QueueAssumption DEF Counted, Init
<1>8. QED BY <1>1, <1>3, <1>6, <1>7 DEF Safe

\* What a step does to the counted sets when no thread gets or uses a token of
\* m_hWriteSem, or owes one.
LEMMA SameTokens ==
  ASSUME Safe, Typed', Ownership', NEW t \in Threads,
         Conservation', Len(free') >= Len(free),
         pc[t] # "alloc", pc'[t] # "alloc", pc'[t] # "release", pc[t] # "release",
         \A u \in Threads \ {t} : pc'[u] = pc[u],
         writeSem' = writeSem, owed' = owed
  PROVE  Safe' /\ (Len(free') = Len(free) => Balance)
<1>1. Allocating' = Allocating BY SameAllocating
<1>2. OwedBlocks' = OwedBlocks BY DEF OwedBlocks
<1>3. Len(free) \in Nat /\ Len(free') \in Nat BY SetOf DEF Safe, Typed, TypeOK
<1>4. writeSem \in Nat /\ Cardinality(Allocating) \in Nat /\ Cardinality(OwedBlocks) \in Nat
  BY QueueAssumption, FS_CardinalityType DEF Safe, Typed, TypeOK, Counted
<1>5. WriteTokens' BY <1>1, <1>2, <1>3, <1>4 DEF Safe, WriteTokens
<1>6. Counted'
  <2>1. ASSUME NEW r \in Readers, pc'[r] # "release" PROVE pc[r] # "release"
    BY <2>1 DEF Threads
  <2>2. QED BY <1>1, <1>2, <2>1 DEF Safe, Counted
<1>7. Len(free') = Len(free) => Balance BY <1>1, <1>2, <1>3, <1>4 DEF Balance, Promised
<1>8. QED BY <1>5, <1>6, <1>7 DEF Safe

\* A writer that has its token finds a block on the free list.
LEMMA FreeThere ==
  ASSUME Safe, NEW w \in Writers, pc[w] = "alloc"
  PROVE  free # <<>> /\ nFree # 0
<1>1. /\ IsFiniteSet(Allocating) /\ Cardinality(Allocating) \in Nat
      /\ Cardinality(OwedBlocks) \in Nat
      /\ writeSem + Cardinality(Allocating) + Cardinality(OwedBlocks) <= Len(free)
  BY FS_CardinalityType DEF Safe, Counted, WriteTokens
<1>2. w \in Allocating BY DEF Allocating
<1>3. Cardinality(Allocating) # 0 BY <1>1, <1>2, FS_EmptySet
<1>4. /\ free \in Seq(Blocks) /\ Len(free) \in Nat /\ nFree = Len(free)
      /\ writeSem \in 0 .. QueueSize
  BY SetOf DEF Safe, Typed, TypeOK, Conservation
<1>5. Len(free) > 0 BY <1>1, <1>3, <1>4
<1>6. QED BY <1>4, <1>5, EmptySeq

\* A step of a Write() loses no block and makes no token; only GiveBack() loses some.
LEMMA SafeWriteStep ==
  ASSUME Safe, Typed', Ownership', NEW w \in Writers, WriteStep(w)
  PROVE  Safe' /\ (GiveBack(w) \/ Balance)
<1>0. /\ w \in Threads /\ w \notin Readers
      /\ free \in Seq(Blocks) /\ used \in Seq(Blocks) /\ chain \in [Threads -> Seq(Blocks)]
      /\ pc \in [Threads -> Labels]
      /\ writeSem \in 0 .. QueueSize /\ owed \in [Readers -> Nat]
      /\ chain[w] \in Seq(Blocks)
      /\ nFree = Len(free) /\ nUsed = Len(used) /\ Len(free) \in Nat /\ Len(used) \in Nat
  BY QueueAssumption, SetOf DEF Threads, Safe, Typed, TypeOK, Conservation
<1>a. /\ IsFiniteSet(Allocating) /\ Cardinality(Allocating) \in Nat
      /\ Cardinality(OwedBlocks) \in Nat
      /\ writeSem + Cardinality(Allocating) + Cardinality(OwedBlocks) <= Len(free)
  BY FS_CardinalityType DEF Safe, Counted, WriteTokens
<1>1. CASE WaitForSemWrite(w)
  <2>1. /\ pc[w] = "wsem" /\ writeSem > 0 /\ writeSem' = writeSem - 1
        /\ pc' = [pc EXCEPT ![w] = "alloc"]
        /\ free' = free /\ nFree' = nFree /\ used' = used /\ nUsed' = nUsed
        /\ chain' = chain /\ owed' = owed
    BY <1>1 DEF WaitForSemWrite, Goto, Lists
  <2>2. Allocating' = Allocating \cup {w} /\ w \notin Allocating
    BY <1>0, <2>1 DEF Allocating, Threads
  <2>3. IsFiniteSet(Allocating') /\ Cardinality(Allocating') = Cardinality(Allocating) + 1
    BY <1>a, <2>2, FS_AddElement
  <2>4. OwedBlocks' = OwedBlocks BY <2>1 DEF OwedBlocks
  <2>5. WriteTokens' BY <1>0, <1>a, <2>1, <2>3, <2>4 DEF WriteTokens
  <2>6. \A r \in Readers : pc'[r] = pc[r] BY <1>0, <2>1 DEF Threads
  <2>7. Counted' BY <2>1, <2>3, <2>4, <2>6 DEF Safe, Counted
  <2>8. Conservation' BY <2>1 DEF Safe, Conservation
  <2>9. Balance BY <1>0, <1>a, <2>1, <2>3, <2>4 DEF Balance, Promised
  <2>10. QED BY <2>5, <2>7, <2>8, <2>9 DEF Safe
<1>2. CASE AllocBlock(w)
  <2>1. pc[w] = "alloc" BY <1>2 DEF AllocBlock
  <2>2. w \in Allocating BY <2>1 DEF Allocating
  <2>5. ~ (nFree = 0 \/ free = <<>>) BY <2>1, FreeThere
  <2>6. /\ free' = Tail(free) /\ nFree' = nFree - 1
        /\ chain' = [chain EXCEPT ![w] = Append(chain[w], Head(free))]
        /\ pc' = [pc EXCEPT ![w] = IF Len(chain[w]) + 1 < NumBlocks(msg[w]) THEN "wsem" ELSE "append"]
        /\ used' = used /\ nUsed' = nUsed /\ writeSem' = writeSem /\ owed' = owed
    BY <1>2, <2>5 DEF AllocBlock, Goto
  <2>7. /\ Head(free) \in Blocks
        /\ Len(free') = Len(free) - 1
        /\ ToSet(free) = {Head(free)} \cup ToSet(free')
    BY <1>0, <2>5, <2>6, OneLess
  <2>8. Conservation'
    <3>1. /\ chain'[w] = Append(chain[w], Head(free))
          /\ \A u \in Threads \ {w} : chain'[u] = chain[u]
      BY <1>0, <2>6
    <3>2. ToSet(chain'[w]) = ToSet(chain[w]) \cup {Head(free)}
      BY <1>0, <2>7, <3>1, OneMore
    <3>3. ToSet(free') \cup ToSet(used') \cup ToSet(chain'[w])
            = ToSet(free) \cup ToSet(used) \cup ToSet(chain[w])
      BY <2>6, <2>7, <3>2
    <3>4. Blocks = ToSet(free') \cup ToSet(used') \cup UNION {ToSet(chain'[u]) : u \in Threads}
      BY <1>0, <3>1, <3>3, NoneLost DEF Safe
    <3>5. nFree' = Len(free') /\ nUsed' = Len(used') BY <1>0, <2>6, <2>7
    <3>6. QED BY <3>4, <3>5 DEF Conservation
  <2>9. Allocating' = Allocating \ {w}
    <3>1. pc'[w] # "alloc" /\ \A u \in Threads \ {w} : pc'[u] = pc[u] BY <1>0, <2>6
    <3>2. QED BY <3>1 DEF Allocating, Threads
  <2>10. IsFiniteSet(Allocating') /\ Cardinality(Allocating') = Cardinality(Allocating) - 1
    BY <1>a, <2>2, <2>9, FS_RemoveElement
  <2>11. OwedBlocks' = OwedBlocks BY <2>6 DEF OwedBlocks
  <2>12. WriteTokens' BY <1>0, <1>a, <2>6, <2>7, <2>10, <2>11 DEF WriteTokens
  <2>13. \A r \in Readers : pc'[r] = pc[r] BY <1>0, <2>6 DEF Threads
  <2>14. Counted' BY <2>6, <2>10, <2>11, <2>13 DEF Safe, Counted
  <2>15. Balance BY <1>0, <1>a, <2>6, <2>7, <2>10, <2>11 DEF Balance, Promised
  <2>16. QED BY <2>8, <2>12, <2>14, <2>15 DEF Safe
<1>3. CASE AppendUsed(w)
  <2>1. /\ pc[w] = "append" /\ pc' = [pc EXCEPT ![w] = "post"]
        /\ free' = free /\ nFree' = nFree /\ writeSem' = writeSem /\ owed' = owed
        /\ chain'[w] = <<>>
        /\ \A u \in Threads \ {w} : chain'[u] = chain[u]
    BY <1>0, <1>3 DEF AppendUsed, Goto
  <2>2. Distinct(used) /\ Distinct(chain[w]) /\ ToSet(chain[w]) \cap ToSet(used) = {}
    BY <1>0 DEF Safe, Ownership, Apart
  <2>3. nUsed' = Len(used') /\ ToSet(used') = ToSet(used) \cup ToSet(chain[w])
    <3>1. CASE NumBlocks(msg[w]) = 1
      <4>1. PICK b \in Blocks : chain[w][1] = b /\ ToSet(chain[w]) = {b}
        <5>1. Len(chain[w]) = 1 BY <2>1, <3>1 DEF Safe, Typed, WriterState
        <5>2. chain[w][1] \in Blocks /\ ToSet(chain[w]) = {chain[w][1]}
          <6>1. ToSet(chain[w]) = {chain[w][i] : i \in 1 .. 1} BY <1>0, <5>1, SetOf
          <6>2. 1 \in 1 .. Len(chain[w]) BY <5>1
          <6>3. chain[w][1] \in Blocks BY <1>0, <6>2, ElementOfSeq
          <6>4. QED BY <6>1, <6>3
        <5>3. QED BY <1>0, <5>1, <5>2
      <4>2. b \notin ToSet(used) BY <2>2, <4>1
      <4>3. used' = Append(used, b) /\ nUsed' = Len(used) + 1
        BY <1>0, <1>3, <2>2, <3>1, <4>1, <4>2, AddAdds DEF AppendUsed
      <4>4. Len(used') = Len(used) + 1 /\ ToSet(used') = ToSet(used) \cup {b}
        BY <1>0, <4>3, OneMore
      <4>5. QED BY <4>1, <4>3, <4>4
    <3>2. CASE NumBlocks(msg[w]) # 1
      <4>1. used' = used \o chain[w] /\ nUsed' = nUsed + Len(chain[w])
        BY <1>3, <3>2 DEF AppendUsed
      <4>2. QED BY <1>0, <4>1, Joined
    <3>3. QED BY <3>1, <3>2
  <2>4. Blocks = ToSet(free') \cup ToSet(used') \cup UNION {ToSet(chain'[u]) : u \in Threads}
    BY <1>0, <2>1, <2>3, NoBlocks, NoneLost DEF Safe
  <2>5. Conservation' BY <1>0, <2>1, <2>3, <2>4 DEF Conservation
  <2>6. /\ pc'[w] = "post" /\ \A u \in Threads \ {w} : pc'[u] = pc[u]
        /\ Len(free') >= Len(free) /\ Len(free') = Len(free)
    BY <1>0, <2>1
  <2>7. QED BY <1>0, <2>1, <2>5, <2>6, SameTokens
<1>4. CASE GiveBack(w)
  <2>1. /\ pc[w] = "giveback" /\ pc' = [pc EXCEPT ![w] = "idle"]
        /\ free' = free \o chain[w] /\ nFree' = nFree + Len(chain[w])
        /\ used' = used /\ nUsed' = nUsed /\ writeSem' = writeSem /\ owed' = owed
        /\ chain'[w] = <<>>
        /\ \A u \in Threads \ {w} : chain'[u] = chain[u]
    BY <1>0, <1>4 DEF GiveBack, Return, Goto
  <2>2. /\ Len(free') = Len(free) + Len(chain[w]) /\ Len(chain[w]) \in Nat
        /\ ToSet(free') = ToSet(free) \cup ToSet(chain[w])
    BY <1>0, <2>1, Joined, SetOf
  <2>3. Blocks = ToSet(free') \cup ToSet(used') \cup UNION {ToSet(chain'[u]) : u \in Threads}
    BY <1>0, <2>1, <2>2, NoBlocks, NoneLost DEF Safe
  <2>4. Conservation' BY <1>0, <2>1, <2>2, <2>3 DEF Conservation
  <2>5. /\ pc'[w] = "idle" /\ \A u \in Threads \ {w} : pc'[u] = pc[u]
        /\ Len(free') >= Len(free)
    BY <1>0, <2>1, <2>2
  <2>6. Safe' BY <1>0, <2>1, <2>4, <2>5, SameTokens
  <2>7. QED BY <1>4, <2>6
<1>5. CASE WriteTimeout(w) \/ PostRead(w)
  <2>1. /\ free' = free /\ nFree' = nFree /\ used' = used /\ nUsed' = nUsed
        /\ chain' = chain /\ writeSem' = writeSem /\ owed' = owed
        /\ pc[w] \in {"wsem", "post"}
        /\ pc' \in {[pc EXCEPT ![w] = "idle"], [pc EXCEPT ![w] = "giveback"]}
    BY <1>5 DEF WriteTimeout, PostRead, Return, Goto, Lists
  <2>2. Conservation' BY <2>1 DEF Safe, Conservation
  <2>3. /\ pc'[w] \in {"idle", "giveback"} /\ \A u \in Threads \ {w} : pc'[u] = pc[u]
        /\ Len(free') >= Len(free) /\ Len(free') = Len(free)
    BY <1>0, <2>1
  <2>4. QED BY <1>0, <2>1, <2>2, <2>3, SameTokens
<1>6. QED BY <1>1, <1>2, <1>3, <1>4, <1>5 DEF WriteStep

\* A step of a Read() makes a token only for a block it has freed.
LEMMA SafeReadStep ==
  ASSUME Safe, Typed', Ownership', NEW r \in Readers, ReadStep(r)
  PROVE  Safe' /\ Balance
<1>0. /\ r \in Threads /\ r \notin Writers
      /\ free \in Seq(Blocks) /\ used \in Seq(Blocks) /\ chain \in [Threads -> Seq(Blocks)]
      /\ pc \in [Threads -> Labels]
      /\ writeSem \in 0 .. QueueSize /\ owed \in [Readers -> Nat]
      /\ chain[r] \in Seq(Blocks) /\ Len(chain[r]) \in Nat
      /\ nFree = Len(free) /\ nUsed = Len(used) /\ Len(free) \in Nat /\ Len(used) \in Nat
  BY QueueAssumption, SetOf DEF Threads, Safe, Typed, TypeOK, Conservation
<1>a. /\ IsFiniteSet(Allocating) /\ Cardinality(Allocating) \in Nat
      /\ IsFiniteSet(OwedBlocks) /\ Cardinality(OwedBlocks) \in Nat
      /\ writeSem + Cardinality(Allocating) + Cardinality(OwedBlocks) <= Len(free)
  BY FS_CardinalityType DEF Safe, Counted, WriteTokens
<1>1. CASE WaitForSemRead(r) \/ ReadTimeout(r) \/ CopyOut(r)
  <2>1. /\ free' = free /\ nFree' = nFree /\ used' = used /\ nUsed' = nUsed
        /\ chain' = chain /\ writeSem' = writeSem /\ owed' = owed
        /\ pc[r] \in {"rsem", "copy"}
        /\ pc' \in {[pc EXCEPT ![r] = "idle"], [pc EXCEPT ![r] = "take"], [pc EXCEPT ![r] = "free"]}
    BY <1>1 DEF WaitForSemRead, ReadTimeout, CopyOut, Goto, Lists
  <2>2. Conservation' BY <2>1 DEF Safe, Conservation
  <2>3. /\ pc'[r] \in {"idle", "take", "free"} /\ \A u \in Threads \ {r} : pc'[u] = pc[u]
        /\ Len(free') >= Len(free) /\ Len(free') = Len(free)
    BY <1>0, <2>1
  <2>4. QED BY <1>0, <2>1, <2>2, <2>3, SameTokens
<1>2. CASE TakeMessage(r)
  <2> DEFINE n == Extent(used)
             front == SubSeq(used, 1, n)
             rest == SubSeq(used, n + 1, Len(used))
  <2>1. /\ pc[r] = "take" /\ free' = free /\ nFree' = nFree
        /\ writeSem' = writeSem /\ owed' = owed
        /\ pc' \in {[pc EXCEPT ![r] = "idle"], [pc EXCEPT ![r] = "copy"], [pc EXCEPT ![r] = "free"]}
    BY <1>2 DEF TakeMessage, Goto, Lists
  <2>2. /\ pc'[r] \in {"idle", "copy", "free"} /\ \A u \in Threads \ {r} : pc'[u] = pc[u]
        /\ Len(free') >= Len(free) /\ Len(free') = Len(free)
    BY <1>0, <2>1
  <2>3. Conservation'
    <3>1. CASE used = <<>> \/ TotalSize(front) > buf[r]
      BY <1>2, <3>1 DEF TakeMessage, Lists, Safe, Conservation
    <3>2. CASE ~ (used = <<>> \/ TotalSize(front) > buf[r])
      <4>1. n \in 1 .. Len(used) BY <1>0, <3>2, ExtentType DEF Safe, Typed
      <4>2. ToSet(used) = ToSet(front) \cup ToSet(rest) BY <1>0, <4>1, CutApart
      <4>3. Len(rest) = Len(used) - n BY <1>0, <4>1, CutType
      <4> HIDE DEF n, front, rest
      <4>4. /\ used' = rest /\ nUsed' = nUsed - n
            /\ chain' = [chain EXCEPT ![r] = front]
        BY <1>2, <3>2 DEF TakeMessage, n, front, rest
      <4>5. chain[r] = <<>> BY <2>1 DEF Safe, Typed, ReaderState
      <4>6. chain'[r] = front /\ \A u \in Threads \ {r} : chain'[u] = chain[u]
        BY <1>0, <4>4
      <4>7. ToSet(free') \cup ToSet(used') \cup ToSet(chain'[r])
              = ToSet(free) \cup ToSet(used) \cup ToSet(chain[r])
        BY <2>1, <4>2, <4>4, <4>5, <4>6, NoBlocks
      <4>8. Blocks = ToSet(free') \cup ToSet(used') \cup UNION {ToSet(chain'[u]) : u \in Threads}
        BY <1>0, <4>6, <4>7, NoneLost DEF Safe
      <4>9. QED BY <1>0, <2>1, <4>3, <4>4, <4>8 DEF Conservation
    <3>3. QED BY <3>1, <3>2
  <2>4. QED BY <1>0, <2>1, <2>2, <2>3, SameTokens
<1>3. CASE FreeBlocks(r)
  <2> DEFINE n == Len(chain[r])
             Mine == {r} \X (1 .. n)
  <2>1. /\ pc[r] = "free" /\ pc' = [pc EXCEPT ![r] = "release"]
        /\ owed' = [owed EXCEPT ![r] = n]
        /\ used' = used /\ nUsed' = nUsed /\ writeSem' = writeSem
        /\ chain'[r] = <<>>
        /\ \A u \in Threads \ {r} : chain'[u] = chain[u]
    BY <1>0, <1>3 DEF FreeBlocks, Goto
  <2>2. Distinct(free) /\ Distinct(chain[r]) /\ ToSet(chain[r]) \cap ToSet(free) = {}
    BY <1>0 DEF Safe, Ownership, Apart
  <2>3. /\ nFree' = Len(free') /\ Len(free') = Len(free) + n
        /\ ToSet(free') = ToSet(free) \cup ToSet(chain[r])
    <3>1. CASE n = 1
      <4>1. PICK b \in Blocks : chain[r][1] = b /\ ToSet(chain[r]) = {b}
        <5>1. ToSet(chain[r]) = {chain[r][i] : i \in 1 .. 1} BY <1>0, <3>1, SetOf
        <5>2. 1 \in 1 .. Len(chain[r]) BY <3>1
        <5>3. chain[r][1] \in Blocks BY <1>0, <5>2, ElementOfSeq
        <5>4. QED BY <5>1, <5>3
      <4>2. b \notin ToSet(free) BY <2>2, <4>1
      <4>3. free' = Append(free, b) /\ nFree' = Len(free) + 1
        BY <1>0, <1>3, <2>2, <3>1, <4>1, <4>2, AddAdds DEF FreeBlocks
      <4>4. Len(free') = Len(free) + 1 /\ ToSet(free') = ToSet(free) \cup {b}
        BY <1>0, <4>3, OneMore
      <4>5. QED BY <3>1, <4>1, <4>3, <4>4
    <3>2. CASE n # 1
      <4>1. free' = free \o chain[r] /\ nFree' = nFree + n BY <1>3, <3>2 DEF FreeBlocks
      <4>2. QED BY <1>0, <4>1, Joined
    <3>3. QED BY <3>1, <3>2
  <2>4. Blocks = ToSet(free') \cup ToSet(used') \cup UNION {ToSet(chain'[u]) : u \in Threads}
    BY <1>0, <2>1, <2>3, NoBlocks, NoneLost DEF Safe
  <2>5. Conservation' BY <1>0, <2>1, <2>3, <2>4 DEF Conservation
  <2>6. n \in 0 .. QueueSize /\ n \in Nat BY <1>0, <2>2, ListLength
  <2>7. owed[r] = 0 BY <2>1 DEF Safe, Counted
  <2> HIDE DEF n
  <2>8. OwedBlocks' = OwedBlocks \cup Mine /\ OwedBlocks \cap Mine = {}
    <3>1. ASSUME NEW q \in Readers, NEW i \in 1 .. QueueSize
          PROVE  i <= owed'[q] <=> i <= owed[q] \/ (q = r /\ i <= n)
      <4>1. CASE q = r BY <1>0, <2>1, <2>7, <4>1, QueueAssumption
      <4>2. CASE q # r BY <1>0, <2>1, <4>2
      <4>3. QED BY <4>1, <4>2
    <3>2. ASSUME NEW p \in Readers \X (1 .. QueueSize)
          PROVE  p \in OwedBlocks' <=> p \in OwedBlocks \/ p \in Mine
      <4>1. p[1] \in Readers /\ p[2] \in 1 .. QueueSize /\ p = <<p[1], p[2]>> OBVIOUS
      <4>2. p \in Mine <=> p[1] = r /\ p[2] <= n BY <4>1, <2>6, QueueAssumption
      <4>3. QED BY <3>1, <4>1, <4>2 DEF OwedBlocks
    <3>3. Mine \subseteq Readers \X (1 .. QueueSize) BY <2>6, QueueAssumption
    <3>4. ASSUME NEW p \in OwedBlocks PROVE p \notin Mine
      BY <2>7, QueueAssumption DEF OwedBlocks
    <3>5. OwedBlocks \subseteq Readers \X (1 .. QueueSize)
          /\ OwedBlocks' \subseteq Readers \X (1 .. QueueSize)
      BY DEF OwedBlocks
    <3>6. QED BY <3>2, <3>3, <3>4, <3>5
  <2>9. IsFiniteSet(Mine) /\ Cardinality(Mine) = n BY <2>6, Column
  <2> HIDE DEF Mine
  <2>10. /\ IsFiniteSet(OwedBlocks')
         /\ Cardinality(OwedBlocks') = Cardinality(OwedBlocks) + n
    <3>1. /\ IsFiniteSet(OwedBlocks \cup Mine)
          /\ Cardinality(OwedBlocks \cup Mine)
               = Cardinality(OwedBlocks) + Cardinality(Mine) - Cardinality(OwedBlocks \cap Mine)
      BY <1>a, <2>9, FS_Union
    <3>2. Cardinality(OwedBlocks \cap Mine) = 0 BY <2>8, FS_EmptySet
    <3>3. Cardinality(OwedBlocks \cup Mine) = Cardinality(OwedBlocks) + n
      BY <1>a, <2>6, <2>9, <3>1, <3>2
    <3>4. QED BY <2>8, <3>1, <3>3
  <2>11. Allocating' = Allocating
    <3>1. pc'[r] = "release" /\ \A u \in Threads \ {r} : pc'[u] = pc[u] BY <1>0, <2>1
    <3>2. QED BY <1>0, <2>1, <3>1, SameAllocating
  <2>12. WriteTokens' BY <1>0, <1>a, <2>1, <2>3, <2>6, <2>10, <2>11 DEF WriteTokens
  <2>13. Counted'
    <3>1. ASSUME NEW q \in Readers
          PROVE  owed'[q] <= QueueSize /\ (pc'[q] # "release" => owed'[q] = 0)
      <4>1. CASE q = r BY <1>0, <2>1, <2>6, <4>1
      <4>2. CASE q # r BY <1>0, <2>1, <4>2 DEF Safe, Counted, Threads
      <4>3. QED BY <4>1, <4>2
    <3>2. QED BY <1>a, <2>10, <2>11, <3>1 DEF Counted
  <2>14. Balance BY <1>0, <1>a, <2>1, <2>3, <2>6, <2>10, <2>11 DEF Balance, Promised
  <2>15. QED BY <2>5, <2>12, <2>13, <2>14 DEF Safe
<1>4. CASE ReleaseWrite(r)
  <2> DEFINE n == owed[r]
             Mine == {r} \X (1 .. n)
  <2>1. /\ pc[r] = "release" /\ pc' = [pc EXCEPT ![r] = "idle"]
        /\ owed' = [owed EXCEPT ![r] = 0] /\ writeSem' = Released(writeSem, n)
        /\ free' = free /\ nFree' = nFree /\ used' = used /\ nUsed' = nUsed
        /\ chain' = chain
    BY <1>4 DEF ReleaseWrite, Goto, Lists
  <2>2. Conservation' BY <2>1 DEF Safe, Conservation
  <2>3. n \in Nat /\ n <= QueueSize BY <1>0 DEF Safe, Counted
  <2>4. writeSem' \in Nat /\ writeSem' <= writeSem + n BY <1>0, <2>1, <2>3 DEF Released
  <2>a. Len(free) <= QueueSize
    <3>1. Len(free) \in 0 .. QueueSize BY <1>0, ListLength DEF Safe, Ownership
    <3>2. QED BY <3>1, QueueAssumption
  <2>5. OwedBlocks = OwedBlocks' \cup Mine /\ OwedBlocks' \cap Mine = {}
    <3>1. ASSUME NEW p \in Readers \X (1 .. QueueSize)
          PROVE  /\ p \in OwedBlocks <=> p \in OwedBlocks' \/ p \in Mine
                 /\ ~ (p \in OwedBlocks' /\ p \in Mine)
      <4>1. p[1] \in Readers /\ p[2] \in 1 .. QueueSize /\ p = <<p[1], p[2]>> OBVIOUS
      <4>2. p \in Mine <=> p[1] = r /\ p[2] <= n BY <4>1, <2>3, QueueAssumption
      <4>3. CASE p[1] = r
        <5>1. owed'[p[1]] = 0 BY <1>0, <2>1, <4>3
        <5>2. ~ (p[2] <= 0) BY <4>1, QueueAssumption
        <5>3. QED BY <4>2, <4>3, <5>1, <5>2 DEF OwedBlocks
      <4>4. CASE p[1] # r
        <5>1. owed'[p[1]] = owed[p[1]] BY <1>0, <2>1, <4>1, <4>4
        <5>2. QED BY <4>2, <4>4, <5>1 DEF OwedBlocks
      <4>5. QED BY <4>3, <4>4
    <3>2. Mine \subseteq Readers \X (1 .. QueueSize) BY <2>3, QueueAssumption
    <3>3. OwedBlocks \subseteq Readers \X (1 .. QueueSize)
          /\ OwedBlocks' \subseteq Readers \X (1 .. QueueSize)
      BY DEF OwedBlocks
    <3>4. QED BY <3>1, <3>2, <3>3
  <2>6. IsFiniteSet(Mine) /\ Cardinality(Mine) = n BY <2>3, Column
  <2> HIDE DEF Mine
  <2>7. IsFiniteSet(OwedBlocks') BY <1>a, <2>5, FS_Subset
  <2>8. Cardinality(OwedBlocks) = Cardinality(OwedBlocks') + n
    <3>1. Cardinality(OwedBlocks' \cup Mine)
            = Cardinality(OwedBlocks') + Cardinality(Mine) - Cardinality(OwedBlocks' \cap Mine)
      BY <2>6, <2>7, FS_Union
    <3>2. Cardinality(OwedBlocks') \in Nat BY <2>7, FS_CardinalityType
    <3>3. QED BY <2>3, <2>5, <2>6, <3>1, <3>2, FS_EmptySet
  <2>9. Allocating' = Allocating
    <3>1. pc'[r] = "idle" /\ \A u \in Threads \ {r} : pc'[u] = pc[u] BY <1>0, <2>1
    <3>2. QED BY <1>0, <2>1, <3>1, SameAllocating
  <2>10. Cardinality(OwedBlocks') \in Nat BY <2>7, FS_CardinalityType
  <2> HIDE DEF n
  <2>11. WriteTokens'
    <3> DEFINE a == Cardinality(Allocating)
               o == Cardinality(OwedBlocks')
    <3>1. a \in Nat /\ o \in Nat /\ writeSem \in Nat /\ Len(free) \in Nat
      BY <1>0, <1>a, <2>10
    <3>2. writeSem + a + (o + n) <= Len(free) BY <2>8 DEF Safe, WriteTokens
    <3>3. a = Cardinality(Allocating') /\ Len(free') = Len(free) BY <2>1, <2>9
    <3> HIDE DEF a, o
    <3>4. writeSem' + a + o <= Len(free) BY <2>3, <2>4, <3>1, <3>2
    <3>5. QED BY <3>3, <3>4 DEF WriteTokens, a, o
  <2>12. Counted'
    <3>1. ASSUME NEW q \in Readers
          PROVE  owed'[q] <= QueueSize /\ (pc'[q] # "release" => owed'[q] = 0)
      <4>1. CASE q = r BY <1>0, <2>1, <4>1, QueueAssumption
      <4>2. CASE q # r BY <1>0, <2>1, <4>2 DEF Safe, Counted, Threads
      <4>3. QED BY <4>1, <4>2
    <3>2. QED BY <1>a, <2>7, <2>9, <3>1 DEF Counted
  <2>13. Balance
    <3> DEFINE a == Cardinality(Allocating)
               o == Cardinality(OwedBlocks')
    <3>1. /\ a \in Nat /\ o \in Nat /\ writeSem \in Nat /\ Len(free) \in Nat
          /\ QueueSize \in Nat
      BY <1>0, <1>a, <2>10, QueueAssumption
    <3>2. writeSem + a + (o + n) <= Len(free) BY <2>8 DEF Safe, WriteTokens
    <3>3. a = Cardinality(Allocating') /\ free' = free BY <2>1, <2>9
    <3>4. Promised = writeSem + a + (o + n) BY <2>8 DEF Promised
    <3>5. Promised' = writeSem' + a + o BY <3>3 DEF Promised
    <3> HIDE DEF a, o
    <3>6. writeSem + n <= QueueSize BY <2>3, <2>a, <3>1, <3>2
    <3>7. writeSem' = writeSem + n BY <2>1, <3>6 DEF Released
    <3>8. QED BY <2>3, <3>1, <3>3, <3>4, <3>5, <3>7 DEF Balance
  <2>14. QED BY <2>2, <2>11, <2>12, <2>13 DEF Safe
<1>5. QED BY <1>1, <1>2, <1>3, <1>4 DEF ReadStep

\* So every step keeps the blocks and the tokens in balance, a GiveBack() excepted.
LEMMA SafeStep ==
  ASSUME Safe, [Next]_vars
  PROVE  Safe' /\ (Balance \/ \E w \in Writers : GiveBack(w))
<1>1. Typed' /\ Ownership' BY TypedNext, OwnershipNext DEF Safe
<1>2. ASSUME NEW w \in Writers, NEW n \in Sizes[w], Write(w, n)
      PROVE  Safe' /\ Balance
  <2>1. /\ w \in Threads /\ pc \in [Threads -> Labels] /\ Len(free) \in Nat
    BY SetOf DEF Threads, Safe, Typed, TypeOK
  <2>2. /\ free' = free /\ nFree' = nFree /\ used' = used /\ nUsed' = nUsed
        /\ chain' = chain /\ writeSem' = writeSem /\ owed' = owed
        /\ pc[w] = "idle" /\ (pc' = pc \/ pc' = [pc EXCEPT ![w] = "wsem"])
    BY <1>2 DEF Write, Goto, Lists
  <2>3. Conservation' BY <2>2 DEF Safe, Conservation
  <2>4. /\ pc'[w] \in {"idle", "wsem"} /\ \A u \in Threads \ {w} : pc'[u] = pc[u]
        /\ Len(free') >= Len(free) /\ Len(free') = Len(free)
    BY <2>1, <2>2
  <2>5. QED BY <1>1, <2>1, <2>2, <2>3, <2>4, SameTokens
<1>3. ASSUME NEW r \in Readers, NEW n \in BufSizes, Read(r, n)
      PROVE  Safe' /\ Balance
  <2>1. /\ r \in Threads /\ pc \in [Threads -> Labels] /\ Len(free) \in Nat
    BY SetOf DEF Threads, Safe, Typed, TypeOK
  <2>2. /\ free' = free /\ nFree' = nFree /\ used' = used /\ nUsed' = nUsed
        /\ chain' = chain /\ writeSem' = writeSem /\ owed' = owed
        /\ pc[r] = "idle" /\ pc' = [pc EXCEPT ![r] = "rsem"]
    BY <1>3 DEF Read, Goto, Lists
  <2>3. Conservation' BY <2>2 DEF Safe, Conservation
  <2>4. /\ pc'[r] = "rsem" /\ \A u \in Threads \ {r} : pc'[u] = pc[u]
        /\ Len(free') >= Len(free) /\ Len(free') = Len(free)
    BY <2>1, <2>2
  <2>5. QED BY <1>1, <2>1, <2>2, <2>3, <2>4, SameTokens
<1>4. CASE UNCHANGED vars
  <2>1. Allocating' = Allocating /\ OwedBlocks' = OwedBlocks
    BY <1>4 DEF vars, Allocating, OwedBlocks
  <2>2. Safe'
    BY <1>1, <1>4, <2>1 DEF vars, Safe, Conservation, WriteTokens, Counted
  <2>3. /\ Len(free) \in Nat /\ writeSem \in Int
        /\ Cardinality(Allocating) \in Nat /\ Cardinality(OwedBlocks) \in Nat
    BY SetOf, FS_CardinalityType, QueueAssumption DEF Safe, Typed, TypeOK, Counted
  <2>4. Balance BY <1>4, <2>1, <2>3 DEF vars, Balance, Promised
  <2>5. QED BY <2>2, <2>4
<1>5. CASE Next
  BY <1>1, <1>2, <1>3, <1>5, SafeWriteStep, SafeReadStep DEF Next
<1>6. QED BY <1>4, <1>5

\* The invariant is inductive.
LEMMA SafeNext == Safe /\ [Next]_vars => Safe'
BY SafeStep

\* The inductive invariant holds in every reachable state.
LEMMA AlwaysSafe == Spec => []Safe
BY SafeInit, SafeNext, PTL DEF Spec

\* Every block is on the free list, on the used list or with one thread, and
\* FreeDataBlocks and UsedDataBlocks are the lengths of the lists, whatever
\* writes fail or time out and whatever the threads do in between.
THEOREM NoBlockLost == Spec => []Conservation
<1>1. Safe => Conservation BY DEF Safe
<1>2. QED BY <1>1, AlwaysSafe, PTL

\* A writer that has its token finds a block: GetFreeBlock() never returns
\* NULL to Write(), and the branches for XQUEUE_ERROR_NO_FREE are never taken.
THEOREM TokensBacked == Spec => []WriteTokens
<1>1. Safe => WriteTokens BY DEF Safe
<1>2. QED BY <1>1, AlwaysSafe, PTL

-----------------------------------------------------------------------------
(* Numbers and sets of numbers. *)

\* Multiplication is monotonic.
LEMMA Times ==
  ASSUME NEW a \in Int, NEW b \in Int, NEW d \in Nat, a <= b
  PROVE  a * d <= b * d
<1>1. b - a \in Nat OBVIOUS
<1>2. (b - a) * d \in Nat BY <1>1
<1>3. (b - a) * d = b * d - a * d OBVIOUS
<1>4. a * d \in Int /\ b * d \in Int OBVIOUS
<1>5. QED BY <1>2, <1>3, <1>4

\* What Write() takes: a message of a size that it does not refuse.
Sendable == {m \in Message : ~ Refused(m.size)}

\* Bytes remain after block j of a message exactly when it is not the last one.
LEMMA FlagOnAllButLast ==
  ASSUME NEW m \in Sendable, NEW j \in 1 .. NumBlocks(m)
  PROVE  j * DataSize < m.size <=> j < NumBlocks(m)
<1> DEFINE d == DataSize
           n == m.size
           q == n \div d
           r == n % d
<1>1. n \in Nat \ {0} /\ d \in Nat \ {0}
  BY QueueAssumption DEF Sendable, Message, Refused
<1>2. q \in Nat /\ r \in 0 .. d - 1 /\ n = q * d + r
  <2> HIDE DEF n, d
  <2>1. QED BY <1>1
<1>3. NumBlocks(m) = IF r # 0 THEN q + 1 ELSE q
  <2>1. CalculateNoBlocks(n) = LET all == IF r # 0 THEN q + 1 ELSE q
                               IN  IF all = 0 THEN 1 ELSE all
    BY DEF CalculateNoBlocks
  <2>2. r = 0 => q # 0
    <3> HIDE DEF n, d, q, r
    <3>1. QED BY <1>1, <1>2
  <2> HIDE DEF n, d, q, r
  <2>3. QED BY <2>1, <2>2, <1>2 DEF NumBlocks, n
<1> HIDE DEF n, d, q, r
<1>4. j \in Int /\ 1 <= j /\ j <= NumBlocks(m) /\ q * d \in Int /\ j * d \in Int
  BY <1>1, <1>2, <1>3
<1>5. CASE r = 0
  <2>1. NumBlocks(m) = q BY <1>3, <1>5
  <2>2. CASE j < q
    <3>1. (j + 1) * d <= q * d BY <1>1, <1>2, <1>4, <2>2, Times
    <3>2. (j + 1) * d = j * d + d BY <1>1, <1>4
    <3>3. QED BY <1>1, <1>2, <1>4, <1>5, <2>1, <2>2, <3>1, <3>2 DEF n, d
  <2>3. CASE j = q BY <1>1, <1>2, <1>4, <1>5, <2>1, <2>3 DEF n, d
  <2>4. QED BY <1>2, <1>4, <2>1, <2>2, <2>3
<1>6. CASE r # 0
  <2>1. NumBlocks(m) = q + 1 BY <1>3, <1>6
  <2>2. CASE j <= q
    <3>1. j * d <= q * d BY <1>1, <1>2, <1>4, <2>2, Times
    <3>2. j * d < n BY <1>1, <1>2, <1>4, <1>6, <3>1
    <3>3. QED BY <1>2, <1>4, <2>1, <2>2, <3>2 DEF n, d
  <2>3. CASE j = q + 1
    <3>1. j * d = q * d + d BY <1>1, <1>2, <2>3
    <3>2. ~ (j * d < n) BY <1>1, <1>2, <1>4, <3>1
    <3>3. QED BY <1>2, <1>4, <2>1, <2>3, <3>2 DEF n, d
  <2>4. QED BY <1>2, <1>4, <2>1, <2>2, <2>3
<1>7. QED BY <1>5, <1>6

\* So the flag of a block tells whether its message goes on.
LEMMA FlagOf ==
  ASSUME NEW m \in Sendable, NEW j \in 1 .. NumBlocks(m)
  PROVE  /\ Filled(m, j).cont <=> j < NumBlocks(m)
         /\ Filled(m, j).of = m
         /\ Filled(m, j).part = j
BY FlagOnAllButLast DEF Filled

\* Rank() numbers the elements of a finite set from 1 to their number.
LEMMA RankType ==
  ASSUME NEW set \in SUBSET Nat, IsFiniteSet(set)
  PROVE  /\ Cardinality(set) \in Nat
         /\ \A i \in set : Rank(set, i) \in 1 .. Cardinality(set)
         /\ \A i, j \in set : i < j => Rank(set, i) < Rank(set, j)
         /\ \A i, j \in set : Rank(set, i) = Rank(set, j) => i = j
<1> DEFINE Upto(i) == {j \in set : j <= i}
<1>1. Cardinality(set) \in Nat BY FS_CardinalityType
<1>2. ASSUME NEW i \in set
      PROVE  /\ IsFiniteSet(Upto(i)) /\ i \in Upto(i)
             /\ Rank(set, i) = Cardinality(Upto(i))
             /\ Rank(set, i) \in 1 .. Cardinality(set)
  <2>1. Upto(i) \in SUBSET set /\ i \in Upto(i) OBVIOUS
  <2>2. IsFiniteSet(Upto(i)) /\ Cardinality(Upto(i)) <= Cardinality(set)
    BY <2>1, FS_Subset
  <2>3. Cardinality(Upto(i)) \in Nat /\ Cardinality(Upto(i)) # 0
    BY <2>1, <2>2, FS_CardinalityType, FS_EmptySet
  <2>4. Rank(set, i) = Cardinality(Upto(i)) BY DEF Rank
  <2> HIDE DEF Upto
  <2>5. QED BY <1>1, <2>1, <2>2, <2>3, <2>4
<1>3. ASSUME NEW i \in set, NEW j \in set, i < j
      PROVE  Rank(set, i) < Rank(set, j)
  <2>0. i \in Nat /\ j \in Nat /\ \A k \in set : k \in Nat OBVIOUS
  <2>1. Upto(i) \in SUBSET Upto(j) /\ j \in Upto(j) /\ j \notin Upto(i)
    <3>1. \A k \in set : k <= i => k <= j BY <2>0, <1>3
    <3>2. ~ (j <= i) /\ j <= j BY <2>0, <1>3
    <3>3. QED BY <3>1, <3>2
  <2>2. IsFiniteSet(Upto(j)) BY <1>2
  <2> HIDE DEF Upto
  <2>3. /\ Cardinality(Upto(i)) <= Cardinality(Upto(j))
        /\ Cardinality(Upto(i)) # Cardinality(Upto(j))
    BY <2>1, <2>2, FS_Subset
  <2>4. QED BY <1>1, <1>2, <2>3
<1>4. ASSUME NEW i \in set, NEW j \in set, Rank(set, i) = Rank(set, j)
      PROVE  i = j
  <2>1. i \in Nat /\ j \in Nat OBVIOUS
  <2> HIDE DEF Upto
  <2>2. Rank(set, i) \in Nat /\ Rank(set, j) \in Nat
    <3>1. Rank(set, i) \in 1 .. Cardinality(set) BY <1>2
    <3>2. Rank(set, j) \in 1 .. Cardinality(set) BY <1>2
    <3>3. QED BY <1>1, <3>1, <3>2
  <2>3. ~ (i < j) BY <1>3, <1>4, <2>2
  <2>4. ~ (j < i) BY <1>3, <1>4, <2>2
  <2>5. QED BY <2>1, <2>3, <2>4
<1>5. QED BY <1>1, <1>2, <1>3, <1>4

\* And Nth() finds the element of a number.
LEMMA NthType ==
  ASSUME NEW set \in SUBSET Nat, IsFiniteSet(set)
  PROVE  /\ \A k \in 1 .. Cardinality(set) : Nth(set, k) \in set /\ Rank(set, Nth(set, k)) = k
         /\ \A i \in set : Nth(set, Rank(set, i)) = i
<1> DEFINE f == [i \in set |-> Rank(set, i)]
           Numbers == 1 .. Cardinality(set)
<1>1. /\ Cardinality(set) \in Nat
      /\ \A i \in set : Rank(set, i) \in Numbers
      /\ \A i, j \in set : Rank(set, i) = Rank(set, j) => i = j
  BY RankType
<1>2. f \in Injection(set, Numbers)
  BY <1>1 DEF Injection, IsInjective
<1>3. IsFiniteSet(Numbers) /\ Cardinality(Numbers) = Cardinality(set)
  BY <1>1, FS_Interval
<1>4. f \in Surjection(set, Numbers)
  <2> HIDE DEF f, Numbers
  <2>1. QED BY <1>2, <1>3, FS_Injection
<1>5. ASSUME NEW k \in Numbers PROVE \E i \in set : Rank(set, i) = k
  BY <1>4 DEF Surjection
<1>6. ASSUME NEW k \in Numbers
      PROVE  Nth(set, k) \in set /\ Rank(set, Nth(set, k)) = k
  BY <1>5 DEF Nth
<1>7. ASSUME NEW i \in set PROVE Nth(set, Rank(set, i)) = i
  BY <1>1, <1>6
<1>8. QED BY <1>6, <1>7

\* A number above all others comes last.
LEMMA OneAbove ==
  ASSUME NEW set \in SUBSET Nat, IsFiniteSet(set), NEW n \in Nat, \A i \in set : i < n
  PROVE  LET more == set \cup {n}
         IN  /\ IsFiniteSet(more)
             /\ Cardinality(more) = Cardinality(set) + 1
             /\ \A k \in 1 .. Cardinality(set) : Nth(more, k) = Nth(set, k)
             /\ Nth(more, Cardinality(set) + 1) = n
<1> DEFINE more == set \cup {n}
<1>1. n \notin set /\ more \in SUBSET Nat OBVIOUS
<1>2. /\ IsFiniteSet(more) /\ Cardinality(more) = Cardinality(set) + 1
      /\ Cardinality(set) \in Nat
  BY <1>1, FS_AddElement, FS_CardinalityType
<1>3. Rank(more, n) = Cardinality(set) + 1
  <2>0. \A j \in more : j <= n
    <3>1. \A j \in set : j \in Nat /\ j < n OBVIOUS
    <3>2. QED BY <3>1
  <2> HIDE DEF more
  <2>1. {j \in more : j <= n} = more BY <2>0
  <2>2. QED BY <1>2, <2>1 DEF Rank
<1>4. ASSUME NEW i \in set PROVE Rank(more, i) = Rank(set, i)
  <2>1. {j \in more : j <= i} = {j \in set : j <= i} OBVIOUS
  <2>2. QED BY <2>1 DEF Rank
<1> HIDE DEF more
<1>5. n \in more /\ \A i \in set : i \in more BY DEF more
<1>6. Nth(more, Cardinality(set) + 1) = n BY <1>1, <1>2, <1>3, <1>5, NthType
<1>7. ASSUME NEW k \in 1 .. Cardinality(set) PROVE Nth(more, k) = Nth(set, k)
  <2>1. Nth(set, k) \in set /\ Rank(set, Nth(set, k)) = k BY NthType
  <2>2. Rank(more, Nth(set, k)) = k BY <2>1, <1>4
  <2>3. QED BY <1>1, <1>2, <1>5, <2>1, <2>2, NthType
<1>8. QED BY <1>2, <1>6, <1>7 DEF more

\* Without the least number the others move up by one.
LEMMA OneBelow ==
  ASSUME NEW set \in SUBSET Nat, IsFiniteSet(set), NEW n \in Nat,
         NEW rest \in SUBSET Nat, 0 \notin rest,
         n \in set, \A i \in rest : n + i \in set,
         \A j \in set \ {n} : \E i \in rest : j = n + i
  PROVE  /\ IsFiniteSet(rest)
         /\ Cardinality(set) = Cardinality(rest) + 1
         /\ Nth(set, 1) = n
         /\ \A k \in 1 .. Cardinality(rest) : Nth(set, k + 1) = n + Nth(rest, k)
<1> DEFINE shift(T) == {n + i : i \in T}
           g(T) == [i \in T |-> n + i]
<1>0. set = {n} \cup shift(rest) OBVIOUS
<1>1. ASSUME NEW T \in SUBSET rest
      PROVE  /\ IsFiniteSet(T) /\ IsFiniteSet(shift(T))
             /\ Cardinality(shift(T)) = Cardinality(T) /\ n \notin shift(T)
  <2>1. T \in SUBSET Nat /\ \A i \in T : i # 0 OBVIOUS
  <2>2. shift(T) \in SUBSET set OBVIOUS
  <2>3. IsFiniteSet(shift(T)) BY <2>2, FS_Subset
  <2>4. g(T) \in Injection(T, shift(T)) BY <2>1 DEF Injection, IsInjective
  <2>5. g(T) \in Surjection(T, shift(T)) BY <2>4 DEF Injection, Surjection
  <2>6. n \notin shift(T) BY <2>1
  <2> HIDE DEF shift, g
  <2>7. QED BY <2>3, <2>4, <2>5, <2>6, FS_Injection
<1>2. IsFiniteSet(rest) /\ Cardinality(rest) \in Nat BY <1>1, FS_CardinalityType
<1>3. Cardinality(set) = Cardinality(rest) + 1
  <2>1. set = shift(rest) \cup {n} OBVIOUS
  <2> HIDE DEF shift
  <2>2. QED BY <2>1, <1>1, FS_AddElement
<1>4. Rank(set, n) = 1
  <2>1. \A j \in set : j <= n => j = n
    <3>1. \A i \in rest : i \in Nat /\ i # 0 OBVIOUS
    <3>2. QED BY <3>1
  <2>2. {j \in set : j <= n} = {n}
    <3>1. n <= n OBVIOUS
    <3>2. QED BY <2>1, <3>1, Zenon
  <2>3. QED BY <2>2, FS_Singleton DEF Rank
<1>5. ASSUME NEW i \in rest PROVE Rank(set, n + i) = Rank(rest, i) + 1
  <2> DEFINE T == {j \in rest : j <= i}
  <2>1. {j \in set : j <= n + i} = shift(T) \cup {n}
    <3>1. ASSUME NEW j \in rest PROVE n + j <= n + i <=> j <= i
      BY <3>1
    <3>2. n <= n + i OBVIOUS
    <3>3. QED BY <3>1, <3>2
  <2>2. T \in SUBSET rest OBVIOUS
  <2>3. Rank(rest, i) = Cardinality(T) BY DEF Rank
  <2> HIDE DEF T, shift
  <2>4. Cardinality(shift(T) \cup {n}) = Cardinality(T) + 1
    <3>1. IsFiniteSet(shift(T)) /\ Cardinality(shift(T)) = Cardinality(T) /\ n \notin shift(T)
      BY <1>1, <2>2
    <3>2. QED BY <3>1, FS_AddElement
  <2>5. QED BY <2>1, <2>3, <2>4 DEF Rank
<1>6. n \in set /\ \A i \in rest : n + i \in set OBVIOUS
<1>7. Nth(set, 1) = n BY <1>4, <1>6, NthType
<1>8. ASSUME NEW k \in 1 .. Cardinality(rest) PROVE Nth(set, k + 1) = n + Nth(rest, k)
  <2>1. Nth(rest, k) \in rest /\ Rank(rest, Nth(rest, k)) = k BY <1>2, NthType
  <2>2. Rank(set, n + Nth(rest, k)) = k + 1 BY <1>5, <2>1
  <2>3. n + Nth(rest, k) \in set BY <1>6, <2>1
  <2>4. Nth(set, Rank(set, n + Nth(rest, k))) = n + Nth(rest, k) BY <2>3, NthType
  <2>5. QED BY <2>2, <2>4
<1>9. QED BY <1>2, <1>3, <1>7, <1>8

-----------------------------------------------------------------------------
(* The inductive invariant behind the order of messages. *)

\* The list has the blocks of message m behind its s-th block.
Spells(list, s, m) ==
    /\ s + NumBlocks(m) <= Len(list)
    /\ \A j \in 1 .. NumBlocks(m) : block[list[s + j]] = Filled(m, j)

\* Every block of the used list is in a message that the list spells.
Framed ==
    \A i \in 1 .. Len(used) : \E m \in Sendable, s \in 0 .. Len(used) :
        s < i /\ i <= s + NumBlocks(m) /\ Spells(used, s, m)

\* A client holds the first blocks of the message it writes.
Filling ==
    \A w \in Writers :
        /\ pc[w] # "idle" => msg[w] \in Sendable
        /\ \A j \in 1 .. Len(chain[w]) : block[chain[w][j]] = Filled(msg[w], j)

\* A server that has detached a message holds all of it, and what it has copied
\* to its buffer is one message, too.
Emptying ==
    \A r \in Readers :
        /\ pc[r] = "copy" =>
              \E m \in Sendable : Len(chain[r]) = NumBlocks(m) /\ Spells(chain[r], 0, m)
        /\ got[r] = <<>> \/ \E m \in Message : got[r] = Image(m)
        /\ pc[r] \in {"rsem", "take", "copy"} => got[r] = <<>>

Ordered == Typed /\ Ownership /\ nUsed = Len(used) /\ Framed /\ Filling /\ Emptying

\* At the start there is no block to speak of.
LEMMA OrderedInit == Init => Ordered
<1> SUFFICES ASSUME Init PROVE Ordered OBVIOUS
<1>1. Typed /\ Ownership BY TypedInit, OwnershipInit
<1>2. nUsed = Len(used) /\ 1 .. Len(used) = {} BY DEF Init
<1>3. \A t \in Threads : 1 .. Len(chain[t]) = {} BY DEF Init
<1>4. Framed BY <1>2 DEF Framed
<1>5. Filling BY <1>3 DEF Filling, Init, Threads
<1>6. Emptying BY DEF Emptying, Init, Threads
<1>7. QED BY <1>1, <1>2, <1>4, <1>5, <1>6 DEF Ordered

\* The used list keeps its messages while it and its blocks stay as they are.
LEMMA FramedKept ==
  ASSUME Typed, Framed, used' = used,
         \A i \in 1 .. Len(used) : block'[used[i]] = block[used[i]]
  PROVE  Framed'
<1> SUFFICES ASSUME NEW i \in 1 .. Len(used)
             PROVE  \E m \in Sendable, s \in 0 .. Len(used) :
                       /\ s < i /\ i <= s + NumBlocks(m)
                       /\ s + NumBlocks(m) <= Len(used)
                       /\ \A j \in 1 .. NumBlocks(m) : block'[used[s + j]] = Filled(m, j)
  BY DEF Framed, Spells
<1>1. PICK m \in Sendable, s \in 0 .. Len(used) :
         s < i /\ i <= s + NumBlocks(m) /\ Spells(used, s, m)
  BY DEF Framed
<1>2. Len(used) \in Nat /\ NumBlocks(m) \in Nat \ {0}
  BY SetOf, NumBlocksType DEF Typed, TypeOK, Sendable
<1>3. ASSUME NEW j \in 1 .. NumBlocks(m) PROVE block'[used[s + j]] = Filled(m, j)
  <2>1. s + j \in 1 .. Len(used) BY <1>1, <1>2 DEF Spells
  <2>2. QED BY <2>1, <1>1 DEF Spells
<1>4. QED BY <1>1, <1>3 DEF Spells

\* Clients hold what they held, or nothing, while nobody writes to their blocks.
LEMMA FillingKept ==
  ASSUME Filling,
         \A w \in Writers :
            /\ pc'[w] # "idle" => pc[w] # "idle" /\ msg'[w] = msg[w]
            /\ chain'[w] = <<>> \/ (chain'[w] = chain[w] /\ msg'[w] = msg[w])
            /\ \A j \in 1 .. Len(chain[w]) : block'[chain[w][j]] = block[chain[w][j]]
  PROVE  Filling'
<1> SUFFICES ASSUME NEW w \in Writers
             PROVE  /\ pc'[w] # "idle" => msg'[w] \in Sendable
                    /\ \A j \in 1 .. Len(chain'[w]) : block'[chain'[w][j]] = Filled(msg'[w], j)
  BY DEF Filling
<1>1. pc'[w] # "idle" => msg'[w] \in Sendable BY DEF Filling
<1>2. CASE chain'[w] = <<>>
  <2>1. 1 .. Len(chain'[w]) = {} BY <1>2
  <2>2. QED BY <1>1, <2>1
<1>3. CASE chain'[w] = chain[w] /\ msg'[w] = msg[w]
  BY <1>1, <1>3 DEF Filling
<1>4. QED BY <1>2, <1>3

\* Servers hold what they held, and have copied nothing new, while nobody writes
\* to the blocks they copy.
LEMMA EmptyingKept ==
  ASSUME Emptying,
         \A r \in Readers :
            /\ pc'[r] = "copy" =>
                  /\ pc[r] = "copy" /\ chain'[r] = chain[r]
                  /\ \A j \in 1 .. Len(chain[r]) : block'[chain[r][j]] = block[chain[r][j]]
            /\ \/ got'[r] = <<>>
               \/ /\ got'[r] = got[r]
                  /\ pc'[r] \in {"rsem", "take", "copy"} => pc[r] \in {"rsem", "take", "copy"}
  PROVE  Emptying'
<1> SUFFICES ASSUME NEW r \in Readers
             PROVE  /\ pc'[r] = "copy" =>
                          \E m \in Sendable :
                             /\ Len(chain'[r]) = NumBlocks(m)
                             /\ 0 + NumBlocks(m) <= Len(chain'[r])
                             /\ \A j \in 1 .. NumBlocks(m) :
                                   block'[chain'[r][0 + j]] = Filled(m, j)
                    /\ got'[r] = <<>> \/ \E m \in Message : got'[r] = Image(m)
                    /\ pc'[r] \in {"rsem", "take", "copy"} => got'[r] = <<>>
  BY DEF Emptying, Spells
<1>1. ASSUME pc'[r] = "copy"
      PROVE  \E m \in Sendable :
                             /\ Len(chain'[r]) = NumBlocks(m)
                             /\ 0 + NumBlocks(m) <= Len(chain'[r])
                             /\ \A j \in 1 .. NumBlocks(m) :
                                   block'[chain'[r][0 + j]] = Filled(m, j)
  <2>1. PICK m \in Sendable : Len(chain[r]) = NumBlocks(m) /\ Spells(chain[r], 0, m)
    BY <1>1 DEF Emptying
  <2>2. NumBlocks(m) \in Nat BY NumBlocksType DEF Sendable
  <2>3. ASSUME NEW j \in 1 .. NumBlocks(m)
        PROVE  block'[chain'[r][0 + j]] = Filled(m, j)
    <3>1. 0 + j = j /\ j \in 1 .. Len(chain[r]) BY <2>1, <2>2
    <3>2. QED BY <1>1, <2>1, <3>1 DEF Spells
  <2>4. QED BY <1>1, <2>1, <2>3 DEF Spells
<1>2. got'[r] = <<>> \/ \E m \in Message : got'[r] = Image(m) BY DEF Emptying
<1>3. pc'[r] \in {"rsem", "take", "copy"} => got'[r] = <<>> BY DEF Emptying
<1>4. QED BY <1>1, <1>2, <1>3

-----------------------------------------------------------------------------
(* What the steps do to the used list. *)

\* The blocks a thread holds are not on the used list and with no other thread.
LEMMA OwnBlocks ==
  ASSUME Typed, Ownership, NEW t \in Threads
  PROVE  /\ \A i \in 1 .. Len(used), j \in 1 .. Len(chain[t]) : used[i] # chain[t][j]
         /\ \A u \in Threads \ {t} : \A i \in 1 .. Len(chain[u]), j \in 1 .. Len(chain[t]) :
               chain[u][i] # chain[t][j]
<1>1. used \in Seq(Blocks) /\ \A u \in Threads : chain[u] \in Seq(Blocks)
  BY DEF Typed, TypeOK
<1>2. ToSet(used) = {used[i] : i \in 1 .. Len(used)} BY <1>1, SetOf
<1>3. \A u \in Threads : ToSet(chain[u]) = {chain[u][i] : i \in 1 .. Len(chain[u])}
  BY <1>1, SetOf
<1>4. ToSet(chain[t]) \cap ToSet(used) = {} BY DEF Ownership, Apart
<1>5. \A u \in Threads \ {t} : ToSet(chain[u]) \cap ToSet(chain[t]) = {}
  BY DEF Ownership, Apart
<1>6. \A i \in 1 .. Len(used), j \in 1 .. Len(chain[t]) : used[i] # chain[t][j]
  BY <1>2, <1>3, <1>4
<1>7. ASSUME NEW u \in Threads \ {t}
      PROVE  \A i \in 1 .. Len(chain[u]), j \in 1 .. Len(chain[t]) : chain[u][i] # chain[t][j]
  <2>1. ToSet(chain[u]) = {chain[u][i] : i \in 1 .. Len(chain[u])} BY <1>3
  <2>2. ToSet(chain[t]) = {chain[t][i] : i \in 1 .. Len(chain[t])} BY <1>3
  <2>3. ToSet(chain[u]) \cap ToSet(chain[t]) = {} BY <1>5
  <2>4. QED BY <2>1, <2>2, <2>3
<1>8. QED BY <1>6, <1>7

\* The blocks of the used list, and those of the threads, are not on the free list.
LEMMA FreeBlock ==
  ASSUME Typed, Ownership, free # <<>>
  PROVE  /\ Head(free) \in Blocks
         /\ \A i \in 1 .. Len(used) : used[i] # Head(free)
         /\ \A t \in Threads : \A i \in 1 .. Len(chain[t]) : chain[t][i] # Head(free)
<1>1. /\ free \in Seq(Blocks) /\ used \in Seq(Blocks)
      /\ \A u \in Threads : chain[u] \in Seq(Blocks)
  BY DEF Typed, TypeOK
<1>2. Head(free) \in Blocks /\ Head(free) \in ToSet(free) BY <1>1, OneLess
<1>3. ToSet(used) = {used[i] : i \in 1 .. Len(used)} BY <1>1, SetOf
<1>4. \A u \in Threads : ToSet(chain[u]) = {chain[u][i] : i \in 1 .. Len(chain[u])}
  BY <1>1, SetOf
<1>5. ToSet(free) \cap ToSet(used) = {} BY DEF Ownership, Apart
<1>6. \A u \in Threads : ToSet(chain[u]) \cap ToSet(free) = {}
  BY DEF Ownership, Apart
<1>7. QED BY <1>2, <1>3, <1>4, <1>5, <1>6

\* AddUsed() and AddUsedList() put the whole message behind the last one.
LEMMA Appended ==
  ASSUME Ordered, NEW w \in Writers, AppendUsed(w)
  PROVE  /\ pc[w] = "append" /\ pc' = [pc EXCEPT ![w] = "post"]
         /\ chain' = [chain EXCEPT ![w] = <<>>]
         /\ UNCHANGED <<block, msg, got, readSem>>
         /\ msg[w] \in Sendable
         /\ Len(chain[w]) = NumBlocks(msg[w])
         /\ used' \in Seq(Blocks)
         /\ Len(used') = Len(used) + NumBlocks(msg[w])
         /\ nUsed' = Len(used')
         /\ \A i \in 1 .. Len(used) : used'[i] = used[i]
         /\ \A j \in 1 .. NumBlocks(msg[w]) : used'[Len(used) + j] = chain[w][j]
<1>1. /\ w \in Threads /\ chain[w] \in Seq(Blocks) /\ used \in Seq(Blocks)
      /\ Len(used) \in Nat /\ nUsed = Len(used)
  BY SetOf DEF Ordered, Typed, TypeOK, Threads
<1>2. /\ pc[w] = "append" /\ pc' = [pc EXCEPT ![w] = "post"]
      /\ chain' = [chain EXCEPT ![w] = <<>>]
      /\ UNCHANGED <<block, msg, got, readSem>>
  BY DEF AppendUsed, Goto
<1>3. msg[w] \in Sendable BY <1>2 DEF Ordered, Filling
<1>4. Len(chain[w]) = NumBlocks(msg[w]) /\ NumBlocks(msg[w]) \in Nat \ {0}
  BY <1>2, <1>3, NumBlocksType DEF Ordered, Typed, WriterState, Sendable
<1>5. CASE NumBlocks(msg[w]) = 1
  <2>1. 1 \in 1 .. Len(chain[w]) BY <1>4, <1>5
  <2>2. chain[w][1] \in Blocks BY <1>1, <2>1, ElementOfSeq
  <2>3. chain[w][1] \notin ToSet(used) BY <1>1, <2>1, SetOf, OwnBlocks DEF Ordered
  <2>4. used' = Append(used, chain[w][1]) /\ nUsed' = Len(used) + 1
    BY <1>1, <1>5, <2>2, <2>3, AddAdds DEF AppendUsed, Ordered, Ownership
  <2>5. /\ used' \in Seq(Blocks) /\ Len(used') = Len(used) + 1
        /\ \A i \in 1 .. Len(used) : used'[i] = used[i]
        /\ used'[Len(used) + 1] = chain[w][1]
    BY <1>1, <2>2, <2>4, AppendProperties
  <2>6. \A j \in 1 .. NumBlocks(msg[w]) : j = 1 BY <1>5
  <2>7. QED BY <1>2, <1>3, <1>4, <1>5, <2>4, <2>5, <2>6
<1>6. CASE NumBlocks(msg[w]) # 1
  <2>1. used' = used \o chain[w] /\ nUsed' = Len(used) + Len(chain[w])
    BY <1>1, <1>6 DEF AppendUsed
  <2>2. /\ used' \in Seq(Blocks) /\ Len(used') = Len(used) + Len(chain[w])
        /\ \A i \in 1 .. Len(used) + Len(chain[w]) :
              used'[i] = IF i <= Len(used) THEN used[i] ELSE chain[w][i - Len(used)]
    BY <1>1, <2>1, ConcatProperties
  <2>3. \A i \in 1 .. Len(used) : used'[i] = used[i] BY <1>1, <1>4, <2>2
  <2>4. ASSUME NEW j \in 1 .. NumBlocks(msg[w]) PROVE used'[Len(used) + j] = chain[w][j]
    <3>1. /\ Len(used) + j \in 1 .. Len(used) + Len(chain[w])
          /\ ~ (Len(used) + j <= Len(used)) /\ (Len(used) + j) - Len(used) = j
      BY <1>1, <1>4
    <3>2. QED BY <2>2, <3>1
  <2>5. QED BY <1>2, <1>3, <1>4, <2>1, <2>2, <2>3, <2>4
<1>7. QED BY <1>5, <1>6

\* The message at the head of the used list is whole, and Extent() finds its end.
LEMMA HeadMessage ==
  ASSUME Typed, Framed, used # <<>>
  PROVE  \E m \in Sendable : Spells(used, 0, m) /\ Extent(used) = NumBlocks(m)
<1>1. used \in Seq(Blocks) /\ Len(used) \in Nat \ {0} BY EmptySeq DEF Typed, TypeOK
<1>2. PICK m \in Sendable, s \in 0 .. Len(used) :
         s < 1 /\ 1 <= s + NumBlocks(m) /\ Spells(used, s, m)
  BY <1>1 DEF Framed
<1>3. s = 0 BY <1>1, <1>2
<1> DEFINE N == NumBlocks(m)
           Fits(k) == /\ block[used[k]].cont => k = Len(used)
                      /\ \A j \in 1 .. k - 1 : block[used[j]].cont
<1>4. N \in 1 .. Len(used) /\ N \in Nat \ {0}
  BY <1>1, <1>2, <1>3, NumBlocksType DEF Spells, Sendable
<1>5. ASSUME NEW j \in 1 .. N PROVE block[used[j]].cont <=> j < N
  <2>1. 0 + j = j BY <1>4
  <2>2. block[used[j]] = Filled(m, j) BY <1>2, <1>3, <2>1 DEF Spells
  <2>3. QED BY <2>2, FlagOf
<1>6. Fits(N)
  <2>1. N \in 1 .. N /\ ~ (N < N) BY <1>4
  <2>2. ASSUME NEW j \in 1 .. N - 1 PROVE j \in 1 .. N /\ j < N BY <1>4
  <2>3. QED BY <1>5, <2>1, <2>2
<1>7. ASSUME NEW k \in 1 .. Len(used), Fits(k) PROVE k = N
  <2>1. CASE k < N
    <3>1. k \in 1 .. N BY <1>4, <2>1
    <3>2. k = Len(used) BY <1>5, <1>7, <2>1, <3>1
    <3>3. QED BY <1>1, <1>4, <2>1, <3>2
  <2>2. CASE N < k
    <3>1. N \in 1 .. k - 1 /\ N \in 1 .. N /\ ~ (N < N) BY <1>1, <1>4, <2>2
    <3>2. QED BY <1>5, <1>7, <3>1
  <2>3. QED BY <1>1, <1>4, <2>1, <2>2
<1>8. Extent(used) = CHOOSE k \in 1 .. Len(used) : Fits(k) BY DEF Extent
<1> HIDE DEF Fits
<1>9. Extent(used) = N BY <1>4, <1>6, <1>7, <1>8
<1>10. QED BY <1>2, <1>3, <1>9

\* Copying the blocks of one message yields that message.
LEMMA CopyOf ==
  ASSUME NEW m \in Sendable, NEW list, Len(list) = NumBlocks(m), Spells(list, 0, m)
  PROVE  Copy(list) = Image(m)
<1>1. NumBlocks(m) \in Nat BY NumBlocksType DEF Sendable
<1>2. ASSUME NEW i \in 1 .. NumBlocks(m)
      PROVE  [of |-> block[list[i]].of, part |-> block[list[i]].part] = [of |-> m, part |-> i]
  <2>1. 0 + i = i BY <1>1
  <2>2. block[list[i]] = Filled(m, i) BY <2>1 DEF Spells
  <2>3. QED BY <2>2, FlagOf
<1>3. QED BY <1>2 DEF Copy, Image

\* ReadSingleBlock() and GetUsedListForward() take one whole message, the first.
LEMMA Detached ==
  ASSUME Ordered, NEW r \in Readers, TakeMessage(r),
         ~ (used = <<>> \/ TotalSize(SubSeq(used, 1, Extent(used))) > buf[r])
  PROVE  \E m \in Sendable :
           /\ Spells(used, 0, m)
           /\ used' \in Seq(Blocks)
           /\ Len(used') = Len(used) - NumBlocks(m)
           /\ nUsed' = Len(used')
           /\ \A i \in 1 .. Len(used') : /\ used'[i] = used[NumBlocks(m) + i]
                                         /\ block'[used'[i]] = block[used'[i]]
           /\ \A u \in Threads \ {r} : \A i \in 1 .. Len(chain[u]) :
                 block'[chain[u][i]] = block[chain[u][i]]
           /\ chain' = [chain EXCEPT ![r] = SubSeq(used, 1, NumBlocks(m))]
           /\ Len(SubSeq(used, 1, NumBlocks(m))) = NumBlocks(m)
           /\ Spells(SubSeq(used, 1, NumBlocks(m)), 0, m)
           /\ UNCHANGED <<msg, readSem>>
           /\ \/ pc' = [pc EXCEPT ![r] = "copy"] /\ UNCHANGED <<block, got>>
              \/ pc' = [pc EXCEPT ![r] = "free"] /\ got' = [got EXCEPT ![r] = Image(m)]
<1> DEFINE n == Extent(used)
           front == SubSeq(used, 1, n)
           rest == SubSeq(used, n + 1, Len(used))
<1>0. /\ r \in Threads /\ used \in Seq(Blocks) /\ Len(used) \in Nat
      /\ nUsed = Len(used) /\ used # <<>> /\ block \in [Blocks -> Contents]
      /\ \A u \in Threads : chain[u] \in Seq(Blocks)
  BY SetOf DEF Ordered, Typed, TypeOK, Threads
<1>1. PICK m \in Sendable : Spells(used, 0, m) /\ n = NumBlocks(m)
  BY <1>0, HeadMessage DEF Ordered
<1>2. n \in 1 .. Len(used) /\ n \in Nat \ {0}
  BY <1>0, <1>1, NumBlocksType DEF Spells, Sendable
<1>3. /\ Len(front) = n
      /\ \A i \in 1 .. n : front[i] = used[i]
      /\ rest \in Seq(Blocks)
      /\ Len(rest) = Len(used) - n
      /\ \A i \in 1 .. Len(used) - n : rest[i] = used[n + i]
  BY <1>0, <1>2, CutType
<1> HIDE DEF n, front, rest
<1>4. Spells(front, 0, m)
  <2>1. 0 + n <= Len(front) BY <1>2, <1>3
  <2>2. ASSUME NEW j \in 1 .. n PROVE block[front[0 + j]] = Filled(m, j)
    <3>1. 0 + j = j BY <1>2
    <3>2. block[used[j]] = Filled(m, j) BY <1>1, <3>1 DEF Spells
    <3>3. QED BY <1>3, <3>1, <3>2
  <2>3. QED BY <1>1, <2>1, <2>2 DEF Spells
<1>5. Copy(front) = Image(m) BY <1>1, <1>3, <1>4, CopyOf
<1>6. /\ used' = rest
      /\ nUsed' = nUsed - n
      /\ chain' = [chain EXCEPT ![r] = front]
      /\ \/ pc' = [pc EXCEPT ![r] = "copy"] /\ block' = block /\ got' = got
         \/ /\ pc' = [pc EXCEPT ![r] = "free"]
            /\ got' = [got EXCEPT ![r] = Copy(front)]
            /\ block' = [block EXCEPT ![Head(used)].size = 0]
      /\ UNCHANGED <<msg, readSem>>
  BY DEF TakeMessage, Goto, n, front, rest
<1>7. used[1] = Head(used) BY <1>0
<1>8. \A b \in Blocks : b # used[1] => block'[b] = block[b] BY <1>0, <1>6, <1>7
<1>9. ASSUME NEW i \in 1 .. Len(rest) PROVE block'[rest[i]] = block[rest[i]]
  <2>1. n + i \in 1 .. Len(used) /\ 1 \in 1 .. Len(used) /\ n + i # 1 /\ rest[i] = used[n + i]
    BY <1>0, <1>2, <1>3
  <2>2. used[n + i] # used[1] BY <2>1 DEF Ordered, Ownership, Distinct
  <2>3. used[n + i] \in Blocks BY <1>0, <2>1, ElementOfSeq
  <2>4. QED BY <1>8, <2>1, <2>2, <2>3
<1>10. ASSUME NEW u \in Threads \ {r}, NEW i \in 1 .. Len(chain[u])
       PROVE  block'[chain[u][i]] = block[chain[u][i]]
  <2>1. 1 \in 1 .. Len(used) BY <1>0, <1>2
  <2>2. used[1] # chain[u][i] BY <2>1, OwnBlocks DEF Ordered
  <2>3. chain[u][i] \in Blocks BY <1>0, ElementOfSeq
  <2>4. QED BY <1>8, <2>2, <2>3
<1>11. WITNESS m \in Sendable
<1>12. front = SubSeq(used, 1, NumBlocks(m)) BY <1>1 DEF front
<1>13. QED
  BY <1>0, <1>1, <1>3, <1>4, <1>5, <1>6, <1>9, <1>10, <1>12

-----------------------------------------------------------------------------
(* The order of messages is an invariant. *)

\* A step of thread t that writes to no block and leaves the used list alone.
LEMMA OrderedKept ==
  ASSUME Ordered, Typed', Ownership', NEW t \in Threads,
         used' = used, nUsed' = nUsed, block' = block,
         \A u \in Threads \ {t} : pc'[u] = pc[u] /\ chain'[u] = chain[u],
         pc'[t] # "copy",
         chain'[t] = <<>> \/ chain'[t] = chain[t],
         \A w \in Writers \ {t} : msg'[w] = msg[w],
         t \in Writers => /\ pc'[t] # "idle" => pc[t] # "idle" /\ msg'[t] = msg[t]
                          /\ chain'[t] = <<>> \/ msg'[t] = msg[t],
         \A r \in Readers \ {t} : got'[r] = got[r],
         t \in Readers => \/ got'[t] = <<>>
                          \/ /\ got'[t] = got[t]
                             /\ pc'[t] \in {"rsem", "take"} => pc[t] \in {"rsem", "take"}
  PROVE  Ordered'
<1>1. Framed' BY FramedKept DEF Ordered
<1>2. Filling'
  <2>1. ASSUME NEW w \in Writers
        PROVE  /\ pc'[w] # "idle" => pc[w] # "idle" /\ msg'[w] = msg[w]
               /\ chain'[w] = <<>> \/ (chain'[w] = chain[w] /\ msg'[w] = msg[w])
               /\ \A j \in 1 .. Len(chain[w]) : block'[chain[w][j]] = block[chain[w][j]]
    <3>1. CASE w = t BY <3>1
    <3>2. CASE w # t BY <3>2 DEF Threads
    <3>3. QED BY <3>1, <3>2
  <2>2. QED BY <2>1, FillingKept DEF Ordered
<1>3. Emptying'
  <2>1. ASSUME NEW r \in Readers
        PROVE  /\ pc'[r] = "copy" =>
                  /\ pc[r] = "copy" /\ chain'[r] = chain[r]
                  /\ \A j \in 1 .. Len(chain[r]) : block'[chain[r][j]] = block[chain[r][j]]
               /\ \/ got'[r] = <<>>
                  \/ /\ got'[r] = got[r]
                     /\ pc'[r] \in {"rsem", "take", "copy"} => pc[r] \in {"rsem", "take", "copy"}
    <3>1. CASE r = t BY <3>1
    <3>2. CASE r # t BY <3>2 DEF Threads
    <3>3. QED BY <3>1, <3>2
  <2>2. QED BY <2>1, EmptyingKept DEF Ordered
<1>4. QED BY <1>1, <1>2, <1>3 DEF Ordered

\* A client takes a message to write.
LEMMA OrderedWrite ==
  ASSUME Ordered, Typed', Ownership', NEW w \in Writers, NEW n \in Sizes[w], Write(w, n)
  PROVE  Ordered'
<1>1. /\ used' = used /\ nUsed' = nUsed /\ block' = block /\ chain' = chain /\ got' = got
      /\ pc[w] = "idle"
  BY DEF Write, Lists
<1>2. CASE Refused(n)
  <2>1. pc' = pc /\ msg' = msg BY <1>2 DEF Write
  <2>2. QED BY <1>1, <2>1, OrderedKept DEF Threads
<1>3. CASE ~ Refused(n)
  <2>1. /\ pc' = [pc EXCEPT ![w] = "wsem"]
        /\ msg' = [msg EXCEPT ![w] = [from |-> w, seq |-> sent[w] + 1, size |-> n]]
    BY <1>3 DEF Write, Goto
  <2>3. pc \in [Threads -> Labels] /\ w \in Threads /\ w \notin Readers
    BY QueueAssumption DEF Ordered, Typed, TypeOK, Threads
  <2>4. /\ msg'[w] = [from |-> w, seq |-> sent[w] + 1, size |-> n]
        /\ \A v \in Writers \ {w} : msg'[v] = msg[v]
    BY <2>1 DEF Ordered, Typed, TypeOK
  <2>5. msg'[w] \in Message
    <3>1. pc'[w] = "wsem" BY <2>1, <2>3
    <3>2. QED BY <3>1 DEF Typed, WriterState
  <2>6. msg'[w] \in Sendable BY <1>3, <2>4, <2>5 DEF Sendable
  <2>7. /\ pc'[w] = "wsem"
        /\ \A u \in Threads \ {w} : pc'[u] = pc[u]
    BY <2>1, <2>3
  <2>8. Framed' BY <1>1, FramedKept DEF Ordered
  <2>9. Filling'
    <3>1. chain[w] = <<>> BY <1>1 DEF Ordered, Typed, WriterState
    <3>2. 1 .. Len(chain[w]) = {} BY <3>1
    <3>3. ASSUME NEW v \in Writers
          PROVE  /\ pc'[v] # "idle" => msg'[v] \in Sendable
                 /\ \A j \in 1 .. Len(chain'[v]) : block'[chain'[v][j]] = Filled(msg'[v], j)
      <4>1. CASE v = w BY <1>1, <2>6, <3>2, <4>1
      <4>2. CASE v # w BY <1>1, <2>4, <2>7, <4>2 DEF Ordered, Filling, Threads
      <4>3. QED BY <4>1, <4>2
    <3>4. QED BY <3>3 DEF Filling
  <2>10. Emptying'
    <3>1. \A r \in Readers : pc'[r] = pc[r] BY <2>3, <2>7 DEF Threads
    <3>2. QED BY <1>1, <3>1, EmptyingKept DEF Ordered
  <2>11. QED BY <1>1, <2>8, <2>9, <2>10 DEF Ordered
<1>4. QED BY <1>2, <1>3

\* It fills a block that nobody else can reach.
LEMMA OrderedAlloc ==
  ASSUME Ordered, Typed', Ownership', NEW w \in Writers, AllocBlock(w)
  PROVE  Ordered'
<1>0. /\ w \in Threads /\ w \notin Readers /\ pc \in [Threads -> Labels]
      /\ chain \in [Threads -> Seq(Blocks)] /\ chain[w] \in Seq(Blocks) /\ Len(chain[w]) \in Nat
      /\ block \in [Blocks -> Contents] /\ used \in Seq(Blocks)
  BY QueueAssumption, SetOf DEF Ordered, Typed, TypeOK, Threads
<1>1. pc[w] = "alloc" /\ used' = used /\ nUsed' = nUsed /\ got' = got
  BY DEF AllocBlock
<1>2. CASE nFree = 0 \/ free = <<>>
  <2>1. /\ chain' = [chain EXCEPT ![w] = <<>>]
        /\ pc' = [pc EXCEPT ![w] = "idle"]
        /\ msg' = [msg EXCEPT ![w] = NoMsg]
        /\ block' = block
    BY <1>2 DEF AllocBlock, Return, Goto
  <2>2. /\ pc'[w] = "idle" /\ chain'[w] = <<>>
        /\ \A u \in Threads \ {w} : pc'[u] = pc[u] /\ chain'[u] = chain[u]
        /\ \A v \in Writers \ {w} : msg'[v] = msg[v]
    BY <1>0, <2>1 DEF Ordered, Typed, TypeOK
  <2>3. QED BY <1>0, <1>1, <2>1, <2>2, OrderedKept
<1>3. CASE ~ (nFree = 0 \/ free = <<>>)
  <2> DEFINE b == Head(free)
             k == Len(chain[w]) + 1
  <2>1. /\ chain' = [chain EXCEPT ![w] = Append(chain[w], b)]
        /\ block' = [block EXCEPT ![b] = Filled(msg[w], k)]
        /\ pc' = [pc EXCEPT ![w] = IF k < NumBlocks(msg[w]) THEN "wsem" ELSE "append"]
        /\ msg' = msg
    BY <1>3 DEF AllocBlock, Goto
  <2>2. /\ b \in Blocks
        /\ \A i \in 1 .. Len(used) : used[i] # b
        /\ \A t \in Threads : \A i \in 1 .. Len(chain[t]) : chain[t][i] # b
    BY <1>3, FreeBlock DEF Ordered
  <2> HIDE DEF b
  <2>3. /\ Len(Append(chain[w], b)) = k
        /\ \A i \in 1 .. Len(chain[w]) : Append(chain[w], b)[i] = chain[w][i]
        /\ Append(chain[w], b)[k] = b
    BY <1>0, <2>2, AppendProperties
  <2>4. /\ chain'[w] = Append(chain[w], b)
        /\ \A u \in Threads \ {w} : pc'[u] = pc[u] /\ chain'[u] = chain[u]
        /\ block'[b] = Filled(msg[w], k)
        /\ \A c \in Blocks : c # b => block'[c] = block[c]
    BY <1>0, <2>1, <2>2
  <2>5. ASSUME NEW t \in Threads, NEW i \in 1 .. Len(chain[t])
        PROVE  block'[chain[t][i]] = block[chain[t][i]]
    <3>1. chain[t][i] \in Blocks BY <1>0, ElementOfSeq
    <3>2. QED BY <2>2, <2>4, <3>1
  <2>6. Framed'
    <3>1. \A i \in 1 .. Len(used) : used[i] \in Blocks BY <1>0, ElementOfSeq
    <3>2. \A i \in 1 .. Len(used) : block'[used[i]] = block[used[i]] BY <2>2, <2>4, <3>1
    <3>3. QED BY <1>1, <3>2, FramedKept DEF Ordered
  <2>7. Filling'
    <3>1. ASSUME NEW v \in Writers
          PROVE  /\ pc'[v] # "idle" => msg'[v] \in Sendable
                 /\ \A j \in 1 .. Len(chain'[v]) : block'[chain'[v][j]] = Filled(msg'[v], j)
      <4>1. v \in Threads BY DEF Threads
      <4>2. CASE v = w
        <5>1. msg[w] \in Sendable BY <1>1 DEF Ordered, Filling
        <5>2. ASSUME NEW j \in 1 .. k
              PROVE  block'[chain'[w][j]] = Filled(msg[w], j)
          <6>1. CASE j = k BY <2>3, <2>4, <6>1
          <6>2. CASE j # k
            <7>1. j \in 1 .. Len(chain[w]) BY <1>0, <6>2
            <7>2. block[chain[w][j]] = Filled(msg[w], j) BY <7>1 DEF Ordered, Filling
            <7>3. QED BY <1>0, <2>3, <2>4, <2>5, <7>1, <7>2
          <6>3. QED BY <6>1, <6>2
        <5>3. QED BY <2>1, <2>3, <2>4, <4>2, <5>1, <5>2
      <4>3. CASE v # w
        <5>1. chain'[v] = chain[v] /\ pc'[v] = pc[v] /\ msg'[v] = msg[v] BY <2>1, <2>4, <4>1, <4>3
        <5>2. QED BY <2>5, <4>1, <5>1 DEF Ordered, Filling
      <4>4. QED BY <4>2, <4>3
    <3>2. QED BY <3>1 DEF Filling
  <2>8. Emptying'
    <3>1. \A r \in Readers : r \in Threads /\ r # w BY <1>0 DEF Threads
    <3>2. \A r \in Readers : pc'[r] = pc[r] /\ chain'[r] = chain[r] BY <2>4, <3>1
    <3>3. QED BY <1>1, <2>5, <3>1, <3>2, EmptyingKept DEF Ordered
  <2>9. QED BY <1>1, <2>6, <2>7, <2>8 DEF Ordered
<1>4. QED BY <1>2, <1>3

\* AddUsed() and AddUsedList() add one message to the ones the used list spells.
LEMMA OrderedAppend ==
  ASSUME Ordered, Typed', Ownership', NEW w \in Writers, AppendUsed(w)
  PROVE  Ordered'
<1> DEFINE m0 == msg[w]
           L == Len(used)
           N == NumBlocks(m0)
<1>1. /\ pc[w] = "append" /\ pc' = [pc EXCEPT ![w] = "post"]
      /\ chain' = [chain EXCEPT ![w] = <<>>]
      /\ block' = block /\ msg' = msg /\ got' = got
      /\ m0 \in Sendable /\ Len(chain[w]) = N
      /\ Len(used') = L + N /\ nUsed' = Len(used')
      /\ \A i \in 1 .. L : used'[i] = used[i]
      /\ \A j \in 1 .. N : used'[L + j] = chain[w][j]
  BY Appended
<1>2. /\ L \in Nat /\ N \in Nat \ {0} /\ w \in Threads /\ w \notin Readers
      /\ pc \in [Threads -> Labels] /\ chain \in [Threads -> Seq(Blocks)]
  BY <1>1, SetOf, NumBlocksType, QueueAssumption
     DEF Ordered, Typed, TypeOK, Threads, Sendable
<1>3. /\ pc'[w] = "post" /\ chain'[w] = <<>>
      /\ \A u \in Threads \ {w} : pc'[u] = pc[u] /\ chain'[u] = chain[u]
  BY <1>1, <1>2
<1>4. \A j \in 1 .. N : block[chain[w][j]] = Filled(m0, j)
  BY <1>1 DEF Ordered, Filling
<1> HIDE DEF m0, L, N
<1>5. Framed'
  <2> SUFFICES ASSUME NEW i \in 1 .. L + N
               PROVE  \E m \in Sendable, s \in 0 .. L + N :
                         /\ s < i /\ i <= s + NumBlocks(m)
                         /\ s + NumBlocks(m) <= L + N
                         /\ \A j \in 1 .. NumBlocks(m) : block[used'[s + j]] = Filled(m, j)
    BY <1>1 DEF Framed, Spells
  <2>1. CASE i <= L
    <3>1. i \in 1 .. L BY <2>1
    <3>2. PICK m \in Sendable, s \in 0 .. L :
             s < i /\ i <= s + NumBlocks(m) /\ Spells(used, s, m)
      BY <3>1 DEF Ordered, Framed, L
    <3>3. NumBlocks(m) \in Nat BY NumBlocksType DEF Sendable
    <3>4. s + NumBlocks(m) <= L BY <3>2 DEF Spells, L
    <3>5. ASSUME NEW j \in 1 .. NumBlocks(m) PROVE block[used'[s + j]] = Filled(m, j)
      <4>1. s + j \in 1 .. L BY <1>2, <3>3, <3>4
      <4>2. QED BY <1>1, <3>2, <4>1 DEF Spells
    <3>6. s \in 0 .. L + N /\ s + NumBlocks(m) <= L + N BY <1>2, <3>3, <3>4
    <3>7. QED BY <3>2, <3>5, <3>6
  <2>2. CASE ~ (i <= L)
    <3>1. L < i /\ i <= L + N /\ L \in 0 .. L + N BY <1>2, <2>2
    <3>2. \A j \in 1 .. N : block[used'[L + j]] = Filled(m0, j) BY <1>1, <1>4
    <3>3. QED BY <1>1, <1>2, <3>1, <3>2 DEF N
  <2>3. QED BY <2>1, <2>2
<1>6. Filling'
  <2>1. ASSUME NEW v \in Writers
        PROVE  /\ pc'[v] # "idle" => pc[v] # "idle" /\ msg'[v] = msg[v]
               /\ chain'[v] = <<>> \/ (chain'[v] = chain[v] /\ msg'[v] = msg[v])
               /\ \A j \in 1 .. Len(chain[v]) : block'[chain[v][j]] = block[chain[v][j]]
    <3>1. CASE v = w BY <1>1, <1>3, <3>1
    <3>2. CASE v # w BY <1>1, <1>3, <3>2 DEF Threads
    <3>3. QED BY <3>1, <3>2
  <2>2. QED BY <2>1, FillingKept DEF Ordered
<1>7. Emptying'
  <2>1. \A r \in Readers : pc'[r] = pc[r] /\ chain'[r] = chain[r] BY <1>2, <1>3 DEF Threads
  <2>2. QED BY <1>1, <2>1, EmptyingKept DEF Ordered
<1>8. QED BY <1>1, <1>5, <1>6, <1>7 DEF Ordered

\* Taking the first message leaves the others whole.
LEMMA OrderedTake ==
  ASSUME Ordered, Typed', Ownership', NEW r \in Readers, TakeMessage(r)
  PROVE  Ordered'
<1>0. /\ r \in Threads /\ r \notin Writers /\ used \in Seq(Blocks) /\ Len(used) \in Nat
      /\ pc \in [Threads -> Labels] /\ chain \in [Threads -> Seq(Blocks)]
      /\ got \in [Readers -> Seq(Part)] /\ pc[r] = "take"
  BY QueueAssumption, SetOf DEF Ordered, Typed, TypeOK, Threads, TakeMessage
<1>1. CASE used = <<>> \/ TotalSize(SubSeq(used, 1, Extent(used))) > buf[r]
  <2>1. /\ pc' = [pc EXCEPT ![r] = "idle"]
        /\ used' = used /\ nUsed' = nUsed /\ block' = block /\ chain' = chain
        /\ got' = got /\ msg' = msg
    BY <1>1 DEF TakeMessage, Goto, Lists
  <2>2. pc'[r] = "idle" /\ \A u \in Threads \ {r} : pc'[u] = pc[u] BY <1>0, <2>1
  <2>3. QED BY <1>0, <2>1, <2>2, OrderedKept
<1>2. CASE ~ (used = <<>> \/ TotalSize(SubSeq(used, 1, Extent(used))) > buf[r])
  <2> DEFINE front(m) == SubSeq(used, 1, NumBlocks(m))
  <2>1. PICK m \in Sendable :
           /\ Spells(used, 0, m)
           /\ used' \in Seq(Blocks)
           /\ Len(used') = Len(used) - NumBlocks(m)
           /\ nUsed' = Len(used')
           /\ \A i \in 1 .. Len(used') : /\ used'[i] = used[NumBlocks(m) + i]
                                         /\ block'[used'[i]] = block[used'[i]]
           /\ \A u \in Threads \ {r} : \A i \in 1 .. Len(chain[u]) :
                 block'[chain[u][i]] = block[chain[u][i]]
           /\ chain' = [chain EXCEPT ![r] = front(m)]
           /\ Len(front(m)) = NumBlocks(m)
           /\ Spells(front(m), 0, m)
           /\ UNCHANGED <<msg, readSem>>
           /\ \/ pc' = [pc EXCEPT ![r] = "copy"] /\ UNCHANGED <<block, got>>
              \/ pc' = [pc EXCEPT ![r] = "free"] /\ got' = [got EXCEPT ![r] = Image(m)]
    BY <1>2, Detached
  <2> DEFINE N == NumBlocks(m)
             L == Len(used')
  <2>2. N \in Nat \ {0} /\ L \in Nat /\ Len(used) = N + L
    BY <1>0, <2>1, SetOf, NumBlocksType DEF Sendable
  <2>3. /\ chain'[r] = front(m)
        /\ \A u \in Threads \ {r} : pc'[u] = pc[u] /\ chain'[u] = chain[u]
    BY <1>0, <2>1
  <2> HIDE DEF front, L
  <2>4. Framed'
    <3> SUFFICES ASSUME NEW i \in 1 .. L
                 PROVE  \E k \in Sendable, s \in 0 .. L :
                           /\ s < i /\ i <= s + NumBlocks(k)
                           /\ s + NumBlocks(k) <= L
                           /\ \A j \in 1 .. NumBlocks(k) : block'[used'[s + j]] = Filled(k, j)
      BY DEF Framed, Spells, L
    <3>1. N + i \in 1 .. Len(used) BY <2>2
    <3>2. PICK k \in Sendable, s \in 0 .. Len(used) :
             s < N + i /\ N + i <= s + NumBlocks(k) /\ Spells(used, s, k)
      BY <3>1 DEF Ordered, Framed
    <3> DEFINE K == NumBlocks(k)
    <3>3. K \in Nat \ {0} BY NumBlocksType DEF Sendable
    <3>4. /\ s + K <= N + L
          /\ \A j \in 1 .. K : block[used[s + j]] = Filled(k, j)
      BY <2>2, <3>2 DEF Spells
    <3>5. N <= s
      <4> SUFFICES ASSUME ~ (N <= s) PROVE FALSE OBVIOUS
      <4>1. N - s \in 1 .. K /\ N - s < K /\ s + (N - s) = N /\ N \in 1 .. N /\ 0 + N = N
        <5>1. N > s /\ N + i > N BY <2>2
        <5>2. N - s >= 1 /\ s + K > N BY <2>2, <3>2, <3>3, <5>1
        <5>3. QED BY <2>2, <3>3, <5>2
      <4>2. block[used[N]].cont BY <3>4, <4>1, FlagOf
      <4>3. block[used[N]] = Filled(m, N) BY <2>1, <4>1 DEF Spells
      <4>4. ~ (N < N) BY <2>2
      <4>5. QED BY <4>1, <4>2, <4>3, <4>4, FlagOf
    <3> HIDE DEF N, K
    <3>6. /\ s - N \in 0 .. L /\ s - N < i /\ i <= (s - N) + K /\ (s - N) + K <= L
      BY <2>2, <3>2, <3>3, <3>4, <3>5 DEF K, N
    <3>7. ASSUME NEW j \in 1 .. K PROVE block'[used'[(s - N) + j]] = Filled(k, j)
      <4>1. (s - N) + j \in 1 .. L /\ N + ((s - N) + j) = s + j
        BY <2>2, <3>3, <3>6
      <4>2. /\ used'[(s - N) + j] = used[N + ((s - N) + j)]
            /\ block'[used'[(s - N) + j]] = block[used'[(s - N) + j]]
        BY <2>1, <4>1 DEF L, N
      <4>3. QED BY <3>4, <4>1, <4>2
    <3>8. QED BY <3>6, <3>7 DEF K
  <2> HIDE DEF N
  <2>5. Filling'
    <3>1. ASSUME NEW w \in Writers
          PROVE  /\ pc'[w] # "idle" => pc[w] # "idle" /\ msg'[w] = msg[w]
                 /\ chain'[w] = <<>> \/ (chain'[w] = chain[w] /\ msg'[w] = msg[w])
                 /\ \A j \in 1 .. Len(chain[w]) : block'[chain[w][j]] = block[chain[w][j]]
      <4>1. w \in Threads \ {r} BY <1>0 DEF Threads
      <4>2. QED BY <2>1, <2>3, <4>1
    <3>2. QED BY <3>1, FillingKept DEF Ordered
  <2>6. Emptying'
    <3> SUFFICES ASSUME NEW q \in Readers
                 PROVE  /\ pc'[q] = "copy" =>
                              \E k \in Sendable :
                                 /\ Len(chain'[q]) = NumBlocks(k)
                                 /\ 0 + NumBlocks(k) <= Len(chain'[q])
                                 /\ \A j \in 1 .. NumBlocks(k) :
                                       block'[chain'[q][0 + j]] = Filled(k, j)
                        /\ got'[q] = <<>> \/ \E k \in Message : got'[q] = Image(k)
                        /\ pc'[q] \in {"rsem", "take", "copy"} => got'[q] = <<>>
      BY DEF Emptying, Spells
    <3>1. CASE q = r
      <4>1. got[r] = <<>> BY <1>0 DEF Ordered, Emptying
      <4>2. CASE pc' = [pc EXCEPT ![r] = "copy"] /\ UNCHANGED <<block, got>>
        <5>1. pc'[r] = "copy" /\ got'[r] = <<>> BY <1>0, <4>1, <4>2
        <5>2. /\ 0 + NumBlocks(m) <= Len(front(m))
              /\ \A j \in 1 .. NumBlocks(m) : block'[front(m)[0 + j]] = Filled(m, j)
          BY <2>1, <4>2 DEF Spells
        <5>3. QED BY <2>1, <2>3, <3>1, <5>1, <5>2
      <4>3. CASE pc' = [pc EXCEPT ![r] = "free"] /\ got' = [got EXCEPT ![r] = Image(m)]
        <5>1. pc'[r] = "free" /\ got'[r] = Image(m) BY <1>0, <4>3
        <5>2. m \in Message BY DEF Sendable
        <5>3. QED BY <3>1, <5>1, <5>2
      <4>4. QED BY <2>1, <4>2, <4>3
    <3>2. CASE q # r
      <4>1. q \in Threads \ {r} /\ pc'[q] = pc[q] /\ chain'[q] = chain[q]
        BY <2>3, <3>2 DEF Threads
      <4>2. got'[q] = got[q]
        <5>1. got' = got \/ got' = [got EXCEPT ![r] = Image(m)] BY <2>1
        <5>2. QED BY <1>0, <3>2, <5>1
      <4>3. ASSUME pc'[q] = "copy"
            PROVE  \E k \in Sendable :
                      /\ Len(chain'[q]) = NumBlocks(k)
                      /\ 0 + NumBlocks(k) <= Len(chain'[q])
                      /\ \A j \in 1 .. NumBlocks(k) :
                            block'[chain'[q][0 + j]] = Filled(k, j)
        <5>1. PICK k \in Sendable : Len(chain[q]) = NumBlocks(k) /\ Spells(chain[q], 0, k)
          BY <4>1, <4>3 DEF Ordered, Emptying
        <5>2. NumBlocks(k) \in Nat BY NumBlocksType DEF Sendable
        <5>3. ASSUME NEW j \in 1 .. NumBlocks(k)
              PROVE  block'[chain'[q][0 + j]] = Filled(k, j)
          <6>1. 0 + j = j /\ j \in 1 .. Len(chain[q]) BY <5>1, <5>2
          <6>2. block'[chain[q][j]] = block[chain[q][j]] BY <2>1, <4>1, <6>1
          <6>3. QED BY <4>1, <5>1, <6>1, <6>2 DEF Spells
        <5>4. QED BY <4>1, <5>1, <5>3 DEF Spells
      <4>4. /\ got'[q] = <<>> \/ \E k \in Message : got'[q] = Image(k)
            /\ pc'[q] \in {"rsem", "take", "copy"} => got'[q] = <<>>
        BY <4>1, <4>2 DEF Ordered, Emptying
      <4>5. QED BY <4>3, <4>4
    <3>3. QED BY <3>1, <3>2
  <2>7. QED BY <2>1, <2>4, <2>5, <2>6 DEF Ordered
<1>3. QED BY <1>1, <1>2

\* ReadMultiBlock() empties only blocks that it holds.
LEMMA OrderedCopy ==
  ASSUME Ordered, Typed', Ownership', NEW r \in Readers, CopyOut(r)
  PROVE  Ordered'
<1>0. /\ r \in Threads /\ r \notin Writers
      /\ pc \in [Threads -> Labels] /\ chain \in [Threads -> Seq(Blocks)]
      /\ used \in Seq(Blocks) /\ got \in [Readers -> Seq(Part)]
      /\ block \in [Blocks -> Contents]
  BY QueueAssumption DEF Ordered, Typed, TypeOK, Threads
<1>1. /\ pc[r] = "copy" /\ pc' = [pc EXCEPT ![r] = "free"]
      /\ used' = used /\ nUsed' = nUsed /\ chain' = chain /\ msg' = msg
      /\ got' = [got EXCEPT ![r] = Copy(chain[r])]
  BY DEF CopyOut, Goto
<1>2. ASSUME NEW b \in Blocks, \A i \in 1 .. Len(chain[r]) : b # chain[r][i]
      PROVE  block'[b] = block[b]
  <2>1. Len(chain[r]) \in Nat BY <1>0, SetOf
  <2>2. ~ \E i \in 1 .. Len(chain[r]) - 1 : chain[r][i] = b BY <1>2, <2>1
  <2>3. QED BY <2>2 DEF CopyOut
<1>3. \A i \in 1 .. Len(used) : block'[used[i]] = block[used[i]]
  BY <1>0, <1>2, OwnBlocks, ElementOfSeq DEF Ordered
<1>4. ASSUME NEW u \in Threads \ {r}, NEW i \in 1 .. Len(chain[u])
      PROVE  block'[chain[u][i]] = block[chain[u][i]]
  <2>1. chain[u][i] \in Blocks BY <1>0, ElementOfSeq
  <2>2. \A j \in 1 .. Len(chain[r]) : chain[u][i] # chain[r][j] BY <1>0, OwnBlocks DEF Ordered
  <2>3. QED BY <1>2, <2>1, <2>2
<1>5. pc'[r] = "free" /\ \A u \in Threads \ {r} : pc'[u] = pc[u] BY <1>0, <1>1
<1>6. PICK m \in Sendable : Len(chain[r]) = NumBlocks(m) /\ Spells(chain[r], 0, m)
  BY <1>1 DEF Ordered, Emptying
<1>7. /\ got'[r] = Image(m)
      /\ \A q \in Readers \ {r} : got'[q] = got[q]
  BY <1>0, <1>1, <1>6, CopyOf
<1>8. Framed' BY <1>1, <1>3, FramedKept DEF Ordered
<1>9. Filling'
  <2>1. ASSUME NEW w \in Writers
        PROVE  w \in Threads \ {r} /\ pc'[w] = pc[w]
    BY <1>0, <1>5 DEF Threads
  <2>2. QED BY <1>1, <1>4, <2>1, FillingKept DEF Ordered
<1>10. Emptying'
  <2> SUFFICES ASSUME NEW q \in Readers
               PROVE  /\ pc'[q] = "copy" =>
                            \E k \in Sendable :
                               /\ Len(chain'[q]) = NumBlocks(k)
                               /\ 0 + NumBlocks(k) <= Len(chain'[q])
                               /\ \A j \in 1 .. NumBlocks(k) :
                                     block'[chain'[q][0 + j]] = Filled(k, j)
                      /\ got'[q] = <<>> \/ \E k \in Message : got'[q] = Image(k)
                      /\ pc'[q] \in {"rsem", "take", "copy"} => got'[q] = <<>>
    BY DEF Emptying, Spells
  <2>1. CASE q = r BY <1>5, <1>7, <2>1 DEF Sendable
  <2>2. CASE q # r
    <3>1. /\ q \in Threads \ {r} /\ pc'[q] = pc[q] /\ chain'[q] = chain[q] /\ got'[q] = got[q]
      BY <1>1, <1>5, <1>7, <2>2 DEF Threads
    <3>2. ASSUME pc'[q] = "copy"
          PROVE  \E k \in Sendable :
                    /\ Len(chain'[q]) = NumBlocks(k)
                    /\ 0 + NumBlocks(k) <= Len(chain'[q])
                    /\ \A j \in 1 .. NumBlocks(k) :
                          block'[chain'[q][0 + j]] = Filled(k, j)
      <4>1. PICK k \in Sendable : Len(chain[q]) = NumBlocks(k) /\ Spells(chain[q], 0, k)
        BY <3>1, <3>2 DEF Ordered, Emptying
      <4>2. NumBlocks(k) \in Nat BY NumBlocksType DEF Sendable
      <4>3. ASSUME NEW j \in 1 .. NumBlocks(k)
            PROVE  block'[chain'[q][0 + j]] = Filled(k, j)
        <5>1. 0 + j = j /\ j \in 1 .. Len(chain[q]) BY <4>1, <4>2
        <5>2. block'[chain[q][j]] = block[chain[q][j]] BY <1>4, <3>1, <5>1
        <5>3. QED BY <3>1, <4>1, <5>1, <5>2 DEF Spells
      <4>4. QED BY <3>1, <4>1, <4>3 DEF Spells
    <3>3. /\ got'[q] = <<>> \/ \E k \in Message : got'[q] = Image(k)
          /\ pc'[q] \in {"rsem", "take", "copy"} => got'[q] = <<>>
      BY <3>1 DEF Ordered, Emptying
    <3>4. QED BY <3>2, <3>3
  <2>3. QED BY <2>1, <2>2
<1>11. QED BY <1>1, <1>8, <1>9, <1>10 DEF Ordered

\* Every step keeps every message whole.
LEMMA OrderedNext == Ordered /\ [Next]_vars => Ordered'
<1> SUFFICES ASSUME Ordered, [Next]_vars PROVE Ordered' OBVIOUS
<1>0. /\ Typed' /\ Ownership' /\ Writers \cap Readers = {}
      /\ pc \in [Threads -> Labels] /\ chain \in [Threads -> Seq(Blocks)]
      /\ msg \in [Writers -> Message \cup {NoMsg}] /\ got \in [Readers -> Seq(Part)]
  BY TypedNext, OwnershipNext, QueueAssumption DEF Ordered, Typed, TypeOK
<1>1. ASSUME NEW w \in Writers, WaitForSemWrite(w) \/ WriteTimeout(w) \/ PostRead(w) \/ GiveBack(w)
      PROVE  Ordered'
  <2>1. w \in Threads /\ w \notin Readers BY <1>0 DEF Threads
  <2>2. /\ used' = used /\ nUsed' = nUsed /\ block' = block /\ got' = got
        /\ pc[w] # "idle"
    BY <1>1 DEF WaitForSemWrite, WriteTimeout, PostRead, GiveBack, Lists
  <2>3. /\ pc' \in {[pc EXCEPT ![w] = "idle"], [pc EXCEPT ![w] = "alloc"],
                   [pc EXCEPT ![w] = "giveback"]}
        /\ \A v \in Writers \ {w} : msg'[v] = msg[v]
    BY <1>0, <1>1 DEF WaitForSemWrite, WriteTimeout, PostRead, GiveBack, Goto, Return
  <2>4. /\ pc'[w] \in {"idle", "alloc", "giveback"}
        /\ \A u \in Threads \ {w} : pc'[u] = pc[u]
    BY <1>0, <2>1, <2>3
  <2>5. pc'[w] # "idle" => msg'[w] = msg[w]
    BY <1>0, <1>1, <2>1 DEF WaitForSemWrite, WriteTimeout, PostRead, GiveBack, Goto, Return
  <2>6. /\ \A u \in Threads \ {w} : chain'[u] = chain[u]
        /\ chain'[w] = <<>> \/ (chain'[w] = chain[w] /\ msg'[w] = msg[w])
    <3>1. CASE GiveBack(w) BY <1>0, <2>1, <3>1 DEF GiveBack
    <3>2. CASE WaitForSemWrite(w) BY <3>2 DEF WaitForSemWrite
    <3>3. CASE PostRead(w)
      <4>1. chain' = chain /\ pc[w] = "post" BY <3>3 DEF PostRead
      <4>2. QED BY <4>1 DEF Ordered, Typed, WriterState
    <3>4. CASE WriteTimeout(w) BY <3>4 DEF WriteTimeout
    <3>5. QED BY <1>1, <3>1, <3>2, <3>3, <3>4
  <2>7. QED BY <1>0, <2>1, <2>2, <2>3, <2>4, <2>5, <2>6, OrderedKept
<1>2. ASSUME NEW r \in Readers,
             \/ \E n \in BufSizes : Read(r, n)
             \/ WaitForSemRead(r) \/ ReadTimeout(r) \/ FreeBlocks(r) \/ ReleaseWrite(r)
      PROVE  Ordered'
  <2>1. r \in Threads /\ r \notin Writers BY <1>0 DEF Threads
  <2>2. /\ used' = used /\ nUsed' = nUsed /\ block' = block /\ msg' = msg
    BY <1>2 DEF Read, WaitForSemRead, ReadTimeout, FreeBlocks, ReleaseWrite, Lists
  <2>3. /\ pc' \in {[pc EXCEPT ![r] = "rsem"], [pc EXCEPT ![r] = "take"],
                    [pc EXCEPT ![r] = "idle"], [pc EXCEPT ![r] = "release"]}
        /\ chain' = chain \/ chain' = [chain EXCEPT ![r] = <<>>]
        /\ \/ got' = [got EXCEPT ![r] = <<>>]
           \/ got' = got /\ (pc' = [pc EXCEPT ![r] = "take"] => pc[r] = "rsem")
                         /\ pc' # [pc EXCEPT ![r] = "rsem"]
    <3>1. CASE \E n \in BufSizes : Read(r, n) BY <3>1 DEF Read, Goto
    <3>a. \A a, b \in Labels : [pc EXCEPT ![r] = a] = [pc EXCEPT ![r] = b] => a = b
      BY <1>0, <2>1
    <3>2. CASE WaitForSemRead(r) BY <3>2, <3>a DEF WaitForSemRead, Goto, Labels
    <3>3. CASE ReadTimeout(r) BY <3>3, <3>a DEF ReadTimeout, Goto, Labels
    <3>4. CASE FreeBlocks(r) BY <3>4, <3>a DEF FreeBlocks, Goto, Labels
    <3>5. CASE ReleaseWrite(r) BY <3>5, <3>a DEF ReleaseWrite, Goto, Labels
    <3>6. QED BY <1>2, <3>1, <3>2, <3>3, <3>4, <3>5
  <2>4. /\ pc'[r] \in {"rsem", "take", "idle", "release"}
        /\ \A u \in Threads \ {r} : pc'[u] = pc[u] /\ chain'[u] = chain[u]
        /\ chain'[r] = <<>> \/ chain'[r] = chain[r]
    BY <1>0, <2>1, <2>3
  <2>5. /\ \A q \in Readers \ {r} : got'[q] = got[q]
        /\ \/ got'[r] = <<>>
           \/ /\ got'[r] = got[r]
              /\ pc'[r] \in {"rsem", "take"} => pc[r] \in {"rsem", "take"}
    BY <1>0, <2>1, <2>3
  <2>6. QED BY <1>0, <2>1, <2>2, <2>4, <2>5, OrderedKept
<1>3. CASE UNCHANGED vars
  <2>1. /\ used' = used /\ nUsed' = nUsed /\ block' = block /\ pc' = pc /\ chain' = chain
        /\ msg' = msg /\ got' = got
    BY <1>3 DEF vars
  <2>2. Framed' BY <2>1, FramedKept DEF Ordered
  <2>3. Filling' BY <2>1, FillingKept DEF Ordered
  <2>4. Emptying' BY <2>1, EmptyingKept DEF Ordered
  <2>5. QED BY <1>0, <2>1, <2>2, <2>3, <2>4 DEF Ordered
<1>4. CASE Next
  BY <1>0, <1>1, <1>2, <1>4, OrderedWrite, OrderedAlloc, OrderedAppend, OrderedTake, OrderedCopy
     DEF Next, WriteStep, ReadStep
<1>5. QED BY <1>3, <1>4

LEMMA AlwaysOrdered == Spec => []Ordered
BY OrderedInit, OrderedNext, PTL DEF Spec

\* The messages of the used list are whole, in consecutive blocks.
LEMMA OrderedWhole == Ordered => UsedWhole
<1> SUFFICES ASSUME Ordered, NEW i \in 1 .. Len(used)
             PROVE  LET b == block[used[i]] IN
                    /\ b.of \in Message
                    /\ b = Filled(b.of, b.part)
                    /\ b.part > 1 => i > 1 /\ block[used[i - 1]] = Filled(b.of, b.part - 1)
                    /\ b.cont => i < Len(used)
  BY DEF UsedWhole
<1>1. PICK m \in Sendable, s \in 0 .. Len(used) :
         s < i /\ i <= s + NumBlocks(m) /\ Spells(used, s, m)
  BY DEF Ordered, Framed
<1>2. NumBlocks(m) \in Nat \ {0} /\ Len(used) \in Nat
  BY NumBlocksType, SetOf DEF Sendable, Ordered, Typed, TypeOK
<1> DEFINE p == i - s
<1>3. p \in 1 .. NumBlocks(m) /\ s + p = i BY <1>1, <1>2
<1> HIDE DEF p
<1>4. block[used[i]] = Filled(m, p) BY <1>1, <1>3 DEF Spells
<1>5. block[used[i]].of = m /\ block[used[i]].part = p BY <1>3, <1>4, FlagOf
<1>6. ASSUME p > 1
      PROVE  i > 1 /\ block[used[i - 1]] = Filled(m, p - 1)
  <2>1. p - 1 \in 1 .. NumBlocks(m) /\ s + (p - 1) = i - 1 /\ i > 1 BY <1>2, <1>3, <1>6
  <2>2. QED BY <1>1, <2>1 DEF Spells
<1>7. ASSUME block[used[i]].cont PROVE i < Len(used)
  <2>1. p < NumBlocks(m) BY <1>3, <1>4, <1>7, FlagOf
  <2>2. s + NumBlocks(m) <= Len(used) BY <1>1 DEF Spells
  <2>3. QED BY <1>2, <1>3, <2>1, <2>2
<1>8. QED BY <1>4, <1>5, <1>6, <1>7 DEF Sendable

-----------------------------------------------------------------------------
(* The queue of messages. *)

\* The last blocks of the used list are finitely many positions of it.
EndsTyped ==
    /\ Ends \in SUBSET Nat /\ IsFiniteSet(Ends) /\ 0 \notin Ends
    /\ Ends \in SUBSET (1 .. Len(used))
    /\ Cardinality(Ends) \in Nat
    /\ \A k \in 1 .. Cardinality(Ends) : Nth(Ends, k) \in 1 .. Len(used)

LEMMA EndsType == Typed => EndsTyped
<1> SUFFICES ASSUME Typed PROVE EndsTyped OBVIOUS
<1>1. Len(used) \in Nat BY SetOf DEF Typed, TypeOK
<1>2. Ends \in SUBSET (1 .. Len(used)) /\ 0 \notin Ends BY <1>1 DEF Ends
<1>3. IsFiniteSet(1 .. Len(used)) BY <1>1, FS_Interval
<1>4. Ends \in SUBSET Nat BY <1>1, <1>2
<1>5. IsFiniteSet(Ends) BY <1>2, <1>3, FS_Subset
<1>6. Cardinality(Ends) \in Nat BY <1>5, FS_CardinalityType
<1>7. \A k \in 1 .. Cardinality(Ends) : Nth(Ends, k) \in Ends BY <1>4, <1>5, NthType
<1>8. QED BY <1>2, <1>4, <1>5, <1>6, <1>7 DEF EndsTyped

\* The messages they stand for are a sequence.
QueuedTyped ==
    /\ Queued \in Seq(Message \cup {NoMsg})
    /\ Len(Queued) = Cardinality(Ends)
    /\ \A k \in 1 .. Cardinality(Ends) : Queued[k] = block[used[Nth(Ends, k)]].of

LEMMA QueuedType == Typed => QueuedTyped
<1> SUFFICES ASSUME Typed PROVE QueuedTyped OBVIOUS
<1>1. /\ Cardinality(Ends) \in Nat
      /\ \A k \in 1 .. Cardinality(Ends) : Nth(Ends, k) \in 1 .. Len(used)
  BY EndsType DEF EndsTyped
<1>2. \A i \in 1 .. Len(used) : used[i] \in Blocks BY ElementOfSeq DEF Typed, TypeOK
<1>3. \A b \in Blocks : block[b].of \in Message \cup {NoMsg} BY DEF Typed, TypeOK, Contents
<1>4. Queued \in [1 .. Cardinality(Ends) -> Message \cup {NoMsg}]
  BY <1>1, <1>2, <1>3 DEF Queued
<1>5. Queued \in Seq(Message \cup {NoMsg}) BY <1>1, <1>4, SeqDef
<1>6. QED BY <1>1, <1>4, <1>5, LenProperties DEF Queued, QueuedTyped

\* The queue stays while the used list and its blocks do.
LEMMA QueuedKept ==
  ASSUME Typed, used' = used,
         \A i \in 1 .. Len(used) : block'[used[i]] = block[used[i]]
  PROVE  Ends' = Ends /\ Queued' = Queued
<1>1. Ends' = Ends BY DEF Ends
<1>2. \A k \in 1 .. Cardinality(Ends) : block'[used[Nth(Ends, k)]] = block[used[Nth(Ends, k)]]
  BY EndsType DEF EndsTyped
<1>3. Queued' = [k \in 1 .. Cardinality(Ends) |-> block'[used[Nth(Ends, k)]].of]
  BY <1>1 DEF Queued
<1>4. QED BY <1>1, <1>2, <1>3 DEF Queued

\* AppendUsed() puts a message behind the others.
LEMMA QueuedAppended ==
  ASSUME Ordered, Typed', NEW w \in Writers, AppendUsed(w)
  PROVE  /\ Queued' = Append(Queued, msg[w])
         /\ Cardinality(Ends') = Cardinality(Ends) + 1
<1> DEFINE m == msg[w]
           L == Len(used)
           N == NumBlocks(m)
           c == Cardinality(Ends)
<1>1. /\ pc[w] = "append" /\ block' = block /\ m \in Sendable
      /\ Len(chain[w]) = N /\ Len(used') = L + N
      /\ \A i \in 1 .. L : used'[i] = used[i]
      /\ \A j \in 1 .. N : used'[L + j] = chain[w][j]
  BY Appended
<1>2. L \in Nat /\ N \in Nat \ {0} BY <1>1, SetOf, NumBlocksType DEF Ordered, Typed, TypeOK, Sendable
<1>3. \A j \in 1 .. N : block[chain[w][j]] = Filled(m, j) BY <1>1 DEF Ordered, Filling
<1> HIDE DEF m, L, N
<1>4. Ends' = Ends \cup {L + N}
  <2>1. Ends' = {i \in 1 .. L + N : ~ block[used'[i]].cont} BY <1>1 DEF Ends
  <2>2. Ends = {i \in 1 .. L : ~ block[used[i]].cont} BY DEF Ends, L
  <2>3. ASSUME NEW i \in 1 .. L + N
        PROVE  ~ block[used'[i]].cont <=> i = L + N \/ (i \in 1 .. L /\ ~ block[used[i]].cont)
    <3>1. CASE i <= L BY <1>1, <1>2, <3>1
    <3>2. CASE ~ (i <= L)
      <4>1. i - L \in 1 .. N /\ L + (i - L) = i BY <1>2, <3>2
      <4>2. block[used'[i]] = Filled(m, i - L) BY <1>1, <1>3, <4>1
      <4>3. block[used'[i]].cont <=> i - L < N BY <1>1, <4>1, <4>2, FlagOf DEF N
      <4>4. QED BY <1>2, <3>2, <4>1, <4>3
    <3>3. QED BY <3>1, <3>2
  <2>4. L + N \in 1 .. L + N /\ \A i \in 1 .. L : i \in 1 .. L + N BY <1>2
  <2>5. QED BY <2>1, <2>2, <2>3, <2>4
<1>5. /\ Ends \in SUBSET Nat /\ IsFiniteSet(Ends) /\ L + N \in Nat
      /\ Ends \in SUBSET (1 .. L) /\ c \in Nat
      /\ \A k \in 1 .. c : Nth(Ends, k) \in 1 .. L
  BY <1>2, EndsType DEF Ordered, L, EndsTyped
<1>6. \A i \in Ends : i < L + N BY <1>2, <1>5
<1>7. /\ Cardinality(Ends') = c + 1
      /\ \A k \in 1 .. c : Nth(Ends', k) = Nth(Ends, k)
      /\ Nth(Ends', c + 1) = L + N
  BY <1>4, <1>5, <1>6, OneAbove
<1>8. /\ Queued \in Seq(Message \cup {NoMsg}) /\ Len(Queued) = c
      /\ \A k \in 1 .. c : Queued[k] = block[used[Nth(Ends, k)]].of
  BY QueuedType DEF Ordered, QueuedTyped
<1>9. /\ Queued' \in Seq(Message \cup {NoMsg}) /\ Len(Queued') = c + 1
      /\ \A k \in 1 .. c + 1 : Queued'[k] = block[used'[Nth(Ends', k)]].of
  <2>1. /\ Queued' \in Seq(Message \cup {NoMsg}) /\ Len(Queued') = Cardinality(Ends')
        /\ \A k \in 1 .. Cardinality(Ends') : Queued'[k] = block'[used'[Nth(Ends', k)]].of
    <3>1. QueuedTyped' BY QueuedType, PTL
    <3>2. QED BY <3>1 DEF QueuedTyped
  <2>2. QED BY <1>1, <1>7, <2>1
<1> DEFINE q == Append(Queued, m)
<1>10. /\ q \in Seq(Message \cup {NoMsg}) /\ Len(q) = c + 1
       /\ \A k \in 1 .. c : q[k] = Queued[k]
       /\ q[c + 1] = m
  BY <1>1, <1>8, AppendProperties DEF Sendable
<1> HIDE DEF q, c
<1>11. ASSUME NEW k \in 1 .. c + 1 PROVE Queued'[k] = q[k]
  <2>1. CASE k = c + 1
    <3>1. N \in 1 .. N /\ used'[L + N] = chain[w][N] BY <1>1, <1>2
    <3>2. block[used'[L + N]].of = m BY <1>1, <1>3, <3>1, FlagOf DEF N
    <3>3. QED BY <1>7, <1>9, <1>10, <2>1, <3>2
  <2>2. CASE k # c + 1
    <3>1. k \in 1 .. c BY <1>5, <2>2
    <3>2. used'[Nth(Ends, k)] = used[Nth(Ends, k)] BY <1>1, <1>5, <3>1
    <3>3. QED BY <1>7, <1>8, <1>9, <1>10, <3>1, <3>2
  <2>3. QED BY <2>1, <2>2
<1>12. Queued' = q BY <1>9, <1>10, <1>11, SeqEqual
<1>13. QED BY <1>7, <1>12 DEF q, m, c

\* A read takes the first message of the queue, if there is one.
LEMMA QueuedTaken ==
  ASSUME Ordered, Typed', NEW m \in Sendable, Spells(used, 0, m),
         Len(used') = Len(used) - NumBlocks(m),
         \A i \in 1 .. Len(used') : /\ used'[i] = used[NumBlocks(m) + i]
                                    /\ block'[used'[i]] = block[used'[i]]
  PROVE  /\ Queued # <<>> /\ Head(Queued) = m /\ Queued' = Tail(Queued)
         /\ Cardinality(Ends) = Cardinality(Ends') + 1
<1> DEFINE L == Len(used')
           N == NumBlocks(m)
           c == Cardinality(Ends')
<1>1. /\ L \in Nat /\ N \in Nat \ {0} /\ Len(used) = N + L
  <2>1. Len(used) \in Nat /\ Len(used') \in Nat BY SetOf DEF Ordered, Typed, TypeOK
  <2>2. QED BY <2>1, NumBlocksType DEF Sendable
<1>2. ASSUME NEW j \in 1 .. N PROVE block[used[j]] = Filled(m, j)
  <2>1. 0 + j = j BY <1>1
  <2>2. QED BY <2>1 DEF Spells
<1> HIDE DEF L, N
<1>3. /\ N \in Ends
      /\ \A i \in Ends' : N + i \in Ends
      /\ \A i \in Ends \ {N} : \E j \in Ends' : i = N + j
  <2>1. Ends' = {i \in 1 .. L : ~ block'[used'[i]].cont} BY DEF Ends, L
  <2>2. Ends = {i \in 1 .. N + L : ~ block[used[i]].cont} BY <1>1 DEF Ends
  <2>3. ASSUME NEW i \in Ends PROVE i = N \/ i - N \in Ends'
    <3>1. i \in 1 .. N + L /\ ~ block[used[i]].cont BY <2>2
    <3>2. CASE i <= N
      <4>1. i \in 1 .. N BY <1>1, <3>1, <3>2
      <4>2. ~ (i < N) BY <1>2, <3>1, <4>1, FlagOf DEF N
      <4>3. QED BY <1>1, <3>2, <4>1, <4>2
    <3>3. CASE ~ (i <= N)
      <4>1. i - N \in 1 .. L /\ N + (i - N) = i BY <1>1, <3>1, <3>3
      <4>2. block'[used'[i - N]] = block[used[i]] BY <4>1 DEF L, N
      <4>3. QED BY <2>1, <3>1, <4>1, <4>2
    <3>4. QED BY <3>2, <3>3
  <2>4. N \in Ends
    <3>1. N \in 1 .. N + L /\ N \in 1 .. N /\ ~ (N < N) BY <1>1
    <3>2. ~ block[used[N]].cont BY <1>2, <3>1, FlagOf DEF N
    <3>3. QED BY <2>2, <3>1, <3>2
  <2>5. ASSUME NEW i \in Ends' PROVE N + i \in Ends
    <3>1. i \in 1 .. L /\ ~ block'[used'[i]].cont BY <2>1
    <3>2. block'[used'[i]] = block[used[N + i]] BY <3>1 DEF L, N
    <3>3. N + i \in 1 .. N + L BY <1>1, <3>1
    <3>4. QED BY <2>2, <3>1, <3>2, <3>3
  <2>6. ASSUME NEW i \in Ends, i # N PROVE \E j \in Ends' : i = N + j
    <3>1. i - N \in Ends' BY <2>3, <2>6
    <3>2. i \in Int /\ N + (i - N) = i BY <1>1, <2>2
    <3>3. QED BY <3>1, <3>2
  <2>7. QED BY <2>4, <2>5, <2>6
<1>4. /\ Ends \in SUBSET Nat /\ IsFiniteSet(Ends) BY EndsType DEF Ordered, EndsTyped
<1>5. /\ Ends' \in SUBSET Nat /\ 0 \notin Ends' /\ c \in Nat
      /\ \A k \in 1 .. c : Nth(Ends', k) \in 1 .. L
  <2>1. EndsTyped' BY EndsType, PTL
  <2>2. QED BY <2>1 DEF EndsTyped, L
<1>6. /\ Cardinality(Ends) = c + 1
      /\ Nth(Ends, 1) = N
      /\ \A k \in 1 .. c : Nth(Ends, k + 1) = N + Nth(Ends', k)
  <2> DEFINE rest == Ends'
  <2>1. /\ rest \in SUBSET Nat /\ 0 \notin rest /\ N \in Nat /\ N \in Ends
        /\ \A i \in rest : N + i \in Ends
        /\ \A i \in Ends \ {N} : \E j \in rest : i = N + j
    BY <1>1, <1>3, <1>5
  <2>2. c = Cardinality(rest) OBVIOUS
  <2> HIDE DEF rest, c
  <2> DEFINE set == Ends
  <2>3. /\ set \in SUBSET Nat /\ IsFiniteSet(set) /\ N \in set
        /\ \A i \in rest : N + i \in set
        /\ \A i \in set \ {N} : \E j \in rest : i = N + j
    BY <1>4, <2>1
  <2> HIDE DEF set
  <2>4. /\ Cardinality(set) = Cardinality(rest) + 1
        /\ Nth(set, 1) = N
        /\ \A k \in 1 .. Cardinality(rest) : Nth(set, k + 1) = N + Nth(rest, k)
    BY <2>1, <2>3, OneBelow
  <2>5. QED BY <2>2, <2>4 DEF rest, set
<1>7. /\ Queued \in Seq(Message \cup {NoMsg}) /\ Len(Queued) = c + 1
      /\ \A k \in 1 .. c + 1 : Queued[k] = block[used[Nth(Ends, k)]].of
  BY <1>6, QueuedType DEF Ordered, QueuedTyped
<1>8. /\ Queued' \in Seq(Message \cup {NoMsg}) /\ Len(Queued') = c
      /\ \A k \in 1 .. c : Queued'[k] = block'[used'[Nth(Ends', k)]].of
  <2>1. QueuedTyped' BY QueuedType, PTL
  <2>2. QED BY <2>1 DEF QueuedTyped
<1> HIDE DEF c
<1>9. Queued # <<>> BY <1>5, <1>7
<1>10. Head(Queued) = m
  <2>1. Head(Queued) = Queued[1] BY <1>7, <1>9
  <2>2. N \in 1 .. N /\ 1 \in 1 .. c + 1 BY <1>1, <1>5
  <2>3. block[used[N]].of = m BY <1>2, <2>2, FlagOf DEF N
  <2>4. QED BY <1>6, <1>7, <2>1, <2>2, <2>3
<1> DEFINE q == Tail(Queued)
<1>11. /\ q \in Seq(Message \cup {NoMsg}) /\ Len(q) = c
       /\ \A k \in 1 .. c : q[k] = Queued[k + 1]
  <2>1. /\ q \in Seq(Message \cup {NoMsg}) /\ Len(q) = Len(Queued) - 1
        /\ \A k \in 1 .. Len(q) : q[k] = Queued[k + 1]
    BY <1>7, <1>9, HeadTailProperties
  <2>2. Len(q) = c BY <1>5, <1>7, <2>1
  <2>3. QED BY <2>1, <2>2
<1> HIDE DEF q
<1>12. ASSUME NEW k \in 1 .. c PROVE Queued'[k] = q[k]
  <2>1. Nth(Ends', k) \in 1 .. L /\ Nth(Ends, k + 1) = N + Nth(Ends', k) BY <1>5, <1>6
  <2>2. block'[used'[Nth(Ends', k)]] = block[used[N + Nth(Ends', k)]] BY <2>1 DEF L, N
  <2>3. k + 1 \in 1 .. c + 1 BY <1>5
  <2>4. q[k] = Queued[k + 1] BY <1>11
  <2>5. Queued[k + 1] = block[used[Nth(Ends, k + 1)]].of BY <1>7, <2>3
  <2>6. Queued'[k] = block'[used'[Nth(Ends', k)]].of BY <1>8
  <2>7. QED BY <2>1, <2>2, <2>4, <2>5, <2>6
<1>13. Queued' = q BY <1>8, <1>11, <1>12, SeqEqual
<1>14. QED BY <1>6, <1>9, <1>10, <1>13 DEF q, c

-----------------------------------------------------------------------------
(* XQueue implements FifoQueue. *)

\* A message is itself when it is put together again, and an empty buffer none.
LEMMA AssembledType ==
  /\ Assembled(<<>>) = NoMsg
  /\ \A m \in Message : Assembled(Image(m)) = m /\ Image(m) # <<>>
<1>1. Assembled(<<>>) = NoMsg BY DEF Assembled
<1>2. ASSUME NEW m \in Message PROVE Assembled(Image(m)) = m /\ Image(m) # <<>>
  <2>1. NumBlocks(m) \in Nat \ {0} BY NumBlocksType
  <2>2. Image(m)[1] = [of |-> m, part |-> 1] BY <2>1 DEF Image
  <2>3. Image(m)[1].of = m BY <2>2
  <2>4. Image(m) # <<>>
    <3>1. DOMAIN Image(m) = 1 .. NumBlocks(m) /\ 1 \in 1 .. NumBlocks(m) BY <2>1 DEF Image
    <3>2. DOMAIN <<>> = {} OBVIOUS
    <3>3. QED BY <3>1, <3>2
  <2>5. QED BY <2>3, <2>4 DEF Assembled
<1>3. QED BY <1>1, <1>2

\* Writes under way stay so while their threads and messages do.
LEMMA SendingKept ==
  ASSUME \A w \in Writers :
            \/ pc'[w] = pc[w] /\ msg'[w] = msg[w]
            \/ /\ pc[w] \in {"wsem", "alloc", "append"} /\ pc'[w] \in {"wsem", "alloc", "append"}
               /\ msg'[w] = msg[w]
            \/ /\ pc[w] \notin {"wsem", "alloc", "append"}
               /\ pc'[w] \notin {"wsem", "alloc", "append"}
  PROVE  Sending' = Sending
<1>1. ASSUME NEW w \in Writers
      PROVE  (IF pc'[w] \in {"wsem", "alloc", "append"} THEN msg'[w] ELSE NoMsg)
               = (IF pc[w] \in {"wsem", "alloc", "append"} THEN msg[w] ELSE NoMsg)
  OBVIOUS
<1>2. QED BY <1>1 DEF Sending

\* A reader's buffer, or the message it has detached, while nobody touches it.
LEMMA ReceivedKept ==
  ASSUME NEW r \in Readers, pc'[r] = "copy" <=> pc[r] = "copy",
         chain'[r] = chain[r] \/ pc'[r] # "copy", got'[r] = got[r],
         \A j \in 1 .. Len(chain[r]) : block'[chain[r][j]] = block[chain[r][j]]
  PROVE  Received'[r] = Received[r]
<1>1. CASE pc[r] = "copy"
  <2>1. chain'[r] = chain[r] /\ pc'[r] = "copy" BY <1>1
  <2>2. Copy(chain[r])' = Copy(chain[r]) BY <2>1 DEF Copy
  <2>3. QED BY <1>1, <2>1, <2>2 DEF Received
<1>2. CASE pc[r] # "copy" BY <1>2 DEF Received
<1>3. QED BY <1>1, <1>2

\* What a server has received when it has detached a message, and when it has copied one.
LEMMA ReceivedWhole ==
  ASSUME Ordered, NEW r \in Readers
  PROVE  /\ pc[r] = "copy" => \E m \in Sendable : /\ Len(chain[r]) = NumBlocks(m)
                                                 /\ Spells(chain[r], 0, m)
                                                 /\ Received[r] = m
         /\ pc[r] # "copy" /\ got[r] = <<>> => Received[r] = NoMsg
         /\ pc[r] # "copy" /\ got[r] # <<>> => Received[r] \in Message
<1>1. ASSUME pc[r] = "copy"
      PROVE  \E m \in Sendable : /\ Len(chain[r]) = NumBlocks(m) /\ Spells(chain[r], 0, m)
                                 /\ Received[r] = m
  <2>1. PICK m \in Sendable : Len(chain[r]) = NumBlocks(m) /\ Spells(chain[r], 0, m)
    BY <1>1 DEF Ordered, Emptying
  <2>2. Copy(chain[r]) = Image(m) BY <2>1, CopyOf
  <2>3. Received[r] = m BY <1>1, <2>2, AssembledType DEF Received, Sendable
  <2>4. QED BY <2>1, <2>3
<1>2. ASSUME pc[r] # "copy", got[r] = <<>> PROVE Received[r] = NoMsg
  BY <1>2, AssembledType DEF Received
<1>3. ASSUME pc[r] # "copy", got[r] # <<>> PROVE Received[r] \in Message
  <2>1. PICK m \in Message : got[r] = Image(m) BY <1>3 DEF Ordered, Emptying
  <2>2. Received[r] = m BY <1>3, <2>1, AssembledType DEF Received
  <2>3. QED BY <2>2
<1>4. QED BY <1>1, <1>2, <1>3

\* The three functions of the abstract queue, changed in one place.
LEMMA FunctionChange ==
  ASSUME NEW S, NEW f, NEW g, f = [x \in S |-> f[x]], g = [x \in S |-> g[x]],
         NEW t \in S, \A x \in S \ {t} : g[x] = f[x]
  PROVE  g = [f EXCEPT ![t] = g[t]] /\ (g[t] = f[t] => g = f)
<1>1. \A x \in S : g[x] = [f EXCEPT ![t] = g[t]][x] OBVIOUS
<1>2. QED BY <1>1

\* The lists and messages of Create() are the empty queue.
LEMMA FifoInit == Init => Fifo!Init
<1> SUFFICES ASSUME Init PROVE Fifo!Init OBVIOUS
<1>0. Writers \cap Readers = {} BY QueueAssumption
<1>1. Queued = <<>>
  <2>1. Ends = {} BY DEF Init, Ends
  <2>2. Cardinality(Ends) = 0 /\ 1 .. 0 = {} BY <2>1, FS_EmptySet
  <2>3. Queued \in [{} -> {NoMsg}] BY <2>2 DEF Queued
  <2>4. QED BY <2>3
<1>2. Sending = [w \in Writers |-> NoMsg] BY DEF Init, Sending, Threads
<1>3. Received = [r \in Readers |-> NoMsg]
  <2>1. \A r \in Readers : pc[r] = "idle" /\ got[r] = <<>> BY DEF Init, Threads
  <2>2. QED BY <2>1, AssembledType DEF Received
<1>4. QED BY <1>1, <1>2, <1>3 DEF Fifo!Init
-----------------------------------------------------------------------------
(* Every step is a step of FifoQueue or none. *)

\* A step of one client changes at most its own write, a step of one server at
\* most its own buffer.
LEMMA SendingOne ==
  ASSUME NEW w \in Writers, \A v \in Writers \ {w} : pc'[v] = pc[v] /\ msg'[v] = msg[v]
  PROVE  /\ Sending' = [Sending EXCEPT ![w] = Sending'[w]]
         /\ Sending'[w] = Sending[w] => Sending' = Sending
<1>1. \A v \in Writers \ {w} : Sending'[v] = Sending[v] BY DEF Sending
<1>2. Sending' = [v \in Writers |-> Sending'[v]] /\ Sending = [v \in Writers |-> Sending[v]]
  BY DEF Sending
<1> DEFINE f == Sending
           g == Sending'
<1> HIDE DEF f, g
<1>3. f = [v \in Writers |-> f[v]] /\ g = [v \in Writers |-> g[v]]
      /\ \A v \in Writers \ {w} : g[v] = f[v]
  BY <1>1, <1>2 DEF f, g
<1>4. g = [f EXCEPT ![w] = g[w]] /\ (g[w] = f[w] => g = f) BY <1>3, FunctionChange
<1>5. QED BY <1>4 DEF f, g

\* And one for the servers.
LEMMA ReceivedOne ==
  ASSUME NEW r \in Readers, \A q \in Readers \ {r} : Received'[q] = Received[q]
  PROVE  /\ Received' = [Received EXCEPT ![r] = Received'[r]]
         /\ Received'[r] = Received[r] => Received' = Received
<1>1. Received' = [q \in Readers |-> Received'[q]] /\ Received = [q \in Readers |-> Received[q]]
  BY DEF Received
<1> DEFINE f == Received
           g == Received'
<1> HIDE DEF f, g
<1>2. f = [q \in Readers |-> f[q]] /\ g = [q \in Readers |-> g[q]]
      /\ \A q \in Readers \ {r} : g[q] = f[q]
  BY <1>1 DEF f, g
<1>3. g = [f EXCEPT ![r] = g[r]] /\ (g[r] = f[r] => g = f) BY <1>2, FunctionChange
<1>4. QED BY <1>3 DEF f, g

\* When no server's entry changes, the function does not.
LEMMA ReceivedAllKept ==
  ASSUME \A r \in Readers : Received'[r] = Received[r]
  PROVE  Received' = Received
<1>1. Received' = [q \in Readers |-> Received'[q]] /\ Received = [q \in Readers |-> Received[q]]
  BY DEF Received
<1>2. QED BY <1>1

\* No step of a client touches what servers have received.
LEMMA ReceivedByOthers ==
  ASSUME \A r \in Readers :
            /\ pc'[r] = pc[r] /\ chain'[r] = chain[r] /\ got'[r] = got[r]
            /\ \A j \in 1 .. Len(chain[r]) : block'[chain[r][j]] = block[chain[r][j]]
  PROVE  Received' = Received
<1>1. \A r \in Readers : Received'[r] = Received[r] BY ReceivedKept
<1>2. QED BY <1>1, ReceivedAllKept

\* A call of Write() submits its message, unless it is refused.
LEMMA FifoWrite ==
  ASSUME Ordered, Typed', NEW w \in Writers, NEW n \in Sizes[w], Write(w, n)
  PROVE  Fifo!Submit(w) \/ UNCHANGED Fifo!vars
<1>1. /\ w \in Threads /\ w \notin Readers /\ pc \in [Threads -> Labels]
      /\ msg \in [Writers -> Message \cup {NoMsg}]
  BY QueueAssumption DEF Ordered, Typed, TypeOK, Threads
<1>2. /\ used' = used /\ block' = block /\ chain' = chain /\ got' = got /\ pc[w] = "idle"
  BY DEF Write, Lists
<1>3. Queued' = Queued BY <1>2, QueuedKept DEF Ordered
<1>4. CASE Refused(n)
  <2>1. pc' = pc /\ msg' = msg BY <1>4 DEF Write
  <2>2. Sending' = Sending BY <2>1 DEF Sending
  <2>3. Received' = Received BY <1>2, <2>1, ReceivedByOthers
  <2>4. QED BY <1>3, <2>2, <2>3 DEF Fifo!vars
<1>5. CASE ~ Refused(n)
  <2>1. /\ pc' = [pc EXCEPT ![w] = "wsem"]
        /\ msg' = [msg EXCEPT ![w] = [from |-> w, seq |-> sent[w] + 1, size |-> n]]
    BY <1>5 DEF Write, Goto
  <2>2. /\ pc'[w] = "wsem"
        /\ \A u \in Threads \ {w} : pc'[u] = pc[u]
        /\ \A v \in Writers \ {w} : msg'[v] = msg[v]
    BY <1>1, <2>1
  <2>3. msg'[w] \in Message BY <2>2 DEF Typed, WriterState
  <2>4. /\ Sending[w] = NoMsg /\ Sending'[w] \in Message
        /\ Sending' = [Sending EXCEPT ![w] = Sending'[w]]
    <3>1. \A v \in Writers \ {w} : pc'[v] = pc[v] /\ msg'[v] = msg[v] BY <2>2 DEF Threads
    <3>2. QED BY <1>2, <2>2, <2>3, <3>1, SendingOne DEF Sending
  <2>5. \A r \in Readers : pc'[r] = pc[r] BY <1>1, <2>2 DEF Threads
  <2>6. Received' = Received BY <1>2, <2>5, ReceivedByOthers
  <2>7. Fifo!Submit(w) BY <1>3, <2>4, <2>6 DEF Fifo!Submit
  <2>8. QED BY <2>7
<1>6. QED BY <1>4, <1>5

\* A write that has its semaphore token, or has returned its blocks, is no news;
\* one whose wait times out is rejected.
LEMMA FifoWriteWait ==
  ASSUME Ordered, NEW w \in Writers,
         WaitForSemWrite(w) \/ WriteTimeout(w) \/ PostRead(w) \/ GiveBack(w)
  PROVE  Fifo!Reject(w) \/ UNCHANGED Fifo!vars
<1>1. /\ w \in Threads /\ w \notin Readers /\ pc \in [Threads -> Labels]
      /\ chain \in [Threads -> Seq(Blocks)] /\ msg \in [Writers -> Message \cup {NoMsg}]
  BY QueueAssumption DEF Ordered, Typed, TypeOK, Threads
<1>2. used' = used /\ block' = block /\ got' = got
  BY DEF WaitForSemWrite, WriteTimeout, PostRead, GiveBack, Lists
<1>3. /\ pc' \in {[pc EXCEPT ![w] = "idle"], [pc EXCEPT ![w] = "alloc"],
                 [pc EXCEPT ![w] = "giveback"]}
      /\ chain' = chain \/ chain' = [chain EXCEPT ![w] = <<>>]
      /\ msg' = msg \/ msg' = [msg EXCEPT ![w] = NoMsg]
  BY DEF WaitForSemWrite, WriteTimeout, PostRead, GiveBack, Goto, Return
<1>4. /\ \A u \in Threads \ {w} : pc'[u] = pc[u] /\ chain'[u] = chain[u]
      /\ \A v \in Writers \ {w} : msg'[v] = msg[v]
      /\ pc'[w] \in {"idle", "alloc", "giveback"}
  BY <1>1, <1>3
<1>5. Queued' = Queued BY <1>2, QueuedKept DEF Ordered
<1>6. Received' = Received
  <2>1. \A r \in Readers : r \in Threads \ {w} BY <1>1 DEF Threads
  <2>2. QED BY <1>2, <1>4, <2>1, ReceivedByOthers
<1>7. \A v \in Writers \ {w} : pc'[v] = pc[v] /\ msg'[v] = msg[v] BY <1>4 DEF Threads
<1>8. CASE WriteTimeout(w)
  <2>1. pc[w] = "wsem" /\ pc'[w] # "alloc"
    <3>1. pc' = [pc EXCEPT ![w] = "idle"] \/ pc' = [pc EXCEPT ![w] = "giveback"]
      BY <1>8 DEF WriteTimeout, Return, Goto
    <3>2. QED BY <1>1, <1>8, <3>1 DEF WriteTimeout
  <2>2. Sending[w] = msg[w] /\ Sending'[w] = NoMsg BY <1>4, <2>1 DEF Sending
  <2>3. Sending[w] # NoMsg BY <2>1, <2>2, NoMsgAssumption DEF Ordered, Typed, WriterState
  <2>4. Sending' = [Sending EXCEPT ![w] = NoMsg] BY <1>7, <2>2, SendingOne
  <2>5. Fifo!Reject(w) BY <1>5, <1>6, <2>3, <2>4 DEF Fifo!Reject
  <2>6. QED BY <2>5
<1>9. CASE WaitForSemWrite(w) \/ PostRead(w) \/ GiveBack(w)
  <2>1. Sending'[w] = Sending[w]
    <3>1. CASE WaitForSemWrite(w)
      <4>1. pc[w] = "wsem" /\ pc'[w] = "alloc" /\ msg' = msg
        BY <1>1, <3>1 DEF WaitForSemWrite, Goto
      <4>2. QED BY <4>1 DEF Sending
    <3>2. CASE PostRead(w) \/ GiveBack(w)
      <4>1. pc[w] \in {"post", "giveback"} /\ pc'[w] = "idle"
        BY <1>1, <3>2 DEF PostRead, GiveBack, Return, Goto
      <4>2. QED BY <4>1 DEF Sending
    <3>3. QED BY <1>9, <3>1, <3>2
  <2>2. Sending' = Sending BY <1>7, <2>1, SendingOne
  <2>3. QED BY <1>5, <1>6, <2>2 DEF Fifo!vars
<1>10. QED BY <1>8, <1>9

\* Filling a block is no news, and a write that finds none is rejected.
LEMMA FifoAlloc ==
  ASSUME Ordered, NEW w \in Writers, AllocBlock(w)
  PROVE  Fifo!Reject(w) \/ UNCHANGED Fifo!vars
<1>1. /\ w \in Threads /\ w \notin Readers /\ pc \in [Threads -> Labels]
      /\ chain \in [Threads -> Seq(Blocks)] /\ msg \in [Writers -> Message \cup {NoMsg}]
      /\ block \in [Blocks -> Contents] /\ used \in Seq(Blocks)
  BY QueueAssumption DEF Ordered, Typed, TypeOK, Threads
<1>2. pc[w] = "alloc" /\ used' = used /\ got' = got BY DEF AllocBlock
<1>3. /\ pc' \in {[pc EXCEPT ![w] = "idle"], [pc EXCEPT ![w] = "wsem"], [pc EXCEPT ![w] = "append"]}
      /\ chain' \in {[chain EXCEPT ![w] = <<>>], [chain EXCEPT ![w] = Append(@, Head(free))]}
      /\ msg' = msg \/ msg' = [msg EXCEPT ![w] = NoMsg]
  <2>1. CASE nFree = 0 \/ free = <<>> BY <2>1 DEF AllocBlock, Return, Goto
  <2>2. CASE ~ (nFree = 0 \/ free = <<>>) BY <2>2 DEF AllocBlock, Return, Goto
  <2>3. QED BY <2>1, <2>2
<1>4. /\ \A u \in Threads \ {w} : pc'[u] = pc[u] /\ chain'[u] = chain[u]
      /\ \A v \in Writers \ {w} : msg'[v] = msg[v]
  BY <1>1, <1>3
<1>5. /\ \A i \in 1 .. Len(used) : block'[used[i]] = block[used[i]]
      /\ \A t \in Threads : \A i \in 1 .. Len(chain[t]) : block'[chain[t][i]] = block[chain[t][i]]
  <2>1. CASE nFree = 0 \/ free = <<>> BY <2>1 DEF AllocBlock
  <2>2. CASE ~ (nFree = 0 \/ free = <<>>)
    <3> DEFINE b == Head(free)
    <3>1. block' = [block EXCEPT ![b] = Filled(msg[w], Len(chain[w]) + 1)]
      BY <2>2 DEF AllocBlock
    <3>2. /\ \A i \in 1 .. Len(used) : used[i] # b
          /\ \A t \in Threads : \A i \in 1 .. Len(chain[t]) : chain[t][i] # b
      BY <2>2, FreeBlock DEF Ordered
    <3> HIDE DEF b
    <3>3. \A c \in Blocks : c # b => block'[c] = block[c] BY <1>1, <3>1
    <3>4. \A i \in 1 .. Len(used) : used[i] \in Blocks BY <1>1, ElementOfSeq
    <3>5. ASSUME NEW t \in Threads, NEW i \in 1 .. Len(chain[t]) PROVE chain[t][i] \in Blocks
      <4>1. chain[t] \in Seq(Blocks) BY <1>1
      <4>2. QED BY <4>1, ElementOfSeq
    <3>6. QED BY <3>2, <3>3, <3>4, <3>5
  <2>3. QED BY <2>1, <2>2
<1>6. Queued' = Queued BY <1>2, <1>5, QueuedKept DEF Ordered
<1>7. Received' = Received
  <2>1. \A r \in Readers : r \in Threads /\ r \in Threads \ {w} BY <1>1 DEF Threads
  <2>2. QED BY <1>2, <1>4, <1>5, <2>1, ReceivedByOthers
<1>8. \A v \in Writers \ {w} : pc'[v] = pc[v] /\ msg'[v] = msg[v] BY <1>4 DEF Threads
<1>9. CASE nFree = 0 \/ free = <<>>
  <2>1. pc'[w] = "idle" BY <1>1, <1>9 DEF AllocBlock, Return, Goto
  <2>2. Sending[w] = msg[w] /\ Sending'[w] = NoMsg BY <1>2, <2>1 DEF Sending
  <2>3. Sending[w] # NoMsg BY <1>2, <2>2, NoMsgAssumption DEF Ordered, Typed, WriterState
  <2>4. Sending' = [Sending EXCEPT ![w] = NoMsg] BY <1>8, <2>2, SendingOne
  <2>5. Fifo!Reject(w) BY <1>6, <1>7, <2>3, <2>4 DEF Fifo!Reject
  <2>6. QED BY <2>5
<1>10. CASE ~ (nFree = 0 \/ free = <<>>)
  <2>1. pc'[w] \in {"wsem", "append"} /\ msg' = msg
    <3>1. /\ pc' = [pc EXCEPT ![w] = "wsem"] \/ pc' = [pc EXCEPT ![w] = "append"]
          /\ msg' = msg
      BY <1>10 DEF AllocBlock, Goto
    <3>2. QED BY <1>1, <3>1
  <2>2. Sending'[w] = Sending[w] BY <1>2, <2>1 DEF Sending
  <2>3. Sending' = Sending BY <1>8, <2>2, SendingOne
  <2>4. QED BY <1>6, <1>7, <2>3 DEF Fifo!vars
<1>11. QED BY <1>9, <1>10

\* The write takes effect when its blocks are on the used list.
LEMMA FifoAppend ==
  ASSUME Ordered, Typed', NEW w \in Writers, AppendUsed(w)
  PROVE  Fifo!Accept(w)
<1>1. /\ w \in Threads /\ w \notin Readers /\ pc \in [Threads -> Labels]
      /\ chain \in [Threads -> Seq(Blocks)]
  BY QueueAssumption DEF Ordered, Typed, TypeOK, Threads
<1>2. /\ pc[w] = "append" /\ pc' = [pc EXCEPT ![w] = "post"]
      /\ chain' = [chain EXCEPT ![w] = <<>>]
      /\ block' = block /\ msg' = msg /\ got' = got /\ msg[w] \in Sendable
  BY Appended
<1>3. /\ pc'[w] = "post"
      /\ \A u \in Threads \ {w} : pc'[u] = pc[u] /\ chain'[u] = chain[u]
  BY <1>1, <1>2
<1>4. Queued' = Append(Queued, msg[w]) BY QueuedAppended
<1>5. Received' = Received
  <2>1. \A r \in Readers : r \in Threads \ {w} BY <1>1 DEF Threads
  <2>2. QED BY <1>2, <1>3, <2>1, ReceivedByOthers
<1>6. Sending[w] = msg[w] /\ Sending'[w] = NoMsg BY <1>2, <1>3 DEF Sending
<1>7. Sending' = [Sending EXCEPT ![w] = NoMsg]
  <2>1. \A v \in Writers \ {w} : pc'[v] = pc[v] /\ msg'[v] = msg[v] BY <1>2, <1>3 DEF Threads
  <2>2. QED BY <1>6, <2>1, SendingOne
<1>8. Sending[w] # NoMsg BY <1>2, <1>6, NoMsgAssumption DEF Sendable
<1>9. QED BY <1>4, <1>5, <1>6, <1>7, <1>8 DEF Fifo!Accept

\* Nothing changes for a client whose thread does not move.
LEMMA SendingByOthers ==
  ASSUME \A w \in Writers : pc'[w] = pc[w] /\ msg'[w] = msg[w]
  PROVE  Sending' = Sending
BY DEF Sending

\* A call of Read() gives the last message back, if there is one.
LEMMA FifoRead ==
  ASSUME Ordered, NEW r \in Readers, NEW n \in BufSizes, Read(r, n)
  PROVE  Fifo!Ask(r) \/ UNCHANGED Fifo!vars
<1>1. /\ r \in Threads /\ r \notin Writers /\ pc \in [Threads -> Labels]
      /\ got \in [Readers -> Seq(Part)]
  BY QueueAssumption DEF Ordered, Typed, TypeOK, Threads
<1>2. /\ pc' = [pc EXCEPT ![r] = "rsem"] /\ got' = [got EXCEPT ![r] = <<>>]
      /\ used' = used /\ block' = block /\ chain' = chain /\ msg' = msg
  BY DEF Read, Goto, Lists
<1>3. /\ pc'[r] = "rsem" /\ got'[r] = <<>>
      /\ \A u \in Threads \ {r} : pc'[u] = pc[u]
      /\ \A q \in Readers \ {r} : got'[q] = got[q]
  BY <1>1, <1>2
<1>4. Queued' = Queued BY <1>2, QueuedKept DEF Ordered
<1>5. Sending' = Sending
  <2>1. \A w \in Writers : w \in Threads \ {r} BY <1>1 DEF Threads
  <2>2. QED BY <1>2, <1>3, <2>1, SendingByOthers
<1>6. ASSUME NEW q \in Readers \ {r} PROVE Received'[q] = Received[q]
  <2>1. q \in Readers /\ pc'[q] = pc[q] /\ got'[q] = got[q] BY <1>3 DEF Threads
  <2>2. QED BY <1>2, <2>1, ReceivedKept
<1>7. Received'[r] = NoMsg BY <1>3, AssembledType DEF Received
<1>8. Received' = [Received EXCEPT ![r] = NoMsg] BY <1>6, <1>7, ReceivedOne
<1>9. CASE Received[r] = NoMsg
  <2>1. Received' = Received BY <1>6, <1>7, <1>9, ReceivedOne
  <2>2. QED BY <1>4, <1>5, <2>1 DEF Fifo!vars
<1>10. CASE Received[r] # NoMsg
  <2>1. Fifo!Ask(r) BY <1>4, <1>5, <1>8, <1>10 DEF Fifo!Ask
  <2>2. QED BY <2>1
<1>11. QED BY <1>9, <1>10

\* Waiting for a message and giving its blocks back are no news.
LEMMA FifoReadWait ==
  ASSUME Ordered, NEW r \in Readers,
         WaitForSemRead(r) \/ ReadTimeout(r) \/ FreeBlocks(r) \/ ReleaseWrite(r)
  PROVE  UNCHANGED Fifo!vars
<1>1. /\ r \in Threads /\ r \notin Writers /\ pc \in [Threads -> Labels]
      /\ chain \in [Threads -> Seq(Blocks)]
  BY QueueAssumption DEF Ordered, Typed, TypeOK, Threads
<1>2. /\ used' = used /\ block' = block /\ msg' = msg /\ got' = got
      /\ pc[r] # "copy"
  BY DEF WaitForSemRead, ReadTimeout, FreeBlocks, ReleaseWrite, Lists
<1>3. /\ pc' \in {[pc EXCEPT ![r] = "take"], [pc EXCEPT ![r] = "idle"],
                 [pc EXCEPT ![r] = "release"]}
      /\ chain' = chain \/ chain' = [chain EXCEPT ![r] = <<>>]
  BY DEF WaitForSemRead, ReadTimeout, FreeBlocks, ReleaseWrite, Goto
<1>4. /\ pc'[r] # "copy"
      /\ \A u \in Threads \ {r} : pc'[u] = pc[u] /\ chain'[u] = chain[u]
  BY <1>1, <1>3
<1>5. Queued' = Queued BY <1>2, QueuedKept DEF Ordered
<1>6. Sending' = Sending
  <2>1. \A w \in Writers : w \in Threads \ {r} BY <1>1 DEF Threads
  <2>2. QED BY <1>2, <1>4, <2>1, SendingByOthers
<1>7. ASSUME NEW q \in Readers PROVE Received'[q] = Received[q]
  <2>1. CASE q = r BY <1>2, <1>4, <2>1, ReceivedKept
  <2>2. CASE q # r
    <3>1. pc'[q] = pc[q] /\ chain'[q] = chain[q] BY <1>4, <2>2 DEF Threads
    <3>2. QED BY <1>2, <3>1, ReceivedKept
  <2>3. QED BY <2>1, <2>2
<1>8. Received' = Received BY <1>7, ReceivedAllKept
<1>9. QED BY <1>5, <1>6, <1>8 DEF Fifo!vars

\* The section under ReadLock() delivers the first message to the reader.
LEMMA FifoTake ==
  ASSUME Ordered, Typed', NEW r \in Readers, TakeMessage(r)
  PROVE  Fifo!Deliver(r) \/ UNCHANGED Fifo!vars
<1>1. /\ r \in Threads /\ r \notin Writers /\ pc \in [Threads -> Labels]
      /\ chain \in [Threads -> Seq(Blocks)] /\ got \in [Readers -> Seq(Part)]
      /\ pc[r] = "take"
  BY QueueAssumption DEF Ordered, Typed, TypeOK, Threads, TakeMessage
<1>2. CASE used = <<>> \/ TotalSize(SubSeq(used, 1, Extent(used))) > buf[r]
  <2>1. /\ pc' = [pc EXCEPT ![r] = "idle"]
        /\ used' = used /\ block' = block /\ chain' = chain /\ got' = got /\ msg' = msg
    BY <1>2 DEF TakeMessage, Goto, Lists
  <2>2. pc'[r] = "idle" /\ \A u \in Threads \ {r} : pc'[u] = pc[u] BY <1>1, <2>1
  <2>3. Queued' = Queued BY <2>1, QueuedKept DEF Ordered
  <2>4. Sending' = Sending
    <3>1. \A w \in Writers : w \in Threads \ {r} BY <1>1 DEF Threads
    <3>2. QED BY <2>1, <2>2, <3>1, SendingByOthers
  <2>5. ASSUME NEW q \in Readers PROVE Received'[q] = Received[q]
    <3>1. pc'[q] = "copy" <=> pc[q] = "copy" BY <1>1, <2>2 DEF Threads
    <3>2. QED BY <2>1, <3>1, ReceivedKept
  <2>6. Received' = Received BY <2>5, ReceivedAllKept
  <2>7. QED BY <2>3, <2>4, <2>6 DEF Fifo!vars
<1>3. CASE ~ (used = <<>> \/ TotalSize(SubSeq(used, 1, Extent(used))) > buf[r])
  <2> DEFINE front(m) == SubSeq(used, 1, NumBlocks(m))
  <2>1. PICK m \in Sendable :
           /\ Spells(used, 0, m)
           /\ used' \in Seq(Blocks)
           /\ Len(used') = Len(used) - NumBlocks(m)
           /\ nUsed' = Len(used')
           /\ \A i \in 1 .. Len(used') : /\ used'[i] = used[NumBlocks(m) + i]
                                         /\ block'[used'[i]] = block[used'[i]]
           /\ \A u \in Threads \ {r} : \A i \in 1 .. Len(chain[u]) :
                 block'[chain[u][i]] = block[chain[u][i]]
           /\ chain' = [chain EXCEPT ![r] = front(m)]
           /\ Len(front(m)) = NumBlocks(m)
           /\ Spells(front(m), 0, m)
           /\ UNCHANGED <<msg, readSem>>
           /\ \/ pc' = [pc EXCEPT ![r] = "copy"] /\ UNCHANGED <<block, got>>
              \/ pc' = [pc EXCEPT ![r] = "free"] /\ got' = [got EXCEPT ![r] = Image(m)]
    BY <1>3, Detached
  <2>2. Queued # <<>> /\ Head(Queued) = m /\ Queued' = Tail(Queued) BY <2>1, QueuedTaken
  <2>3. /\ chain'[r] = front(m)
        /\ \A u \in Threads \ {r} : pc'[u] = pc[u] /\ chain'[u] = chain[u]
        /\ \A q \in Readers \ {r} : got'[q] = got[q]
    BY <1>1, <2>1
  <2> HIDE DEF front
  <2>4. Sending' = Sending
    <3>1. \A w \in Writers : w \in Threads \ {r} BY <1>1 DEF Threads
    <3>2. QED BY <2>1, <2>3, <3>1, SendingByOthers
  <2>5. Received[r] = NoMsg
    <3>1. got[r] = <<>> BY <1>1 DEF Ordered, Emptying
    <3>2. QED BY <1>1, <3>1, ReceivedWhole
  <2>6. Received'[r] = m
    <3>1. CASE pc' = [pc EXCEPT ![r] = "copy"] /\ UNCHANGED <<block, got>>
      <4>1. pc'[r] = "copy" /\ block' = block BY <1>1, <3>1
      <4>2. Copy(front(m)) = Image(m) BY <2>1, CopyOf
      <4>3. Copy(chain[r])' = Copy(front(m)) BY <2>3, <4>1 DEF Copy
      <4>4. QED BY <4>1, <4>2, <4>3, AssembledType DEF Received, Sendable
    <3>2. CASE pc' = [pc EXCEPT ![r] = "free"] /\ got' = [got EXCEPT ![r] = Image(m)]
      <4>1. pc'[r] = "free" /\ got'[r] = Image(m) BY <1>1, <3>2
      <4>2. QED BY <4>1, AssembledType DEF Received, Sendable
    <3>3. QED BY <2>1, <3>1, <3>2
  <2>7. ASSUME NEW q \in Readers \ {r} PROVE Received'[q] = Received[q]
    <3>1. /\ q \in Readers /\ q \in Threads \ {r}
          /\ pc'[q] = pc[q] /\ chain'[q] = chain[q] /\ got'[q] = got[q]
      BY <2>3 DEF Threads
    <3>2. \A j \in 1 .. Len(chain[q]) : block'[chain[q][j]] = block[chain[q][j]]
      BY <2>1, <3>1
    <3>3. QED BY <3>1, <3>2, ReceivedKept
  <2>8. Received' = [Received EXCEPT ![r] = m] BY <2>6, <2>7, ReceivedOne
  <2>9. Fifo!Deliver(r) BY <2>2, <2>4, <2>5, <2>8 DEF Fifo!Deliver
  <2>10. QED BY <2>9
<1>4. QED BY <1>2, <1>3

\* ReadMultiBlock() copies to the buffer what it has detached.
LEMMA FifoCopy ==
  ASSUME Ordered, NEW r \in Readers, CopyOut(r)
  PROVE  UNCHANGED Fifo!vars
<1>1. /\ r \in Threads /\ r \notin Writers
      /\ pc \in [Threads -> Labels] /\ chain \in [Threads -> Seq(Blocks)]
      /\ used \in Seq(Blocks) /\ got \in [Readers -> Seq(Part)]
  BY QueueAssumption DEF Ordered, Typed, TypeOK, Threads
<1>2. /\ pc[r] = "copy" /\ pc' = [pc EXCEPT ![r] = "free"]
      /\ used' = used /\ chain' = chain /\ msg' = msg
      /\ got' = [got EXCEPT ![r] = Copy(chain[r])]
  BY DEF CopyOut, Goto
<1>3. ASSUME NEW b \in Blocks, \A i \in 1 .. Len(chain[r]) : b # chain[r][i]
      PROVE  block'[b] = block[b]
  <2>1. Len(chain[r]) \in Nat BY <1>1, SetOf
  <2>2. ~ \E i \in 1 .. Len(chain[r]) - 1 : chain[r][i] = b BY <1>3, <2>1
  <2>3. QED BY <2>2 DEF CopyOut
<1>4. \A i \in 1 .. Len(used) : block'[used[i]] = block[used[i]]
  BY <1>1, <1>3, OwnBlocks, ElementOfSeq DEF Ordered
<1>5. ASSUME NEW u \in Threads \ {r}, NEW i \in 1 .. Len(chain[u])
      PROVE  block'[chain[u][i]] = block[chain[u][i]]
  <2>1. chain[u][i] \in Blocks BY <1>1, ElementOfSeq
  <2>2. \A j \in 1 .. Len(chain[r]) : chain[u][i] # chain[r][j] BY <1>1, OwnBlocks DEF Ordered
  <2>3. QED BY <1>3, <2>1, <2>2
<1>6. /\ pc'[r] = "free" /\ got'[r] = Copy(chain[r])
      /\ \A u \in Threads \ {r} : pc'[u] = pc[u]
      /\ \A q \in Readers \ {r} : got'[q] = got[q]
  BY <1>1, <1>2
<1>7. Queued' = Queued BY <1>2, <1>4, QueuedKept DEF Ordered
<1>8. Sending' = Sending
  <2>1. \A w \in Writers : w \in Threads \ {r} BY <1>1 DEF Threads
  <2>2. QED BY <1>2, <1>6, <2>1, SendingByOthers
<1>9. ASSUME NEW q \in Readers PROVE Received'[q] = Received[q]
  <2>1. CASE q = r BY <1>2, <1>6, <2>1 DEF Received
  <2>2. CASE q # r
    <3>1. q \in Threads \ {r} /\ pc'[q] = pc[q] /\ got'[q] = got[q] BY <1>6, <2>2 DEF Threads
    <3>2. \A j \in 1 .. Len(chain[q]) : block'[chain[q][j]] = block[chain[q][j]]
      BY <1>5, <3>1
    <3>3. QED BY <1>2, <3>1, <3>2, ReceivedKept
  <2>3. QED BY <2>1, <2>2
<1>10. Received' = Received BY <1>9, ReceivedAllKept
<1>11. QED BY <1>7, <1>8, <1>10 DEF Fifo!vars

\* So every step of the queue of blocks is one of the queue of messages.
LEMMA FifoStep == Ordered /\ Typed' /\ [Next]_vars => [Fifo!Next]_(Fifo!vars)
<1> SUFFICES ASSUME Ordered, Typed', [Next]_vars PROVE [Fifo!Next]_(Fifo!vars) OBVIOUS
<1>1. ASSUME NEW w \in Writers, WriteStep(w) \/ \E n \in Sizes[w] : Write(w, n)
      PROVE  Fifo!Submit(w) \/ Fifo!Accept(w) \/ Fifo!Reject(w) \/ UNCHANGED Fifo!vars
  BY <1>1, FifoWrite, FifoWriteWait, FifoAlloc, FifoAppend DEF WriteStep
<1>2. ASSUME NEW r \in Readers, ReadStep(r) \/ \E n \in BufSizes : Read(r, n)
      PROVE  Fifo!Ask(r) \/ Fifo!Deliver(r) \/ UNCHANGED Fifo!vars
  BY <1>2, FifoRead, FifoReadWait, FifoTake, FifoCopy DEF ReadStep
<1>3. CASE Next BY <1>1, <1>2, <1>3 DEF Next, Fifo!Next
<1>4. CASE UNCHANGED vars
  <2>1. used' = used /\ block' = block /\ pc' = pc /\ chain' = chain /\ msg' = msg /\ got' = got
    BY <1>4 DEF vars
  <2>2. Queued' = Queued BY <2>1, QueuedKept DEF Ordered
  <2>3. Sending' = Sending BY <2>1 DEF Sending
  <2>4. Received' = Received BY <2>1, ReceivedByOthers
  <2>5. QED BY <2>2, <2>3, <2>4 DEF Fifo!vars
<1>5. QED BY <1>3, <1>4

\* CXQueue implements FifoQueue: whole messages, in the order in which the
\* writes took effect, each at most once, and nothing of a write that failed.
THEOREM ImplementsFifo == Spec => FifoSpec
<1>1. Ordered /\ [Next]_vars => [Fifo!Next]_(Fifo!vars)
  <2>1. Ordered /\ [Next]_vars => Typed' BY OrderedNext DEF Ordered
  <2>2. QED BY <2>1, FifoStep
<1>2. QED BY FifoInit, <1>1, AlwaysOrdered, PTL DEF Spec, FifoSpec, Fifo!Spec
-----------------------------------------------------------------------------
(* The tokens of m_hReadSem. *)

\* The messages that servers are told of, or soon will be: the count of m_hReadSem,
\* the tokens taken and not used, and the ones about to be released.
Announced == readSem + Cardinality(Taking) + Cardinality(Posting)

FewThreads == IsFiniteSet(Taking) /\ IsFiniteSet(Posting)

\* A token goes: the semaphore is at its maximum, or a server that has it takes nothing.
TokenLost ==
    \/ Posting # {} /\ readSem = QueueSize
    \/ \E r \in Taking : used = <<>> \/ TotalSize(SubSeq(used, 1, Extent(used))) > buf[r]

\* The sets of threads between two steps change by the thread that moves.
LEMMA SetsOfThreads ==
  ASSUME FewThreads, NEW t \in Threads, \A u \in Threads \ {t} : pc'[u] = pc[u]
  PROVE  /\ FewThreads'
         /\ Cardinality(Taking) \in Nat /\ Cardinality(Posting) \in Nat
         /\ Cardinality(Taking') = Cardinality(Taking)
              + (IF t \in Readers /\ pc'[t] = "take" /\ pc[t] # "take" THEN 1 ELSE 0)
              - (IF t \in Readers /\ pc[t] = "take" /\ pc'[t] # "take" THEN 1 ELSE 0)
         /\ Cardinality(Posting') = Cardinality(Posting)
              + (IF t \in Writers /\ pc'[t] = "post" /\ pc[t] # "post" THEN 1 ELSE 0)
              - (IF t \in Writers /\ pc[t] = "post" /\ pc'[t] # "post" THEN 1 ELSE 0)
<1>1. /\ IsFiniteSet(Taking) /\ IsFiniteSet(Posting)
      /\ Cardinality(Taking) \in Nat /\ Cardinality(Posting) \in Nat
  BY FS_CardinalityType DEF FewThreads
<1>2. \A u \in Threads : u # t => pc'[u] = pc[u] OBVIOUS
<1>3. /\ IsFiniteSet(Taking')
      /\ Cardinality(Taking') = Cardinality(Taking)
              + (IF t \in Readers /\ pc'[t] = "take" /\ pc[t] # "take" THEN 1 ELSE 0)
              - (IF t \in Readers /\ pc[t] = "take" /\ pc'[t] # "take" THEN 1 ELSE 0)
  <2> DEFINE A == Taking
             B == Taking'
  <2>0. \A r \in Readers : r \in Threads BY DEF Threads
  <2>1. CASE t \in Readers /\ pc'[t] = "take" /\ pc[t] # "take"
    <3>1. t \notin A /\ B = A \cup {t} BY <1>2, <2>0, <2>1 DEF Taking
    <3> HIDE DEF A, B
    <3>2. IsFiniteSet(B) /\ Cardinality(B) = Cardinality(A) + 1
      BY <1>1, <3>1, FS_AddElement DEF A
    <3>3. QED BY <1>1, <2>1, <3>2 DEF A, B
  <2>2. CASE t \in Readers /\ pc[t] = "take" /\ pc'[t] # "take"
    <3>1. t \in A /\ B = A \ {t} BY <1>2, <2>0, <2>2 DEF Taking
    <3> HIDE DEF A, B
    <3>2. IsFiniteSet(B) /\ Cardinality(B) = Cardinality(A) - 1
      BY <1>1, <3>1, FS_RemoveElement DEF A
    <3>3. QED BY <1>1, <2>2, <3>2 DEF A, B
  <2>3. CASE ~ (t \in Readers /\ (pc'[t] = "take" <=> pc[t] # "take"))
    <3>1. B = A BY <1>2, <2>0, <2>3 DEF Taking
    <3>2. QED BY <1>1, <2>3, <3>1
  <2>4. QED BY <2>1, <2>2, <2>3
<1>4. /\ IsFiniteSet(Posting')
      /\ Cardinality(Posting') = Cardinality(Posting)
              + (IF t \in Writers /\ pc'[t] = "post" /\ pc[t] # "post" THEN 1 ELSE 0)
              - (IF t \in Writers /\ pc[t] = "post" /\ pc'[t] # "post" THEN 1 ELSE 0)
  <2> DEFINE A == Posting
             B == Posting'
  <2>0. \A w \in Writers : w \in Threads BY DEF Threads
  <2>1. CASE t \in Writers /\ pc'[t] = "post" /\ pc[t] # "post"
    <3>1. t \notin A /\ B = A \cup {t} BY <1>2, <2>0, <2>1 DEF Posting
    <3> HIDE DEF A, B
    <3>2. IsFiniteSet(B) /\ Cardinality(B) = Cardinality(A) + 1
      BY <1>1, <3>1, FS_AddElement DEF A
    <3>3. QED BY <1>1, <2>1, <3>2 DEF A, B
  <2>2. CASE t \in Writers /\ pc[t] = "post" /\ pc'[t] # "post"
    <3>1. t \in A /\ B = A \ {t} BY <1>2, <2>0, <2>2 DEF Posting
    <3> HIDE DEF A, B
    <3>2. IsFiniteSet(B) /\ Cardinality(B) = Cardinality(A) - 1
      BY <1>1, <3>1, FS_RemoveElement DEF A
    <3>3. QED BY <1>1, <2>2, <3>2 DEF A, B
  <2>3. CASE ~ (t \in Writers /\ (pc'[t] = "post" <=> pc[t] # "post"))
    <3>1. B = A BY <1>2, <2>0, <2>3 DEF Posting
    <3>2. QED BY <1>1, <2>3, <3>1
  <2>4. QED BY <2>1, <2>2, <2>3
<1>5. QED BY <1>1, <1>3, <1>4 DEF FewThreads

\* A thread that neither takes nor posts leaves both numbers alone.
LEMMA AnnouncedKept ==
  ASSUME Typed, FewThreads, NEW t \in Threads,
         \A u \in Threads \ {t} : pc'[u] = pc[u],
         {pc[t], pc'[t]} \cap {"take", "post"} = {},
         readSem' = readSem
  PROVE  FewThreads' /\ Announced' = Announced
<1>1. /\ FewThreads' /\ Cardinality(Taking) \in Nat /\ Cardinality(Posting) \in Nat
      /\ Cardinality(Taking') = Cardinality(Taking) + 0 - 0
      /\ Cardinality(Posting') = Cardinality(Posting) + 0 - 0
  BY SetsOfThreads
<1>2. QED BY <1>1 DEF Announced

\* A message is announced when it is queued, and no more when it is taken: the
\* numbers move together, or a token is lost.
LEMMA Announcement ==
  ASSUME Ordered, Typed', FewThreads, [Next]_vars
  PROVE  /\ FewThreads'
         /\ \/ Announced' - Announced = Len(Queued') - Len(Queued)
            \/ TokenLost /\ Announced' = Announced - 1 /\ Queued' = Queued
<1>0. /\ Writers \cap Readers = {} /\ pc \in [Threads -> Labels]
      /\ readSem \in 0 .. QueueSize /\ QueueSize \in Nat
      /\ Cardinality(Taking) \in Nat /\ Cardinality(Posting) \in Nat
      /\ Len(Queued) = Cardinality(Ends) /\ Len(Queued) \in Nat
  BY QueueAssumption, FS_CardinalityType, QueuedType, EndsType
     DEF Ordered, Typed, TypeOK, FewThreads, QueuedTyped, EndsTyped
<1>1. Len(Queued') = Cardinality(Ends')
  <2>1. QueuedTyped' BY QueuedType, PTL
  <2>2. QED BY <2>1 DEF QueuedTyped
<1>2. Announced \in Int BY <1>0 DEF Announced
<1>3. ASSUME NEW w \in Writers, WaitForSemWrite(w) \/ WriteTimeout(w) \/ GiveBack(w) \/ AllocBlock(w)
                                \/ \E n \in Sizes[w] : Write(w, n)
      PROVE  FewThreads' /\ Announced' = Announced /\ Queued' = Queued
  <2>1. w \in Threads BY DEF Threads
  <2>2. readSem' = readSem /\ pc[w] \notin {"take", "post"}
    BY <1>3 DEF WaitForSemWrite, WriteTimeout, GiveBack, AllocBlock, Write
  <2>3. pc' = pc \/ \E a \in {"idle", "wsem", "alloc", "append", "giveback"} : pc' = [pc EXCEPT ![w] = a]
    <3>1. CASE AllocBlock(w)
      <4>1. CASE nFree = 0 \/ free = <<>> BY <3>1, <4>1 DEF AllocBlock, Return, Goto
      <4>2. CASE ~ (nFree = 0 \/ free = <<>>) BY <3>1, <4>2 DEF AllocBlock, Goto
      <4>3. QED BY <4>1, <4>2
    <3>2. CASE \E n \in Sizes[w] : Write(w, n) BY <3>2 DEF Write, Goto
    <3>3. CASE WaitForSemWrite(w) \/ WriteTimeout(w) \/ GiveBack(w)
      BY <3>3 DEF WaitForSemWrite, WriteTimeout, GiveBack, Return, Goto
    <3>4. QED BY <1>3, <3>1, <3>2, <3>3
  <2>4. /\ \A u \in Threads \ {w} : pc'[u] = pc[u]
        /\ pc'[w] \notin {"take", "post"}
    BY <1>0, <2>1, <2>2, <2>3
  <2>5. FewThreads' /\ Announced' = Announced BY <2>1, <2>2, <2>4, AnnouncedKept DEF Ordered
  <2>6. Fifo!Submit(w) \/ Fifo!Reject(w) \/ UNCHANGED Fifo!vars
    BY <1>3, FifoWrite, FifoWriteWait, FifoAlloc
  <2>7. Queued' = Queued BY <2>6 DEF Fifo!Submit, Fifo!Reject, Fifo!vars
  <2>8. QED BY <2>5, <2>7
<1>4. ASSUME NEW w \in Writers, AppendUsed(w)
      PROVE  FewThreads' /\ Announced' - Announced = Len(Queued') - Len(Queued)
  <2>1. /\ w \in Threads /\ w \notin Readers /\ pc[w] = "append"
        /\ pc' = [pc EXCEPT ![w] = "post"] /\ readSem' = readSem
    BY <1>0, <1>4 DEF AppendUsed, Goto, Threads
  <2>2. /\ pc'[w] = "post" /\ \A u \in Threads \ {w} : pc'[u] = pc[u]
    BY <1>0, <2>1
  <2>3. /\ FewThreads'
        /\ Cardinality(Taking') = Cardinality(Taking) + 0 - 0
        /\ Cardinality(Posting') = Cardinality(Posting) + 1 - 0
    BY <2>1, <2>2, SetsOfThreads
  <2>4. Cardinality(Ends') = Cardinality(Ends) + 1 BY <1>4, QueuedAppended
  <2>5. QED BY <1>0, <1>1, <2>1, <2>3, <2>4 DEF Announced
<1>5. ASSUME NEW w \in Writers, PostRead(w)
      PROVE  /\ FewThreads'
             /\ \/ Announced' - Announced = Len(Queued') - Len(Queued)
                \/ TokenLost /\ Announced' = Announced - 1 /\ Queued' = Queued
  <2>1. /\ w \in Threads /\ w \notin Readers /\ pc[w] = "post" /\ pc' = [pc EXCEPT ![w] = "idle"]
        /\ readSem' = Released(readSem, 1)
    BY <1>0, <1>5 DEF PostRead, Goto, Return, Threads
  <2>2. /\ pc'[w] = "idle" /\ \A u \in Threads \ {w} : pc'[u] = pc[u]
    BY <1>0, <2>1
  <2>3. /\ FewThreads'
        /\ Cardinality(Taking') = Cardinality(Taking) + 0 - 0
        /\ Cardinality(Posting') = Cardinality(Posting) + 0 - 1
    BY <2>1, <2>2, SetsOfThreads
  <2>4. Queued' = Queued
    <3>1. used' = used /\ block' = block BY <1>5 DEF PostRead, Lists
    <3>2. QED BY <3>1, QueuedKept DEF Ordered
  <2>5. CASE readSem + 1 <= QueueSize
    <3>1. readSem' = readSem + 1 BY <2>1, <2>5 DEF Released
    <3>2. QED BY <1>0, <2>3, <2>4, <3>1 DEF Announced
  <2>6. CASE ~ (readSem + 1 <= QueueSize)
    <3>1. readSem' = readSem /\ readSem = QueueSize BY <1>0, <2>1, <2>6 DEF Released
    <3>2. w \in Posting BY <2>1 DEF Posting
    <3>3. QED BY <1>0, <2>3, <2>4, <3>1, <3>2 DEF Announced, TokenLost
  <2>7. QED BY <2>5, <2>6
<1>6. ASSUME NEW r \in Readers, ReadTimeout(r) \/ CopyOut(r) \/ FreeBlocks(r) \/ ReleaseWrite(r)
                                \/ \E n \in BufSizes : Read(r, n)
      PROVE  FewThreads' /\ Announced' = Announced /\ Queued' = Queued
  <2>1. r \in Threads BY DEF Threads
  <2>2. readSem' = readSem /\ pc[r] \notin {"take", "post"}
    BY <1>6 DEF ReadTimeout, CopyOut, FreeBlocks, ReleaseWrite, Read
  <2>3. \E a \in {"idle", "rsem", "free", "release"} : pc' = [pc EXCEPT ![r] = a]
    BY <1>6 DEF ReadTimeout, CopyOut, FreeBlocks, ReleaseWrite, Read, Goto
  <2>4. /\ \A u \in Threads \ {r} : pc'[u] = pc[u]
        /\ pc'[r] \notin {"take", "post"}
    BY <1>0, <2>1, <2>3
  <2>5. FewThreads' /\ Announced' = Announced BY <2>1, <2>2, <2>4, AnnouncedKept DEF Ordered
  <2>6. Fifo!Ask(r) \/ UNCHANGED Fifo!vars BY <1>6, FifoRead, FifoReadWait, FifoCopy
  <2>7. Queued' = Queued BY <2>6 DEF Fifo!Ask, Fifo!vars
  <2>8. QED BY <2>5, <2>7
<1>7. ASSUME NEW r \in Readers, WaitForSemRead(r)
      PROVE  FewThreads' /\ Announced' - Announced = Len(Queued') - Len(Queued)
  <2>1. /\ r \in Threads /\ r \notin Writers /\ pc[r] = "rsem" /\ pc' = [pc EXCEPT ![r] = "take"]
        /\ readSem' = readSem - 1
    BY <1>0, <1>7 DEF WaitForSemRead, Goto, Threads
  <2>2. /\ pc'[r] = "take" /\ \A u \in Threads \ {r} : pc'[u] = pc[u]
    BY <1>0, <2>1
  <2>3. /\ FewThreads'
        /\ Cardinality(Taking') = Cardinality(Taking) + 1 - 0
        /\ Cardinality(Posting') = Cardinality(Posting) + 0 - 0
    BY <2>1, <2>2, SetsOfThreads
  <2>4. Queued' = Queued
    <3>1. used' = used /\ block' = block BY <1>7 DEF WaitForSemRead, Lists
    <3>2. QED BY <3>1, QueuedKept DEF Ordered
  <2>5. QED BY <1>0, <2>1, <2>3, <2>4 DEF Announced
<1>8. ASSUME NEW r \in Readers, TakeMessage(r)
      PROVE  /\ FewThreads'
             /\ \/ Announced' - Announced = Len(Queued') - Len(Queued)
                \/ TokenLost /\ Announced' = Announced - 1 /\ Queued' = Queued
  <2>0. r \in Threads /\ r \notin Writers /\ r \in Taking /\ pc[r] = "take" /\ readSem' = readSem
    BY <1>0, <1>8 DEF TakeMessage, Taking, Threads
  <2>1. CASE used = <<>> \/ TotalSize(SubSeq(used, 1, Extent(used))) > buf[r]
    <3>1. /\ pc' = [pc EXCEPT ![r] = "idle"] /\ used' = used /\ block' = block
      BY <1>8, <2>1 DEF TakeMessage, Goto, Lists
    <3>2. /\ pc'[r] = "idle" /\ \A u \in Threads \ {r} : pc'[u] = pc[u]
      BY <1>0, <2>0, <3>1
    <3>3. /\ FewThreads'
          /\ Cardinality(Taking') = Cardinality(Taking) + 0 - 1
          /\ Cardinality(Posting') = Cardinality(Posting) + 0 - 0
      BY <2>0, <3>2, SetsOfThreads
    <3>4. Queued' = Queued BY <3>1, QueuedKept DEF Ordered
    <3>5. TokenLost BY <2>0, <2>1 DEF TokenLost
    <3>6. QED BY <1>0, <2>0, <3>3, <3>4, <3>5 DEF Announced
  <2>2. CASE ~ (used = <<>> \/ TotalSize(SubSeq(used, 1, Extent(used))) > buf[r])
    <3>1. PICK m \in Sendable :
             /\ Spells(used, 0, m)
             /\ Len(used') = Len(used) - NumBlocks(m)
             /\ \A i \in 1 .. Len(used') : /\ used'[i] = used[NumBlocks(m) + i]
                                           /\ block'[used'[i]] = block[used'[i]]
             /\ pc' = [pc EXCEPT ![r] = "copy"] \/ pc' = [pc EXCEPT ![r] = "free"]
      BY <1>8, <2>2, Detached
    <3>2. /\ pc'[r] \in {"copy", "free"} /\ \A u \in Threads \ {r} : pc'[u] = pc[u]
      BY <1>0, <2>0, <3>1
    <3>3. /\ FewThreads'
          /\ Cardinality(Taking') = Cardinality(Taking) + 0 - 1
          /\ Cardinality(Posting') = Cardinality(Posting) + 0 - 0
      BY <2>0, <3>2, SetsOfThreads
    <3>4. Cardinality(Ends) = Cardinality(Ends') + 1 BY <3>1, QueuedTaken
    <3>5. Cardinality(Ends') \in Nat
      <4>1. EndsTyped' BY EndsType, PTL
      <4>2. QED BY <4>1 DEF EndsTyped
    <3>6. QED BY <1>0, <1>1, <2>0, <3>3, <3>4, <3>5 DEF Announced
  <2>3. QED BY <2>1, <2>2
<1>9. CASE UNCHANGED vars
  <2>1. /\ Taking' = Taking /\ Posting' = Posting /\ readSem' = readSem
        /\ used' = used /\ block' = block
    BY <1>9 DEF vars, Taking, Posting
  <2>2. Queued' = Queued BY <2>1, QueuedKept DEF Ordered
  <2>3. FewThreads' /\ Announced' = Announced BY <2>1 DEF FewThreads, Announced
  <2>4. QED BY <1>0, <1>2, <2>2, <2>3
<1>10. ASSUME NEW w \in Writers, WriteStep(w) \/ \E n \in Sizes[w] : Write(w, n)
       PROVE  /\ FewThreads'
              /\ \/ Announced' - Announced = Len(Queued') - Len(Queued)
                 \/ TokenLost /\ Announced' = Announced - 1 /\ Queued' = Queued
  <2>1. CASE AppendUsed(w) \/ PostRead(w) BY <1>4, <1>5, <2>1
  <2>2. CASE ~ (AppendUsed(w) \/ PostRead(w))
    <3>1. FewThreads' /\ Announced' = Announced /\ Queued' = Queued
      BY <1>3, <1>10, <2>2 DEF WriteStep
    <3>2. QED BY <1>0, <1>2, <3>1
  <2>3. QED BY <2>1, <2>2
<1>11. ASSUME NEW r \in Readers, ReadStep(r) \/ \E n \in BufSizes : Read(r, n)
       PROVE  /\ FewThreads'
              /\ \/ Announced' - Announced = Len(Queued') - Len(Queued)
                 \/ TokenLost /\ Announced' = Announced - 1 /\ Queued' = Queued
  <2>1. CASE WaitForSemRead(r) \/ TakeMessage(r) BY <1>7, <1>8, <2>1
  <2>2. CASE ~ (WaitForSemRead(r) \/ TakeMessage(r))
    <3>1. FewThreads' /\ Announced' = Announced /\ Queued' = Queued
      BY <1>6, <1>11, <2>2 DEF ReadStep
    <3>2. QED BY <1>0, <1>2, <3>1
  <2>3. QED BY <2>1, <2>2
<1>12. CASE Next BY <1>10, <1>11, <1>12 DEF Next
<1>13. QED BY <1>9, <1>12

\* No more messages are announced than are on the used list.
Backed == Ordered /\ FewThreads /\ Announced <= Len(Queued)

\* At the start nobody has a token, or a message.
LEMMA NoneAnnounced == Init => FewThreads /\ Announced = Len(Queued)
<1> SUFFICES ASSUME Init PROVE FewThreads /\ Announced = Len(Queued) OBVIOUS
<1>1. Taking = {} /\ Posting = {} /\ readSem = 0
  BY DEF Init, Taking, Posting, Threads
<1>2. Queued = <<>> BY FifoInit DEF Fifo!Init
<1>3. QED BY <1>1, <1>2, FS_EmptySet DEF FewThreads, Announced

\* No step announces a message that is not there.
LEMMA BackedNext == Backed /\ [Next]_vars => Backed'
<1> SUFFICES ASSUME Backed, [Next]_vars PROVE Backed' OBVIOUS
<1>1. Ordered /\ Ordered' /\ Typed' BY OrderedNext DEF Backed, Ordered
<1>2. /\ FewThreads'
      /\ \/ Announced' - Announced = Len(Queued') - Len(Queued)
         \/ TokenLost /\ Announced' = Announced - 1 /\ Queued' = Queued
  BY <1>1, Announcement DEF Backed
<1>3. Len(Queued) \in Nat /\ Announced \in Int
  <2>1. Len(Queued) \in Nat
    BY <1>1, QueuedType, EndsType DEF Ordered, QueuedTyped, EndsTyped
  <2>2. Cardinality(Taking) \in Nat /\ Cardinality(Posting) \in Nat
    BY FS_CardinalityType DEF Backed, FewThreads
  <2>3. readSem \in Int BY <1>1, QueueAssumption DEF Ordered, Typed, TypeOK
  <2>4. QED BY <2>1, <2>2, <2>3 DEF Announced
<1>4. Len(Queued') \in Nat /\ Announced' \in Int
  <2>1. QueuedTyped' /\ EndsTyped' BY <1>1, QueuedType, EndsType, PTL
  <2>2. Len(Queued') \in Nat BY <2>1 DEF QueuedTyped, EndsTyped
  <2>3. readSem' \in Int BY <1>1 DEF Typed, TypeOK
  <2>4. Cardinality(Taking') \in Nat /\ Cardinality(Posting') \in Nat
    BY <1>2, FS_CardinalityType DEF FewThreads
  <2>5. QED BY <2>2, <2>3, <2>4 DEF Announced
<1>5. Announced' <= Len(Queued') BY <1>2, <1>3, <1>4 DEF Backed
<1>6. QED BY <1>1, <1>2, <1>5 DEF Backed

\* The tokens taken are among the announced.
LEMMA BackedReadable == Backed => Readable
<1> SUFFICES ASSUME Backed PROVE Readable OBVIOUS
<1>1. UsedWhole BY OrderedWhole DEF Backed
<1>2. /\ Cardinality(Taking) \in Nat /\ Cardinality(Posting) \in Nat
      /\ readSem \in Int /\ Len(Queued) \in Nat
  BY FS_CardinalityType, QueuedType, EndsType, QueueAssumption
     DEF Backed, FewThreads, Ordered, Typed, TypeOK, QueuedTyped, EndsTyped
<1>3. ReadTokens BY <1>2 DEF Backed, Announced, ReadTokens
<1>4. QED BY <1>1, <1>3 DEF Readable

\* The used list is always a sequence of whole messages, in the order of their
\* bytes, and every token of m_hReadSem that a Read() got stands for one of them,
\* so no Read() returns XQUEUE_ERROR_NO_DATA or parts of two messages.
THEOREM TokensReadable == Spec => []Readable
<1>1. Init => Backed
  <2> SUFFICES ASSUME Init PROVE Backed OBVIOUS
  <2>1. Ordered /\ FewThreads /\ Announced = Len(Queued) BY OrderedInit, NoneAnnounced
  <2>2. Len(Queued) \in Nat BY <2>1, QueuedType, EndsType DEF Ordered, QueuedTyped, EndsTyped
  <2>3. QED BY <2>1, <2>2 DEF Backed
<1>2. QED BY <1>1, BackedNext, BackedReadable, PTL DEF Spec
-----------------------------------------------------------------------------
(* The bytes of a message. *)

\* TotalSize() adds the sizes of the blocks from the last one down.
AddsUp(n, z, g) ==
    g = [s \in SUBSET (1 .. n) |-> IF s = {} THEN 0 ELSE g[s \ {Max(s)}] + z[Max(s)]]

\* The greatest of some positions is one of them.
LEMMA MaxIn ==
  ASSUME NEW n \in Nat, NEW s \in SUBSET (1 .. n), s # {}
  PROVE  Max(s) \in s
<1>1. \E x \in s : \A y \in s : x >= y
  <2> DEFINE T == {k \in Nat : \A y \in s : y <= k}
  <2>0. \A y \in s : y \in Nat /\ y <= n OBVIOUS
  <2>1. n \in T BY <2>0
  <2>2. PICK k \in T : \A j \in T : k <= j
    <3> HIDE DEF T
    <3>1. T \in SUBSET Nat /\ T # {} BY <2>1 DEF T
    <3>2. QED BY <3>1, LeastNat
  <2>3. k \in Nat /\ \A y \in s : y <= k OBVIOUS
  <2>4. k \in s
    <3> SUFFICES ASSUME k \notin s PROVE FALSE OBVIOUS
    <3>1. \A y \in s : y <= k - 1 BY <2>0, <2>3
    <3>2. k - 1 \in Nat
      <4>1. PICK y \in s : TRUE OBVIOUS
      <4>2. y \in 1 .. n /\ y <= k - 1 BY <3>1, <4>1
      <4>3. QED BY <2>3, <4>2
    <3>3. k - 1 \in T BY <3>1, <3>2
    <3>4. k <= k - 1 BY <2>2, <3>3
    <3>5. QED BY <2>3, <3>4
  <2>5. QED BY <2>0, <2>3, <2>4
<1>2. QED BY <1>1 DEF Max

\* TotalSize() is that sum over all positions of the list.
LEMMA TotalUnfolded ==
  ASSUME NEW list, NEW n \in Nat, DOMAIN list = 1 .. n
  PROVE  LET z == [i \in 1 .. n |-> block[list[i]].size]
         IN  TotalSize(list) = (CHOOSE g : AddsUp(n, z, g))[1 .. n]
<1> DEFINE z == [i \in 1 .. n |-> block[list[i]].size]
           Adds(g) == g = [s \in SUBSET (1 .. n) |->
                             IF s = {} THEN 0 ELSE g[s \ {Max(s)}] + block[list[Max(s)]].size]
<1>1. TotalSize(list) = (CHOOSE g : Adds(g))[1 .. n]
  BY DEF TotalSize, FoldLeft, MapThenFoldSet
<1>2. ASSUME NEW s \in SUBSET (1 .. n), s # {} PROVE z[Max(s)] = block[list[Max(s)]].size
  <2>1. Max(s) \in s BY <1>2, MaxIn
  <2>2. QED BY <2>1
<1>3. ASSUME NEW g PROVE AddsUp(n, z, g) <=> Adds(g)
  <2>1. [s \in SUBSET (1 .. n) |-> IF s = {} THEN 0 ELSE g[s \ {Max(s)}] + z[Max(s)]]
          = [s \in SUBSET (1 .. n) |->
               IF s = {} THEN 0 ELSE g[s \ {Max(s)}] + block[list[Max(s)]].size]
    BY <1>2
  <2>2. QED BY <2>1 DEF AddsUp
<1> HIDE DEF Adds, z
<1>4. (CHOOSE g : AddsUp(n, z, g)) = (CHOOSE g : Adds(g)) BY <1>3
<1>5. QED BY <1>1, <1>4 DEF z

\* There is such a function, whatever it adds.
LEMMA SumExists ==
  ASSUME NEW z, NEW n \in Nat
  PROVE  \E g : AddsUp(n, z, g)
<1> DEFINE T == {k \in Nat : ~ \E g : AddsUp(k, z, g)}
<1> SUFFICES ASSUME T # {} PROVE FALSE OBVIOUS
<1>1. PICK k \in T : \A j \in T : k <= j
  <2> HIDE DEF T
  <2>1. T \in SUBSET Nat BY DEF T
  <2>2. QED BY <2>1, LeastNat
<1>2. k \in Nat /\ ~ \E g : AddsUp(k, z, g) OBVIOUS
<1>3. CASE k = 0
  <2> DEFINE g == [s \in SUBSET (1 .. 0) |-> 0]
  <2>1. \A s \in SUBSET (1 .. 0) : s = {} OBVIOUS
  <2>2. AddsUp(0, z, g) BY <2>1 DEF AddsUp
  <2>3. QED BY <1>2, <1>3, <2>2
<1>4. CASE k # 0
  <2>1. k - 1 \in Nat /\ ~ (k <= k - 1) BY <1>2, <1>4
  <2>2. k - 1 \notin T BY <1>1, <2>1
  <2>3. PICK g : AddsUp(k - 1, z, g) BY <2>1, <2>2
  <2>4. g = [s \in SUBSET (1 .. k - 1) |->
               IF s = {} THEN 0 ELSE g[s \ {Max(s)}] + z[Max(s)]]
    BY <2>3 DEF AddsUp
  <2> DEFINE h == [s \in SUBSET (1 .. k) |-> IF k \in s THEN g[s \ {k}] + z[k] ELSE g[s]]
             e(s) == IF s = {} THEN 0 ELSE h[s \ {Max(s)}] + z[Max(s)]
  <2>5. ASSUME NEW s \in SUBSET (1 .. k) PROVE h[s] = e(s)
    <3>1. CASE k \in s
      <4>1. Max(s) = k
        <5>1. \A y \in s : y \in Nat /\ y <= k BY <1>2
        <5>2. \A y \in s : k >= y BY <5>1
        <5>3. \A x \in s : (\A y \in s : x >= y) => x = k BY <1>2, <3>1, <5>1
        <5>4. QED BY <3>1, <5>2, <5>3 DEF Max
      <4>2. s \ {k} \in SUBSET (1 .. k) /\ k \notin s \ {k} OBVIOUS
      <4>3. h[s \ {k}] = g[s \ {k}] BY <4>2
      <4>4. h[s] = g[s \ {k}] + z[k] BY <3>1
      <4>5. e(s) = h[s \ {k}] + z[k] BY <3>1, <4>1
      <4>6. QED BY <4>3, <4>4, <4>5
    <3>2. CASE k \notin s
      <4>1. s \in SUBSET (1 .. k - 1) BY <1>2, <3>2
      <4>2. h[s] = g[s] BY <3>2
      <4>3. CASE s = {}
        <5>1. g[s] = 0 BY <2>4, <4>1, <4>3
        <5>2. QED BY <4>2, <4>3, <5>1
      <4>4. CASE s # {}
        <5> DEFINE x == Max(s)
        <5> HIDE DEF x
        <5>1. g[s] = g[s \ {x}] + z[x] BY <2>4, <4>1, <4>4 DEF x
        <5>2. s \ {x} \in SUBSET (1 .. k) /\ k \notin s \ {x} BY <3>2
        <5>3. h[s \ {x}] = g[s \ {x}] BY <5>2
        <5>4. e(s) = h[s \ {x}] + z[x] BY <4>4 DEF x
        <5>5. QED BY <4>2, <5>1, <5>3, <5>4
      <4>5. QED BY <4>3, <4>4
    <3>3. QED BY <3>1, <3>2
  <2>6. h = [s \in SUBSET (1 .. k) |-> h[s]] OBVIOUS
  <2> HIDE DEF h
  <2>7. h = [s \in SUBSET (1 .. k) |-> e(s)] BY <2>5, <2>6
  <2>8. AddsUp(k, z, h) BY <2>7 DEF AddsUp
  <2>9. QED BY <1>2, <2>8
<1>5. QED BY <1>3, <1>4

\* The blocks of a message have its bytes, neither more nor less.
LEMMA TotalOfMessage ==
  ASSUME NEW m \in Sendable, NEW list, DOMAIN list = 1 .. NumBlocks(m),
         Len(list) = NumBlocks(m), Spells(list, 0, m)
  PROVE  TotalSize(list) = m.size
<1> DEFINE N == NumBlocks(m)
           d == DataSize
           z == [i \in 1 .. N |-> block[list[i]].size]
           g == CHOOSE h : AddsUp(N, z, h)
<1>1. N \in Nat \ {0} /\ d \in Nat /\ m.size \in Nat
  BY NumBlocksType, QueueAssumption DEF Sendable, Message
<1>2. TotalSize(list) = g[1 .. N] BY <1>1, TotalUnfolded
<1>3. AddsUp(N, z, g)
  <2> HIDE DEF z
  <2>1. \E h : AddsUp(N, z, h) BY <1>1, SumExists
  <2>2. QED BY <2>1
<1>4. ASSUME NEW j \in 1 .. N
      PROVE  z[j] = IF j < N THEN d ELSE m.size - (j - 1) * d
  <2>1. 0 + j = j BY <1>1
  <2>2. block[list[j]] = Filled(m, j) BY <2>1 DEF Spells
  <2>3. j * DataSize < m.size <=> j < N BY FlagOnAllButLast
  <2>4. QED BY <2>2, <2>3 DEF Filled
<1> HIDE DEF z, g
<1>5. g[{}] = 0 BY <1>3 DEF AddsUp
<1>6. ASSUME NEW j \in 1 .. N PROVE g[1 .. j] = g[1 .. j - 1] + z[j]
  <2>1. j \in Nat /\ 1 .. j \in SUBSET (1 .. N) /\ j \in 1 .. j BY <1>1
  <2>2. Max(1 .. j) = j
    <3>1. \A y \in 1 .. j : j >= y BY <2>1
    <3>2. \A x \in 1 .. j : (\A y \in 1 .. j : x >= y) => x = j BY <2>1
    <3>3. QED BY <2>1, <3>1, <3>2 DEF Max
  <2>3. (1 .. j) \ {j} = 1 .. j - 1 BY <2>1
  <2>4. g[1 .. j] = g[(1 .. j) \ {Max(1 .. j)}] + z[Max(1 .. j)]
    <3>1. 1 .. j # {} BY <2>1
    <3>2. QED BY <1>3, <2>1, <3>1 DEF AddsUp
  <2>5. QED BY <2>2, <2>3, <2>4
<1>7. \A j \in 0 .. N - 1 : g[1 .. j] = j * d
  <2> DEFINE T == {j \in Nat : j < N /\ g[1 .. j] # j * d}
  <2> SUFFICES ASSUME T # {} PROVE FALSE BY <1>1
  <2>1. PICK k \in T : \A j \in T : k <= j
    <3> HIDE DEF T
    <3>1. T \in SUBSET Nat BY DEF T
    <3>2. QED BY <3>1, LeastNat
  <2>2. k \in Nat /\ k < N /\ g[1 .. k] # k * d OBVIOUS
  <2>3. CASE k = 0
    <3>1. 1 .. 0 = {} /\ 0 * d = 0 BY <1>1
    <3>2. QED BY <1>5, <2>2, <2>3, <3>1
  <2>4. CASE k # 0
    <3>1. k - 1 \in Nat /\ k - 1 < N /\ ~ (k <= k - 1) /\ k \in 1 .. N BY <1>1, <2>2, <2>4
    <3>2. g[1 .. k - 1] = (k - 1) * d BY <2>1, <3>1
    <3>3. z[k] = d BY <1>4, <2>2, <3>1
    <3>4. (k - 1) * d + d = k * d BY <1>1, <2>2
    <3>5. QED BY <1>6, <2>2, <3>1, <3>2, <3>3, <3>4
  <2>5. QED BY <2>3, <2>4
<1>8. /\ g[1 .. N] = g[1 .. N - 1] + z[N] /\ z[N] = m.size - (N - 1) * d
      /\ g[1 .. N - 1] = (N - 1) * d
  <2>1. N \in 1 .. N /\ ~ (N < N) /\ N - 1 \in 0 .. N - 1 BY <1>1
  <2>2. QED BY <1>4, <1>6, <1>7, <2>1
<1>9. (N - 1) * d \in Int BY <1>1
<1>10. QED BY <1>1, <1>2, <1>8, <1>9
-----------------------------------------------------------------------------
(* The tokens are exact when no call gives up. *)

\* Every buffer that a server reads with holds every message that Write() takes.
Roomy == \A w \in Writers : \A n \in Sizes[w] : \A b \in BufSizes : ~ Refused(n) => n <= b

\* What a read has to go by.
Asked == \A r \in Readers : pc[r] \in {"rsem", "take"} => buf[r] \in BufSizes

NoneGivesUp == \A w \in Writers : pc[w] # "giveback"

Exact ==
    /\ Backed /\ Safe /\ Asked /\ NoneGivesUp
    /\ Announced = Len(Queued)
    /\ Promised = Len(free)

\* Then no token of m_hReadSem is ever lost.
LEMMA NoneLostToReaders ==
  ASSUME Exact, Roomy
  PROVE  ~ TokenLost
<1>1. /\ Cardinality(Taking) \in Nat /\ Cardinality(Posting) \in Nat
      /\ readSem \in 0 .. QueueSize /\ QueueSize \in Nat
      /\ IsFiniteSet(Taking) /\ IsFiniteSet(Posting)
      /\ Len(Queued) = Cardinality(Ends) /\ Cardinality(Ends) \in Nat
      /\ Ends \in SUBSET (1 .. Len(used)) /\ used \in Seq(Blocks)
      /\ buf \in [Readers -> Nat]
  BY FS_CardinalityType, QueuedType, EndsType, QueueAssumption
     DEF Exact, Backed, FewThreads, Ordered, Typed, TypeOK, QueuedTyped, EndsTyped
<1>2. Len(used) \in 0 .. QueueSize BY <1>1, ListLength DEF Exact, Safe, Ownership
<1>3. Cardinality(Ends) <= Len(used)
  <2> DEFINE n == Len(used)
  <2>1. n \in Nat /\ Ends \in SUBSET (1 .. n) BY <1>1, <1>2
  <2> HIDE DEF n
  <2>2. IsFiniteSet(1 .. n) /\ Cardinality(1 .. n) = n
    <3>1. 1 \in Int /\ n \in Int BY <2>1
    <3>2. /\ IsFiniteSet(1 .. n)
          /\ Cardinality(1 .. n) = IF 1 > n THEN 0 ELSE n - 1 + 1
      BY <3>1, FS_Interval
    <3>3. QED BY <2>1, <3>2
  <2>3. Cardinality(Ends) <= Cardinality(1 .. n) BY <2>1, <2>2, FS_Subset
  <2>4. QED BY <2>2, <2>3 DEF n
<1>4. readSem + Cardinality(Taking) + Cardinality(Posting) = Cardinality(Ends)
  BY <1>1 DEF Exact, Announced
<1>5. ~ (Posting # {} /\ readSem = QueueSize)
  <2> SUFFICES ASSUME Posting # {}, readSem = QueueSize PROVE FALSE OBVIOUS
  <2>1. Cardinality(Posting) # 0 BY <1>1, FS_EmptySet
  <2>2. QED BY <1>1, <1>2, <1>3, <1>4, <2>1
<1>6. ASSUME NEW r \in Taking
      PROVE  ~ (used = <<>> \/ TotalSize(SubSeq(used, 1, Extent(used))) > buf[r])
  <2>1. Cardinality(Taking) # 0 BY <1>1, FS_EmptySet
  <2>2. Len(used) # 0 BY <1>1, <1>2, <1>3, <1>4, <2>1
  <2>3. used # <<>> BY <2>2
  <2>4. PICK m \in Sendable : Spells(used, 0, m) /\ Extent(used) = NumBlocks(m)
    BY <2>3, HeadMessage DEF Exact, Backed, Ordered
  <2> DEFINE N == NumBlocks(m)
             front == SubSeq(used, 1, N)
  <2>5. N \in Nat \ {0} /\ N <= Len(used)
    <3>1. 0 + N <= Len(used) BY <2>4 DEF Spells
    <3>2. QED BY <1>2, <3>1, NumBlocksType DEF Sendable
  <2>6. Len(front) = N /\ DOMAIN front = 1 .. N /\ \A i \in 1 .. N : front[i] = used[i]
    <3>1. N \in 1 .. Len(used) BY <1>2, <2>5
    <3>2. /\ Len(front) = N /\ front \in Seq(Blocks)
          /\ \A i \in 1 .. N : front[i] = used[i]
      BY <1>1, <3>1, CutType
    <3>3. QED BY <3>2, LenProperties
  <2> HIDE DEF front
  <2>7. Spells(front, 0, m)
    <3>1. 0 + N <= Len(front) BY <2>5, <2>6
    <3>2. ASSUME NEW j \in 1 .. N PROVE block[front[0 + j]] = Filled(m, j)
      <4>1. 0 + j = j BY <2>5
      <4>2. block[used[j]] = Filled(m, j) BY <2>4, <4>1 DEF Spells
      <4>3. QED BY <2>6, <4>1, <4>2
    <3>3. QED BY <3>1, <3>2 DEF Spells
  <2>8. TotalSize(front) = m.size BY <2>6, <2>7, TotalOfMessage
  <2>9. r \in Readers /\ buf[r] \in BufSizes
    BY DEF Taking, Exact, Asked
  <2>10. \E w \in Writers : m.size \in Sizes[w] /\ ~ Refused(m.size)
    BY DEF Sendable, Message
  <2>11. m.size <= buf[r] BY <2>9, <2>10 DEF Roomy
  <2>12. m.size \in Nat /\ buf[r] \in Nat
    BY <1>1, <2>9, QueueAssumption DEF Sendable, Message
  <2>13. ~ (m.size > buf[r]) BY <2>11, <2>12
  <2>14. QED BY <2>3, <2>4, <2>8, <2>13 DEF front
<1>7. QED BY <1>5, <1>6 DEF TokenLost

\* Writes go back only from a wait with a time limit, and Read() is given its buffer.
LEMMA WhereThreadsGo ==
  ASSUME Typed, Asked, NoneGivesUp, Timed \cap Writers = {}, [Next]_vars
  PROVE  Asked' /\ NoneGivesUp'
<1>0. /\ Writers \cap Readers = {} /\ pc \in [Threads -> Labels] /\ buf \in [Readers -> Nat]
      /\ \A w \in Writers : w \in Threads
      /\ \A r \in Readers : r \in Threads
  BY QueueAssumption DEF Typed, TypeOK, Threads
<1>1. ASSUME NEW w \in Writers, WriteStep(w) \/ \E n \in Sizes[w] : Write(w, n)
      PROVE  Asked' /\ NoneGivesUp'
  <2>1. /\ buf' = buf
        /\ pc' = pc \/ \E a \in {"idle", "wsem", "alloc", "append", "post"} : pc' = [pc EXCEPT ![w] = a]
    <3>1. CASE AllocBlock(w)
      <4>1. CASE nFree = 0 \/ free = <<>> BY <3>1, <4>1 DEF AllocBlock, Return, Goto
      <4>2. CASE ~ (nFree = 0 \/ free = <<>>) BY <3>1, <4>2 DEF AllocBlock, Goto
      <4>3. QED BY <4>1, <4>2
    <3>2. CASE \E n \in Sizes[w] : Write(w, n) BY <3>2 DEF Write, Goto
    <3>3. CASE WaitForSemWrite(w) \/ AppendUsed(w) \/ PostRead(w)
      BY <3>3 DEF WaitForSemWrite, AppendUsed, PostRead, Return, Goto
    <3>4. ~ WriteTimeout(w) BY DEF WriteTimeout
    <3>5. ~ GiveBack(w) BY DEF GiveBack, NoneGivesUp
    <3>6. QED BY <1>1, <3>1, <3>2, <3>3, <3>4, <3>5 DEF WriteStep
  <2>2. /\ \A u \in Threads \ {w} : pc'[u] = pc[u]
        /\ pc'[w] # "giveback"
    BY <1>0, <2>1 DEF NoneGivesUp
  <2>3. \A r \in Readers : pc'[r] = pc[r] BY <1>0, <2>2
  <2>4. QED BY <1>0, <2>1, <2>2, <2>3 DEF Asked, NoneGivesUp
<1>2. ASSUME NEW r \in Readers, NEW n \in BufSizes, Read(r, n)
      PROVE  Asked' /\ NoneGivesUp'
  <2>1. pc' = [pc EXCEPT ![r] = "rsem"] /\ buf' = [buf EXCEPT ![r] = n] BY <1>2 DEF Read, Goto
  <2>2. /\ pc'[r] = "rsem" /\ buf'[r] = n
        /\ \A u \in Threads \ {r} : pc'[u] = pc[u]
        /\ \A q \in Readers \ {r} : buf'[q] = buf[q]
    BY <1>0, <2>1
  <2>3. ASSUME NEW q \in Readers, pc'[q] \in {"rsem", "take"} PROVE buf'[q] \in BufSizes
    <3>1. CASE q = r BY <2>2, <3>1
    <3>2. CASE q # r BY <1>0, <2>2, <2>3, <3>2 DEF Asked
    <3>3. QED BY <3>1, <3>2
  <2>4. \A w \in Writers : pc'[w] = pc[w] BY <1>0, <2>2
  <2>5. QED BY <2>3, <2>4 DEF Asked, NoneGivesUp
<1>3. ASSUME NEW r \in Readers, ReadStep(r)
      PROVE  Asked' /\ NoneGivesUp'
  <2>1. /\ buf' = buf
        /\ \E a \in {"take", "idle", "copy", "free", "release"} : pc' = [pc EXCEPT ![r] = a]
        /\ pc' = [pc EXCEPT ![r] = "take"] => pc[r] = "rsem"
    <3>a. \A a, b \in Labels : [pc EXCEPT ![r] = a] = [pc EXCEPT ![r] = b] => a = b
      BY <1>0
    <3>1. CASE WaitForSemRead(r) BY <3>1 DEF WaitForSemRead, Goto
    <3>2. CASE ReadTimeout(r) BY <3>2, <3>a DEF ReadTimeout, Goto, Labels
    <3>3. CASE TakeMessage(r) BY <3>3, <3>a DEF TakeMessage, Goto, Labels
    <3>4. CASE CopyOut(r) BY <3>4, <3>a DEF CopyOut, Goto, Labels
    <3>5. CASE FreeBlocks(r) BY <3>5, <3>a DEF FreeBlocks, Goto, Labels
    <3>6. CASE ReleaseWrite(r) BY <3>6, <3>a DEF ReleaseWrite, Goto, Labels
    <3>7. QED BY <1>3, <3>1, <3>2, <3>3, <3>4, <3>5, <3>6 DEF ReadStep
  <2>2. /\ \A u \in Threads \ {r} : pc'[u] = pc[u]
        /\ pc'[r] \in {"rsem", "take"} => pc[r] = "rsem"
    BY <1>0, <2>1
  <2>3. ASSUME NEW q \in Readers, pc'[q] \in {"rsem", "take"} PROVE buf'[q] \in BufSizes
    <3>1. CASE q = r BY <2>1, <2>2, <2>3, <3>1 DEF Asked
    <3>2. CASE q # r BY <1>0, <2>1, <2>2, <2>3, <3>2 DEF Asked
    <3>3. QED BY <3>1, <3>2
  <2>4. \A w \in Writers : pc'[w] = pc[w] BY <1>0, <2>2
  <2>5. QED BY <2>3, <2>4 DEF Asked, NoneGivesUp
<1>4. CASE UNCHANGED vars BY <1>4 DEF vars, Asked, NoneGivesUp
<1>5. CASE Next BY <1>1, <1>2, <1>3, <1>5 DEF Next
<1>6. QED BY <1>4, <1>5

\* At the start every block has its token.
LEMMA ExactInit == Init => Exact
<1> SUFFICES ASSUME Init PROVE Exact OBVIOUS
<1>1. Safe /\ Ordered /\ FewThreads /\ Announced = Len(Queued)
  BY SafeInit, OrderedInit, NoneAnnounced
<1>2. Len(Queued) \in Nat BY <1>1, QueuedType, EndsType DEF Ordered, QueuedTyped, EndsTyped
<1>3. Backed BY <1>1, <1>2 DEF Backed
<1>4. Asked /\ NoneGivesUp BY DEF Init, Asked, NoneGivesUp, Threads
<1>5. Promised = Len(free)
  <2>1. Allocating = {} /\ OwedBlocks = {} /\ writeSem = QueueSize
    BY DEF Init, Allocating, OwedBlocks, Threads
  <2>2. Len(free) = QueueSize BY <1>1, QueueAssumption DEF Init, Safe, Typed, TypeOK
  <2>3. QED BY <2>1, <2>2, FS_EmptySet, QueueAssumption DEF Promised
<1>6. QED BY <1>1, <1>3, <1>4, <1>5 DEF Exact

\* No step loses a token.
LEMMA ExactNext ==
  ASSUME Roomy, Timed \cap Writers = {}
  PROVE  Exact /\ [Next]_vars => Exact'
<1> SUFFICES ASSUME Exact, [Next]_vars PROVE Exact' OBVIOUS
<1>1. Backed' /\ Ordered /\ Typed /\ Typed' /\ FewThreads
  BY BackedNext, OrderedNext DEF Exact, Backed, Ordered
<1>2. Asked' /\ NoneGivesUp' BY <1>1, WhereThreadsGo DEF Exact
<1>3. Safe' /\ Balance
  <2>1. ~ \E w \in Writers : GiveBack(w) BY DEF Exact, NoneGivesUp, GiveBack
  <2>2. QED BY <2>1, SafeStep DEF Exact
<1>4. Announced' - Announced = Len(Queued') - Len(Queued)
  BY <1>1, NoneLostToReaders, Announcement
<1>5. Announced \in Int /\ Announced' \in Int
  <2>1. readSem \in Int /\ readSem' \in Int BY <1>1, QueueAssumption DEF Typed, TypeOK
  <2>2. Cardinality(Taking) \in Nat /\ Cardinality(Posting) \in Nat
    BY <1>1, FS_CardinalityType DEF FewThreads
  <2>3. Cardinality(Taking') \in Nat /\ Cardinality(Posting') \in Nat
    BY <1>1, FS_CardinalityType DEF Backed, FewThreads
  <2>4. QED BY <2>1, <2>2, <2>3 DEF Announced
<1>6. Len(Queued) \in Int /\ Len(Queued') \in Int
  <2>1. Len(Queued) \in Int BY <1>1, QueuedType, EndsType DEF QueuedTyped, EndsTyped
  <2>2. QueuedTyped' /\ EndsTyped' BY <1>1, QueuedType, EndsType, PTL
  <2>3. QED BY <2>1, <2>2 DEF QueuedTyped, EndsTyped
<1>7. Announced' = Len(Queued') BY <1>4, <1>5, <1>6 DEF Exact
<1>8. Promised \in Int /\ Promised' \in Int /\ Len(free) \in Int /\ Len(free') \in Int
  <2>1. /\ Cardinality(Allocating) \in Nat /\ Cardinality(OwedBlocks) \in Nat /\ writeSem \in Int
        /\ Len(free) \in Int
    BY <1>1, SetOf, FS_CardinalityType, QueueAssumption DEF Exact, Safe, Counted, Typed, TypeOK
  <2>2. /\ Cardinality(Allocating') \in Nat /\ Cardinality(OwedBlocks') \in Nat
        /\ writeSem' \in Int /\ free' \in Seq(Blocks)
    BY <1>1, <1>3, FS_CardinalityType, QueueAssumption DEF Safe, Counted, Typed, TypeOK
  <2>3. Len(free') \in Int BY <2>2, SetOf
  <2>4. QED BY <2>1, <2>2, <2>3 DEF Promised
<1>9. Promised' = Len(free') BY <1>3, <1>8 DEF Exact, Balance
<1>10. QED BY <1>1, <1>2, <1>3, <1>7, <1>9 DEF Exact

\* When no Write() has a time limit and every server's buffer has room for every
\* message that Write() takes, the semaphores count exactly: the tokens of m_hReadSem
\* the messages on the used list, those of m_hWriteSem the blocks on the free list.
THEOREM TokensExact ==
  ASSUME Roomy, Timed \cap Writers = {}
  PROVE  Spec => []SemaphoresExact
<1>1. Exact => SemaphoresExact
  BY DEF Exact, SemaphoresExact, NoStranded, NoTokenLost, Announced, Promised
<1>2. Exact /\ [Next]_vars => Exact' BY ExactNext
<1>3. QED BY <1>1, <1>2, ExactInit, PTL DEF Spec
-----------------------------------------------------------------------------
(* XQueueCrash: what holds for any number of deaths and of restarts of the *)
(* server.                                                                 *)

\* A thread that dies holds nothing and is at the start again.
LEMMA Dead ==
  ASSUME Typed, NEW t \in Threads, Die(t)
  PROVE  /\ pc'[t] = "idle" /\ chain'[t] = <<>>
         /\ \A u \in Threads \ {t} : pc'[u] = pc[u] /\ chain'[u] = chain[u]
BY DEF Die, Typed, TypeOK

\* Its death leaves every variable its type, and the others what they hold.
LEMMA TypedDie ==
  ASSUME Typed, NEW t \in Threads, Die(t)
  PROVE  Typed'
<1>1. TypeOK'
  <2>1. UNCHANGED <<free, nFree, used, nUsed, block, writeSem, readSem, sent, buf>>
    BY DEF Die, Lists
  <2>2. pc' \in [Threads -> Labels] /\ chain' \in [Threads -> Seq(Blocks)]
    BY NoBlocks DEF Die, Typed, TypeOK, Labels
  <2>3. msg' \in [Writers -> Message \cup {NoMsg}] /\ owed' \in [Readers -> Nat]
    BY DEF Die, Typed, TypeOK
  <2>4. got' \in [Readers -> Seq(Part)]
    BY EmptySeq DEF Die, Typed, TypeOK
  <2> QED
    BY <2>1, <2>2, <2>3, <2>4 DEF Typed, TypeOK
<1>2. WriterState'
  <2> SUFFICES ASSUME NEW w \in Writers PROVE
        /\ pc'[w] \in {"idle", "wsem", "alloc", "append", "post", "giveback"}
        /\ pc'[w] # "idle" => msg'[w] \in Message
        /\ pc'[w] \in {"idle", "post"} => chain'[w] = <<>>
        /\ pc'[w] \in {"wsem", "alloc"} => Len(chain'[w]) < NumBlocks(msg'[w])
        /\ pc'[w] = "append" => Len(chain'[w]) = NumBlocks(msg'[w])
        /\ pc'[w] = "giveback" => chain'[w] # <<>>
    BY DEF WriterState
  <2>1. CASE w = t
    BY <2>1, Dead
  <2>2. CASE w # t
    <3>1. pc'[w] = pc[w] /\ chain'[w] = chain[w] /\ msg'[w] = msg[w]
      BY <2>2, Dead DEF Threads, Die
    <3> QED
      BY <3>1 DEF Typed, WriterState
  <2> QED
    BY <2>1, <2>2
<1>3. ReaderState'
  BY Dead DEF Typed, ReaderState, Threads
<1> QED
  BY <1>1, <1>2, <1>3 DEF Typed

\* So does the return of the server.
LEMMA TypedCreate == Typed /\ Create => Typed'
<1> SUFFICES ASSUME Typed, Create PROVE Typed'
  OBVIOUS
<1>1. TypeOK'
  <2>1. UNCHANGED <<writeSem, readSem, msg, sent, buf>>
    BY DEF Create, Recreate
  <2>2. free' \in Seq(Blocks) /\ nFree' \in Int /\ used' \in Seq(Blocks) /\ nUsed' \in Int
    BY QueueAssumption, EmptySeq DEF Create, Recreate, Blocks
  <2>3. block' \in [Blocks -> Contents]
    BY DEF Create, Recreate, Blank, Contents
  <2>4. pc' \in [Threads -> Labels] /\ chain' \in [Threads -> Seq(Blocks)]
    BY NoBlocks DEF Create, Recreate, Typed, TypeOK, Labels
  <2>5. owed' \in [Readers -> Nat] /\ got' \in [Readers -> Seq(Part)]
    BY EmptySeq DEF Create, Recreate
  <2> QED
    BY <2>1, <2>2, <2>3, <2>4, <2>5 DEF Typed, TypeOK
<1>2. \A w \in Writers : pc'[w] = pc[w] /\ chain'[w] = chain[w] /\ msg'[w] = msg[w]
  BY QueueAssumption DEF Create, Recreate, Threads
<1>3. \A r \in Readers : pc'[r] = "idle" /\ chain'[r] = <<>>
  BY DEF Create, Recreate, Threads
<1>4. WriterState'
  BY <1>2 DEF Typed, WriterState
<1>5. ReaderState'
  BY <1>3 DEF ReaderState
<1> QED
  BY <1>1, <1>4, <1>5 DEF Typed

\* A death puts no block in two places.
LEMMA OwnershipDie ==
  ASSUME Typed, Ownership, NEW t \in Threads, Die(t)
  PROVE  Ownership'
<1>1. free' = free /\ used' = used
  BY DEF Die, Lists
<1>2. ToSet(chain'[t]) = {} /\ Distinct(chain'[t])
  BY Dead, NoBlocks
<1>3. \A u \in Threads \ {t} : chain'[u] = chain[u]
  BY Dead
<1> QED
  BY <1>1, <1>2, <1>3 DEF Ownership, Apart

\* Neither does Create() while no client holds a block.
LEMMA OwnershipCreate ==
  ASSUME MidWrite = FALSE, Typed, Create
  PROVE  Ownership'
<1>1. \A u \in Threads : chain'[u] = <<>>
  BY DEF Create, Recreate, Threads
<1>2. Distinct(free') /\ used' = <<>>
  BY QueueAssumption DEF Create, Recreate, Distinct
<1> QED
  BY <1>1, <1>2, NoBlocks DEF Ownership, Apart

\* When the server comes back only while no client holds a block, no block is
\* ever in two places, whoever dies between two steps of Write() or Read().
THEOREM OwnedOnceDespiteDeaths ==
  ASSUME MidWrite = FALSE
  PROVE  CrashSpec => []Ownership
<1>1. CrashInit => Typed /\ Ownership
  BY TypedInit, OwnershipInit DEF CrashInit
<1>2. Typed /\ Ownership /\ [CrashNext]_crashVars => (Typed /\ Ownership)'
  <2> SUFFICES ASSUME Typed, Ownership, [CrashNext]_crashVars
               PROVE  (Typed /\ Ownership)'
    OBVIOUS
  <2>1. CASE [Next]_vars
    BY <2>1, TypedNext, OwnershipNext
  <2>2. ASSUME NEW t \in Threads, Die(t) PROVE (Typed /\ Ownership)'
    BY <2>2, TypedDie, OwnershipDie
  <2>3. CASE Create
    BY <2>3, TypedCreate, OwnershipCreate
  <2> QED
    BY <2>1, <2>2, <2>3 DEF CrashNext, crashVars
<1> QED
  BY <1>1, <1>2, PTL DEF CrashSpec
-----------------------------------------------------------------------------
(* The order of the messages. *)

\* A death leaves the messages of the used list, and those others write and read.
LEMMA OrderedDie ==
  ASSUME Ordered, NEW t \in Threads, Die(t)
  PROVE  Ordered'
<1>1. Typed' /\ Ownership' BY TypedDie, OwnershipDie DEF Ordered
<1>2. /\ pc'[t] = "idle" /\ chain'[t] = <<>>
      /\ \A u \in Threads \ {t} : pc'[u] = pc[u] /\ chain'[u] = chain[u]
  BY Dead DEF Ordered
<1>3. /\ used' = used /\ nUsed' = nUsed /\ block' = block
      /\ \A w \in Writers \ {t} : msg'[w] = msg[w]
      /\ \A r \in Readers \ {t} : got'[r] = got[r]
      /\ t \in Readers => got'[t] = <<>>
  BY DEF Die, Lists
<1>4. QED BY <1>1, <1>2, <1>3, OrderedKept

\* Create() empties the used list, while no client has filled a block.
LEMMA OrderedCreate ==
  ASSUME MidWrite = FALSE, Ordered, Create
  PROVE  Ordered'
<1>1. Typed' /\ Ownership' BY TypedCreate, OwnershipCreate DEF Ordered
<1>2. used' = <<>> /\ nUsed' = 0 BY DEF Create, Recreate
<1>3. ASSUME NEW w \in Writers
      PROVE  pc'[w] = pc[w] /\ chain'[w] = <<>> /\ msg'[w] = msg[w]
  BY QueueAssumption DEF Create, Recreate, Threads
<1>4. \A r \in Readers : pc'[r] = "idle" /\ got'[r] = <<>>
  BY DEF Create, Recreate, Threads
<1>5. Framed' BY <1>2 DEF Framed
<1>6. Filling'
  <2>1. ASSUME NEW w \in Writers
        PROVE  /\ pc'[w] # "idle" => msg'[w] \in Sendable
               /\ \A j \in 1 .. Len(chain'[w]) : block'[chain'[w][j]] = Filled(msg'[w], j)
    <3>1. 1 .. Len(chain'[w]) = {} BY <1>3
    <3>2. QED BY <1>3, <3>1 DEF Ordered, Filling
  <2>2. QED BY <2>1 DEF Filling
<1>7. Emptying' BY <1>4 DEF Emptying
<1>8. QED BY <1>1, <1>2, <1>5, <1>6, <1>7 DEF Ordered

\* A client that dies in Write() before its blocks are on the used list has not
\* written; a server that dies gives its last message back.
LEMMA FifoDie ==
  ASSUME Ordered, NEW t \in Threads, Die(t)
  PROVE  \/ t \in Writers /\ Fifo!Reject(t)
         \/ t \in Readers /\ Fifo!Ask(t)
         \/ UNCHANGED Fifo!vars
<1>1. /\ pc'[t] = "idle" /\ chain'[t] = <<>>
      /\ \A u \in Threads \ {t} : pc'[u] = pc[u] /\ chain'[u] = chain[u]
  BY Dead DEF Ordered
<1>2. /\ used' = used /\ block' = block
      /\ \A w \in Writers \ {t} : msg'[w] = msg[w]
      /\ \A r \in Readers \ {t} : got'[r] = got[r]
      /\ t \in Readers => got'[t] = <<>>
  BY DEF Die, Lists
<1>3. Queued' = Queued BY <1>2, QueuedKept DEF Ordered
<1>4. CASE t \in Writers
  <2>1. \A r \in Readers : r \in Threads \ {t} BY <1>4, QueueAssumption DEF Threads
  <2>2. Received' = Received BY <1>1, <1>2, <2>1, ReceivedByOthers
  <2>3. Sending'[t] = NoMsg BY <1>1, <1>4 DEF Sending
  <2>4. \A v \in Writers \ {t} : pc'[v] = pc[v] /\ msg'[v] = msg[v] BY <1>1, <1>2 DEF Threads
  <2>5. CASE Sending[t] = NoMsg
    <3>1. Sending' = Sending BY <1>4, <2>3, <2>4, <2>5, SendingOne
    <3>2. QED BY <1>3, <2>2, <3>1 DEF Fifo!vars
  <2>6. CASE Sending[t] # NoMsg
    <3>1. Sending' = [Sending EXCEPT ![t] = NoMsg] BY <1>4, <2>3, <2>4, SendingOne
    <3>2. Fifo!Reject(t) BY <1>3, <2>2, <2>6, <3>1 DEF Fifo!Reject
    <3>3. QED BY <1>4, <3>2
  <2>7. QED BY <2>5, <2>6
<1>5. CASE t \in Readers
  <2>1. \A w \in Writers : pc'[w] = pc[w] /\ msg'[w] = msg[w]
    BY <1>1, <1>2, <1>5, QueueAssumption DEF Threads
  <2>2. Sending' = Sending BY <2>1, SendingByOthers
  <2>3. ASSUME NEW q \in Readers \ {t} PROVE Received'[q] = Received[q]
    <3>1. q \in Readers /\ pc'[q] = pc[q] /\ chain'[q] = chain[q] /\ got'[q] = got[q]
      BY <1>1, <1>2 DEF Threads
    <3>2. QED BY <1>2, <3>1, ReceivedKept
  <2>4. Received'[t] = NoMsg BY <1>1, <1>2, <1>5, AssembledType DEF Received
  <2>5. CASE Received[t] = NoMsg
    <3>1. Received' = Received BY <1>5, <2>3, <2>4, <2>5, ReceivedOne
    <3>2. QED BY <1>3, <2>2, <3>1 DEF Fifo!vars
  <2>6. CASE Received[t] # NoMsg
    <3>1. Received' = [Received EXCEPT ![t] = NoMsg] BY <1>5, <2>3, <2>4, ReceivedOne
    <3>2. Fifo!Ask(t) BY <1>3, <2>2, <2>6, <3>1 DEF Fifo!Ask
    <3>3. QED BY <1>5, <3>2
  <2>7. QED BY <2>5, <2>6
<1>6. QED BY <1>4, <1>5 DEF Threads

\* The return of the server forgets the messages, and nothing else.
LEMMA ForgetsAll == Create => Forget
<1> SUFFICES ASSUME Create PROVE Forget OBVIOUS
<1>1. \A r \in Readers : got'[r] = <<>> /\ chain'[r] = <<>>
  BY DEF Create, Recreate, Threads
<1>2. used' = <<>> /\ msg' = msg /\ creates' = creates + 1 BY DEF Create, Recreate
<1>3. Queued' = <<>>
  <2>1. Ends' = {} BY <1>2 DEF Ends
  <2>2. Cardinality(Ends') = 0 /\ 1 .. 0 = {} BY <2>1, FS_EmptySet
  <2>3. Queued' \in [{} -> {NoMsg}] BY <2>2 DEF Queued
  <2>4. QED BY <2>3
<1>4. QED BY <1>1, <1>2, <1>3 DEF Forget

\* When the server comes back only while no client holds a block, every message
\* still comes whole, once and in the order of the writes, but for those that the
\* restart of the server loses, at that step and no other, whoever dies and wherever.
THEOREM OrderDespiteDeaths ==
  ASSUME MidWrite = FALSE
  PROVE  CrashSpec => FifoButForRestarts
<1>1. CrashInit => Ordered /\ Fifo!Init BY OrderedInit, FifoInit DEF CrashInit
<1>2. Ordered /\ [CrashNext]_crashVars => Ordered' /\ [Fifo!Next \/ Forget]_(Fifo!vars)
  <2> SUFFICES ASSUME Ordered, [CrashNext]_crashVars
               PROVE  Ordered' /\ [Fifo!Next \/ Forget]_(Fifo!vars)
    OBVIOUS
  <2>1. CASE [Next]_vars
    <3>1. Ordered' BY <2>1, OrderedNext
    <3>2. Typed' BY <3>1 DEF Ordered
    <3>3. [Fifo!Next]_(Fifo!vars) BY <2>1, <3>2, FifoStep
    <3>4. QED BY <3>1, <3>3
  <2>2. ASSUME NEW t \in Threads, Die(t)
        PROVE  Ordered' /\ [Fifo!Next \/ Forget]_(Fifo!vars)
    <3>1. Ordered' BY <2>2, OrderedDie
    <3>2. Fifo!Next \/ UNCHANGED Fifo!vars BY <2>2, FifoDie DEF Fifo!Next
    <3>3. QED BY <3>1, <3>2
  <2>3. CASE Create BY <2>3, OrderedCreate, ForgetsAll
  <2>4. QED BY <2>1, <2>2, <2>3 DEF CrashNext, crashVars
<1>3. QED BY <1>1, <1>2, PTL DEF CrashSpec, FifoButForRestarts
=============================================================================
