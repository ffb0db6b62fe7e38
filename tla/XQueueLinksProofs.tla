-------------------------- MODULE XQueueLinksProofs --------------------------
(***************************************************************************)
(* Proofs about XQueueLinks, for any threads, any geometry of the queue    *)
(* and any message sizes: the links of the two lists mirror each other, and*)
(* with the mutexes they are the lists of XQueue, step by step.            *)
(***************************************************************************)
EXTENDS XQueueLinks, SequenceTheorems, FiniteSetTheorems, TLAPS

\* XQueue as it is seen through the links, with its proofs.  Nobody dies here.
Free == Chain("free")
Used == Chain("used")
Data == [b \in Blocks |-> AbsBlock(b)]
Chains == [t \in Threads |-> AbsChain(t)]
Places == [t \in Threads |-> AbsPc(t)]

Q == INSTANCE XQueueProofs WITH
    free  <- Free, nFree <- list.free.count,
    used  <- Used, nUsed <- list.used.count,
    block <- Data, chain <- Chains, pc <- Places,
    MaxDeaths <- 0, MaxCreates <- 0, MidWrite <- FALSE, deaths <- 0, creates <- 0

-----------------------------------------------------------------------------
(* The lists that the links make. *)

\* s names no block twice.
Distinct(s) == \A i, j \in 1 .. Len(s) : s[i] = s[j] => i = j

\* Neighbours in s are linked both ways, forward by f and back by g.
Chained(f, g, s) == \A i \in 1 .. Len(s) - 1 : f[s[i]] = s[i + 1] /\ g[s[i + 1]] = s[i]

\* s is the list with the head and the tail in l.
Strung(f, g, l, s) ==
    /\ s \in Seq(Blocks) /\ Distinct(s)
    /\ Chained(f, g, s)
    /\ s = <<>> => l.head = Nil /\ l.tail = Nil
    /\ s # <<>> => /\ l.head = s[1] /\ l.tail = s[Len(s)]
                   /\ f[s[Len(s)]] = Nil /\ g[s[1]] = Nil

\* s is the chain of n blocks between the pointers a and z of a thread.
Holds(f, g, a, z, n, s) ==
    /\ s \in Seq(Blocks) /\ Distinct(s)
    /\ Chained(f, g, s)
    /\ n = Len(s)
    /\ s = <<>> => a = Nil /\ z = Nil
    /\ s # <<>> => a = s[1] /\ z = s[Len(s)]

-----------------------------------------------------------------------------
(* Walks. *)

\* Following f from a one passes s, and stops at z or where the links end.
Leads(f, s, a, z) ==
    /\ s \in Seq(Blocks) /\ Len(s) \in 1 .. QueueSize /\ s[1] = a
    /\ \A i \in 1 .. Len(s) - 1 : s[i] # z /\ f[s[i]] = s[i + 1]
    /\ s[Len(s)] = z \/ f[s[Len(s)]] = Nil

\* A nonempty set of natural numbers has a least element.
LEMMA LeastNat ==
  ASSUME NEW T \in SUBSET Nat, T # {}
  PROVE  \E x \in T : \A y \in T : x <= y
BY Q!LeastNat, QueueAssumption, NoMsgAssumption DEF Message, Q!Message

\* The first n blocks of a list, and one more.
LEMMA Prefix ==
  ASSUME NEW s \in Seq(Blocks), NEW n \in 1 .. Len(s)
  PROVE  /\ SubSeq(s, 1, n) \in Seq(Blocks)
         /\ Len(SubSeq(s, 1, n)) = n
         /\ \A i \in 1 .. n : SubSeq(s, 1, n)[i] = s[i]
         /\ Last(SubSeq(s, 1, n)) = s[n]
         /\ n < Len(s) => Append(SubSeq(s, 1, n), s[n + 1]) = SubSeq(s, 1, n + 1)
<1> DEFINE q == SubSeq(s, 1, n)
<1>1. Len(s) \in Nat /\ n \in Nat \ {0} /\ \A i \in 1 .. Len(s) : s[i] \in Blocks
  BY LenProperties, ElementOfSeq
<1>2. q \in Seq(Blocks) /\ Len(q) = n /\ \A i \in 1 .. n : q[i] = s[i]
  <2>1. \A i \in 1 .. n : s[i] \in Blocks BY <1>1
  <2>2. QED BY <1>1, <2>1, SubSeqProperties
<1>3. Last(q) = s[n]
  <2>1. n \in 1 .. n BY <1>1
  <2>2. QED BY <1>1, <1>2, <2>1 DEF Last
<1>4. ASSUME n < Len(s) PROVE Append(q, s[n + 1]) = SubSeq(s, 1, n + 1)
  <2> DEFINE u == SubSeq(s, 1, n + 1)
             v == Append(q, s[n + 1])
  <2>1. n + 1 \in 1 .. Len(s) /\ n + 1 \in Nat BY <1>1, <1>4
  <2>2. \A i \in 1 .. n + 1 : s[i] \in Blocks BY <1>1, <2>1
  <2>3. u \in Seq(Blocks) /\ Len(u) = n + 1 /\ \A i \in 1 .. n + 1 : u[i] = s[i]
    BY <2>1, <2>2, SubSeqProperties
  <2>4. /\ v \in Seq(Blocks) /\ Len(v) = n + 1 /\ v[n + 1] = s[n + 1]
        /\ \A i \in 1 .. n : v[i] = q[i]
    BY <1>1, <1>2, <2>1, AppendProperties
  <2>5. \A i \in 1 .. n + 1 : u[i] = v[i] BY <1>1, <1>2, <2>3, <2>4
  <2> HIDE DEF u, v
  <2>6. u = v BY <2>3, <2>4, <2>5, SeqEqual
  <2>7. QED BY <2>6 DEF u, v
<1>5. QED BY <1>2, <1>3, <1>4

\* Walk() finds that list, and no other.
LEMMA WalkIs ==
  \A a \in Blocks, z \in BlockOrNil, s \in Seq(Blocks) :
     Leads(fwd, s, a, z) => Walk(a, z) = s
<1> SUFFICES ASSUME NEW a \in Blocks, NEW z \in BlockOrNil, NEW s \in Seq(Blocks),
                    Leads(fwd, s, a, z)
             PROVE  Walk(a, z) = s
  OBVIOUS
<1> DEFINE To(n) == IF n + 1 < Len(s) THEN n + 1 ELSE Len(s)
           Step(q) == IF Last(q) = z \/ fwd[Last(q)] = Nil THEN q ELSE Append(q, fwd[Last(q)])
           W(f) == [n \in 0 .. QueueSize |->
                       IF n = 0 THEN <<a>>
                       ELSE LET q == f[n - 1]
                                b == Last(q)
                            IN  IF b = z \/ fwd[b] = Nil THEN q ELSE Append(q, fwd[b])]
           cut == [n \in 0 .. QueueSize |-> SubSeq(s, 1, To(n))]
           w == CHOOSE f : f = W(f)
<1>1. /\ Len(s) \in Nat \ {0} /\ Len(s) <= QueueSize /\ QueueSize \in Nat \ {0}
      /\ s[1] = a
      /\ \A i \in 1 .. Len(s) : s[i] \in Blocks
      /\ \A i \in 1 .. Len(s) - 1 : s[i] # z /\ fwd[s[i]] = s[i + 1]
      /\ s[Len(s)] = z \/ fwd[s[Len(s)]] = Nil
  BY QueueAssumption, ElementOfSeq DEF Leads
<1>2. \A n \in 0 .. QueueSize : To(n) \in 1 .. Len(s)
  BY <1>1
<1>3. SubSeq(s, 1, To(0)) = <<a>>
  <2>1. To(0) = 1 /\ 1 \in 1 .. Len(s)
    <3>1. Len(s) \in Nat /\ 1 <= Len(s) BY <1>1
    <3>2. 1 \in 1 .. Len(s) BY <3>1
    <3>3. PICK l \in Nat : l = Len(s) BY <3>1
    <3>4. (IF 0 + 1 < l THEN 0 + 1 ELSE l) = 1 BY <3>1, <3>3
    <3>5. To(0) = 1 BY ONLY <3>3, <3>4
    <3>6. QED BY <3>2, <3>5
  <2> HIDE DEF To
  <2>2. /\ SubSeq(s, 1, 1) \in Seq(Blocks) /\ Len(SubSeq(s, 1, 1)) = 1
        /\ SubSeq(s, 1, 1)[1] = a
    BY <1>1, <2>1, Prefix
  <2>3. <<a>> \in Seq(Blocks) /\ Len(<<a>>) = 1 /\ <<a>>[1] = a OBVIOUS
  <2>4. SubSeq(s, 1, 1) = <<a>>
    <3> DEFINE u == SubSeq(s, 1, 1)
               v == <<a>>
    <3>1. \A i \in 1 .. Len(u) : u[i] = v[i] BY <2>2, <2>3
    <3> HIDE DEF u, v
    <3>2. u = v BY <2>2, <2>3, <3>1, SeqEqual DEF u, v
    <3>3. QED BY <3>2 DEF u, v
  <2>5. QED BY <2>1, <2>4
<1>4. ASSUME NEW n \in 1 .. QueueSize
      PROVE  SubSeq(s, 1, To(n)) = Step(SubSeq(s, 1, To(n - 1)))
  <2> DEFINE k == To(n - 1)
  <2>1. k \in 1 .. Len(s) BY <1>2
  <2>2. Last(SubSeq(s, 1, k)) = s[k] BY <2>1, Prefix
  <2>3. CASE n < Len(s)
    <3>1. k = n /\ To(n) = n + 1 BY <1>1, <2>3
    <3>2. n \in 1 .. Len(s) - 1 /\ n + 1 \in 1 .. Len(s) BY <1>1, <2>3
    <3>3. s[n] # z /\ fwd[s[n]] = s[n + 1] /\ s[n + 1] # Nil
      BY <1>1, <3>2, NilAssumption
    <3>4. Append(SubSeq(s, 1, n), s[n + 1]) = SubSeq(s, 1, n + 1)
      BY <2>1, <2>3, <3>1, Prefix
    <3> HIDE DEF To
    <3>5. QED BY <2>2, <3>1, <3>3, <3>4
  <2>4. CASE ~ (n < Len(s))
    <3>1. k = Len(s) /\ To(n) = Len(s) BY <1>1, <2>4
    <3> HIDE DEF To
    <3>2. QED BY <1>1, <2>2, <3>1
  <2>5. QED BY <2>3, <2>4
<1> HIDE DEF To
<1>5. cut = W(cut)
  <2>1. ASSUME NEW n \in 0 .. QueueSize
        PROVE  cut[n] = IF n = 0 THEN <<a>> ELSE Step(cut[n - 1])
    <3>1. CASE n = 0 BY <1>3, <3>1
    <3>2. CASE n # 0
      <4>1. n \in 1 .. QueueSize /\ n - 1 \in 0 .. QueueSize BY <1>1, <3>2
      <4>2. cut[n - 1] = SubSeq(s, 1, To(n - 1)) BY <4>1
      <4> HIDE DEF Step
      <4>3. QED BY <1>4, <3>2, <4>1, <4>2
    <3>3. QED BY <3>1, <3>2
  <2>2. \A n \in 0 .. QueueSize : cut[n] = W(cut)[n]
    <3> HIDE DEF cut
    <3>1. QED BY <2>1
  <2>3. cut = [n \in 0 .. QueueSize |-> cut[n]] OBVIOUS
  <2> HIDE DEF cut
  <2>4. QED BY <2>2, <2>3
<1>6. w = W(w)
  <2> HIDE DEF cut
  <2>1. \E f : f = W(f) BY <1>5
  <2>2. QED BY <2>1
<1>7. ASSUME NEW n \in 0 .. QueueSize PROVE w[n] = IF n = 0 THEN <<a>> ELSE Step(w[n - 1])
  <2> HIDE DEF w, cut
  <2>1. w[n] = W(w)[n] BY <1>6
  <2>2. QED BY <2>1
<1>8. ASSUME NEW n \in 0 .. QueueSize
      PROVE  cut[n] = IF n = 0 THEN <<a>> ELSE Step(cut[n - 1])
  <2> HIDE DEF cut
  <2>1. cut[n] = W(cut)[n] BY <1>5
  <2>2. QED BY <2>1
<1> HIDE DEF Step
<1>9. \A n \in 0 .. QueueSize : w[n] = cut[n]
  <2> DEFINE T == {n \in Nat : n <= QueueSize /\ w[n] # cut[n]}
  <2> HIDE DEF w, cut
  <2> SUFFICES ASSUME T # {} PROVE FALSE BY <1>1
  <2>1. PICK n \in T : \A j \in T : n <= j
    <3>1. T \in SUBSET Nat OBVIOUS
    <3> HIDE DEF T
    <3>2. QED BY <3>1, LeastNat
  <2>2. n \in 0 .. QueueSize /\ w[n] # cut[n] BY <1>1
  <2>3. n # 0 BY <1>7, <1>8, <2>2
  <2>4. n - 1 \in Nat /\ n - 1 <= QueueSize /\ ~ (n <= n - 1) BY <1>1, <2>2, <2>3
  <2>5. w[n - 1] = cut[n - 1] BY <2>1, <2>4
  <2>6. QED BY <1>7, <1>8, <2>2, <2>3, <2>5
<1>10. cut[QueueSize] = s
  <2>1. To(QueueSize) = Len(s) /\ QueueSize \in 0 .. QueueSize BY <1>1 DEF To
  <2>2. SubSeq(s, 1, Len(s)) = s BY SubSeqFull
  <2>3. QED BY <2>1, <2>2
<1>11. w[QueueSize] = s
  <2> HIDE DEF w, cut
  <2>1. QueueSize \in 0 .. QueueSize BY <1>1
  <2>2. QED BY <1>9, <1>10, <2>1
<1>12. a # Nil BY NilAssumption
<1>13. QED BY <1>11, <1>12 DEF Walk
-----------------------------------------------------------------------------
(* Lemmas about lists of blocks. *)

\* The blocks of a list are the values of its positions, and no more than there are.
LEMMA SetOf ==
  ASSUME NEW s \in Seq(Blocks)
  PROVE  /\ ToSet(s) = {s[i] : i \in 1 .. Len(s)}
         /\ ToSet(s) \in SUBSET Blocks
         /\ Len(s) \in Nat
         /\ \A i \in 1 .. Len(s) : s[i] \in Blocks /\ s[i] \in ToSet(s)
         /\ s = <<>> <=> Len(s) = 0
         /\ s # <<>> => 1 \in 1 .. Len(s) /\ Len(s) \in 1 .. Len(s)
<1>1. /\ ToSet(s) = {s[i] : i \in 1 .. Len(s)}
      /\ ToSet(s) \in SUBSET Blocks
      /\ Len(s) \in Nat
  BY Q!SetOf, QueueAssumption, NoMsgAssumption
  DEF Message, Q!Message, Blocks, Q!Blocks, ToSet, Q!ToSet
<1>2. s = <<>> <=> Len(s) = 0 BY EmptySeq
<1>3. s # <<>> => 1 \in 1 .. Len(s) /\ Len(s) \in 1 .. Len(s) BY <1>1, <1>2
<1>4. \A i \in 1 .. Len(s) : s[i] \in Blocks /\ s[i] \in ToSet(s) BY <1>1
<1>5. QED BY <1>1, <1>2, <1>3, <1>4

\* A list without repetition is no longer than there are blocks.
LEMMA ListLength ==
  ASSUME NEW s \in Seq(Blocks), Distinct(s)
  PROVE  Len(s) \in 0 .. QueueSize
BY Q!ListLength, QueueAssumption, NoMsgAssumption
DEF Message, Q!Message, Blocks, Q!Blocks, Distinct, Q!Distinct

\* Joining two lists that have no block in common.
LEMMA Joined ==
  ASSUME NEW s \in Seq(Blocks), NEW u \in Seq(Blocks)
  PROVE  /\ s \o u \in Seq(Blocks)
         /\ Len(s \o u) = Len(s) + Len(u)
         /\ \A i \in 1 .. Len(s) : (s \o u)[i] = s[i]
         /\ \A i \in 1 .. Len(u) : (s \o u)[Len(s) + i] = u[i]
         /\ ToSet(s \o u) = ToSet(s) \cup ToSet(u)
         /\ Distinct(s) /\ Distinct(u) /\ ToSet(s) \cap ToSet(u) = {} => Distinct(s \o u)
<1>1. /\ s \o u \in Seq(Blocks)
      /\ Len(s \o u) = Len(s) + Len(u)
      /\ ToSet(s \o u) = ToSet(s) \cup ToSet(u)
      /\ Distinct(s) /\ Distinct(u) /\ ToSet(s) \cap ToSet(u) = {} => Distinct(s \o u)
  BY Q!Joined, QueueAssumption, NoMsgAssumption
  DEF Message, Q!Message, Blocks, Q!Blocks, ToSet, Q!ToSet, Distinct, Q!Distinct, Q!Apart
<1>2. \A i \in 1 .. Len(s) + Len(u) :
         (s \o u)[i] = IF i <= Len(s) THEN s[i] ELSE u[i - Len(s)]
  BY ConcatProperties
<1>3. Len(s) \in Nat /\ Len(u) \in Nat BY LenProperties
<1>4. ASSUME NEW i \in 1 .. Len(s) PROVE (s \o u)[i] = s[i]
  <2>1. i \in 1 .. Len(s) + Len(u) /\ i <= Len(s) BY <1>3
  <2>2. QED BY <1>2, <2>1
<1>5. ASSUME NEW i \in 1 .. Len(u) PROVE (s \o u)[Len(s) + i] = u[i]
  <2>1. /\ Len(s) + i \in 1 .. Len(s) + Len(u) /\ ~ (Len(s) + i <= Len(s))
        /\ Len(s) + i - Len(s) = i
    BY <1>3
  <2>2. QED BY <1>2, <2>1
<1>6. QED BY <1>1, <1>4, <1>5

\* One block is a list, and follows another as Append() has it.
LEMMA OneBlock ==
  ASSUME NEW b \in Blocks
  PROVE  /\ <<b>> \in Seq(Blocks) /\ Len(<<b>>) = 1 /\ <<b>>[1] = b /\ <<b>> # <<>>
         /\ Distinct(<<b>>) /\ ToSet(<<b>>) = {b}
         /\ \A s \in Seq(Blocks) : Append(s, b) = s \o <<b>>
<1>1. <<b>> \in Seq(Blocks) /\ Len(<<b>>) = 1 /\ <<b>>[1] = b /\ <<b>> # <<>> OBVIOUS
<1>2. Distinct(<<b>>) BY <1>1 DEF Distinct
<1>3. ToSet(<<b>>) = {b}
  <2> DEFINE q == <<b>>
  <2> HIDE DEF q
  <2>1. q \in Seq(Blocks) /\ Len(q) = 1 /\ q[1] = b BY <1>1 DEF q
  <2>2. ToSet(q) = {q[i] : i \in 1 .. 1} BY <2>1, SetOf
  <2>3. 1 .. 1 = {1} OBVIOUS
  <2>4. ToSet(q) = {b} BY <2>1, <2>2, <2>3
  <2>5. QED BY <2>4 DEF q
<1>4. ASSUME NEW s \in Seq(Blocks) PROVE Append(s, b) = s \o <<b>>
  BY <1>4, AppendIsConcat
<1>5. QED BY <1>1, <1>2, <1>3, <1>4

\* Cutting a list behind its n-th block.
LEMMA Cut ==
  ASSUME NEW s \in Seq(Blocks), NEW n \in 1 .. Len(s)
  PROVE  LET rest == SubSeq(s, n + 1, Len(s)) IN
         /\ rest \in Seq(Blocks)
         /\ Len(rest) = Len(s) - n
         /\ \A i \in 1 .. Len(rest) : rest[i] = s[n + i]
         /\ ToSet(s) = ToSet(SubSeq(s, 1, n)) \cup ToSet(rest)
         /\ Distinct(s) => /\ Distinct(SubSeq(s, 1, n)) /\ Distinct(rest)
                           /\ ToSet(SubSeq(s, 1, n)) \cap ToSet(rest) = {}
<1> DEFINE rest == SubSeq(s, n + 1, Len(s))
<1>1. /\ rest \in Seq(Blocks)
      /\ Len(rest) = Len(s) - n
      /\ \A i \in 1 .. Len(s) - n : rest[i] = s[n + i]
  BY Q!CutType, QueueAssumption, NoMsgAssumption DEF Message, Q!Message, Blocks, Q!Blocks
<1>2. /\ ToSet(s) = ToSet(SubSeq(s, 1, n)) \cup ToSet(rest)
      /\ Distinct(s) => /\ Distinct(SubSeq(s, 1, n)) /\ Distinct(rest)
                        /\ ToSet(SubSeq(s, 1, n)) \cap ToSet(rest) = {}
  <2> DEFINE front == SubSeq(s, 1, n)
  <2>1. s \in Seq(Q!Blocks) BY DEF Blocks, Q!Blocks
  <2>2. /\ Q!ToSet(s) = Q!ToSet(front) \cup Q!ToSet(rest)
        /\ Q!Distinct(s) => Q!Distinct(front) /\ Q!Distinct(rest) /\ Q!Apart(front, rest)
    BY <2>1, Q!CutApart, QueueAssumption, NoMsgAssumption DEF Message, Q!Message
  <2> HIDE DEF front, rest
  <2>3. /\ Q!ToSet(s) = ToSet(s) /\ Q!ToSet(front) = ToSet(front)
        /\ Q!ToSet(rest) = ToSet(rest)
    BY Zenon DEF ToSet, Q!ToSet
  <2>4. /\ Q!Distinct(s) <=> Distinct(s)
        /\ Q!Distinct(front) <=> Distinct(front)
        /\ Q!Distinct(rest) <=> Distinct(rest)
    BY Zenon DEF Distinct, Q!Distinct
  <2>5. Q!Apart(front, rest) <=> Q!ToSet(front) \cap Q!ToSet(rest) = {}
    BY Zenon DEF Q!Apart
  <2>6. /\ ToSet(s) = ToSet(front) \cup ToSet(rest)
        /\ Distinct(s) => /\ Distinct(front) /\ Distinct(rest)
                          /\ ToSet(front) \cap ToSet(rest) = {}
    BY <2>2, <2>3, <2>4, <2>5
  <2>7. QED BY <2>6 DEF front
<1>3. QED BY <1>1, <1>2

\* Links that make a list, and lists that are neighbours, make the list of both.
LEMMA ChainedJoin ==
  ASSUME NEW f, NEW g, NEW s \in Seq(Blocks), NEW u \in Seq(Blocks),
         Chained(f, g, s), Chained(f, g, u),
         s # <<>> /\ u # <<>> => f[s[Len(s)]] = u[1] /\ g[u[1]] = s[Len(s)]
  PROVE  Chained(f, g, s \o u)
<1> DEFINE v == s \o u
<1>1. /\ Len(s) \in Nat /\ Len(u) \in Nat
      /\ Len(v) = Len(s) + Len(u)
      /\ \A i \in 1 .. Len(s) : v[i] = s[i]
      /\ \A i \in 1 .. Len(u) : v[Len(s) + i] = u[i]
  BY Joined, SetOf
<1> HIDE DEF v
<1>2. ASSUME NEW i \in 1 .. Len(v) - 1
      PROVE  f[v[i]] = v[i + 1] /\ g[v[i + 1]] = v[i]
  <2>1. CASE i < Len(s)
    <3>1. i \in 1 .. Len(s) - 1 /\ i \in 1 .. Len(s) /\ i + 1 \in 1 .. Len(s) BY <1>1, <2>1
    <3>2. f[s[i]] = s[i + 1] /\ g[s[i + 1]] = s[i] BY <3>1 DEF Chained
    <3>3. QED BY <1>1, <3>1, <3>2
  <2>2. CASE i = Len(s)
    <3>1. i \in 1 .. Len(s) /\ 1 \in 1 .. Len(u) BY <1>1, <2>2
    <3>2. v[i] = s[Len(s)] /\ v[i + 1] = u[1] BY <1>1, <2>2, <3>1
    <3>3. s # <<>> /\ u # <<>> BY <1>1, <3>1, SetOf
    <3>4. QED BY <3>2, <3>3
  <2>3. CASE i > Len(s)
    <3> DEFINE j == i - Len(s)
    <3>1. /\ j \in 1 .. Len(u) - 1 /\ j \in 1 .. Len(u) /\ j + 1 \in 1 .. Len(u)
          /\ Len(s) + j = i /\ Len(s) + (j + 1) = i + 1
      BY <1>1, <2>3
    <3> HIDE DEF j
    <3>2. f[u[j]] = u[j + 1] /\ g[u[j + 1]] = u[j] BY <3>1 DEF Chained
    <3>3. v[Len(s) + j] = u[j] /\ v[Len(s) + (j + 1)] = u[j + 1] BY <1>1, <3>1
    <3>4. QED BY <3>1, <3>2, <3>3
  <2>4. QED BY <1>1, <2>1, <2>2, <2>3
<1>3. Chained(f, g, v) BY <1>2 DEF Chained
<1>4. QED BY <1>3 DEF v

\* So do the two ends of a list that is cut.
LEMMA ChainedCut ==
  ASSUME NEW f, NEW g, NEW s \in Seq(Blocks), NEW n \in 1 .. Len(s), Chained(f, g, s)
  PROVE  /\ Chained(f, g, SubSeq(s, 1, n))
         /\ Chained(f, g, SubSeq(s, n + 1, Len(s)))
         /\ n < Len(s) => f[s[n]] = s[n + 1] /\ g[s[n + 1]] = s[n]
<1> DEFINE q == SubSeq(s, 1, n)
           v == SubSeq(s, n + 1, Len(s))
<1>1. /\ Len(s) \in Nat /\ n \in Nat \ {0} /\ n <= Len(s)
      /\ Len(q) = n /\ \A i \in 1 .. n : q[i] = s[i]
      /\ Len(v) = Len(s) - n /\ \A i \in 1 .. Len(s) - n : v[i] = s[n + i]
  BY SetOf, Prefix, Cut
<1> HIDE DEF q, v
<1>2. ASSUME NEW i \in 1 .. Len(q) - 1
      PROVE  f[q[i]] = q[i + 1] /\ g[q[i + 1]] = q[i]
  <2>1. i \in 1 .. n /\ i + 1 \in 1 .. n /\ i \in 1 .. Len(s) - 1 BY <1>1
  <2>2. QED BY <1>1, <2>1 DEF Chained
<1>3. ASSUME NEW i \in 1 .. Len(v) - 1
      PROVE  f[v[i]] = v[i + 1] /\ g[v[i + 1]] = v[i]
  <2>1. /\ i \in 1 .. Len(s) - n /\ i + 1 \in 1 .. Len(s) - n
        /\ n + i \in 1 .. Len(s) - 1 /\ n + (i + 1) = (n + i) + 1
    BY <1>1
  <2>2. f[s[n + i]] = s[(n + i) + 1] /\ g[s[(n + i) + 1]] = s[n + i] BY <2>1 DEF Chained
  <2>3. v[i] = s[n + i] /\ v[i + 1] = s[n + (i + 1)] BY <1>1, <2>1
  <2>4. QED BY <2>1, <2>2, <2>3
<1>4. n < Len(s) => n \in 1 .. Len(s) - 1 BY <1>1
<1>5. QED BY <1>2, <1>3, <1>4 DEF Chained, q, v

\* Links that change elsewhere, or at the ends only, still make the list.
LEMMA ChainedKept ==
  ASSUME NEW f, NEW g, NEW h, NEW k, NEW s \in Seq(Blocks), Chained(f, g, s),
         \A i \in 1 .. Len(s) - 1 : h[s[i]] = f[s[i]] /\ k[s[i + 1]] = g[s[i + 1]]
  PROVE  Chained(h, k, s)
BY DEF Chained

\* Links that change elsewhere leave a list and a chain as they are.
LEMMA StrungKept ==
  ASSUME NEW f, NEW g, NEW h, NEW k, NEW l, NEW s, Strung(f, g, l, s),
         \A b \in ToSet(s) : h[b] = f[b] /\ k[b] = g[b]
  PROVE  Strung(h, k, l, s)
<1>1. /\ s \in Seq(Blocks) /\ Len(s) \in Nat /\ \A i \in 1 .. Len(s) : s[i] \in ToSet(s)
      /\ s # <<>> => 1 \in 1 .. Len(s) /\ Len(s) \in 1 .. Len(s)
  BY SetOf DEF Strung
<1>2. \A i \in 1 .. Len(s) - 1 : i \in 1 .. Len(s) /\ i + 1 \in 1 .. Len(s) BY <1>1
<1>3. Chained(h, k, s) BY <1>1, <1>2, ChainedKept DEF Strung
<1>4. QED BY <1>1, <1>3 DEF Strung

\* The same for the chain of a thread.
LEMMA HoldsKept ==
  ASSUME NEW f, NEW g, NEW h, NEW k, NEW a, NEW z, NEW n, NEW s, Holds(f, g, a, z, n, s),
         \A b \in ToSet(s) : h[b] = f[b] /\ k[b] = g[b]
  PROVE  Holds(h, k, a, z, n, s)
<1>1. s \in Seq(Blocks) /\ Len(s) \in Nat /\ \A i \in 1 .. Len(s) : s[i] \in ToSet(s)
  BY SetOf DEF Holds
<1>2. \A i \in 1 .. Len(s) - 1 : i \in 1 .. Len(s) /\ i + 1 \in 1 .. Len(s) BY <1>1
<1>3. Chained(h, k, s) BY <1>1, <1>2, ChainedKept DEF Holds
<1>4. QED BY <1>3 DEF Holds

-----------------------------------------------------------------------------
(* The inductive invariant. *)

\* The two lists.
Kinds == {"free", "used"}

\* The chain of blocks that thread t holds between its two pointers.
Held(t) == Walk(first[t], last[t])

\* The links make the two lists, and the chains that threads hold.
Linked ==
    /\ \A k \in Kinds : Strung(fwd, back, list[k], Chain(k))
    /\ \A t \in Threads : Holds(fwd, back, first[t], last[t], cnt[t], Held(t))

\* A message of several blocks that is on its way to the used list, or was taken
\* from it, ends where its links end.
Loose ==
    /\ \A w \in Writers : first[w] # Nil /\ NumBlocks(msg[w]) > 1 =>
            fwd[last[w]] = Nil /\ back[first[w]] = Nil
    /\ \A r \in Readers : pc[r] = "copy" => fwd[last[r]] = Nil

\* A thread inside a section has the mutex, and the head or the tail of the
\* list is still what it has read.
Inside(t, k, end) == mutex[k] = t /\ cur[t] = list[k][end]

\* The threads that are between Enter() and Unlock().
Sections ==
    \A t \in Threads :
        /\ pc[t] = "getblock" => Inside(t, "free", "head")
        /\ pc[t] \in {"putback", "free"} => Inside(t, "free", "tail")
        /\ pc[t] = "append" => Inside(t, "used", "tail")
        /\ pc[t] = "take" => Inside(t, "used", "head")

\* Each thread is in its own operation, and no two clients fill one block.
Stages ==
    /\ \A w \in Writers :
          /\ pc[w] \in {"idle", "wsem", "wlock", "getblock", "fill", "rlock", "append", "post",
                        "giveback", "putback"}
          /\ pc[w] = "fill" => cur[w] \in Blocks
    /\ \A r \in Readers :
          pc[r] \in {"idle", "rsem", "rlock", "take", "copy", "flock", "free", "release"}
    /\ \A w, v \in Writers : pc[w] = "fill" /\ pc[v] = "fill" /\ cur[w] = cur[v] => w = v

\* The pointers and the links are block numbers or null.
Pointers ==
    /\ list \in [Kinds -> [head : BlockOrNil, tail : BlockOrNil, count : Int]]
    /\ fwd \in [Blocks -> BlockOrNil] /\ back \in [Blocks -> BlockOrNil]
    /\ block \in [Blocks -> Q!Contents]
    /\ mutex \in [Kinds -> Threads \cup {Nil}]
    /\ pc \in [Threads -> Labels]
    /\ cur \in [Threads -> BlockOrNil] /\ cnt \in [Threads -> Nat]
    /\ first \in [Threads -> BlockOrNil] /\ last \in [Threads -> BlockOrNil]

\* The inductive invariant of the links.
Wired == Pointers /\ Linked /\ Loose /\ Sections /\ Stages

\* The lists that the links make are those of XQueue, and correct as proved there.
Above == Q!Safe /\ Q!Ordered

\* Whatever list the heads and the links make is what the walks find.
LEMMA StrungIs ==
  \A k \in Kinds, s \in Seq(Blocks) : Strung(fwd, back, list[k], s) => Chain(k) = s
<1> SUFFICES ASSUME NEW k \in Kinds, NEW s \in Seq(Blocks), Strung(fwd, back, list[k], s)
             PROVE  Chain(k) = s
  OBVIOUS
<1>1. CASE s = <<>>
  <2>1. list[k].head = Nil BY <1>1 DEF Strung
  <2>2. QED BY <1>1, <2>1 DEF Chain, Walk
<1>2. CASE s # <<>>
  <2>1. /\ Len(s) \in Nat /\ 1 \in 1 .. Len(s) /\ Len(s) \in 1 .. Len(s)
        /\ \A i \in 1 .. Len(s) : s[i] \in Blocks
    BY <1>2, SetOf
  <2>2. Len(s) \in 0 .. QueueSize BY ListLength DEF Strung
  <2>3. Len(s) \in 1 .. QueueSize /\ s[1] \in Blocks BY <2>1, <2>2
  <2>4. \A i \in 1 .. Len(s) - 1 : s[i] # Nil /\ fwd[s[i]] = s[i + 1]
    BY <2>1, NilAssumption DEF Strung, Chained
  <2>5. fwd[s[Len(s)]] = Nil /\ list[k].head = s[1] BY <1>2 DEF Strung
  <2>6. Leads(fwd, s, s[1], Nil) BY <2>3, <2>4, <2>5 DEF Leads
  <2>7. Nil \in BlockOrNil BY DEF BlockOrNil
  <2>8. Walk(s[1], Nil) = s BY <2>3, <2>6, <2>7, WalkIs
  <2>9. QED BY <2>5, <2>8 DEF Chain
<1>3. QED BY <1>1, <1>2

\* So they do after a step.
LEMMA StrungNext ==
  (\A k \in Kinds, s \in Seq(Blocks) : Strung(fwd, back, list[k], s) => Chain(k) = s)'
BY StrungIs, PTL

\* Whatever chain the pointers of a thread and the links make is what the walk finds.
LEMMA HoldsIs ==
  \A t \in Threads, s \in Seq(Blocks) :
     Holds(fwd, back, first[t], last[t], cnt[t], s) => Held(t) = s
<1> SUFFICES ASSUME NEW t \in Threads, NEW s \in Seq(Blocks),
                    Holds(fwd, back, first[t], last[t], cnt[t], s)
             PROVE  Held(t) = s
  OBVIOUS
<1>1. CASE s = <<>>
  <2>1. first[t] = Nil BY <1>1 DEF Holds
  <2>2. QED BY <1>1, <2>1 DEF Held, Walk
<1>2. CASE s # <<>>
  <2>1. /\ Len(s) \in Nat /\ 1 \in 1 .. Len(s) /\ Len(s) \in 1 .. Len(s)
        /\ \A i \in 1 .. Len(s) : s[i] \in Blocks
    BY <1>2, SetOf
  <2>2. Len(s) \in 0 .. QueueSize BY ListLength DEF Holds
  <2>3. Len(s) \in 1 .. QueueSize /\ s[1] \in Blocks BY <2>1, <2>2
  <2>4. first[t] = s[1] /\ last[t] = s[Len(s)] BY <1>2 DEF Holds
  <2>5. ASSUME NEW i \in 1 .. Len(s) - 1
        PROVE  s[i] # s[Len(s)] /\ fwd[s[i]] = s[i + 1]
    <3>1. i \in 1 .. Len(s) /\ i # Len(s) BY <2>1
    <3>2. s[i] # s[Len(s)] BY <2>1, <3>1 DEF Holds, Distinct
    <3>3. QED BY <3>2 DEF Holds, Chained
  <2>6. Leads(fwd, s, s[1], s[Len(s)]) BY <2>3, <2>5 DEF Leads
  <2>7. s[Len(s)] \in BlockOrNil BY <2>1 DEF BlockOrNil
  <2>8. Walk(s[1], s[Len(s)]) = s BY <2>3, <2>6, <2>7, WalkIs
  <2>9. QED BY <2>4, <2>8 DEF Held
<1>3. QED BY <1>1, <1>2

\* So it is after a step.
LEMMA HoldsNext ==
  (\A t \in Threads, s \in Seq(Blocks) :
     Holds(fwd, back, first[t], last[t], cnt[t], s) => Held(t) = s)'
BY HoldsIs, PTL

-----------------------------------------------------------------------------
(* What the proofs about XQueue say of the links. *)

\* The messages and the blocks are the same below and above.
LEMMA SameData ==
  /\ Q!Blocks = Blocks /\ Q!Threads = Threads /\ Q!Message = Message /\ Q!Blank = Blank
  /\ \A m : Q!NumBlocks(m) = NumBlocks(m)
  /\ \A m, i : Q!Filled(m, i) = Filled(m, i)
  /\ \A n : Q!Refused(n) <=> Refused(n)
  /\ \A c, n : Q!Released(c, n) = Released(c, n)
  /\ \A s : Q!ToSet(s) = ToSet(s) /\ (Q!Distinct(s) <=> Distinct(s))
BY DEF Q!Blocks, Blocks, Q!Threads, Threads, Q!Message, Message, Q!Blank, Blank,
       Q!NumBlocks, NumBlocks, Q!CalculateNoBlocks, CalculateNoBlocks, Q!Filled, Filled,
       Q!Refused, Refused, Q!Released, Released, Q!ToSet, ToSet, Q!Distinct, Distinct

\* What a thread holds above is what it holds below, with the block it fills.
LEMMA AboveChain ==
  ASSUME NEW t \in Threads
  PROVE  /\ Chains[t] = AbsChain(t) /\ Places[t] = AbsPc(t)
         /\ pc[t] # "fill" => AbsChain(t) = Held(t) \o <<>>
         /\ pc[t] = "fill" => AbsChain(t) = Held(t) \o <<cur[t]>>
BY DEF Chains, Places, AbsChain, Held

\* So much for one thread: what it holds is a list.
LEMMA HeldType ==
  ASSUME Wired, NEW t \in Threads
  PROVE  /\ Held(t) \in Seq(Blocks) /\ Distinct(Held(t)) /\ Len(Held(t)) = cnt[t]
         /\ pc[t] # "fill" => AbsChain(t) = Held(t)
         /\ pc[t] = "fill" => /\ t \in Writers /\ cur[t] \in Blocks
                              /\ AbsChain(t) = Held(t) \o <<cur[t]>>
         /\ Held(t) = <<>> <=> cnt[t] = 0
         /\ Held(t) = <<>> <=> first[t] = Nil
         /\ Held(t) = <<>> <=> last[t] = Nil
<1>1. /\ Held(t) \in Seq(Blocks) /\ Distinct(Held(t)) /\ Len(Held(t)) = cnt[t]
      /\ Holds(fwd, back, first[t], last[t], cnt[t], Held(t))
  BY DEF Wired, Linked, Holds
<1>2. pc[t] # "fill" => AbsChain(t) = Held(t)
  BY <1>1, AboveChain, ConcatEmptySeq
<1>3. pc[t] = "fill" => t \in Writers /\ cur[t] \in Blocks
  BY DEF Wired, Stages, Threads
<1>4. Held(t) = <<>> <=> cnt[t] = 0 BY <1>1, SetOf
<1>5. Held(t) # <<>> => first[t] \in Blocks /\ last[t] \in Blocks
  BY <1>1, SetOf DEF Holds
<1>6. Nil \notin Blocks BY NilAssumption
<1>7. /\ Held(t) = <<>> <=> first[t] = Nil
      /\ Held(t) = <<>> <=> last[t] = Nil
  BY <1>1, <1>5, <1>6 DEF Holds
<1>8. QED BY <1>1, <1>2, <1>3, <1>4, <1>7, AboveChain

\* The two lists and the chains have no block in common.
LEMMA Separate ==
  ASSUME Wired, Above
  PROVE  /\ \A k \in Kinds : /\ Chain(k) \in Seq(Blocks) /\ Distinct(Chain(k))
                             /\ list[k].count = Len(Chain(k))
                             /\ list[k].count = 0 <=> Chain(k) = <<>>
                             /\ Strung(fwd, back, list[k], Chain(k))
         /\ ToSet(Free) \cap ToSet(Used) = {}
         /\ \A t \in Threads, k \in Kinds :
               /\ ToSet(Held(t)) \cap ToSet(Chain(k)) = {}
               /\ pc[t] = "fill" => cur[t] \notin ToSet(Chain(k))
         /\ \A t \in Threads, u \in Threads :
               /\ t # u => ToSet(Held(t)) \cap ToSet(Held(u)) = {}
               /\ pc[t] = "fill" => cur[t] \notin ToSet(Held(u))
<1>1. /\ Q!Typed /\ Q!Ownership /\ Q!Conservation
      /\ Q!Blocks = Blocks /\ Q!Threads = Threads
      /\ \A s : Q!ToSet(s) = ToSet(s) /\ (Q!Distinct(s) <=> Distinct(s))
  BY SameData DEF Above, Q!Safe
<1>2. ASSUME NEW k \in Kinds
      PROVE  /\ Chain(k) \in Seq(Blocks) /\ Distinct(Chain(k))
             /\ list[k].count = Len(Chain(k))
             /\ list[k].count = 0 <=> Chain(k) = <<>>
             /\ Strung(fwd, back, list[k], Chain(k))
  <2>1. Strung(fwd, back, list[k], Chain(k)) BY DEF Wired, Linked
  <2>2. Chain(k) \in Seq(Blocks) /\ Distinct(Chain(k)) BY <2>1 DEF Strung
  <2>3. list[k].count = Len(Chain(k)) BY <1>1 DEF Q!Conservation, Free, Used, Kinds
  <2>4. QED BY <2>1, <2>2, <2>3, SetOf
<1>3. ToSet(Free) \cap ToSet(Used) = {} BY <1>1 DEF Q!Ownership, Q!Apart
<1>4. \A t \in Threads, k \in Kinds : ToSet(AbsChain(t)) \cap ToSet(Chain(k)) = {}
  BY <1>1, AboveChain DEF Q!Ownership, Q!Apart, Free, Used, Kinds
<1>5. \A t \in Threads, u \in Threads :
         t # u => ToSet(AbsChain(t)) \cap ToSet(AbsChain(u)) = {}
  BY <1>1, AboveChain DEF Q!Ownership, Q!Apart
<1>6. ASSUME NEW t \in Threads
      PROVE  /\ ToSet(Held(t)) \in SUBSET ToSet(AbsChain(t))
             /\ pc[t] = "fill" => cur[t] \in ToSet(AbsChain(t)) /\ cur[t] \notin ToSet(Held(t))
  <2>1. CASE pc[t] # "fill" BY <2>1, HeldType
  <2>2. CASE pc[t] = "fill"
    <3> DEFINE s == Held(t)
               v == s \o <<cur[t]>>
    <3>1. s \in Seq(Blocks) /\ cur[t] \in Blocks /\ AbsChain(t) = v BY <2>2, HeldType
    <3>2. <<cur[t]>> \in Seq(Blocks) /\ ToSet(<<cur[t]>>) = {cur[t]} BY <3>1, OneBlock
    <3>3. ToSet(v) = ToSet(s) \cup {cur[t]}
      <4> DEFINE c == <<cur[t]>>
      <4> HIDE DEF s, c
      <4>1. s \in Seq(Blocks) /\ c \in Seq(Blocks) BY <3>1, <3>2 DEF s, c
      <4>2. ToSet(s \o c) = ToSet(s) \cup ToSet(c) BY <4>1, Joined
      <4>3. QED BY <3>2, <4>2 DEF c
    <3>4. Distinct(v) BY <1>1, <3>1, AboveChain DEF Q!Ownership
    <3>5. cur[t] \notin ToSet(s)
      <4> SUFFICES ASSUME cur[t] \in ToSet(s) PROVE FALSE OBVIOUS
      <4>1. PICK i \in 1 .. Len(s) : s[i] = cur[t] BY <3>1, SetOf
      <4>2. /\ Len(<<cur[t]>>) = 1 /\ <<cur[t]>>[1] = cur[t] /\ Len(s) \in Nat
            /\ Len(v) = Len(s) + 1 /\ 1 \in 1 .. Len(<<cur[t]>>)
        BY <3>1, <3>2, OneBlock, Joined, SetOf
      <4>3. v[i] = cur[t] /\ v[Len(s) + 1] = cur[t] BY <3>1, <3>2, <4>1, <4>2, Joined
      <4>4. i \in 1 .. Len(v) /\ Len(s) + 1 \in 1 .. Len(v) /\ i # Len(s) + 1 BY <4>2
      <4> HIDE DEF v
      <4>5. QED BY <3>4, <4>3, <4>4 DEF Distinct
    <3>6. QED BY <3>1, <3>3, <3>5
  <2>3. QED BY <2>1, <2>2
<1>7. QED BY <1>2, <1>3, <1>4, <1>5, <1>6

\* Where a thread is above.
LEMMA AbovePlace ==
  ASSUME Wired, NEW t \in Threads
  PROVE  /\ pc[t] \in {"wlock", "getblock"} => AbsPc(t) = "alloc"
         /\ pc[t] = "fill" => AbsPc(t) = IF cnt[t] + 1 < NumBlocks(msg[t]) THEN "wsem" ELSE "append"
         /\ pc[t] = "rlock" => AbsPc(t) = IF t \in Writers THEN "append" ELSE "take"
         /\ pc[t] = "putback" => AbsPc(t) = "giveback"
         /\ pc[t] = "flock" => AbsPc(t) = "free"
         /\ pc[t] \in {"idle", "wsem", "append", "post", "giveback", "rsem", "take", "copy",
                       "free", "release"} => AbsPc(t) = pc[t]
BY DEF AbsPc

\* What a thread holds where, as XQueue has it.
LEMMA HeldWhere ==
  ASSUME Wired, Above
  PROVE  /\ \A w \in Writers :
              /\ pc[w] # "idle" => msg[w] \in Message /\ NumBlocks(msg[w]) \in Nat \ {0}
              /\ pc[w] \in {"idle", "post"} => Held(w) = <<>>
              /\ pc[w] \in {"wsem", "wlock", "getblock", "fill"} => cnt[w] < NumBlocks(msg[w])
              /\ pc[w] \in {"rlock", "append"} => cnt[w] = NumBlocks(msg[w])
              /\ pc[w] \in {"giveback", "putback"} => Held(w) # <<>>
         /\ \A r \in Readers : pc[r] \in {"copy", "flock", "free"} <=> Held(r) # <<>>
<1>1. /\ Q!WriterState /\ Q!ReaderState
      /\ Q!Message = Message /\ \A m : Q!NumBlocks(m) = NumBlocks(m)
  BY SameData DEF Above, Q!Safe, Q!Typed
<1>2. ASSUME NEW w \in Writers
      PROVE  /\ pc[w] # "idle" => msg[w] \in Message /\ NumBlocks(msg[w]) \in Nat \ {0}
             /\ pc[w] \in {"idle", "post"} => Held(w) = <<>>
             /\ pc[w] \in {"wsem", "wlock", "getblock", "fill"} => cnt[w] < NumBlocks(msg[w])
             /\ pc[w] \in {"rlock", "append"} => cnt[w] = NumBlocks(msg[w])
             /\ pc[w] \in {"giveback", "putback"} => Held(w) # <<>>
  <2>1. /\ w \in Threads /\ Chains[w] = AbsChain(w) /\ Places[w] = AbsPc(w)
        /\ pc[w] \in {"idle", "wsem", "wlock", "getblock", "fill", "rlock", "append", "post",
                      "giveback", "putback"}
    BY AboveChain DEF Threads, Wired, Stages
  <2>2. /\ Places[w] # "idle" => msg[w] \in Message
        /\ Places[w] \in {"idle", "post"} => AbsChain(w) = <<>>
        /\ Places[w] \in {"wsem", "alloc"} => Len(AbsChain(w)) < NumBlocks(msg[w])
        /\ Places[w] = "append" => Len(AbsChain(w)) = NumBlocks(msg[w])
        /\ Places[w] = "giveback" => AbsChain(w) # <<>>
    BY <1>1, <2>1 DEF Q!WriterState
  <2>3. /\ Held(w) \in Seq(Blocks) /\ Len(Held(w)) = cnt[w] /\ cnt[w] \in Nat
        /\ pc[w] # "fill" => AbsChain(w) = Held(w)
    BY <2>1, HeldType, SetOf
  <2>4. pc[w] = "fill" => Len(AbsChain(w)) = cnt[w] + 1
    <3> SUFFICES ASSUME pc[w] = "fill" PROVE Len(AbsChain(w)) = cnt[w] + 1 OBVIOUS
    <3>1. AbsChain(w) = Held(w) \o <<cur[w]>> /\ cur[w] \in Blocks BY <2>1, HeldType
    <3>2. <<cur[w]>> \in Seq(Blocks) /\ Len(<<cur[w]>>) = 1 BY <3>1, OneBlock
    <3>3. QED BY <2>3, <3>1, <3>2, Joined
  <2>5. pc[w] # "idle" => Places[w] # "idle" BY <2>1, AbovePlace
  <2>6. pc[w] # "idle" => msg[w] \in Message /\ NumBlocks(msg[w]) \in Nat \ {0}
    <3>1. \A m \in Q!Message : Q!NumBlocks(m) \in Nat \ {0}
      BY Q!NumBlocksType, QueueAssumption, NoMsgAssumption DEF Message, Q!Message
    <3>2. QED BY <1>1, <2>2, <2>5, <3>1
  <2>7. CASE pc[w] = "fill"
    <3>1. Places[w] = IF cnt[w] + 1 < NumBlocks(msg[w]) THEN "wsem" ELSE "append"
      BY <2>1, <2>7, AbovePlace
    <3>2. cnt[w] + 1 < NumBlocks(msg[w]) \/ cnt[w] + 1 = NumBlocks(msg[w])
      BY <2>2, <2>4, <2>7, <3>1
    <3>3. cnt[w] < NumBlocks(msg[w]) BY <2>3, <2>6, <2>7, <3>2
    <3>4. QED BY <2>6, <2>7, <3>3
  <2>8. CASE pc[w] # "fill"
    <3>1. /\ pc[w] \in {"wlock", "getblock"} => Places[w] = "alloc"
          /\ pc[w] = "rlock" => Places[w] = "append"
          /\ pc[w] = "putback" => Places[w] = "giveback"
          /\ pc[w] \in {"idle", "wsem", "append", "post", "giveback"} => Places[w] = pc[w]
      BY <2>1, AbovePlace
    <3>2. QED BY <2>1, <2>2, <2>3, <2>6, <2>8, <3>1
  <2>9. QED BY <2>7, <2>8
<1>3. ASSUME NEW r \in Readers
      PROVE  pc[r] \in {"copy", "flock", "free"} <=> Held(r) # <<>>
  <2>1. /\ r \in Threads /\ Chains[r] = AbsChain(r) /\ Places[r] = AbsPc(r)
        /\ r \notin Writers
        /\ pc[r] \in {"idle", "rsem", "rlock", "take", "copy", "flock", "free", "release"}
    BY AboveChain, QueueAssumption DEF Threads, Wired, Stages
  <2>2. /\ Places[r] \in {"copy", "free"} => AbsChain(r) # <<>>
        /\ Places[r] \notin {"copy", "free"} => AbsChain(r) = <<>>
    BY <1>1, <2>1 DEF Q!ReaderState
  <2>3. AbsChain(r) = Held(r) BY <2>1, HeldType
  <2>4. /\ pc[r] = "rlock" => Places[r] = "take"
        /\ pc[r] = "flock" => Places[r] = "free"
        /\ pc[r] \in {"idle", "rsem", "take", "copy", "free", "release"} => Places[r] = pc[r]
    BY <2>1, AbovePlace
  <2>5. QED BY <2>1, <2>2, <2>3, <2>4
<1>4. QED BY <1>2, <1>3

\* Forget() clears the pointers of a thread that holds nothing: they are null already.
LEMMA Forgotten ==
  ASSUME Wired, NEW t \in Threads, Held(t) = <<>>, Forget(t)
  PROVE  UNCHANGED <<first, last, cnt>> /\ cur' = [cur EXCEPT ![t] = Nil]
<1>1. first[t] = Nil /\ last[t] = Nil /\ cnt[t] = 0 BY HeldType
<1>2. /\ first \in [Threads -> BlockOrNil] /\ last \in [Threads -> BlockOrNil]
      /\ cnt \in [Threads -> Nat]
  BY DEF Wired, Pointers
<1>3. QED BY <1>1, <1>2 DEF Forget

\* A block looks filled from the moment its client has it.
LEMMA DataIs ==
  Stages => /\ \A w \in Writers, b \in Blocks : pc[w] = "fill" /\ cur[w] = b =>
                  AbsBlock(b) = Filled(msg[w], cnt[w] + 1)
            /\ \A b \in Blocks : (\A w \in Writers : ~ (pc[w] = "fill" /\ cur[w] = b)) =>
                  AbsBlock(b) = block[b]
<1> SUFFICES ASSUME Stages
             PROVE  /\ \A w \in Writers, b \in Blocks : Popped(w, b) =>
                          AbsBlock(b) = Filled(msg[w], cnt[w] + 1)
                    /\ \A b \in Blocks : (\A w \in Writers : ~ Popped(w, b)) =>
                          AbsBlock(b) = block[b]
  BY DEF Popped
<1>1. ASSUME NEW w \in Writers, NEW b \in Blocks, Popped(w, b)
      PROVE  AbsBlock(b) = Filled(msg[w], cnt[w] + 1)
  <2> DEFINE v == CHOOSE v \in Writers : Popped(v, b)
  <2>1. v \in Writers /\ Popped(v, b) BY <1>1
  <2>2. AbsBlock(b) = Filled(msg[v], cnt[v] + 1) BY <1>1 DEF AbsBlock
  <2> HIDE DEF v
  <2>3. v = w BY <1>1, <2>1 DEF Stages, Popped
  <2>4. QED BY <2>2, <2>3
<1>2. ASSUME NEW b \in Blocks, \A w \in Writers : ~ Popped(w, b)
      PROVE  AbsBlock(b) = block[b]
  BY <1>2 DEF AbsBlock
<1>3. QED BY <1>1, <1>2

\* So it does after a step.
LEMMA DataNext ==
  (Stages => /\ \A w \in Writers, b \in Blocks : pc[w] = "fill" /\ cur[w] = b =>
                   AbsBlock(b) = Filled(msg[w], cnt[w] + 1)
             /\ \A b \in Blocks : (\A w \in Writers : ~ (pc[w] = "fill" /\ cur[w] = b)) =>
                   AbsBlock(b) = block[b])'
BY DataIs, PTL

\* As long as nobody takes a block to fill it or has filled it, it looks the same.
LEMMA DataSame ==
  ASSUME Stages, Stages', NEW b \in Blocks, block'[b] = block[b],
         \A w \in Writers :
            /\ pc'[w] = "fill" /\ cur'[w] = b <=> pc[w] = "fill" /\ cur[w] = b
            /\ pc[w] = "fill" /\ cur[w] = b => msg'[w] = msg[w] /\ cnt'[w] = cnt[w]
  PROVE  AbsBlock(b)' = AbsBlock(b)
<1>1. CASE \E w \in Writers : pc[w] = "fill" /\ cur[w] = b
  <2>1. PICK w \in Writers : pc[w] = "fill" /\ cur[w] = b BY <1>1
  <2>2. pc'[w] = "fill" /\ cur'[w] = b /\ msg'[w] = msg[w] /\ cnt'[w] = cnt[w] BY <2>1
  <2>3. AbsBlock(b) = Filled(msg[w], cnt[w] + 1) BY <2>1, DataIs
  <2>4. AbsBlock(b)' = Filled(msg'[w], cnt'[w] + 1) BY <2>2, DataNext
  <2>5. QED BY <2>2, <2>3, <2>4
<1>2. CASE \A w \in Writers : ~ (pc[w] = "fill" /\ cur[w] = b)
  <2>1. \A w \in Writers : ~ (pc'[w] = "fill" /\ cur'[w] = b) BY <1>2
  <2>2. AbsBlock(b) = block[b] BY <1>2, DataIs
  <2>3. AbsBlock(b)' = block'[b] BY <2>1, DataNext
  <2>4. QED BY <2>2, <2>3
<1>3. QED BY <1>1, <1>2

\* Blocks that a step does not write look the same when clients that fill stay as they are.
LEMMA DataKept ==
  ASSUME Stages, Stages',
         \A w \in Writers :
            \/ pc[w] # "fill" /\ pc'[w] # "fill"
            \/ pc'[w] = pc[w] /\ cur'[w] = cur[w] /\ msg'[w] = msg[w] /\ cnt'[w] = cnt[w]
  PROVE  \A b \in Blocks : block'[b] = block[b] => AbsBlock(b)' = AbsBlock(b)
BY DataSame

\* Where a thread is above depends on where it is below, and on its own locals.
LEMMA PlaceKept ==
  ASSUME NEW u \in Threads, pc'[u] = pc[u], pc[u] = "fill" => u \in Writers,
         u \in Writers => msg'[u] = msg[u], cnt'[u] = cnt[u]
  PROVE  Places'[u] = Places[u]
<1>1. AbsPc(u)' = AbsPc(u) BY DEF AbsPc
<1>2. QED BY <1>1 DEF Places

\* The same memory holds the same lists and chains.
LEMMA SameMemory ==
  ASSUME Linked, UNCHANGED <<list, fwd, back, first, last, cnt>>
  PROVE  /\ Linked'
         /\ \A k \in Kinds : Chain(k)' = Chain(k)
         /\ \A t \in Threads : Held(t)' = Held(t)
<1>1. ASSUME NEW k \in Kinds PROVE Chain(k)' = Chain(k) /\ Strung(fwd, back, list[k], Chain(k))'
  <2>1. Strung(fwd, back, list[k], Chain(k)) /\ Chain(k) \in Seq(Blocks)
    BY DEF Linked, Strung
  <2>2. Strung(fwd', back', list'[k], Chain(k)) BY <2>1
  <2>3. Chain(k)' = Chain(k) BY <2>1, <2>2, StrungNext
  <2>4. QED BY <2>2, <2>3
<1>2. ASSUME NEW t \in Threads
      PROVE  Held(t)' = Held(t) /\ Holds(fwd, back, first[t], last[t], cnt[t], Held(t))'
  <2>1. /\ Holds(fwd, back, first[t], last[t], cnt[t], Held(t))
        /\ Held(t) \in Seq(Blocks)
    BY DEF Linked, Holds
  <2>2. Holds(fwd', back', first'[t], last'[t], cnt'[t], Held(t)) BY <2>1
  <2>3. Held(t)' = Held(t) BY <2>1, <2>2, HoldsNext
  <2>4. QED BY <2>2, <2>3
<1>3. QED BY <1>1, <1>2 DEF Linked

\* So does what it holds above.
LEMMA ChainKept ==
  ASSUME NEW u \in Threads, Held(u)' = Held(u),
         \/ pc[u] # "fill" /\ pc'[u] # "fill"
         \/ pc'[u] = pc[u] /\ cur'[u] = cur[u]
  PROVE  Chains'[u] = Chains[u]
<1>1. Chains[u] = Held(u) \o IF pc[u] = "fill" THEN <<cur[u]>> ELSE <<>>
  BY DEF Chains, AbsChain, Held
<1>2. Chains'[u] = Held(u)' \o IF pc'[u] = "fill" THEN <<cur'[u]>> ELSE <<>>
  BY DEF Chains, AbsChain, Held
<1>3. QED BY <1>1, <1>2

\* A step of thread t that leaves the memory and t's pointers alone.  It may take
\* or free a mutex, but not another thread's.
Calm(t) ==
    /\ UNCHANGED <<list, fwd, back, block, first, last, cnt>>
    /\ \A u \in Threads \ {t} : pc'[u] = pc[u] /\ cur'[u] = cur[u]
    /\ \A w \in Writers \ {t} : msg'[w] = msg[w]
    /\ pc[t] # "fill" /\ pc'[t] \notin {"fill", "copy"}
    /\ t \in Writers => first[t] = Nil \/ msg'[t] = msg[t]
    /\ \A k \in Kinds, u \in Threads \ {t} : mutex[k] = u => mutex'[k] = u

\* Where t is then, it may be.
Arrives(t) ==
    /\ Pointers'
    /\ pc'[t] = "getblock" => mutex'["free"] = t /\ cur'[t] = list["free"].head
    /\ pc'[t] \in {"putback", "free"} => mutex'["free"] = t /\ cur'[t] = list["free"].tail
    /\ pc'[t] = "append" => mutex'["used"] = t /\ cur'[t] = list["used"].tail
    /\ pc'[t] = "take" => mutex'["used"] = t /\ cur'[t] = list["used"].head
    /\ t \in Writers => pc'[t] \in {"idle", "wsem", "wlock", "getblock", "rlock", "append", "post",
                                    "giveback", "putback"}
    /\ t \in Readers => pc'[t] \in {"idle", "rsem", "rlock", "take", "flock", "free", "release"}

\* Such a step keeps the invariant and, but for t's place, all that is seen above.
LEMMA CalmStep ==
  ASSUME Wired, NEW t \in Threads, Calm(t), Arrives(t)
  PROVE  /\ Wired'
         /\ Free' = Free /\ Used' = Used /\ Data' = Data /\ Chains' = Chains
         /\ Places' = [Places EXCEPT ![t] = AbsPc(t)']
<1>1. /\ Linked'
      /\ \A k \in Kinds : Chain(k)' = Chain(k)
      /\ \A u \in Threads : Held(u)' = Held(u)
  BY SameMemory DEF Wired, Calm
<1>2. Loose'
  <2>1. ASSUME NEW w \in Writers, first'[w] # Nil, NumBlocks(msg'[w]) > 1
        PROVE  fwd'[last'[w]] = Nil /\ back'[first'[w]] = Nil
    <3>1. first[w] # Nil /\ msg'[w] = msg[w] BY <2>1 DEF Calm
    <3>2. fwd[last[w]] = Nil /\ back[first[w]] = Nil BY <2>1, <3>1 DEF Wired, Loose
    <3>3. QED BY <3>2 DEF Calm
  <2>2. ASSUME NEW r \in Readers, pc'[r] = "copy" PROVE fwd'[last'[r]] = Nil
    <3>1. r \in Threads \ {t} BY <2>2 DEF Calm, Threads
    <3>2. pc[r] = "copy" BY <2>2, <3>1 DEF Calm
    <3>3. QED BY <3>2 DEF Wired, Loose, Calm
  <2>3. QED BY <2>1, <2>2 DEF Loose
<1>3. Sections'
  <2>1. ASSUME NEW u \in Threads
        PROVE  /\ pc'[u] = "getblock" => Inside(u, "free", "head")'
               /\ pc'[u] \in {"putback", "free"} => Inside(u, "free", "tail")'
               /\ pc'[u] = "append" => Inside(u, "used", "tail")'
               /\ pc'[u] = "take" => Inside(u, "used", "head")'
    <3>1. CASE u = t BY <3>1 DEF Arrives, Calm, Inside
    <3>2. CASE u # t
      <4>1. pc'[u] = pc[u] /\ cur'[u] = cur[u] /\ list' = list
        BY <3>2 DEF Calm
      <4>2. /\ mutex["free"] = u => mutex'["free"] = u
            /\ mutex["used"] = u => mutex'["used"] = u
        BY <3>2 DEF Calm, Kinds
      <4>3. QED BY <4>1, <4>2 DEF Wired, Sections, Inside
    <3>3. QED BY <3>1, <3>2
  <2>2. QED BY <2>1 DEF Sections
<1>4. Stages'
  <2>1. ASSUME NEW w \in Writers
        PROVE  /\ pc'[w] \in {"idle", "wsem", "wlock", "getblock", "fill", "rlock", "append",
                              "post", "giveback", "putback"}
               /\ pc'[w] = "fill" => pc[w] = "fill" /\ cur'[w] = cur[w] /\ cur[w] \in Blocks
    <3>1. CASE w = t BY <3>1 DEF Calm, Arrives
    <3>2. CASE w # t
      <4>1. pc'[w] = pc[w] /\ cur'[w] = cur[w] BY <3>2 DEF Calm, Threads
      <4>2. QED BY <4>1 DEF Wired, Stages
    <3>3. QED BY <3>1, <3>2
  <2>2. ASSUME NEW r \in Readers
        PROVE  pc'[r] \in {"idle", "rsem", "rlock", "take", "copy", "flock", "free", "release"}
    <3>1. CASE r = t BY <3>1 DEF Arrives
    <3>2. CASE r # t
      <4>1. pc'[r] = pc[r] BY <3>2 DEF Calm, Threads
      <4>2. QED BY <4>1 DEF Wired, Stages
    <3>3. QED BY <3>1, <3>2
  <2>3. ASSUME NEW w \in Writers, NEW v \in Writers,
               pc'[w] = "fill", pc'[v] = "fill", cur'[w] = cur'[v]
        PROVE  w = v
    BY <2>1, <2>3 DEF Wired, Stages
  <2>4. QED BY <2>1, <2>2, <2>3 DEF Stages
<1>5. Wired' BY <1>1, <1>2, <1>3, <1>4 DEF Wired, Arrives
<1>6. Free' = Free /\ Used' = Used BY <1>1 DEF Free, Used, Kinds
<1>7. Data' = Data
  <2>1. \A w \in Writers :
          \/ pc[w] # "fill" /\ pc'[w] # "fill"
          \/ pc'[w] = pc[w] /\ cur'[w] = cur[w] /\ msg'[w] = msg[w] /\ cnt'[w] = cnt[w]
    BY DEF Calm, Threads
  <2>2. block' = block BY DEF Calm
  <2>3. \A b \in Blocks : AbsBlock(b)' = AbsBlock(b) BY <1>4, <2>1, <2>2, DataKept DEF Wired
  <2>4. QED BY <2>3 DEF Data
<1>8. Chains' = Chains
  <2>1. \A u \in Threads : Chains'[u] = Chains[u]
    <3> TAKE u \in Threads
    <3>1. \/ pc[u] # "fill" /\ pc'[u] # "fill"
          \/ pc'[u] = pc[u] /\ cur'[u] = cur[u]
      BY DEF Calm
    <3>2. QED BY <1>1, <3>1, ChainKept
  <2>2. Chains = [u \in Threads |-> Chains[u]] /\ Chains' = [u \in Threads |-> Chains'[u]]
    BY DEF Chains
  <2>3. QED BY <2>1, <2>2
<1>9. Places' = [Places EXCEPT ![t] = AbsPc(t)']
  <2>1. ASSUME NEW u \in Threads, u # t PROVE Places'[u] = Places[u]
    <3>1. pc'[u] = pc[u] /\ (u \in Writers => msg'[u] = msg[u]) /\ cnt'[u] = cnt[u]
      BY <2>1 DEF Calm
    <3>2. pc[u] = "fill" => u \in Writers BY HeldType
    <3>3. QED BY <3>1, <3>2, PlaceKept
  <2>2. Places'[t] = AbsPc(t)' BY DEF Places
  <2>3. Places = [u \in Threads |-> Places[u]] /\ Places' = [u \in Threads |-> Places'[u]]
    BY DEF Places
  <2>4. QED BY <2>1, <2>2, <2>3
<1>10. QED BY <1>5, <1>6, <1>7, <1>8, <1>9

-----------------------------------------------------------------------------
(* The steps that leave the links alone. *)

\* A step keeps the invariant, and is a step of XQueue or none.
Follows == Wired' /\ [Q!Next]_(Q!vars)

\* The functions that are seen above have the threads for their domain.
LEMMA AboveTypes ==
  ASSUME Wired, Above
  PROVE  /\ Places = [t \in Threads |-> Places[t]] /\ Chains = [t \in Threads |-> Chains[t]]
         /\ msg \in [Writers -> Message \cup {NoMsg}] /\ owed \in [Readers -> Nat]
         /\ got \in [Readers -> Q!Seq(Q!Part)]
         /\ Q!Threads = Threads /\ Q!Blocks = Blocks
         /\ \A w \in Writers : w \in Threads /\ w \notin Readers
         /\ \A r \in Readers : r \in Threads /\ r \notin Writers
         /\ \A t \in Threads : t # Nil
<1>1. Q!TypeOK /\ Q!Message = Message /\ Q!Threads = Threads /\ Q!Blocks = Blocks
  BY SameData DEF Above, Q!Safe, Q!Typed
<1>2. \A t \in Threads : t # Nil BY NilAssumption
<1>3. QED BY <1>1, <1>2, QueueAssumption DEF Q!TypeOK, Places, Chains, Threads

\* The call of Write().
LEMMA WriteFollows ==
  ASSUME Wired, Above, NEW w \in Writers, NEW n \in Sizes[w], Write(w, n)
  PROVE  Follows
<1>1. /\ pc[w] = "idle" /\ first[w] = Nil /\ w \in Threads /\ w \notin Readers
      /\ pc \in [Threads -> Labels] /\ Places[w] = "idle"
      /\ msg \in [Writers -> Message \cup {NoMsg}]
  BY HeldWhere, HeldType, AboveTypes, AboveChain, AbovePlace DEF Write, Wired, Pointers
<1>2. /\ sent[w] < MaxMsgs /\ sent' = [sent EXCEPT ![w] = @ + 1]
      /\ UNCHANGED <<list, fwd, back, block, mutex, writeSem, readSem,
                     buf, got, owed, cur, first, last, cnt>>
      /\ \/ Refused(n) /\ pc' = pc /\ msg' = msg
         \/ /\ ~ Refused(n) /\ pc' = [pc EXCEPT ![w] = "wsem"]
            /\ msg' = [msg EXCEPT ![w] = [from |-> w, seq |-> sent[w] + 1, size |-> n]]
  BY DEF Write, Goto, shared
<1>3. Calm(w) BY <1>1, <1>2 DEF Calm
<1>4. Pointers' BY <1>1, <1>2 DEF Wired, Pointers, Labels
<1>5. Arrives(w) BY <1>1, <1>2, <1>4 DEF Arrives
<1>6. /\ Wired'
      /\ Free' = Free /\ Used' = Used /\ Data' = Data /\ Chains' = Chains
      /\ Places' = [Places EXCEPT ![w] = AbsPc(w)']
  BY <1>1, <1>3, <1>5, CalmStep
<1>7. AbsPc(w)' = pc'[w] BY <1>1, <1>2 DEF AbsPc
<1>8. Refused(n) => Places' = Places BY <1>1, <1>2, <1>6, <1>7, AboveTypes
<1>9. ~ Refused(n) => Places' = [Places EXCEPT ![w] = "wsem"] BY <1>1, <1>2, <1>6, <1>7
<1>10. Q!Write(w, n)
  BY <1>1, <1>2, <1>6, <1>8, <1>9, SameData DEF Q!Write, Q!Goto, Q!Lists
<1>11. QED BY <1>6, <1>10 DEF Follows, Q!Next

\* Acquiring a mutex is not seen above.
LEMMA EnterFollows ==
  ASSUME Wired, Above, NEW t \in Threads, NEW k \in Kinds, NEW end \in {"head", "tail"},
         NEW label \in Labels, Enter(t, k, end, label),
         \/ pc[t] = "wlock" /\ k = "free" /\ end = "head" /\ label = "getblock" /\ t \in Writers
         \/ pc[t] = "giveback" /\ k = "free" /\ end = "tail" /\ label = "putback" /\ t \in Writers
         \/ pc[t] = "rlock" /\ k = "used" /\ end = "tail" /\ label = "append" /\ t \in Writers
         \/ pc[t] = "rlock" /\ k = "used" /\ end = "head" /\ label = "take" /\ t \in Readers
         \/ pc[t] = "flock" /\ k = "free" /\ end = "tail" /\ label = "free" /\ t \in Readers
  PROVE  Follows
<1>1. /\ mutex[k] = Nil /\ mutex' = [mutex EXCEPT ![k] = t]
      /\ cur' = [cur EXCEPT ![t] = list[k][end]]
      /\ pc' = [pc EXCEPT ![t] = label]
      /\ UNCHANGED <<list, fwd, back, block, writeSem, readSem,
                     msg, sent, buf, got, owed, first, last, cnt>>
  BY DEF Enter, Goto
<1>2. /\ pc \in [Threads -> Labels] /\ mutex \in [Kinds -> Threads \cup {Nil}]
      /\ cur \in [Threads -> BlockOrNil] /\ list[k][end] \in BlockOrNil
      /\ pc[t] # "fill" /\ label \notin {"fill", "copy"}
      /\ \A u \in Threads : u # Nil
  BY AboveTypes DEF Wired, Pointers, Kinds
<1>3. Calm(t) BY <1>1, <1>2 DEF Calm
<1>4. Pointers' BY <1>1, <1>2 DEF Wired, Pointers
<1>5. Arrives(t) BY <1>1, <1>2, <1>4, AboveTypes DEF Arrives
<1>6. /\ Wired'
      /\ Free' = Free /\ Used' = Used /\ Data' = Data /\ Chains' = Chains
      /\ Places' = [Places EXCEPT ![t] = AbsPc(t)']
  BY <1>3, <1>5, CalmStep
<1>7. AbsPc(t)' = AbsPc(t)
  <2>1. pc'[t] = label BY <1>1, <1>2
  <2>2. t \in Readers => t \notin Writers BY AboveTypes
  <2>3. QED BY <2>1, <2>2 DEF AbsPc
<1>8. Places' = Places BY <1>6, <1>7, AboveTypes, AboveChain
<1>9. Q!vars' = Q!vars BY <1>1, <1>6, <1>8 DEF Q!vars
<1>10. QED BY <1>6, <1>9 DEF Follows

\* The waits of Write() for a token, and its last step.
LEMMA WriteWaitFollows ==
  ASSUME Wired, Above, NEW w \in Writers,
         WaitForSemWrite(w) \/ WriteTimeout(w) \/ PostRead(w)
  PROVE  Follows
<1>1. /\ w \in Threads /\ w \notin Readers /\ pc \in [Threads -> Labels]
      /\ cur \in [Threads -> BlockOrNil]
      /\ msg \in [Writers -> Message \cup {NoMsg}]
      /\ Chains[w] = AbsChain(w) /\ Places[w] = AbsPc(w)
      /\ Places = [t \in Threads |-> Places[t]]
      /\ Held(w) \in Seq(Blocks) /\ (Held(w) = <<>> <=> cnt[w] = 0)
      /\ (Held(w) = <<>> <=> first[w] = Nil)
      /\ pc[w] # "fill" => AbsChain(w) = Held(w)
  BY HeldType, AboveTypes, AboveChain DEF Wired, Pointers
<1>2. Nil \in BlockOrNil BY DEF BlockOrNil
<1>3. CASE WaitForSemWrite(w)
  <2>1. /\ pc[w] = "wsem" /\ writeSem > 0 /\ writeSem' = writeSem - 1
        /\ pc' = [pc EXCEPT ![w] = "wlock"]
        /\ UNCHANGED <<list, fwd, back, block, mutex, readSem, locals>>
    BY <1>3 DEF WaitForSemWrite, Goto
  <2>2. Calm(w) BY <1>1, <2>1 DEF Calm, locals
  <2>3. Pointers' BY <1>1, <2>1 DEF Wired, Pointers, Labels, locals
  <2>4. Arrives(w) BY <1>1, <2>1, <2>3 DEF Arrives
  <2>5. /\ Wired'
        /\ Free' = Free /\ Used' = Used /\ Data' = Data /\ Chains' = Chains
        /\ Places' = [Places EXCEPT ![w] = AbsPc(w)']
    BY <1>1, <2>2, <2>4, CalmStep
  <2>6. AbsPc(w)' = "alloc" /\ AbsPc(w) = "wsem" BY <1>1, <2>1 DEF AbsPc
  <2>7. Q!WaitForSemWrite(w)
    BY <1>1, <2>1, <2>5, <2>6 DEF Q!WaitForSemWrite, Q!Goto, Q!Lists, locals
  <2>8. QED BY <2>5, <2>7 DEF Follows, Q!Next, Q!WriteStep
<1>4. CASE WriteTimeout(w) /\ cnt[w] # 0
  <2>1. /\ pc[w] = "wsem" /\ w \in Timed /\ writeSem = 0
        /\ pc' = [pc EXCEPT ![w] = "giveback"]
        /\ UNCHANGED <<list, fwd, back, block, mutex, writeSem, readSem, locals>>
    BY <1>4 DEF WriteTimeout, Goto, shared, locals
  <2>2. Calm(w) BY <1>1, <2>1 DEF Calm, locals
  <2>3. Pointers' BY <1>1, <2>1 DEF Wired, Pointers, Labels, locals
  <2>4. Arrives(w) BY <1>1, <2>1, <2>3 DEF Arrives
  <2>5. /\ Wired'
        /\ Free' = Free /\ Used' = Used /\ Data' = Data /\ Chains' = Chains
        /\ Places' = [Places EXCEPT ![w] = AbsPc(w)']
    BY <1>1, <2>2, <2>4, CalmStep
  <2>6. AbsPc(w)' = "giveback" /\ AbsPc(w) = "wsem" BY <1>1, <2>1 DEF AbsPc
  <2>7. Chains[w] # <<>> BY <1>1, <1>4, <2>1
  <2>8. Q!WriteTimeout(w)
    BY <1>1, <2>1, <2>5, <2>6, <2>7 DEF Q!WriteTimeout, Q!Goto, Q!Lists, locals
  <2>9. QED BY <2>5, <2>8 DEF Follows, Q!Next, Q!WriteStep
<1>5. CASE (WriteTimeout(w) /\ cnt[w] = 0) \/ PostRead(w)
  <2>1. /\ Forget(w) /\ msg' = [msg EXCEPT ![w] = NoMsg]
        /\ pc' = [pc EXCEPT ![w] = "idle"]
        /\ UNCHANGED <<list, fwd, back, block, mutex, writeSem, sent, buf, got, owed>>
        /\ pc[w] \in {"wsem", "post"}
        /\ \/ WriteTimeout(w) /\ pc[w] = "wsem" /\ w \in Timed /\ writeSem = 0 /\ readSem' = readSem
           \/ PostRead(w) /\ pc[w] = "post" /\ readSem' = Released(readSem, 1)
    BY <1>5 DEF WriteTimeout, PostRead, Goto, Return, shared
  <2>2. Held(w) = <<>> BY <1>1, <1>5, <2>1, HeldWhere DEF PostRead
  <2>3. UNCHANGED <<first, last, cnt>> /\ cur' = [cur EXCEPT ![w] = Nil]
    BY <1>1, <2>1, <2>2, Forgotten
  <2>4. Calm(w) BY <1>1, <2>1, <2>2, <2>3 DEF Calm
  <2>5. Pointers' BY <1>1, <1>2, <2>1, <2>3 DEF Wired, Pointers, Labels
  <2>6. Arrives(w) BY <1>1, <2>1, <2>5 DEF Arrives
  <2>7. /\ Wired'
        /\ Free' = Free /\ Used' = Used /\ Data' = Data /\ Chains' = Chains
        /\ Places' = [Places EXCEPT ![w] = AbsPc(w)']
    BY <1>1, <2>4, <2>6, CalmStep
  <2>8. AbsPc(w)' = "idle" /\ AbsPc(w) = pc[w] BY <1>1, <2>1 DEF AbsPc
  <2>9. Chains[w] = <<>> BY <1>1, <2>1, <2>2
  <2>10. Q!WriteTimeout(w) \/ Q!PostRead(w)
    BY <1>1, <2>1, <2>7, <2>8, <2>9, SameData
    DEF Q!WriteTimeout, Q!PostRead, Q!Return, Q!Goto, Q!Lists
  <2>11. QED BY <2>7, <2>10 DEF Follows, Q!Next, Q!WriteStep
<1>6. QED BY <1>3, <1>4, <1>5

\* The call of Read(), its wait for a token, and its last step.
LEMMA ReadWaitFollows ==
  ASSUME Wired, Above, NEW r \in Readers,
         \/ \E n \in BufSizes : Read(r, n)
         \/ WaitForSemRead(r) \/ ReadTimeout(r) \/ ReleaseWrite(r)
  PROVE  Follows
<1>1. /\ r \in Threads /\ r \notin Writers /\ pc \in [Threads -> Labels]
      /\ Places[r] = AbsPc(r) /\ Places = [t \in Threads |-> Places[t]]
  BY AboveTypes, AboveChain DEF Wired, Pointers
<1>2. /\ UNCHANGED <<list, fwd, back, block, mutex, msg, sent, cur, first, last, cnt>>
      /\ pc[r] \in {"idle", "rsem", "release"}
      /\ \/ /\ pc[r] = "idle" /\ pc' = [pc EXCEPT ![r] = "rsem"]
            /\ \E n \in BufSizes : buf' = [buf EXCEPT ![r] = n]
            /\ got' = [got EXCEPT ![r] = <<>>]
            /\ UNCHANGED <<writeSem, readSem, owed>>
         \/ /\ pc[r] = "rsem" /\ pc' = [pc EXCEPT ![r] = "rlock"]
            /\ readSem > 0 /\ readSem' = readSem - 1
            /\ UNCHANGED <<writeSem, buf, got, owed>>
         \/ /\ pc[r] = "rsem" /\ pc' = [pc EXCEPT ![r] = "idle"]
            /\ r \in Timed /\ readSem = 0
            /\ UNCHANGED <<writeSem, readSem, buf, got, owed>>
         \/ /\ pc[r] = "release" /\ pc' = [pc EXCEPT ![r] = "idle"]
            /\ writeSem' = Released(writeSem, owed[r]) /\ owed' = [owed EXCEPT ![r] = 0]
            /\ UNCHANGED <<readSem, buf, got>>
  BY DEF Read, WaitForSemRead, ReadTimeout, ReleaseWrite, Goto, shared, locals
<1>3. pc'[r] \in {"idle", "rsem", "rlock"} /\ \A u \in Threads \ {r} : pc'[u] = pc[u]
  BY <1>1, <1>2
<1>4. Calm(r) BY <1>1, <1>2, <1>3 DEF Calm
<1>5. Pointers' BY <1>1, <1>2 DEF Wired, Pointers, Labels
<1>6. Arrives(r) BY <1>1, <1>3, <1>5 DEF Arrives
<1>7. /\ Wired'
      /\ Free' = Free /\ Used' = Used /\ Data' = Data /\ Chains' = Chains
      /\ Places' = [Places EXCEPT ![r] = AbsPc(r)']
  BY <1>1, <1>4, <1>6, CalmStep
<1>8. AbsPc(r) = pc[r] /\ AbsPc(r)' = IF pc'[r] = "rlock" THEN "take" ELSE pc'[r]
  BY <1>1, <1>2, <1>3 DEF AbsPc
<1>9. \/ \E n \in BufSizes : Q!Read(r, n)
      \/ Q!WaitForSemRead(r) \/ Q!ReadTimeout(r) \/ Q!ReleaseWrite(r)
  <2>1. CASE pc[r] = "idle"
    BY <1>1, <1>2, <1>7, <1>8, <2>1 DEF Q!Read, Q!Goto, Q!Lists
  <2>2. CASE pc[r] = "rsem" /\ pc'[r] = "rlock"
    BY <1>1, <1>2, <1>7, <1>8, <2>2 DEF Q!WaitForSemRead, Q!Goto, Q!Lists
  <2>3. CASE pc[r] = "rsem" /\ pc'[r] = "idle"
    BY <1>1, <1>2, <1>7, <1>8, <2>3 DEF Q!ReadTimeout, Q!Goto, Q!Lists
  <2>4. CASE pc[r] = "release"
    BY <1>1, <1>2, <1>7, <1>8, <2>4, SameData DEF Q!ReleaseWrite, Q!Goto, Q!Lists
  <2>5. QED BY <1>1, <1>2, <2>1, <2>2, <2>3, <2>4
<1>10. QED BY <1>7, <1>9 DEF Follows, Q!Next, Q!ReadStep

-----------------------------------------------------------------------------
(* The steps that change the links. *)

\* A step of thread t that changes no links but those of the blocks in B, which are on
\* no list but those in K, whose mutexes t has, and with no other thread.
Alters(t, K, B) ==
    /\ \A k \in K : mutex[k] = t
    /\ \A j \in Kinds \ K : /\ list'[j] = list[j] /\ mutex'[j] = mutex[j]
                            /\ ToSet(Chain(j)) \cap B = {}
    /\ \A u \in Threads \ {t} :
          /\ pc'[u] = pc[u] /\ cur'[u] = cur[u]
          /\ first'[u] = first[u] /\ last'[u] = last[u] /\ cnt'[u] = cnt[u]
          /\ ToSet(Held(u)) \cap B = {}
    /\ \A w \in Writers \ {t} : msg'[w] = msg[w]
    /\ \A b \in Blocks \ B : fwd'[b] = fwd[b] /\ back'[b] = back[b]

\* It leaves the lists in K, and t's chain, as the invariant has them.
Repairs(t, K) ==
    /\ Pointers'
    /\ \A k \in K : \E s \in Seq(Blocks) : Strung(fwd', back', list'[k], s)
    /\ \E s \in Seq(Blocks) : Holds(fwd', back', first'[t], last'[t], cnt'[t], s)
    /\ t \in Writers /\ first'[t] # Nil =>
          (NumBlocks(msg'[t]) > 1 => fwd'[last'[t]] = Nil /\ back'[first'[t]] = Nil)
    /\ t \in Writers => pc'[t] \in {"idle", "wsem", "fill", "rlock", "post", "giveback"}
    /\ t \in Readers => pc'[t] \in {"idle", "copy", "flock", "release"}
    /\ pc'[t] = "copy" => fwd'[last'[t]] = Nil
    /\ pc'[t] = "fill" => /\ cur'[t] \in Blocks
                          /\ \A w \in Writers \ {t} : pc[w] = "fill" => cur[w] # cur'[t]

\* Such a step keeps the invariant, and all that the others see above.
LEMMA AltersStep ==
  ASSUME Wired, Above, NEW t \in Threads, NEW K \in SUBSET Kinds, NEW B,
         Alters(t, K, B), Repairs(t, K)
  PROVE  /\ Wired'
         /\ \A j \in Kinds \ K : Chain(j)' = Chain(j)
         /\ \A u \in Threads \ {t} : Chains'[u] = Chains[u] /\ Places'[u] = Places[u]
         /\ Chains' = [Chains EXCEPT ![t] = Chains'[t]]
         /\ Places' = [Places EXCEPT ![t] = Places'[t]]
<1>1. ASSUME NEW j \in Kinds \ K
      PROVE  Strung(fwd, back, list[j], Chain(j))' /\ Chain(j)' = Chain(j)
  <2> DEFINE s == Chain(j)
  <2>1. Strung(fwd, back, list[j], s) /\ s \in Seq(Blocks) /\ ToSet(s) \in SUBSET Blocks
    BY SetOf DEF Wired, Linked, Strung
  <2>2. list'[j] = list[j] /\ \A b \in ToSet(s) : fwd'[b] = fwd[b] /\ back'[b] = back[b]
    BY <2>1 DEF Alters
  <2>3. Strung(fwd', back', list'[j], s) BY <2>1, <2>2, StrungKept
  <2>4. Chain(j)' = s BY <2>1, <2>3, StrungNext
  <2>5. QED BY <2>3, <2>4
<1>2. ASSUME NEW k \in K PROVE Strung(fwd, back, list[k], Chain(k))'
  <2>1. PICK s \in Seq(Blocks) : Strung(fwd', back', list'[k], s) BY DEF Repairs
  <2>2. Chain(k)' = s BY <2>1, StrungNext
  <2>3. QED BY <2>1, <2>2
<1>3. ASSUME NEW u \in Threads \ {t}
      PROVE  /\ Holds(fwd, back, first[u], last[u], cnt[u], Held(u))'
             /\ Held(u)' = Held(u)
             /\ \A b \in ToSet(Held(u)) : fwd'[b] = fwd[b] /\ back'[b] = back[b]
  <2> DEFINE s == Held(u)
  <2>1. /\ Holds(fwd, back, first[u], last[u], cnt[u], s) /\ s \in Seq(Blocks)
        /\ ToSet(s) \in SUBSET Blocks
    BY SetOf DEF Wired, Linked, Holds
  <2>2. /\ \A b \in ToSet(s) : fwd'[b] = fwd[b] /\ back'[b] = back[b]
        /\ first'[u] = first[u] /\ last'[u] = last[u] /\ cnt'[u] = cnt[u]
    BY <2>1 DEF Alters
  <2>3. Holds(fwd', back', first'[u], last'[u], cnt'[u], s) BY <2>1, <2>2, HoldsKept
  <2>4. Held(u)' = s BY <2>1, <2>3, HoldsNext
  <2>5. QED BY <2>2, <2>3, <2>4
<1>4. Holds(fwd, back, first[t], last[t], cnt[t], Held(t))'
  <2>1. PICK s \in Seq(Blocks) : Holds(fwd', back', first'[t], last'[t], cnt'[t], s)
    BY DEF Repairs
  <2>2. Held(t)' = s BY <2>1, HoldsNext
  <2>3. QED BY <2>1, <2>2
<1>5. Linked'
  <2>1. \A k \in Kinds : Strung(fwd, back, list[k], Chain(k))' BY <1>1, <1>2
  <2>2. \A u \in Threads : Holds(fwd, back, first[u], last[u], cnt[u], Held(u))' BY <1>3, <1>4
  <2>3. QED BY <2>1, <2>2 DEF Linked
<1>6. ASSUME NEW u \in Threads \ {t}, first[u] # Nil
      PROVE  /\ fwd'[last'[u]] = fwd[last[u]] /\ back'[first'[u]] = back[first[u]]
  <2>1. /\ Held(u) # <<>> /\ Held(u) \in Seq(Blocks)
        /\ Holds(fwd, back, first[u], last[u], cnt[u], Held(u))
    BY <1>6, HeldType DEF Wired, Linked
  <2>2. first[u] \in ToSet(Held(u)) /\ last[u] \in ToSet(Held(u)) BY <2>1, SetOf DEF Holds
  <2>3. QED BY <1>3, <2>2 DEF Alters
<1>7. Loose'
  <2>1. ASSUME NEW w \in Writers, first'[w] # Nil, NumBlocks(msg'[w]) > 1
        PROVE  fwd'[last'[w]] = Nil /\ back'[first'[w]] = Nil
    <3>1. CASE w = t BY <2>1, <3>1 DEF Repairs
    <3>2. CASE w # t
      <4>1. w \in Threads \ {t} /\ first[w] # Nil /\ msg'[w] = msg[w]
        BY <2>1, <3>2 DEF Alters, Threads
      <4>2. fwd[last[w]] = Nil /\ back[first[w]] = Nil BY <2>1, <4>1 DEF Wired, Loose
      <4>3. QED BY <1>6, <4>1, <4>2
    <3>3. QED BY <3>1, <3>2
  <2>2. ASSUME NEW r \in Readers, pc'[r] = "copy" PROVE fwd'[last'[r]] = Nil
    <3>1. CASE r = t BY <2>2, <3>1 DEF Repairs
    <3>2. CASE r # t
      <4>1. r \in Threads \ {t} /\ pc[r] = "copy" BY <2>2, <3>2 DEF Alters, Threads
      <4>2. fwd[last[r]] = Nil BY <4>1 DEF Wired, Loose
      <4>3. first[r] # Nil BY <4>1, HeldWhere, HeldType
      <4>4. QED BY <1>6, <4>1, <4>2, <4>3
    <3>3. QED BY <3>1, <3>2
  <2>3. QED BY <2>1, <2>2 DEF Loose
<1>8. Sections'
  <2>1. ASSUME NEW u \in Threads
        PROVE  /\ pc'[u] = "getblock" => Inside(u, "free", "head")'
               /\ pc'[u] \in {"putback", "free"} => Inside(u, "free", "tail")'
               /\ pc'[u] = "append" => Inside(u, "used", "tail")'
               /\ pc'[u] = "take" => Inside(u, "used", "head")'
    <3>1. CASE u = t BY <3>1 DEF Repairs, Threads
    <3>2. CASE u # t
      <4>1. pc'[u] = pc[u] /\ cur'[u] = cur[u] BY <3>2 DEF Alters
      <4>2. \A k \in Kinds : mutex[k] = u => mutex'[k] = u /\ list'[k] = list[k]
        BY <3>2 DEF Alters
      <4>3. /\ mutex["free"] = u => mutex'["free"] = u /\ list'["free"] = list["free"]
            /\ mutex["used"] = u => mutex'["used"] = u /\ list'["used"] = list["used"]
        BY <4>2 DEF Kinds
      <4>4. QED BY <4>1, <4>3 DEF Wired, Sections, Inside
    <3>3. QED BY <3>1, <3>2
  <2>2. QED BY <2>1 DEF Sections
<1>9. Stages'
  <2>1. ASSUME NEW w \in Writers
        PROVE  /\ pc'[w] \in {"idle", "wsem", "wlock", "getblock", "fill", "rlock", "append",
                              "post", "giveback", "putback"}
               /\ pc'[w] = "fill" => cur'[w] \in Blocks
               /\ w # t => pc'[w] = pc[w] /\ cur'[w] = cur[w]
    <3>1. CASE w = t BY <3>1 DEF Repairs
    <3>2. CASE w # t
      <4>1. pc'[w] = pc[w] /\ cur'[w] = cur[w] BY <3>2 DEF Alters, Threads
      <4>2. QED BY <4>1 DEF Wired, Stages
    <3>3. QED BY <3>1, <3>2
  <2>2. ASSUME NEW r \in Readers
        PROVE  pc'[r] \in {"idle", "rsem", "rlock", "take", "copy", "flock", "free", "release"}
    <3>1. CASE r = t BY <3>1 DEF Repairs
    <3>2. CASE r # t
      <4>1. pc'[r] = pc[r] BY <3>2 DEF Alters, Threads
      <4>2. QED BY <4>1 DEF Wired, Stages
    <3>3. QED BY <3>1, <3>2
  <2>3. ASSUME NEW w \in Writers, NEW v \in Writers,
               pc'[w] = "fill", pc'[v] = "fill", cur'[w] = cur'[v]
        PROVE  w = v
    <3>1. CASE w # t /\ v # t BY <2>1, <2>3, <3>1 DEF Wired, Stages
    <3>2. CASE w = t BY <2>1, <2>3, <3>2 DEF Repairs
    <3>3. CASE v = t BY <2>1, <2>3, <3>3 DEF Repairs
    <3>4. QED BY <3>1, <3>2, <3>3
  <2>4. QED BY <2>1, <2>2, <2>3 DEF Stages
<1>10. Wired' BY <1>5, <1>7, <1>8, <1>9 DEF Wired, Repairs
<1>11. ASSUME NEW u \in Threads \ {t} PROVE Chains'[u] = Chains[u] /\ Places'[u] = Places[u]
  <2>1. /\ pc'[u] = pc[u] /\ cur'[u] = cur[u] /\ cnt'[u] = cnt[u]
        /\ u \in Writers => msg'[u] = msg[u]
    BY DEF Alters
  <2>2. pc[u] = "fill" => u \in Writers BY HeldType
  <2>3. QED BY <1>3, <2>1, <2>2, ChainKept, PlaceKept
<1>12. /\ Chains = [u \in Threads |-> Chains[u]] /\ Chains' = [u \in Threads |-> Chains'[u]]
       /\ Places = [u \in Threads |-> Places[u]] /\ Places' = [u \in Threads |-> Places'[u]]
  BY DEF Chains, Places
<1>13. Chains' = [Chains EXCEPT ![t] = Chains'[t]] BY <1>11, <1>12
<1>14. Places' = [Places EXCEPT ![t] = Places'[t]] BY <1>11, <1>12
<1>15. QED BY <1>1, <1>10, <1>11, <1>13, <1>14

-----------------------------------------------------------------------------
(* Links that are set. *)

\* A link that is set changes no other, and is a block number, too, or null.
LEMMA LinkIs ==
  \A links \in [Blocks -> BlockOrNil], b \in BlockOrNil, c \in BlockOrNil :
     /\ Link(links, b, c) \in [Blocks -> BlockOrNil]
     /\ b \in Blocks => Link(links, b, c)[b] = c
     /\ \A x \in Blocks : x # b => Link(links, b, c)[x] = links[x]
<1> TAKE links \in [Blocks -> BlockOrNil], b \in BlockOrNil, c \in BlockOrNil
<1>1. CASE b = Nil
  <2>1. \A x \in Blocks : x # b BY <1>1, NilAssumption
  <2>2. QED BY <1>1, <2>1 DEF Link
<1>2. CASE b # Nil BY <1>2 DEF Link, BlockOrNil
<1>3. QED BY <1>1, <1>2

\* What the links f2 and g2 and the list m are, once the chain h between a and z is
\* behind the tail of the list s.
Joining(f, g, f2, g2, l, m, s, h, a, z, n) ==
    /\ Strung(f, g, l, s) /\ Holds(f, g, a, z, n, h) /\ h # <<>>
    /\ ToSet(s) \cap ToSet(h) = {}
    /\ f2[z] = Nil
    /\ s # <<>> => f2[l.tail] = a /\ g2[a] = l.tail /\ m.head = l.head
    /\ s = <<>> => g2[a] = Nil /\ m.head = a
    /\ \A b \in ToSet(s) \cup ToSet(h) : b # z /\ b # l.tail => f2[b] = f[b]
    /\ \A b \in ToSet(s) \cup ToSet(h) : b # a => g2[b] = g[b]
    /\ m.tail = z

\* They make the list of both.
LEMMA StrungJoin ==
  ASSUME NEW f, NEW g, NEW f2, NEW g2, NEW l, NEW m, NEW s, NEW h,
         NEW a, NEW z, NEW n, Joining(f, g, f2, g2, l, m, s, h, a, z, n)
  PROVE  Strung(f2, g2, m, s \o h)
<1> USE DEF Joining
<1> DEFINE v == s \o h
<1>1. /\ s \in Seq(Blocks) /\ Distinct(s) /\ Chained(f, g, s)
      /\ h \in Seq(Blocks) /\ Distinct(h) /\ Chained(f, g, h)
      /\ a = h[1] /\ z = h[Len(h)]
      /\ Len(s) \in Nat /\ Len(h) \in Nat
      /\ \A i \in 1 .. Len(s) : s[i] \in ToSet(s) /\ s[i] \notin ToSet(h)
      /\ \A i \in 1 .. Len(h) : h[i] \in ToSet(h) /\ h[i] \notin ToSet(s)
      /\ 1 \in 1 .. Len(h) /\ Len(h) \in 1 .. Len(h)
      /\ s = <<>> <=> Len(s) = 0
      /\ s # <<>> => l.head = s[1] /\ l.tail = s[Len(s)] /\ g[s[1]] = Nil
      /\ s # <<>> => 1 \in 1 .. Len(s) /\ Len(s) \in 1 .. Len(s)
  BY SetOf DEF Strung, Holds
<1>2. ASSUME NEW i \in 1 .. Len(s) - 1 PROVE f2[s[i]] = f[s[i]] /\ g2[s[i + 1]] = g[s[i + 1]]
  <2>1. i \in 1 .. Len(s) /\ i + 1 \in 1 .. Len(s) /\ i # Len(s) /\ s # <<>> BY <1>1
  <2>2. s[i] # l.tail BY <1>1, <2>1 DEF Distinct
  <2>3. s[i] # z /\ s[i + 1] # a BY <1>1, <2>1
  <2>4. QED BY <1>1, <2>1, <2>2, <2>3
<1>3. ASSUME NEW i \in 1 .. Len(h) - 1 PROVE f2[h[i]] = f[h[i]] /\ g2[h[i + 1]] = g[h[i + 1]]
  <2>1. i \in 1 .. Len(h) /\ i + 1 \in 1 .. Len(h) /\ i # Len(h) /\ i + 1 # 1 BY <1>1
  <2>2. h[i] # z /\ h[i + 1] # a BY <1>1, <2>1 DEF Distinct
  <2>3. CASE s = <<>>
    <3>1. l.tail = Nil /\ h[i] \in Blocks BY <1>1, <2>1, <2>3, SetOf DEF Strung
    <3>2. h[i] # l.tail BY <3>1, NilAssumption
    <3>3. QED BY <1>1, <2>1, <2>2, <3>2
  <2>4. CASE s # <<>>
    <3>1. h[i] # l.tail BY <1>1, <2>1, <2>4
    <3>2. QED BY <1>1, <2>1, <2>2, <3>1
  <2>5. QED BY <2>3, <2>4
<1>4. Chained(f2, g2, s) BY <1>1, <1>2, ChainedKept
<1>5. Chained(f2, g2, h) BY <1>1, <1>3, ChainedKept
<1>6. Chained(f2, g2, v) BY <1>1, <1>4, <1>5, ChainedJoin
<1>7. /\ v \in Seq(Blocks) /\ Distinct(v) /\ Len(v) = Len(s) + Len(h)
      /\ \A i \in 1 .. Len(s) : v[i] = s[i]
      /\ \A i \in 1 .. Len(h) : v[Len(s) + i] = h[i]
  BY <1>1, Joined
<1> HIDE DEF v
<1>8. v # <<>> /\ v[Len(v)] = z BY <1>1, <1>7, SetOf
<1>9. m.head = v[1] /\ g2[v[1]] = Nil
  <2>1. CASE s = <<>>
    <3>1. Len(s) + 1 = 1 BY <1>1, <2>1
    <3>2. v[1] = a BY <1>1, <1>7, <3>1
    <3>3. QED BY <2>1, <3>2
  <2>2. CASE s # <<>>
    <3>1. v[1] = s[1] BY <1>1, <1>7, <2>2
    <3>2. s[1] # a BY <1>1, <2>2
    <3>3. g2[s[1]] = g[s[1]] BY <1>1, <2>2, <3>2
    <3>4. QED BY <1>1, <2>2, <3>1, <3>3
  <2>3. QED BY <2>1, <2>2
<1>10. Strung(f2, g2, m, v) BY <1>6, <1>7, <1>8, <1>9 DEF Strung
<1>11. QED BY <1>10 DEF v

\* What the links f2 and g2 and the list m are, once the list s has lost its first n blocks.
Cutting(f, g, f2, g2, l, m, s, n) ==
    /\ Strung(f, g, l, s)
    /\ m.head = f[s[n]]
    /\ f[s[n]] = Nil => m.tail = Nil
    /\ f[s[n]] # Nil => m.tail = l.tail
    /\ \A b \in ToSet(s) : b # s[n] => f2[b] = f[b]
    /\ \A b \in ToSet(s) : b = f[s[n]] => g2[b] = Nil
    /\ \A b \in ToSet(s) : b # f[s[n]] => g2[b] = g[b]

\* They make what is left of it.
LEMMA StrungCut ==
  ASSUME NEW f, NEW g, NEW f2, NEW g2, NEW l, NEW m, NEW s, NEW n \in 1 .. Len(s),
         Cutting(f, g, f2, g2, l, m, s, n)
  PROVE  /\ Strung(f2, g2, m, SubSeq(s, n + 1, Len(s)))
         /\ Chained(f2, g2, SubSeq(s, 1, n))
<1> USE DEF Cutting
<1> DEFINE u == SubSeq(s, 1, n)
           v == SubSeq(s, n + 1, Len(s))
<1>1. /\ s \in Seq(Blocks) /\ Distinct(s) /\ Chained(f, g, s)
      /\ Len(s) \in Nat /\ n \in Nat \ {0} /\ n <= Len(s) /\ s # <<>>
      /\ \A i \in 1 .. Len(s) : s[i] \in ToSet(s) /\ s[i] \in Blocks
      /\ l.tail = s[Len(s)] /\ f[s[Len(s)]] = Nil
  BY SetOf DEF Strung
<1>2. /\ Chained(f, g, u) /\ Chained(f, g, v)
      /\ n < Len(s) => f[s[n]] = s[n + 1] /\ g[s[n + 1]] = s[n]
  BY <1>1, ChainedCut
<1>3. u \in Seq(Blocks) /\ Len(u) = n /\ \A i \in 1 .. n : u[i] = s[i]
  BY <1>1, Prefix
<1>4. /\ v \in Seq(Blocks) /\ Len(v) = Len(s) - n /\ \A i \in 1 .. Len(v) : v[i] = s[n + i]
      /\ Distinct(v)
  BY <1>1, Cut
<1> HIDE DEF u, v
<1>5. n < Len(s) => f[s[n]] = s[n + 1] /\ f[s[n]] # Nil
  BY <1>1, <1>2, NilAssumption
<1>6. n = Len(s) => f[s[n]] = Nil BY <1>1
<1>7. Chained(f2, g2, u)
  <2>1. ASSUME NEW i \in 1 .. Len(u) - 1
        PROVE  f2[u[i]] = f[u[i]] /\ g2[u[i + 1]] = g[u[i + 1]]
    <3>1. /\ i \in 1 .. n /\ i + 1 \in 1 .. n /\ i \in 1 .. Len(s) /\ i + 1 \in 1 .. Len(s)
          /\ n \in 1 .. Len(s) /\ i # n
      BY <1>1, <1>3
    <3>2. s[i] # s[n] BY <1>1, <3>1 DEF Distinct
    <3>3. s[i + 1] # f[s[n]]
      <4>1. CASE n < Len(s)
        <5>1. n + 1 \in 1 .. Len(s) /\ i + 1 # n + 1 BY <1>1, <3>1, <4>1
        <5>2. s[i + 1] # s[n + 1] BY <1>1, <3>1, <5>1 DEF Distinct
        <5>3. QED BY <1>5, <4>1, <5>2
      <4>2. CASE n = Len(s) BY <1>1, <1>6, <3>1, <4>2, NilAssumption
      <4>3. QED BY <1>1, <4>1, <4>2
    <3>4. QED BY <1>1, <1>3, <3>1, <3>2, <3>3
  <2>2. QED BY <1>2, <1>3, <2>1, ChainedKept
<1>8. Chained(f2, g2, v)
  <2>1. ASSUME NEW i \in 1 .. Len(v) - 1
        PROVE  f2[v[i]] = f[v[i]] /\ g2[v[i + 1]] = g[v[i + 1]]
    <3>1. /\ i \in 1 .. Len(v) /\ i + 1 \in 1 .. Len(v) /\ n \in 1 .. Len(s)
          /\ n + i \in 1 .. Len(s) /\ n + (i + 1) \in 1 .. Len(s) /\ n + i # n
          /\ n < Len(s) /\ n + 1 \in 1 .. Len(s) /\ n + (i + 1) # n + 1
      <4>1. Len(v) = Len(s) - n /\ Len(s) \in Nat /\ n \in Nat \ {0} /\ n <= Len(s)
        BY <1>1, <1>4
      <4>2. PICK k \in Nat, j \in Nat : k = Len(s) /\ j = Len(v) BY <4>1
      <4>3. QED BY <4>1, <4>2
    <3>2. s[n + i] # s[n] BY <1>1, <3>1 DEF Distinct
    <3>3. s[n + (i + 1)] # s[n + 1] BY <1>1, <3>1 DEF Distinct
    <3>4. QED BY <1>1, <1>4, <1>5, <3>1, <3>2, <3>3
  <2>2. QED BY <1>2, <1>4, <2>1, ChainedKept
<1>9. CASE n = Len(s)
  <2>1. v = <<>> BY <1>1, <1>4, <1>9, SetOf
  <2>2. m.head = Nil /\ m.tail = Nil BY <1>6, <1>9
  <2>3. Strung(f2, g2, m, v) BY <1>4, <1>8, <2>1, <2>2 DEF Strung
  <2>4. QED BY <1>7, <2>3 DEF u, v
<1>10. CASE n < Len(s)
  <2>1. /\ Len(v) \in Nat /\ 1 \in 1 .. Len(v) /\ Len(v) \in 1 .. Len(v) /\ n + Len(v) = Len(s)
        /\ n + 1 \in 1 .. Len(s) /\ n \in 1 .. Len(s) /\ Len(s) \in 1 .. Len(s) /\ n # Len(s)
    BY <1>1, <1>4, <1>10
  <2>2. v # <<>> /\ v[1] = s[n + 1] /\ v[Len(v)] = s[Len(s)]
    <3>1. v # <<>> BY <1>4, <2>1, SetOf
    <3>2. v[1] = s[n + 1] BY <1>4, <2>1
    <3>3. v[Len(v)] = s[n + Len(v)] BY <1>4, <2>1
    <3>4. QED BY <2>1, <3>1, <3>2, <3>3
  <2>3. m.head = v[1] /\ m.tail = v[Len(v)] BY <1>1, <1>5, <1>10, <2>2
  <2>4. g2[v[1]] = Nil BY <1>1, <1>5, <1>10, <2>1, <2>2
  <2>5. s[Len(s)] # s[n] BY <1>1, <2>1 DEF Distinct
  <2>6. f2[v[Len(v)]] = Nil BY <1>1, <2>1, <2>2, <2>5
  <2>7. Strung(f2, g2, m, v) BY <1>4, <1>8, <2>2, <2>3, <2>4, <2>6 DEF Strung
  <2>8. QED BY <1>7, <2>7 DEF u, v
<1>11. QED BY <1>1, <1>9, <1>10

-----------------------------------------------------------------------------
(* What the operators on links do to the lists. *)

\* RemoveTo() takes the first n blocks off a list.
LEMMA ListShrinks ==
  ASSUME Wired, Above, NEW k \in Kinds, NEW n \in 1 .. Len(Chain(k)), NEW cut \in BOOLEAN,
         RemoveTo(k, Chain(k)[n], n, cut)
  PROVE  /\ Strung(fwd', back', list'[k], SubSeq(Chain(k), n + 1, Len(Chain(k))))
         /\ Chained(fwd', back', SubSeq(Chain(k), 1, n))
         /\ list' \in [Kinds -> [head : BlockOrNil, tail : BlockOrNil, count : Int]]
         /\ fwd' \in [Blocks -> BlockOrNil] /\ back' \in [Blocks -> BlockOrNil]
         /\ list'[k].count = list[k].count - n
         /\ \A j \in Kinds \ {k} : list'[j] = list[j]
         /\ \A b \in Blocks \ ToSet(Chain(k)) : fwd'[b] = fwd[b] /\ back'[b] = back[b]
         /\ cut => fwd'[Chain(k)[n]] = Nil
<1> DEFINE s == Chain(k)
           z == s[n]
           h == fwd[z]
<1>1. /\ s \in Seq(Blocks) /\ Strung(fwd, back, list[k], s)
      /\ list \in [Kinds -> [head : BlockOrNil, tail : BlockOrNil, count : Int]]
      /\ fwd \in [Blocks -> BlockOrNil] /\ back \in [Blocks -> BlockOrNil]
      /\ Len(s) \in Nat /\ n \in Nat \ {0} /\ n <= Len(s)
      /\ Nil \in BlockOrNil
  BY Separate, SetOf DEF Wired, Pointers, BlockOrNil
<1>2. z \in Blocks /\ z \in ToSet(s) /\ h \in BlockOrNil BY <1>1, SetOf
<1>3. /\ list' = [list EXCEPT ![k] = [head |-> h, tail |-> IF h = Nil THEN Nil ELSE list[k].tail,
                                      count |-> list[k].count - n]]
      /\ back' = Link(back, h, Nil)
      /\ fwd' = IF cut THEN [fwd EXCEPT ![z] = Nil] ELSE fwd
  BY DEF RemoveTo
<1>4. h \in ToSet(s) \cup {Nil}
  <2>1. Chained(fwd, back, s) /\ fwd[s[Len(s)]] = Nil
    BY <1>1, SetOf DEF Strung
  <2>2. CASE n = Len(s) BY <2>1, <2>2
  <2>3. CASE n # Len(s)
    <3>1. n \in 1 .. Len(s) - 1 /\ n + 1 \in 1 .. Len(s) BY <1>1, <2>3
    <3>2. h = s[n + 1] BY <2>1, <3>1 DEF Chained
    <3>3. QED BY <1>1, <3>1, <3>2, SetOf
  <2>4. QED BY <2>2, <2>3
<1> HIDE DEF s, z, h
<1>5. /\ back' \in [Blocks -> BlockOrNil]
      /\ h \in Blocks => back'[h] = Nil
      /\ \A b \in Blocks : b # h => back'[b] = back[b]
  <2>1. back \in [Blocks -> BlockOrNil] /\ h \in BlockOrNil /\ Nil \in BlockOrNil
    BY <1>1, <1>2
  <2>2. back' = Link(back, h, Nil) BY <1>3
  <2>3. QED BY <2>1, <2>2, LinkIs
<1>6. /\ fwd' \in [Blocks -> BlockOrNil]
      /\ \A b \in Blocks : b # z => fwd'[b] = fwd[b]
      /\ cut => fwd'[z] = Nil
  BY <1>1, <1>2, <1>3
<1>7. /\ list' \in [Kinds -> [head : BlockOrNil, tail : BlockOrNil, count : Int]]
      /\ list'[k].head = h /\ list'[k].tail = IF h = Nil THEN Nil ELSE list[k].tail
      /\ list'[k].count = list[k].count - n
      /\ \A j \in Kinds \ {k} : list'[j] = list[j]
  BY <1>1, <1>2, <1>3
<1>8. /\ Strung(fwd', back', list'[k], SubSeq(s, n + 1, Len(s)))
      /\ Chained(fwd', back', SubSeq(s, 1, n))
  <2>1. \A b \in ToSet(s) : b \in Blocks BY <1>1, SetOf
  <2>2. /\ list'[k].head = fwd[s[n]]
        /\ fwd[s[n]] = Nil => list'[k].tail = Nil
        /\ fwd[s[n]] # Nil => list'[k].tail = list[k].tail
        /\ \A b \in ToSet(s) : b # s[n] => fwd'[b] = fwd[b]
        /\ \A b \in ToSet(s) : b = fwd[s[n]] => back'[b] = Nil
        /\ \A b \in ToSet(s) : b # fwd[s[n]] => back'[b] = back[b]
    BY <1>5, <1>6, <1>7, <2>1 DEF h, z
  <2>3. n \in 1 .. Len(s) BY DEF s
  <2>4. Cutting(fwd, back, fwd', back', list[k], list'[k], s, n) BY <1>1, <2>2 DEF Cutting
  <2>5. QED BY <2>3, <2>4, StrungCut
<1>9. \A b \in Blocks \ ToSet(s) : b # z /\ b # h BY <1>2, <1>4, NilAssumption
<1>10. \A b \in Blocks \ ToSet(s) : fwd'[b] = fwd[b] /\ back'[b] = back[b]
  BY <1>5, <1>6, <1>9
<1>11. QED BY <1>5, <1>6, <1>7, <1>8, <1>10 DEF s, z

\* Add() and AddList() put what thread t holds behind the tail of a list.
LEMMA ListGrows ==
  ASSUME Wired, Above, NEW t \in Threads, NEW k \in Kinds,
         mutex[k] = t, cur[t] = list[k].tail, Held(t) # <<>>,
         \/ /\ AddList(k, first[t], last[t], cnt[t])
            /\ k = "used" => fwd[last[t]] = Nil /\ back[first[t]] = Nil
         \/ Add(k, first[t]) /\ cnt[t] = 1
  PROVE  /\ Strung(fwd', back', list'[k], Chain(k) \o Held(t))
         /\ list' \in [Kinds -> [head : BlockOrNil, tail : BlockOrNil, count : Int]]
         /\ fwd' \in [Blocks -> BlockOrNil] /\ back' \in [Blocks -> BlockOrNil]
         /\ list'[k].count = list[k].count + cnt[t]
         /\ \A j \in Kinds \ {k} : list'[j] = list[j]
         /\ \A b \in Blocks \ (ToSet(Chain(k)) \cup ToSet(Held(t))) :
               fwd'[b] = fwd[b] /\ back'[b] = back[b]
<1> DEFINE s == Chain(k)
           h == Held(t)
           a == first[t]
           z == last[t]
           l == list[k].tail
<1>1. /\ s \in Seq(Blocks) /\ Strung(fwd, back, list[k], s) /\ Distinct(s)
      /\ list[k].count = Len(s) /\ Len(s) \in Nat
      /\ h \in Seq(Blocks) /\ Holds(fwd, back, a, z, cnt[t], h) /\ h # <<>>
      /\ ToSet(s) \cap ToSet(h) = {}
      /\ list \in [Kinds -> [head : BlockOrNil, tail : BlockOrNil, count : Int]]
      /\ fwd \in [Blocks -> BlockOrNil] /\ back \in [Blocks -> BlockOrNil]
      /\ cnt[t] \in Nat
      /\ Nil \in BlockOrNil
  <2>1. /\ s \in Seq(Blocks) /\ Distinct(s) /\ Strung(fwd, back, list[k], s)
        /\ list[k].count = Len(s) /\ ToSet(s) \cap ToSet(h) = {}
    BY Separate
  <2>2. h \in Seq(Blocks) /\ (h = <<>> <=> cnt[t] = 0) BY HeldType
  <2>3. Len(s) \in Nat BY <2>1, SetOf
  <2>4. Holds(fwd, back, a, z, cnt[t], h) BY DEF Wired, Linked
  <2>5. /\ list \in [Kinds -> [head : BlockOrNil, tail : BlockOrNil, count : Int]]
        /\ fwd \in [Blocks -> BlockOrNil] /\ back \in [Blocks -> BlockOrNil]
        /\ cnt[t] \in Nat
    BY DEF Wired, Pointers
  <2>6. Nil \in BlockOrNil BY DEF BlockOrNil
  <2>7. QED BY <2>1, <2>2, <2>3, <2>4, <2>5, <2>6
<1>2. /\ a \in ToSet(h) /\ z \in ToSet(h) /\ a \in Blocks /\ z \in Blocks
      /\ a # Nil /\ z # Nil
      /\ cnt[t] = 1 => a = z
  <2>1. /\ a = h[1] /\ z = h[Len(h)] /\ 1 \in 1 .. Len(h) /\ Len(h) \in 1 .. Len(h)
        /\ Len(h) = cnt[t]
    BY <1>1, SetOf DEF Holds
  <2>2. a \in ToSet(h) /\ z \in ToSet(h) /\ a \in Blocks /\ z \in Blocks
    BY <1>1, <2>1, SetOf
  <2>3. QED BY <2>1, <2>2, NilAssumption
<1>3. /\ l \in BlockOrNil
      /\ s = <<>> => l = Nil
      /\ s # <<>> => l \in ToSet(s) /\ l \in Blocks /\ l # Nil /\ l # a /\ l # z
  <2>1. s # <<>> => l = s[Len(s)] /\ Len(s) \in 1 .. Len(s) BY <1>1, SetOf DEF Strung
  <2>2. s # <<>> => l \in ToSet(s) /\ l \in Blocks BY <1>1, <2>1, SetOf
  <2>3. QED BY <1>1, <1>2, <2>2, NilAssumption DEF Strung
<1>4. /\ cur[mutex[k]] = l /\ BlockOrNil = Blocks \cup {Nil}
      /\ a \in BlockOrNil /\ z \in BlockOrNil
  BY <1>2 DEF BlockOrNil
<1>a. /\ fwd \in [Blocks -> BlockOrNil] /\ back \in [Blocks -> BlockOrNil]
      /\ a \in BlockOrNil /\ z \in BlockOrNil /\ l \in BlockOrNil /\ Nil \in BlockOrNil
  BY <1>1, <1>3, <1>4
<1> HIDE DEF s, h, a, z, l
<1>5. /\ list' = [list EXCEPT ![k] = [head |-> IF l = Nil THEN a ELSE list[k].head,
                                      tail |-> z, count |-> list[k].count + cnt[t]]]
      /\ fwd' \in [Blocks -> BlockOrNil] /\ back' \in [Blocks -> BlockOrNil]
      /\ fwd'[z] = Nil
      /\ l # Nil => fwd'[l] = a /\ back'[a] = l
      /\ l = Nil => back'[a] = Nil
      /\ \A b \in Blocks : b # z /\ b # l => fwd'[b] = fwd[b]
      /\ \A b \in Blocks : b # a => back'[b] = back[b]
  <2>1. CASE AddList(k, a, z, cnt[t]) /\ (k = "used" => fwd[z] = Nil /\ back[a] = Nil)
    <3>1. /\ list' = [list EXCEPT ![k] = [head |-> IF l = Nil THEN a ELSE list[k].head,
                                          tail |-> z, count |-> list[k].count + cnt[t]]]
          /\ fwd' = IF k = "free" THEN Link(Link(fwd, l, a), z, Nil) ELSE Link(fwd, l, a)
          /\ back' = IF k = "free" \/ l # Nil THEN Link(back, a, l) ELSE back
      BY <1>2, <1>4, <2>1 DEF AddList
    <3> DEFINE f == Link(fwd, l, a)
               f2 == Link(f, z, Nil)
               g == Link(back, a, l)
    <3>2. /\ f \in [Blocks -> BlockOrNil]
          /\ l \in Blocks => f[l] = a
          /\ \A x \in Blocks : x # l => f[x] = fwd[x]
      BY <1>a, NilAssumption DEF Link, BlockOrNil
    <3> HIDE DEF f
    <3>3. /\ f2 \in [Blocks -> BlockOrNil]
          /\ z \in Blocks => f2[z] = Nil
          /\ \A x \in Blocks : x # z => f2[x] = f[x]
      BY <1>1, <1>4, <3>2, LinkIs
    <3>4. /\ g \in [Blocks -> BlockOrNil]
          /\ a \in Blocks => g[a] = l
          /\ \A x \in Blocks : x # a => g[x] = back[x]
      BY <1>a, NilAssumption DEF Link, BlockOrNil
    <3> HIDE DEF f2, g
    <3>5. l # Nil => l \in Blocks /\ l # z BY <1>3
    <3>6. k = "used" \/ k = "free" BY DEF Kinds
    <3>7. CASE k = "free"
      <4>1. fwd' = f2 /\ back' = g BY <3>1, <3>7 DEF f, f2, g
      <4>2. QED BY <1>2, <3>1, <3>2, <3>3, <3>4, <3>5, <4>1
    <3>8. CASE k = "used"
      <4>1. fwd' = f /\ (l # Nil => back' = g) /\ (l = Nil => back' = back)
        BY <3>1, <3>8 DEF f, g
      <4>2. fwd[z] = Nil /\ back[a] = Nil BY <2>1, <3>8
      <4>3. z # l BY <1>2, <1>3
      <4>4. QED BY <1>1, <1>2, <3>1, <3>2, <3>4, <3>5, <4>1, <4>2, <4>3
    <3>9. QED BY <3>6, <3>7, <3>8
  <2>2. CASE Add(k, a) /\ cnt[t] = 1
    <3>1. Len(s) < QueueSize
      BY <1>1, <1>2, Q!RoomForOne, QueueAssumption, NoMsgAssumption
      DEF Message, Q!Message, Blocks, Q!Blocks, ToSet, Q!ToSet, Distinct, Q!Distinct
    <3>2. ~ (list[k].count >= QueueSize) BY <1>1, <3>1, QueueAssumption
    <3>3. /\ list' = [list EXCEPT ![k] = [head |-> IF l = Nil THEN a ELSE list[k].head,
                                          tail |-> a, count |-> list[k].count + 1]]
          /\ fwd' = Link(Link(fwd, l, a), a, Nil)
          /\ back' = Link(back, a, l)
      BY <1>4, <2>2, <3>2 DEF Add
    <3> DEFINE f == Link(fwd, l, a)
    <3>4. /\ f \in [Blocks -> BlockOrNil]
          /\ l \in Blocks => f[l] = a
          /\ \A x \in Blocks : x # l => f[x] = fwd[x]
      BY <1>a, NilAssumption DEF Link, BlockOrNil
    <3>f. fwd' = Link(f, a, Nil) BY <3>3
    <3>g. back' = Link(back, a, l) BY <3>3
    <3> HIDE DEF f
    <3>5. /\ fwd' \in [Blocks -> BlockOrNil]
          /\ a \in Blocks => fwd'[a] = Nil
          /\ \A x \in Blocks : x # a => fwd'[x] = f[x]
      BY <1>a, <3>f, <3>4, NilAssumption DEF Link, BlockOrNil
    <3>6. /\ back' \in [Blocks -> BlockOrNil]
          /\ a \in Blocks => back'[a] = l
          /\ \A x \in Blocks : x # a => back'[x] = back[x]
      BY <1>a, <3>g, NilAssumption DEF Link, BlockOrNil
    <3>7. a = z /\ (l # Nil => l \in Blocks /\ l # a) BY <1>2, <1>3, <2>2
    <3>8. QED BY <1>2, <2>2, <3>3, <3>4, <3>5, <3>6, <3>7
  <2>3. QED BY <2>1, <2>2 DEF a, z
<1>6. /\ list' \in [Kinds -> [head : BlockOrNil, tail : BlockOrNil, count : Int]]
      /\ list'[k].head = IF l = Nil THEN a ELSE list[k].head
      /\ list'[k].tail = z
      /\ list'[k].count = list[k].count + cnt[t]
      /\ \A j \in Kinds \ {k} : list'[j] = list[j]
  BY <1>1, <1>4, <1>5
<1>7. Strung(fwd', back', list'[k], s \o h)
  <2>1. \A b \in ToSet(s) \cup ToSet(h) : b \in Blocks BY <1>1, SetOf
  <2>2. /\ s # <<>> => fwd'[l] = a /\ back'[a] = l /\ list'[k].head = list[k].head
        /\ s = <<>> => back'[a] = Nil /\ list'[k].head = a
        /\ \A b \in ToSet(s) \cup ToSet(h) : b # z /\ b # l => fwd'[b] = fwd[b]
        /\ \A b \in ToSet(s) \cup ToSet(h) : b # a => back'[b] = back[b]
    BY <1>3, <1>5, <1>6, <2>1
  <2>3. l = list[k].tail BY DEF l
  <2>4. /\ Strung(fwd, back, list[k], s) /\ Holds(fwd, back, a, z, cnt[t], h) /\ h # <<>>
        /\ ToSet(s) \cap ToSet(h) = {} /\ fwd'[z] = Nil /\ list'[k].tail = z
    BY <1>1, <1>5, <1>6
  <2>5. Joining(fwd, back, fwd', back', list[k], list'[k], s, h, a, z, cnt[t])
    BY <2>2, <2>3, <2>4 DEF Joining
  <2>6. QED BY <2>5, StrungJoin
<1>8. ASSUME NEW b \in Blocks \ (ToSet(s) \cup ToSet(h))
      PROVE  fwd'[b] = fwd[b] /\ back'[b] = back[b]
  <2>1. b # a /\ b # z /\ b # l BY <1>2, <1>3, NilAssumption
  <2>2. QED BY <1>5, <2>1
<1>9. QED BY <1>5, <1>6, <1>7, <1>8 DEF s, h

-----------------------------------------------------------------------------
(* Write() below and above. *)

\* GetBlock() on the free list finds a block: a token stands for it.
LEMMA BlockThere ==
  ASSUME Wired, Above, NEW w \in Writers, pc[w] = "getblock"
  PROVE  Free # <<>> /\ list["free"].count # 0
<1>1. Places[w] = "alloc" BY AbovePlace, AboveTypes, AboveChain
<1>2. QED
  BY <1>1, Q!FreeThere, QueueAssumption, NoMsgAssumption DEF Message, Q!Message, Above

\* What is left of a list behind its head.
LEMMA RestIsTail ==
  ASSUME NEW s \in Seq(Blocks), s # <<>>
  PROVE  SubSeq(s, 2, Len(s)) = Tail(s)
<1> DEFINE u == SubSeq(s, 2, Len(s))
           v == Tail(s)
<1>1. Len(s) \in Nat /\ 1 \in 1 .. Len(s) /\ 1 + 1 = 2 BY SetOf
<1>2. u \in Seq(Blocks) /\ Len(u) = Len(s) - 1 /\ \A i \in 1 .. Len(u) : u[i] = s[1 + i]
  <2> DEFINE r == SubSeq(s, 1 + 1, Len(s))
  <2> DEFINE P(n) == LET rest == SubSeq(s, n + 1, Len(s)) IN
                     /\ rest \in Seq(Blocks)
                     /\ Len(rest) = Len(s) - n
                     /\ \A i \in 1 .. Len(rest) : rest[i] = s[n + i]
  <2>a. \A n \in 1 .. Len(s) : P(n) BY Cut
  <2> HIDE DEF P
  <2>b. P(1) BY <1>1, <2>a
  <2>1. r \in Seq(Blocks) /\ Len(r) = Len(s) - 1 /\ \A i \in 1 .. Len(r) : r[i] = s[1 + i]
    BY <2>b DEF P
  <2>2. r = u BY <1>1
  <2>3. QED BY <2>1, <2>2
<1>3. v \in Seq(Blocks) /\ Len(v) = Len(s) - 1 /\ \A i \in 1 .. Len(v) : v[i] = s[i + 1]
  BY HeadTailProperties
<1> HIDE DEF u, v
<1>4. \A i \in 1 .. Len(u) : u[i] = v[i] BY <1>1, <1>2, <1>3
<1>5. u = v BY <1>2, <1>3, <1>4, SeqEqual
<1>6. QED BY <1>5 DEF u, v

\* GetBlock() takes the head of the free list for the writer.
LEMMA PopFollows ==
  ASSUME Wired, Above, NEW w \in Writers, GetFreeBlock(w)
  PROVE  Follows
<1> DEFINE s == Chain("free")
           b == s[1]
           h == Held(w)
           K == {"free"}
<1>1. /\ w \in Threads /\ w \notin Readers /\ pc[w] = "getblock"
      /\ mutex["free"] = w /\ cur[w] = list["free"].head
      /\ "free" \in Kinds /\ K \in SUBSET Kinds /\ Kinds \ K = {"used"}
      /\ s \in Seq(Blocks) /\ s # <<>> /\ list["free"].count # 0
      /\ Strung(fwd, back, list["free"], s)
      /\ h \in Seq(Blocks) /\ h = AbsChain(w) /\ Len(h) = cnt[w]
      /\ Holds(fwd, back, first[w], last[w], cnt[w], h)
      /\ msg[w] \in Message /\ cnt[w] < NumBlocks(msg[w])
      /\ Chains[w] = h /\ Places[w] = "alloc"
  BY AboveTypes, BlockThere, Separate, HeldType, HeldWhere, AboveChain, AbovePlace
  DEF GetFreeBlock, Wired, Sections, Inside, Linked, Kinds, Free
<1>2. /\ Len(s) \in Nat /\ 1 \in 1 .. Len(s) /\ b \in Blocks /\ b \in ToSet(s)
      /\ cur[w] = b /\ b # Nil /\ ToSet(s) \in SUBSET Blocks /\ ToSet(h) \in SUBSET Blocks
  BY <1>1, SetOf, NilAssumption DEF Strung
<1>3. /\ RemoveTo("free", b, 1, FALSE)
      /\ mutex' = [mutex EXCEPT !["free"] = Nil]
      /\ pc' = [pc EXCEPT ![w] = "fill"]
      /\ UNCHANGED <<msg, cur, first, last, cnt, block, writeSem, readSem, sent, buf, got, owed>>
  BY <1>1, <1>2 DEF GetFreeBlock, Unlock, Goto
<1>4. /\ Strung(fwd', back', list'["free"], SubSeq(s, 2, Len(s)))
      /\ list' \in [Kinds -> [head : BlockOrNil, tail : BlockOrNil, count : Int]]
      /\ fwd' \in [Blocks -> BlockOrNil] /\ back' \in [Blocks -> BlockOrNil]
      /\ list'["free"].count = list["free"].count - 1
      /\ list'["used"] = list["used"]
      /\ \A x \in Blocks \ ToSet(s) : fwd'[x] = fwd[x] /\ back'[x] = back[x]
  <2>1. FALSE \in BOOLEAN /\ 1 + 1 = 2 /\ "used" \in Kinds \ {"free"} BY DEF Kinds
  <2>2. "free" \in Kinds /\ 1 \in 1 .. Len(s) /\ RemoveTo("free", s[1], 1, FALSE)
    BY <1>1, <1>2, <1>3
  <2>3. /\ Strung(fwd', back', list'["free"], SubSeq(s, 1 + 1, Len(s)))
        /\ list' \in [Kinds -> [head : BlockOrNil, tail : BlockOrNil, count : Int]]
        /\ fwd' \in [Blocks -> BlockOrNil] /\ back' \in [Blocks -> BlockOrNil]
        /\ list'["free"].count = list["free"].count - 1
        /\ \A j \in Kinds \ {"free"} : list'[j] = list[j]
        /\ \A x \in Blocks \ ToSet(s) : fwd'[x] = fwd[x] /\ back'[x] = back[x]
    BY <2>1, <2>2, ListShrinks
  <2> HIDE DEF s
  <2>4. QED BY <2>1, <2>3
<1> HIDE DEF s, b, h, K
<1>5. SubSeq(s, 2, Len(s)) = Tail(s) /\ b = Head(s) /\ Tail(s) \in Seq(Blocks)
  <2>1. b = Head(s) /\ Tail(s) \in Seq(Blocks) BY <1>1, HeadTailProperties DEF b
  <2>2. SubSeq(s, 2, Len(s)) = Tail(s) BY <1>1, <1>2, RestIsTail
  <2>3. QED BY <2>1, <2>2
<1>6. /\ \A u \in Threads : ToSet(Held(u)) \cap ToSet(s) = {}
      /\ \A u \in Threads : pc[u] = "fill" => cur[u] \notin ToSet(s)
      /\ ToSet(Chain("used")) \cap ToSet(s) = {}
  BY Separate DEF s, Kinds, Free, Used
<1>7. Pointers'
  BY <1>1, <1>2, <1>3, <1>4 DEF Wired, Pointers, Labels, Kinds
<1>8. /\ pc'[w] = "fill" /\ \A u \in Threads \ {w} : pc'[u] = pc[u]
      /\ mutex'["used"] = mutex["used"]
  BY <1>1, <1>3 DEF Wired, Pointers, Kinds
<1>9. Alters(w, K, ToSet(s))
  BY <1>1, <1>3, <1>4, <1>6, <1>8 DEF Alters, K
<1>10. Holds(fwd', back', first'[w], last'[w], cnt'[w], h)
  <2>1. \A x \in ToSet(h) : x \in Blocks \ ToSet(s) BY <1>1, <1>2, <1>6 DEF h
  <2>2. \A x \in ToSet(h) : fwd'[x] = fwd[x] /\ back'[x] = back[x] BY <1>4, <2>1
  <2>3. Holds(fwd', back', first[w], last[w], cnt[w], h) BY <1>1, <2>2, HoldsKept
  <2>4. QED BY <1>3, <2>3
<1>11. first'[w] # Nil /\ NumBlocks(msg'[w]) > 1 => fwd'[last'[w]] = Nil /\ back'[first'[w]] = Nil
  <2> SUFFICES ASSUME first[w] # Nil, NumBlocks(msg[w]) > 1
               PROVE  fwd'[last[w]] = Nil /\ back'[first[w]] = Nil
    BY <1>3
  <2>1. fwd[last[w]] = Nil /\ back[first[w]] = Nil BY DEF Wired, Loose
  <2>2. h # <<>> BY <1>1, HeldType DEF h
  <2>3. first[w] \in ToSet(h) /\ last[w] \in ToSet(h) BY <1>1, <2>2, SetOf DEF Holds
  <2>4. first[w] \in Blocks \ ToSet(s) /\ last[w] \in Blocks \ ToSet(s)
    BY <1>1, <1>2, <1>6, <2>3 DEF h
  <2>5. QED BY <1>4, <2>1, <2>4
<1>12. \A v \in Writers \ {w} : pc[v] = "fill" => cur[v] # b
  BY <1>2, <1>6, AboveTypes
<1>13. Repairs(w, K)
  <2>1. \A k \in K : \E u \in Seq(Blocks) : Strung(fwd', back', list'[k], u)
    BY <1>4, <1>5 DEF K
  <2>2. \E u \in Seq(Blocks) : Holds(fwd', back', first'[w], last'[w], cnt'[w], u)
    BY <1>1, <1>10
  <2>3. cur'[w] \in Blocks /\ \A v \in Writers \ {w} : pc[v] = "fill" => cur[v] # cur'[w]
    BY <1>2, <1>3, <1>12
  <2>4. w \notin Readers /\ pc'[w] = "fill" BY <1>1, <1>8
  <2>5. QED BY <1>7, <1>11, <2>1, <2>2, <2>3, <2>4 DEF Repairs
<1>14. /\ Wired' /\ Chain("used")' = Chain("used")
       /\ Chains' = [Chains EXCEPT ![w] = Chains'[w]]
       /\ Places' = [Places EXCEPT ![w] = Places'[w]]
  BY <1>1, <1>9, <1>13, AltersStep
<1>15. Chain("free")' = Tail(s) BY <1>1, <1>4, <1>5, StrungNext
<1>16. Chains'[w] = Append(h, b)
  <2>1. Chains'[w] = Held(w)' \o IF pc'[w] = "fill" THEN <<cur'[w]>> ELSE <<>>
    BY <1>1 DEF Chains, AbsChain, Held
  <2>2. Held(w)' = h BY <1>1, <1>10, HoldsNext
  <2>3. Append(h, b) = h \o <<b>> BY <1>1, <1>2, OneBlock
  <2>4. QED BY <1>2, <1>3, <1>8, <2>1, <2>2, <2>3
<1>17. Places'[w] = IF Len(h) + 1 < NumBlocks(msg[w]) THEN "wsem" ELSE "append"
  <2>1. Places'[w] = AbsPc(w)' BY <1>1 DEF Places
  <2>2. AbsPc(w)' = IF cnt'[w] + 1 < NumBlocks(msg'[w]) THEN "wsem" ELSE "append"
    BY <1>8 DEF AbsPc
  <2>3. QED BY <1>1, <1>3, <2>1, <2>2
<1>18. Data' = [Data EXCEPT ![b] = Filled(msg[w], Len(h) + 1)]
  <2>1. Stages /\ Stages' BY <1>14 DEF Wired
  <2>2. ASSUME NEW x \in Blocks, x # b PROVE AbsBlock(x)' = AbsBlock(x)
    <3>1. ASSUME NEW v \in Writers
          PROVE  pc'[v] = "fill" /\ cur'[v] = x <=> pc[v] = "fill" /\ cur[v] = x
      <4>1. CASE v = w BY <1>1, <1>2, <1>3, <2>2, <4>1
      <4>2. CASE v # w BY <1>3, <1>8, <4>2, AboveTypes
      <4>3. QED BY <4>1, <4>2
    <3>2. QED BY <1>3, <2>1, <3>1, DataSame
  <2>3. ASSUME NEW x \in Blocks, x = b PROVE AbsBlock(x)' = Filled(msg[w], Len(h) + 1)
    <3>1. AbsBlock(x)' = Filled(msg'[w], cnt'[w] + 1) BY <1>2, <1>3, <1>8, <2>1, <2>3, DataNext
    <3>2. QED BY <1>1, <1>3, <3>1
  <2>4. QED BY <2>2, <2>3 DEF Data
<1>19. /\ Free = s /\ Free' = Tail(s) /\ Used' = Used /\ list'.free.count = list.free.count - 1
       /\ list'.used.count = list.used.count /\ list.free.count # 0
  BY <1>1, <1>4, <1>14, <1>15 DEF Free, Used, s
<1>20. Q!AllocBlock(w)
  BY <1>1, <1>3, <1>5, <1>14, <1>16, <1>17, <1>18, <1>19, SameData
  DEF Q!AllocBlock, Q!Goto
<1>21. QED BY <1>14, <1>20 DEF Follows, Q!Next, Q!WriteStep

\* What the links f2 and g2 are, once block b is behind the chain h from a to z, which then
\* starts at c.
Extending(f, g, f2, g2, a, z, n, h, b, c) ==
    /\ Holds(f, g, a, z, n, h) /\ b \in Blocks /\ b \notin ToSet(h)
    /\ h # <<>> => f2[z] = b /\ g2[b] = z /\ c = a
    /\ h = <<>> => c = b
    /\ \A x \in ToSet(h) : x # z => f2[x] = f[x]
    /\ \A x \in ToSet(h) : g2[x] = g[x]

\* They make the longer chain.
LEMMA HoldsMore ==
  ASSUME NEW f, NEW g, NEW f2, NEW g2, NEW a, NEW z, NEW n, NEW h, NEW b, NEW c,
         Extending(f, g, f2, g2, a, z, n, h, b, c)
  PROVE  Holds(f2, g2, c, b, n + 1, h \o <<b>>)
<1> USE DEF Extending
<1> DEFINE d == <<b>>
           v == h \o d
<1>1. /\ h \in Seq(Blocks) /\ Distinct(h) /\ Chained(f, g, h) /\ n = Len(h)
      /\ Len(h) \in Nat
      /\ \A i \in 1 .. Len(h) : h[i] \in ToSet(h)
      /\ h = <<>> <=> Len(h) = 0
      /\ h # <<>> => a = h[1] /\ z = h[Len(h)] /\ 1 \in 1 .. Len(h) /\ Len(h) \in 1 .. Len(h)
  BY SetOf DEF Holds
<1>2. /\ d \in Seq(Blocks) /\ Len(d) = 1 /\ d[1] = b /\ Distinct(d) /\ ToSet(d) = {b}
      /\ d # <<>>
  BY OneBlock
<1> HIDE DEF d
<1>3. /\ v \in Seq(Blocks) /\ Distinct(v) /\ Len(v) = Len(h) + 1
      /\ \A i \in 1 .. Len(h) : v[i] = h[i]
      /\ v[Len(h) + 1] = b
  <2>1. ToSet(h) \cap ToSet(d) = {} /\ 1 \in 1 .. Len(d) BY <1>2
  <2>2. QED BY <1>1, <1>2, <2>1, Joined
<1>4. Chained(f2, g2, h)
  <2>1. ASSUME NEW i \in 1 .. Len(h) - 1
        PROVE  f2[h[i]] = f[h[i]] /\ g2[h[i + 1]] = g[h[i + 1]]
    <3>1. i \in 1 .. Len(h) /\ i + 1 \in 1 .. Len(h) /\ i # Len(h) /\ Len(h) # 0 BY <1>1
    <3>2. h[i] # z BY <1>1, <3>1 DEF Distinct
    <3>3. QED BY <1>1, <3>1, <3>2
  <2>2. QED BY <1>1, <2>1, ChainedKept
<1>5. Chained(f2, g2, d)
  <2>1. 1 .. Len(d) - 1 = {} BY <1>2
  <2>2. QED BY <2>1 DEF Chained
<1>6. Chained(f2, g2, v) BY <1>1, <1>2, <1>4, <1>5, ChainedJoin
<1> HIDE DEF v
<1>7. v # <<>> /\ v[Len(v)] = b /\ v[1] = c
  <2>1. v # <<>> /\ v[Len(v)] = b BY <1>1, <1>3, SetOf
  <2>2. CASE h = <<>>
    <3>1. Len(h) + 1 = 1 BY <1>1, <2>2
    <3>2. QED BY <1>3, <2>1, <2>2, <3>1
  <2>3. CASE h # <<>> BY <1>1, <1>3, <2>1, <2>3
  <2>4. QED BY <2>2, <2>3
<1>8. Holds(f2, g2, c, b, n + 1, v) BY <1>1, <1>3, <1>6, <1>7 DEF Holds
<1>9. QED BY <1>8 DEF v, d

\* The copy into the block, and its links, are not seen above.
LEMMA FillFollows ==
  ASSUME Wired, Above, NEW w \in Writers, FillBlock(w)
  PROVE  Follows
<1>1. /\ w \in Threads /\ w \notin Readers /\ pc[w] = "fill" /\ cur[w] \in Blocks
      /\ Held(w) \in Seq(Blocks) /\ Len(Held(w)) = cnt[w] /\ cnt[w] \in Nat
      /\ Holds(fwd, back, first[w], last[w], cnt[w], Held(w))
      /\ Chains[w] = Held(w) \o <<cur[w]>> /\ Places[w] = AbsPc(w)
      /\ msg[w] \in Message /\ NumBlocks(msg[w]) \in Nat \ {0} /\ cnt[w] < NumBlocks(msg[w])
      /\ first[w] # Nil /\ NumBlocks(msg[w]) > 1 => fwd[last[w]] = Nil /\ back[first[w]] = Nil
      /\ Held(w) = <<>> <=> cnt[w] = 0
      /\ Held(w) = <<>> <=> first[w] = Nil
      /\ Held(w) = <<>> <=> last[w] = Nil
      /\ fwd \in [Blocks -> BlockOrNil] /\ back \in [Blocks -> BlockOrNil]
      /\ last[w] \in BlockOrNil
  BY AboveTypes, HeldType, HeldWhere, AboveChain
  DEF FillBlock, Wired, Pointers, Linked, Loose
<1>2. PICK b \in Blocks : b = cur[w] BY <1>1
<1>3. PICK h \in Seq(Blocks) : h = Held(w) BY <1>1
<1>4. PICK p \in BlockOrNil : p = last[w] BY <1>1
<1>5. PICK a : a = first[w] OBVIOUS
<1>6. PICK n \in Nat : n = cnt[w] BY <1>1
<1>7. PICK m \in Message : m = msg[w] /\ NumBlocks(m) \in Nat \ {0} BY <1>1
<1>8. /\ b \notin ToSet(h) /\ ToSet(h) \in SUBSET Blocks
      /\ \A k \in Kinds : b \notin ToSet(Chain(k)) /\ ToSet(h) \cap ToSet(Chain(k)) = {}
      /\ \A u \in Threads \ {w} : b \notin ToSet(Held(u)) /\ ToSet(h) \cap ToSet(Held(u)) = {}
  BY <1>1, <1>2, <1>3, Separate, SetOf
<1>9. /\ block' = [block EXCEPT ![b] = Filled(m, n + 1)]
      /\ \/ NumBlocks(m) > 1 /\ fwd' = Link(Link(fwd, p, b), b, Nil) /\ back' = Link(back, b, p)
         \/ ~ (NumBlocks(m) > 1) /\ fwd' = fwd /\ back' = back
      /\ first' = [first EXCEPT ![w] = IF @ = Nil THEN b ELSE @]
      /\ last' = [last EXCEPT ![w] = b]
      /\ cnt' = [cnt EXCEPT ![w] = n + 1]
      /\ cur' = [cur EXCEPT ![w] = Nil]
      /\ pc' = [pc EXCEPT ![w] = IF n + 1 < NumBlocks(m) THEN "wsem" ELSE "rlock"]
      /\ UNCHANGED <<list, mutex, writeSem, readSem, msg, sent, buf, got, owed>>
  BY <1>2, <1>4, <1>6, <1>7 DEF FillBlock, Goto
<1>10. /\ pc[w] = "fill" /\ Chains[w] = h \o <<b>> /\ Len(h) = n /\ n < NumBlocks(m)
       /\ Holds(fwd, back, a, p, n, h)
       /\ a # Nil /\ NumBlocks(m) > 1 => fwd[p] = Nil /\ back[a] = Nil
       /\ h = <<>> <=> n = 0
       /\ h = <<>> <=> a = Nil
       /\ h = <<>> <=> p = Nil
       /\ fwd \in [Blocks -> BlockOrNil] /\ back \in [Blocks -> BlockOrNil]
       /\ h # <<>> => a \in ToSet(h) /\ p \in ToSet(h)
  <2>1. h # <<>> => first[w] \in ToSet(h) /\ last[w] \in ToSet(h)
    BY <1>1, <1>3, SetOf DEF Holds
  <2>2. QED BY <1>1, <1>2, <1>3, <1>4, <1>5, <1>6, <1>7, <2>1
<1>11. /\ b # Nil /\ b \in BlockOrNil /\ Nil \in BlockOrNil
       /\ h # <<>> => p \in Blocks /\ p # Nil /\ p # b /\ a # b
  BY <1>8, <1>10, NilAssumption DEF BlockOrNil
<1>12. PICK c : c = IF a = Nil THEN b ELSE a OBVIOUS
<1>13. /\ fwd' \in [Blocks -> BlockOrNil] /\ back' \in [Blocks -> BlockOrNil]
       /\ NumBlocks(m) > 1 => /\ fwd'[b] = Nil /\ back'[b] = p
                              /\ h # <<>> => fwd'[p] = b
       /\ \A x \in Blocks : x # b /\ x # p => fwd'[x] = fwd[x]
       /\ \A x \in Blocks : x # b => back'[x] = back[x]
  <2>1. CASE ~ (NumBlocks(m) > 1) BY <1>9, <1>10, <2>1
  <2>2. CASE NumBlocks(m) > 1
    <3> DEFINE f == Link(fwd, p, b)
    <3>1. fwd' = Link(f, b, Nil) /\ back' = Link(back, b, p) BY <1>9, <2>2
    <3>2. /\ f \in [Blocks -> BlockOrNil]
          /\ p \in Blocks => f[p] = b
          /\ \A x \in Blocks : x # p => f[x] = fwd[x]
      BY <1>10, <1>11, NilAssumption DEF Link, BlockOrNil
    <3> HIDE DEF f
    <3>3. /\ fwd' \in [Blocks -> BlockOrNil] /\ fwd'[b] = Nil
          /\ \A x \in Blocks : x # b => fwd'[x] = f[x]
      BY <1>11, <3>1, <3>2, NilAssumption DEF Link, BlockOrNil
    <3>4. /\ back' \in [Blocks -> BlockOrNil] /\ back'[b] = p
          /\ \A x \in Blocks : x # b => back'[x] = back[x]
      BY <1>10, <1>11, <3>1, NilAssumption DEF Link, BlockOrNil
    <3>5. QED BY <1>11, <3>2, <3>3, <3>4
  <2>3. QED BY <2>1, <2>2
<1>14. Extending(fwd, back, fwd', back', a, p, n, h, b, c)
  <2>1. h # <<>> => fwd'[p] = b /\ back'[b] = p /\ c = a
    <3> SUFFICES ASSUME h # <<>> PROVE fwd'[p] = b /\ back'[b] = p /\ c = a OBVIOUS
    <3>1. NumBlocks(m) > 1 BY <1>7, <1>10
    <3>2. QED BY <1>10, <1>12, <1>13, <3>1
  <2>2. \A x \in ToSet(h) : x \in Blocks /\ x # b BY <1>8
  <2>3. QED BY <1>8, <1>10, <1>12, <1>13, <2>1, <2>2 DEF Extending
<1>15. Holds(fwd', back', c, b, n + 1, h \o <<b>>) BY <1>14, HoldsMore
<1>16. first'[w] = c /\ last'[w] = b /\ cnt'[w] = n + 1 /\ cur'[w] = Nil
       /\ \A u \in Threads \ {w} : /\ pc'[u] = pc[u] /\ cur'[u] = cur[u]
                                   /\ first'[u] = first[u] /\ last'[u] = last[u] /\ cnt'[u] = cnt[u]
  BY <1>1, <1>5, <1>9, <1>12 DEF Wired, Pointers
<1>17. pc'[w] = IF n + 1 < NumBlocks(m) THEN "wsem" ELSE "rlock"
  BY <1>1, <1>9 DEF Wired, Pointers
<1>18. Pointers'
  <2>1. c \in BlockOrNil BY <1>1, <1>5, <1>11, <1>12 DEF Wired, Pointers
  <2>2. first' \in [Threads -> BlockOrNil] /\ last' \in [Threads -> BlockOrNil]
        /\ cnt' \in [Threads -> Nat] /\ cur' \in [Threads -> BlockOrNil]
    <3>1. first' = [first EXCEPT ![w] = c] BY <1>5, <1>9, <1>12
    <3>2. n + 1 \in Nat OBVIOUS
    <3>3. first' \in [Threads -> BlockOrNil] BY <2>1, <3>1 DEF Wired, Pointers
    <3>4. QED BY <1>9, <1>11, <3>2, <3>3 DEF Wired, Pointers
  <2>3. block' \in [Blocks -> Q!Contents]
    <3>1. Filled(m, n + 1) \in Q!Contents
      <4>1. m \in Q!Message /\ n + 1 \in Nat /\ Q!Filled(m, n + 1) = Filled(m, n + 1)
        BY SameData
      <4>2. QED BY <4>1, Q!FilledType, QueueAssumption, NoMsgAssumption DEF Message, Q!Message
    <3>2. QED BY <1>9, <3>1 DEF Wired, Pointers
  <2>4. pc' \in [Threads -> Labels] BY <1>9 DEF Wired, Pointers, Labels
  <2>5. list' = list /\ mutex' = mutex BY <1>9
  <2>6. QED BY <1>13, <2>2, <2>3, <2>4, <2>5 DEF Wired, Pointers
<1>19. PICK B : B = {b} \cup ToSet(h) OBVIOUS
<1>20. Alters(w, {}, B)
  <2>1. \A x \in Blocks \ B : x # b /\ x # p BY <1>10, <1>11, <1>19, NilAssumption
  <2>2. \A x \in Blocks \ B : fwd'[x] = fwd[x] /\ back'[x] = back[x] BY <1>13, <2>1
  <2>3. \A j \in Kinds : list'[j] = list[j] /\ mutex'[j] = mutex[j] /\ ToSet(Chain(j)) \cap B = {}
    BY <1>8, <1>9, <1>19
  <2>4. \A u \in Threads \ {w} : ToSet(Held(u)) \cap B = {} BY <1>8, <1>19
  <2>5. \A v \in Writers \ {w} : msg'[v] = msg[v] BY <1>9
  <2>6. QED BY <1>16, <2>2, <2>3, <2>4, <2>5 DEF Alters
<1>21. Repairs(w, {})
  <2>1. h \o <<b>> \in Seq(Blocks) BY <1>15 DEF Holds
  <2>2. \E s \in Seq(Blocks) : Holds(fwd', back', first'[w], last'[w], cnt'[w], s)
    BY <1>15, <1>16, <2>1
  <2>3. NumBlocks(m) > 1 => fwd'[b] = Nil /\ back'[c] = Nil
    <3> SUFFICES ASSUME NumBlocks(m) > 1 PROVE fwd'[b] = Nil /\ back'[c] = Nil OBVIOUS
    <3>1. CASE a = Nil BY <1>10, <1>12, <1>13, <3>1
    <3>2. CASE a # Nil
      <4>1. a \in Blocks /\ a # b /\ back[a] = Nil BY <1>8, <1>10, <1>11, <3>2
      <4>2. QED BY <1>12, <1>13, <3>2, <4>1
    <3>3. QED BY <3>1, <3>2
  <2>4. msg'[w] = m BY <1>7, <1>9
  <2>5. pc'[w] \in {"wsem", "rlock"} BY <1>17
  <2>6. QED BY <1>1, <1>16, <1>18, <2>2, <2>3, <2>4, <2>5 DEF Repairs
<1>22. /\ Wired' /\ \A j \in Kinds : Chain(j)' = Chain(j)
       /\ Chains' = [Chains EXCEPT ![w] = Chains'[w]]
       /\ Places' = [Places EXCEPT ![w] = Places'[w]]
  BY <1>1, <1>20, <1>21, AltersStep
<1>23. Chains'[w] = Chains[w]
  <2>1. Chains'[w] = Held(w)' \o IF pc'[w] = "fill" THEN <<cur'[w]>> ELSE <<>>
    BY <1>1 DEF Chains, AbsChain, Held
  <2> DEFINE v == h \o <<b>>
  <2>2. v \in Seq(Blocks) BY <1>15 DEF Holds
  <2>3. Held(w)' = v BY <1>1, <1>15, <1>16, <2>2, HoldsNext
  <2>4. pc'[w] # "fill" BY <1>17
  <2> HIDE DEF v
  <2>5. Chains'[w] = v BY <2>1, <2>2, <2>3, <2>4, ConcatEmptySeq
  <2>6. QED BY <1>10, <2>5 DEF v
<1>24. Places'[w] = Places[w]
  <2>1. Places[w] = IF n + 1 < NumBlocks(m) THEN "wsem" ELSE "append"
    BY <1>1, <1>6, <1>7, AbovePlace
  <2>2. Places'[w] = AbsPc(w)' BY <1>1 DEF Places
  <2>3. CASE n + 1 < NumBlocks(m)
    <3>1. pc'[w] = "wsem" BY <1>17, <2>3
    <3>2. AbsPc(w)' = "wsem" BY <3>1 DEF AbsPc
    <3>3. QED BY <2>1, <2>2, <2>3, <3>2
  <2>4. CASE ~ (n + 1 < NumBlocks(m))
    <3>1. pc'[w] = "rlock" BY <1>17, <2>4
    <3>2. AbsPc(w)' = "append" BY <3>1 DEF AbsPc
    <3>3. QED BY <2>1, <2>2, <2>4, <3>2
  <2>5. QED BY <2>3, <2>4
<1>25. Data' = Data
  <2>1. Stages /\ Stages' BY <1>22 DEF Wired
  <2>2. ASSUME NEW x \in Blocks, x # b PROVE AbsBlock(x)' = AbsBlock(x)
    <3>1. ASSUME NEW v \in Writers
          PROVE  /\ pc'[v] = "fill" /\ cur'[v] = x <=> pc[v] = "fill" /\ cur[v] = x
                 /\ pc[v] = "fill" /\ cur[v] = x => msg'[v] = msg[v] /\ cnt'[v] = cnt[v]
      <4>1. CASE v = w BY <1>2, <1>16, <1>17, <2>2, <4>1
      <4>2. CASE v # w BY <1>9, <1>16, <4>2, AboveTypes
      <4>3. QED BY <4>1, <4>2
    <3>2. block'[x] = block[x] BY <1>9, <2>2
    <3>3. QED BY <2>1, <3>1, <3>2, DataSame
  <2>3. AbsBlock(b)' = AbsBlock(b)
    <3>1. AbsBlock(b) = Filled(m, n + 1) BY <1>1, <1>2, <1>6, <1>7, <2>1, DataIs
    <3>2. \A v \in Writers : ~ (pc'[v] = "fill" /\ cur'[v] = b)
      <4> TAKE v \in Writers
      <4>1. CASE v = w BY <1>17, <4>1
      <4>2. CASE v # w
        <5>1. v \in Threads \ {w} BY <4>2, AboveTypes
        <5>2. ~ (pc[v] = "fill" /\ cur[v] = b) BY <1>1, <1>2, <2>1, <4>2 DEF Stages
        <5>3. QED BY <1>16, <5>1, <5>2
      <4>3. QED BY <4>1, <4>2
    <3>3. AbsBlock(b)' = block'[b] BY <2>1, <3>2, DataNext
    <3>4. block'[b] = Filled(m, n + 1) BY <1>9 DEF Wired, Pointers
    <3>5. QED BY <3>1, <3>3, <3>4
  <2>4. QED BY <2>2, <2>3 DEF Data
<1>26. Free' = Free /\ Used' = Used BY <1>22 DEF Free, Used, Kinds
<1>27. Chains' = Chains /\ Places' = Places
  <2>1. Chains = [u \in Threads |-> Chains[u]] /\ Places = [u \in Threads |-> Places[u]]
    BY AboveTypes
  <2>2. QED BY <1>22, <1>23, <1>24, <2>1
<1>28. Q!vars' = Q!vars BY <1>9, <1>25, <1>26, <1>27 DEF Q!vars
<1>29. QED BY <1>22, <1>28 DEF Follows

-----------------------------------------------------------------------------
(* Blocks that go behind the tail of a list. *)

\* A thread t that puts what it holds on list k, in t's section, and holds nothing then.
HandsOver(t, k, label) ==
    /\ mutex[k] = t /\ cur[t] = list[k].tail /\ Held(t) # <<>> /\ pc[t] # "fill"
    /\ \/ /\ AddList(k, first[t], last[t], cnt[t])
          /\ k = "used" => fwd[last[t]] = Nil /\ back[first[t]] = Nil
       \/ Add(k, first[t]) /\ cnt[t] = 1
    /\ mutex' = [mutex EXCEPT ![k] = Nil]
    /\ Forget(t)
    /\ pc' = [pc EXCEPT ![t] = label]
    /\ t \in Writers => label \in {"post", "idle"}
    /\ t \in Readers => label = "release"
    /\ \A w \in Writers \ {t} : msg'[w] = msg[w]
    /\ block' = block

\* What is seen of it above.
LEMMA HandedOver ==
  ASSUME Wired, Above, NEW t \in Threads, NEW k \in Kinds, NEW label \in Labels,
         HandsOver(t, k, label)
  PROVE  /\ Wired'
         /\ Chain(k)' = Chain(k) \o Held(t)
         /\ list'[k].count = list[k].count + Len(Held(t))
         /\ \A j \in Kinds \ {k} : Chain(j)' = Chain(j) /\ list'[j] = list[j]
         /\ Data' = Data
         /\ Chains[t] = Held(t)
         /\ Chains' = [Chains EXCEPT ![t] = <<>>]
         /\ Places' = [Places EXCEPT ![t] = label]
<1>1. /\ mutex[k] = t /\ pc[t] # "fill"
      /\ mutex' = [mutex EXCEPT ![k] = Nil] /\ pc' = [pc EXCEPT ![t] = label]
      /\ \A w \in Writers \ {t} : msg'[w] = msg[w]
      /\ block' = block
      /\ Forget(t)
      /\ Held(t) \in Seq(Blocks) /\ Len(Held(t)) = cnt[t]
      /\ Chains[t] = Held(t)
      /\ Chain(k) \in Seq(Blocks)
  BY HeldType, AboveChain, Separate DEF HandsOver
<1>2. PICK s \in Seq(Blocks) : s = Chain(k) BY <1>1
<1>3. PICK h \in Seq(Blocks) : h = Held(t) BY <1>1
<1>4. /\ Strung(fwd', back', list'[k], s \o h)
      /\ list' \in [Kinds -> [head : BlockOrNil, tail : BlockOrNil, count : Int]]
      /\ fwd' \in [Blocks -> BlockOrNil] /\ back' \in [Blocks -> BlockOrNil]
      /\ list'[k].count = list[k].count + cnt[t]
      /\ \A j \in Kinds \ {k} : list'[j] = list[j]
      /\ \A b \in Blocks \ (ToSet(s) \cup ToSet(h)) : fwd'[b] = fwd[b] /\ back'[b] = back[b]
  BY <1>2, <1>3, ListGrows DEF HandsOver
<1>5. PICK B : B = ToSet(s) \cup ToSet(h) OBVIOUS
<1>6. /\ cur' = [cur EXCEPT ![t] = Nil] /\ first' = [first EXCEPT ![t] = Nil]
      /\ last' = [last EXCEPT ![t] = Nil] /\ cnt' = [cnt EXCEPT ![t] = 0]
  BY <1>1 DEF Forget
<1>7. /\ cur'[t] = Nil /\ first'[t] = Nil /\ last'[t] = Nil /\ cnt'[t] = 0 /\ pc'[t] = label
      /\ \A u \in Threads \ {t} :
            /\ pc'[u] = pc[u] /\ cur'[u] = cur[u]
            /\ first'[u] = first[u] /\ last'[u] = last[u] /\ cnt'[u] = cnt[u]
      /\ \A j \in Kinds \ {k} : mutex'[j] = mutex[j]
  BY <1>1, <1>6 DEF Wired, Pointers
<1>8. Pointers'
  <2>1. Nil \in BlockOrNil /\ 0 \in Nat BY DEF BlockOrNil
  <2>2. QED BY <1>1, <1>4, <1>6, <2>1 DEF Wired, Pointers
<1>9. /\ label \in {"post", "idle", "release"}
      /\ t \in Writers => label \in {"post", "idle"}
      /\ t \in Readers => label = "release"
  BY DEF HandsOver, Threads
<1>10. Alters(t, {k}, B)
  <2>1. \A j \in Kinds \ {k} : ToSet(Chain(j)) \cap B = {}
    <3> TAKE j \in Kinds \ {k}
    <3>1. ToSet(Chain(j)) \cap ToSet(s) = {} BY <1>2, Separate DEF Kinds, Free, Used
    <3>2. ToSet(Chain(j)) \cap ToSet(h) = {} BY <1>3, Separate
    <3>3. QED BY <1>5, <3>1, <3>2
  <2>2. \A u \in Threads \ {t} : ToSet(Held(u)) \cap B = {}
    <3> TAKE u \in Threads \ {t}
    <3>1. ToSet(Held(u)) \cap ToSet(s) = {} BY <1>2, Separate
    <3>2. ToSet(Held(u)) \cap ToSet(h) = {} BY <1>3, Separate
    <3>3. QED BY <1>5, <3>1, <3>2
  <2>3. QED BY <1>1, <1>4, <1>5, <1>7, <2>1, <2>2 DEF Alters
<1>11. Holds(fwd', back', first'[t], last'[t], cnt'[t], <<>>)
  <2>1. <<>> \in Seq(Blocks) /\ Len(<<>>) = 0 /\ 1 .. Len(<<>>) = {} /\ 1 .. Len(<<>>) - 1 = {}
    OBVIOUS
  <2>2. QED BY <1>7, <2>1 DEF Holds, Distinct, Chained
<1>12. s \o h \in Seq(Blocks) /\ <<>> \in Seq(Blocks) BY Joined
<1>13. Repairs(t, {k})
  BY <1>4, <1>7, <1>8, <1>9, <1>11, <1>12 DEF Repairs
<1>14. /\ Wired' /\ \A j \in Kinds \ {k} : Chain(j)' = Chain(j)
       /\ Chains' = [Chains EXCEPT ![t] = Chains'[t]]
       /\ Places' = [Places EXCEPT ![t] = Places'[t]]
  <2>1. {k} \in SUBSET Kinds OBVIOUS
  <2>2. QED BY <1>10, <1>13, <2>1, AltersStep
<1>15. Chain(k)' = s \o h BY <1>4, <1>12, StrungNext
<1>16. Chains'[t] = <<>>
  <2>1. Chains'[t] = Held(t)' \o IF pc'[t] = "fill" THEN <<cur'[t]>> ELSE <<>>
    BY DEF Chains, AbsChain, Held
  <2>2. Held(t)' = <<>> BY <1>11, <1>12, HoldsNext
  <2>3. pc'[t] # "fill" BY <1>7, <1>9
  <2>4. QED BY <2>1, <2>2, <2>3
<1>17. Places'[t] = label
  <2>1. Places'[t] = AbsPc(t)' BY DEF Places
  <2>2. AbsPc(t)' = label BY <1>7, <1>9 DEF AbsPc
  <2>3. QED BY <2>1, <2>2
<1>18. Data' = Data
  <2>1. \A w \in Writers :
          \/ pc[w] # "fill" /\ pc'[w] # "fill"
          \/ pc'[w] = pc[w] /\ cur'[w] = cur[w] /\ msg'[w] = msg[w] /\ cnt'[w] = cnt[w]
    BY <1>1, <1>7, <1>9, AboveTypes
  <2>2. \A b \in Blocks : AbsBlock(b)' = AbsBlock(b)
    BY <1>1, <1>14, <2>1, DataKept DEF Wired
  <2>3. QED BY <2>2 DEF Data
<1>19. QED BY <1>1, <1>2, <1>3, <1>4, <1>14, <1>15, <1>16, <1>17, <1>18

\* A list of one block, behind another.
LEMMA AppendOne ==
  ASSUME NEW s \in Seq(Blocks), NEW h \in Seq(Blocks), Len(h) = 1
  PROVE  Append(s, h[1]) = s \o h
<1>1. h[1] \in Blocks
  <2>1. 1 \in 1 .. Len(h) OBVIOUS
  <2>2. QED BY <2>1, SetOf
<1>2. <<h[1]>> \in Seq(Blocks) /\ Len(<<h[1]>>) = 1 /\ <<h[1]>>[1] = h[1] BY <1>1, OneBlock
<1> DEFINE d == <<h[1]>>
<1>3. \A i \in 1 .. Len(h) : h[i] = d[i] BY <1>2
<1> HIDE DEF d
<1>4. h = d BY <1>2, <1>3, SeqEqual DEF d
<1>5. Append(s, h[1]) = s \o d BY <1>1, OneBlock DEF d
<1>6. QED BY <1>4, <1>5

\* AddUsed() and AddUsedList() put the message on the used list.
LEMMA AppendFollows ==
  ASSUME Wired, Above, NEW w \in Writers, AppendUsed(w)
  PROVE  Follows
<1> DEFINE h == Held(w)
<1>1. /\ w \in Threads /\ w \notin Readers /\ pc[w] = "append"
      /\ mutex["used"] = w /\ cur[w] = list["used"].tail
      /\ msg[w] \in Message /\ NumBlocks(msg[w]) \in Nat \ {0} /\ cnt[w] = NumBlocks(msg[w])
      /\ h \in Seq(Blocks) /\ Len(h) = cnt[w] /\ Places[w] = "append"
      /\ h = <<>> <=> cnt[w] = 0
      /\ h = <<>> <=> first[w] = Nil
      /\ "used" \in Kinds /\ "free" \in Kinds \ {"used"} /\ "post" \in Labels
      /\ ToSet(h) \cap ToSet(Used) = {} /\ Used \in Seq(Blocks) /\ Distinct(Used)
      /\ list["used"].count = Len(Used)
      /\ Places = [u \in Threads |-> Places[u]]
  BY AboveTypes, Separate, HeldType, HeldWhere, AboveChain, AbovePlace
  DEF AppendUsed, Wired, Sections, Inside, Kinds, Used, Labels
<1>2. /\ \/ NumBlocks(msg[w]) = 1 /\ Add("used", first[w])
         \/ NumBlocks(msg[w]) # 1 /\ AddList("used", first[w], last[w], cnt[w])
      /\ mutex' = [mutex EXCEPT !["used"] = Nil]
      /\ Forget(w) /\ pc' = [pc EXCEPT ![w] = "post"]
      /\ UNCHANGED <<block, writeSem, readSem, msg, sent, buf, got, owed>>
  BY DEF AppendUsed, Unlock, Goto
<1>3. h # <<>> /\ first[w] # Nil BY <1>1
<1>4. NumBlocks(msg[w]) # 1 => fwd[last[w]] = Nil /\ back[first[w]] = Nil
  BY <1>1, <1>3 DEF Wired, Loose
<1>5. HandsOver(w, "used", "post") BY <1>1, <1>2, <1>3, <1>4 DEF HandsOver
<1>6. /\ Wired'
      /\ Chain("used")' = Chain("used") \o h
      /\ list'["used"].count = list["used"].count + Len(h)
      /\ Chain("free")' = Chain("free") /\ list'["free"] = list["free"]
      /\ Data' = Data /\ Chains[w] = h
      /\ Chains' = [Chains EXCEPT ![w] = <<>>] /\ Places' = [Places EXCEPT ![w] = "post"]
  BY <1>1, <1>5, HandedOver
<1>7. /\ Used' = Used \o h /\ Free' = Free
      /\ list'.used.count = list.used.count + Len(h) /\ list'.free.count = list.free.count
  BY <1>6 DEF Free, Used
<1>8. ASSUME NumBlocks(msg[w]) = 1
      PROVE  /\ Used' = Q!Add(Used, list.used.count, h[1]).list
             /\ list'.used.count = Q!Add(Used, list.used.count, h[1]).count
  <2>1. Len(h) = 1 /\ h[1] \in Blocks /\ h[1] \notin ToSet(Used)
    BY <1>1, <1>8, SetOf
  <2>2. /\ Q!Add(Used, Len(Used), h[1]).list = Append(Used, h[1])
        /\ Q!Add(Used, Len(Used), h[1]).count = Len(Used) + 1
    BY <1>1, <2>1, Q!AddAdds, QueueAssumption, NoMsgAssumption
    DEF Message, Q!Message, Blocks, Q!Blocks, ToSet, Q!ToSet, Distinct, Q!Distinct
  <2>3. Append(Used, h[1]) = Used \o h BY <1>1, <2>1, AppendOne
  <2>4. QED BY <1>1, <1>7, <2>1, <2>2, <2>3
<1> HIDE DEF h
<1>9. Q!AppendUsed(w)
  BY <1>1, <1>2, <1>6, <1>7, <1>8, SameData DEF Q!AppendUsed, Q!Goto
<1>10. QED BY <1>6, <1>9 DEF Follows, Q!Next, Q!WriteStep

\* AddFreeList() gives back what a failed write took.
LEMMA GiveBackFollows ==
  ASSUME Wired, Above, NEW w \in Writers, GiveBack(w)
  PROVE  Follows
<1> DEFINE h == Held(w)
<1>1. /\ w \in Threads /\ w \notin Readers /\ pc[w] = "putback"
      /\ mutex["free"] = w /\ cur[w] = list["free"].tail
      /\ h # <<>> /\ Places[w] = "giveback"
      /\ "free" \in Kinds /\ "used" \in Kinds \ {"free"} /\ "idle" \in Labels
  BY AboveTypes, HeldWhere, AboveChain, AbovePlace
  DEF GiveBack, Wired, Sections, Inside, Kinds, Labels
<1>2. /\ AddList("free", first[w], last[w], cnt[w])
      /\ mutex' = [mutex EXCEPT !["free"] = Nil]
      /\ Forget(w) /\ pc' = [pc EXCEPT ![w] = "idle"] /\ msg' = [msg EXCEPT ![w] = NoMsg]
      /\ UNCHANGED <<block, writeSem, readSem, sent, buf, got, owed>>
  BY DEF GiveBack, Unlock, Return, Goto
<1>3. \A v \in Writers \ {w} : msg'[v] = msg[v] BY <1>2, AboveTypes
<1>4. HandsOver(w, "free", "idle") BY <1>1, <1>2, <1>3 DEF HandsOver
<1>5. /\ Wired'
      /\ Chain("free")' = Chain("free") \o h
      /\ list'["free"].count = list["free"].count + Len(h)
      /\ Chain("used")' = Chain("used") /\ list'["used"] = list["used"]
      /\ Data' = Data /\ Chains[w] = h
      /\ Chains' = [Chains EXCEPT ![w] = <<>>] /\ Places' = [Places EXCEPT ![w] = "idle"]
  BY <1>1, <1>4, HandedOver
<1> HIDE DEF h
<1>6. Q!GiveBack(w)
  BY <1>1, <1>2, <1>5 DEF Q!GiveBack, Q!Return, Q!Goto, Free, Used
<1>7. QED BY <1>5, <1>6 DEF Follows, Q!Next, Q!WriteStep

\* AddFree() and AddFreeList() put the blocks of a message that is read on the free list.
LEMMA FreeFollows ==
  ASSUME Wired, Above, NEW r \in Readers, FreeBlocks(r)
  PROVE  Follows
<1> DEFINE h == Held(r)
<1>1. /\ r \in Threads /\ r \notin Writers /\ pc[r] = "free"
      /\ mutex["free"] = r /\ cur[r] = list["free"].tail
      /\ h \in Seq(Blocks) /\ Len(h) = cnt[r] /\ h # <<>> /\ Places[r] = "free"
      /\ "free" \in Kinds /\ "used" \in Kinds \ {"free"} /\ "release" \in Labels
      /\ ToSet(h) \cap ToSet(Free) = {} /\ Free \in Seq(Blocks) /\ Distinct(Free)
      /\ list["free"].count = Len(Free)
  BY AboveTypes, Separate, HeldType, HeldWhere, AboveChain, AbovePlace
  DEF FreeBlocks, Wired, Sections, Inside, Kinds, Free, Labels
<1>2. /\ \/ cnt[r] = 1 /\ Add("free", first[r])
         \/ cnt[r] # 1 /\ AddList("free", first[r], last[r], cnt[r])
      /\ mutex' = [mutex EXCEPT !["free"] = Nil]
      /\ Forget(r) /\ pc' = [pc EXCEPT ![r] = "release"]
      /\ owed' = [owed EXCEPT ![r] = cnt[r]]
      /\ UNCHANGED <<block, writeSem, readSem, msg, sent, buf, got>>
  BY DEF FreeBlocks, Unlock, Goto
<1>3. HandsOver(r, "free", "release") BY <1>1, <1>2 DEF HandsOver
<1>4. /\ Wired'
      /\ Chain("free")' = Chain("free") \o h
      /\ list'["free"].count = list["free"].count + Len(h)
      /\ Chain("used")' = Chain("used") /\ list'["used"] = list["used"]
      /\ Data' = Data /\ Chains[r] = h
      /\ Chains' = [Chains EXCEPT ![r] = <<>>] /\ Places' = [Places EXCEPT ![r] = "release"]
  BY <1>1, <1>3, HandedOver
<1>5. /\ Free' = Free \o h /\ Used' = Used
      /\ list'.free.count = list.free.count + Len(h) /\ list'.used.count = list.used.count
  BY <1>4 DEF Free, Used
<1>6. ASSUME Len(h) = 1
      PROVE  /\ Free' = Q!Add(Free, list.free.count, h[1]).list
             /\ list'.free.count = Q!Add(Free, list.free.count, h[1]).count
  <2>1. 1 \in 1 .. Len(h) BY <1>6
  <2>2. h[1] \in Blocks /\ h[1] \notin ToSet(Free) BY <1>1, <2>1, SetOf
  <2>3. /\ Q!Add(Free, Len(Free), h[1]).list = Append(Free, h[1])
        /\ Q!Add(Free, Len(Free), h[1]).count = Len(Free) + 1
    BY <1>1, <2>2, Q!AddAdds, QueueAssumption, NoMsgAssumption
    DEF Message, Q!Message, Blocks, Q!Blocks, ToSet, Q!ToSet, Distinct, Q!Distinct
  <2>4. Append(Free, h[1]) = Free \o h BY <1>1, <1>6, AppendOne
  <2>5. QED BY <1>1, <1>5, <1>6, <2>3, <2>4
<1> HIDE DEF h
<1>7. Q!FreeBlocks(r)
  BY <1>1, <1>2, <1>4, <1>5, <1>6 DEF Q!FreeBlocks, Q!Goto
<1>8. QED BY <1>4, <1>7 DEF Follows, Q!Next, Q!ReadStep

-----------------------------------------------------------------------------
(* Messages on the used list, below and above. *)

\* A block that is on a list or held is not being filled: it looks as it is.
LEMMA Settled ==
  ASSUME Wired, Above, NEW x \in Blocks,
         \/ \E k \in Kinds : x \in ToSet(Chain(k))
         \/ \E t \in Threads : x \in ToSet(Held(t))
  PROVE  /\ \A w \in Writers : ~ (pc[w] = "fill" /\ cur[w] = x)
         /\ AbsBlock(x) = block[x] /\ Data[x] = block[x]
<1>1. \A w \in Writers : ~ (pc[w] = "fill" /\ cur[w] = x)
  BY Separate, AboveTypes
<1>2. AbsBlock(x) = block[x] BY <1>1, DataIs DEF Wired
<1>3. QED BY <1>1, <1>2 DEF Data

\* The blocks of a settled list have the sizes that are seen above.
LEMMA SameTotal ==
  ASSUME NEW s, NEW n \in Nat, DOMAIN s = 1 .. n,
         \A i \in 1 .. n : Data[s[i]] = block[s[i]]
  PROVE  TotalSize(s) = Q!TotalSize(s)
<1> DEFINE A(g) == g = [p \in SUBSET (1 .. n) |->
                          IF p = {} THEN 0 ELSE g[p \ {Max(p)}] + block[s[Max(p)]].size]
           B(g) == g = [p \in SUBSET (1 .. n) |->
                          IF p = {} THEN 0 ELSE g[p \ {Max(p)}] + Data[s[Max(p)]].size]
<1>1. TotalSize(s) = (CHOOSE g : A(g))[1 .. n]
  BY DEF TotalSize, FoldLeft, MapThenFoldSet
<1>2. Q!TotalSize(s) = (CHOOSE g : B(g))[1 .. n]
  BY DEF Q!TotalSize, Q!FoldLeft, Q!MapThenFoldSet, Q!Max, Max
<1>3. ASSUME NEW p \in SUBSET (1 .. n), p # {}
      PROVE  block[s[Max(p)]].size = Data[s[Max(p)]].size
  <2>1. Max(p) \in p
    BY <1>3, Q!MaxIn, QueueAssumption, NoMsgAssumption DEF Message, Q!Message, Q!Max, Max
  <2>2. Data[s[Max(p)]] = block[s[Max(p)]] BY <2>1
  <2>3. QED BY <2>2
<1>4. ASSUME NEW g PROVE A(g) <=> B(g)
  <2>1. [p \in SUBSET (1 .. n) |->
           IF p = {} THEN 0 ELSE g[p \ {Max(p)}] + block[s[Max(p)]].size]
          = [p \in SUBSET (1 .. n) |->
               IF p = {} THEN 0 ELSE g[p \ {Max(p)}] + Data[s[Max(p)]].size]
    BY <1>3
  <2>2. QED BY <2>1
<1> HIDE DEF A, B
<1>5. (CHOOSE g : A(g)) = (CHOOSE g : B(g)) BY <1>4
<1>6. QED BY <1>1, <1>2, <1>5

\* Following the flags from a finds the blocks that have them, and the one behind.
LEMMA MessageIs ==
  \A a \in Blocks, s \in Seq(Blocks), n \in Nat :
     /\ Walk(a, Nil) = s /\ n \in 1 .. Len(s)
     /\ \A j \in 1 .. n : block[s[j]].cont <=> j < n
     => MessageAt(a) = SubSeq(s, 1, n)
<1> TAKE a \in Blocks, s \in Seq(Blocks), n \in Nat
<1> SUFFICES ASSUME Walk(a, Nil) = s, n \in 1 .. Len(s),
                    \A j \in 1 .. n : block[s[j]].cont <=> j < n
             PROVE  MessageAt(a) = SubSeq(s, 1, n)
  OBVIOUS
<1> DEFINE Fits(k) == /\ block[s[k]].cont => k = Len(s)
                      /\ \A j \in 1 .. k - 1 : block[s[j]].cont
<1>1. Len(s) \in Nat /\ n \in Nat \ {0} /\ n <= Len(s) BY SetOf
<1>2. Fits(n)
  <2>1. n \in 1 .. n /\ ~ (n < n) BY <1>1
  <2>2. \A j \in 1 .. n - 1 : j \in 1 .. n /\ j < n BY <1>1
  <2>3. QED BY <2>1, <2>2
<1>3. ASSUME NEW k \in 1 .. Len(s), Fits(k) PROVE k = n
  <2>1. CASE k < n
    <3>1. k \in 1 .. n BY <1>1, <2>1
    <3>2. k = Len(s) BY <1>3, <2>1, <3>1
    <3>3. QED BY <1>1, <2>1, <3>2
  <2>2. CASE n < k
    <3>1. n \in 1 .. k - 1 /\ n \in 1 .. n /\ ~ (n < n) BY <1>1, <2>2
    <3>2. QED BY <1>3, <3>1
  <2>3. QED BY <1>1, <2>1, <2>2
<1>4. MessageAt(a) = SubSeq(s, 1, CHOOSE k \in 1 .. Len(s) : Fits(k)) BY DEF MessageAt
<1> HIDE DEF Fits
<1>5. (CHOOSE k \in 1 .. Len(s) : Fits(k)) = n BY <1>2, <1>3
<1>6. QED BY <1>4, <1>5

\* The server in its section finds the first message, whole, as XQueue has it.
LEMMA MessageThere ==
  ASSUME Wired, Above, NEW r \in Readers, pc[r] = "take", Used # <<>>
  PROVE  \E n \in 1 .. Len(Used) :
           LET front == SubSeq(Used, 1, n) IN
           /\ Q!Extent(Used) = n /\ MessageAt(cur[r]) = front
           /\ cur[r] = Used[1] /\ Head(Used) = Used[1] /\ cur[r] \in Blocks
           /\ TotalSize(front) = Q!TotalSize(front) /\ Copy(front) = Q!Copy(front)
           /\ front \in Seq(Blocks) /\ Len(front) = n /\ Last(front) = Used[n]
           /\ block[Used[1]].cont <=> 1 < n
           /\ Data[Used[1]] = block[Used[1]]
<1>1. /\ Q!Typed /\ Q!Framed /\ r \in Threads /\ list["used"].head = cur[r]
      /\ "used" \in Kinds /\ Used \in Seq(Blocks)
      /\ Strung(fwd, back, list["used"], Used)
  BY AboveTypes, Separate DEF Above, Q!Ordered, Wired, Sections, Inside, Kinds, Used
<1>2. /\ Len(Used) \in Nat /\ 1 \in 1 .. Len(Used) /\ Len(Used) # 0
      /\ cur[r] = Used[1] /\ Used[1] \in Blocks /\ Head(Used) = Used[1]
      /\ \A i \in 1 .. Len(Used) : Used[i] \in Blocks /\ Used[i] \in ToSet(Used)
  BY <1>1, SetOf DEF Strung
<1>3. \A i \in 1 .. Len(Used) : Data[Used[i]] = block[Used[i]]
  BY <1>1, <1>2, Settled DEF Used
<1>4. PICK m \in Q!Sendable : Q!Spells(Used, 0, m) /\ Q!Extent(Used) = Q!NumBlocks(m)
  BY <1>1, Q!HeadMessage, QueueAssumption, NoMsgAssumption DEF Message, Q!Message
<1>5. PICK n : n = Q!NumBlocks(m) OBVIOUS
<1>6. n \in Nat \ {0}
  <2>1. m \in Q!Message BY DEF Q!Sendable
  <2>2. QED BY <1>5, <2>1, Q!NumBlocksType, QueueAssumption, NoMsgAssumption DEF Message, Q!Message
<1>7. n \in 1 .. Len(Used) /\ \A j \in 1 .. n : Data[Used[j]] = Q!Filled(m, j)
  <2>1. 0 + n <= Len(Used) /\ \A j \in 1 .. n : Data[Used[0 + j]] = Q!Filled(m, j)
    BY <1>4, <1>5 DEF Q!Spells
  <2>2. \A j \in 1 .. n : 0 + j = j BY <1>6
  <2>3. QED BY <1>2, <1>6, <2>1, <2>2
<1>8. \A j \in 1 .. n : block[Used[j]].cont <=> j < n
  <2> TAKE j \in 1 .. n
  <2>1. Q!Filled(m, j).cont <=> j < Q!NumBlocks(m)
    BY <1>5, Q!FlagOf, QueueAssumption, NoMsgAssumption DEF Message, Q!Message
  <2>2. j \in 1 .. Len(Used) BY <1>2, <1>6, <1>7
  <2>3. QED BY <1>3, <1>5, <1>7, <2>1, <2>2
<1>9. Walk(cur[r], Nil) = Used BY <1>1 DEF Used, Chain
<1>10. MessageAt(cur[r]) = SubSeq(Used, 1, n)
  BY <1>1, <1>2, <1>6, <1>7, <1>8, <1>9, MessageIs
<1>11. /\ SubSeq(Used, 1, n) \in Seq(Blocks) /\ Len(SubSeq(Used, 1, n)) = n
       /\ \A i \in 1 .. n : SubSeq(Used, 1, n)[i] = Used[i]
       /\ Last(SubSeq(Used, 1, n)) = Used[n]
  BY <1>1, <1>7, Prefix
<1> DEFINE front == SubSeq(Used, 1, n)
<1> HIDE DEF front
<1>12. \A i \in 1 .. n : i \in 1 .. Len(Used) BY <1>2, <1>6, <1>7
<1>13. \A i \in 1 .. n : Data[front[i]] = block[front[i]] BY <1>3, <1>11, <1>12 DEF front
<1>14. TotalSize(front) = Q!TotalSize(front)
  <2>1. DOMAIN front = 1 .. n BY <1>11, LenProperties DEF front
  <2>2. QED BY <1>6, <1>13, <2>1, SameTotal
<1>15. Copy(front) = Q!Copy(front)
  <2>1. Len(front) = n BY <1>11 DEF front
  <2>2. QED BY <1>13, <2>1 DEF Copy, Q!Copy
<1>16. block[Used[1]].cont <=> 1 < n
  <2>1. 1 \in 1 .. n BY <1>6
  <2>2. QED BY <1>8, <2>1
<1>17. QED
  BY <1>2, <1>3, <1>4, <1>5, <1>7, <1>10, <1>11, <1>14, <1>15, <1>16 DEF front

\* NO_DATA and MORE_DATA leave the lists alone.
LEMMA NoTakeFollows ==
  ASSUME Wired, Above, NEW r \in Readers, TakeMessage(r),
         cur[r] = Nil \/ TotalSize(MessageAt(cur[r])) > buf[r]
  PROVE  Follows
<1>1. /\ r \in Threads /\ r \notin Writers /\ pc[r] = "take" /\ Held(r) = <<>>
      /\ Places[r] = "take" /\ pc \in [Threads -> Labels]
      /\ cur[r] = list["used"].head /\ "used" \in Kinds
      /\ Strung(fwd, back, list["used"], Used) /\ Used \in Seq(Blocks)
      /\ mutex["used"] = r
  BY AboveTypes, HeldWhere, Separate, AboveChain, AbovePlace
  DEF TakeMessage, Wired, Pointers, Sections, Inside, Kinds, Used
<1>2. /\ mutex' = [mutex EXCEPT !["used"] = Nil]
      /\ Forget(r) /\ pc' = [pc EXCEPT ![r] = "idle"]
      /\ UNCHANGED <<list, fwd, back, block, got, writeSem, readSem, msg, sent, buf, owed>>
  BY DEF TakeMessage, Unlock, Goto
<1>3. UNCHANGED <<first, last, cnt>> /\ cur' = [cur EXCEPT ![r] = Nil]
  BY <1>1, <1>2, Forgotten
<1>4. /\ pc'[r] = "idle" /\ \A u \in Threads \ {r} : pc'[u] = pc[u] /\ cur'[u] = cur[u]
  BY <1>1, <1>2, <1>3 DEF Wired, Pointers
<1>5. \A k \in Kinds, u \in Threads \ {r} : mutex[k] = u => mutex'[k] = u
  BY <1>1, <1>2 DEF Wired, Pointers
<1>6. Calm(r) BY <1>1, <1>2, <1>3, <1>4, <1>5 DEF Calm
<1>7. Pointers'
  <2>1. Nil \in BlockOrNil BY DEF BlockOrNil
  <2>2. QED BY <1>1, <1>2, <1>3, <2>1 DEF Wired, Pointers, Labels
<1>8. Arrives(r) BY <1>1, <1>4, <1>7 DEF Arrives
<1>9. /\ Wired'
      /\ Free' = Free /\ Used' = Used /\ Data' = Data /\ Chains' = Chains
      /\ Places' = [Places EXCEPT ![r] = AbsPc(r)']
  BY <1>1, <1>6, <1>8, CalmStep
<1>10. AbsPc(r)' = "idle" BY <1>4 DEF AbsPc
<1>11. Used = <<>> \/ Q!TotalSize(SubSeq(Used, 1, Q!Extent(Used))) > buf[r]
  <2>1. CASE cur[r] = Nil
    <3>1. Used # <<>> => cur[r] \in Blocks BY <1>1, SetOf DEF Strung
    <3>2. QED BY <2>1, <3>1, NilAssumption
  <2>2. CASE TotalSize(MessageAt(cur[r])) > buf[r] BY <1>1, <2>2, MessageThere
  <2>3. QED BY <2>1, <2>2
<1>12. Q!TakeMessage(r)
  BY <1>1, <1>2, <1>9, <1>10, <1>11 DEF Q!TakeMessage, Q!Goto, Q!Lists
<1>13. QED BY <1>9, <1>12 DEF Follows, Q!Next, Q!ReadStep

\* ReadSingleBlock() and GetUsedListForward() take the first message off the used list.
LEMMA TakeFollows ==
  ASSUME Wired, Above, NEW r \in Readers, TakeMessage(r),
         ~ (cur[r] = Nil \/ TotalSize(MessageAt(cur[r])) > buf[r])
  PROVE  Follows
<1> DEFINE K == {"used"}
<1>1. /\ r \in Threads /\ r \notin Writers /\ pc[r] = "take" /\ Held(r) = <<>>
      /\ Places[r] = "take" /\ Chains[r] = <<>>
      /\ cur[r] = list["used"].head /\ mutex["used"] = r
      /\ "used" \in Kinds /\ K \in SUBSET Kinds /\ Kinds \ K = {"free"}
      /\ Strung(fwd, back, list["used"], Used) /\ Used \in Seq(Blocks) /\ Distinct(Used)
  <2>1. r \in Threads /\ r \notin Writers /\ pc[r] = "take" BY AboveTypes DEF TakeMessage
  <2>2. Held(r) = <<>> BY <2>1, HeldWhere
  <2>3. Places[r] = "take" BY <2>1, AboveChain, AbovePlace
  <2>4. Chains[r] = <<>> BY <2>1, <2>2, HeldType, AboveChain
  <2>5. cur[r] = list["used"].head /\ mutex["used"] = r
    BY <2>1 DEF Wired, Sections, Inside
  <2>6. "used" \in Kinds /\ K \in SUBSET Kinds /\ Kinds \ K = {"free"} BY DEF Kinds
  <2>7. Strung(fwd, back, list["used"], Used) /\ Used \in Seq(Blocks) /\ Distinct(Used)
    BY <2>6, Separate DEF Used
  <2>8. QED BY <2>1, <2>2, <2>3, <2>4, <2>5, <2>6, <2>7
<1>2. Used # <<>>
  <2>1. cur[r] # Nil OBVIOUS
  <2>2. QED BY <1>1, <2>1 DEF Strung
<1>3. PICK s \in Seq(Blocks) : s = Used BY <1>1
<1>4. PICK n \in 1 .. Len(s) :
        LET front == SubSeq(s, 1, n) IN
        /\ Q!Extent(s) = n /\ MessageAt(cur[r]) = front
        /\ cur[r] = s[1] /\ Head(s) = s[1] /\ cur[r] \in Blocks
        /\ TotalSize(front) = Q!TotalSize(front) /\ Copy(front) = Q!Copy(front)
        /\ front \in Seq(Blocks) /\ Len(front) = n /\ Last(front) = s[n]
        /\ block[s[1]].cont <=> 1 < n
        /\ Data[s[1]] = block[s[1]]
  BY <1>1, <1>2, <1>3, MessageThere
<1>5. PICK h \in Seq(Blocks) : h = SubSeq(s, 1, n) BY <1>4
<1>6. PICK b \in Blocks : b = s[1] BY <1>4
<1>7. PICK c \in BOOLEAN : c <=> 1 < n OBVIOUS
<1>8. /\ Q!Extent(s) = n /\ MessageAt(cur[r]) = h /\ cur[r] = b /\ Head(s) = b
      /\ TotalSize(h) = Q!TotalSize(h) /\ Copy(h) = Q!Copy(h)
      /\ Len(h) = n /\ Last(h) = s[n] /\ Data[b] = block[b]
      /\ n \in Nat \ {0} /\ Len(s) \in Nat /\ n <= Len(s)
      /\ s[1] = b /\ b \in ToSet(s) /\ s[n] \in Blocks /\ s[n] \in ToSet(s)
      /\ ToSet(s) \in SUBSET Blocks
      /\ \A i \in 1 .. n : h[i] = s[i]
  <2>1. \A i \in 1 .. n : h[i] = s[i] BY <1>5, Prefix
  <2>2. n \in Nat \ {0} /\ Len(s) \in Nat /\ n <= Len(s) /\ 1 \in 1 .. Len(s) BY SetOf
  <2>3. QED BY <1>4, <1>5, <1>6, <2>1, <2>2, SetOf
<1>9. block[b].cont = c
  <2>1. block[b].cont \in BOOLEAN BY DEF Wired, Pointers, Q!Contents
  <2>2. QED BY <1>4, <1>6, <1>7, <2>1
<1>10. /\ mutex' = [mutex EXCEPT !["used"] = Nil]
       /\ first' = [first EXCEPT ![r] = b]
       /\ last' = [last EXCEPT ![r] = s[n]]
       /\ cnt' = [cnt EXCEPT ![r] = n]
       /\ cur' = [cur EXCEPT ![r] = Nil]
       /\ RemoveTo("used", s[n], n, c)
       /\ \/ /\ c /\ pc' = [pc EXCEPT ![r] = "copy"] /\ block' = block /\ got' = got
          \/ /\ ~ c /\ pc' = [pc EXCEPT ![r] = "flock"]
             /\ got' = [got EXCEPT ![r] = Copy(h)]
             /\ block' = [block EXCEPT ![b].size = 0]
       /\ UNCHANGED <<writeSem, readSem, msg, sent, buf, owed>>
  BY <1>8, <1>9 DEF TakeMessage, Unlock, Goto
<1>11. PICK rest \in Seq(Blocks) : rest = SubSeq(s, n + 1, Len(s)) BY Cut
<1>12. /\ Strung(fwd', back', list'["used"], rest)
       /\ Chained(fwd', back', h)
       /\ list' \in [Kinds -> [head : BlockOrNil, tail : BlockOrNil, count : Int]]
       /\ fwd' \in [Blocks -> BlockOrNil] /\ back' \in [Blocks -> BlockOrNil]
       /\ list'["used"].count = list["used"].count - n
       /\ list'["free"] = list["free"]
       /\ \A x \in Blocks \ ToSet(s) : fwd'[x] = fwd[x] /\ back'[x] = back[x]
       /\ c => fwd'[s[n]] = Nil
  <2>1. s = Chain("used") /\ "free" \in Kinds \ {"used"} BY <1>3 DEF Used, Kinds
  <2>2. QED BY <1>1, <1>5, <1>10, <1>11, <2>1, ListShrinks
<1>13. /\ first'[r] = b /\ last'[r] = s[n] /\ cnt'[r] = n /\ cur'[r] = Nil
       /\ pc'[r] = IF c THEN "copy" ELSE "flock"
       /\ \A u \in Threads \ {r} :
            /\ pc'[u] = pc[u] /\ cur'[u] = cur[u]
            /\ first'[u] = first[u] /\ last'[u] = last[u] /\ cnt'[u] = cnt[u]
       /\ mutex'["free"] = mutex["free"]
  BY <1>1, <1>10 DEF Wired, Pointers, Kinds
<1>14. Pointers'
  <2>1. Nil \in BlockOrNil /\ b \in BlockOrNil /\ s[n] \in BlockOrNil BY <1>8 DEF BlockOrNil
  <2>2. block' \in [Blocks -> Q!Contents]
    <3>1. [block[b] EXCEPT !.size = 0] \in Q!Contents
      <4>1. block[b] \in Q!Contents BY DEF Wired, Pointers
      <4>2. QED BY <4>1, Q!ClearedType, QueueAssumption, NoMsgAssumption DEF Message, Q!Message
    <3>2. block' = block \/ block' = [block EXCEPT ![b] = [block[b] EXCEPT !.size = 0]]
      BY <1>10
    <3>3. QED BY <3>1, <3>2 DEF Wired, Pointers
  <2>3. n \in Nat BY <1>8
  <2>4. first' \in [Threads -> BlockOrNil] /\ last' \in [Threads -> BlockOrNil]
        /\ cnt' \in [Threads -> Nat] /\ cur' \in [Threads -> BlockOrNil]
    BY <1>10, <2>1, <2>3 DEF Wired, Pointers
  <2>5. pc' \in [Threads -> Labels] /\ mutex' \in [Kinds -> Threads \cup {Nil}]
    BY <1>10 DEF Wired, Pointers, Labels
  <2>6. QED BY <1>12, <2>2, <2>4, <2>5 DEF Pointers
<1>15. Alters(r, K, ToSet(s))
  <2>1. \A u \in Threads \ {r} : ToSet(Held(u)) \cap ToSet(s) = {}
    BY <1>1, <1>3, Separate DEF Used
  <2>2. ToSet(Chain("free")) \cap ToSet(s) = {} BY <1>3, Separate DEF Free
  <2>3. \A w \in Writers \ {r} : msg'[w] = msg[w] BY <1>10
  <2>4. QED BY <1>1, <1>12, <1>13, <2>1, <2>2, <2>3 DEF Alters
<1>16. Holds(fwd', back', b, s[n], n, h)
  <2>1. Distinct(h) BY <1>1, <1>3, <1>5, Cut
  <2>2. h # <<>> BY <1>8, SetOf
  <2>3. b = h[1] /\ s[n] = h[Len(h)] BY <1>8
  <2>4. QED BY <1>8, <1>12, <2>1, <2>2, <2>3 DEF Holds
<1>17. Repairs(r, K)
  BY <1>1, <1>12, <1>13, <1>14, <1>16 DEF Repairs
<1> HIDE DEF K
<1>18. /\ Wired' /\ Chain("free")' = Chain("free")
       /\ Chains' = [Chains EXCEPT ![r] = Chains'[r]]
       /\ Places' = [Places EXCEPT ![r] = Places'[r]]
  BY <1>1, <1>15, <1>17, AltersStep
<1>19. Chain("used")' = rest BY <1>1, <1>12, StrungNext
<1>20. Chains'[r] = h
  <2>1. Chains'[r] = Held(r)' \o IF pc'[r] = "fill" THEN <<cur'[r]>> ELSE <<>>
    BY <1>1 DEF Chains, AbsChain, Held
  <2>2. Held(r)' = h BY <1>1, <1>13, <1>16, HoldsNext
  <2>3. pc'[r] # "fill" BY <1>13
  <2>4. QED BY <2>1, <2>2, <2>3, ConcatEmptySeq
<1>21. Places'[r] = IF c THEN "copy" ELSE "free"
  <2>1. Places'[r] = AbsPc(r)' BY <1>1 DEF Places
  <2>2. CASE c
    <3>1. pc'[r] = "copy" BY <1>13, <2>2
    <3>2. QED BY <2>1, <2>2, <3>1 DEF AbsPc
  <2>3. CASE ~ c
    <3>1. pc'[r] = "flock" BY <1>13, <2>3
    <3>2. QED BY <2>1, <2>3, <3>1 DEF AbsPc
  <2>4. QED BY <2>2, <2>3
<1>22. \A x \in Blocks : block'[x] = block[x] => Data'[x] = Data[x]
  <2>1. \A w \in Writers :
          \/ pc[w] # "fill" /\ pc'[w] # "fill"
          \/ pc'[w] = pc[w] /\ cur'[w] = cur[w] /\ msg'[w] = msg[w] /\ cnt'[w] = cnt[w]
    BY <1>1, <1>10, <1>13, AboveTypes
  <2>2. \A x \in Blocks : block'[x] = block[x] => AbsBlock(x)' = AbsBlock(x)
    BY <1>18, <2>1, DataKept DEF Wired
  <2>3. QED BY <2>2 DEF Data
<1>23. Data'[b] = block'[b]
  <2>1. \A w \in Writers : ~ (pc[w] = "fill" /\ cur[w] = b)
    BY <1>1, <1>3, <1>8, Settled DEF Used
  <2>2. \A w \in Writers : ~ (pc'[w] = "fill" /\ cur'[w] = b)
    <3> TAKE w \in Writers
    <3>1. w \in Threads \ {r} BY <1>1, AboveTypes
    <3>2. QED BY <1>13, <2>1, <3>1
  <2>3. AbsBlock(b)' = block'[b] BY <1>18, <2>2, DataNext DEF Wired
  <2>4. QED BY <2>3 DEF Data
<1>24. /\ c => Data' = Data
       /\ ~ c => Data' = [Data EXCEPT ![b].size = 0]
  <2>1. Data = [x \in Blocks |-> Data[x]] /\ Data' = [x \in Blocks |-> Data'[x]] BY DEF Data
  <2>2. ASSUME c PROVE Data' = Data
    <3>1. block' = block BY <1>10, <2>2
    <3>2. QED BY <1>22, <2>1, <3>1
  <2>3. ASSUME ~ c PROVE Data' = [Data EXCEPT ![b].size = 0]
    <3>1. block' = [block EXCEPT ![b].size = 0] BY <1>10, <2>3
    <3>2. block'[b] = [block[b] EXCEPT !.size = 0] BY <3>1 DEF Wired, Pointers
    <3>3. \A x \in Blocks : x # b => block'[x] = block[x] BY <3>1 DEF Wired, Pointers
    <3>4. Data'[b] = [Data[b] EXCEPT !.size = 0] BY <1>8, <1>23, <3>2
    <3>5. QED BY <1>22, <2>1, <3>3, <3>4
  <2>4. QED BY <2>2, <2>3
<1>25. /\ Used = s /\ Used' = rest /\ Free' = Free
       /\ list'.used.count = list.used.count - n
       /\ list'.free.count = list.free.count
  BY <1>3, <1>12, <1>18, <1>19 DEF Free, Used
<1>26. ~ (Used = <<>> \/ Q!TotalSize(h) > buf[r])
  BY <1>2, <1>8
<1>27. Data[Head(Used)].cont = c BY <1>8, <1>9, <1>25
<1>28. Q!TakeMessage(r)
  <2>1. Places[r] = "take" /\ Used # <<>> /\ SubSeq(Used, 1, Q!Extent(Used)) = h
    BY <1>1, <1>2, <1>5, <1>8, <1>25
  <2>2. Used' = SubSeq(Used, Q!Extent(Used) + 1, Len(Used))
    BY <1>8, <1>11, <1>25
  <2>3. list'.used.count = list.used.count - Q!Extent(Used)
    BY <1>8, <1>25
  <2>4. Chains' = [Chains EXCEPT ![r] = h] BY <1>18, <1>20
  <2>5. UNCHANGED <<writeSem, readSem, msg, sent, buf, owed>> BY <1>10
  <2>6. CASE c
    <3>1. Places' = [Places EXCEPT ![r] = "copy"] /\ Data' = Data /\ got' = got
      BY <1>10, <1>18, <1>21, <1>24, <2>6
    <3>2. QED
      BY <1>25, <1>26, <1>27, <2>1, <2>2, <2>3, <2>4, <2>5, <2>6, <3>1
      DEF Q!TakeMessage, Q!Goto
  <2>7. CASE ~ c
    <3>1. Places' = [Places EXCEPT ![r] = "free"]
      BY <1>18, <1>21, <2>7
    <3>2. got' = [got EXCEPT ![r] = Q!Copy(h)] BY <1>8, <1>10, <2>7
    <3>3. Data' = [Data EXCEPT ![Head(Used)].size = 0] BY <1>8, <1>24, <1>25, <2>7
    <3>4. QED
      BY <1>25, <1>26, <1>27, <2>1, <2>2, <2>3, <2>4, <2>5, <2>7, <3>1, <3>2, <3>3
      DEF Q!TakeMessage, Q!Goto
  <2>8. QED BY <2>6, <2>7
<1>29. QED BY <1>18, <1>28 DEF Follows, Q!Next, Q!ReadStep

\* ReadMultiBlock() follows the flags and the links anew, and finds what it has detached.
LEMMA CopyFollows ==
  ASSUME Wired, Above, NEW r \in Readers, CopyOut(r)
  PROVE  Follows
<1>1. /\ r \in Threads /\ r \notin Writers /\ pc[r] = "copy"
      /\ Held(r) \in Seq(Blocks) /\ Distinct(Held(r)) /\ Held(r) # <<>>
      /\ Len(Held(r)) = cnt[r]
      /\ Chains[r] = Held(r) /\ Places[r] = "copy"
      /\ pc \in [Threads -> Labels]
  <2>1. r \in Threads /\ r \notin Writers /\ pc[r] = "copy" BY AboveTypes DEF CopyOut
  <2>2. Held(r) \in Seq(Blocks) /\ Distinct(Held(r)) /\ Len(Held(r)) = cnt[r]
    BY <2>1, HeldType
  <2>3. Held(r) # <<>> BY <2>1, HeldWhere
  <2>4. Chains[r] = Held(r) BY <2>1, HeldType, AboveChain
  <2>5. Places[r] = "copy" BY <2>1, AboveChain, AbovePlace
  <2>6. QED BY <2>1, <2>2, <2>3, <2>4, <2>5 DEF Wired, Pointers
<1>2. PICK h \in Seq(Blocks) : h = Held(r) BY <1>1
<1>3. PICK n \in Nat \ {0} : n = Len(h) BY <1>1, <1>2, SetOf
<1>4. /\ first[r] = h[1] /\ last[r] = h[n] /\ h[1] \in Blocks /\ cnt[r] = n
      /\ 1 \in 1 .. n /\ n \in 1 .. n /\ n \in 1 .. QueueSize
      /\ Chained(fwd, back, h) /\ fwd[h[n]] = Nil
      /\ \A i \in 1 .. n : h[i] \in Blocks /\ h[i] \in ToSet(h)
  <2>1. Holds(fwd, back, first[r], last[r], cnt[r], h) BY <1>1, <1>2 DEF Wired, Linked
  <2>2. first[r] = h[1] /\ last[r] = h[n] /\ cnt[r] = n /\ Chained(fwd, back, h)
    BY <1>1, <1>2, <1>3, <2>1 DEF Holds
  <2>3. fwd[last[r]] = Nil BY <1>1 DEF Wired, Loose
  <2>4. Len(h) \in 0 .. QueueSize BY <1>1, <1>2, ListLength
  <2>5. 1 \in 1 .. n /\ n \in 1 .. n BY <1>3
  <2>6. n \in 1 .. QueueSize BY <1>3, <2>4
  <2>7. \A i \in 1 .. n : h[i] \in Blocks /\ h[i] \in ToSet(h) BY <1>3, SetOf
  <2>8. QED BY <2>2, <2>3, <2>5, <2>6, <2>7
<1>5. \A i \in 1 .. n : Data[h[i]] = block[h[i]] BY <1>1, <1>2, <1>4, Settled
<1>6. \A j \in 1 .. n : block[h[j]].cont <=> j < n
  <2>1. PICK m \in Q!Sendable : Len(h) = Q!NumBlocks(m) /\ Q!Spells(h, 0, m)
    BY <1>1, <1>2 DEF Above, Q!Ordered, Q!Emptying
  <2> TAKE j \in 1 .. n
  <2>2. m \in Q!Message BY DEF Q!Sendable
  <2>3. Q!Filled(m, j).cont <=> j < Q!NumBlocks(m)
    BY <1>3, <2>1, <2>2, Q!FlagOf, QueueAssumption, NoMsgAssumption DEF Message, Q!Message
  <2>4. Data[h[0 + j]] = Q!Filled(m, j) BY <1>3, <2>1 DEF Q!Spells
  <2>5. 0 + j = j OBVIOUS
  <2>6. QED BY <1>3, <1>5, <2>1, <2>3, <2>4, <2>5
<1>7. Walk(first[r], Nil) = h
  <2>1. \A i \in 1 .. n - 1 : h[i] # Nil /\ fwd[h[i]] = h[i + 1]
    BY <1>3, <1>4, NilAssumption DEF Chained
  <2>2. Leads(fwd, h, h[1], Nil) BY <1>3, <1>4, <2>1 DEF Leads
  <2>3. Nil \in BlockOrNil BY DEF BlockOrNil
  <2>4. QED BY <1>4, <2>2, <2>3, WalkIs
<1>8. MessageAt(first[r]) = h
  <2>1. MessageAt(first[r]) = SubSeq(h, 1, n) BY <1>3, <1>4, <1>6, <1>7, MessageIs
  <2>2. /\ SubSeq(h, 1, n) \in Seq(Blocks) /\ Len(SubSeq(h, 1, n)) = n
        /\ \A i \in 1 .. n : SubSeq(h, 1, n)[i] = h[i]
    BY <1>3, <1>4, Prefix
  <2>3. SubSeq(h, 1, n) = h BY <1>3, <2>2, SeqEqual
  <2>4. QED BY <2>1, <2>3
<1>9. Last(h) = h[n] BY <1>3 DEF Last
<1>10. /\ got' = [got EXCEPT ![r] = Copy(h)]
       /\ block' = [b \in Blocks |-> IF b # h[n] /\ Contains(h, b)
                                     THEN [block[b] EXCEPT !.size = 0, !.cont = FALSE]
                                     ELSE block[b]]
       /\ last' = [last EXCEPT ![r] = h[n]]
       /\ cnt' = [cnt EXCEPT ![r] = n]
       /\ pc' = [pc EXCEPT ![r] = "flock"]
       /\ UNCHANGED <<list, fwd, back, mutex, writeSem, readSem, msg, sent, buf, owed, cur, first>>
  BY <1>3, <1>8, <1>9 DEF CopyOut, Goto
<1>11. last' = last /\ cnt' = cnt BY <1>1, <1>4, <1>10 DEF Wired, Pointers
<1>12. /\ pc'[r] = "flock" /\ \A u \in Threads \ {r} : pc'[u] = pc[u]
       /\ pc' \in [Threads -> Labels]
  BY <1>1, <1>10 DEF Labels
<1>13. Pointers'
  <2>1. block' \in [Blocks -> Q!Contents]
    <3>1. \A b \in Blocks : [block[b] EXCEPT !.size = 0, !.cont = FALSE] \in Q!Contents
      <4> TAKE b \in Blocks
      <4>1. block[b] \in Q!Contents BY DEF Wired, Pointers
      <4>2. QED BY <4>1, Q!ClearedType, QueueAssumption, NoMsgAssumption DEF Message, Q!Message
    <3>2. \A b \in Blocks : block[b] \in Q!Contents BY DEF Wired, Pointers
    <3>3. QED BY <1>10, <3>1, <3>2
  <2>2. QED BY <1>10, <1>11, <1>12, <2>1 DEF Wired, Pointers
<1> DEFINE K == {}
<1>14. Alters(r, K, {}) BY <1>10, <1>11, <1>12 DEF Alters
<1>15. Repairs(r, K)
  <2>1. Holds(fwd', back', first'[r], last'[r], cnt'[r], h)
    BY <1>1, <1>2, <1>10, <1>11 DEF Wired, Linked
  <2>2. QED BY <1>1, <1>12, <1>13, <2>1 DEF Repairs
<1>16. /\ Wired' /\ Free' = Free /\ Used' = Used
       /\ Chains' = [Chains EXCEPT ![r] = Chains'[r]]
       /\ Places' = [Places EXCEPT ![r] = Places'[r]]
  <2>1. K \in SUBSET Kinds /\ "free" \in Kinds \ K /\ "used" \in Kinds \ K BY DEF Kinds
  <2> HIDE DEF K
  <2>2. QED BY <1>1, <1>14, <1>15, <2>1, AltersStep DEF Free, Used
<1>17. Chains' = Chains
  <2>1. Holds(fwd', back', first'[r], last'[r], cnt'[r], h)
    BY <1>1, <1>2, <1>10, <1>11 DEF Wired, Linked
  <2>2. Held(r)' = h BY <1>1, <2>1, HoldsNext
  <2>3. Chains'[r] = Chains[r] BY <1>1, <1>2, <1>12, <2>2, ChainKept
  <2>4. Chains = [t \in Threads |-> Chains[t]] BY DEF Chains
  <2>5. QED BY <1>1, <1>16, <2>3, <2>4
<1>18. Places' = [Places EXCEPT ![r] = "free"]
  <2>1. AbsPc(r)' = "free" BY <1>12 DEF AbsPc
  <2>2. Places'[r] = "free" BY <1>1, <2>1 DEF Places
  <2>3. QED BY <1>16, <2>2
<1>19. \A w \in Writers : /\ w \in Threads \ {r}
                          /\ pc'[w] = pc[w] /\ cur'[w] = cur[w]
                          /\ msg'[w] = msg[w] /\ cnt'[w] = cnt[w]
  BY <1>1, <1>10, <1>11, <1>12, AboveTypes
<1>20. \A b \in Blocks : (b # h[n] /\ Contains(h, b)) <=> (\E i \in 1 .. n - 1 : h[i] = b)
  <2> TAKE b \in Blocks
  <2>1. Contains(h, b) <=> \E i \in 1 .. n : h[i] = b BY <1>3 DEF Contains
  <2>2. \A i \in 1 .. n : h[i] = h[n] => i = n BY <1>1, <1>2, <1>3, <1>4 DEF Distinct
  <2>3. \A i \in 1 .. n - 1 : i \in 1 .. n /\ i # n BY <1>3
  <2>4. \A i \in 1 .. n : i # n => i \in 1 .. n - 1 BY <1>3
  <2>5. QED BY <2>1, <2>2, <2>3, <2>4
<1>21. Data' = [b \in Blocks |-> IF \E i \in 1 .. n - 1 : h[i] = b
                                 THEN [Data[b] EXCEPT !.size = 0, !.cont = FALSE] ELSE Data[b]]
  <2>1. ASSUME NEW b \in Blocks, \E i \in 1 .. n - 1 : h[i] = b
        PROVE  Data'[b] = [Data[b] EXCEPT !.size = 0, !.cont = FALSE]
    <3>1. b \in ToSet(h) /\ Data[b] = block[b]
      <4>1. PICK i \in 1 .. n - 1 : h[i] = b BY <2>1
      <4>2. i \in 1 .. n BY <1>3
      <4>3. QED BY <1>4, <1>5, <4>1, <4>2
    <3>2. \A w \in Writers : ~ (pc[w] = "fill" /\ cur[w] = b) BY <1>1, <1>2, <3>1, Settled
    <3>3. \A w \in Writers : ~ (pc'[w] = "fill" /\ cur'[w] = b) BY <1>19, <3>2
    <3>4. AbsBlock(b)' = block'[b] BY <1>16, <3>3, DataNext DEF Wired
    <3>5. block'[b] = [block[b] EXCEPT !.size = 0, !.cont = FALSE] BY <1>10, <1>20, <2>1
    <3>6. QED BY <3>1, <3>4, <3>5 DEF Data
  <2>2. ASSUME NEW b \in Blocks, ~ \E i \in 1 .. n - 1 : h[i] = b
        PROVE  Data'[b] = Data[b]
    <3>1. block'[b] = block[b] BY <1>10, <1>20, <2>2
    <3>2. AbsBlock(b)' = AbsBlock(b) BY <1>16, <1>19, <3>1, DataKept DEF Wired
    <3>3. QED BY <3>2 DEF Data
  <2>3. Data' = [b \in Blocks |-> Data'[b]] BY DEF Data
  <2>4. QED BY <2>1, <2>2, <2>3
<1>22. Copy(h) = Q!Copy(h) BY <1>3, <1>5 DEF Copy, Q!Copy
<1>23. Q!CopyOut(r)
  <2>1. got' = [got EXCEPT ![r] = Q!Copy(Chains[r])] BY <1>1, <1>2, <1>10, <1>22
  <2>2. Data' = [b \in Q!Blocks |-> IF \E i \in 1 .. Len(Chains[r]) - 1 : Chains[r][i] = b
                   THEN [Data[b] EXCEPT !.size = 0, !.cont = FALSE] ELSE Data[b]]
    BY <1>1, <1>2, <1>3, <1>21, SameData
  <2>3. QED
    BY <1>1, <1>10, <1>16, <1>17, <1>18, <2>1, <2>2 DEF Q!CopyOut, Q!Goto
<1>24. QED BY <1>16, <1>23 DEF Follows, Q!Next, Q!ReadStep

-----------------------------------------------------------------------------
(* All steps. *)

\* Create() links all blocks to the free list, and nobody holds any.
LEMMA WiredInit ==
  ASSUME Init
  PROVE  Wired /\ Q!Init
<1> USE QueueAssumption
<1>1. PICK s \in Seq(Blocks) : s = [i \in 1 .. QueueSize |-> i - 1]
  <2>1. [i \in 1 .. QueueSize |-> i - 1] \in Seq(Blocks) BY DEF Blocks
  <2>2. QED BY <2>1
<1>2. /\ Len(s) = QueueSize /\ \A i \in 1 .. QueueSize : s[i] = i - 1
      /\ 1 \in 1 .. QueueSize /\ QueueSize \in 1 .. QueueSize /\ s # <<>>
  <2>1. DOMAIN s = 1 .. QueueSize BY <1>1
  <2>2. Len(s) = QueueSize BY <2>1, LenProperties
  <2>3. QED BY <1>1, <2>2, SetOf
<1>3. Distinct(s) BY <1>2 DEF Distinct
<1>4. Strung(fwd, back, list["free"], s)
  <2>1. list["free"].head = 0 /\ list["free"].tail = QueueSize - 1 BY DEF Init
  <2>2. \A i \in 1 .. QueueSize - 1 : fwd[s[i]] = s[i + 1] /\ back[s[i + 1]] = s[i]
    <3> TAKE i \in 1 .. QueueSize - 1
    <3>1. s[i] = i - 1 /\ s[i + 1] = i BY <1>2
    <3>2. i - 1 \in Blocks /\ i \in Blocks /\ i - 1 # QueueSize - 1 /\ i # 0 BY DEF Blocks
    <3>3. QED BY <3>1, <3>2 DEF Init
  <2>3. fwd[QueueSize - 1] = Nil /\ back[0] = Nil BY DEF Init, Blocks
  <2>4. s[1] = 0 /\ s[QueueSize] = QueueSize - 1 BY <1>2
  <2>5. QED BY <1>2, <1>3, <2>1, <2>2, <2>3, <2>4 DEF Strung, Chained
<1>5. <<>> \in Seq(Blocks) /\ Len(<<>>) = 0 OBVIOUS
<1>6. Strung(fwd, back, list["used"], <<>>)
  <2>1. list["used"].head = Nil /\ list["used"].tail = Nil BY DEF Init
  <2>2. QED BY <1>5, <2>1 DEF Strung, Distinct, Chained
<1>7. Free = s /\ Used = <<>>
  <2>1. "free" \in Kinds /\ "used" \in Kinds BY DEF Kinds
  <2>2. QED BY <1>4, <1>5, <1>6, <2>1, StrungIs DEF Free, Used
<1>8. \A t \in Threads : Holds(fwd, back, first[t], last[t], cnt[t], <<>>)
  <2> TAKE t \in Threads
  <2>1. first[t] = Nil /\ last[t] = Nil /\ cnt[t] = 0 BY DEF Init
  <2>2. QED BY <1>5, <2>1 DEF Holds, Distinct, Chained
<1>9. \A t \in Threads : Held(t) = <<>> BY <1>5, <1>8, HoldsIs
<1>10. Linked
  <2>1. Chain("free") = s /\ Chain("used") = <<>> BY <1>7 DEF Free, Used
  <2>2. \A k \in Kinds : Strung(fwd, back, list[k], Chain(k))
    BY <1>4, <1>6, <2>1 DEF Kinds
  <2>3. QED BY <1>8, <1>9, <2>2 DEF Linked
<1>11. Pointers
  <2>1. 0 \in Blocks /\ QueueSize - 1 \in Blocks BY DEF Blocks
  <2>2. list \in [Kinds -> [head : BlockOrNil, tail : BlockOrNil, count : Int]]
    BY <2>1 DEF Init, Kinds, BlockOrNil
  <2>3. fwd \in [Blocks -> BlockOrNil] /\ back \in [Blocks -> BlockOrNil]
    <3>1. \A b \in Blocks : b # QueueSize - 1 => b + 1 \in Blocks BY DEF Blocks
    <3>2. \A b \in Blocks : b # 0 => b - 1 \in Blocks BY DEF Blocks
    <3>3. QED BY <3>1, <3>2 DEF Init, BlockOrNil
  <2>4. block \in [Blocks -> Q!Contents] BY DEF Init, Q!Contents, Blank
  <2>5. QED BY <2>2, <2>3, <2>4 DEF Init, Pointers, BlockOrNil, Kinds, Labels
<1>12. \A t \in Threads : pc[t] = "idle" BY DEF Init
<1>13. Loose BY <1>12, NilAssumption DEF Init, Loose, Threads
<1>14. Sections BY <1>12 DEF Sections
<1>15. Stages BY <1>12 DEF Stages, Threads
<1>16. Data = [b \in Blocks |-> Blank]
  <2>1. \A b \in Blocks : AbsBlock(b) = block[b] BY <1>12, <1>15, DataIs DEF Threads
  <2>2. QED BY <2>1 DEF Data, Init
<1>17. Chains = [t \in Threads |-> <<>>]
  <2>1. \A t \in Threads : AbsChain(t) = <<>>
    BY <1>9, <1>12, AboveChain, ConcatEmptySeq, <1>5
  <2>2. QED BY <2>1 DEF Chains
<1>18. Places = [t \in Threads |-> "idle"] BY <1>12 DEF Places, AbsPc
<1>19. list.free.count = QueueSize /\ list.used.count = 0 BY DEF Init
<1>20. Q!Init
  BY <1>1, <1>7, <1>16, <1>17, <1>18, <1>19, SameData DEF Init, Q!Init
<1>21. QED BY <1>10, <1>11, <1>13, <1>14, <1>15, <1>20 DEF Wired

\* A step that changes nothing changes nothing above.
LEMMA StutterFollows ==
  ASSUME Wired, Above, UNCHANGED vars
  PROVE  Follows
<1>1. /\ UNCHANGED <<list, fwd, back, block, mutex, writeSem, readSem>> /\ pc' = pc
      /\ UNCHANGED <<msg, sent, buf, got, owed, cur, first, last, cnt>>
  BY DEF vars, shared, locals
<1>2. /\ Linked' /\ \A k \in Kinds : Chain(k)' = Chain(k)
      /\ \A t \in Threads : Held(t)' = Held(t)
  BY <1>1, SameMemory DEF Wired
<1>3. Wired'
  BY <1>1, <1>2 DEF Wired, Pointers, Loose, Sections, Stages, Inside
<1>4. Free' = Free /\ Used' = Used BY <1>2 DEF Free, Used, Kinds
<1>5. Data' = Data /\ Chains' = Chains /\ Places' = Places
  BY <1>1 DEF Data, Chains, Places, AbsBlock, Popped, AbsChain, AbsPc, Walk
<1>6. UNCHANGED Q!vars BY <1>1, <1>4, <1>5 DEF Q!vars
<1>7. QED BY <1>3, <1>6 DEF Follows

\* Every step keeps the invariant, and is a step of XQueue or none.
LEMMA StepFollows ==
  ASSUME Wired, Above, [Next]_vars
  PROVE  Follows
<1>1. CASE UNCHANGED vars BY <1>1, StutterFollows
<1>2. ASSUME NEW w \in Writers, WriteStep(w)
      PROVE  Follows
  <2>1. /\ "free" \in Kinds /\ "used" \in Kinds /\ w \in Threads
        /\ "getblock" \in Labels /\ "append" \in Labels /\ "putback" \in Labels
    BY DEF Kinds, Labels, Threads
  <2>2. CASE WaitForSemWrite(w) \/ WriteTimeout(w) \/ PostRead(w)
    BY <2>2, WriteWaitFollows
  <2>3. CASE EnterGetBlock(w) BY <2>1, <2>3, EnterFollows DEF EnterGetBlock
  <2>4. CASE GetFreeBlock(w) BY <2>4, PopFollows
  <2>5. CASE FillBlock(w) BY <2>5, FillFollows
  <2>6. CASE EnterAppend(w) BY <2>1, <2>6, EnterFollows DEF EnterAppend
  <2>7. CASE AppendUsed(w) BY <2>7, AppendFollows
  <2>8. CASE EnterGiveBack(w) BY <2>1, <2>8, EnterFollows DEF EnterGiveBack
  <2>9. CASE GiveBack(w) BY <2>9, GiveBackFollows
  <2>10. QED
    BY <1>2, <2>2, <2>3, <2>4, <2>5, <2>6, <2>7, <2>8, <2>9 DEF WriteStep
<1>3. ASSUME NEW w \in Writers, NEW n \in Sizes[w], Write(w, n)
      PROVE  Follows
  BY <1>3, WriteFollows
<1>4. ASSUME NEW r \in Readers, ReadStep(r)
      PROVE  Follows
  <2>1. /\ "free" \in Kinds /\ "used" \in Kinds /\ r \in Threads
        /\ "take" \in Labels /\ "free" \in Labels
    BY DEF Kinds, Labels, Threads
  <2>2. CASE WaitForSemRead(r) \/ ReadTimeout(r) \/ ReleaseWrite(r)
    BY <2>2, ReadWaitFollows
  <2>3. CASE EnterTake(r) BY <2>1, <2>3, EnterFollows DEF EnterTake
  <2>4. CASE TakeMessage(r) BY <2>4, NoTakeFollows, TakeFollows
  <2>5. CASE CopyOut(r) BY <2>5, CopyFollows
  <2>6. CASE EnterFree(r) BY <2>1, <2>6, EnterFollows DEF EnterFree
  <2>7. CASE FreeBlocks(r) BY <2>7, FreeFollows
  <2>8. QED BY <1>4, <2>2, <2>3, <2>4, <2>5, <2>6, <2>7 DEF ReadStep
<1>5. ASSUME NEW r \in Readers, NEW n \in BufSizes, Read(r, n)
      PROVE  Follows
  BY <1>5, ReadWaitFollows
<1>6. QED BY <1>1, <1>2, <1>3, <1>4, <1>5 DEF Next

\* Initially the links are wired and the lists above correct.
LEMMA LinksInit == Init => Wired /\ Above /\ Q!Init
<1> SUFFICES ASSUME Init PROVE Wired /\ Above /\ Q!Init OBVIOUS
<1>1. Wired /\ Q!Init BY WiredInit
<1>2. Q!Safe /\ Q!Ordered
  BY <1>1, Q!SafeInit, Q!OrderedInit, QueueAssumption, NoMsgAssumption DEF Message, Q!Message
<1>3. QED BY <1>1, <1>2 DEF Above

\* Every step keeps that, and is a step above, or none.
LEMMA LinksNext ==
  Wired /\ Above /\ [Next]_vars => Wired' /\ Above' /\ [Q!Next]_(Q!vars)
<1> SUFFICES ASSUME Wired, Above, [Next]_vars
             PROVE  Wired' /\ Above' /\ [Q!Next]_(Q!vars)
  OBVIOUS
<1>1. Wired' /\ [Q!Next]_(Q!vars) BY StepFollows DEF Follows
<1>2. Q!Safe' /\ Q!Ordered'
  BY <1>1, Q!SafeNext, Q!OrderedNext, QueueAssumption, NoMsgAssumption
  DEF Above, Message, Q!Message
<1>3. QED BY <1>1, <1>2 DEF Above

\* The inductive invariant holds in every reachable state.
LEMMA AlwaysWired == Spec => [](Wired /\ Above)
BY LinksInit, LinksNext, PTL DEF Spec

\* Every BackLink undoes a ForwardLink on both lists, and head and tail are where the
\* walks begin and end: no section leaves a link half set, whatever the threads do
\* between the sections, in them, or outside them on blocks of their own.
THEOREM LinksMirrored == Spec => []LinksMirror
<1>1. Wired => LinksMirror
  <2> SUFFICES ASSUME Wired, NEW k \in Kinds
               PROVE  LET s == Chain(k) IN
                      /\ s = <<>> => list[k].tail = Nil
                      /\ s # <<>> => /\ list[k].tail = Last(s)
                                     /\ fwd[Last(s)] = Nil
                                     /\ back[s[1]] = Nil
                      /\ \A i \in 1 .. Len(s) - 1 : back[s[i + 1]] = s[i]
    BY DEF LinksMirror, Kinds
  <2>1. Strung(fwd, back, list[k], Chain(k)) BY DEF Wired, Linked
  <2>2. Last(Chain(k)) = Chain(k)[Len(Chain(k))] BY DEF Last
  <2>3. QED BY <2>1, <2>2 DEF Strung, Chained
<1>2. QED BY <1>1, AlwaysWired, PTL

-----------------------------------------------------------------------------
(* XQueue, as module XQueueLinks names it. *)

\* The lists start alike.
LEMMA SameInit == Q!Init => Lists!Init
BY DEF Q!Init, Lists!Init, Q!Blocks, Lists!Blocks, Q!Blank, Lists!Blank, Q!Threads,
       Lists!Threads, Free, Used, Data, Chains, Places

\* They have the same variables.
LEMMA SameVars == Q!vars = Lists!vars /\ (Q!vars)' = (Lists!vars)'
BY DEF Q!vars, Lists!vars, Free, Used, Data, Chains, Places

\* And the same operators on messages and lists.
LEMMA SameOperators ==
  /\ Q!Blocks = Lists!Blocks /\ Q!Threads = Lists!Threads
  /\ \A m : Q!NumBlocks(m) = Lists!NumBlocks(m)
  /\ \A m, i : Q!Filled(m, i) = Lists!Filled(m, i)
  /\ \A n : Q!Refused(n) <=> Lists!Refused(n)
  /\ \A c, n : Q!Released(c, n) = Lists!Released(c, n)
  /\ \A s, c, b : Q!Add(s, c, b) = Lists!Add(s, c, b)
  /\ \A s : Q!Extent(s) = Lists!Extent(s) /\ Q!TotalSize(s) = Lists!TotalSize(s)
            /\ Q!Copy(s) = Lists!Copy(s)
<1>1. /\ Q!Blocks = Lists!Blocks /\ Q!Threads = Lists!Threads
      /\ \A m : Q!NumBlocks(m) = Lists!NumBlocks(m)
      /\ \A m, i : Q!Filled(m, i) = Lists!Filled(m, i)
      /\ \A n : Q!Refused(n) <=> Lists!Refused(n)
      /\ \A c, n : Q!Released(c, n) = Lists!Released(c, n)
  BY DEF Q!Blocks, Lists!Blocks, Q!Threads, Lists!Threads, Q!NumBlocks, Lists!NumBlocks,
         Q!CalculateNoBlocks, Lists!CalculateNoBlocks, Q!Filled, Lists!Filled,
         Q!Refused, Lists!Refused, Q!Released, Lists!Released
<1>2. \A s, c, b : Q!Add(s, c, b) = Lists!Add(s, c, b) BY DEF Q!Add, Lists!Add
<1>3. \A s : Q!Extent(s) = Lists!Extent(s) BY DEF Q!Extent, Lists!Extent, Data
<1>4. \A s : Q!TotalSize(s) = Lists!TotalSize(s)
  BY DEF Q!TotalSize, Q!FoldLeft, Q!MapThenFoldSet, Q!Max,
         Lists!TotalSize, Lists!FoldLeft, Lists!MapThenFoldSet, Lists!Max, Data
<1>5. \A s : Q!Copy(s) = Lists!Copy(s) BY DEF Q!Copy, Lists!Copy, Data
<1>6. QED BY <1>1, <1>2, <1>3, <1>4, <1>5

\* A step of one is a step of the other.
LEMMA SameNext == Q!Next => Lists!Next
<1> USE SameOperators DEF Q!Goto, Lists!Goto, Q!Return, Lists!Return, Q!Lists, Lists!Lists,
                          Free, Used, Data, Chains, Places
<1>1. ASSUME NEW w \in Writers, Q!WriteStep(w)
      PROVE  Lists!WriteStep(w)
  <2>1. Q!WaitForSemWrite(w) => Lists!WaitForSemWrite(w)
    BY DEF Q!WaitForSemWrite, Lists!WaitForSemWrite
  <2>2. Q!WriteTimeout(w) => Lists!WriteTimeout(w)
    BY DEF Q!WriteTimeout, Lists!WriteTimeout
  <2>3. Q!AllocBlock(w) => Lists!AllocBlock(w)
    BY DEF Q!AllocBlock, Lists!AllocBlock
  <2>4. Q!AppendUsed(w) => Lists!AppendUsed(w)
    BY DEF Q!AppendUsed, Lists!AppendUsed
  <2>5. Q!PostRead(w) => Lists!PostRead(w) BY DEF Q!PostRead, Lists!PostRead
  <2>6. Q!GiveBack(w) => Lists!GiveBack(w) BY DEF Q!GiveBack, Lists!GiveBack
  <2>7. QED
    BY <1>1, <2>1, <2>2, <2>3, <2>4, <2>5, <2>6, Zenon DEF Q!WriteStep, Lists!WriteStep
<1>2. ASSUME NEW w \in Writers, NEW n \in Sizes[w], Q!Write(w, n)
      PROVE  Lists!Write(w, n)
  BY <1>2 DEF Q!Write, Lists!Write
<1>3. ASSUME NEW r \in Readers, Q!ReadStep(r)
      PROVE  Lists!ReadStep(r)
  <2>1. Q!WaitForSemRead(r) => Lists!WaitForSemRead(r)
    BY DEF Q!WaitForSemRead, Lists!WaitForSemRead
  <2>2. Q!ReadTimeout(r) => Lists!ReadTimeout(r)
    BY DEF Q!ReadTimeout, Lists!ReadTimeout
  <2>3. Q!TakeMessage(r) => Lists!TakeMessage(r)
    BY DEF Q!TakeMessage, Lists!TakeMessage
  <2>4. Q!CopyOut(r) => Lists!CopyOut(r)
    BY DEF Q!CopyOut, Lists!CopyOut
  <2>5. Q!FreeBlocks(r) => Lists!FreeBlocks(r)
    BY DEF Q!FreeBlocks, Lists!FreeBlocks
  <2>6. Q!ReleaseWrite(r) => Lists!ReleaseWrite(r) BY DEF Q!ReleaseWrite, Lists!ReleaseWrite
  <2>7. QED
    BY <1>3, <2>1, <2>2, <2>3, <2>4, <2>5, <2>6, Zenon DEF Q!ReadStep, Lists!ReadStep
<1>4. ASSUME NEW r \in Readers, NEW n \in BufSizes, Q!Read(r, n)
      PROVE  Lists!Read(r, n)
  BY <1>4 DEF Q!Read, Lists!Read
<1>5. QED BY <1>1, <1>2, <1>3, <1>4, Zenon DEF Q!Next, Lists!Next

\* The code with its links, its counters and its mutexes implements the queue of blocks:
\* each section is one step of it, taken when the section is left.
THEOREM ImplementsLists == Spec => ListsSpec
<1>1. Init => Wired /\ Above /\ Lists!Init BY LinksInit, SameInit
<1>2. Wired /\ Above /\ [Next]_vars => Wired' /\ Above' /\ [Lists!Next]_(Lists!vars)
  <2> SUFFICES ASSUME Wired, Above, [Next]_vars
               PROVE  Wired' /\ Above' /\ [Lists!Next]_(Lists!vars)
    OBVIOUS
  <2>1. Wired' /\ Above' /\ [Q!Next]_(Q!vars) BY LinksNext
  <2>2. CASE Q!Next BY <2>1, <2>2, SameNext
  <2>3. CASE UNCHANGED Q!vars BY <2>1, <2>3, SameVars
  <2>4. QED BY <2>1, <2>2, <2>3
<1>3. QED BY <1>1, <1>2, PTL DEF Spec, ListsSpec, Lists!Spec

-----------------------------------------------------------------------------
(* What the links inherit from the lists, and their types. *)

\* Through the links and outside the locks, every message comes whole, at most once and in
\* the order of the writes: what is proved of the lists holds of the code one level below.
THEOREM LinksKeepOrder == Spec => Q!FifoSpec
<1>1. Q!Spec => Q!FifoSpec
  BY Q!ImplementsFifo, QueueAssumption, NoMsgAssumption DEF Message, Q!Message
<1>2. Spec => Q!Spec BY LinksInit, LinksNext, PTL DEF Spec, Q!Spec
<1>3. QED BY <1>1, <1>2

\* What a block may have in it, and what a server owes.
Stored == [of : Message \cup {NoMsg}, part : 0 .. QueueSize, size : 0 .. DataSize, cont : BOOLEAN]

\* The contents and the debts are within the bounds of the queue.
Bounds ==
    /\ block \in [Blocks -> Stored]
    /\ owed \in [Readers -> 0 .. QueueSize]

\* A block of a message has no more than DataSize bytes.
LEMMA FilledBounds ==
  ASSUME NEW m \in Message, NEW n \in 1 .. NumBlocks(m), ~ Refused(m.size)
  PROVE  Filled(m, n) \in Stored
<1>1. m \in Q!Sendable /\ n \in 1 .. Q!NumBlocks(m) BY SameData DEF Q!Sendable
<1>2. /\ NumBlocks(m) \in Nat \ {0} /\ m.size \in Nat /\ DataSize \in Nat \ {0}
      /\ QueueSize \in Nat
  <2>1. Q!NumBlocks(m) \in Nat \ {0}
    BY <1>1, Q!NumBlocksType, QueueAssumption, NoMsgAssumption DEF Message, Q!Message, Q!Sendable
  <2>2. QED BY <2>1, SameData, QueueAssumption DEF Message
<1>3. NumBlocks(m) <= QueueSize
  BY <1>2 DEF Refused, NumBlocks, CalculateNoBlocks
<1>4. n \in 1 .. QueueSize BY <1>2, <1>3
<1>5. \A j \in 1 .. NumBlocks(m) : j * DataSize < m.size <=> j < NumBlocks(m)
  BY <1>1, Q!FlagOnAllButLast, SameData, QueueAssumption, NoMsgAssumption DEF Message, Q!Message
<1>6. PICK d \in Nat : d = (n - 1) * DataSize BY <1>2, <1>4
<1>7. n * DataSize = d + DataSize BY <1>2, <1>4, <1>6
<1>8. d <= m.size
  <2>1. CASE n = 1 BY <1>2, <1>6, <2>1
  <2>2. CASE n # 1
    <3>1. n - 1 \in 1 .. NumBlocks(m) /\ n - 1 < NumBlocks(m) BY <1>2, <2>2
    <3>2. QED BY <1>2, <1>5, <1>6, <3>1
  <2>3. QED BY <2>1, <2>2
<1>9. Filled(m, n).size \in 0 .. DataSize
  BY <1>2, <1>6, <1>7, <1>8 DEF Filled
<1>10. Filled(m, n).cont \in BOOLEAN BY <1>2, <1>4 DEF Filled
<1>11. Filled(m, n) = [of |-> m, part |-> n, size |-> Filled(m, n).size,
                       cont |-> Filled(m, n).cont]
  BY DEF Filled
<1>12. QED BY <1>4, <1>9, <1>10, <1>11 DEF Stored

\* Every step keeps the bounds.
LEMMA BoundsNext ==
  ASSUME Wired, Above, Bounds, [Next]_vars
  PROVE  Bounds'
<1>1. CASE UNCHANGED vars BY <1>1 DEF vars, shared, locals, Bounds
<1>2. ASSUME NEW w \in Writers, WriteStep(w)
      PROVE  Bounds'
  <2>1. CASE FillBlock(w)
    <3>1. pc[w] = "fill" /\ block' = [block EXCEPT ![cur[w]] = Filled(msg[w], cnt[w] + 1)]
          /\ owed' = owed
      BY <2>1 DEF FillBlock
    <3>2. msg[w] \in Message /\ cnt[w] < NumBlocks(msg[w]) /\ NumBlocks(msg[w]) \in Nat
      BY <3>1, HeldWhere
    <3>3. cnt[w] \in Nat BY DEF Wired, Pointers, Threads
    <3>4. ~ Refused(msg[w].size)
      <4>1. Places[w] # "idle" BY <3>1 DEF Places, AbsPc, Threads
      <4>2. msg[w] \in Q!Sendable BY <4>1 DEF Above, Q!Ordered, Q!Filling
      <4>3. QED BY <4>2, SameData DEF Q!Sendable
    <3>5. cnt[w] + 1 \in 1 .. NumBlocks(msg[w]) BY <3>2, <3>3
    <3>6. Filled(msg[w], cnt[w] + 1) \in Stored BY <3>2, <3>4, <3>5, FilledBounds
    <3>7. QED BY <3>1, <3>6 DEF Bounds
  <2>2. CASE ~ FillBlock(w)
    <3>1. block' = block /\ owed' = owed
      BY <1>2, <2>2
      DEF WriteStep, WaitForSemWrite, WriteTimeout, EnterGetBlock, GetFreeBlock, EnterAppend,
          AppendUsed, PostRead, EnterGiveBack, GiveBack, Enter, shared, locals
    <3>2. QED BY <3>1 DEF Bounds
  <2>3. QED BY <2>1, <2>2
<1>3. ASSUME NEW w \in Writers, NEW n \in Sizes[w], Write(w, n)
      PROVE  Bounds'
  BY <1>3 DEF Write, shared, Bounds
<1>4. ASSUME NEW r \in Readers, ReadStep(r)
      PROVE  Bounds'
  <2>1. CASE TakeMessage(r)
    <3>1. /\ owed' = owed
          /\ block' = block \/ block' = [block EXCEPT ![cur[r]] = [block[cur[r]] EXCEPT !.size = 0]]
      BY <2>1 DEF TakeMessage
    <3>2. \A b \in Blocks : [block[b] EXCEPT !.size = 0] \in Stored
      BY QueueAssumption DEF Bounds, Stored
    <3>3. QED BY <3>1, <3>2 DEF Bounds
  <2>2. CASE CopyOut(r)
    <3>1. /\ owed' = owed
          /\ DOMAIN block' = Blocks
          /\ block' = [b \in Blocks |-> block'[b]]
          /\ \A b \in Blocks : block'[b] \in
                {block[b], [[block[b] EXCEPT !.size = 0] EXCEPT !.cont = FALSE]}
      BY <2>2 DEF CopyOut
    <3>2. \A b \in Blocks : [block[b] EXCEPT !.size = 0] \in Stored
      BY QueueAssumption DEF Bounds, Stored
    <3>3. \A c \in Stored : [c EXCEPT !.cont = FALSE] \in Stored BY DEF Stored
    <3>4. \A b \in Blocks : [[block[b] EXCEPT !.size = 0] EXCEPT !.cont = FALSE] \in Stored
      BY <3>2, <3>3
    <3>5. \A b \in Blocks : block[b] \in Stored BY DEF Bounds
    <3>6. \A b \in Blocks : block'[b] \in Stored BY <3>1, <3>4, <3>5
    <3>7. block' \in [Blocks -> Stored] BY <3>1, <3>6
    <3>8. owed' \in [Readers -> 0 .. QueueSize] BY <3>1 DEF Bounds
    <3>9. QED BY <3>7, <3>8 DEF Bounds
  <2>3. CASE FreeBlocks(r)
    <3>1. block' = block /\ owed' = [owed EXCEPT ![r] = cnt[r]] BY <2>3 DEF FreeBlocks
    <3>2. r \in Threads BY DEF Threads
    <3>3. Len(Held(r)) = cnt[r] /\ Held(r) \in Seq(Blocks) /\ Distinct(Held(r))
      BY <3>2, HeldType
    <3>4. cnt[r] \in 0 .. QueueSize BY <3>3, ListLength
    <3>5. QED BY <3>1, <3>4 DEF Bounds
  <2>4. CASE ReleaseWrite(r)
    <3>1. block' = block /\ owed' = [owed EXCEPT ![r] = 0] BY <2>4 DEF ReleaseWrite
    <3>2. QED BY <3>1, QueueAssumption DEF Bounds
  <2>5. CASE ~ (TakeMessage(r) \/ CopyOut(r) \/ FreeBlocks(r) \/ ReleaseWrite(r))
    <3>1. block' = block /\ owed' = owed
      BY <1>4, <2>5
      DEF ReadStep, WaitForSemRead, ReadTimeout, EnterTake, EnterFree, Enter, shared, locals
    <3>2. QED BY <3>1 DEF Bounds
  <2>6. QED BY <2>1, <2>2, <2>3, <2>4, <2>5
<1>5. ASSUME NEW r \in Readers, NEW n \in BufSizes, Read(r, n)
      PROVE  Bounds'
  BY <1>5 DEF Read, shared, Bounds
<1>6. QED BY <1>1, <1>2, <1>3, <1>4, <1>5 DEF Next

\* Every link, head and tail is a block number or null, every counter is within the size of
\* the queue, and no block claims more bytes than it has room for.
THEOREM TypeCorrect == Spec => []TypeOK
<1>1. Init => Bounds
  BY QueueAssumption DEF Init, Bounds, Stored, Blank
<1>2. Wired /\ Above /\ Bounds => TypeOK
  <2> SUFFICES ASSUME Wired, Above, Bounds PROVE TypeOK OBVIOUS
  <2>1. list \in [{"free", "used"} ->
                     [head : BlockOrNil, tail : BlockOrNil, count : 0 .. QueueSize]]
    <3>1. \A k \in Kinds : list[k].count \in 0 .. QueueSize BY Separate, ListLength
    <3>2. \A k \in Kinds : list[k] \in [head : BlockOrNil, tail : BlockOrNil, count : Int]
      BY DEF Wired, Pointers
    <3>3. \A k \in Kinds :
             list[k] \in [head : BlockOrNil, tail : BlockOrNil, count : 0 .. QueueSize]
      BY <3>1, <3>2
    <3>4. list = [k \in Kinds |-> list[k]] BY DEF Wired, Pointers
    <3>5. QED BY <3>3, <3>4 DEF Kinds
  <2>2. cnt \in [Threads -> 0 .. QueueSize]
    <3>1. \A t \in Threads : cnt[t] \in 0 .. QueueSize BY HeldType, ListLength
    <3>2. QED BY <3>1 DEF Wired, Pointers
  <2>3. /\ writeSem \in 0 .. QueueSize /\ readSem \in 0 .. QueueSize
        /\ msg \in [Writers -> Message \cup {NoMsg}] /\ sent \in [Writers -> 0 .. MaxMsgs]
    BY SameData DEF Above, Q!Safe, Q!Typed, Q!TypeOK
  <2>4. QED BY <2>1, <2>2, <2>3 DEF TypeOK, Bounds, Stored, Wired, Pointers, Kinds
<1>3. Spec => []Bounds
  <2>1. Wired /\ Above /\ Bounds /\ [Next]_vars => Bounds' BY BoundsNext
  <2>2. QED BY <1>1, <2>1, AlwaysWired, PTL DEF Spec
<1>4. QED BY <1>2, <1>3, AlwaysWired, PTL
=============================================================================
