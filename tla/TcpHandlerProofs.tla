--------------------------- MODULE TcpHandlerProofs ---------------------------
(***************************************************************************)
(* Theorems about TcpHandler for any packet format, any buffer and any     *)
(* stream: a handler that serves one connection, over a memcpy that copies *)
(* upwards, cuts the stream into its packets.                              *)
(***************************************************************************)
EXTENDS TcpHandler, TLAPS, SequenceTheorems

\* What OnRecvTcp() knows of the packet at hand, and that it reads a socket
\* that is not registered no more.
Scanning ==
    /\ ~up => pc = "recv"
    /\ up /\ pc = "frame" => nLength = 0 \/ (nIndex >= LenEnd /\ nLength = LengthAt(0))
    /\ up /\ pc = "packet" => /\ nLeave >= LenEnd
                              /\ nLength = LengthAt(pszPos)
                              /\ nLength > 0 /\ nLength <= nLeave

\* The inductive invariant.
Inv == TypeOK /\ Kept /\ RoomLeft /\ Eager /\ Scanning

-----------------------------------------------------------------------------
\* The length field is LengthBytes bytes long.
LEMMA FieldOf ==
    ASSUME NEW s \in Seq(Byte), Len(s) >= LenEnd
    PROVE  /\ SubSeq(s, LengthPos + 1, LenEnd) = [i \in 1 .. LengthBytes |-> s[LengthPos + i]]
           /\ SubSeq(s, LengthPos + 1, LenEnd) \in [1 .. LengthBytes -> Byte]
<1>1. LengthPos \in Nat /\ LengthBytes \in Nat \ {0} /\ LenEnd = LengthPos + LengthBytes
      /\ LenEnd \in Nat
  BY HandlerAssumption DEF LenEnd
<1>2. SubSeq(s, LengthPos + 1, LenEnd) = [i \in 1 .. LengthBytes |-> s[LengthPos + i]]
  BY <1>1
<1>3. ASSUME NEW i \in 1 .. LengthBytes PROVE s[LengthPos + i] \in Byte
  BY <1>1
<1>4. QED BY <1>2, <1>3

\* GetPacketLength() returns 0 or a length that the buffer can hold.
LEMMA LengthRange ==
    ASSUME NEW s \in Seq(Byte), Len(s) >= LenEnd
    PROVE  GetPacketLength(s) \in 0 .. MaxPacket
<1> DEFINE n == LengthField(SubSeq(s, LengthPos + 1, LenEnd))
<1>1. n \in Nat BY FieldOf, HandlerAssumption
<1> HIDE DEF n
<1>2. MaxPacket \in Nat /\ FixHeadLen \in Nat BY HandlerAssumption
<1>3. GetPacketLength(s) =
          LET total == IF ~IncludesHeader /\ n # 0 THEN (n + FixHeadLen) % SizeRange ELSE n
          IN  IF total > MaxPacket THEN 0 ELSE total
  BY DEF GetPacketLength, n
<1>4. (n + FixHeadLen) % SizeRange \in Nat BY <1>1, <1>2, HandlerAssumption
<1>5. QED BY <1>1, <1>2, <1>3, <1>4

\* It looks at the first LenEnd bytes only.
LEMMA LengthOfHead ==
    ASSUME NEW s \in Seq(Byte), NEW t \in Seq(Byte), Len(s) >= LenEnd, Len(t) >= LenEnd,
           \A i \in 1 .. LenEnd : s[i] = t[i]
    PROVE  GetPacketLength(s) = GetPacketLength(t)
<1>1. LengthPos \in Nat /\ LengthBytes \in Nat \ {0} /\ LenEnd = LengthPos + LengthBytes
  BY HandlerAssumption DEF LenEnd
<1>2. \A i \in 1 .. LengthBytes : s[LengthPos + i] = t[LengthPos + i] BY <1>1
<1>3. SubSeq(s, LengthPos + 1, LenEnd) = SubSeq(t, LengthPos + 1, LenEnd) BY <1>2, FieldOf
<1>4. QED BY <1>3 DEF GetPacketLength

\* Bytes() returns a sequence of n bytes.
LEMMA BytesOf ==
    ASSUME NEW buf, NEW p \in Nat, NEW n \in Nat, \A i \in 1 .. n : buf[p + i] \in Byte
    PROVE  /\ Bytes(buf, p, n) \in Seq(Byte) /\ Len(Bytes(buf, p, n)) = n
           /\ \A i \in 1 .. n : Bytes(buf, p, n)[i] = buf[p + i]
BY DEF Bytes

\* The bytes not yet delivered are bytes.
LEMMA PendingBytes ==
    ASSUME TypeOK, Kept, up
    PROVE  /\ Pending \in 0 .. MaxPacket /\ PendingAt \in 0 .. MaxPacket
           /\ \A i \in 1 .. Pending : szBuf[PendingAt + i] \in Byte
<1>1. MaxPacket \in Nat BY HandlerAssumption
<1>2. Pending \in 0 .. MaxPacket /\ PendingAt \in 0 .. MaxPacket
  BY <1>1 DEF TypeOK, Pending, PendingAt
<1>3. ASSUME NEW i \in 1 .. Pending PROVE szBuf[PendingAt + i] \in Byte
  <2>1. szBuf[PendingAt + i] = received[Len(received) - Pending + i] BY DEF Kept
  <2>2. Len(received) \in Nat /\ Pending <= Len(received) BY DEF TypeOK, Kept
  <2>3. Len(received) - Pending + i \in 1 .. Len(received) BY <1>2, <2>2
  <2>4. QED BY <2>1, <2>3 DEF TypeOK
<1>4. QED BY <1>2, <1>3

\* The length of the packet p bytes into what is pending.
LEMMA LengthAhead ==
    ASSUME TypeOK, Kept, up, NEW p \in Nat, p + LenEnd <= Pending
    PROVE  /\ LengthAt(PendingAt + p) \in 0 .. MaxPacket
           /\ Bytes(szBuf, PendingAt + p, LenEnd) \in Seq(Byte)
           /\ Len(Bytes(szBuf, PendingAt + p, LenEnd)) = LenEnd
<1>1. LenEnd \in Nat /\ MaxPacket \in Nat BY HandlerAssumption DEF LenEnd
<1>2. Pending \in Nat /\ PendingAt \in Nat BY <1>1, PendingBytes
<1>3. ASSUME NEW i \in 1 .. LenEnd PROVE szBuf[(PendingAt + p) + i] \in Byte
  <2>1. p + i \in 1 .. Pending BY <1>1, <1>2
  <2>2. szBuf[PendingAt + (p + i)] \in Byte BY <2>1, PendingBytes
  <2>3. PendingAt + (p + i) = (PendingAt + p) + i BY <1>1, <1>2
  <2>4. QED BY <2>2, <2>3
<1>4. PendingAt + p \in Nat BY <1>2
<1>5. /\ Bytes(szBuf, PendingAt + p, LenEnd) \in Seq(Byte)
      /\ Len(Bytes(szBuf, PendingAt + p, LenEnd)) = LenEnd
  BY <1>1, <1>3, <1>4, BytesOf
<1>6. QED BY <1>1, <1>5, LengthRange DEF LengthAt

-----------------------------------------------------------------------------
LEMMA InvInit == Init => Inv
<1> SUFFICES ASSUME Init PROVE Inv OBVIOUS
<1>1. MaxPacket \in Nat /\ MaxConns \in Nat BY HandlerAssumption
<1>2. TypeOK
  <2>1. <<>> \in Seq(Byte) /\ <<>> \in Seq(Seq(Byte \cup {NoByte})) OBVIOUS
  <2>2. [i \in 1 .. MaxPacket |-> NoByte] \in [1 .. MaxPacket -> Byte \cup {NoByte}] OBVIOUS
  <2>3. up \in BOOLEAN BY DEF Init
  <2>4. QED BY <1>1, <2>1, <2>2, <2>3 DEF Init, TypeOK
<1>3. QED BY <1>2 DEF Init, Inv, Kept, RoomLeft, Eager, Scanning

\* A connection begins with an empty buffer.
LEMMA InvConnect == ASSUME ~Reuse, Inv, Connect PROVE Inv'
<1>1. MaxPacket \in Nat /\ MaxConns \in Nat /\ LenEnd \in Nat \ {0} /\ LenEnd <= MaxPacket
  BY HandlerAssumption DEF LenEnd
<1>2. TypeOK' BY <1>1 DEF Inv, TypeOK, Connect, Reset
<1>3. nIndex' = 0 /\ nLength' = 0 /\ pBuf' = 0 /\ uiLen' = MaxPacket /\ pc' = "recv" /\ up'
      /\ received' = <<>>
  BY DEF Connect, Reset
<1>4. Kept' BY <1>1, <1>3 DEF Kept, Pending, PendingAt
<1>5. RoomLeft' /\ Eager' /\ Scanning' BY <1>1, <1>3 DEF RoomLeft, Eager, Scanning
<1>6. QED BY <1>2, <1>4, <1>5 DEF Inv

LEMMA InvDisconnect == ASSUME Inv, Disconnect PROVE Inv'
<1>1. TypeOK' BY DEF Inv, TypeOK, Disconnect
<1>2. QED BY <1>1 DEF Inv, Disconnect, Kept, RoomLeft, Eager, Scanning

\* recv() puts its bytes behind those that are there.
LEMMA InvRecv ==
    ASSUME Inv, NEW n \in 1 .. uiLen, NEW s \in [1 .. n -> Byte], Recv(s)
    PROVE  Inv'
<1>1. MaxPacket \in Nat /\ LenEnd \in Nat BY HandlerAssumption DEF LenEnd
<1>2. up /\ pc = "recv" /\ up' /\ pc' = "frame" BY DEF Recv, Inv, TypeOK
<1>3. s \in Seq(Byte) /\ Len(s) = n /\ n \in Nat BY DEF Inv, TypeOK
<1>4. /\ pBuf = nIndex /\ uiLen = MaxPacket - nIndex /\ nIndex \in Nat
      /\ nIndex + n <= MaxPacket /\ nLength' = nLength
  BY <1>1, <1>2, <1>3 DEF Inv, TypeOK, RoomLeft, Recv
<1>5. /\ received' = received \o s /\ received' \in Seq(Byte)
      /\ Len(received') = Len(received) + n /\ Len(received) \in Nat
  <2>1. received \in Seq(Byte) /\ received' = received \o s BY DEF Recv, Inv, TypeOK
  <2>2. received \o s \in Seq(Byte) /\ Len(received \o s) = Len(received) + Len(s)
    BY <1>3, <2>1, ConcatProperties
  <2>3. Len(received) \in Nat BY <2>1
  <2>4. QED BY <1>3, <2>1, <2>2, <2>3
<1>6. /\ \A i \in 1 .. nIndex : szBuf'[i] = szBuf[i]
      /\ \A i \in 1 .. n : szBuf'[nIndex + i] = s[i]
      /\ szBuf' \in [1 .. MaxPacket -> Byte \cup {NoByte}]
  <2>1. ASSUME NEW i \in 1 .. MaxPacket
        PROVE  szBuf'[i] = IF i - nIndex \in 1 .. n THEN s[i - nIndex] ELSE szBuf[i]
    BY <1>3, <1>4 DEF Recv
  <2>2. ASSUME NEW i \in 1 .. n PROVE szBuf'[nIndex + i] = s[i]
    <3>1. nIndex + i \in 1 .. MaxPacket /\ (nIndex + i) - nIndex = i BY <1>1, <1>3, <1>4
    <3>2. QED BY <2>1, <3>1
  <2>3. ASSUME NEW i \in 1 .. nIndex PROVE szBuf'[i] = szBuf[i]
    <3>1. i \in 1 .. MaxPacket /\ ~ (i - nIndex \in 1 .. n) BY <1>1, <1>3, <1>4
    <3>2. QED BY <2>1, <3>1
  <2>4. szBuf' = [i \in 1 .. MaxPacket |->
                    IF i - pBuf \in 1 .. Len(s) THEN s[i - pBuf] ELSE szBuf[i]]
    BY DEF Recv
  <2>5. ASSUME NEW i \in 1 .. MaxPacket
        PROVE  (IF i - pBuf \in 1 .. Len(s) THEN s[i - pBuf] ELSE szBuf[i])
                  \in Byte \cup {NoByte}
    BY <1>3 DEF Inv, TypeOK
  <2>6. QED BY <2>2, <2>3, <2>4, <2>5
<1>7. TypeOK'
  BY <1>1, <1>2, <1>3, <1>4, <1>5, <1>6 DEF Inv, TypeOK, Recv
<1>8. Kept'
  <2>1. Pending = nIndex /\ PendingAt = 0 /\ Pending' = nIndex + n /\ PendingAt' = 0
    BY <1>2, <1>3 DEF Pending, PendingAt, Recv
  <2>2. nIndex <= Len(received) BY <1>2, <2>1 DEF Inv, Kept
  <2>3. ASSUME NEW i \in 1 .. nIndex + n
        PROVE  szBuf'[0 + i] = received'[Len(received') - (nIndex + n) + i]
    <3>1. CASE i <= nIndex
      <4>1. szBuf[i] = received[Len(received) - nIndex + i]
        BY <1>2, <2>1, <3>1 DEF Inv, Kept
      <4>2. Len(received) - nIndex + i \in 1 .. Len(received) BY <1>4, <1>5, <2>2, <3>1
      <4>3. received'[Len(received) - nIndex + i] = received[Len(received) - nIndex + i]
        BY <1>3, <1>5, <4>2 DEF Inv, TypeOK
      <4>4. Len(received') - (nIndex + n) + i = Len(received) - nIndex + i BY <1>3, <1>4, <1>5
      <4>5. QED BY <1>6, <3>1, <4>1, <4>3, <4>4
    <3>2. CASE i > nIndex
      <4>1. PICK j \in 1 .. n : i = nIndex + j
        <5>1. i - nIndex \in 1 .. n BY <1>3, <1>4, <3>2
        <5>2. i = nIndex + (i - nIndex) BY <1>4
        <5>3. QED BY <5>1, <5>2
      <4>2. received'[Len(received) + j] = s[j] BY <1>3, <1>5 DEF Inv, TypeOK
      <4>3. Len(received') - (nIndex + n) + i = Len(received) + j BY <1>3, <1>4, <1>5, <4>1
      <4>4. QED BY <1>6, <4>1, <4>2, <4>3
    <3>3. QED BY <1>4, <3>1, <3>2
  <2>4. nIndex + n <= Len(received') BY <1>3, <1>4, <1>5, <2>2
  <2>5. 0 + (nIndex + n) <= MaxPacket BY <1>3, <1>4
  <2>6. QED BY <2>1, <2>3, <2>4, <2>5 DEF Kept
<1>9. RoomLeft' /\ Eager' BY <1>2 DEF RoomLeft, Eager
<1>10. Scanning'
  <2>1. \/ nIndex < LenEnd /\ nLength = 0
        \/ nIndex >= LenEnd /\ nIndex < nLength /\ nLength = LengthAt(0)
    BY <1>2 DEF Inv, Eager
  <2>2. nIndex' = nIndex + n BY <1>3 DEF Recv
  <2>3. CASE nIndex >= LenEnd /\ nLength = LengthAt(0)
    <3>1. \A i \in 1 .. LenEnd : szBuf'[0 + i] = szBuf[0 + i] BY <1>1, <1>4, <1>6, <2>3
    <3>2. Bytes(szBuf', 0, LenEnd) = Bytes(szBuf, 0, LenEnd) BY <3>1 DEF Bytes
    <3>3. LengthAt(0)' = LengthAt(0) BY <3>2 DEF LengthAt
    <3>4. QED BY <1>1, <1>2, <1>3, <1>4, <2>2, <2>3, <3>3 DEF Scanning
  <2>4. QED BY <1>2, <1>4, <2>1, <2>3 DEF Scanning
<1>11. QED BY <1>7, <1>8, <1>9, <1>10 DEF Inv

\* OnRecvTcp() up to its first packet.
LEMMA InvFrame == ASSUME Inv, Frame PROVE Inv'
<1>1. /\ MaxPacket \in Nat /\ LenEnd \in Nat /\ LenEnd <= MaxPacket /\ LenEnd > 0
  BY HandlerAssumption DEF LenEnd
<1>2. pc = "frame" /\ up /\ up' /\ received' = received /\ szBuf' = szBuf /\ conn' = conn
      /\ delivered' = delivered
  BY DEF Inv, Scanning, Frame
<1>3. /\ nIndex \in Nat /\ nLength \in Nat /\ nIndex <= MaxPacket /\ nLength <= MaxPacket
      /\ Len(received) \in Nat
  BY <1>1 DEF Inv, TypeOK
<1>4. Pending = nIndex /\ PendingAt = 0 BY <1>2 DEF Pending, PendingAt
<1>5. nIndex >= LenEnd => LengthAt(0) \in 0 .. MaxPacket
  <2>1. nIndex >= LenEnd => LengthAt(0 + 0) \in 0 .. MaxPacket
    BY <1>1, <1>2, <1>3, <1>4, LengthAhead DEF Inv
  <2>2. QED BY <2>1
<1>6. LengthAt(0)' = LengthAt(0) BY <1>2 DEF LengthAt
<1> DEFINE length == IF nLength = 0 /\ nIndex >= LenEnd THEN LengthAt(0) ELSE nLength
<1>7. /\ length \in 0 .. MaxPacket
      /\ nIndex >= LenEnd => length = LengthAt(0)
      /\ nIndex < LenEnd => nLength = 0 /\ length = 0
  BY <1>1, <1>2, <1>3, <1>5 DEF Inv, Scanning
<1> HIDE DEF length
<1>8. CASE \/ nLength = 0 /\ nIndex < LenEnd /\ nLength' = nLength
           \/ nIndex < length /\ nLength' = length
  <2> SUFFICES ASSUME ReceiveMore(nIndex), pc' = "recv",
                      UNCHANGED <<nIndex, pszPos, nLeave>>
               PROVE  Inv'
    BY <1>1, <1>2, <1>3, <1>7, <1>8 DEF Frame, length, Reset
  <2>1. TypeOK' BY <1>1, <1>2, <1>3, <1>7, <1>8 DEF Inv, TypeOK, ReceiveMore
  <2>2. Pending' = Pending /\ PendingAt' = PendingAt BY <1>4 DEF Pending, PendingAt
  <2>3. Kept' BY <1>2, <2>2 DEF Inv, Kept
  <2>4. RoomLeft' BY <1>1, <1>3, <1>7, <1>8 DEF RoomLeft, ReceiveMore
  <2>5. Eager' BY <1>1, <1>3, <1>6, <1>7, <1>8 DEF Eager
  <2>6. Scanning' BY <1>2 DEF Scanning
  <2>7. QED BY <2>1, <2>3, <2>4, <2>5, <2>6 DEF Inv
<1>9. CASE Reset /\ pc' = "recv" /\ UNCHANGED <<pszPos, nLeave>>
  <2>1. TypeOK' BY <1>1, <1>2, <1>9 DEF Inv, TypeOK, Reset
  <2>2. Kept' BY <1>1, <1>3, <1>9 , <1>2 DEF Kept, Pending, PendingAt, Reset
  <2>3. QED BY <1>1, <1>2, <1>9, <2>1, <2>2 DEF Inv, RoomLeft, Eager, Scanning, Reset
<1>10. CASE /\ length > 0 /\ nIndex >= length /\ nLength' = length
            /\ pszPos' = 0 /\ nLeave' = nIndex /\ pc' = "packet"
            /\ UNCHANGED <<nIndex, pBuf, uiLen>>
  <2>1. nIndex >= LenEnd BY <1>1, <1>3, <1>7, <1>10 DEF length
  <2>2. TypeOK' BY <1>1, <1>2, <1>3, <1>7, <1>10 DEF Inv, TypeOK
  <2>3. Pending' = Pending /\ PendingAt' = PendingAt
    BY <1>4, <1>10 DEF Pending, PendingAt
  <2>4. Kept' BY <1>2, <2>3 DEF Inv, Kept
  <2>5. Scanning' BY <1>2, <1>3, <1>6, <1>7, <1>10, <2>1 DEF Scanning
  <2>6. QED BY <1>10, <2>2, <2>4, <2>5 DEF Inv, RoomLeft, Eager
<1>11. QED BY <1>8, <1>9, <1>10 DEF Frame, length

\* The memcpy of OnRecvTcp() moves the bytes as they are, when it copies up.
LEMMA Moved ==
    ASSUME ~CopiesDown, NEW p \in Nat, NEW n \in Nat, p + n <= MaxPacket,
           szBuf \in [1 .. MaxPacket -> Byte \cup {NoByte}], szBuf' \in MemCpy(p, n)
    PROVE  /\ szBuf' \in [1 .. MaxPacket -> Byte \cup {NoByte}]
           /\ \A i \in 1 .. n : szBuf'[i] = szBuf[p + i]
<1>1. MaxPacket \in Nat BY HandlerAssumption
<1>2. szBuf' = [i \in 1 .. MaxPacket |-> IF i <= n THEN szBuf[p + i] ELSE szBuf[i]]
  BY DEF MemCpy, CopiedUp
<1>3. ASSUME NEW i \in 1 .. MaxPacket
      PROVE  (IF i <= n THEN szBuf[p + i] ELSE szBuf[i]) \in Byte \cup {NoByte}
  <2>1. i <= n => p + i \in 1 .. MaxPacket BY <1>1
  <2>2. QED BY <2>1
<1>4. QED BY <1>1, <1>2, <1>3

\* One packet and what follows it.
LEMMA InvOnPacket == ASSUME ~CopiesDown, Inv, OnPacket PROVE Inv'
<1> DEFINE pos    == pszPos + nLength
           left   == nLeave - nLength
           length == LengthAt(pos)
<1>1. /\ MaxPacket \in Nat /\ LenEnd \in Nat /\ LenEnd <= MaxPacket /\ LenEnd > 0
  BY HandlerAssumption DEF LenEnd
<1>2. pc = "packet" /\ up /\ up' /\ up' = up /\ received' = received /\ conn' = conn
  BY DEF Inv, Scanning, OnPacket
<1>3. /\ pszPos \in Nat /\ nLeave \in Nat /\ nLength \in Nat /\ Len(received) \in Nat
      /\ 0 < nLength /\ nLength <= nLeave /\ nLength <= MaxPacket
      /\ pszPos + nLeave <= MaxPacket /\ nLeave <= Len(received)
      /\ Pending = nLeave /\ PendingAt = pszPos
  BY <1>1, <1>2 DEF Inv, TypeOK, Kept, Scanning, Pending, PendingAt
<1>4. pos \in Nat /\ left \in Nat /\ pos + left = pszPos + nLeave /\ left <= nLeave
      /\ pos + left <= MaxPacket
  BY <1>1, <1>3
<1>5. left >= LenEnd => length \in 0 .. MaxPacket
  <2> SUFFICES ASSUME left >= LenEnd PROVE length \in 0 .. MaxPacket OBVIOUS
  <2>1. nLength + LenEnd <= Pending BY <1>1, <1>3
  <2>2. QED BY <1>2, <1>3, <2>1, LengthAhead DEF Inv
<1>6. \A i \in 1 .. left : szBuf[pos + i] = received[Len(received) - left + i]
  <2>1. ASSUME NEW i \in 1 .. left
        PROVE  szBuf[pos + i] = received[Len(received) - left + i]
    <3>1. nLength + i \in 1 .. Pending BY <1>3, <1>4
    <3>2. szBuf[PendingAt + (nLength + i)] = received[Len(received) - Pending + (nLength + i)]
      BY <1>2, <3>1 DEF Inv, Kept
    <3>3. PendingAt + (nLength + i) = pos + i BY <1>3
    <3>4. Len(received) - Pending + (nLength + i) = Len(received) - left + i BY <1>3
    <3>5. QED BY <3>2, <3>3, <3>4
  <2>2. QED BY <2>1
<1>7. delivered' \in Seq(Seq(Byte \cup {NoByte}))
  <2>1. ASSUME NEW i \in 1 .. nLength PROVE szBuf[pszPos + i] \in Byte
    <3>1. i \in 1 .. Pending BY <1>3
    <3>2. QED BY <1>2, <1>3, <3>1, PendingBytes DEF Inv
  <2>2. Bytes(szBuf, pszPos, nLength) \in Seq(Byte \cup {NoByte}) BY <1>3, <2>1 DEF Bytes
  <2>3. delivered' = Append(delivered, Bytes(szBuf, pszPos, nLength))
    BY DEF OnPacket, Deliver
  <2>4. delivered \in Seq(Seq(Byte \cup {NoByte})) BY DEF Inv, TypeOK
  <2>5. QED BY <2>2, <2>3, <2>4
<1>8. up' \in BOOLEAN BY <1>2 DEF Inv, TypeOK
<1> HIDE DEF pos, left, length
<1>9. CASE LongEnough(left) /\ length = 0 /\ Reset /\ pc' = "recv"
           /\ UNCHANGED <<szBuf, pszPos, nLeave>>
  <2>1. TypeOK' BY <1>1, <1>2, <1>7, <1>8, <1>9 DEF Inv, TypeOK, Reset
  <2>2. Kept' BY <1>1, <1>2, <1>3, <1>9 DEF Kept, Pending, PendingAt, Reset
  <2>3. QED BY <1>1, <1>2, <1>9, <2>1, <2>2 DEF Inv, RoomLeft, Eager, Scanning, Reset
<1>10. CASE LongEnough(left) /\ length > 0 /\ left >= length
            /\ nLength' = length /\ pszPos' = pos /\ nLeave' = left
            /\ UNCHANGED <<szBuf, nIndex, pBuf, uiLen, pc>>
  <2>1. left >= LenEnd BY <1>10 DEF LongEnough
  <2>2. TypeOK' BY <1>1, <1>2, <1>4, <1>5, <1>7, <1>8, <1>10, <2>1 DEF Inv, TypeOK
  <2>3. Pending' = left /\ PendingAt' = pos BY <1>2, <1>10 DEF Pending, PendingAt
  <2>4. Kept' BY <1>2, <1>3, <1>4, <1>6, <1>10, <2>3 DEF Kept
  <2>5. LengthAt(pszPos)' = length BY <1>10 DEF LengthAt, length
  <2>6. Scanning' BY <1>2, <1>10, <2>1, <2>5 DEF Scanning
  <2>7. QED BY <1>2, <1>10, <2>2, <2>4, <2>6 DEF Inv, RoomLeft, Eager
<1>11. CASE /\ IF LongEnough(left) THEN left < length /\ nLength' = length ELSE nLength' = 0
            /\ left > 0 /\ szBuf' \in MemCpy(pos, left)
            /\ nIndex' = left /\ ReceiveMore(left)
            /\ pc' = "recv" /\ UNCHANGED <<pszPos, nLeave>>
  <2>1. /\ szBuf' \in [1 .. MaxPacket -> Byte \cup {NoByte}]
        /\ \A i \in 1 .. left : szBuf'[i] = szBuf[pos + i]
    BY <1>4, <1>11, Moved DEF Inv, TypeOK
  <2>2. nLength' \in 0 .. MaxPacket BY <1>1, <1>5, <1>11 DEF LongEnough
  <2>3. left \in 0 .. MaxPacket BY <1>1, <1>4
  <2>4. TypeOK' BY <1>1, <1>2, <1>7, <1>8, <1>11, <2>1, <2>2, <2>3 DEF Inv, TypeOK, ReceiveMore
  <2>5. Pending' = left /\ PendingAt' = 0 BY <1>11 DEF Pending, PendingAt
  <2>6. ASSUME NEW i \in 1 .. left
        PROVE  szBuf'[0 + i] = received'[Len(received') - left + i]
    BY <1>2, <1>6, <2>1
  <2>7. Kept' BY <1>2, <1>3, <1>4, <2>3, <2>5, <2>6 DEF Kept
  <2>8. left < MaxPacket
    <3>1. pos >= nLength BY <1>3 DEF pos
    <3>2. QED BY <1>1, <1>3, <1>4, <3>1
  <2>9. RoomLeft' BY <1>1, <1>4, <1>11, <2>8 DEF RoomLeft, ReceiveMore
  <2>10. Eager'
    <3>1. CASE LongEnough(left)
      <4>1. left >= LenEnd BY <3>1 DEF LongEnough
      <4>2. \A i \in 1 .. LenEnd : szBuf'[0 + i] = szBuf[pos + i] BY <1>1, <1>4, <2>1, <4>1
      <4>3. Bytes(szBuf', 0, LenEnd) = Bytes(szBuf, pos, LenEnd) BY <4>2 DEF Bytes
      <4>4. LengthAt(0)' = length BY <4>3 DEF LengthAt, length
      <4>5. QED BY <1>11, <3>1, <4>1, <4>4 DEF Eager
    <3>2. CASE ~LongEnough(left)
      <4>1. left < LenEnd BY <1>1, <1>4, <3>2 DEF LongEnough
      <4>2. QED BY <1>11, <3>2, <4>1 DEF Eager
    <3>3. QED BY <3>1, <3>2
  <2>11. Scanning' BY <1>2, <1>11 DEF Scanning
  <2>12. QED BY <2>4, <2>7, <2>9, <2>10, <2>11 DEF Inv
<1>12. CASE left = 0 /\ nLength' = 0 /\ KeepNothing /\ pc' = "recv"
            /\ UNCHANGED <<szBuf, pszPos, nLeave>>
  <2>1. TypeOK' BY <1>1, <1>2, <1>7, <1>8, <1>12 DEF Inv, TypeOK, KeepNothing
  <2>2. Kept' BY <1>1, <1>2, <1>3, <1>12 DEF Kept, Pending, PendingAt, KeepNothing
  <2>3. QED BY <1>1, <1>2, <1>12, <2>1, <2>2 DEF Inv, RoomLeft, Eager, Scanning, KeepNothing
<1>13. QED BY <1>9, <1>10, <1>11, <1>12 DEF OnPacket, pos, left, length

\* An answer that could not be sent ends the connection.
LEMMA InvOnPacketFails == ASSUME Inv, OnPacketFails PROVE Inv'
<1>1. MaxPacket \in Nat BY HandlerAssumption
<1>2. /\ pc = "packet" /\ up /\ pszPos \in Nat /\ nLength \in Nat /\ nLength <= Pending
      /\ PendingAt = pszPos /\ Pending \in Nat
  BY <1>1 DEF Inv, TypeOK, Scanning, OnPacketFails, Pending, PendingAt
<1>3. ASSUME NEW i \in 1 .. nLength PROVE szBuf[pszPos + i] \in Byte
  <2>1. i \in 1 .. Pending BY <1>2
  <2>2. QED BY <1>2, <2>1, PendingBytes DEF Inv
<1>4. Bytes(szBuf, pszPos, nLength) \in Seq(Byte \cup {NoByte}) BY <1>2, <1>3 DEF Bytes
<1>5. delivered' \in Seq(Seq(Byte \cup {NoByte}))
  BY <1>4 DEF Inv, TypeOK, OnPacketFails, Deliver
<1>6. up' \in BOOLEAN BY DEF OnPacketFails
<1>7. TypeOK' BY <1>5, <1>6 DEF Inv, TypeOK, OnPacketFails
<1>8. QED BY <1>7 DEF Inv, OnPacketFails, Kept, RoomLeft, Eager, Scanning

LEMMA InvNext == ASSUME ~Reuse, ~CopiesDown PROVE Inv /\ [Next]_vars => Inv'
<1> SUFFICES ASSUME Inv, [Next]_vars PROVE Inv' OBVIOUS
<1>1. CASE Connect BY <1>1, InvConnect
<1>2. CASE Disconnect BY <1>2, InvDisconnect
<1>3. ASSUME NEW n \in 1 .. uiLen, NEW s \in [1 .. n -> Byte], Recv(s) PROVE Inv'
  BY <1>3, InvRecv
<1>4. CASE Handler BY <1>4, InvFrame, InvOnPacket, InvOnPacketFails DEF Handler
<1>5. CASE UNCHANGED vars
  BY <1>5 DEF vars, Inv, TypeOK, Kept, RoomLeft, Eager, Scanning, Pending, PendingAt, LengthAt
<1>6. QED BY <1>1, <1>2, <1>3, <1>4, <1>5 DEF Next

\* What is not delivered is in the buffer as it came, recv() always has room
\* behind it, and no packet that is complete waits: on a connection with a
\* handler of its own, for any packet format and any stream.
THEOREM AlwaysInv == ASSUME ~Reuse, ~CopiesDown PROVE Spec => []Inv
<1>1. Init => Inv BY InvInit
<1>2. Inv /\ [Next]_vars => Inv' BY InvNext
<1>3. QED BY <1>1, <1>2, PTL DEF Spec

THEOREM BytesKept == ASSUME ~Reuse, ~CopiesDown PROVE Spec => []Kept
<1>1. Inv => Kept BY DEF Inv
<1>2. QED BY <1>1, AlwaysInv, PTL

THEOREM NeverFull == ASSUME ~Reuse, ~CopiesDown PROVE Spec => []RoomLeft
<1>1. Inv => RoomLeft BY DEF Inv
<1>2. QED BY <1>1, AlwaysInv, PTL

THEOREM NoPacketWaits == ASSUME ~Reuse, ~CopiesDown PROVE Spec => []Eager
<1>1. Inv => Eager BY DEF Inv
<1>2. QED BY <1>1, AlwaysInv, PTL

-----------------------------------------------------------------------------
(* The handler implements PacketStream. *)

\* What PacketStream has left of the stream is what the handler has pending.
LEMMA RestIs ==
    ASSUME Inv, up
    PROVE  /\ Stream!Rest \in Seq(Byte) /\ Len(Stream!Rest) = Pending /\ Pending \in Nat
           /\ \A i \in 1 .. Pending : Stream!Rest[i] = szBuf[PendingAt + i]
<1> DEFINE c == Len(received) - Pending
<1>1. Pending \in Nat /\ Len(received) \in Nat /\ Pending <= Len(received)
      /\ received \in Seq(Byte)
  BY PendingBytes DEF Inv, TypeOK, Kept
<1>2. Stream!Rest = SubSeq(received, c + 1, Len(received)) BY DEF Stream!Rest
<1>3. c \in Nat /\ c <= Len(received) BY <1>1
<1>4. Stream!Rest \in Seq(Byte) /\ Len(Stream!Rest) = Pending
      /\ \A i \in 1 .. Pending : Stream!Rest[i] = received[c + i]
  BY <1>1, <1>2, <1>3
<1>5. \A i \in 1 .. Pending : szBuf[PendingAt + i] = received[c + i] BY DEF Inv, Kept
<1>6. QED BY <1>1, <1>4, <1>5

\* Both read the same length.
LEMMA SameLength ==
    ASSUME Inv, up, NEW p \in Nat, p + LenEnd <= Pending
    PROVE  LengthAt(PendingAt + p) = GetPacketLength(SubSeq(Stream!Rest, p + 1, Pending))
<1> DEFINE s == SubSeq(Stream!Rest, p + 1, Pending)
           t == Bytes(szBuf, PendingAt + p, LenEnd)
<1>1. LenEnd \in Nat /\ MaxPacket \in Nat BY HandlerAssumption DEF LenEnd
<1>2. Pending \in Nat /\ PendingAt \in Nat BY <1>1, PendingBytes DEF Inv
<1>3. /\ s \in Seq(Byte) /\ Len(s) = Pending - p
      /\ \A i \in 1 .. Pending - p : s[i] = Stream!Rest[p + i]
  BY <1>1, <1>2, RestIs
<1>4. t \in Seq(Byte) /\ Len(t) = LenEnd BY LengthAhead DEF Inv
<1>5. ASSUME NEW i \in 1 .. LenEnd PROVE s[i] = t[i]
  <2>1. p + i \in 1 .. Pending /\ i \in 1 .. Pending - p BY <1>1, <1>2
  <2>2. s[i] = szBuf[PendingAt + (p + i)] BY <1>3, <2>1, RestIs
  <2>3. t[i] = szBuf[(PendingAt + p) + i] BY DEF Bytes
  <2>4. PendingAt + (p + i) = (PendingAt + p) + i BY <1>1, <1>2
  <2>5. QED BY <2>2, <2>3, <2>4
<1>6. Len(s) >= LenEnd BY <1>1, <1>2, <1>3
<1> HIDE DEF s, t
<1>7. GetPacketLength(s) = GetPacketLength(t) BY <1>1, <1>3, <1>4, <1>5, <1>6, LengthOfHead
<1>8. QED BY <1>7 DEF LengthAt, s, t

\* The packet the handler delivers is the next of the stream.
LEMMA HandsUp ==
    ASSUME Inv, up, pc = "packet", Deliver
    PROVE  Stream!HandUp /\ GetPacketLength(Stream!Rest) = nLength
<1>1. LenEnd \in Nat /\ MaxPacket \in Nat BY HandlerAssumption DEF LenEnd
<1>2. /\ Pending = nLeave /\ PendingAt = pszPos /\ nLeave \in Nat /\ pszPos \in Nat
      /\ nLength \in 1 .. nLeave /\ nLeave >= LenEnd /\ nLength = LengthAt(pszPos)
  BY <1>1 DEF Inv, TypeOK, Scanning, Pending, PendingAt
<1>3. SubSeq(Stream!Rest, 0 + 1, Pending) = Stream!Rest BY RestIs
<1>4. LengthAt(PendingAt + 0) = GetPacketLength(SubSeq(Stream!Rest, 0 + 1, Pending))
  BY <1>1, <1>2, SameLength
<1>5. GetPacketLength(Stream!Rest) = nLength
  <2>1. PendingAt + 0 = pszPos BY <1>2
  <2>2. LengthAt(PendingAt + 0) = nLength BY <1>2, <2>1
  <2>3. QED BY <1>3, <1>4, <2>2
<1>6. Bytes(szBuf, pszPos, nLength) = SubSeq(Stream!Rest, 1, nLength)
  <2>1. /\ Bytes(szBuf, pszPos, nLength) = [i \in 1 .. nLength |-> szBuf[pszPos + i]]
        /\ SubSeq(Stream!Rest, 1, nLength) = [i \in 1 .. nLength |-> Stream!Rest[i]]
    BY <1>2, RestIs DEF Bytes
  <2>2. \A i \in 1 .. nLength : Stream!Rest[i] = szBuf[pszPos + i] BY <1>2, RestIs
  <2>3. QED BY <2>1, <2>2
<1>7. Stream!Complete BY <1>2, <1>5, RestIs DEF Stream!Complete
<1>8. QED BY <1>5, <1>6, <1>7 DEF Deliver, Stream!HandUp

LEMMA FrameStep ==
    ASSUME Inv, Frame PROVE Stream!Resync \/ UNCHANGED Stream!vars
<1>1. LenEnd \in Nat /\ MaxPacket \in Nat BY HandlerAssumption DEF LenEnd
<1>2. /\ pc = "frame" /\ up /\ up' = up /\ received' = received /\ delivered' = delivered
      /\ Pending = nIndex /\ PendingAt = 0 /\ nIndex \in Nat /\ Len(received) \in Nat
  BY <1>1 DEF Inv, TypeOK, Scanning, Frame, Pending, PendingAt
<1>3. CASE nIndex' = nIndex /\ pc' = "recv"
  BY <1>2, <1>3 DEF Stream!vars, Pending
<1>4. CASE nIndex' = nIndex /\ nLeave' = nIndex /\ pc' = "packet"
  BY <1>2, <1>4 DEF Stream!vars, Pending
<1>5. CASE nLength = 0 /\ nIndex >= LenEnd /\ LengthAt(0) = 0 /\ Reset /\ pc' = "recv"
  <2>1. PendingAt + 0 = 0 /\ 0 + LenEnd <= Pending BY <1>1, <1>2, <1>5
  <2>2. GetPacketLength(SubSeq(Stream!Rest, 0 + 1, Pending)) = 0
    BY <1>2, <1>5, <2>1, SameLength
  <2>3. SubSeq(Stream!Rest, 0 + 1, Pending) = Stream!Rest BY <1>2, RestIs
  <2>4. Len(Stream!Rest) >= LenEnd BY <1>2, <1>5, RestIs
  <2>5. Len(received') - Pending' = Len(received)
    BY <1>2, <1>5 DEF Pending, Reset
  <2>6. QED BY <1>2, <2>2, <2>3, <2>4, <2>5 DEF Stream!Resync
<1>6. QED BY <1>3, <1>4, <1>5 DEF Frame

LEMMA OnPacketStep ==
    ASSUME ~CopiesDown, Inv, OnPacket PROVE Stream!Deliver \/ Stream!DeliverAndResync
<1> DEFINE left == nLeave - nLength
<1>1. LenEnd \in Nat /\ MaxPacket \in Nat BY HandlerAssumption DEF LenEnd
<1>2. /\ pc = "packet" /\ up /\ up' = up /\ received' = received /\ Deliver
      /\ Pending = nLeave /\ PendingAt = pszPos /\ nLeave \in Nat /\ pszPos \in Nat
      /\ nLength \in 1 .. nLeave /\ Len(received) \in Nat /\ left \in Nat
  BY <1>1 DEF Inv, TypeOK, Scanning, OnPacket, Pending, PendingAt
<1>3. Stream!HandUp /\ GetPacketLength(Stream!Rest) = nLength BY <1>2, HandsUp
<1>4. CASE Pending' = left
  <2>1. Len(received') - Pending' = (Len(received) - Pending) + nLength BY <1>2, <1>4
  <2>2. QED BY <1>2, <1>3, <2>1 DEF Stream!Deliver
<1>5. CASE LongEnough(left) /\ LengthAt(pszPos + nLength) = 0 /\ Reset /\ pc' = "recv"
  <2>1. nLength + LenEnd <= Pending BY <1>1, <1>2, <1>5 DEF LongEnough
  <2>2. GetPacketLength(SubSeq(Stream!Rest, nLength + 1, Pending)) = 0
    BY <1>2, <1>5, <2>1, SameLength
  <2>3. /\ Len(Stream!Rest) = Pending
        /\ Len(SubSeq(Stream!Rest, nLength + 1, Pending)) = left
    BY <1>2, RestIs
  <2>4. Len(received') - Pending' = Len(received) BY <1>2, <1>5 DEF Pending, Reset
  <2>5. left >= LenEnd BY <1>5 DEF LongEnough
  <2> HIDE DEF left
  <2>6. QED BY <1>2, <1>3, <2>2, <2>3, <2>4, <2>5 DEF Stream!DeliverAndResync
<1>6. CASE nLeave' = left /\ pc' = pc BY <1>2, <1>4, <1>6 DEF Pending
<1>7. CASE nIndex' = left /\ pc' = "recv" BY <1>4, <1>7 DEF Pending
<1>8. CASE left = 0 /\ KeepNothing /\ pc' = "recv" BY <1>7, <1>8 DEF KeepNothing
<1>9. QED BY <1>5, <1>6, <1>7, <1>8 DEF OnPacket

LEMMA StreamStep ==
    ASSUME ~Reuse, ~CopiesDown
    PROVE  Inv /\ [Next]_vars => [Stream!Next]_(Stream!vars)
<1> SUFFICES ASSUME Inv, [Next]_vars PROVE [Stream!Next]_(Stream!vars) OBVIOUS
<1>1. CASE Connect
  <2>1. ~up /\ up' /\ received' = <<>> /\ delivered' = <<>> /\ nIndex' = 0 /\ pc' = "recv"
    BY <1>1 DEF Connect, Reset
  <2>2. Len(received') - Pending' = 0 BY <2>1 DEF Pending
  <2>3. up' = TRUE BY <1>1 DEF Connect
  <2>4. Stream!Connect BY <2>1, <2>2, <2>3 DEF Stream!Connect
  <2>5. QED BY <2>4 DEF Stream!Next
<1>2. CASE Disconnect
  <2>1. Stream!HangUp BY <1>2 DEF Disconnect, Stream!HangUp
  <2>2. QED BY <2>1 DEF Stream!Next
<1>3. ASSUME NEW n \in 1 .. uiLen, NEW s \in [1 .. n -> Byte], Recv(s)
      PROVE  [Stream!Next]_(Stream!vars)
  <2>1. s \in Seq(Byte) /\ Len(s) = n /\ n \in Nat BY DEF Inv, TypeOK
  <2>2. received \in Seq(Byte) /\ Len(received) \in Nat /\ nIndex \in Int BY DEF Inv, TypeOK
  <2>3. /\ up /\ up' = up /\ delivered' = delivered /\ received' = received \o s
        /\ nIndex' = nIndex + n /\ pc = "recv" /\ pc' = "frame"
    BY <1>3, <2>1 DEF Recv
  <2>4. received' \in Seq(Byte) /\ Len(received') = Len(received) + n
    BY <2>1, <2>2, <2>3, ConcatProperties
  <2>5. SubSeq(received', 1, Len(received)) = received
    BY <2>1, <2>2, <2>3, <2>4, ConcatProperties
  <2>6. Len(received') - Pending' = Len(received) - Pending
    BY <2>1, <2>2, <2>3, <2>4 DEF Pending
  <2>7. Stream!Arrive BY <2>1, <2>2, <2>3, <2>4, <2>5, <2>6 DEF Stream!Arrive
  <2>8. QED BY <2>7 DEF Stream!Next
<1>4. CASE Frame BY <1>4, FrameStep DEF Stream!Next
<1>5. CASE OnPacket BY <1>5, OnPacketStep DEF Stream!Next
<1>6. CASE OnPacketFails
  <2>1. up /\ up' = FALSE /\ pc = "packet" /\ Deliver /\ received' = received
    BY <1>6 DEF OnPacketFails, Inv, Scanning
  <2>2. Stream!HandUp BY <2>1, HandsUp
  <2>3. Stream!HangUp BY <2>1, <2>2 DEF Stream!HangUp
  <2>4. QED BY <2>3 DEF Stream!Next
<1>7. CASE UNCHANGED vars BY <1>7 DEF vars, Stream!vars, Pending
<1>8. QED BY <1>1, <1>2, <1>3, <1>4, <1>5, <1>6, <1>7 DEF Next, Handler

\* The packets delivered are those of the stream, whatever pieces recv() cuts
\* it into: with a handler of its own for each connection, for any packet
\* format, any buffer that holds a header, and any stream, damaged or not.
THEOREM Framing == ASSUME ~Reuse, ~CopiesDown PROVE Spec => StreamSpec
<1>1. Init => Stream!Init BY DEF Init, Stream!Init
<1>2. Inv /\ [Next]_vars => [Stream!Next]_(Stream!vars) BY StreamStep
<1>3. QED BY <1>1, <1>2, AlwaysInv, PTL DEF Spec, StreamSpec, Stream!Spec
=============================================================================
