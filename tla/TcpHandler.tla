------------------------------ MODULE TcpHandler ------------------------------
(***************************************************************************)
(* CTcpHandlerLong (CommFramwork/Src/ProtocolProcess.cpp): one receive     *)
(* buffer that recv() fills in pieces of any size and OnRecvTcp() cuts     *)
(* into packets by the length field in their headers.                      *)
(*                                                                         *)
(* The selector thread reads a socket again only after OnRecvTcp() has     *)
(* returned, so one handler runs one call at a time.  An action is a       *)
(* recv(), the part of OnRecvTcp() before its first OnPacket(), or one     *)
(* OnPacket() with what follows it in the loop.                            *)
(*                                                                         *)
(* A server makes a handler for each connection it accepts.  A client      *)
(* keeps one over all its connections (Reuse).                             *)
(***************************************************************************)
EXTENDS Integers, Sequences

CONSTANTS Byte,            \* what a byte can be
          NoByte,          \* what a byte of the buffer is before recv()
          MaxPacket,       \* MAX_PACKET_SIZE
          LengthPos,       \* nLengthPos
          LengthBytes,     \* nLengthBytes
          IncludesHeader,  \* blLenIncludeHeader
          FixHeadLen,      \* nFixHeadLen
          LengthField(_),  \* the number in a length field: ntohs, ntohl, strtoul
          SizeRange,       \* how many numbers a size_t can be
          Reuse,           \* the handler is a client's
          CopiesDown,      \* memcpy may copy from the last byte down
          MaxBytes,        \* bound: bytes on one connection
          MaxConns         \* bound: connections

LenEnd == LengthPos + LengthBytes

ASSUME HandlerAssumption ==
    /\ NoByte \notin Byte
    /\ MaxPacket \in Nat /\ LengthPos \in Nat /\ LengthBytes \in Nat \ {0}
    /\ LenEnd <= MaxPacket
    /\ FixHeadLen \in Nat /\ SizeRange \in Nat \ {0}
    /\ IncludesHeader \in BOOLEAN /\ Reuse \in BOOLEAN /\ CopiesDown \in BOOLEAN
    /\ MaxBytes \in Nat /\ MaxConns \in Nat
    /\ \A s \in [1 .. LengthBytes -> Byte] : LengthField(s) \in Nat

VARIABLES
    conn,       \* number of connections so far
    up,         \* the current one is registered for reading
    received,   \* bytes recv() has returned on it
    delivered,  \* packets passed to OnPacket() on it
    szBuf,      \* m_szBuf
    nIndex,     \* m_nIndex, bytes in use at the front of m_szBuf
    nLength,    \* m_nLength, length of the packet being received, 0 = unknown
    pBuf,       \* m_stRcvBuf.pBuf - m_szBuf, where recv() puts its bytes
    uiLen,      \* m_stRcvBuf.uiLen, how many it may put there
    pc,         \* "recv", or in OnRecvTcp(): "frame" or "packet"
    pszPos,     \* pszPos - m_szBuf
    nLeave      \* nLeaveByte

vars == <<conn, up, received, delivered, szBuf, nIndex, nLength, pBuf, uiLen, pc,
          pszPos, nLeave>>

-----------------------------------------------------------------------------
\* n bytes of a buffer behind position p.
Bytes(buf, p, n) == [i \in 1 .. n |-> buf[p + i]]

\* GetPacketLength(): the length of the packet that s begins with, or 0 when
\* its length field cannot be right.  The sum may wrap around.
GetPacketLength(s) ==
    LET n     == LengthField(SubSeq(s, LengthPos + 1, LenEnd))
        total == IF ~IncludesHeader /\ n # 0 THEN (n + FixHeadLen) % SizeRange ELSE n
    IN  IF total > MaxPacket THEN 0 ELSE total

LengthAt(p) == GetPacketLength(Bytes(szBuf, p, LenEnd))

\* memcpy(m_szBuf, m_szBuf + p, n) that copies from the first byte up.
CopiedUp(p, n) == [i \in 1 .. MaxPacket |-> IF i <= n THEN szBuf[p + i] ELSE szBuf[i]]

\* The same from the last byte down: where source and target overlap, a byte
\* comes from a place that has been written already, p further on.
CopiedDown(p, n) ==
    [i \in 1 .. MaxPacket |->
        IF i <= n THEN szBuf[CHOOSE j \in n + 1 .. p + n : (j - i) % p = 0] ELSE szBuf[i]]

\* A memcpy left out.
MemCpyForgotten(p, n) == {szBuf}

\* What memcpy leaves in m_szBuf: undefined when the regions overlap.
MemCpy(p, n) == {CopiedUp(p, n)} \cup IF CopiesDown THEN {CopiedDown(p, n)} ELSE {}

\* Reset that forgets m_nLength, and ReceiveMore that forgets the bytes in use.
ResetKeepsLength == /\ nIndex' = 0 /\ nLength' = nLength
                    /\ pBuf' = 0 /\ uiLen' = MaxPacket

ReceiveWhole(index) == /\ pBuf' = index /\ uiLen' = MaxPacket

\* The next recv() has the whole buffer, or what is left of it.
Reset == /\ nIndex' = 0 /\ nLength' = 0
         /\ pBuf' = 0 /\ uiLen' = MaxPacket

ReceiveMore(index) == /\ pBuf' = index /\ uiLen' = MaxPacket - index

\* A packet that starts where the last one ended: nothing more is kept.
KeepNothing == nIndex' = 0 /\ pBuf' = 0 /\ uiLen' = MaxPacket

-----------------------------------------------------------------------------
\* Before the first connection a client's handler does not exist either; one
\* that has just been constructed stands for it.
Init == /\ conn = 0 /\ up = FALSE
        /\ received = <<>> /\ delivered = <<>>
        /\ szBuf = [i \in 1 .. MaxPacket |-> NoByte]
        /\ nIndex = 0 /\ nLength = 0
        /\ pBuf = 0 /\ uiLen = MaxPacket
        /\ pc = "recv" /\ pszPos = 0 /\ nLeave = 0

\* OnAccept() constructs a handler.  A client's OnConnect() constructs one for
\* its first connection and gives it each later socket, and Init() then only
\* asks for the packet format again.
Connect ==
    /\ ~up /\ pc = "recv"
    /\ conn < MaxConns
    /\ conn' = conn + 1 /\ up' = TRUE
    /\ received' = <<>> /\ delivered' = <<>>
    /\ IF Reuse
       THEN UNCHANGED <<szBuf, nIndex, nLength, pBuf, uiLen, pszPos, nLeave>>
       ELSE /\ Reset
            /\ szBuf' = [i \in 1 .. MaxPacket |-> NoByte]
            /\ pszPos' = 0 /\ nLeave' = 0
    /\ UNCHANGED pc

\* The peer closes, recv() fails, or somebody asks to close the connection.
Disconnect ==
    /\ up /\ pc = "recv"
    /\ up' = FALSE
    /\ UNCHANGED <<conn, received, delivered, szBuf, nIndex, nLength, pBuf, uiLen,
                   pc, pszPos, nLeave>>

\* RecvData(): recv() returns some bytes and OnRecvTcp() counts them.
Recv(s) ==
    /\ up /\ pc = "recv"
    /\ received' = received \o s
    /\ szBuf' = [i \in 1 .. MaxPacket |->
                    IF i - pBuf \in 1 .. Len(s) THEN s[i - pBuf] ELSE szBuf[i]]
    /\ nIndex' = nIndex + Len(s)
    /\ uiLen' = Len(s)
    /\ pc' = "frame"
    /\ UNCHANGED <<conn, up, delivered, nLength, pBuf, pszPos, nLeave>>

\* OnRecvTcp() up to its first packet: too few bytes for a header, a length
\* field that cannot be right, a packet still incomplete, or a whole one.
Frame ==
    /\ pc = "frame"
    /\ LET length == IF nLength = 0 /\ nIndex >= LenEnd THEN LengthAt(0) ELSE nLength IN
       \/ /\ nLength = 0 /\ nIndex < LenEnd
          /\ ReceiveMore(nIndex)
          /\ pc' = "recv"
          /\ UNCHANGED <<nIndex, nLength, pszPos, nLeave>>
       \/ /\ nLength = 0 /\ nIndex >= LenEnd /\ length = 0
          /\ Reset
          /\ pc' = "recv"
          /\ UNCHANGED <<pszPos, nLeave>>
       \/ /\ nIndex < length
          /\ ReceiveMore(nIndex) /\ nLength' = length
          /\ pc' = "recv"
          /\ UNCHANGED <<nIndex, pszPos, nLeave>>
       \/ /\ length > 0 /\ nIndex >= length
          /\ nLength' = length
          /\ pszPos' = 0 /\ nLeave' = nIndex
          /\ pc' = "packet"
          /\ UNCHANGED <<nIndex, pBuf, uiLen>>
    /\ UNCHANGED <<conn, up, received, delivered, szBuf>>

Deliver == delivered' = Append(delivered, Bytes(szBuf, pszPos, nLength))

\* LongEnough() that asks for one byte too many.
LongerThanHeader(n) == n > LenEnd

\* There is enough behind the packet to read a length field.
LongEnough(n) == n >= LenEnd

\* OnPacket() takes the packet and the loop looks at what follows it: a whole
\* packet, or the beginning of one, which moves to the front of the buffer, or
\* nothing, or something with a length that cannot be right.
OnPacket ==
    /\ pc = "packet"
    /\ Deliver
    /\ LET pos    == pszPos + nLength
           left   == nLeave - nLength
           length == LengthAt(pos)
       IN
       \/ /\ LongEnough(left) /\ length = 0
          /\ Reset
          /\ pc' = "recv"
          /\ UNCHANGED <<szBuf, pszPos, nLeave>>
       \/ /\ LongEnough(left) /\ length > 0 /\ left >= length
          /\ nLength' = length
          /\ pszPos' = pos /\ nLeave' = left
          /\ UNCHANGED <<szBuf, nIndex, pBuf, uiLen, pc>>
       \/ /\ IF LongEnough(left) THEN left < length /\ nLength' = length ELSE nLength' = 0
          /\ left > 0
          /\ szBuf' \in MemCpy(pos, left)
          /\ nIndex' = left
          /\ ReceiveMore(left)
          /\ pc' = "recv"
          /\ UNCHANGED <<pszPos, nLeave>>
       \/ /\ left = 0
          /\ nLength' = 0
          /\ KeepNothing
          /\ pc' = "recv"
          /\ UNCHANGED <<szBuf, pszPos, nLeave>>
    /\ UNCHANGED <<conn, up, received>>

\* OnPacket() fails: the packet was a Hello and the answer could not be sent.
\* SendData() has asked to close the connection, which is not read again, and
\* OnRecvTcp() returns -1 with its variables as they are.
OnPacketFails ==
    /\ pc = "packet"
    /\ Deliver
    /\ up' = FALSE
    /\ pc' = "recv"
    /\ UNCHANGED <<conn, received, szBuf, nIndex, nLength, pBuf, uiLen, pszPos, nLeave>>

-----------------------------------------------------------------------------
Handler == Frame \/ OnPacket \/ OnPacketFails

Next == \/ Connect \/ Disconnect
        \/ \E n \in 1 .. uiLen : /\ Len(received) + n <= MaxBytes
                                 /\ \E s \in [1 .. n -> Byte] : Recv(s)
        \/ Handler

Spec == Init /\ [][Next]_vars
-----------------------------------------------------------------------------
Pending == IF pc = "packet" THEN nLeave ELSE nIndex
PendingAt == IF pc = "packet" THEN pszPos ELSE 0

TypeOK ==
    /\ conn \in 0 .. MaxConns /\ up \in BOOLEAN
    /\ received \in Seq(Byte)
    /\ delivered \in Seq(Seq(Byte \cup {NoByte}))
    /\ szBuf \in [1 .. MaxPacket -> Byte \cup {NoByte}]
    /\ nIndex \in 0 .. MaxPacket /\ nLength \in 0 .. MaxPacket
    /\ pBuf \in 0 .. MaxPacket /\ uiLen \in 0 .. MaxPacket
    /\ pc \in {"recv", "frame", "packet"}
    /\ pszPos \in 0 .. MaxPacket /\ nLeave \in 0 .. MaxPacket

\* The bytes not yet delivered are in the buffer as they came.
Kept ==
    up => /\ Pending <= Len(received)
          /\ PendingAt + Pending <= MaxPacket
          /\ \A i \in 1 .. Pending :
                szBuf[PendingAt + i] = received[Len(received) - Pending + i]

\* recv() is never asked for no bytes, which RecvData() would take for the end
\* of the connection, and it puts its bytes behind those that are there.
RoomLeft ==
    up /\ pc = "recv" => /\ pBuf = nIndex /\ uiLen = MaxPacket - nIndex
                         /\ uiLen > 0

\* Nothing waits that could be delivered: between two calls the buffer holds
\* the beginning of one packet at most, and nLength is its length if known.
Eager ==
    up /\ pc = "recv" =>
        \/ nIndex < LenEnd /\ nLength = 0
        \/ nIndex >= LenEnd /\ nIndex < nLength /\ nLength = LengthAt(0)

-----------------------------------------------------------------------------
\* The handler implements PacketStream.
Stream == INSTANCE PacketStream WITH
    cut <- IF up THEN Len(received) - Pending ELSE Len(received)

\* The packets delivered are those of the stream, whatever pieces it came in.
StreamSpec == Stream!Spec
=============================================================================
