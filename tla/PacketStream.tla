----------------------------- MODULE PacketStream -----------------------------
(***************************************************************************)
(* What the receiving side of a connection promises: the bytes that have   *)
(* arrived are cut into packets where their own length fields say, and     *)
(* each packet is handed up once, in order, however the bytes arrived.     *)
(* A length field that cannot be right costs the bytes received so far,    *)
(* and only those.                                                         *)
(***************************************************************************)
EXTENDS Integers, Sequences

CONSTANTS Byte,
          LenEnd,               \* bytes needed to know a packet's length
          GetPacketLength(_)    \* of the packet a sequence of bytes begins with

VARIABLES up,         \* the connection can be read
          received,   \* the bytes that have arrived on it
          cut,        \* how many of them are done with
          delivered   \* the packets handed up

vars == <<up, received, cut, delivered>>

Rest == SubSeq(received, cut + 1, Len(received))

Init == up = FALSE /\ received = <<>> /\ cut = 0 /\ delivered = <<>>

Connect == /\ ~up
           /\ up' = TRUE /\ received' = <<>> /\ cut' = 0 /\ delivered' = <<>>

Arrive == /\ up
          /\ received' \in Seq(Byte)
          /\ Len(received') >= Len(received)
          /\ SubSeq(received', 1, Len(received)) = received
          /\ UNCHANGED <<up, cut, delivered>>

\* The next packet is complete.
Complete == /\ Len(Rest) >= LenEnd
            /\ GetPacketLength(Rest) \in 1 .. Len(Rest)

HandUp == /\ Complete
          /\ delivered' = Append(delivered, SubSeq(Rest, 1, GetPacketLength(Rest)))

Deliver == /\ up
           /\ HandUp
           /\ cut' = cut + GetPacketLength(Rest)
           /\ UNCHANGED <<up, received>>

\* Out of step: the bytes at hand are no packet, and are thrown away.  They
\* may be found out together with the packet before them.
Resync == /\ up
          /\ Len(Rest) >= LenEnd /\ GetPacketLength(Rest) = 0
          /\ cut' = Len(received)
          /\ UNCHANGED <<up, received, delivered>>

DeliverAndResync ==
    /\ up
    /\ HandUp
    /\ LET after == SubSeq(Rest, GetPacketLength(Rest) + 1, Len(Rest))
       IN  Len(after) >= LenEnd /\ GetPacketLength(after) = 0
    /\ cut' = Len(received)
    /\ UNCHANGED <<up, received>>

\* The connection ends, perhaps because a packet just handed up could not be
\* answered; what is left of the stream is nobody's.
HangUp == /\ up
          /\ up' = FALSE
          /\ cut' = Len(received)
          /\ HandUp \/ UNCHANGED delivered
          /\ UNCHANGED received

Next == Connect \/ Arrive \/ Deliver \/ Resync \/ DeliverAndResync \/ HangUp

Spec == Init /\ [][Next]_vars
=============================================================================
