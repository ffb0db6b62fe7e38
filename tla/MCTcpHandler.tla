---------------------------- MODULE MCTcpHandler ----------------------------
(***************************************************************************)
(* Instances of TcpHandler for TLC: a packet is one byte of something, one *)
(* byte that holds the length of the rest, and the rest.                   *)
(***************************************************************************)
EXTENDS TcpHandler

\* A length field of one digit.
Digit(s) == s[1]

\* As lengths: none, one byte, as many as fill the buffer, one more, and one that makes
\* the sum wrap around to a packet shorter than its header.
MCByte == {0, 1, MaxPacket - FixHeadLen, MaxPacket - FixHeadLen + 1, SizeRange - 1}
=============================================================================
