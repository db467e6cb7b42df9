---------------------------- MODULE MCPacketFramer ----------------------------
(* PacketFramer with three byte values and packets of five: two bytes of        *)
(* payload are enough to hold a header and a version byte.  The checksum is a  *)
(* sum, for which every byte value is some packet's checksum.                  *)
EXTENDS PacketFramer

SumOf(s) ==
  LET sum[i \in 0 .. Len(s)] == IF i = 0 THEN 0 ELSE sum[i - 1] + s[i]
  IN  sum[Len(s)] % 3

PacketWith(a, b) ==
  LET s == <<PKG_HEADER, PKG_VER_LEN, a, b>> IN Append(s, SumOf(s))

\* Any payload.
AllPackets == {PacketWith(a, b) : a, b \in Byte}
=============================================================================
