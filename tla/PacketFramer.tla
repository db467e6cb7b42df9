----------------------------- MODULE PacketFramer -----------------------------
(***************************************************************************)
(* LiPkg::AnalysisOne (ldlidar_driver/src/dataprocess/lipkg.cpp): finding   *)
(* packets in the bytes of the serial line, which has no framing of its     *)
(* own.  A packet is a header byte, a version/length byte, a payload and a  *)
(* checksum over all of them.                                               *)
(*                                                                          *)
(* The sensor sends packet after packet; the line may lose, change or add   *)
(* bytes.  The framer's variables are statics of the function: they outlive *)
(* a session and a driver object, so a session that ends in the middle of a *)
(* packet is one more way of losing bytes.                                  *)
(***************************************************************************)
EXTENDS Integers, Sequences

CONSTANTS
  Byte,        \* the byte values
  PKG_HEADER,
  PKG_VER_LEN,
  PacketLen,   \* sizeof(LiDARFrameTypeDef)
  CalCRC8(_),  \* the checksum of a sequence of bytes
  Packet       \* the packets the sensor sends

ASSUME ByteAssumption ==
  PKG_HEADER \in Byte /\ PKG_VER_LEN \in Byte /\ PKG_HEADER # PKG_VER_LEN

ASSUME PacketLenAssumption == PacketLen \in Nat /\ PacketLen >= 3

MissedCap == 2

ChecksumOk(s) == s[Len(s)] = CalCRC8(SubSeq(s, 1, Len(s) - 1))

IsPacket(s) ==
  /\ s \in Seq(Byte)
  /\ Len(s) = PacketLen
  /\ s[1] = PKG_HEADER
  /\ s[2] = PKG_VER_LEN
  /\ ChecksumOk(s)

ASSUME PacketAssumption == \A p \in Packet : IsPacket(p)

VARIABLES
  state,     \* HEADER, VER_LEN or DATA
  tmp,       \* the bytes collected; count is its length
  pkg_,      \* the bytes that were collected last, <<>> at first
  returned,  \* what AnalysisOne returned last
  sending,   \* the packet on the line
  pos,       \* how many of its bytes have been delivered
  damaged,   \* history: bytes were lost, changed or added since it began
  aligned,   \* history: the framer stood at HEADER when it began
  missed     \* history: plain undamaged packets in a row that were not
             \*   accepted, counted up to MissedCap

framer == <<state, tmp, pkg_, returned>>
line == <<sending, pos, damaged, aligned>>
vars == <<framer, line, missed>>

TypeOK ==
  /\ state \in {"HEADER", "VER_LEN", "DATA"}
  /\ tmp \in Seq(Byte)
  /\ state = "HEADER" => tmp = <<>>
  /\ state = "VER_LEN" => tmp = <<PKG_HEADER>>
  /\ state = "DATA" => /\ Len(tmp) \in 2 .. PacketLen - 1
                       /\ tmp[1] = PKG_HEADER
                       /\ tmp[2] = PKG_VER_LEN
  /\ pkg_ \in Seq(Byte)
  /\ returned \in BOOLEAN
  /\ returned => state = "HEADER" /\ IsPacket(pkg_)
  /\ sending \in Packet
  /\ pos \in 0 .. PacketLen
  /\ damaged \in BOOLEAN
  /\ aligned \in BOOLEAN
  /\ missed \in 0 .. MissedCap

Init ==
  /\ state = "HEADER"
  /\ tmp = <<>>
  /\ pkg_ = <<>>
  /\ returned = FALSE
  /\ sending \in Packet
  /\ pos = 0
  /\ damaged = FALSE
  /\ aligned = TRUE
  /\ missed = 0

-----------------------------------------------------------------------------
(* AnalysisOne(b), one action per case of its switch.                         *)

Header(b) ==
  /\ state = "HEADER"
  /\ IF b = PKG_HEADER
       THEN tmp' = Append(tmp, b) /\ state' = "VER_LEN"
       ELSE UNCHANGED <<tmp, state>>
  /\ returned' = FALSE
  /\ UNCHANGED pkg_

\* A second header byte is not taken for the header it may be.
VerLen(b) ==
  /\ state = "VER_LEN"
  /\ IF b = PKG_VER_LEN
       THEN tmp' = Append(tmp, b) /\ state' = "DATA"
       ELSE tmp' = <<>> /\ state' = "HEADER"
  /\ returned' = FALSE
  /\ UNCHANGED pkg_

Collect(s) ==
  /\ tmp' = s
  /\ returned' = FALSE
  /\ UNCHANGED <<state, pkg_>>

Complete(s) ==
  /\ pkg_' = s
  /\ returned' = ChecksumOk(s)
  /\ tmp' = <<>>
  /\ state' = "HEADER"

\* Wrong on purpose: a packet is complete one byte late.
DataOneTooMany(b) ==
  /\ state = "DATA"
  /\ LET s == Append(tmp, b) IN
       IF Len(s) <= PacketLen THEN Collect(s) ELSE Complete(s)

\* Wrong on purpose: after a wrong checksum the framer does not go back to
\* HEADER, as if the next packet had to follow at once.
DataExpectsNextPacket(b) ==
  /\ state = "DATA"
  /\ LET s == Append(tmp, b) IN
       IF Len(s) < PacketLen
         THEN Collect(s)
         ELSE /\ pkg_' = s
              /\ returned' = ChecksumOk(s)
              /\ tmp' = IF returned' THEN <<>> ELSE SubSeq(s, 1, 2)
              /\ state' = IF returned' THEN "HEADER" ELSE "DATA"

Data(b) ==
  /\ state = "DATA"
  /\ LET s == Append(tmp, b) IN
       IF Len(s) < PacketLen THEN Collect(s) ELSE Complete(s)

AnalysisOne(b) == Header(b) \/ VerLen(b) \/ Data(b)

-----------------------------------------------------------------------------
(* The line.                                                                  *)

\* The next byte of the packet arrives as it was sent.
Deliver ==
  /\ pos < PacketLen
  /\ AnalysisOne(sending[pos + 1])
  /\ pos' = pos + 1
  /\ UNCHANGED <<sending, damaged, aligned, missed>>

\* The next byte is lost, arrives as another one, or has one before it.
Lose ==
  /\ pos < PacketLen
  /\ pos' = pos + 1
  /\ damaged' = TRUE
  /\ missed' = 0
  /\ UNCHANGED <<framer, sending, aligned>>

Change ==
  /\ pos < PacketLen
  /\ \E b \in Byte : AnalysisOne(b)
  /\ pos' = pos + 1
  /\ damaged' = TRUE
  /\ missed' = 0
  /\ UNCHANGED <<sending, aligned>>

Add ==
  /\ \E b \in Byte : AnalysisOne(b)
  /\ damaged' = TRUE
  /\ missed' = 0
  /\ UNCHANGED <<sending, pos, aligned>>

\* Was the packet that was just delivered accepted as a whole?
Accepted == returned /\ pkg_ = sending

\* A packet that has no header byte after its first.
Plain(p) == \A i \in 2 .. PacketLen : p[i] # PKG_HEADER

NextPacket ==
  /\ pos = PacketLen
  /\ sending' \in Packet
  /\ pos' = 0
  /\ missed' = IF damaged \/ Accepted \/ ~Plain(sending) THEN 0 ELSE
               IF missed < MissedCap THEN missed + 1 ELSE missed
  /\ damaged' = FALSE
  /\ aligned' = (state = "HEADER")
  /\ UNCHANGED framer

Next == Deliver \/ Lose \/ Change \/ Add \/ NextPacket

Spec == Init /\ [][Next]_vars

-----------------------------------------------------------------------------

\* An undamaged packet that finds the framer at HEADER is accepted, and leaves
\* it at HEADER for the next: whatever the payload looks like, header bytes
\* inside it included, the framer does not lose its place by itself
\* (lipkg.cpp:136-153).
SyncIsKept == 
  pos = PacketLen /\ aligned /\ ~damaged => Accepted /\ state = "HEADER"

\* However the framer lost its place, of two undamaged packets in a row that have
\* no header byte after their first the second is accepted (lipkg.cpp:130-134,
\* :143).  Without that condition any number can be missed.
OneMissed == missed <= 1

=============================================================================
