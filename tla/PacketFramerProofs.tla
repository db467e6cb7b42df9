-------------------------- MODULE PacketFramerProofs --------------------------
(***************************************************************************)
(* Proofs about PacketFramer, for every alphabet, packet length, checksum   *)
(* function and set of packets.                                             *)
(***************************************************************************)
EXTENDS PacketFramer, SequenceTheorems, TLAPS

LEMMA PacketBytes ==
  ASSUME NEW p \in Packet
  PROVE  /\ IsPacket(p)
         /\ Len(p) = PacketLen
         /\ \A i \in 1 .. PacketLen : p[i] \in Byte
  BY PacketAssumption, PacketLenAssumption DEF IsPacket

\* What TypeOK says of the framer's own variables.
Shape ==
  /\ state \in {"HEADER", "VER_LEN", "DATA"}
  /\ tmp \in Seq(Byte)
  /\ state = "HEADER" => tmp = <<>>
  /\ state = "VER_LEN" => tmp = <<PKG_HEADER>>
  /\ state = "DATA" => /\ Len(tmp) \in 2 .. PacketLen - 1
                       /\ tmp[1] = PKG_HEADER
                       /\ tmp[2] = PKG_VER_LEN

FramerTypeOK ==
  /\ Shape
  /\ pkg_ \in Seq(Byte)
  /\ returned \in BOOLEAN
  /\ returned => state = "HEADER" /\ IsPacket(pkg_)

\* What TypeOK says of the rest.
LineTypeOK ==
  /\ sending \in Packet
  /\ pos \in 0 .. PacketLen
  /\ damaged \in BOOLEAN
  /\ aligned \in BOOLEAN
  /\ missed \in 0 .. MissedCap

LEMMA TypeParts == TypeOK <=> FramerTypeOK /\ LineTypeOK
  BY DEF TypeOK, Shape, FramerTypeOK, LineTypeOK

LEMMA AppendToEmpty ==
  ASSUME NEW b \in Byte
  PROVE  Append(<<>>, b) = <<b>>
  OBVIOUS

\* AnalysisOne keeps the framer's variables well-formed whatever byte comes.
LEMMA AnalysisOneType ==
  ASSUME FramerTypeOK, NEW b \in Byte, AnalysisOne(b)
  PROVE  FramerTypeOK'
<1> DEFINE s == Append(tmp, b)
<1>1. Shape /\ pkg_ \in Seq(Byte)
  BY DEF FramerTypeOK
<1>2. /\ s \in Seq(Byte) /\ Len(s) = Len(tmp) + 1 /\ s[Len(tmp) + 1] = b
      /\ \A i \in 1 .. Len(tmp) : s[i] = tmp[i]
  BY <1>1, AppendProperties DEF Shape
<1>3. ASSUME Shape', pkg_' = pkg_, returned' = FALSE
      PROVE  FramerTypeOK'
  <2>1. returned' \in BOOLEAN /\ ~returned'
    BY <1>3
  <2> QED
    BY <1>1, <1>3, <2>1 DEF FramerTypeOK
<1>4. CASE Header(b)
  <2>1. Shape'
    <3>1. CASE b = PKG_HEADER
      <4>1. tmp' = <<PKG_HEADER>> /\ state' = "VER_LEN"
        BY <1>1, <1>4, <3>1, AppendToEmpty DEF Header, Shape
      <4> QED
        BY <4>1, ByteAssumption DEF Shape
    <3>2. CASE b # PKG_HEADER
      BY <1>1, <1>4, <3>2 DEF Header, Shape
    <3> QED
      BY <3>1, <3>2
  <2> QED
    BY <1>3, <1>4, <2>1 DEF Header
<1>5. CASE VerLen(b)
  <2>1. CASE b = PKG_VER_LEN
    <3>1. tmp' = s /\ state' = "DATA" /\ Len(tmp) = 1 /\ tmp[1] = PKG_HEADER
      BY <1>1, <1>5, <2>1 DEF VerLen, Shape
    <3>2. Shape'
      BY <1>2, <2>1, <3>1, PacketLenAssumption DEF Shape
    <3> QED
      BY <1>3, <1>5, <3>2 DEF VerLen
  <2>2. CASE b # PKG_VER_LEN
    <3>1. Shape'
      BY <1>5, <2>2 DEF VerLen, Shape
    <3> QED
      BY <1>3, <1>5, <3>1 DEF VerLen
  <2> QED
    BY <2>1, <2>2
<1>6. CASE Data(b)
  <2>1. /\ Len(tmp) \in 2 .. PacketLen - 1
        /\ s[1] = PKG_HEADER /\ s[2] = PKG_VER_LEN
    BY <1>1, <1>2, <1>6 DEF Data, Shape
  <2>2. CASE Len(s) < PacketLen
    <3>1. Collect(s)
      BY <1>6, <2>2 DEF Data
    <3>2. Shape'
      BY <1>1, <1>2, <1>6, <2>1, <2>2, <3>1, PacketLenAssumption DEF Data, Collect, Shape
    <3> QED
      BY <1>3, <3>1, <3>2 DEF Collect
  <2>3. CASE ~(Len(s) < PacketLen)
    <3>1. Complete(s)
      BY <1>6, <2>3 DEF Data
    <3>2. Len(s) = PacketLen
      BY <1>2, <2>1, <2>3, PacketLenAssumption
    <3>3. returned' \in BOOLEAN /\ (returned' => ChecksumOk(pkg_'))
      BY <3>1 DEF Complete, ChecksumOk
    <3>4. Shape'
      BY <3>1 DEF Complete, Shape
    <3>5. pkg_' \in Seq(Byte) /\ state' = "HEADER"
      BY <1>2, <3>1 DEF Complete
    <3>6. returned' => IsPacket(pkg_')
      BY <1>2, <2>1, <3>1, <3>2, <3>3 DEF Complete, IsPacket
    <3> QED
      BY <3>3, <3>4, <3>5, <3>6 DEF FramerTypeOK
  <2> QED
    BY <2>2, <2>3
<1> QED
  BY <1>4, <1>5, <1>6 DEF AnalysisOne

LEMMA NextByte ==
  ASSUME LineTypeOK, pos < PacketLen
  PROVE  sending[pos + 1] \in Byte
  BY PacketBytes, PacketLenAssumption DEF LineTypeOK

LEMMA TypeStep == TypeOK /\ [Next]_vars => TypeOK'
<1> SUFFICES ASSUME FramerTypeOK, LineTypeOK, [Next]_vars
             PROVE  FramerTypeOK' /\ LineTypeOK'
  BY TypeParts DEF TypeOK, Shape, FramerTypeOK, LineTypeOK
<1>1. CASE Deliver
  <2>1. FramerTypeOK'
    BY <1>1, NextByte, AnalysisOneType DEF Deliver
  <2>2. LineTypeOK'
    BY <1>1, PacketLenAssumption DEF Deliver, LineTypeOK
  <2> QED
    BY <2>1, <2>2
<1>2. CASE Lose
  BY <1>2, PacketLenAssumption
  DEF Lose, LineTypeOK, FramerTypeOK, Shape, framer, MissedCap
<1>3. CASE Change
  <2>1. FramerTypeOK'
    BY <1>3, AnalysisOneType DEF Change
  <2>2. LineTypeOK'
    BY <1>3, PacketLenAssumption DEF Change, LineTypeOK, MissedCap
  <2> QED
    BY <2>1, <2>2
<1>4. CASE Add
  <2>1. FramerTypeOK'
    BY <1>4, AnalysisOneType DEF Add
  <2>2. LineTypeOK'
    BY <1>4, PacketLenAssumption DEF Add, LineTypeOK, MissedCap
  <2> QED
    BY <2>1, <2>2
<1>5. CASE NextPacket
  <2>1. FramerTypeOK'
    BY <1>5 DEF NextPacket, framer, FramerTypeOK, Shape
  <2>2. missed' \in 0 .. MissedCap
    BY <1>5 DEF NextPacket, LineTypeOK, MissedCap
  <2>3. {damaged', aligned'} \subseteq BOOLEAN
    BY <1>5 DEF NextPacket
  <2>4. sending' \in Packet /\ pos' \in 0 .. PacketLen
    BY <1>5, PacketLenAssumption DEF NextPacket
  <2> QED
    BY <2>1, <2>2, <2>3, <2>4 DEF LineTypeOK
<1>6. CASE UNCHANGED vars
  BY <1>6 DEF vars, framer, line, FramerTypeOK, Shape, LineTypeOK
<1> QED
  BY <1>1, <1>2, <1>3, <1>4, <1>5, <1>6 DEF Next

LEMMA TypeInit == Init => TypeOK
<1> SUFFICES ASSUME Init PROVE FramerTypeOK /\ LineTypeOK
  BY TypeParts
<1>1. ~returned /\ {returned, damaged, aligned} \subseteq BOOLEAN
  BY DEF Init
<1>2. Shape /\ pkg_ \in Seq(Byte)
  BY DEF Init, Shape
<1>3. sending \in Packet /\ pos \in 0 .. PacketLen /\ missed \in 0 .. MissedCap
  BY PacketLenAssumption DEF Init, MissedCap
<1> QED
  BY <1>1, <1>2, <1>3 DEF FramerTypeOK, LineTypeOK

\* Whatever the line does, at most sizeof(LiDARFrameTypeDef) bytes are collected
\* in tmp, and AnalysisOne returns true only of a well-formed packet
\* (lipkg.cpp:103-159).
THEOREM TypeCorrect == Spec => []TypeOK
  BY TypeInit, TypeStep, PTL DEF Spec

-----------------------------------------------------------------------------
(* SyncIsKept.                                                                *)

\* The framer has collected what has been delivered of this packet: by TypeOK
\* the length of tmp also says in which state it is.
InStep ==
  IF pos = PacketLen THEN state = "HEADER" /\ Accepted
                     ELSE tmp = SubSeq(sending, 1, pos)

SyncInv == aligned /\ ~damaged => InStep

LEMMA OneByteMore ==
  ASSUME NEW p \in Packet, NEW i \in Nat, i < PacketLen
  PROVE  Append(SubSeq(p, 1, i), p[i + 1]) = SubSeq(p, 1, i + 1)
  BY PacketAssumption, PacketLenAssumption DEF IsPacket

LEMMA WholePacket ==
  ASSUME NEW p \in Packet
  PROVE  SubSeq(p, 1, PacketLen) = p
  BY PacketAssumption, PacketLenAssumption DEF IsPacket

\* An undamaged byte keeps the framer in step with the packet.
LEMMA DeliverInStep ==
  ASSUME TypeOK, Deliver, InStep
  PROVE  InStep'
<1> DEFINE b == sending[pos + 1]
<1>1. /\ sending \in Packet /\ pos \in Nat /\ pos < PacketLen
      /\ pos' = pos + 1 /\ sending' = sending
      /\ tmp = SubSeq(sending, 1, pos)
      /\ AnalysisOne(b)
      /\ Shape
  BY PacketLenAssumption DEF Deliver, InStep, TypeOK, Shape
<1>2. /\ Len(tmp) = pos
      /\ Append(tmp, b) = SubSeq(sending, 1, pos + 1)
      /\ Len(Append(tmp, b)) = pos + 1
  <2>1. Len(sending) = PacketLen /\ sending \in Seq(Byte)
    BY <1>1, PacketAssumption DEF IsPacket
  <2>2. Len(tmp) = pos
    BY <1>1, <2>1, PacketLenAssumption
  <2>3. Append(tmp, b) = SubSeq(sending, 1, pos + 1)
    BY <1>1, OneByteMore
  <2> QED
    BY <2>2, <2>3, <1>1 DEF Shape
<1>3. CASE pos = 0
  <2>1. state = "HEADER" /\ b = PKG_HEADER
    BY <1>1, <1>2, <1>3, PacketBytes DEF Shape, IsPacket
  <2> QED
    BY <1>1, <1>2, <1>3, <2>1, PacketLenAssumption
    DEF AnalysisOne, Header, VerLen, Data, InStep
<1>4. CASE pos = 1
  <2>1. state = "VER_LEN" /\ b = PKG_VER_LEN
    BY <1>1, <1>2, <1>4, PacketBytes DEF Shape, IsPacket
  <2> QED
    BY <1>1, <1>2, <1>4, <2>1, PacketLenAssumption
    DEF AnalysisOne, Header, VerLen, Data, InStep
<1>5. CASE pos > 1
  <2>1. state = "DATA"
    <3>1. Len(<<>>) = 0 /\ Len(<<PKG_HEADER>>) = 1
      OBVIOUS
    <3>2. Len(tmp) # 0 /\ Len(tmp) # 1
      BY <1>2, <1>5
    <3>3. tmp # <<>> /\ tmp # <<PKG_HEADER>>
      BY <3>1, <3>2
    <3> QED
      BY <1>1, <3>3 DEF Shape
  <2>2. Data(b)
    BY <1>1, <2>1 DEF AnalysisOne, Header, VerLen
  <2>3. CASE pos + 1 < PacketLen
    BY <1>1, <1>2, <2>2, <2>3 DEF Data, Collect, InStep
  <2>4. CASE pos + 1 = PacketLen
    <3>1. Complete(sending)
      <4>1. Append(tmp, b) = sending
        BY <1>1, <1>2, <2>4, WholePacket
      <4>2. ~(Len(Append(tmp, b)) < PacketLen)
        BY <1>1, <1>2, <2>4
      <4> QED
        BY <2>2, <4>1, <4>2 DEF Data
    <3>2. returned' = TRUE /\ pkg_' = sending
      BY <1>1, <3>1, PacketBytes DEF Complete, IsPacket
    <3> QED
      BY <1>1, <2>4, <3>1, <3>2 DEF Complete, InStep, Accepted
  <2> QED
    BY <1>1, <2>3, <2>4, PacketLenAssumption
<1> QED
  BY <1>1, <1>3, <1>4, <1>5

LEMMA SyncStep == TypeOK /\ SyncInv /\ [Next]_vars => SyncInv'
<1> SUFFICES ASSUME TypeOK, SyncInv, [Next]_vars
             PROVE  SyncInv'
  OBVIOUS
<1>1. CASE Deliver
  BY <1>1, DeliverInStep DEF SyncInv, Deliver
<1>2. CASE Lose
  BY <1>2 DEF Lose, SyncInv
<1>3. CASE Change
  BY <1>3 DEF Change, SyncInv
<1>4. CASE Add
  BY <1>4 DEF Add, SyncInv
<1>5. CASE NextPacket
  <2>1. sending' \in Packet /\ pos' = 0 /\ tmp' = tmp
    BY <1>5 DEF NextPacket, framer
  <2>2. aligned' => tmp = <<>>
    BY <1>5 DEF NextPacket, TypeOK
  <2>3. SubSeq(sending', 1, 0) = <<>>
    BY <2>1, PacketAssumption DEF IsPacket
  <2> QED
    BY <2>1, <2>2, <2>3, PacketLenAssumption DEF SyncInv, InStep
<1>6. CASE UNCHANGED vars
  BY <1>6 DEF vars, framer, line, SyncInv, InStep, Accepted
<1> QED
  BY <1>1, <1>2, <1>3, <1>4, <1>5, <1>6 DEF Next

LEMMA SyncInit == Init => SyncInv
  BY PacketLenAssumption, PacketAssumption DEF Init, SyncInv, InStep, IsPacket

LEMMA SyncInvHolds == Spec => []SyncInv
  BY TypeInit, TypeStep, SyncInit, SyncStep, PTL DEF Spec

\* A framer that stands at HEADER when an undamaged packet begins accepts it
\* and stands at HEADER when it ends, for every payload (lipkg.cpp:136-153).
THEOREM SyncIsKeptHolds == Spec => []SyncIsKept
<1>1. SyncInv => SyncIsKept
  BY DEF SyncInv, InStep, SyncIsKept
<1> QED
  BY <1>1, SyncInvHolds, PTL

-----------------------------------------------------------------------------
(* OneMissed.                                                                 *)

\* In a plain undamaged packet that began elsewhere than at HEADER the framer either
\* is back at HEADER, where nothing but a header byte moves it, or its buffer is
\* ahead of the packet and so is full before the packet ends.
AheadOrBack ==
  ~damaged /\ ~aligned /\ Plain(sending) =>
    IF pos = 0 THEN state # "HEADER"
    ELSE \/ state = "HEADER"
         \/ state = "DATA" /\ Len(tmp) >= pos + 2

MissedInv == missed # 0 => missed = 1 /\ aligned /\ ~damaged

RecoveryInv == AheadOrBack /\ MissedInv

LEMMA DeliverAheadOrBack ==
  ASSUME TypeOK, Deliver, AheadOrBack
  PROVE  AheadOrBack'
<1> SUFFICES ASSUME ~damaged, ~aligned, Plain(sending)
             PROVE  \/ state' = "HEADER"
                    \/ state' = "DATA" /\ Len(tmp') >= pos' + 2
  BY PacketLenAssumption DEF Deliver, AheadOrBack, TypeOK
<1> DEFINE b == sending[pos + 1]
<1>1. /\ Shape /\ sending \in Packet /\ pos \in Nat
      /\ pos < PacketLen /\ pos' = pos + 1 /\ AnalysisOne(b) /\ b \in Byte
  BY PacketLenAssumption, TypeParts, NextByte DEF Deliver, FramerTypeOK, LineTypeOK
<1>2. pos = 0 => b = PKG_HEADER /\ state # "HEADER"
  BY <1>1, PacketBytes DEF IsPacket, AheadOrBack
<1>3. pos # 0 => b # PKG_HEADER
  BY <1>1, PacketLenAssumption DEF Plain
<1>4. pos # 0 => state = "HEADER" \/ (state = "DATA" /\ Len(tmp) >= pos + 2)
  BY DEF AheadOrBack
<1>5. CASE Header(b)
  BY <1>2, <1>3, <1>5 DEF Header
<1>6. CASE VerLen(b)
  BY <1>2, <1>4, <1>6, ByteAssumption DEF VerLen
<1>7. CASE Data(b)
  <2>1. Len(tmp) >= pos + 2
    BY <1>1, <1>4, <1>7 DEF Data, Shape
  <2>2. Len(Append(tmp, b)) = Len(tmp) + 1 /\ Len(tmp) \in Nat
    BY <1>1 DEF Shape
  <2> QED
    BY <1>1, <1>7, <2>1, <2>2 DEF Data, Collect, Complete
<1> QED
  BY <1>1, <1>5, <1>6, <1>7 DEF AnalysisOne

LEMMA RecoveryStep == TypeOK /\ SyncInv /\ RecoveryInv /\ [Next]_vars => RecoveryInv'
<1> SUFFICES ASSUME TypeOK, SyncInv, RecoveryInv, [Next]_vars
             PROVE  AheadOrBack' /\ MissedInv'
  BY DEF RecoveryInv
<1>1. CASE Deliver
  BY <1>1, DeliverAheadOrBack DEF Deliver, RecoveryInv, MissedInv
<1>2. CASE Lose
  BY <1>2 DEF Lose, AheadOrBack, MissedInv
<1>3. CASE Change
  BY <1>3 DEF Change, AheadOrBack, MissedInv
<1>4. CASE Add
  BY <1>4 DEF Add, AheadOrBack, MissedInv
<1>5. CASE NextPacket
  <2>1. AheadOrBack'
    BY <1>5 DEF NextPacket, framer, AheadOrBack
  <2>2. ~damaged /\ ~Accepted => ~aligned
    BY <1>5 DEF NextPacket, SyncInv, InStep
  <2>3. ~damaged /\ ~aligned /\ Plain(sending) => state = "HEADER"
    BY <1>5, PacketLenAssumption
    DEF NextPacket, RecoveryInv, AheadOrBack, TypeOK
  <2>4. MissedInv'
    <3>1. CASE damaged \/ Accepted \/ ~Plain(sending)
      BY <1>5, <3>1 DEF NextPacket, MissedInv
    <3>2. CASE ~damaged /\ ~Accepted /\ Plain(sending)
      <4>1. missed = 0
        BY <2>2, <3>2 DEF RecoveryInv, MissedInv
      <4>2. missed' = 1
        BY <1>5, <3>2, <4>1 DEF NextPacket, MissedCap
      <4>3. aligned' /\ ~damaged'
        BY <1>5, <2>2, <2>3, <3>2 DEF NextPacket
      <4> QED
        BY <4>2, <4>3 DEF MissedInv
    <3> QED
      BY <3>1, <3>2
  <2> QED
    BY <2>1, <2>4
<1>6. CASE UNCHANGED vars
  BY <1>6 DEF vars, framer, line, AheadOrBack, MissedInv, RecoveryInv
<1> QED
  BY <1>1, <1>2, <1>3, <1>4, <1>5, <1>6 DEF Next

LEMMA RecoveryInit == Init => RecoveryInv
  BY DEF Init, RecoveryInv, AheadOrBack, MissedInv

\* Of two plain undamaged packets in a row the second is accepted, however the
\* framer lost its place before them (lipkg.cpp:130-134, :143).
THEOREM OneMissedHolds == Spec => []OneMissed
<1>1. RecoveryInv => OneMissed
  BY DEF RecoveryInv, MissedInv, OneMissed
<1> QED
  BY <1>1, TypeInit, TypeStep, SyncInit, SyncStep, RecoveryInit, RecoveryStep, PTL
  DEF Spec

=============================================================================
