-------------------------- MODULE ReceivePathProofs --------------------------
(***************************************************************************)
(* Whatever the size of the buffer, of the chunks and of the packets, and  *)
(* however many packets are lost: the cursors stay in range, and a message *)
(* that is handed over while no bytes of a lost packet are in the buffer   *)
(* is the payload of one packet, whole and alone.                          *)
(***************************************************************************)
EXTENDS ReceivePath, SequenceTheorems, TLAPS

(* The packet the Unframer is in is one it may have found, and no more of   *)
(* it was passed on than there is.                                          *)
PacketInv ==
  packet # NoPacket =>
    /\ packet.type \in PacketType /\ packet.size \in Nat
    /\ packet.size \in PayloadSizes(packet.type)
    /\ got <= packet.size

(* While the buffer holds a message the application has not cleared,        *)
(* nothing of the next packet is taken.                                     *)
BusyInv == packet # NoPacket /\ complete => got = 0

(* With no bytes of a lost packet in the buffer, what is not read yet is    *)
(* what was passed on of the current packet; between two packets everything *)
(* is read, but for a message that was not cleared.                         *)
AlignedInv ==
  ~dirty /\ ~complete =>
    /\ packet = NoPacket => cursor = Len(data)
    /\ packet # NoPacket =>
         /\ Len(data) = cursor + got
         /\ \A j \in 1 .. got : data[cursor + j] = Cell(j)

IInv == TypeOK /\ PacketInv /\ BusyInv /\ AlignedInv /\ DamageEndsWithClear
-----------------------------------------------------------------------------
(* The payload sizes of a packet: at least one byte, and a header unless it *)
(* is a runt; a message that starts a session is the header and a version.  *)
LEMMA SizeRange ==
  ASSUME NEW type \in PacketType, NEW size \in PayloadSizes(type)
  PROVE  /\ size \in Nat \ {0}
         /\ size < kHeader => type = "runt"
         /\ type = "init" => size = kHeader + kVersion
<1>1. MaxBody \in Nat
  BY BoundsAssumption, CapacityAssumption DEF Overhead
<1> QED
  BY <1>1 DEF PayloadSizes, PacketType, kHeader, kVersion

(* What a slice of a sequence holds. *)
LEMMA Slice ==
  ASSUME NEW S, NEW s \in Seq(S), NEW m \in Nat \ {0}, NEW n \in Nat, n <= Len(s)
  PROVE  /\ SubSeq(s, m, n) \in Seq(S)
         /\ Len(SubSeq(s, m, n)) = IF m <= n THEN n - m + 1 ELSE 0
         /\ \A i \in 1 .. n - m + 1 : SubSeq(s, m, n)[i] = s[m + i - 1]
  OBVIOUS

(* A range of the packet's bytes is a sequence of bytes. *)
LEMMA CellsType ==
  ASSUME TypeOK, packet # NoPacket, PacketInv, NEW from \in Nat \ {0}, NEW to \in Nat
  PROVE  /\ Cells(from, to) \in Seq(ByteOfPacket)
         /\ Len(Cells(from, to)) = IF from <= to THEN to - from + 1 ELSE 0
         /\ \A j \in 1 .. to - from + 1 : Cells(from, to)[j] = Cell(from + j - 1)
<1>1. \A i \in Nat : Cell(i) \in ByteOfPacket
  BY DEF Cell, ByteOfPacket, TypeOK, PacketInv
<1>2. \A j \in 1 .. to - from + 1 : Cells(from, to)[j] = Cell(from + j - 1)
  BY DEF Cells
<1>3. CASE from <= to
  <2>1. to - from + 1 \in Nat
    BY <1>3
  <2>2. Cells(from, to) \in [1 .. to - from + 1 -> ByteOfPacket]
    BY <1>1, <2>1 DEF Cells
  <2>3. Cells(from, to) \in Seq(ByteOfPacket) /\ Len(Cells(from, to)) = to - from + 1
    BY <2>1, <2>2
  <2> QED
    BY <1>2, <1>3, <2>3
<1>4. CASE ~(from <= to)
  <2>1. Cells(from, to) = <<>>
    BY <1>4 DEF Cells
  <2> QED
    BY <1>2, <1>4, <2>1
<1> QED
  BY <1>3, <1>4

(* With no bytes of a lost packet in the buffer, what PacketDone finds to    *)
(* read is the packet and nothing else, and the header it reads is the       *)
(* packet's own.                                                             *)
LEMMA CleanPacket ==
  ASSUME IInv, Done, ~dirty
  PROVE  /\ ~complete
         /\ ReadAvailable = packet.size
         /\ \A j \in 1 .. packet.size : data[cursor + j] = Cell(j)
         /\ packet.size >= kHeader => OwnHeader
<1>1. packet.type \in PacketType /\ packet.size \in PayloadSizes(packet.type)
  BY DEF IInv, PacketInv, Done
<1>2. packet.size \in Nat \ {0} /\ got = packet.size
  BY <1>1, SizeRange DEF Done
<1>3. ~complete
  BY <1>2 DEF IInv, BusyInv, Done
<1>4. Len(data) = cursor + packet.size /\ \A j \in 1 .. packet.size : data[cursor + j] = Cell(j)
  BY <1>2, <1>3 DEF IInv, AlignedInv, Done
<1>5. cursor \in Nat /\ data \in Seq(ByteOfPacket)
  BY DEF IInv, TypeOK
<1>6. ReadAvailable = packet.size
  BY <1>2, <1>4, <1>5 DEF ReadAvailable
<1>7. ASSUME packet.size >= kHeader
      PROVE  Peek(kHeader) = Cells(1, kHeader)
  <2>1. Peek(kHeader) = SubSeq(data, cursor + 1, cursor + kHeader)
    <3>1. kHeader < ReadAvailable \/ Len(data) = cursor + kHeader
      BY <1>2, <1>4, <1>5, <1>6, <1>7 DEF kHeader
    <3> QED
      BY <3>1 DEF Peek
  <2>2. \A i \in cursor + 1 .. cursor + kHeader : data[i] \in ByteOfPacket
    BY <1>2, <1>4, <1>5, <1>7 DEF kHeader
  <2>3. /\ Peek(kHeader) \in Seq(ByteOfPacket)
        /\ Len(Peek(kHeader)) = kHeader
        /\ \A i \in 1 .. kHeader : Peek(kHeader)[i] = data[cursor + i]
    <3> DEFINE from == cursor + 1
               to == cursor + kHeader
    <3>1. from \in Nat \ {0} /\ to \in Nat /\ to <= Len(data) /\ to - from + 1 = kHeader
      BY <1>2, <1>4, <1>5, <1>7 DEF kHeader
    <3>2. \A i \in Int : from + i - 1 = cursor + i
      BY <1>5
    <3>3. Peek(kHeader) = SubSeq(data, from, to)
      BY <2>1
    <3> HIDE DEF from, to
    <3>4. /\ Peek(kHeader) \in Seq(ByteOfPacket)
          /\ Len(Peek(kHeader)) = IF from <= to THEN to - from + 1 ELSE 0
          /\ \A i \in 1 .. to - from + 1 : Peek(kHeader)[i] = data[from + i - 1]
      BY <1>5, <3>1, <3>3, Slice
    <3>5. from <= to
      BY <3>1 DEF kHeader
    <3>6. \A i \in 1 .. kHeader : Peek(kHeader)[i] = data[from + i - 1]
      BY <3>1, <3>4
    <3>7. \A i \in 1 .. kHeader : i \in Int
      BY DEF kHeader
    <3> QED
      BY <3>1, <3>2, <3>4, <3>5, <3>6, <3>7
  <2>4. /\ Cells(1, kHeader) \in Seq(ByteOfPacket)
        /\ Len(Cells(1, kHeader)) = kHeader
        /\ \A i \in 1 .. kHeader : Cells(1, kHeader)[i] = Cell(i)
    <3>1. TypeOK /\ PacketInv /\ packet # NoPacket /\ 1 \in Nat \ {0} /\ kHeader \in Nat
      BY DEF IInv, Done, kHeader
    <3>2. /\ Cells(1, kHeader) \in Seq(ByteOfPacket)
          /\ Len(Cells(1, kHeader)) = IF 1 <= kHeader THEN kHeader - 1 + 1 ELSE 0
          /\ \A j \in 1 .. kHeader - 1 + 1 : Cells(1, kHeader)[j] = Cell(1 + j - 1)
      BY <3>1, CellsType
    <3> QED
      BY <3>2 DEF kHeader
  <2>5. \A i \in 1 .. kHeader : data[cursor + i] = Cell(i)
    BY <1>2, <1>4, <1>7 DEF kHeader
  <2> QED
    BY <2>3, <2>4, <2>5, SeqEqual
<1> QED
  BY <1>3, <1>4, <1>6, <1>7 DEF OwnHeader

(* So a clean packet that is long enough has the header it says it has.     *)
LEMMA CleanHeader ==
  ASSUME IInv, ~dirty, NEW type \in HeaderType, Header(type)
  PROVE  /\ OwnHeader /\ packet.type = type
         /\ type = "init" => ReadAvailable = kHeader + kVersion
         /\ type # "reply"
<1>1. packet.type \in PacketType /\ packet.size \in PayloadSizes(packet.type)
  BY DEF IInv, PacketInv, Done, Header
<1>2. OwnHeader /\ ReadAvailable = packet.size
  BY CleanPacket DEF Header
<1>3. packet.type = type
  BY <1>2 DEF Header, HeaderSays
<1> QED
  BY <1>1, <1>2, <1>3, SizeRange DEF PacketType
-----------------------------------------------------------------------------
(* The packets of the framing layer. *)
LEMMA BeginPacketStep ==
  ASSUME IInv, NEW type \in PacketType, NEW size \in PayloadSizes(type), BeginPacket(type, size)
  PROVE  IInv'
<1>1. size \in Nat
  BY SizeRange
<1>2. TypeOK'
  BY <1>1 DEF IInv, TypeOK, BeginPacket
<1>3. PacketInv' /\ BusyInv'
  BY <1>1 DEF PacketInv, BusyInv, BeginPacket
<1>4. AlignedInv'
  BY DEF IInv, TypeOK, AlignedInv, BeginPacket, NoPacket
<1>5. DamageEndsWithClear'
  BY DEF IInv, DamageEndsWithClear, BeginPacket
<1> QED
  BY <1>2, <1>3, <1>4, <1>5 DEF IInv

LEMMA WriteStep ==
  ASSUME IInv, NEW n \in 1 .. MaxChunk, Write(n)
  PROVE  IInv'
<1>1. n \in Nat \ {0} /\ Capacity \in Nat
  BY BoundsAssumption, CapacityAssumption
<1>2. CASE complete
  <2>1. UNCHANGED <<data, cursor, complete, session, packet, got, count, lost, dirty, handed>>
        /\ running' = FALSE
    BY <1>2 DEF Write
  <2> QED
    BY <2>1 DEF IInv, TypeOK, PacketInv, BusyInv, AlignedInv, DamageEndsWithClear, Cell
<1>3. CASE ~complete
  <2> DEFINE f == Fits(n)
  <2>1. /\ data' = data \o Cells(got + 1, got + f) /\ got' = got + f
        /\ running' = (f = n)
        /\ UNCHANGED <<cursor, complete, session, packet, count, lost, dirty, handed>>
        /\ packet # NoPacket /\ n <= packet.size - got
    BY <1>3 DEF Write
  <2>2. got \in Nat /\ packet.size \in Nat /\ got <= packet.size
    BY <2>1 DEF IInv, TypeOK, PacketInv
  <2>3. data \in Seq(ByteOfPacket) /\ Len(data) <= Capacity
    BY DEF IInv, TypeOK
  <2>4. f \in 0 .. n /\ Len(data) + f <= Capacity
    BY <1>1, <2>3 DEF Fits
  <2> HIDE DEF f
  <2>5. /\ Cells(got + 1, got + f) \in Seq(ByteOfPacket)
        /\ Len(Cells(got + 1, got + f)) = f
        /\ \A j \in 1 .. f : Cells(got + 1, got + f)[j] = Cell(got + j)
    <3> DEFINE from == got + 1
               to == got + f
    <3>1. from \in Nat \ {0} /\ to \in Nat /\ to - from + 1 = f /\ (from <= to <=> f > 0)
      BY <2>2, <2>4
    <3>2. \A j \in 1 .. f : from + j - 1 = got + j
      BY <2>2, <2>4
    <3> HIDE DEF from, to
    <3>3. /\ Cells(from, to) \in Seq(ByteOfPacket)
          /\ Len(Cells(from, to)) = IF from <= to THEN to - from + 1 ELSE 0
          /\ \A j \in 1 .. to - from + 1 : Cells(from, to)[j] = Cell(from + j - 1)
      BY <2>1, <3>1, CellsType DEF IInv
    <3>4. Len(Cells(from, to)) = f
      BY <1>1, <2>4, <3>1, <3>3
    <3>5. \A j \in 1 .. f : Cells(from, to)[j] = Cell(from + j - 1)
      BY <3>1, <3>3
    <3> QED
      BY <3>2, <3>3, <3>4, <3>5 DEF from, to
  <2>6. /\ data' \in Seq(ByteOfPacket)
        /\ Len(data') = Len(data) + f
        /\ \A i \in 1 .. Len(data) : data'[i] = data[i]
        /\ \A j \in 1 .. f : data'[Len(data) + j] = Cell(got + j)
    <3> DEFINE t == Cells(got + 1, got + f)
    <3>1. t \in Seq(ByteOfPacket) /\ Len(t) = f /\ data' = data \o t
      BY <2>1, <2>5
    <3>2. \A j \in 1 .. f : t[j] = Cell(got + j)
      BY <2>5
    <3> HIDE DEF t
    <3>3. /\ data' \in Seq(ByteOfPacket)
          /\ Len(data') = Len(data) + f
          /\ \A i \in 1 .. Len(data) : data'[i] = data[i]
          /\ \A j \in 1 .. f : data'[Len(data) + j] = t[j]
      <4> DEFINE joined == data \o t
      <4>1. /\ joined \in Seq(ByteOfPacket)
            /\ Len(joined) = Len(data) + f
            /\ \A i \in 1 .. Len(data) : joined[i] = data[i]
            /\ \A j \in 1 .. f : joined[Len(data) + j] = t[j]
        BY <2>3, <3>1, ConcatProperties
      <4> HIDE DEF joined
      <4>2. data' = joined
        BY <3>1 DEF joined
      <4> QED
        BY <4>1, <4>2
    <3> QED
      BY <3>2, <3>3
  <2>7. TypeOK'
    <3>1. cursor' \in 0 .. Len(data')
      BY <2>1, <2>3, <2>4, <2>6 DEF IInv, TypeOK
    <3>2. got' \in Nat /\ running' \in BOOLEAN /\ Len(data') <= Capacity
      BY <2>1, <2>2, <2>4, <2>6
    <3> QED
      BY <2>1, <2>6, <3>1, <3>2 DEF IInv, TypeOK
  <2>8. PacketInv'
    BY <1>1, <2>1, <2>2, <2>4 DEF IInv, PacketInv
  <2>9. BusyInv' /\ DamageEndsWithClear'
    BY <1>3, <2>1 DEF IInv, BusyInv, DamageEndsWithClear
  <2>10. AlignedInv'
    <3>1. SUFFICES ASSUME ~dirty
                   PROVE  /\ Len(data') = cursor + got'
                          /\ \A j \in 1 .. got' : data'[cursor + j] = Cell(j)
      BY <2>1 DEF AlignedInv, Cell
    <3>2. Len(data) = cursor + got /\ \A j \in 1 .. got : data[cursor + j] = Cell(j)
      BY <1>3, <2>1, <3>1 DEF IInv, AlignedInv
    <3>3. cursor \in Nat
      BY <2>3 DEF IInv, TypeOK
    <3>4. ASSUME NEW j \in 1 .. got'
          PROVE  data'[cursor + j] = Cell(j)
      <4>1. CASE j <= got
        BY <2>2, <2>6, <3>2, <3>3, <4>1
      <4>2. CASE j > got
        <5>1. j - got \in 1 .. f /\ Len(data) + (j - got) = cursor + j /\ got + (j - got) = j
          BY <2>1, <2>2, <2>4, <3>2, <3>3, <4>2
        <5> QED
          BY <2>6, <5>1
      <4> QED
        BY <2>2, <2>4, <4>1, <4>2
    <3> QED
      <4>1. Len(data') = cursor + got'
        BY <1>1, <2>1, <2>2, <2>4, <2>6, <3>2, <3>3
      <4> QED
        BY <3>4, <4>1
  <2> QED
    BY <2>7, <2>8, <2>9, <2>10 DEF IInv
<1> QED
  BY <1>2, <1>3

LEMMA GiveUpStep ==
  ASSUME IInv, GiveUp
  PROVE  IInv'
<1>1. TypeOK'
  BY DEF IInv, TypeOK, GiveUp
<1>2. PacketInv' /\ BusyInv' /\ DamageEndsWithClear'
  BY DEF IInv, PacketInv, BusyInv, DamageEndsWithClear, GiveUp
<1>3. AlignedInv'
  <2>1. ASSUME ~dirty', ~complete'
        PROVE  cursor' = Len(data')
    <3>1. ~dirty /\ got = 0
      <4>1. dirty' = (dirty \/ got > 0)
        BY DEF GiveUp
      <4>2. ~dirty /\ ~(got > 0)
        BY <2>1, <4>1, Zenon
      <4> QED
        BY <4>2 DEF IInv, TypeOK
    <3>2. Len(data) = cursor + got
      BY <2>1, <3>1 DEF IInv, AlignedInv, GiveUp
    <3> QED
      BY <3>1, <3>2 DEF IInv, TypeOK, GiveUp
  <2> QED
    BY <2>1 DEF AlignedInv, GiveUp
<1> QED
  BY <1>1, <1>2, <1>3 DEF IInv

LEMMA PacketDoneInvalidStep ==
  ASSUME IInv, PacketDoneInvalid
  PROVE  IInv'
<1>1. TypeOK'
  BY DEF IInv, TypeOK, PacketDoneInvalid
<1> QED
  BY <1>1 DEF IInv, PacketInv, BusyInv, AlignedInv, DamageEndsWithClear, PacketDoneInvalid
-----------------------------------------------------------------------------
(* The messages.  After PacketDone the Unframer is in no packet, and if the *)
(* buffer has no bytes of a lost packet all of it is read.                  *)
LEMMA DoneStep ==
  ASSUME IInv, Done,
         data' \in Seq(ByteOfPacket), Len(data') <= Capacity, cursor' \in 0 .. Len(data'),
         complete' \in BOOLEAN, dirty' \in BOOLEAN, session' \in SessionState,
         handed' \in [got : Seq(ByteOfPacket), want : Seq(ByteOfPacket), dirty : BOOLEAN],
         ~dirty' /\ ~complete' => cursor' = Len(data'),
         DamageEndsWithClear'
  PROVE  IInv'
<1>1. packet' = NoPacket /\ UNCHANGED <<running, got, count, lost>>
  BY DEF Done
<1>2. TypeOK'
  BY <1>1 DEF IInv, TypeOK
<1> QED
  BY <1>1, <1>2 DEF IInv, PacketInv, BusyInv, AlignedInv

(* What is handed over is a sequence of bytes, and of a clean packet it is  *)
(* the body.                                                                *)
LEMMA HandOverRight ==
  ASSUME IInv, NEW type \in HeaderType, Header(type), HandOver
  PROVE  /\ handed' \in [got : Seq(ByteOfPacket), want : Seq(ByteOfPacket), dirty : BOOLEAN]
         /\ DamageEndsWithClear'
<1>1. packet.type \in PacketType /\ packet.size \in PayloadSizes(packet.type)
      /\ packet # NoPacket /\ TypeOK /\ PacketInv
  BY DEF IInv, PacketInv, Done, Header
<1>2. packet.size \in Nat
  BY <1>1, SizeRange
<1>3. cursor \in Nat /\ data \in Seq(ByteOfPacket) /\ Len(data) \in Nat
      /\ cursor + kHeader <= Len(data) /\ kHeader + 1 \in Nat \ {0}
  BY DEF IInv, TypeOK, Header, ReadAvailable, kHeader
<1> DEFINE from == cursor + kHeader + 1
           to == Len(data)
           body == SubSeq(data, from, to)
           want == Cells(kHeader + 1, packet.size)
<1>4. from \in Nat \ {0} /\ to \in Nat /\ to <= Len(data)
  BY <1>3 DEF kHeader
<1>5. handed' = [got |-> body, want |-> want, dirty |-> dirty]
  BY DEF HandOver
<1>6. from + 0 = cursor + kHeader + 1 /\ to = Len(data)
  BY <1>3 DEF kHeader
<1> HIDE DEF from, to
<1>7. /\ body \in Seq(ByteOfPacket)
      /\ Len(body) = IF from <= to THEN to - from + 1 ELSE 0
      /\ \A i \in 1 .. to - from + 1 : body[i] = data[from + i - 1]
  BY <1>3, <1>4, Slice
<1>8. /\ want \in Seq(ByteOfPacket)
      /\ Len(want) = IF kHeader + 1 <= packet.size THEN packet.size - (kHeader + 1) + 1 ELSE 0
      /\ \A j \in 1 .. packet.size - (kHeader + 1) + 1 : want[j] = Cell(kHeader + 1 + j - 1)
  BY <1>1, <1>2, <1>3, CellsType
<1> HIDE DEF body, want
<1>9. ASSUME ~dirty
      PROVE  body = want
  <2>1. Done
    BY DEF Header
  <2>2. /\ ReadAvailable = packet.size /\ packet.size >= kHeader
        /\ \A j \in 1 .. packet.size : data[cursor + j] = Cell(j)
    BY <1>9, <2>1, CleanPacket, CleanHeader DEF OwnHeader
  <2>3. to = cursor + packet.size
    BY <1>2, <1>3, <1>6, <2>2 DEF ReadAvailable
  <2>4. Len(body) = packet.size - kHeader /\ Len(want) = packet.size - kHeader
    <3>1. kHeader \in Nat /\ from = cursor + kHeader + 1
      BY <1>3, <1>4, <1>6 DEF kHeader
    <3>2. Len(body) = packet.size - kHeader
      BY <1>2, <1>3, <1>4, <1>7, <2>2, <2>3, <3>1
    <3>3. Len(want) = packet.size - kHeader
      BY <1>2, <1>8, <2>2, <3>1
    <3> QED
      BY <3>2, <3>3
  <2>5. ASSUME NEW i \in 1 .. packet.size - kHeader
        PROVE  body[i] = want[i]
    <3>1. i \in 1 .. to - from + 1 /\ from + i - 1 = cursor + (kHeader + i)
      BY <1>2, <1>3, <1>4, <1>6, <2>2, <2>3 DEF kHeader
    <3>2. kHeader + i \in 1 .. packet.size
      BY <1>2, <2>2 DEF kHeader
    <3>3. body[i] = Cell(kHeader + i)
      BY <1>7, <2>2, <3>1, <3>2
    <3>4. i \in 1 .. packet.size - (kHeader + 1) + 1 /\ kHeader + 1 + i - 1 = kHeader + i
      BY <1>2, <2>2 DEF kHeader
    <3> QED
      BY <1>8, <3>3, <3>4
  <2> QED
    BY <1>7, <1>8, <2>4, <2>5, SeqEqual
<1>10. dirty \in BOOLEAN
  BY DEF IInv, TypeOK
<1> QED
  BY <1>5, <1>7, <1>8, <1>9, <1>10 DEF DamageEndsWithClear

(* Each message, with whatever the buffer holds. *)
LEMMA HeaderTooShortStep ==
  ASSUME IInv, HeaderTooShort
  PROVE  IInv'
<1>1. Done /\ cursor' = Len(data) /\ UNCHANGED <<data, complete, session, dirty, handed>>
  BY DEF HeaderTooShort
<1> QED
  BY <1>1, DoneStep DEF IInv, TypeOK, DamageEndsWithClear

(* Everything of a clean packet is read when the cursor moves over the      *)
(* whole of it.                                                             *)
LEMMA AllRead ==
  ASSUME IInv, NEW type \in HeaderType, Header(type), NEW n \in Nat,
         n <= ReadAvailable, cursor' = cursor + n, UNCHANGED data
  PROVE  /\ data' \in Seq(ByteOfPacket) /\ Len(data') <= Capacity
         /\ cursor' \in 0 .. Len(data')
         /\ n = ReadAvailable => cursor' = Len(data')
<1>1. data \in Seq(ByteOfPacket) /\ Len(data) <= Capacity /\ cursor \in 0 .. Len(data)
  BY DEF IInv, TypeOK
<1> QED
  BY <1>1 DEF ReadAvailable

LEMMA StartMessageIgnoredStep ==
  ASSUME IInv, StartMessageIgnored
  PROVE  IInv'
<1>1. PICK type \in {"init", "reply"} : Header(type)
  BY DEF StartMessageIgnored
<1>2. /\ Done /\ kHeader <= ReadAvailable /\ kHeader \in Nat
      /\ cursor' = cursor + kHeader
      /\ UNCHANGED <<data, complete, session, dirty, handed>>
      /\ ~OwnHeader \/ ReadAvailable < kHeader + kVersion
  BY <1>1 DEF Header, StartMessageIgnored, ReadAvailable, IInv, TypeOK, kHeader
<1>3. type \in HeaderType
  BY DEF HeaderType
<1>4. dirty
  BY <1>1, <1>2, <1>3, CleanHeader DEF kHeader, kVersion
<1>5. /\ data' \in Seq(ByteOfPacket) /\ Len(data') <= Capacity
      /\ cursor' \in 0 .. Len(data')
  BY <1>1, <1>2, <1>3, AllRead
<1> QED
  BY <1>2, <1>4, <1>5, DoneStep DEF IInv, TypeOK, DamageEndsWithClear

LEMMA ProcessStartSessionInitStep ==
  ASSUME IInv, ProcessStartSessionInit
  PROVE  IInv'
<1> DEFINE n == kHeader + kVersion
<1>1. /\ "init" \in HeaderType /\ Header("init") /\ Done
      /\ n \in Nat /\ n <= ReadAvailable
      /\ cursor' = cursor + n
      /\ UNCHANGED <<data, complete, dirty, handed>>
      /\ session' \in SessionState
  BY DEF ProcessStartSessionInit, Header, VersionRead, HeaderType, SessionState,
         ReadAvailable, IInv, TypeOK, kHeader, kVersion
<1>2. ~dirty => n = ReadAvailable
  BY <1>1, CleanHeader
<1> HIDE DEF n
<1>3. /\ data' \in Seq(ByteOfPacket) /\ Len(data') <= Capacity
      /\ cursor' \in 0 .. Len(data')
      /\ ~dirty => cursor' = Len(data')
  BY <1>1, <1>2, AllRead
<1> QED
  BY <1>1, <1>3, DoneStep DEF IInv, TypeOK, DamageEndsWithClear

LEMMA ProcessStartSessionReplyStep ==
  ASSUME IInv, ProcessStartSessionReply
  PROVE  IInv'
<1> DEFINE n == kHeader + kVersion
<1>1. /\ "reply" \in HeaderType /\ Header("reply") /\ Done
      /\ n \in Nat /\ n <= ReadAvailable
      /\ cursor' = cursor + n
      /\ UNCHANGED <<data, complete, dirty, handed>>
      /\ session' \in SessionState
  BY DEF ProcessStartSessionReply, Header, VersionRead, HeaderType, SessionState,
         ReadAvailable, IInv, TypeOK, kHeader, kVersion
<1>2. dirty
  BY <1>1, CleanHeader
<1> HIDE DEF n
<1>3. /\ data' \in Seq(ByteOfPacket) /\ Len(data') <= Capacity
      /\ cursor' \in 0 .. Len(data')
  BY <1>1, AllRead
<1> QED
  BY <1>1, <1>2, <1>3, DoneStep DEF IInv, TypeOK, DamageEndsWithClear

(* The packet of a terminate message is its header: nothing is left.        *)
LEMMA TerminateSessionStep ==
  ASSUME IInv, TerminateSession
  PROVE  IInv'
<1>1. /\ "terminate" \in HeaderType /\ Header("terminate") /\ Done
      /\ kHeader \in Nat /\ kHeader <= ReadAvailable
      /\ cursor' = cursor + kHeader
      /\ UNCHANGED <<data, complete, dirty, handed>>
      /\ session' \in SessionState
  BY DEF TerminateSession, Header, HeaderType, SessionState,
         ReadAvailable, IInv, TypeOK, kHeader
<1>2. ASSUME ~dirty
      PROVE  kHeader = ReadAvailable
  <2>1. packet.type = "terminate" /\ packet.size \in PayloadSizes(packet.type)
    BY <1>1, <1>2, CleanHeader DEF IInv, PacketInv, Done
  <2>2. packet.size = kHeader
    BY <2>1 DEF PayloadSizes
  <2> QED
    BY <1>1, <1>2, <2>2, CleanPacket
<1>3. /\ data' \in Seq(ByteOfPacket) /\ Len(data') <= Capacity
      /\ cursor' \in 0 .. Len(data')
      /\ ~dirty => cursor' = Len(data')
  BY <1>1, <1>2, AllRead
<1> QED
  BY <1>1, <1>3, DoneStep DEF IInv, TypeOK, DamageEndsWithClear

LEMMA ProcessLogStep ==
  ASSUME IInv, ProcessLog
  PROVE  IInv'
<1>1. /\ "log" \in HeaderType /\ Header("log") /\ Done
      /\ kHeader \in Nat /\ kHeader <= ReadAvailable
      /\ cursor' = cursor + kHeader /\ complete' = TRUE
      /\ UNCHANGED <<data, session, dirty>>
      /\ HandOver \/ UNCHANGED handed
  BY DEF ProcessLog, Header, HeaderType, ReadAvailable, IInv, TypeOK, kHeader
<1>2. /\ handed' \in [got : Seq(ByteOfPacket), want : Seq(ByteOfPacket), dirty : BOOLEAN]
      /\ DamageEndsWithClear'
  BY <1>1, HandOverRight DEF IInv, TypeOK, DamageEndsWithClear
<1>3. /\ data' \in Seq(ByteOfPacket) /\ Len(data') <= Capacity
      /\ cursor' \in 0 .. Len(data')
  BY <1>1, AllRead
<1> QED
  BY <1>1, <1>2, <1>3, DoneStep DEF IInv, TypeOK

LEMMA ProcessRequestStep ==
  ASSUME IInv, ProcessRequest
  PROVE  IInv'
<1>1. /\ "normal" \in HeaderType /\ Header("normal") /\ Done /\ HandOver
      /\ data' = <<>> /\ cursor' = 0 /\ dirty' = FALSE
      /\ UNCHANGED <<complete, session>>
  BY DEF ProcessRequest, ClearBuffer, Header, HeaderType
<1>2. /\ handed' \in [got : Seq(ByteOfPacket), want : Seq(ByteOfPacket), dirty : BOOLEAN]
      /\ DamageEndsWithClear'
  BY <1>1, HandOverRight
<1>3. data' \in Seq(ByteOfPacket) /\ Len(data') <= Capacity /\ cursor' \in 0 .. Len(data')
      /\ cursor' = Len(data')
  BY <1>1, CapacityAssumption
<1> QED
  BY <1>1, <1>2, <1>3, DoneStep DEF IInv, TypeOK

LEMMA StaleMessageStep ==
  ASSUME IInv, StaleMessage
  PROVE  IInv'
<1>1. /\ "normal" \in HeaderType /\ Header("normal") /\ Done
      /\ kHeader \in Nat /\ kHeader <= ReadAvailable
      /\ cursor' = cursor + kHeader /\ complete' = TRUE
      /\ UNCHANGED <<data, session, dirty, handed>>
  BY DEF StaleMessage, Header, HeaderType, ReadAvailable, IInv, TypeOK, kHeader
<1>2. /\ data' \in Seq(ByteOfPacket) /\ Len(data') <= Capacity
      /\ cursor' \in 0 .. Len(data')
  BY <1>1, AllRead
<1> QED
  BY <1>1, <1>2, DoneStep DEF IInv, TypeOK, DamageEndsWithClear
-----------------------------------------------------------------------------
(* The receive path's cursors stay in range, and the damage a lost packet   *)
(* does ends with the next Clear: a message handed over with no bytes of a  *)
(* lost packet in the buffer is the body of one packet, whole and alone.    *)
THEOREM ReceivePathSafe ==
  Spec => [](TypeOK /\ DamageEndsWithClear)
<1>1. Init => IInv
  <2> SUFFICES ASSUME Init PROVE IInv
    OBVIOUS
  <2>1. data \in Seq(ByteOfPacket) /\ Len(data) <= Capacity /\ cursor \in 0 .. Len(data)
    BY CapacityAssumption DEF Init
  <2>2. handed \in [got : Seq(ByteOfPacket), want : Seq(ByteOfPacket), dirty : BOOLEAN]
    BY DEF Init, NothingHanded
  <2>3. TypeOK
    BY <2>1, <2>2 DEF Init, TypeOK, SessionState
  <2> QED
    BY <2>3 DEF Init, IInv, PacketInv, BusyInv, AlignedInv, DamageEndsWithClear, NothingHanded, NoPacket
<1>2. IInv /\ [Next]_vars => IInv'
  <2> SUFFICES ASSUME IInv, [Next]_vars PROVE IInv'
    OBVIOUS
  <2>1. ASSUME NEW type \in PacketType, NEW size \in PayloadSizes(type), BeginPacket(type, size)
        PROVE  IInv'
    BY <2>1, BeginPacketStep
  <2>2. ASSUME NEW n \in 1 .. MaxChunk, Write(n)
        PROVE  IInv'
    BY <2>2, WriteStep
  <2>3. CASE GiveUp
    BY <2>3, GiveUpStep
  <2>4. CASE PacketDone
    BY <2>4, PacketDoneInvalidStep, HeaderTooShortStep, StartMessageIgnoredStep,
       ProcessStartSessionInitStep, ProcessStartSessionReplyStep, TerminateSessionStep,
       ProcessLogStep, ProcessRequestStep, StaleMessageStep DEF PacketDone
  <2>5. CASE UNCHANGED vars
    BY <2>5 DEF vars, IInv, TypeOK, PacketInv, BusyInv, AlignedInv, DamageEndsWithClear, Cell
  <2> QED
    BY <2>1, <2>2, <2>3, <2>4, <2>5 DEF Next
<1>3. IInv => TypeOK /\ DamageEndsWithClear
  BY DEF IInv
<1> QED
  BY <1>1, <1>2, <1>3, PTL DEF Spec
=============================================================================
