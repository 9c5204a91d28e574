---------------------------- MODULE FramingProofs ----------------------------
(***************************************************************************)
(* The framing layer, for every alphabet, CRC, buffer size, set of payloads *)
(* and chunking of the stream, with any number of resets of either side.    *)
(*                                                                         *)
(* FramingSafe, with write errors and printed text too: the types, and the  *)
(* CHECKs on the Unframer's buffer never fire.                              *)
(* PacketsArrive and EscapesValid: every finished packet is delivered, and  *)
(* no escape within a packet is invalid.  Their invariant follows the       *)
(* stream.  A place of the stream says how far into which packet it is; a   *)
(* path gives every byte that is still to be read the places before and     *)
(* behind it.  PathInv says that some path leads from a place that matches  *)
(* the state of the Unframer to one that matches the state of the Framer.   *)
(* OrderKept: what is delivered was sent, once and in order, if neither     *)
(* side is reset.                                                           *)
(***************************************************************************)
EXTENDS Framing, SequenceTheorems, TLAPS

USE ByteAssumption

(* Bytes wrapped for WriteAndCrc are a sequence of wire items. *)
LEMMA ItemsType ==
  ASSUME NEW bytes \in Seq(Byte), NEW escape \in BOOLEAN, NEW crc \in BOOLEAN
  PROVE  Items(bytes, escape, crc) \in Seq(WireItem)
BY DEF Items, WireItem

(* The three escape codes are bytes. *)
LEMMA EscapeCodesAreBytes ==
  /\ kEscapeStart \in Byte /\ kEscapeNop \in Byte /\ kPacketStart \in Byte
BY DEF Byte, kEscapeStart, kEscapeNop, kPacketStart

(* A length is written as bytes and read back as a natural number. *)
LEMMA LengthFieldType ==
  ASSUME NEW n \in Nat
  PROVE  LengthField(n) \in Seq(Byte)
BY DEF LengthField, Byte

LEMMA LengthValueType ==
  ASSUME NEW f \in Seq(Byte), Len(f) = kPayloadLength
  PROVE  LengthValue(f) \in Nat
<1>0. f[1] \in Byte /\ f[2] \in Byte /\ f[3] \in Byte /\ f[4] \in Byte
  BY DEF kPayloadLength
<1>1. f[1] \in Nat /\ f[2] \in Nat /\ f[3] \in Nat /\ f[4] \in Nat
  BY <1>0 DEF Byte
<1>2. \A m, n \in Nat : m + (MaxByte + 1) * n \in Nat
  OBVIOUS
<1> QED
  BY <1>1, <1>2 DEF LengthValue

(* A CRC is also a sequence of bytes, the way FinishPacket writes it. *)
LEMMA CrcIsBytes ==
  ASSUME NEW c \in Crc
  PROVE  c \in Seq(Byte)
<1>1. c = <<c[1], c[2]>> /\ c[1] \in Byte /\ c[2] \in Byte
  BY DEF Crc
<1>2. <<c[1], c[2]>> \in Seq(Byte)
  BY <1>1
<1> QED
  BY <1>1, <1>2

(* The running CRC stays a CRC. *)
LEMMA UpdateCrcType ==
  ASSUME NEW c \in Crc, NEW b \in Byte
  PROVE  UpdateCrc(c, b) \in Crc
BY CrcAssumption

(* The CRC a packet start resets to. *)
LEMMA StartCrcType ==
  UpdateCrc(UpdateCrc(CrcInit, kEscapeStart), kPacketStart) \in Crc
BY CrcAssumption, UpdateCrcType, EscapeCodesAreBytes
-----------------------------------------------------------------------------
(* What is inductive: the types, the room in the buffer that keeps the       *)
(* payload count from going below zero when the buffer is flushed, and the   *)
(* packet in progress that FinishPacket marks as finished.                   *)
HasPacket == fstate = "kTransmitPacketPayload" \/ call # "none" => sent # <<>>

IInv == TypeOK /\ BufferHasRoom /\ HasPacket

LEMMA InitIInv == Init => IInv
<1> SUFFICES ASSUME Init PROVE IInv
  OBVIOUS
<1> USE DEF Init
<1>1. FramerTypeOK
  BY CrcAssumption DEF FramerTypeOK, FramerState, FramerCall
<1>2. UnframerTypeOK
  <2>1. \A S : <<>> \in Seq(S)
    OBVIOUS
  <2>2. buf \in Seq(Byte) /\ input \in Seq(Byte) /\ rx \in Seq(Byte)
    BY <2>1
  <2>3. delivered \in Seq(Seq(Byte))
    BY <2>1
  <2>4. ustate \in UnframerState /\ sawEscape \in BOOLEAN /\ uremaining \in Nat
    BY DEF UnframerState
  <2> QED
    BY <2>2, <2>3, <2>4, CrcAssumption DEF UnframerTypeOK
<1>3. HistoryTypeOK
  BY DEF HistoryTypeOK
<1>4. wire \in Seq(Byte) /\ BufferHasRoom /\ HasPacket
  BY DEF BufferHasRoom, HasPacket
<1> QED
  BY <1>1, <1>2, <1>3, <1>4 DEF IInv, TypeOK

(* A step that leaves the Unframer alone keeps its part of the invariant. *)
LEMMA UnframerUnchanged ==
  ASSUME IInv, UNCHANGED unframerVars
  PROVE  UnframerTypeOK' /\ BufferHasRoom'
BY DEF IInv, TypeOK, UnframerTypeOK, BufferHasRoom, NumBytesToBuffer, unframerVars

LEMMA HistoryUnchanged ==
  ASSUME IInv, UNCHANGED <<sent, resetVars>>
  PROVE  HistoryTypeOK'
BY DEF IInv, TypeOK, HistoryTypeOK, resetVars

(* The Framer's steps, resets and printed text leave the Unframer alone. *)
LEMMA FramerKeepsIInv ==
  ASSUME IInv, FramerNext
  PROVE  IInv'
<1> USE DEF IInv, TypeOK
<1>0. FramerTypeOK /\ HistoryTypeOK /\ HasPacket /\ wire \in Seq(Byte)
  OBVIOUS
<1>1. ASSUME NEW p \in Payloads, StartPacket(p) PROVE IInv'
  <2>1. p \in Seq(Byte)
    BY PayloadsAssumption
  <2>2. LeadIn \in Seq(Byte) /\ <<kEscapeStart, kPacketStart>> \in Seq(Byte)
    BY EscapeCodesAreBytes DEF LeadIn
  <2>3. LengthField(Len(p)) \in Seq(Byte)
    BY <2>1, LengthFieldType
  <2>4. /\ Items(LeadIn, FALSE, FALSE) \in Seq(WireItem)
        /\ Items(<<kEscapeStart, kPacketStart>>, FALSE, TRUE) \in Seq(WireItem)
        /\ Items(LengthField(Len(p)), TRUE, TRUE) \in Seq(WireItem)
    BY <2>2, <2>3, ItemsType
  <2>5. data' \in Seq(WireItem)
    BY <1>1, <2>4, ConcatProperties DEF StartPacket
  <2>6. FramerTypeOK'
    BY <1>0, <1>1, <2>1, <2>5, CrcAssumption DEF StartPacket, FramerTypeOK, FramerCall
  <2>7. [payload |-> p, finished |-> FALSE] \in Packet
    BY <2>1 DEF Packet
  <2>8. sent' \in Seq(Packet) /\ sent' # <<>> /\ Len(sent') = Len(sent) + 1
    BY <1>0, <1>1, <2>7 DEF StartPacket, HistoryTypeOK
  <2>9. HistoryTypeOK' /\ HasPacket'
    BY <1>0, <1>1, <2>8 DEF StartPacket, HistoryTypeOK, HasPacket, resetVars
  <2> QED
    BY <1>0, <1>1, <2>6, <2>9, UnframerUnchanged DEF StartPacket
<1>2. ASSUME NEW n \in 1 .. Len(pending), WritePayloadChunk(n) PROVE IInv'
  <2>1. SubSeq(pending, 1, n) \in Seq(Byte) /\ pending' \in Seq(Byte)
    BY <1>0, <1>2 DEF WritePayloadChunk, FramerTypeOK
  <2>2. data' \in Seq(WireItem)
    BY <1>2, <2>1, ItemsType DEF WritePayloadChunk
  <2>3. fremaining' \in Nat
    BY <1>0, <1>2 DEF WritePayloadChunk, FramerTypeOK
  <2>4. FramerTypeOK' /\ HasPacket'
    BY <1>0, <1>2, <2>1, <2>2, <2>3
    DEF WritePayloadChunk, FramerTypeOK, FramerCall, HasPacket
  <2> QED
    BY <1>0, <1>2, <2>4, UnframerUnchanged, HistoryUnchanged DEF WritePayloadChunk
<1>3. ASSUME FinishPacket PROVE IInv'
  <2>1. data' \in Seq(WireItem)
    BY <1>0, <1>3, CrcIsBytes, ItemsType DEF FinishPacket, FramerTypeOK
  <2>2. FramerTypeOK' /\ HasPacket'
    BY <1>0, <1>3, <2>1 DEF FinishPacket, FramerTypeOK, FramerCall, HasPacket
  <2> QED
    BY <1>0, <1>3, <2>2, UnframerUnchanged, HistoryUnchanged DEF FinishPacket
<1>4. ASSUME WriteAndCrc PROVE IInv'
  <2>1. Head(data) \in WireItem /\ Tail(data) \in Seq(WireItem)
    BY <1>0, <1>4, HeadTailProperties DEF WriteAndCrc, FramerTypeOK
  <2>2. Head(data).byte \in Byte /\ [Head(data) EXCEPT !.escape = FALSE] \in WireItem
    BY <2>1 DEF WireItem
  <2>3. wire' \in Seq(Byte)
    BY <1>0, <1>4, <2>2 DEF WriteAndCrc
  <2>4. fcrc' \in Crc
    BY <1>0, <1>4, <2>2, UpdateCrcType DEF WriteAndCrc, FramerTypeOK
  <2>5. data' \in Seq(WireItem)
    BY <1>4, <2>1, <2>2 DEF WriteAndCrc
  <2>6. FramerTypeOK' /\ HasPacket'
    BY <1>0, <1>4, <2>4, <2>5 DEF WriteAndCrc, FramerTypeOK, HasPacket
  <2> QED
    BY <1>0, <1>4, <2>3, <2>6, UnframerUnchanged, HistoryUnchanged DEF WriteAndCrc
<1>5. ASSUME StartPacketDone \/ WritePayloadChunkDone PROVE IInv'
  <2>1. FramerTypeOK' /\ HasPacket'
    BY <1>0, <1>5 DEF StartPacketDone, WritePayloadChunkDone, FramerTypeOK, FramerState,
                      FramerCall, HasPacket
  <2> QED
    BY <1>0, <1>5, <2>1, UnframerUnchanged, HistoryUnchanged
    DEF StartPacketDone, WritePayloadChunkDone
<1>6. ASSUME FinishPacketDone PROVE IInv'
  <2> DEFINE last == [sent[Len(sent)] EXCEPT !.finished = TRUE]
  <2>1. sent \in Seq(Packet) /\ Len(sent) \in 1 .. Len(sent)
    BY <1>0, <1>6 DEF FinishPacketDone, HasPacket, HistoryTypeOK
  <2>2. sent[Len(sent)] \in Packet
    BY <2>1, ElementOfSeq
  <2>3. last \in Packet
    BY <2>2 DEF Packet
  <2>4. sent' = [sent EXCEPT ![Len(sent)] = last]
    BY <1>6 DEF FinishPacketDone
  <2>5. sent' \in Seq(Packet) /\ Len(sent') = Len(sent)
    BY <2>1, <2>3, <2>4, ExceptSeq
  <2>6. HistoryTypeOK'
    BY <1>0, <1>6, <2>5 DEF FinishPacketDone, HistoryTypeOK, resetVars
  <2>7. FramerTypeOK' /\ HasPacket'
    BY <1>0, <1>6 DEF FinishPacketDone, FramerTypeOK, FramerState, FramerCall, HasPacket
  <2> QED
    BY <1>0, <1>6, <2>6, <2>7, UnframerUnchanged DEF FinishPacketDone
<1>7. ASSUME WriteError PROVE IInv'
  <2>1. FramerTypeOK' /\ HasPacket'
    BY <1>0, <1>7 DEF WriteError, FramerTypeOK, FramerState, FramerCall, HasPacket
  <2> QED
    BY <1>0, <1>7, <2>1, UnframerUnchanged, HistoryUnchanged DEF WriteError
<1>8. ASSUME SenderReset PROVE IInv'
  <2>1. FramerTypeOK' /\ HasPacket'
    BY <1>0, <1>8, CrcAssumption
    DEF SenderReset, FramerTypeOK, FramerState, FramerCall, HasPacket
  <2>2. HistoryTypeOK'
    BY <1>0, <1>8 DEF SenderReset, HistoryTypeOK
  <2> QED
    BY <1>0, <1>8, <2>1, <2>2, UnframerUnchanged DEF SenderReset
<1>9. ASSUME NEW b \in Text, PrintText(b) PROVE IInv'
  <2>1. wire' \in Seq(Byte)
    BY <1>0, <1>9, TextAssumption DEF PrintText
  <2>2. FramerTypeOK' /\ HasPacket'
    BY <1>0, <1>9 DEF PrintText, framerVars, FramerTypeOK, HasPacket
  <2>3. HistoryTypeOK'
    BY <1>0, <1>9 DEF PrintText, HistoryTypeOK
  <2> QED
    BY <1>0, <1>9, <2>1, <2>2, <2>3, UnframerUnchanged DEF PrintText
<1> QED
  BY <1>1, <1>2, <1>3, <1>4, <1>5, <1>6, <1>7, <1>8, <1>9 DEF FramerNext

(* What ConsumeInput does to the fields every state shares. *)
LEMMA ConsumeType ==
  ASSUME UnframerTypeOK, Consume
  PROVE  /\ input' \in Seq(Byte) /\ sawEscape' \in BOOLEAN /\ ucrc' \in Crc
         /\ Filled \in Seq(Byte)
         /\ Len(Filled) \in Len(buf) .. Len(buf) + 1
<1>1. Head(input) \in Byte /\ input' \in Seq(Byte)
  BY DEF UnframerTypeOK, Consume, InPacket
<1>2. ucrc' \in Crc
  BY <1>1, UpdateCrcType DEF UnframerTypeOK, Consume
<1>3. Filled \in Seq(Byte) /\ Len(Filled) \in Len(buf) .. Len(buf) + 1
  BY <1>1 DEF UnframerTypeOK, Filled
<1> QED
  BY <1>1, <1>2, <1>3 DEF Consume

(* A step of the Unframer leaves the Framer and the history of the sender. *)
LEMMA FramerUnchanged ==
  ASSUME IInv, UNCHANGED <<framerVars, sent, resetVars>>
  PROVE  FramerTypeOK' /\ HistoryTypeOK' /\ HasPacket'
BY DEF IInv, TypeOK, FramerTypeOK, HistoryTypeOK, HasPacket, framerVars, resetVars

(* The Unframer's part of the invariant is kept by each of its states. *)
LEMMA FindPacketLengthKeeps ==
  ASSUME UnframerTypeOK, BufferHasRoom, FindPacketLength
  PROVE  UnframerTypeOK' /\ BufferHasRoom'
<1>1. Consume /\ ustate = "kFindPacketLength" /\ UNCHANGED <<rx, delivered>>
  BY DEF FindPacketLength
<1>2. Len(Filled) < kPayloadLength \/ Len(Filled) = kPayloadLength
  <2>1. buf \in Seq(Byte) /\ Len(buf) < kPayloadLength
    BY <1>1 DEF UnframerTypeOK, BufferHasRoom
  <2>2. \A m \in Nat : \A n \in m .. m + 1 : m < kPayloadLength => n < kPayloadLength \/ n = kPayloadLength
    BY DEF kPayloadLength
  <2>3. Len(buf) \in Nat
    BY <2>1
  <2> QED
    BY <1>1, <2>1, <2>2, <2>3, ConsumeType
<1>3. CASE Len(Filled) = kPayloadLength
  <2>1. uremaining' = LengthValue(Filled) /\ ustate' = "kFindPacketCrc" /\ buf' = <<>>
    BY <1>3 DEF FindPacketLength
  <2>2. uremaining' \in Nat
    BY <1>1, <1>3, <2>1, ConsumeType, LengthValueType
  <2> QED
    BY <1>1, <2>1, <2>2, ConsumeType DEF UnframerTypeOK, UnframerState, BufferHasRoom
<1>4. CASE Len(Filled) # kPayloadLength
  <2>1. buf' = Filled /\ UNCHANGED <<ustate, uremaining>>
    BY <1>4 DEF FindPacketLength
  <2>2. Len(Filled) < kPayloadLength
    BY <1>2, <1>4
  <2>3. BufferHasRoom'
    BY <1>1, <2>1, <2>2 DEF BufferHasRoom
  <2>4. UnframerTypeOK'
    BY <1>1, <2>1, ConsumeType DEF UnframerTypeOK
  <2> QED
    BY <2>3, <2>4
<1> QED
  BY <1>3, <1>4

LEMMA FindPacketCrcKeeps ==
  ASSUME UnframerTypeOK, BufferHasRoom, FindPacketCrc
  PROVE  UnframerTypeOK' /\ BufferHasRoom'
<1>1. Consume /\ ustate = "kFindPacketCrc" /\ UNCHANGED delivered
  BY DEF FindPacketCrc
<1>2. uremaining \in Nat /\ uremaining > 0
  BY <1>1 DEF UnframerTypeOK, Consume, InPacket, PayloadComplete
<1>3. NumBytesToBuffer \in 1 .. uremaining
  BY <1>2, BufferAssumption DEF NumBytesToBuffer
<1>4. Filled \in Seq(Byte) /\ Len(Filled) \in 0 .. NumBytesToBuffer
  <2>1. buf \in Seq(Byte) /\ Len(buf) < NumBytesToBuffer
    BY <1>1, <1>3 DEF UnframerTypeOK, BufferHasRoom
  <2> QED
    BY <1>1, <1>3, <2>1, ConsumeType
<1>5. CASE Len(Filled) = NumBytesToBuffer \/ input' = <<>>
  <2>1. /\ rx' = rx \o Filled /\ uremaining' = uremaining - Len(Filled) /\ buf' = <<>>
        /\ ustate' \in {"kFindPacketCrc", "kFindCrcEnd"}
    BY <1>1, <1>5 DEF FindPacketCrc
  <2>2. uremaining' \in Nat
    BY <1>2, <1>3, <1>4, <2>1
  <2>3. rx' \in Seq(Byte)
    BY <1>4, <2>1, ConcatProperties DEF UnframerTypeOK
  <2> QED
    BY <1>1, <2>1, <2>2, <2>3, ConsumeType
    DEF UnframerTypeOK, UnframerState, BufferHasRoom, kCrc
<1>6. CASE ~(Len(Filled) = NumBytesToBuffer \/ input' = <<>>)
  <2>1. buf' = Filled /\ UNCHANGED <<rx, uremaining, ustate>>
    BY <1>6 DEF FindPacketCrc
  <2>2. Len(Filled) < NumBytesToBuffer
    BY <1>3, <1>4, <1>6
  <2>3. NumBytesToBuffer' = NumBytesToBuffer
    BY <2>1 DEF NumBytesToBuffer
  <2> QED
    BY <1>1, <1>4, <2>1, <2>2, <2>3, ConsumeType DEF UnframerTypeOK, BufferHasRoom
<1> QED
  BY <1>5, <1>6

LEMMA FindCrcEndKeeps ==
  ASSUME UnframerTypeOK, BufferHasRoom, FindCrcEnd
  PROVE  UnframerTypeOK' /\ BufferHasRoom'
<1>1. Consume /\ ustate = "kFindCrcEnd" /\ UNCHANGED <<rx, uremaining>>
  BY DEF FindCrcEnd
<1>2. Len(Filled) < kCrc \/ Len(Filled) = kCrc
  <2>1. buf \in Seq(Byte) /\ Len(buf) < kCrc
    BY <1>1 DEF UnframerTypeOK, BufferHasRoom
  <2>2. \A m \in Nat : \A n \in m .. m + 1 : m < kCrc => n < kCrc \/ n = kCrc
    BY DEF kCrc
  <2>3. Len(buf) \in Nat
    BY <2>1
  <2> QED
    BY <1>1, <2>1, <2>2, <2>3, ConsumeType
<1>3. CASE Len(Filled) = kCrc
  <2>1. /\ delivered' \in {delivered, Append(delivered, rx)}
        /\ ustate' = "kFindPacketStart" /\ buf' = <<>>
    BY <1>3 DEF FindCrcEnd
  <2>2. Append(delivered, rx) \in Seq(Seq(Byte))
    BY AppendProperties DEF UnframerTypeOK
  <2>3. delivered' \in Seq(Seq(Byte))
    BY <2>1, <2>2 DEF UnframerTypeOK
  <2> QED
    BY <1>1, <2>1, <2>3, ConsumeType DEF UnframerTypeOK, UnframerState, BufferHasRoom
<1>4. CASE Len(Filled) # kCrc
  <2>1. buf' = Filled /\ UNCHANGED <<ustate, delivered>>
    BY <1>4 DEF FindCrcEnd
  <2>2. Len(Filled) < kCrc
    BY <1>2, <1>4
  <2>3. BufferHasRoom'
    BY <1>1, <2>1, <2>2 DEF BufferHasRoom
  <2>4. UnframerTypeOK'
    BY <1>1, <2>1, ConsumeType DEF UnframerTypeOK
  <2> QED
    BY <2>3, <2>4
<1> QED
  BY <1>3, <1>4

(* The Unframer's own steps leave the Framer alone. *)
LEMMA UnframerKeepsIInv ==
  ASSUME IInv, UnframerStep \/ ReceiverReset
  PROVE  IInv'
<1>0. UnframerTypeOK /\ BufferHasRoom /\ HistoryTypeOK /\ wire \in Seq(Byte)
  BY DEF IInv, TypeOK
<1> USE DEF IInv, TypeOK
<1>1. ASSUME NEW n \in 1 .. MaxChunk, Receive(n) PROVE IInv'
  <2>1. input' \in Seq(Byte) /\ wire' \in Seq(Byte)
    BY <1>0, <1>1, BoundsAssumption DEF Receive
  <2>2. UnframerTypeOK' /\ BufferHasRoom'
    BY <1>0, <1>1, <2>1 DEF Receive, UnframerTypeOK, BufferHasRoom, NumBytesToBuffer
  <2> QED
    BY <1>1, <2>1, <2>2, FramerUnchanged DEF Receive
<1>2. ASSUME FindPacketStart PROVE IInv'
  <2>1. input' \in Seq(Byte) /\ ucrc' \in Crc
    BY <1>0, <1>2, StartCrcType DEF FindPacketStart, UnframerTypeOK
  <2>2. ustate' \in {"kFindPacketStart", "kFindPacketLength"} /\ rx' \in {rx, <<>>}
    BY <1>2 DEF FindPacketStart
  <2>3. buf' = <<>>
    BY <1>0, <1>2 DEF FindPacketStart, BufferHasRoom
  <2>4. BufferHasRoom'
    BY <2>2, <2>3 DEF BufferHasRoom, kPayloadLength
  <2>5. rx' \in Seq(Byte) /\ buf' \in Seq(Byte)
    <3>1. rx \in Seq(Byte) /\ <<>> \in Seq(Byte)
      BY <1>0 DEF UnframerTypeOK
    <3> QED
      BY <2>2, <2>3, <3>1
  <2>6. UnframerTypeOK'
    BY <1>0, <1>2, <2>1, <2>2, <2>5 DEF FindPacketStart, UnframerTypeOK, UnframerState
  <2> QED
    BY <1>0, <1>2, <2>4, <2>6, FramerUnchanged DEF FindPacketStart
<1>3. ASSUME FindPacketLength PROVE IInv'
  BY <1>0, <1>3, FindPacketLengthKeeps, FramerUnchanged DEF FindPacketLength, Consume
<1>4. ASSUME FindPacketCrc PROVE IInv'
  BY <1>0, <1>4, FindPacketCrcKeeps, FramerUnchanged DEF FindPacketCrc, Consume
<1>5. ASSUME FindPacketCrcEmpty PROVE IInv'
  <2>1. buf = <<>>
    BY <1>0, <1>5, BufferAssumption
    DEF FindPacketCrcEmpty, PayloadComplete, UnframerTypeOK, BufferHasRoom, NumBytesToBuffer
  <2>2. UnframerTypeOK' /\ BufferHasRoom'
    BY <1>0, <1>5, <2>1
    DEF FindPacketCrcEmpty, UnframerTypeOK, UnframerState, BufferHasRoom, kCrc
  <2> QED
    BY <1>0, <1>5, <2>2, FramerUnchanged DEF FindPacketCrcEmpty
<1>6. ASSUME FindCrcEnd PROVE IInv'
  BY <1>0, <1>6, FindCrcEndKeeps, FramerUnchanged DEF FindCrcEnd, Consume
<1>7. ASSUME AbortShortPacket PROVE IInv'
  <2>1. UnframerTypeOK' /\ BufferHasRoom'
    BY <1>0, <1>7 DEF AbortShortPacket, ErrorReturn, UnframerTypeOK, UnframerState, BufferHasRoom
  <2> QED
    BY <1>0, <1>7, <2>1, FramerUnchanged DEF AbortShortPacket, ErrorReturn
<1>8. ASSUME AbortInvalidEscape PROVE IInv'
  <2>1. input' \in Seq(Byte)
    BY <1>0, <1>8
    DEF AbortInvalidEscape, ErrorReturn, IsInvalidEscape, InPacket, UnframerTypeOK
  <2>2. buf' \in Seq(Byte) /\ BufferHasRoom'
    BY <1>8 DEF AbortInvalidEscape, BufferHasRoom
  <2>3. UnframerTypeOK'
    BY <1>0, <1>8, <2>1, <2>2
    DEF AbortInvalidEscape, ErrorReturn, UnframerTypeOK, UnframerState
  <2> QED
    BY <1>0, <1>8, <2>2, <2>3, FramerUnchanged DEF AbortInvalidEscape, ErrorReturn
<1>9. ASSUME ReceiverReset PROVE IInv'
  <2>1. UnframerTypeOK' /\ BufferHasRoom'
    <3>1. BufferHasRoom' /\ buf' \in Seq(Byte) /\ input' \in Seq(Byte)
      BY <1>9 DEF ReceiverReset, BufferHasRoom
    <3> QED
      BY <1>0, <1>9, <3>1 DEF ReceiverReset, UnframerTypeOK, UnframerState
  <2>2. FramerTypeOK' /\ HasPacket'
    BY <1>9 DEF ReceiverReset, framerVars, FramerTypeOK, HasPacket
  <2>3. HistoryTypeOK'
    BY <1>0, <1>9 DEF ReceiverReset, HistoryTypeOK
  <2> QED
    BY <1>0, <1>9, <2>1, <2>2, <2>3 DEF ReceiverReset
<1> QED
  BY <1>1, <1>2, <1>3, <1>4, <1>5, <1>6, <1>7, <1>8, <1>9 DEF UnframerStep

LEMMA StutterKeepsIInv ==
  ASSUME IInv, UNCHANGED vars
  PROVE  IInv'
<1>1. UNCHANGED <<unframerVars, framerVars, sent, resetVars, wire>>
  BY DEF vars
<1> QED
  BY <1>1, UnframerUnchanged, FramerUnchanged DEF IInv, TypeOK

(* The framing layer is type correct, and buffer_ always has room for the   *)
(* field AddToBuffer fills: no CHECK of the Unframer can fire.              *)
THEOREM FramingSafe == Spec => [](TypeOK /\ BufferHasRoom)
<1>1. IInv /\ [Next]_vars => IInv'
  BY FramerKeepsIInv, UnframerKeepsIInv, StutterKeepsIInv DEF Next
<1>2. IInv => TypeOK /\ BufferHasRoom
  BY DEF IInv
<1> QED
  BY InitIInv, <1>1, <1>2, PTL DEF Spec
-----------------------------------------------------------------------------
(* A packet on the wire, item by item: 0 is the kEscapeNop, 1 and 2 start   *)
(* it, 3 to 6 are the length, then the payload p and the CRC c.             *)
Payload(s, k) == s[k].payload
LastItem(p) == 8 + Len(p)

ByteAt(p, c, j) ==
  IF j = 0 THEN kEscapeNop
  ELSE IF j = 1 THEN kEscapeStart
  ELSE IF j = 2 THEN kPacketStart
  ELSE IF j <= 6 THEN LengthField(Len(p))[j - 2]
  ELSE IF j <= 6 + Len(p) THEN p[j - 6]
  ELSE c[j - 6 - Len(p)]
Summed(p, j) == j > 0 /\ j <= 6 + Len(p)

(* A place in the stream: the last packet begun, the items of it that are   *)
(* complete, whether the first of two kEscapeStart follows them, and the    *)
(* CRC so far.                                                              *)
Position == [k : Nat, j : Nat, half : BOOLEAN, crc : Crc]
Done(s, q) == q.k > 0 /\ q.j = LastItem(Payload(s, q.k))
Odd(q) == q.half \/ q.j = 1

PositionOK(s, q) ==
  /\ q \in Position /\ q.k \in 0 .. Len(s)
  /\ q.k = 0 => q.j = 0 /\ ~q.half
  /\ q.k > 0 => q.j <= LastItem(Payload(s, q.k))
  /\ q.half => /\ q.k > 0 /\ q.j >= 2 /\ q.j < LastItem(Payload(s, q.k))
               /\ ByteAt(Payload(s, q.k), q.crc, q.j + 1) = kEscapeStart
  /\ q.j = 0 => q.crc = CrcInit
  /\ q.j = 1 => q.crc = UpdateCrc(CrcInit, kEscapeStart)

(* Of the packets from the one at q up to k, k left out, none is finished   *)
(* but the one that is complete at q.                                       *)
Unfinished(s, q, k) ==
  \A i \in q.k .. k - 1 : i > 0 /\ s[i].finished => i = q.k /\ Done(s, q)

(* Before the first packet: a Framer that is never reset again writes the   *)
(* kEscapeNop only here, and printf its text.                               *)
Early(q) == MaxSenderResets = 0 => q.k = 0

(* The byte b leads from q to r: the next of the packet, the first of a     *)
(* later one, or text.                                                      *)
Within(s, q, b, r) ==
  LET p == Payload(s, q.k)
  IN  /\ q.k > 0 /\ r.k = q.k /\ q.j < LastItem(p)
      /\ b = ByteAt(p, q.crc, q.j + 1)
      /\ r.half = (~q.half /\ q.j >= 2 /\ b = kEscapeStart)
      /\ r.j = IF r.half THEN q.j ELSE q.j + 1
      /\ r.crc = IF Summed(p, q.j + 1) THEN UpdateCrc(q.crc, b) ELSE q.crc
Starts(s, q, b, r) ==
  /\ r.k > q.k /\ Unfinished(s, q, r.k) /\ ~r.half
  /\ \/ b = kEscapeNop /\ r.j = 0 /\ Early(q)
     \/ b = kEscapeStart /\ r.j = 1 /\ ~Odd(q)
Prints(s, q, b, r) ==
  /\ b \in Text /\ MaxText > 0 /\ Early(q)
  /\ r = IF Done(s, q) THEN q ELSE [q EXCEPT !.j = 0, !.half = FALSE, !.crc = CrcInit]
Hop(s, q, b, r) == Within(s, q, b, r) \/ Starts(s, q, b, r) \/ Prints(s, q, b, r)

(* Q leads through the bytes R.                                             *)
Path(s, Q, R) ==
  /\ \A i \in 0 .. Len(R) : PositionOK(s, Q[i])
  /\ \A i \in 1 .. Len(R) : Hop(s, Q[i - 1], R[i], Q[i])

(* What is left of R behind its first n bytes.                              *)
Behind(T, R, n) == Len(T) = Len(R) - n /\ \A i \in 1 .. Len(T) : T[i] = R[i + n]

-----------------------------------------------------------------------------
LEMMA PathExtends ==
  ASSUME NEW s, NEW Q, NEW R \in Seq(Byte), NEW b \in Byte, NEW r, Path(s, Q, R),
         PositionOK(s, r), Hop(s, Q[Len(R)], b, r)
  PROVE  \E P : /\ Path(s, P, Append(R, b))
                /\ P[0] = Q[0] /\ P[Len(R) + 1] = r
<1> DEFINE P == [i \in 0 .. Len(R) + 1 |-> IF i = Len(R) + 1 THEN r ELSE Q[i]]
           T == Append(R, b)
<1>1. /\ Len(R) \in Nat /\ Len(T) = Len(R) + 1 /\ T[Len(R) + 1] = b
      /\ \A i \in 1 .. Len(R) : T[i] = R[i]
  OBVIOUS
<1>2. P[Len(R) + 1] = r /\ \A i \in 0 .. Len(R) : P[i] = Q[i]
  BY <1>1
<1> HIDE DEF P, T
<1>3. \A i \in 0 .. Len(T) : PositionOK(s, P[i])
  BY <1>1, <1>2 DEF Path
<1>4. ASSUME NEW i \in 1 .. Len(T) PROVE Hop(s, P[i - 1], T[i], P[i])
  <2>1. CASE i = Len(R) + 1
    <3>1. i - 1 = Len(R) /\ P[i - 1] = Q[Len(R)]
      BY <1>1, <1>2, <2>1
    <3> QED
      BY <1>1, <1>2, <2>1, <3>1
  <2>2. CASE i # Len(R) + 1
    <3>1. i \in 1 .. Len(R) /\ P[i - 1] = Q[i - 1] /\ P[i] = Q[i] /\ T[i] = R[i]
      BY <1>1, <1>2, <2>2
    <3> QED
      BY <3>1 DEF Path
  <2> QED
    BY <2>1, <2>2
<1>5. Path(s, P, T)
  BY <1>3, <1>4 DEF Path
<1> QED
  BY <1>1, <1>2, <1>5 DEF T

LEMMA PathDrops ==
  ASSUME NEW s, NEW Q, NEW R \in Seq(Byte), NEW n \in 0 .. Len(R), Path(s, Q, R),
         NEW T \in Seq(Byte), Behind(T, R, n)
  PROVE  \E P : /\ Path(s, P, T)
                /\ P[0] = Q[n] /\ P[Len(T)] = Q[Len(R)]
<1> DEFINE P == [i \in 0 .. Len(T) |-> Q[i + n]]
<1>1. /\ Len(R) \in Nat /\ Len(T) \in Nat
      /\ Len(T) = Len(R) - n /\ \A i \in 1 .. Len(T) : T[i] = R[i + n]
  BY DEF Behind
<1>2. \A i \in 0 .. Len(T) : P[i] = Q[i + n]
  BY <1>1
<1>3. P[0] = Q[n] /\ P[Len(T)] = Q[Len(R)]
  BY <1>1
<1> HIDE DEF P
<1>4. \A i \in 0 .. Len(T) : PositionOK(s, P[i])
  BY <1>1, <1>2 DEF Path
<1>5. ASSUME NEW i \in 1 .. Len(T) PROVE Hop(s, P[i - 1], T[i], P[i])
  <2>1. i + n \in 1 .. Len(R) /\ (i + n) - 1 = (i - 1) + n /\ i - 1 \in 0 .. Len(T)
    BY <1>1
  <2>2. P[i - 1] = Q[(i + n) - 1] /\ P[i] = Q[i + n]
    BY <1>1, <1>2, <2>1
  <2>3. T[i] = R[i + n]
    BY <1>1
  <2>4. Hop(s, Q[(i + n) - 1], R[i + n], Q[i + n])
    BY <2>1 DEF Path
  <2> QED
    BY <2>2, <2>3, <2>4
<1>6. Path(s, P, T)
  BY <1>4, <1>5 DEF Path
<1> QED
  BY <1>3, <1>6

(* A packet started later, or the last one finished, leaves the path.       *)
LEMMA PathStays ==
  ASSUME NEW s, NEW t, NEW Q, NEW R \in Seq(Byte), Path(s, Q, R),
         Len(s) \in Nat, Len(t) \in Nat, Len(t) >= Len(s),
         \A i \in 1 .. Len(s) : t[i].payload = s[i].payload,
         \A i \in 1 .. Len(s) : i < Len(s) => t[i].finished = s[i].finished
  PROVE  Path(t, Q, R)
<1>1. ASSUME NEW q, PositionOK(s, q)
      PROVE  /\ PositionOK(t, q) /\ q.k \in 0 .. Len(s)
             /\ q.k > 0 => Payload(t, q.k) = Payload(s, q.k)
             /\ Done(t, q) <=> Done(s, q)
  <2>1. q \in Position /\ q.k \in 0 .. Len(s) /\ q.k \in 0 .. Len(t)
    BY <1>1 DEF PositionOK
  <2>2. q.k > 0 => Payload(t, q.k) = Payload(s, q.k)
    BY <2>1 DEF Payload
  <2>3. PositionOK(t, q)
    BY <1>1, <2>1, <2>2 DEF PositionOK
  <2> QED
    BY <2>1, <2>2, <2>3 DEF Done
<1>2. ASSUME NEW q, NEW b, NEW r, PositionOK(s, q), PositionOK(s, r), Hop(s, q, b, r)
      PROVE  Hop(t, q, b, r)
  <2>1. /\ q.k \in 0 .. Len(s) /\ r.k \in 0 .. Len(s)
        /\ q.k > 0 => Payload(t, q.k) = Payload(s, q.k)
        /\ Done(t, q) <=> Done(s, q)
    BY <1>1, <1>2
  <2>2. Within(s, q, b, r) => Within(t, q, b, r)
    BY <2>1 DEF Within
  <2>3. Prints(s, q, b, r) => Prints(t, q, b, r)
    BY <2>1 DEF Prints
  <2>4. Starts(s, q, b, r) => Starts(t, q, b, r)
    <3>1. ASSUME Unfinished(s, q, r.k) PROVE Unfinished(t, q, r.k)
      <4> SUFFICES ASSUME NEW i \in q.k .. r.k - 1, i > 0, t[i].finished
                   PROVE  i = q.k /\ Done(t, q)
        BY DEF Unfinished
      <4>1. i \in 1 .. Len(s) /\ i < Len(s)
        BY <2>1
      <4>2. s[i].finished
        BY <4>1
      <4> QED
        BY <2>1, <3>1, <4>2 DEF Unfinished
    <3> QED
      BY <3>1 DEF Starts
  <2> QED
    BY <1>2, <2>2, <2>3, <2>4 DEF Hop
<1> QED
  BY <1>1, <1>2 DEF Path
-----------------------------------------------------------------------------
(* The Framer at a place z of the stream, where all it wrote ends.          *)
ItemLeft(item, p, c, j, half) ==
  item.byte = ByteAt(p, c, j) /\ item.escape = (j > 2 /\ ~half) /\ item.crc = Summed(p, j)

(* The call in progress has the items up to last still to write.            *)
Rest(z, last) ==
  /\ z.j + Len(data) = last /\ fcrc = z.crc
  /\ z.half => Len(data) > 0
  /\ \A i \in 1 .. Len(data) :
       ItemLeft(data[i], Payload(sent, z.k), z.crc, z.j + i, i = 1 /\ z.half)

(* The caller has the bytes of the payload behind item m.                   *)
Left(z, m) ==
  LET p == Payload(sent, z.k)
  IN  /\ Len(pending) = fremaining /\ m + fremaining = 6 + Len(p)
      /\ \A i \in 1 .. fremaining : pending[i] = p[m - 6 + i]

Current(z) == z.k > 0 /\ z.k = Len(sent) /\ ~sent[z.k].finished

NoCallAt(z) ==
  /\ data = <<>>
  /\ fstate = "kReset" \/ ~Odd(z)
  /\ fstate = "kTransmitPacketPayload" =>
       Current(z) /\ z.j >= 6 /\ fcrc = z.crc /\ Left(z, z.j)

(* Nothing of the packet is written yet.                                    *)
NotBegun(z) ==
  LET first == IF fstate = "kReset" THEN 0 ELSE 1
  IN  /\ z.k < Len(sent) /\ fcrc = CrcInit /\ (fstate = "kReset" \/ ~Odd(z))
      /\ Len(data) = 7 - first
      /\ \A i \in 1 .. Len(data) :
           ItemLeft(data[i], Payload(sent, Len(sent)), CrcInit, first + i - 1, FALSE)
StartPacketAt(z) ==
  /\ Len(sent) > 0 /\ ~sent[Len(sent)].finished /\ pending = Payload(sent, Len(sent))
  /\ NotBegun(z) \/ (Current(z) /\ Rest(z, 6))

WritePayloadChunkAt(z) ==
  /\ fstate = "kTransmitPacketPayload" /\ Current(z) /\ z.j >= 6
  /\ Rest(z, z.j + Len(data)) /\ Left(z, z.j + Len(data))
FinishPacketAt(z) ==
  /\ fstate = "kTransmitPacketPayload" /\ Current(z)
  /\ z.j >= 6 + Len(Payload(sent, z.k)) /\ Rest(z, LastItem(Payload(sent, z.k)))

SenderAt(z) ==
  /\ Unfinished(sent, z, Len(sent) + 1)
  /\ call = "none"              => NoCallAt(z)
  /\ call = "StartPacket"       => StartPacketAt(z)
  /\ call = "WritePayloadChunk" => WritePayloadChunkAt(z)
  /\ call = "FinishPacket"      => FinishPacketAt(z)

(* The payloads tell the packets apart; the Framer leaves kReset for good   *)
(* with the first packet, and no byte is lost, unless there are resets.     *)
Steady ==
  /\ \A i, j \in 1 .. Len(sent) : sent[i].payload = sent[j].payload => i = j
  /\ MaxSenderResets = 0 /\ fstate = "kReset" =>
       Len(sent) <= 1 /\ (call # "StartPacket" => sent = <<>>)
  /\ MaxReceiverResets = 0 => mayMiss = 0

-----------------------------------------------------------------------------
LEMMA SameByte ==
  ASSUME NEW p \in Seq(Byte), NEW c, NEW e, NEW j \in Nat, c = e \/ j <= 6 + Len(p)
  PROVE  ByteAt(p, c, j) = ByteAt(p, e, j)
BY DEF ByteAt

LEMMA OneMore ==
  ASSUME NEW S, NEW d \in Seq(S), d # <<>>, NEW x \in S
  PROVE  /\ <<x>> \o Tail(d) \in Seq(S) /\ Len(<<x>> \o Tail(d)) = Len(d)
         /\ (<<x>> \o Tail(d))[1] = x
         /\ \A i \in 2 .. Len(d) : (<<x>> \o Tail(d))[i] = d[i]
OBVIOUS

LEMMA PacketAt ==
  ASSUME TypeOK, NEW k \in 1 .. Len(sent)
  PROVE  Payload(sent, k) \in Seq(Byte) /\ sent[k].finished \in BOOLEAN /\ Len(sent) \in Nat
<1>1. sent \in Seq(Packet)
  BY DEF TypeOK, HistoryTypeOK
<1>2. sent[k] \in Packet /\ Len(sent) \in Nat
  BY <1>1
<1> QED
  BY <1>2 DEF Packet, Payload

(* One byte of a call. *)
LEMMA NextByte ==
  ASSUME TypeOK, TypeOK', NEW z, PositionOK(sent, z), Current(z), NEW last \in Nat, Rest(z, last),
         last <= LastItem(Payload(sent, z.k)),
         last <= 6 + Len(Payload(sent, z.k)) \/ z.j >= 6 + Len(Payload(sent, z.k)),
         WriteAndCrc
  PROVE  \E r : /\ PositionOK(sent, r) /\ Within(sent, z, Head(data).byte, r)
                /\ r.k = z.k /\ r.j >= z.j /\ Rest(r, last)'
<1> DEFINE p == Payload(sent, z.k)
           item == Head(data)
           half == item.escape /\ item.byte = kEscapeStart
<1>1. z \in Position /\ z.k \in 1 .. Len(sent) /\ p \in Seq(Byte)
  <2>1. z \in Position /\ z.k \in 0 .. Len(sent) /\ z.k > 0
    BY DEF PositionOK, Current
  <2> QED
    BY <2>1, PacketAt DEF Position
<1>2. data \in Seq(WireItem) /\ data # <<>> /\ fcrc \in Crc /\ fcrc' \in Crc /\ sent' = sent
  BY DEF TypeOK, FramerTypeOK, WriteAndCrc
<1>3. /\ Len(data) \in Nat /\ Len(data) > 0 /\ item = data[1]
      /\ item.byte \in Byte /\ item.escape \in BOOLEAN /\ item.crc \in BOOLEAN
  <2>1. Len(data) \in Nat /\ Len(data) > 0 /\ item = data[1] /\ item \in WireItem
    BY <1>2
  <2> QED
    BY <2>1 DEF WireItem
<1>4. /\ item.byte = ByteAt(p, z.crc, z.j + 1)
      /\ item.escape = (z.j + 1 > 2 /\ ~z.half) /\ item.crc = Summed(p, z.j + 1)
  <2>1. ItemLeft(data[1], p, z.crc, z.j + 1, 1 = 1 /\ z.half)
    BY <1>3 DEF Rest
  <2> QED
    BY <1>3, <2>1 DEF ItemLeft
<1>5. PICK r : r = [k |-> z.k, j |-> IF half THEN z.j ELSE z.j + 1, half |-> half, crc |-> fcrc']
  OBVIOUS
<1>6. /\ r.k = z.k /\ r.half = half /\ r.crc = fcrc'
      /\ r.j = IF half THEN z.j ELSE z.j + 1
      /\ z.j \in Nat /\ z.k \in Nat /\ z.half \in BOOLEAN /\ half \in BOOLEAN
  BY <1>1, <1>3, <1>5 DEF Position
<1>15. z.j \in Nat /\ Len(data) \in Nat /\ Len(data) > 0 /\ z.j + Len(data) = last
  BY <1>3, <1>6 DEF Rest
<1>16. /\ half => r.j = z.j
       /\ ~half => r.j = z.j + 1
  BY <1>6
<1>7. /\ fcrc' = IF item.crc THEN UpdateCrc(fcrc, item.byte) ELSE fcrc
      /\ data' = IF half THEN <<[item EXCEPT !.escape = FALSE]>> \o Tail(data) ELSE Tail(data)
  BY DEF WriteAndCrc
<1>8. fcrc = z.crc /\ z.j + Len(data) = last
  BY DEF Rest
<1> HIDE DEF item, half, p
<1>9. z.j < LastItem(p) /\ z.j + 1 <= last
  <2>1. LastItem(p) \in Nat
    BY <1>1 DEF LastItem
  <2>2. z.j + 1 <= last
    BY <1>15
  <2> QED
    BY <1>15, <2>1, <2>2 DEF p
<1>10. half <=> ~z.half /\ z.j >= 2 /\ item.byte = kEscapeStart
  <2>1. z.j + 1 > 2 <=> z.j >= 2
    BY <1>15
  <2> QED
    BY <1>4, <2>1, Zenon DEF half
<1>17. half => z.j >= 2
  BY <1>10
<1>11. Within(sent, z, item.byte, r)
  <2>1. r.crc = IF Summed(p, z.j + 1) THEN UpdateCrc(z.crc, item.byte) ELSE z.crc
    BY <1>4, <1>6, <1>7, <1>8
  <2>2. r.half = (~z.half /\ z.j >= 2 /\ item.byte = kEscapeStart)
    BY <1>6, <1>10
  <2> QED
    BY <1>1, <1>4, <1>6, <1>9, <2>1, <2>2 DEF Within, p
<1>12. \A j \in Nat : j <= last /\ j > z.j => ByteAt(p, r.crc, j) = ByteAt(p, z.crc, j)
  <2>1. CASE last <= 6 + Len(p)
    <3>1. Len(p) \in Nat
      BY <1>1
    <3>2. \A j \in Nat : j <= last => j <= 6 + Len(p)
      BY <2>1, <3>1
    <3> QED
      BY <1>1, <3>2, SameByte
  <2>2. CASE z.j >= 6 + Len(p)
    <3>1. Len(p) \in Nat
      BY <1>1
    <3>2. ~Summed(p, z.j + 1)
      BY <1>6, <2>2, <3>1 DEF Summed
    <3>3. r.crc = z.crc
      BY <1>4, <1>6, <1>7, <1>8, <3>2
    <3> QED
      BY <3>3
  <2> QED
    BY <2>1, <2>2 DEF p
<1>13. PositionOK(sent, r)
  <2>1. r \in Position
    BY <1>2, <1>5, <1>6 DEF Position
  <2>2. r.k \in 0 .. Len(sent) /\ r.k > 0 /\ Payload(sent, r.k) = p
    BY <1>1, <1>6 DEF p
  <2>3. Len(p) \in Nat /\ r.j <= LastItem(p)
    BY <1>1, <1>6, <1>9 DEF LastItem
  <2>4. r.half => r.j >= 2 /\ r.j < LastItem(p) /\ ByteAt(p, r.crc, r.j + 1) = kEscapeStart
    <3> SUFFICES ASSUME half PROVE r.j >= 2 /\ r.j < LastItem(p) /\ ByteAt(p, r.crc, r.j + 1) = kEscapeStart
      BY <1>6
    <3>1. r.j = z.j /\ z.j >= 2 /\ item.byte = kEscapeStart
      BY <1>6, <1>10
    <3>2. ByteAt(p, r.crc, z.j + 1) = ByteAt(p, z.crc, z.j + 1)
      BY <1>6, <1>9, <1>12
    <3> QED
      BY <1>4, <1>9, <3>1, <3>2
  <2>5. r.j # 0
    BY <1>15, <1>16, <1>17
  <2>6. r.j = 1 => r.crc = UpdateCrc(CrcInit, kEscapeStart)
    <3> SUFFICES ASSUME r.j = 1 PROVE r.crc = UpdateCrc(CrcInit, kEscapeStart)
      OBVIOUS
    <3>1. z.j = 0 /\ z.j + 1 = 1
      BY <1>15, <1>16, <1>17
    <3>2. z.crc = CrcInit
      BY <3>1 DEF PositionOK
    <3>3. item.byte = kEscapeStart /\ item.crc
      <4>1. Len(p) \in Nat
        BY <1>1
      <4>2. ByteAt(p, z.crc, 1) = kEscapeStart /\ Summed(p, 1) = TRUE
        BY <4>1 DEF ByteAt, Summed
      <4> QED
        BY <1>4, <3>1, <4>2
    <3> QED
      BY <1>6, <1>7, <1>8, <3>2, <3>3
  <2> QED
    BY <2>1, <2>2, <2>3, <2>4, <2>5, <2>6 DEF PositionOK
<1>14. Rest(r, last)'
  <2>1. CASE half
    <3>1. /\ Len(data') = Len(data)
          /\ data'[1] = [item EXCEPT !.escape = FALSE]
          /\ \A i \in 2 .. Len(data) : data'[i] = data[i]
      <4>1. [item EXCEPT !.escape = FALSE] \in WireItem
        <5>1. item \in WireItem
          BY <1>2 DEF item
        <5> QED
          BY <5>1 DEF WireItem
      <4>2. data' = <<[item EXCEPT !.escape = FALSE]>> \o Tail(data)
        BY <1>7, <2>1
      <4> QED
        BY <1>2, <4>1, <4>2, OneMore
    <3>2. r.j = z.j /\ r.half /\ r.half = TRUE
      BY <1>6, <2>1
    <3>3. ItemLeft(data'[1], p, r.crc, z.j + 1, TRUE)
      <4>1. /\ data'[1].byte = item.byte /\ data'[1].crc = item.crc /\ data'[1].escape = FALSE
        BY <1>3, <3>1 DEF WireItem
      <4> QED
        <5>1. z.j + 1 \in Nat /\ z.j + 1 > z.j
          BY <1>15
        <5>2. ByteAt(p, r.crc, z.j + 1) = ByteAt(p, z.crc, z.j + 1)
          BY <1>9, <1>12, <5>1
        <5> QED
          BY <1>4, <4>1, <5>2 DEF ItemLeft
    <3>4. ASSUME NEW i \in 2 .. Len(data)
          PROVE  ItemLeft(data'[i], p, r.crc, z.j + i, FALSE)
      <4>1. ItemLeft(data[i], p, z.crc, z.j + i, i = 1 /\ z.half) /\ z.j + i <= last /\ z.j + i \in Nat /\ z.j + i > z.j
        BY <1>15 DEF Rest, p
      <4>2. (i = 1 /\ z.half) = FALSE
        OBVIOUS
      <4> QED
        BY <1>12, <3>1, <4>1, <4>2 DEF ItemLeft
    <3>5. ASSUME NEW i \in 1 .. Len(data')
          PROVE  ItemLeft(data'[i], p, r.crc, r.j + i, i = 1 /\ r.half)
      <4>1. CASE i = 1
        <5>1. (i = 1 /\ r.half) = TRUE
          BY <3>2, <4>1
        <5> QED
          BY <3>2, <3>3, <4>1, <5>1
      <4>2. CASE i # 1
        <5>1. (i = 1 /\ r.half) = FALSE /\ i \in 2 .. Len(data)
          BY <3>1, <4>2
        <5> QED
          BY <3>2, <3>4, <5>1
      <4> QED
        BY <4>1, <4>2
    <3> QED
      BY <1>2, <1>3, <1>6, <1>8, <3>1, <3>2, <3>5 DEF Rest, p
  <2>2. CASE ~half
    <3>1. /\ Len(data') = Len(data) - 1
          /\ \A i \in 1 .. Len(data) - 1 : data'[i] = data[i + 1]
      BY <1>2, <1>7, <2>2
    <3>2. r.j = z.j + 1 /\ ~r.half
      BY <1>6, <2>2
    <3>3. ASSUME NEW i \in 1 .. Len(data')
          PROVE  ItemLeft(data'[i], p, r.crc, r.j + i, i = 1 /\ r.half)
      <4>1. i + 1 \in 1 .. Len(data) /\ z.j + (i + 1) <= last /\ z.j + (i + 1) \in Nat /\ z.j + (i + 1) > z.j
            /\ r.j + i = z.j + (i + 1) /\ data'[i] = data[i + 1]
        <5>1. r.j = z.j + 1
          BY <3>2
        <5>2. i \in 1 .. Len(data) - 1
          BY <3>1
        <5>3. i + 1 \in 1 .. Len(data) /\ i \in Nat
          BY <1>15, <5>2
        <5>4. z.j + (i + 1) <= last /\ z.j + (i + 1) \in Nat /\ z.j + (i + 1) > z.j
          BY <1>15, <5>3
        <5>5. r.j + i = z.j + (i + 1)
          BY <1>15, <5>1, <5>3
        <5> QED
          BY <3>1, <5>2, <5>3, <5>4, <5>5
      <4>2. ItemLeft(data[i + 1], p, z.crc, z.j + (i + 1), i + 1 = 1 /\ z.half)
        BY <4>1 DEF Rest, p
      <4>3. (i + 1 = 1 /\ z.half) = FALSE /\ (i = 1 /\ r.half) = FALSE
        BY <3>1, <3>2, <1>3
      <4> QED
        BY <1>12, <4>1, <4>2, <4>3 DEF ItemLeft
    <3> QED
      BY <1>2, <1>3, <1>6, <1>8, <3>1, <3>2, <3>3 DEF Rest, p
  <2> QED
    BY <2>1, <2>2
<1> QED
  BY <1>6, <1>11, <1>13, <1>14 DEF item

(* The first byte of a packet. *)
LEMMA FirstByte ==
  ASSUME TypeOK, TypeOK', NEW z, PositionOK(sent, z), Len(sent) > 0, ~sent[Len(sent)].finished,
         NotBegun(z), Unfinished(sent, z, Len(sent) + 1), WriteAndCrc,
         fstate = "kReset" => Early(z)
  PROVE  \E r : /\ PositionOK(sent, r) /\ Starts(sent, z, Head(data).byte, r)
                /\ Current(r) /\ Rest(r, 6)'
<1> DEFINE p == Payload(sent, Len(sent))
           item == Head(data)
           first == IF fstate = "kReset" THEN 0 ELSE 1
<1>1. Len(sent) \in Nat /\ Len(sent) \in 1 .. Len(sent) /\ p \in Seq(Byte) /\ Len(p) \in Nat
  <2>1. Len(sent) \in Nat
    BY DEF TypeOK, HistoryTypeOK
  <2> QED
    BY <2>1, PacketAt
<1>2. /\ data \in Seq(WireItem) /\ data # <<>> /\ fcrc \in Crc /\ fcrc' \in Crc /\ sent' = sent
      /\ Len(data) \in Nat /\ Len(data) > 0 /\ item = data[1]
  BY DEF TypeOK, FramerTypeOK, WriteAndCrc
<1>3. first \in 0 .. 1 /\ (first = 1 => ~Odd(z)) /\ fcrc = CrcInit /\ z.k < Len(sent)
      /\ Len(data) = 7 - first
  BY DEF NotBegun
<1>4. \A i \in 1 .. Len(data) : ItemLeft(data[i], p, CrcInit, first + i - 1, FALSE)
  BY DEF NotBegun
<1>5. item.byte = ByteAt(p, CrcInit, first) /\ ~item.escape /\ (item.crc <=> first = 1)
  <2>1. ItemLeft(data[1], p, CrcInit, first + 1 - 1, FALSE) /\ first + 1 - 1 = first
    <3>1. 1 \in 1 .. Len(data)
      BY <1>2
    <3>2. first + 1 - 1 = first
      BY <1>3
    <3> QED
      BY <1>4, <3>1, <3>2
  <2>2. Summed(p, first) <=> first = 1
    BY <1>1, <1>3 DEF Summed
  <2>3. ~(first > 2)
    BY <1>3
  <2>4. item.escape = (first > 2 /\ ~FALSE) /\ item.crc = Summed(p, first)
        /\ item.byte = ByteAt(p, CrcInit, first)
    BY <1>2, <2>1 DEF ItemLeft
  <2> QED
    BY <2>2, <2>3, <2>4
<1>6. /\ fcrc' = IF first = 1 THEN UpdateCrc(CrcInit, kEscapeStart) ELSE CrcInit
      /\ data' = Tail(data)
      /\ item.byte = IF first = 1 THEN kEscapeStart ELSE kEscapeNop
  <2>1. item.byte = IF first = 1 THEN kEscapeStart ELSE kEscapeNop
    BY <1>3, <1>5 DEF ByteAt
  <2>2. fcrc' = (IF item.crc THEN UpdateCrc(fcrc, item.byte) ELSE fcrc)
        /\ (~item.escape => data' = Tail(data))
    BY DEF WriteAndCrc
  <2> QED
    BY <1>3, <1>5, <2>1, <2>2
<1> HIDE DEF item, p, first
<1>7. PICK r : r = [k |-> Len(sent), j |-> first, half |-> FALSE, crc |-> fcrc']
  OBVIOUS
<1>8. r \in Position /\ r.k = Len(sent) /\ r.j = first /\ r.half = FALSE /\ r.crc = fcrc'
  BY <1>1, <1>2, <1>3, <1>7 DEF Position
<1>9. PositionOK(sent, r)
  BY <1>1, <1>3, <1>6, <1>8 DEF PositionOK, LastItem, p
<1>13. first = 0 => Early(z)
  BY DEF first
<1>10. Starts(sent, z, item.byte, r)
  <2>1. Unfinished(sent, z, r.k)
    <3>1. \A i \in z.k .. r.k - 1 : i \in z.k .. (Len(sent) + 1) - 1
      BY <1>1, <1>8, <1>3 DEF PositionOK
    <3> QED
      BY <3>1 DEF Unfinished
  <2> QED
    BY <1>3, <1>6, <1>8, <1>13, <2>1 DEF Starts
<1>11. Current(r)
  BY <1>1, <1>8 DEF Current
<1>12. Rest(r, 6)'
  <2>1. Len(data') = Len(data) - 1 /\ \A i \in 1 .. Len(data') : data'[i] = data[i + 1]
    BY <1>2, <1>6
  <2>2. ASSUME NEW i \in 1 .. Len(data')
        PROVE  ItemLeft(data'[i], p, r.crc, r.j + i, i = 1 /\ r.half)
    <3>1. i + 1 \in 1 .. Len(data) /\ first + (i + 1) - 1 = r.j + i /\ r.j + i \in Nat /\ r.j + i <= 6
      BY <1>2, <1>3, <1>8, <2>1
    <3>2. ItemLeft(data[i + 1], p, CrcInit, r.j + i, FALSE)
      BY <1>4, <3>1
    <3>3. ByteAt(p, r.crc, r.j + i) = ByteAt(p, CrcInit, r.j + i)
      <4>1. r.j + i <= 6 + Len(p)
        BY <1>1, <3>1
      <4> QED
        BY <1>1, <3>1, <4>1, SameByte
    <3>4. (i = 1 /\ r.half) = FALSE
      BY <1>8
    <3> QED
      BY <2>1, <3>2, <3>3, <3>4 DEF ItemLeft
  <2> QED
    BY <1>2, <1>3, <1>8, <2>1, <2>2 DEF Rest, p
<1> QED
  BY <1>9, <1>10, <1>11, <1>12 DEF item

-----------------------------------------------------------------------------
(* What a step of the sender does to the stream and to the place it ends.   *)
Silent(z) == wire' = wire /\ SenderAt(z)'
Sends(z) ==
  \E b \in Byte : \E r : /\ wire' = Append(wire, b) /\ sent' = sent
                         /\ PositionOK(sent, r) /\ Hop(sent, z, b, r) /\ SenderAt(r)'

LEMMA WriteSends ==
  ASSUME IInv, IInv', Steady, NEW z, PositionOK(sent, z), SenderAt(z), WriteAndCrc
  PROVE  Sends(z)
<1>0. TypeOK /\ TypeOK'
  BY DEF IInv
<1>1. /\ wire' = Append(wire, Head(data).byte) /\ Head(data).byte \in Byte /\ data # <<>>
      /\ UNCHANGED <<fstate, fremaining, call, pending, sent>>
      /\ call \in FramerCall
  <2>1. Head(data) \in WireItem
    BY <1>0 DEF TypeOK, FramerTypeOK, WriteAndCrc
  <2> QED
    BY <1>0, <2>1 DEF WriteAndCrc, WireItem, TypeOK, FramerTypeOK
<1> SUFFICES \E r : PositionOK(sent, r) /\ Hop(sent, z, Head(data).byte, r) /\ SenderAt(r)'
  BY <1>1 DEF Sends
<1>2. Unfinished(sent, z, Len(sent) + 1) /\ call # "none"
  BY <1>1 DEF SenderAt, NoCallAt
<1>3. ASSUME NEW r, Current(r), PositionOK(sent, r) PROVE Unfinished(sent, r, Len(sent) + 1)'
  <2>1. ASSUME NEW i \in r.k .. (Len(sent) + 1) - 1 PROVE i = Len(sent)
    BY <1>3, <1>0 DEF Current, TypeOK, HistoryTypeOK
  <2>2. \A i \in r.k .. (Len(sent) + 1) - 1 : ~sent[i].finished
    BY <1>3, <2>1 DEF Current
  <2> QED
    BY <1>1, <2>2 DEF Unfinished
<1>4. ASSUME Current(z), NEW last \in Nat, Rest(z, last), last <= LastItem(Payload(sent, z.k)),
             last <= 6 + Len(Payload(sent, z.k)) \/ z.j >= 6 + Len(Payload(sent, z.k))
      PROVE  \E r : /\ PositionOK(sent, r) /\ Hop(sent, z, Head(data).byte, r)
                    /\ r.k = z.k /\ r.j >= z.j /\ Rest(r, last)' /\ Current(r)
                    /\ Unfinished(sent, r, Len(sent) + 1)'
  <2>1. PICK r : /\ PositionOK(sent, r) /\ Within(sent, z, Head(data).byte, r)
                 /\ r.k = z.k /\ r.j >= z.j /\ Rest(r, last)'
    BY <1>0, <1>4, NextByte
  <2>2. Current(r)
    BY <1>4, <2>1 DEF Current
  <2> QED
    BY <1>3, <2>1, <2>2 DEF Hop
<1>5. ASSUME Current(z)
      PROVE  z.k \in 1 .. Len(sent) /\ Len(Payload(sent, z.k)) \in Nat /\ z.j \in Nat
             /\ Len(data) \in Nat /\ Len(data') \in Nat
  <2>1. z.k \in 1 .. Len(sent)
    BY <1>5 DEF Current, PositionOK, Position
  <2> QED
    BY <1>0, <2>1, PacketAt DEF PositionOK, Position, TypeOK, FramerTypeOK
<1>6. CASE call = "StartPacket"
  <2>1. StartPacketAt(z)
    BY <1>6 DEF SenderAt
  <2>2. ASSUME NEW r, Current(r), Rest(r, 6)', Unfinished(sent, r, Len(sent) + 1)'
        PROVE  SenderAt(r)'
    <3>1. Current(r)'
      BY <1>1, <2>2 DEF Current
    <3>2. StartPacketAt(r)'
      BY <1>1, <2>1, <2>2, <3>1 DEF StartPacketAt, Payload
    <3> QED
      BY <1>1, <1>6, <2>2, <3>2 DEF SenderAt
  <2>3. CASE NotBegun(z)
    <3>2. fstate = "kReset" => Early(z)
      <4>1. z.k \in Nat /\ z.k < Len(sent) /\ Len(sent) \in Nat
        BY <1>0, <2>3 DEF NotBegun, PositionOK, Position, TypeOK, HistoryTypeOK
      <4> QED
        BY <4>1 DEF Steady, Early
    <3>1. PICK r : /\ PositionOK(sent, r) /\ Starts(sent, z, Head(data).byte, r)
                   /\ Current(r) /\ Rest(r, 6)'
      BY <1>0, <1>2, <2>1, <2>3, <3>2, FirstByte DEF StartPacketAt
    <3> QED
      BY <1>3, <2>2, <3>1 DEF Hop
  <2>4. CASE Current(z) /\ Rest(z, 6)
    <3>1. 6 \in Nat /\ 6 <= LastItem(Payload(sent, z.k)) /\ 6 <= 6 + Len(Payload(sent, z.k))
      BY <1>5, <2>4 DEF LastItem
    <3>2. PICK r : /\ PositionOK(sent, r) /\ Hop(sent, z, Head(data).byte, r)
                   /\ Rest(r, 6)' /\ Current(r) /\ Unfinished(sent, r, Len(sent) + 1)'
      BY <1>4, <2>4, <3>1
    <3> QED
      BY <2>2, <3>2
  <2> QED
    BY <2>1, <2>3, <2>4 DEF StartPacketAt
<1>7. CASE call = "WritePayloadChunk"
  <2> DEFINE last == z.j + Len(data)
  <2>1. WritePayloadChunkAt(z) /\ Current(z)
    BY <1>7 DEF SenderAt, WritePayloadChunkAt
  <2>2. last \in Nat /\ last <= 6 + Len(Payload(sent, z.k)) /\ last <= LastItem(Payload(sent, z.k))
        /\ Rest(z, last)
    <3>1. last + fremaining = 6 + Len(Payload(sent, z.k)) /\ fremaining \in Nat
      BY <1>0, <2>1 DEF WritePayloadChunkAt, Left, TypeOK, FramerTypeOK
    <3>2. Rest(z, last)
      BY <2>1 DEF WritePayloadChunkAt
    <3> QED
      BY <1>5, <2>1, <3>1, <3>2 DEF LastItem
  <2>3. PICK l : l = last
    OBVIOUS
  <2>4. PICK r : /\ PositionOK(sent, r) /\ Hop(sent, z, Head(data).byte, r)
                 /\ r.k = z.k /\ r.j >= z.j /\ Rest(r, l)' /\ Current(r)
                 /\ Unfinished(sent, r, Len(sent) + 1)'
    <3>1. l \in Nat /\ Rest(z, l) /\ l <= LastItem(Payload(sent, z.k)) /\ l <= 6 + Len(Payload(sent, z.k))
      BY <2>2, <2>3
    <3> QED
      BY <1>4, <2>1, <3>1
  <2>5. WritePayloadChunkAt(r)'
    <3>1. Current(r)' /\ fstate' = "kTransmitPacketPayload"
      BY <1>1, <2>1, <2>4 DEF Current, WritePayloadChunkAt
    <3>2. r.j >= 6
      <4>1. z.j >= 6 /\ z.j \in Nat /\ r.j \in Nat
        BY <1>5, <2>1, <2>4 DEF WritePayloadChunkAt, PositionOK, Position
      <4> QED
        BY <2>4, <4>1
    <3>3. (r.j + Len(data))' = l
      BY <2>4 DEF Rest
    <3>4. Left(z, l)
      BY <2>1, <2>3 DEF WritePayloadChunkAt
    <3>5. Left(r, l)'
      BY <1>1, <2>4, <3>4 DEF Left, Payload
    <3>6. Rest(r, r.j + Len(data))' /\ Left(r, r.j + Len(data))'
      BY <2>4, <3>3, <3>5 DEF Rest, Left
    <3> QED
      BY <3>1, <3>2, <3>6 DEF WritePayloadChunkAt
  <2>6. SenderAt(r)'
    BY <1>1, <1>7, <2>4, <2>5 DEF SenderAt
  <2> QED
    BY <2>4, <2>6
<1>8. CASE call = "FinishPacket"
  <2>1. FinishPacketAt(z) /\ Current(z)
    BY <1>8 DEF SenderAt, FinishPacketAt
  <2>2. PICK l : l = LastItem(Payload(sent, z.k))
    OBVIOUS
  <2>3. l \in Nat /\ Rest(z, l) /\ z.j >= 6 + Len(Payload(sent, z.k))
    BY <1>5, <2>1, <2>2 DEF FinishPacketAt, LastItem
  <2>4. PICK r : /\ PositionOK(sent, r) /\ Hop(sent, z, Head(data).byte, r)
                 /\ r.k = z.k /\ r.j >= z.j /\ Rest(r, l)' /\ Current(r)
                 /\ Unfinished(sent, r, Len(sent) + 1)'
    <3>1. l <= LastItem(Payload(sent, z.k))
      BY <2>2, <2>3
    <3> QED
      BY <1>4, <2>1, <2>3, <3>1
  <2>5. FinishPacketAt(r)'
    <3>1. Current(r)' /\ fstate' = "kTransmitPacketPayload"
      BY <1>1, <2>1, <2>4 DEF Current, FinishPacketAt
    <3>2. r.j >= 6 + Len(Payload(sent, z.k))
      <4>1. z.j \in Nat /\ r.j \in Nat
        BY <1>5, <2>1, <2>4 DEF PositionOK, Position
      <4> QED
        BY <1>5, <2>1, <2>3, <2>4, <4>1
    <3>3. Payload(sent', r.k) = Payload(sent, z.k)
      BY <1>1, <2>4
    <3>4. Rest(r, LastItem(Payload(sent, r.k)))'
      BY <2>2, <2>4, <3>3 DEF Rest
    <3> QED
      BY <3>1, <3>2, <3>3, <3>4 DEF FinishPacketAt
  <2>6. SenderAt(r)'
    BY <1>1, <1>8, <2>4, <2>5 DEF SenderAt
  <2> QED
    BY <2>4, <2>6
<1> QED
  BY <1>1, <1>2, <1>6, <1>7, <1>8 DEF FramerCall
-----------------------------------------------------------------------------
(* The bytes behind byte m of a packet, and how they are written; items for *)
(* them.                                                                    *)
BytesBehind(bytes, escape, crc, p, c, m) ==
  \A i \in 1 .. Len(bytes) : /\ bytes[i] = ByteAt(p, c, m + i)
                             /\ escape <=> m + i > 2
                             /\ crc <=> Summed(p, m + i)
ItemsBehind(items, n, p, c, m) ==
  /\ items \in Seq(WireItem) /\ Len(items) = n
  /\ \A i \in 1 .. n : ItemLeft(items[i], p, c, m + i, FALSE)

LEMMA ItemsAt ==
  ASSUME NEW bytes \in Seq(Byte), NEW escape \in BOOLEAN, NEW crc \in BOOLEAN, NEW p, NEW c, NEW m \in Nat,
         BytesBehind(bytes, escape, crc, p, c, m)
  PROVE  ItemsBehind(Items(bytes, escape, crc), Len(bytes), p, c, m)
<1>0. \A i \in 1 .. Len(bytes) : /\ bytes[i] = ByteAt(p, c, m + i)
                                 /\ escape <=> m + i > 2
                                 /\ crc <=> Summed(p, m + i)
  BY DEF BytesBehind
<1>1. Items(bytes, escape, crc) \in Seq(WireItem) /\ Len(bytes) \in Nat
  BY ItemsType
<1>2. Len(Items(bytes, escape, crc)) = Len(bytes)
  BY <1>1 DEF Items
<1>3. ASSUME NEW i \in 1 .. Len(bytes) PROVE ItemLeft(Items(bytes, escape, crc)[i], p, c, m + i, FALSE)
  <2>1. Items(bytes, escape, crc)[i] = [byte |-> bytes[i], escape |-> escape, crc |-> crc]
    BY DEF Items
  <2>2. escape = (m + i > 2 /\ ~FALSE)
    <3>1. escape <=> m + i > 2
      BY <1>0
    <3> QED
      BY <3>1, Zenon
  <2>3. crc = Summed(p, m + i)
    <3>1. crc <=> Summed(p, m + i)
      BY <1>0
    <3>2. Summed(p, m + i) \in BOOLEAN
      BY DEF Summed
    <3>3. CASE crc
      BY <3>1, <3>2, <3>3
    <3>4. CASE ~crc
      BY <3>1, <3>2, <3>4
    <3> QED
      BY <3>3, <3>4
  <2>4. bytes[i] = ByteAt(p, c, m + i)
    BY <1>0
  <2> QED
    BY <2>1, <2>2, <2>3, <2>4 DEF ItemLeft
<1> QED
  BY <1>1, <1>2, <1>3 DEF ItemsBehind

LEMMA Joined ==
  ASSUME NEW S, NEW a \in Seq(S), NEW b \in Seq(S)
  PROVE  /\ a \o b \in Seq(S) /\ Len(a) \in Nat /\ Len(b) \in Nat /\ Len(a \o b) = Len(a) + Len(b)
         /\ \A i \in 1 .. Len(a) : (a \o b)[i] = a[i]
         /\ \A i \in 1 .. Len(b) : (a \o b)[Len(a) + i] = b[i]
OBVIOUS

LEMMA ItemsJoined ==
  ASSUME NEW p, NEW c, NEW m \in Nat, NEW a \in Seq(WireItem), NEW b \in Seq(WireItem),
         \A i \in 1 .. Len(a) : ItemLeft(a[i], p, c, m + i, FALSE),
         \A i \in 1 .. Len(b) : ItemLeft(b[i], p, c, (m + Len(a)) + i, FALSE)
  PROVE  /\ a \o b \in Seq(WireItem) /\ Len(a \o b) = Len(a) + Len(b)
         /\ \A i \in 1 .. Len(a \o b) : ItemLeft((a \o b)[i], p, c, m + i, FALSE)
<1> DEFINE d == a \o b
<1>1. /\ d \in Seq(WireItem) /\ Len(a) \in Nat /\ Len(b) \in Nat /\ Len(d) = Len(a) + Len(b)
      /\ \A i \in 1 .. Len(a) : d[i] = a[i]
      /\ \A i \in 1 .. Len(b) : d[Len(a) + i] = b[i]
  BY Joined
<1> HIDE DEF d
<1>2. ASSUME NEW i \in 1 .. Len(d) PROVE ItemLeft(d[i], p, c, m + i, FALSE)
  <2>1. CASE i <= Len(a)
    <3>1. i \in 1 .. Len(a)
      BY <1>1, <2>1
    <3> QED
      BY <1>1, <3>1
  <2>2. CASE i > Len(a)
    <3>1. i - Len(a) \in 1 .. Len(b) /\ Len(a) + (i - Len(a)) = i
          /\ (m + Len(a)) + (i - Len(a)) = m + i
      BY <1>1, <2>2
    <3>2. d[i] = b[i - Len(a)] /\ ItemLeft(b[i - Len(a)], p, c, (m + Len(a)) + (i - Len(a)), FALSE)
      BY <1>1, <3>1
    <3> QED
      BY <3>1, <3>2
  <2>3. i <= Len(a) \/ i > Len(a)
    BY <1>1
  <2> QED
    BY <2>1, <2>2, <2>3
<1> QED
  BY <1>1, <1>2 DEF d

LEMMA StartPacketItems ==
  ASSUME NEW p \in Seq(Byte), NEW c
  PROVE  LET b == Items(<<kEscapeStart, kPacketStart>>, FALSE, TRUE)
             l == Items(LengthField(Len(p)), TRUE, TRUE)
             n == Items(<<kEscapeNop>>, FALSE, FALSE)
             e == Items(<<>>, FALSE, FALSE)
         IN  /\ Len(e \o b \o l) = 6
             /\ \A i \in 1 .. 6 : ItemLeft((e \o b \o l)[i], p, c, i, FALSE)
             /\ Len(n \o b \o l) = 7
             /\ \A i \in 1 .. 7 : ItemLeft((n \o b \o l)[i], p, c, i - 1, FALSE)
<1> DEFINE b == Items(<<kEscapeStart, kPacketStart>>, FALSE, TRUE)
           l == Items(LengthField(Len(p)), TRUE, TRUE)
           n == Items(<<kEscapeNop>>, FALSE, FALSE)
           e == Items(<<>>, FALSE, FALSE)
<1>0. Len(p) \in Nat
  OBVIOUS
<1>1. /\ b \in Seq(WireItem) /\ Len(b) = 2
      /\ \A i \in 1 .. 2 : ItemLeft(b[i], p, c, 0 + i, FALSE)
  <2> DEFINE bytes == <<kEscapeStart, kPacketStart>>
  <2>1. bytes \in Seq(Byte) /\ Len(bytes) = 2 /\ bytes[1] = kEscapeStart /\ bytes[2] = kPacketStart
    BY EscapeCodesAreBytes
  <2>2. b = Items(bytes, FALSE, TRUE)
    OBVIOUS
  <2> HIDE DEF bytes, b
  <2>3. ASSUME NEW i \in 1 .. Len(bytes)
        PROVE  /\ bytes[i] = ByteAt(p, c, 0 + i)
               /\ FALSE <=> 0 + i > 2
               /\ TRUE <=> Summed(p, 0 + i)
    <3>1. i = 1 \/ i = 2
      BY <2>1
    <3>2. ByteAt(p, c, 1) = kEscapeStart /\ ByteAt(p, c, 2) = kPacketStart
          /\ Summed(p, 1) /\ Summed(p, 2)
      BY <1>0 DEF ByteAt, Summed
    <3>3. 0 + i = i /\ ~(i > 2)
      BY <3>1
    <3> QED
      BY <2>1, <3>1, <3>2, <3>3
  <2>4. BytesBehind(bytes, FALSE, TRUE, p, c, 0)
    BY <2>3 DEF BytesBehind
  <2>5. ItemsBehind(b, 2, p, c, 0)
    BY <2>1, <2>2, <2>4, ItemsAt
  <2> QED
    BY <2>5 DEF ItemsBehind
<1>2. /\ l \in Seq(WireItem) /\ Len(l) = 4
      /\ \A i \in 1 .. 4 : ItemLeft(l[i], p, c, 2 + i, FALSE)
  <2> DEFINE bytes == LengthField(Len(p))
  <2>1. bytes \in Seq(Byte) /\ Len(bytes) = 4
    BY <1>0, LengthFieldType DEF LengthField
  <2>2. l = Items(bytes, TRUE, TRUE)
    OBVIOUS
  <2> HIDE DEF l
  <2>3. ASSUME NEW i \in 1 .. Len(bytes)
        PROVE  /\ bytes[i] = ByteAt(p, c, 2 + i)
               /\ TRUE <=> 2 + i > 2
               /\ TRUE <=> Summed(p, 2 + i)
    <3>1. 2 + i # 0 /\ 2 + i # 1 /\ 2 + i # 2 /\ 2 + i <= 6 /\ (2 + i) - 2 = i /\ 2 + i > 2 /\ 2 + i > 0
          /\ 2 + i <= 6 + Len(p)
      BY <1>0, <2>1
    <3> QED
      BY <3>1 DEF ByteAt, Summed
  <2> HIDE DEF bytes
  <2>4. BytesBehind(bytes, TRUE, TRUE, p, c, 2)
    BY <2>3 DEF BytesBehind
  <2>5. ItemsBehind(l, 4, p, c, 2)
    BY <2>1, <2>2, <2>4, ItemsAt
  <2> QED
    BY <2>5 DEF ItemsBehind
<1>3. n \in Seq(WireItem) /\ Len(n) = 1 /\ ItemLeft(n[1], p, c, 0, FALSE)
  <2> DEFINE bytes == <<kEscapeNop>>
  <2>1. bytes \in Seq(Byte) /\ Len(bytes) = 1 /\ bytes[1] = kEscapeNop
    BY EscapeCodesAreBytes
  <2>2. n = Items(bytes, FALSE, FALSE)
    OBVIOUS
  <2> HIDE DEF bytes, n
  <2>3. n \in Seq(WireItem)
    BY <2>1, <2>2, ItemsType
  <2>4. n = [i \in 1 .. 1 |-> [byte |-> bytes[i], escape |-> FALSE, crc |-> FALSE]]
    BY <2>1, <2>2 DEF Items
  <2>5. Len(n) = 1 /\ n[1].byte = kEscapeNop /\ n[1].escape = FALSE /\ n[1].crc = FALSE
    BY <2>1, <2>3, <2>4
  <2>6. ByteAt(p, c, 0) = kEscapeNop /\ ~Summed(p, 0) /\ ~(0 > 2)
    BY DEF ByteAt, Summed
  <2> QED
    BY <2>3, <2>5, <2>6 DEF ItemLeft, Summed
<1>4. e = <<>>
  BY DEF Items
<1> HIDE DEF b, l, n, e
<1>5. /\ b \o l \in Seq(WireItem) /\ Len(b \o l) = 6
      /\ \A i \in 1 .. 6 : ItemLeft((b \o l)[i], p, c, 0 + i, FALSE)
  <2>1. \A i \in 1 .. Len(l) : ItemLeft(l[i], p, c, (0 + Len(b)) + i, FALSE)
    <3>1. \A i \in 1 .. 4 : (0 + Len(b)) + i = 2 + i
      BY <1>1
    <3> QED
      BY <1>2, <3>1
  <2>2. \A i \in 1 .. Len(b) : ItemLeft(b[i], p, c, 0 + i, FALSE)
    BY <1>1
  <2>3. Len(b) + Len(l) = 6
    BY <1>1, <1>2
  <2>4. /\ b \o l \in Seq(WireItem) /\ Len(b \o l) = Len(b) + Len(l)
        /\ \A i \in 1 .. Len(b \o l) : ItemLeft((b \o l)[i], p, c, 0 + i, FALSE)
    <3>1. 0 \in Nat /\ b \in Seq(WireItem) /\ l \in Seq(WireItem)
      BY <1>1, <1>2
    <3> QED
      BY <2>1, <2>2, <3>1, ItemsJoined
  <2> QED
    BY <2>3, <2>4
<1>6. e \o b \o l = b \o l /\ n \o b \o l = n \o (b \o l)
  BY <1>1, <1>2, <1>3, <1>4
<1>7. \A i \in 1 .. 6 : 0 + i = i
  OBVIOUS
<1>8. /\ Len(n \o (b \o l)) = 7
      /\ \A i \in 1 .. 7 : ItemLeft((n \o (b \o l))[i], p, c, i - 1, FALSE)
  <2>1. /\ Len(n \o (b \o l)) = 7 /\ (n \o (b \o l))[1] = n[1]
        /\ \A i \in 1 .. 6 : (n \o (b \o l))[1 + i] = (b \o l)[i]
    <3> DEFINE r == b \o l
    <3>1. r \in Seq(WireItem) /\ Len(r) = 6
      BY <1>5
    <3> HIDE DEF r
    <3>5. n \in Seq(WireItem)
      BY <1>3
    <3>6. r \in Seq(WireItem)
      BY <3>1
    <3>2. /\ Len(n \o r) = Len(n) + Len(r)
          /\ \A i \in 1 .. Len(n) : (n \o r)[i] = n[i]
          /\ \A i \in 1 .. Len(r) : (n \o r)[Len(n) + i] = r[i]
      BY <3>5, <3>6, Joined
    <3>3. 1 \in 1 .. Len(n) /\ Len(n) = 1 /\ Len(r) = 6
      BY <1>3, <3>1
    <3>4. Len(n \o r) = 7 /\ (n \o r)[1] = n[1]
      BY <3>2, <3>3
    <3>7. ASSUME NEW i \in 1 .. 6 PROVE (n \o r)[1 + i] = r[i]
      BY <3>2, <3>3
    <3> QED
      BY <3>4, <3>7 DEF r
  <2>2. ASSUME NEW i \in 1 .. 7 PROVE ItemLeft((n \o (b \o l))[i], p, c, i - 1, FALSE)
    <3>1. CASE i = 1
      <4>1. i - 1 = 0
        BY <3>1
      <4> QED
        BY <1>3, <2>1, <3>1, <4>1
    <3>2. CASE i # 1
      <4>1. i - 1 \in 1 .. 6 /\ 1 + (i - 1) = i /\ 0 + (i - 1) = i - 1
        BY <3>2
      <4>2. (n \o (b \o l))[i] = (b \o l)[i - 1] /\ ItemLeft((b \o l)[i - 1], p, c, 0 + (i - 1), FALSE)
        BY <1>5, <2>1, <4>1
      <4> QED
        BY <4>1, <4>2
    <3> QED
      BY <3>1, <3>2
  <2> QED
    BY <2>1, <2>2
<1> QED
  BY <1>5, <1>6, <1>7, <1>8 DEF b, l, n, e

(* What happens to the packets sent, for the paths. *)
LEMMA SentGrows ==
  ASSUME TypeOK, FramerNext
  PROVE  /\ Len(sent) \in Nat /\ Len(sent') \in Nat /\ Len(sent') >= Len(sent)
         /\ \A i \in 1 .. Len(sent) : sent'[i].payload = sent[i].payload
         /\ \A i \in 1 .. Len(sent) : i < Len(sent) => sent'[i].finished = sent[i].finished
<1>1. sent \in Seq(Packet) /\ Len(sent) \in Nat
  BY DEF TypeOK, HistoryTypeOK
<1>2. ASSUME NEW p \in Payloads, StartPacket(p)
      PROVE  Len(sent') = Len(sent) + 1 /\ \A i \in 1 .. Len(sent) : sent'[i] = sent[i]
  BY <1>1, <1>2 DEF StartPacket
<1>3. CASE FinishPacketDone
  <2>1. sent' = [sent EXCEPT ![Len(sent)].finished = TRUE]
    BY <1>3 DEF FinishPacketDone
  <2>2. Len(sent') = Len(sent)
    BY <1>1, <2>1
  <2>3. \A i \in 1 .. Len(sent) : i < Len(sent) => sent'[i] = sent[i]
    BY <1>1, <2>1
  <2>4. \A i \in 1 .. Len(sent) : sent'[i].payload = sent[i].payload
    <3>1. ASSUME NEW i \in 1 .. Len(sent) PROVE sent'[i].payload = sent[i].payload
      <4>1. sent[i] \in Packet
        BY <1>1
      <4>2. CASE i = Len(sent)
        <5>1. sent'[i] = [sent[i] EXCEPT !.finished = TRUE]
          <6>1. DOMAIN sent = 1 .. Len(sent)
            BY <1>1
          <6> QED
            BY <2>1, <4>2, <6>1, Zenon
        <5> QED
          BY <4>1, <5>1 DEF Packet
      <4>3. CASE i # Len(sent)
        BY <1>1, <2>3, <4>3
      <4> QED
        BY <4>2, <4>3
    <3> QED
      BY <3>1
  <2> QED
    BY <1>1, <2>2, <2>3, <2>4
<1>4. (\A p \in Payloads : ~StartPacket(p)) /\ ~FinishPacketDone => UNCHANGED sent
  BY DEF FramerNext, WritePayloadChunk, FinishPacket, WriteAndCrc, StartPacketDone,
         WritePayloadChunkDone, WriteError, SenderReset, PrintText
<1> QED
  BY <1>1, <1>2, <1>3, <1>4
-----------------------------------------------------------------------------
(* The Unframer at the place q of the stream up to which it has read.       *)
Delivered(p) == \E i \in DOMAIN delivered : delivered[i] = p

InLength(q) ==
  LET p == Payload(sent, q.k)
  IN  /\ ustate = "kFindPacketLength" /\ q.j < 6 /\ ucrc = q.crc /\ rx = <<>>
      /\ Len(buf) = q.j - 2
      /\ \A i \in 1 .. Len(buf) : buf[i] = LengthField(Len(p))[i]
InPayload(q) ==
  LET p == Payload(sent, q.k)
  IN  /\ ustate = "kFindPacketCrc" /\ q.j >= 6 /\ ucrc = q.crc
      /\ q.j < 6 + Len(p) \/ (q.j = 6 /\ Len(p) = 0)
      /\ uremaining = Len(p) - Len(rx) /\ Len(rx) + Len(buf) = q.j - 6
      /\ \A i \in 1 .. Len(rx) : rx[i] = p[i]
      /\ \A i \in 1 .. Len(buf) : buf[i] = p[Len(rx) + i]
InCrc(q) ==
  LET p == Payload(sent, q.k)
  IN  /\ ustate = "kFindCrcEnd" /\ q.j >= 6 + Len(p) /\ q.j < LastItem(p)
      /\ ucrc = q.crc /\ rx = p
      /\ Len(buf) = q.j - 6 - Len(p)
      /\ \A i \in 1 .. Len(buf) : buf[i] = q.crc[i]
Complete(q) ==
  Done(sent, q) /\ ustate = "kFindPacketStart" /\ Delivered(Payload(sent, q.k))

Parity(q) == ustate # "kFindPacketStart" => (sawEscape <=> Odd(q))
Found(q)  == ustate = "kFindPacketStart" /\ q.k > mayMiss /\ q.j = 1 => sawEscape
InStep(q) == q.k > mayMiss /\ q.j >= 2 =>
               InLength(q) \/ InPayload(q) \/ InCrc(q) \/ Complete(q)
Past(q)   == \A i \in mayMiss + 1 .. Len(sent) :
               i < q.k /\ sent[i].finished => Delivered(Payload(sent, i))

ReceiverAt(q) == Parity(q) /\ Found(q) /\ InStep(q) /\ Past(q)

(* Without resets, a packet in progress is one that was sent, and what was  *)
(* delivered lies behind the Unframer.                                      *)
NoResets == MaxSenderResets = 0 /\ MaxReceiverResets = 0
DeliveredBy(q) ==
  \A i \in DOMAIN delivered :
    \E k \in 1 .. q.k : Sent(k, delivered[i]) /\ (k = q.k => Done(sent, q))
Ordered(q) ==
  NoResets => /\ q.k = 0 => ustate = "kFindPacketStart"
              /\ DeliveredBy(q) /\ DeliveredInOrder

(* Every packet sent is one of the payloads, whose length is read back.     *)
SentPayloads == \A i \in 1 .. Len(sent) : sent[i].payload \in Payloads

PathInv ==
  /\ IInv /\ SentPayloads /\ Steady
  /\ \E Q, q, z : /\ Path(sent, Q, input \o wire) /\ Q[0] = q /\ Q[Len(input \o wire)] = z
                  /\ SenderAt(z) /\ ReceiverAt(q) /\ Ordered(q)
-----------------------------------------------------------------------------
(* The other steps of the sender. *)
LEMMA StartPacketMoves ==
  ASSUME IInv, NEW z, PositionOK(sent, z), SenderAt(z), NEW p \in Payloads, StartPacket(p)
  PROVE  Silent(z)
<1>1. /\ sent \in Seq(Packet) /\ Len(sent) \in Nat /\ p \in Seq(Byte)
      /\ call = "none" /\ call' = "StartPacket" /\ fcrc' = CrcInit /\ pending' = p
      /\ wire' = wire /\ fstate' = fstate
      /\ sent' = Append(sent, [payload |-> p, finished |-> FALSE])
  BY PayloadsAssumption DEF StartPacket, IInv, TypeOK, HistoryTypeOK
<1>2. /\ Len(sent') = Len(sent) + 1 /\ sent'[Len(sent) + 1] = [payload |-> p, finished |-> FALSE]
      /\ \A i \in 1 .. Len(sent) : sent'[i] = sent[i]
  BY <1>1
<1>3. /\ z.k \in 0 .. Len(sent) /\ Unfinished(sent, z, Len(sent) + 1)
      /\ fstate = "kReset" \/ ~Odd(z)
  BY <1>1 DEF PositionOK, SenderAt, NoCallAt
<1>4. Unfinished(sent, z, Len(sent) + 1)'
  <2>1. Done(sent, z) => Done(sent', z)
    BY <1>1, <1>2, <1>3 DEF Done, Payload
  <2>2. ASSUME NEW i \in z.k .. Len(sent) + 1, i > 0, sent'[i].finished
        PROVE  i = z.k /\ Done(sent', z)
    <3>1. i # Len(sent) + 1
      BY <1>2, <2>2
    <3>2. i \in 1 .. Len(sent) /\ i \in z.k .. (Len(sent) + 1) - 1
      BY <1>1, <1>3, <2>2, <3>1
    <3> QED
      BY <1>2, <1>3, <2>1, <2>2, <3>2 DEF Unfinished
  <2>3. (Len(sent') + 1) - 1 = Len(sent) + 1
    BY <1>1, <1>2
  <2> QED
    BY <2>2, <2>3 DEF Unfinished
<1>5. StartPacketAt(z)'
  <2>1. Len(sent') > 0 /\ ~sent'[Len(sent')].finished /\ pending' = Payload(sent', Len(sent'))
        /\ Payload(sent', Len(sent')) = p
    BY <1>1, <1>2 DEF Payload
  <2>2. PICK first : first = IF fstate = "kReset" THEN 0 ELSE 1
    OBVIOUS
  <2>3. Len(data') = 7 - first
        /\ \A i \in 1 .. 7 - first : ItemLeft(data'[i], p, CrcInit, first + i - 1, FALSE)
    <3>1. data' = Items(LeadIn, FALSE, FALSE)
                  \o Items(<<kEscapeStart, kPacketStart>>, FALSE, TRUE)
                  \o Items(LengthField(Len(p)), TRUE, TRUE)
      BY DEF StartPacket
    <3>2. CASE fstate = "kReset"
      <4>1. first = 0 /\ LeadIn = <<kEscapeNop>>
        BY <2>2, <3>2 DEF LeadIn
      <4>2. Len(data') = 7 /\ \A i \in 1 .. 7 : ItemLeft(data'[i], p, CrcInit, i - 1, FALSE)
        BY <1>1, <3>1, <4>1, StartPacketItems
      <4>3. 7 - first = 7 /\ \A i \in 1 .. 7 : first + i - 1 = i - 1
        BY <4>1
      <4> QED
        BY <4>2, <4>3
    <3>3. CASE fstate # "kReset"
      <4>1. first = 1 /\ LeadIn = <<>>
        BY <2>2, <3>3 DEF LeadIn
      <4>2. Len(data') = 6 /\ \A i \in 1 .. 6 : ItemLeft(data'[i], p, CrcInit, i, FALSE)
        BY <1>1, <3>1, <4>1, StartPacketItems
      <4>3. 7 - first = 6 /\ \A i \in 1 .. 6 : first + i - 1 = i
        BY <4>1
      <4> QED
        BY <4>2, <4>3
    <3> QED
      BY <3>2, <3>3
  <2>4. z.k < Len(sent')
    BY <1>1, <1>2, <1>3
  <2>5. NotBegun(z)'
    BY <1>1, <1>3, <2>1, <2>2, <2>3, <2>4 DEF NotBegun
  <2> QED
    BY <2>1, <2>5 DEF StartPacketAt
<1> QED
  BY <1>1, <1>4, <1>5 DEF Silent, SenderAt

(* Between two calls on a packet that is not finished. *)
LEMMA InPacketAt ==
  ASSUME IInv, NEW z, PositionOK(sent, z), SenderAt(z), call = "none",
         fstate = "kTransmitPacketPayload"
  PROVE  LET p == Payload(sent, z.k)
         IN  /\ Current(z) /\ ~z.half /\ ~Odd(z) /\ fcrc = z.crc /\ z.crc \in Crc /\ Left(z, z.j)
             /\ z.j \in Nat /\ z.j >= 6 /\ z.k \in 1 .. Len(sent) /\ p \in Seq(Byte) /\ Len(p) \in Nat
             /\ fremaining \in Nat /\ pending \in Seq(Byte) /\ z.j + fremaining = 6 + Len(p)
<1>1. /\ Current(z) /\ ~Odd(z) /\ fcrc = z.crc /\ Left(z, z.j) /\ z.j >= 6
      /\ z \in Position /\ z.k \in 0 .. Len(sent)
  BY DEF SenderAt, NoCallAt, PositionOK
<1>2. z.k \in 1 .. Len(sent) /\ z.j \in Nat /\ ~z.half /\ z.crc \in Crc
  BY <1>1 DEF Current, Odd, Position
<1>3. Payload(sent, z.k) \in Seq(Byte) /\ fremaining \in Nat /\ pending \in Seq(Byte)
  BY <1>2, PacketAt DEF IInv, TypeOK, FramerTypeOK
<1> QED
  BY <1>1, <1>2, <1>3 DEF Left

LEMMA WritePayloadChunkMoves ==
  ASSUME IInv, NEW z, PositionOK(sent, z), SenderAt(z),
         NEW n \in 1 .. Len(pending), WritePayloadChunk(n)
  PROVE  Silent(z)
<1> DEFINE p == Payload(sent, z.k)
           bytes == SubSeq(pending, 1, n)
<1>1. /\ call = "none" /\ call' = "WritePayloadChunk" /\ n <= fremaining
      /\ fstate = "kTransmitPacketPayload" /\ UNCHANGED <<fstate, fcrc, wire, sent>>
      /\ data' = Items(bytes, TRUE, TRUE) /\ pending' = SubSeq(pending, n + 1, Len(pending))
      /\ fremaining' = fremaining - n
  BY DEF WritePayloadChunk
<1>2. /\ Current(z) /\ ~z.half /\ fcrc = z.crc /\ Left(z, z.j)
      /\ z.j \in Nat /\ z.j >= 6 /\ p \in Seq(Byte) /\ Len(p) \in Nat
      /\ fremaining \in Nat /\ pending \in Seq(Byte) /\ z.j + fremaining = 6 + Len(p)
  BY <1>1, InPacketAt
<1>3. Len(pending) = fremaining /\ \A i \in 1 .. fremaining : pending[i] = p[z.j - 6 + i]
  BY <1>2 DEF Left
<1>4. /\ bytes \in Seq(Byte) /\ Len(bytes) = n
      /\ \A i \in 1 .. n : bytes[i] = pending[i]
  BY <1>2
<1>5. /\ Len(pending') = fremaining - n
      /\ \A i \in 1 .. fremaining - n : pending'[i] = pending[n + i]
  BY <1>1, <1>2, <1>3
<1> HIDE DEF bytes, p
<1>6. n \in Nat /\ n > 0
  BY <1>2
<1>7. ASSUME NEW i \in 1 .. Len(bytes)
      PROVE  /\ bytes[i] = ByteAt(p, z.crc, z.j + i)
             /\ TRUE <=> z.j + i > 2
             /\ TRUE <=> Summed(p, z.j + i)
  <2>1. i \in 1 .. n /\ i \in 1 .. fremaining
    BY <1>1, <1>2, <1>4, <1>6
  <2>2. bytes[i] = p[z.j - 6 + i]
    BY <1>3, <1>4, <2>1
  <2>3. z.j + i > 6 /\ z.j + i <= 6 + Len(p) /\ z.j - 6 + i = (z.j + i) - 6 /\ z.j + i \in Nat
    BY <1>2, <2>1
  <2>4. ByteAt(p, z.crc, z.j + i) = p[(z.j + i) - 6]
    BY <2>3 DEF ByteAt
  <2> QED
    BY <2>2, <2>3, <2>4 DEF Summed
<1>8. /\ Len(data') = n
      /\ \A i \in 1 .. n : ItemLeft(data'[i], p, z.crc, z.j + i, FALSE)
  <2>1. BytesBehind(bytes, TRUE, TRUE, p, z.crc, z.j)
    BY <1>7 DEF BytesBehind
  <2>2. ItemsBehind(data', n, p, z.crc, z.j)
    BY <1>1, <1>2, <1>4, <2>1, ItemsAt
  <2> QED
    BY <2>2 DEF ItemsBehind
<1>9. Rest(z, z.j + n)'
  <2>1. \A i \in 1 .. n : (i = 1 /\ z.half) = FALSE
    BY <1>2
  <2> QED
    BY <1>1, <1>2, <1>8, <2>1 DEF Rest, p
<1>10. Left(z, z.j + n)'
  <2>1. ASSUME NEW i \in 1 .. fremaining - n PROVE pending'[i] = p[(z.j + n) - 6 + i]
    <3>1. n + i \in 1 .. fremaining /\ z.j - 6 + (n + i) = (z.j + n) - 6 + i
      BY <1>1, <1>2, <1>6
    <3> QED
      BY <1>3, <1>5, <3>1
  <2>2. (z.j + n) + (fremaining - n) = 6 + Len(p)
    BY <1>2, <1>6
  <2> QED
    BY <1>1, <1>5, <2>1, <2>2 DEF Left, p
<1>11. WritePayloadChunkAt(z)'
  <2>1. (z.j + Len(data))' = z.j + n
    BY <1>8
  <2>2. Rest(z, z.j + Len(data))' /\ Left(z, z.j + Len(data))'
    BY <1>9, <1>10, <2>1 DEF Rest, Left
  <2> QED
    BY <1>1, <1>2, <2>2 DEF WritePayloadChunkAt, Current
<1> QED
  BY <1>1, <1>11 DEF Silent, SenderAt

LEMMA FinishPacketMoves ==
  ASSUME IInv, NEW z, PositionOK(sent, z), SenderAt(z), FinishPacket
  PROVE  Silent(z)
<1> DEFINE p == Payload(sent, z.k)
<1>1. /\ call = "none" /\ call' = "FinishPacket" /\ fremaining = 0
      /\ fstate = "kTransmitPacketPayload" /\ UNCHANGED <<fstate, fcrc, wire, sent>>
      /\ data' = Items(fcrc, TRUE, FALSE)
  BY DEF FinishPacket
<1>2. /\ Current(z) /\ ~z.half /\ fcrc = z.crc /\ z.crc \in Crc
      /\ z.j \in Nat /\ p \in Seq(Byte) /\ Len(p) \in Nat /\ z.j + 0 = 6 + Len(p)
  BY <1>1, InPacketAt
<1>3. z.crc \in Seq(Byte) /\ Len(z.crc) = 2
  BY <1>2, CrcIsBytes DEF Crc
<1> HIDE DEF p
<1>4. ASSUME NEW i \in 1 .. Len(z.crc)
      PROVE  /\ z.crc[i] = ByteAt(p, z.crc, z.j + i)
             /\ TRUE <=> z.j + i > 2
             /\ FALSE <=> Summed(p, z.j + i)
  <2>1. z.j + i > 6 + Len(p) /\ (z.j + i) - 6 - Len(p) = i /\ z.j + i \in Nat
    BY <1>2, <1>3
  <2>2. /\ z.j + i # 0 /\ z.j + i # 1 /\ z.j + i # 2 /\ ~(z.j + i <= 6) /\ z.j + i > 2
        /\ ~(z.j + i <= 6 + Len(p))
    <3>1. \A m \in Nat, l \in Nat : m > 6 + l =>
            m # 0 /\ m # 1 /\ m # 2 /\ ~(m <= 6) /\ m > 2 /\ ~(m <= 6 + l)
      OBVIOUS
    <3> QED
      BY <1>2, <2>1, <3>1
  <2>3. ByteAt(p, z.crc, z.j + i) = z.crc[i]
    BY <2>1, <2>2, Zenon DEF ByteAt
  <2> QED
    BY <2>2, <2>3 DEF Summed
<1>5. /\ Len(data') = 2
      /\ \A i \in 1 .. 2 : ItemLeft(data'[i], p, z.crc, z.j + i, FALSE)
  <2>1. data' = Items(z.crc, TRUE, FALSE)
    BY <1>1, <1>2
  <2>2. z.j \in Nat
    BY <1>2
  <2>3. BytesBehind(z.crc, TRUE, FALSE, p, z.crc, z.j)
    BY <1>4 DEF BytesBehind
  <2>4. ItemsBehind(data', 2, p, z.crc, z.j)
    BY <1>3, <2>1, <2>2, <2>3, ItemsAt
  <2> QED
    BY <2>4 DEF ItemsBehind
<1>6. Rest(z, LastItem(Payload(sent, z.k)))'
  <2>1. z.j + 2 = LastItem(p) /\ \A i \in 1 .. 2 : (i = 1 /\ z.half) = FALSE
    BY <1>2 DEF LastItem
  <2> QED
    BY <1>1, <1>2, <1>5, <2>1 DEF Rest, p
<1>7. z.j >= 6 + Len(p)
  BY <1>2
<1>8. FinishPacketAt(z)'
  BY <1>1, <1>2, <1>6, <1>7 DEF FinishPacketAt, Current, p
<1> QED
  BY <1>1, <1>8 DEF Silent, SenderAt

LEMMA StartPacketDoneMoves ==
  ASSUME IInv, NEW z, PositionOK(sent, z), SenderAt(z), StartPacketDone
  PROVE  Silent(z)
<1>1. /\ call = "StartPacket" /\ call' = "none" /\ data = <<>> /\ fremaining' = Len(pending)
      /\ fstate' = "kTransmitPacketPayload" /\ UNCHANGED <<fcrc, data, pending, wire, sent>>
  BY DEF StartPacketDone
<1>2. StartPacketAt(z) /\ z \in Position /\ z.k \in 0 .. Len(sent)
  BY <1>1 DEF SenderAt, PositionOK
<1>3. Current(z) /\ Rest(z, 6)
  <2>1. ~NotBegun(z)
    BY <1>1 DEF NotBegun
  <2> QED
    BY <1>2, <2>1 DEF StartPacketAt
<1>4. z.j = 6 /\ ~z.half /\ fcrc = z.crc
  BY <1>1, <1>2, <1>3 DEF Rest, Position
<1>5. /\ z.k \in 1 .. Len(sent) /\ z.k = Len(sent)
      /\ Payload(sent, z.k) \in Seq(Byte) /\ pending = Payload(sent, z.k)
  <2>1. z.k \in 1 .. Len(sent) /\ z.k = Len(sent)
    BY <1>2, <1>3 DEF Current
  <2> QED
    BY <1>2, <2>1, PacketAt DEF StartPacketAt, IInv
<1>6. Left(z, z.j)'
  BY <1>1, <1>4, <1>5 DEF Left
<1>7. NoCallAt(z)'
  BY <1>1, <1>3, <1>4, <1>6 DEF NoCallAt, Odd, Current
<1> QED
  BY <1>1, <1>7 DEF Silent, SenderAt

LEMMA WritePayloadChunkDoneMoves ==
  ASSUME IInv, NEW z, PositionOK(sent, z), SenderAt(z), WritePayloadChunkDone
  PROVE  Silent(z)
<1>1. /\ call = "WritePayloadChunk" /\ call' = "none" /\ data = <<>>
      /\ UNCHANGED <<fstate, fremaining, fcrc, data, pending, wire, sent>>
  BY DEF WritePayloadChunkDone
<1>2. WritePayloadChunkAt(z) /\ z \in Position
  BY <1>1 DEF SenderAt, PositionOK
<1>3. /\ Current(z) /\ z.j >= 6 /\ z.j \in Nat /\ ~z.half /\ fcrc = z.crc
      /\ Left(z, z.j + 0) /\ z.j + 0 = z.j
  BY <1>1, <1>2 DEF WritePayloadChunkAt, Rest, Position
<1>4. ~Odd(z)
  BY <1>3 DEF Odd
<1>5. Left(z, z.j)'
  BY <1>1, <1>3 DEF Left
<1>6. NoCallAt(z)'
  BY <1>1, <1>3, <1>4, <1>5 DEF NoCallAt, Current
<1> QED
  BY <1>1, <1>6 DEF Silent, SenderAt

LEMMA FinishPacketDoneMoves ==
  ASSUME IInv, NEW z, PositionOK(sent, z), SenderAt(z), FinishPacketDone
  PROVE  Silent(z)
<1>1. /\ call = "FinishPacket" /\ call' = "none" /\ data = <<>> /\ fstate' = "kIdle"
      /\ data' = data /\ wire' = wire /\ sent' = [sent EXCEPT ![Len(sent)].finished = TRUE]
  BY DEF FinishPacketDone
<1>2. FinishPacketAt(z) /\ Current(z) /\ z \in Position /\ z.k \in 0 .. Len(sent)
  BY <1>1 DEF SenderAt, FinishPacketAt, PositionOK
<1>3. z.k = Len(sent) /\ z.k \in 1 .. Len(sent) /\ z.j \in Nat /\ z.k \in Nat
  BY <1>2 DEF Current, Position
<1>4. Payload(sent, z.k) \in Seq(Byte) /\ sent \in Seq(Packet) /\ Len(sent) \in Nat
  BY <1>3, PacketAt DEF IInv, TypeOK, HistoryTypeOK
<1>5. z.j = LastItem(Payload(sent, z.k)) /\ ~z.half
  BY <1>1, <1>2, <1>3 DEF FinishPacketAt, Rest
<1>6. Len(sent') = Len(sent) /\ Payload(sent', z.k) = Payload(sent, z.k)
  <2>1. FramerNext
    BY DEF FramerNext
  <2>2. Len(sent') = Len(sent)
    BY <1>1, <1>4
  <2> QED
    BY <1>3, <2>1, <2>2, SentGrows DEF IInv, Payload
<1>7. Done(sent', z)
  BY <1>3, <1>5, <1>6 DEF Done
<1>8. Unfinished(sent, z, Len(sent) + 1)'
  <2>1. ASSUME NEW i \in z.k .. (Len(sent') + 1) - 1 PROVE i = z.k
    BY <1>3, <1>4, <1>6
  <2> QED
    BY <1>7, <2>1 DEF Unfinished
<1>9. ~Odd(z)
  <2>1. z.j >= 8
    BY <1>4, <1>5 DEF LastItem
  <2> QED
    BY <1>3, <1>5, <2>1 DEF Odd
<1>10. NoCallAt(z)'
  BY <1>1, <1>9 DEF NoCallAt
<1> QED
  BY <1>1, <1>8, <1>10 DEF Silent, SenderAt

LEMMA SenderResetMoves ==
  ASSUME NEW z, SenderAt(z), SenderReset
  PROVE  Silent(z)
BY DEF SenderReset, SenderAt, NoCallAt, Silent

LEMMA PrintTextMoves ==
  ASSUME IInv, Steady, NEW z, PositionOK(sent, z), SenderAt(z), NEW b \in Text, PrintText(b)
  PROVE  Sends(z)
<1>1. /\ call = "none" /\ call' = "none" /\ fstate = "kReset" /\ fstate' = "kReset"
      /\ UNCHANGED <<data, sent>> /\ wire' = Append(wire, b) /\ texts < MaxText
      /\ b \in Byte
  BY TextAssumption DEF PrintText, framerVars
<1>2. MaxText > 0
  BY <1>1, BoundsAssumption DEF IInv, TypeOK, HistoryTypeOK
<1>3. z \in Position /\ z.k \in 0 .. Len(sent) /\ NoCallAt(z) /\ Unfinished(sent, z, Len(sent) + 1)
  BY <1>1 DEF SenderAt, PositionOK
<1>4. PICK r : r = IF Done(sent, z) THEN z ELSE [z EXCEPT !.j = 0, !.half = FALSE, !.crc = CrcInit]
  OBVIOUS
<1>7. Early(z)
  <2>1. MaxSenderResets = 0 => Len(sent) = 0
    BY <1>1 DEF Steady
  <2> QED
    BY <1>3, <2>1 DEF Early
<1>5. Prints(sent, z, b, r)
  BY <1>2, <1>4, <1>7 DEF Prints
<1>6. PositionOK(sent, r) /\ SenderAt(r)'
  <2>1. CASE Done(sent, z)
    BY <1>1, <1>3, <1>4, <2>1 DEF SenderAt, NoCallAt
  <2>2. CASE ~Done(sent, z)
    <3>1. /\ r \in Position /\ r.k = z.k /\ r.j = 0 /\ ~r.half /\ r.crc = CrcInit
      BY <1>3, <1>4, <2>2, CrcAssumption DEF Position
    <3>2. r.k > 0 => LastItem(Payload(sent, r.k)) \in Nat
      <4>1. r.k > 0 => Payload(sent, r.k) \in Seq(Byte)
        BY <1>3, <3>1, PacketAt DEF IInv, Position
      <4> QED
        BY <4>1 DEF LastItem
    <3>3. PositionOK(sent, r)
      BY <1>3, <3>1, <3>2 DEF PositionOK
    <3>4. Unfinished(sent, r, Len(sent) + 1)
      BY <1>3, <2>2, <3>1 DEF Unfinished
    <3> QED
      BY <1>1, <1>3, <3>3, <3>4 DEF SenderAt, NoCallAt
  <2> QED
    BY <2>1, <2>2
<1> QED
  BY <1>1, <1>5, <1>6 DEF Sends, Hop

LEMMA SenderMoves ==
  ASSUME IInv, IInv', Steady, FramerNext, WriteErrors = FALSE,
         NEW z, PositionOK(sent, z), SenderAt(z)
  PROVE  Silent(z) \/ Sends(z)
BY StartPacketMoves, WritePayloadChunkMoves, FinishPacketMoves, WriteSends, StartPacketDoneMoves,
   WritePayloadChunkDoneMoves, FinishPacketDoneMoves, SenderResetMoves, PrintTextMoves
DEF FramerNext, WriteError
-----------------------------------------------------------------------------
(* The length of a payload is read back as it was written. *)
LEMMA DivisionBelow ==
  ASSUME NEW b \in Nat, b > 0, NEW n \in Nat, n < b * b
  PROVE  /\ n \div b \in 0 .. b - 1 /\ n % b \in 0 .. b - 1
         /\ n = b * (n \div b) + (n % b)
         /\ (n \div b) % b = n \div b
<1>1. n \div b \in Nat /\ n % b \in 0 .. b - 1 /\ n = b * (n \div b) + (n % b)
  OBVIOUS
<1>2. PICK q \in Nat : q = n \div b
  BY <1>1
<1>3. PICK m \in Nat : m = n % b
  BY <1>1
<1>4. b * q + m < b * b
  BY <1>1, <1>2, <1>3
<1>5. q < b
  <2>1. \A k \in Nat : k >= b => b * k >= b * b
    OBVIOUS
  <2> QED
    BY <1>4, <2>1
<1>6. q % b = q
  BY <1>5
<1> QED
  BY <1>1, <1>2, <1>5, <1>6

LEMMA LengthReadBack ==
  ASSUME NEW n \in Nat, n < (MaxByte + 1) * (MaxByte + 1)
  PROVE  LengthValue(LengthField(n)) = n /\ Len(LengthField(n)) = 4
<1> DEFINE b == MaxByte + 1
<1>1. b \in Nat /\ b > 0
  OBVIOUS
<1>2. n < b * b
  OBVIOUS
<1> HIDE DEF b
<1>3. /\ n = b * (n \div b) + (n % b) /\ (n \div b) % b = n \div b
  BY <1>1, <1>2, DivisionBelow
<1>4. LengthField(n) = <<n % b, n \div b, 0, 0>>
  BY <1>3 DEF LengthField, b
<1>5. LengthValue(<<n % b, n \div b, 0, 0>>) = (n % b) + b * (n \div b + b * (0 + b * 0))
  BY DEF LengthValue, b
<1>6. b * (n \div b + b * (0 + b * 0)) = b * (n \div b)
  <2>1. n \div b \in Nat
    BY <1>1
  <2>2. b * 0 = 0
    BY <1>1
  <2>3. 0 + b * 0 = 0
    BY <2>2
  <2>4. n \div b + b * (0 + b * 0) = n \div b
    BY <2>1, <2>2, <2>3
  <2> QED
    BY <2>4
<1>7. (n % b) + b * (n \div b) = n
  <2>1. b * (n \div b) \in Nat /\ n % b \in Nat
    BY <1>1
  <2> QED
    BY <1>3, <2>1
<1> QED
  BY <1>4, <1>5, <1>6, <1>7

-----------------------------------------------------------------------------
(* The bytes that follow a place.                                           *)
LEMMA Codes ==
  /\ kEscapeStart # kEscapeNop /\ kEscapeStart # kPacketStart /\ kEscapeNop # kPacketStart
  /\ \A b \in Text : b # kEscapeStart /\ b # kEscapeNop /\ b # kPacketStart
<1>1. kEscapeStart # kEscapeNop /\ kEscapeStart # kPacketStart /\ kEscapeNop # kPacketStart
  BY DEF kEscapeStart, kEscapeNop, kPacketStart
<1>2. \A b \in Text : b # kEscapeStart /\ b # kEscapeNop /\ b # kPacketStart
  BY TextAssumption
<1> QED
  BY <1>1, <1>2

LEMMA PositionType ==
  ASSUME TypeOK, NEW q, PositionOK(sent, q)
  PROVE  /\ q.k \in 0 .. Len(sent) /\ q.k \in Nat /\ q.j \in Nat /\ q.half \in BOOLEAN /\ q.crc \in Crc
         /\ Len(sent) \in Nat
         /\ q.k > 0 => /\ q.k \in 1 .. Len(sent) /\ Payload(sent, q.k) \in Seq(Byte)
                       /\ Len(Payload(sent, q.k)) \in Nat
                       /\ q.j <= 8 + Len(Payload(sent, q.k))
         /\ q.half => q.j >= 2 /\ q.k > 0
         /\ Done(sent, q) => q.j >= 8 /\ ~q.half /\ q.k > 0
<1>1. /\ q.k \in 0 .. Len(sent) /\ q.k \in Nat /\ q.j \in Nat /\ q.half \in BOOLEAN /\ q.crc \in Crc
      /\ Len(sent) \in Nat
  BY DEF PositionOK, Position, TypeOK, HistoryTypeOK
<1>2. q.k > 0 => /\ q.k \in 1 .. Len(sent) /\ Payload(sent, q.k) \in Seq(Byte)
                 /\ Len(Payload(sent, q.k)) \in Nat
                 /\ q.j <= 8 + Len(Payload(sent, q.k))
  <2> SUFFICES ASSUME q.k > 0
               PROVE  /\ q.k \in 1 .. Len(sent) /\ Payload(sent, q.k) \in Seq(Byte)
                      /\ Len(Payload(sent, q.k)) \in Nat
                      /\ q.j <= 8 + Len(Payload(sent, q.k))
    OBVIOUS
  <2>1. q.k \in 1 .. Len(sent)
    BY <1>1
  <2>2. Payload(sent, q.k) \in Seq(Byte)
    BY <2>1, PacketAt
  <2> QED
    BY <2>1, <2>2 DEF PositionOK, LastItem
<1>3. q.half => q.j >= 2 /\ q.k > 0 /\ q.j < LastItem(Payload(sent, q.k))
  BY DEF PositionOK
<1>4. ASSUME Done(sent, q) PROVE q.j >= 8 /\ ~q.half /\ q.k > 0
  BY <1>1, <1>2, <1>3, <1>4 DEF Done, LastItem
<1> QED
  BY <1>1, <1>2, <1>3, <1>4

LEMMA WithinByte ==
  ASSUME TypeOK, NEW q, PositionOK(sent, q), NEW b, NEW r, PositionOK(sent, r), Within(sent, q, b, r)
  PROVE  /\ r.half <=> ~q.half /\ q.j >= 2 /\ b = kEscapeStart
         /\ r.half => r.j = q.j
         /\ ~r.half => r.j = q.j + 1
         /\ q.half => b = kEscapeStart
         /\ q.j = 0 => b = kEscapeStart
         /\ q.j = 1 => b = kPacketStart
         /\ r.k = q.k /\ q.k > 0
<1>1. q.j \in Nat /\ q.half \in BOOLEAN /\ r.half \in BOOLEAN /\ q.j + 1 \in Nat
  BY PositionType
<1>2. /\ r.half = (~q.half /\ q.j >= 2 /\ b = kEscapeStart)
      /\ r.j = IF r.half THEN q.j ELSE q.j + 1
      /\ b = ByteAt(Payload(sent, q.k), q.crc, q.j + 1)
      /\ r.k = q.k /\ q.k > 0
  BY DEF Within
<1>3. q.half => b = kEscapeStart
  BY <1>2 DEF PositionOK
<1>4. q.j = 0 => b = kEscapeStart
  BY <1>2 DEF ByteAt
<1>5. q.j = 1 => b = kPacketStart
  BY <1>2 DEF ByteAt
<1> QED
  BY <1>1, <1>2, <1>3, <1>4, <1>5

LEMMA HopByte ==
  ASSUME TypeOK, NEW q, PositionOK(sent, q), NEW b, NEW r, PositionOK(sent, r), Hop(sent, q, b, r)
  PROVE  /\ Odd(r) <=> ~Odd(q) /\ b = kEscapeStart
         /\ Odd(q) => \/ Within(sent, q, b, r) /\ q.half /\ b = kEscapeStart
                      \/ Within(sent, q, b, r) /\ q.j = 1 /\ b = kPacketStart
                      \/ b = kEscapeNop /\ r.j = 0
                      \/ b \in Text /\ MaxText > 0 /\ r.j = 0
         /\ r.j >= 2 => \/ Within(sent, q, b, r) /\ q.j >= 1 /\ q.k > 0 /\ r.k = q.k
                        \/ Done(sent, q) /\ r = q /\ b \in Text
<1>1. /\ q.j \in Nat /\ q.half \in BOOLEAN /\ r.j \in Nat /\ r.half \in BOOLEAN
      /\ q.half => q.j >= 2
      /\ Done(sent, q) => q.j >= 8 /\ ~q.half
  BY PositionType
<1>2. CASE Within(sent, q, b, r)
  <2>1. /\ r.half <=> ~q.half /\ q.j >= 2 /\ b = kEscapeStart
        /\ r.half => r.j = q.j
        /\ ~r.half => r.j = q.j + 1
        /\ q.half => b = kEscapeStart
        /\ q.j = 0 => b = kEscapeStart
        /\ q.j = 1 => b = kPacketStart
        /\ r.k = q.k /\ q.k > 0
    BY <1>2, WithinByte
  <2>2. Odd(r) <=> ~Odd(q) /\ b = kEscapeStart
    BY <1>1, <2>1, Codes DEF Odd
  <2>3. Odd(q) => (q.half /\ b = kEscapeStart) \/ (q.j = 1 /\ b = kPacketStart)
    BY <1>1, <2>1 DEF Odd
  <2>4. r.j >= 2 => q.j >= 1
    BY <1>1, <2>1
  <2> QED
    BY <1>2, <2>1, <2>2, <2>3, <2>4
<1>3. CASE Starts(sent, q, b, r)
  <2>1. ~r.half /\ ((b = kEscapeNop /\ r.j = 0) \/ (b = kEscapeStart /\ r.j = 1 /\ ~Odd(q)))
    BY <1>3 DEF Starts
  <2> QED
    BY <1>1, <2>1, Codes DEF Odd
<1>4. CASE Prints(sent, q, b, r)
  <2>1. /\ b \in Text /\ MaxText > 0
        /\ r = IF Done(sent, q) THEN q ELSE [q EXCEPT !.j = 0, !.half = FALSE, !.crc = CrcInit]
    BY <1>4 DEF Prints
  <2>2. b # kEscapeStart
    BY <2>1, Codes
  <2>3. CASE Done(sent, q)
    BY <1>1, <2>1, <2>2, <2>3 DEF Odd
  <2>4. CASE ~Done(sent, q)
    <3>1. r.j = 0 /\ ~r.half
      BY <2>1, <2>4 DEF PositionOK, Position
    <3> QED
      BY <1>1, <2>1, <2>2, <3>1 DEF Odd
  <2> QED
    BY <2>3, <2>4
<1> QED
  BY <1>2, <1>3, <1>4 DEF Hop
-----------------------------------------------------------------------------
(* The Unframer's steps along a hop from q to r.                            *)
LEMMA DoneIsComplete ==
  ASSUME IInv, NEW q, PositionOK(sent, q), InStep(q), Done(sent, q), q.k > mayMiss
  PROVE  Complete(q)
<1>1. /\ q.j \in Nat /\ q.j >= 8 /\ q.k > 0 /\ Len(Payload(sent, q.k)) \in Nat
      /\ q.j = LastItem(Payload(sent, q.k)) /\ q.j = 8 + Len(Payload(sent, q.k))
  <2>1. TypeOK
    BY DEF IInv
  <2> QED
    BY <2>1, PositionType DEF Done, LastItem
<1>2. ~InLength(q)
  BY <1>1 DEF InLength
<1>3. ~InPayload(q)
  BY <1>1 DEF InPayload
<1>4. ~InCrc(q)
  BY <1>1 DEF InCrc
<1> QED
  BY <1>1, <1>2, <1>3, <1>4 DEF InStep

(* A packet left behind on the way was complete, so it was delivered.       *)
LEMMA PastHop ==
  ASSUME IInv, NEW q, PositionOK(sent, q), NEW b, NEW r, PositionOK(sent, r), Hop(sent, q, b, r),
         InStep(q), Past(q), UNCHANGED <<sent, mayMiss>>, \A p : Delivered(p) => Delivered(p)'
  PROVE  Past(r)'
<1> SUFFICES ASSUME NEW i \in mayMiss + 1 .. Len(sent), i < r.k, sent[i].finished
             PROVE  Delivered(Payload(sent, i))
  BY DEF Past, Payload
<1>1. /\ TypeOK /\ q.k \in Nat /\ r.k \in Nat /\ mayMiss \in Nat /\ Len(sent) \in Nat
  BY PositionType DEF IInv, TypeOK, HistoryTypeOK
<1>2. CASE i < q.k
  BY <1>2 DEF Past
<1>3. CASE ~(i < q.k)
  <2>1. r.k > q.k
    BY <1>1, <1>3
  <2>2. Starts(sent, q, b, r)
    <3>1. ~Within(sent, q, b, r)
      BY <1>1, <2>1 DEF Within
    <3>2. ~Prints(sent, q, b, r)
      <4>1. q \in Position
        BY DEF PositionOK
      <4>2. Prints(sent, q, b, r) => r.k = q.k
        BY <4>1 DEF Prints, Position
      <4> QED
        BY <1>1, <2>1, <4>2
    <3> QED
      BY <3>1, <3>2 DEF Hop
  <2>3. i \in q.k .. r.k - 1 /\ i > 0 /\ i > mayMiss
    BY <1>1, <1>3
  <2>4. i = q.k /\ Done(sent, q)
    BY <2>2, <2>3 DEF Starts, Unfinished
  <2>5. Complete(q)
    BY <2>3, <2>4, DoneIsComplete
  <2> QED
    BY <2>4, <2>5 DEF Complete
<1> QED
  BY <1>2, <1>3

LEMMA FindPacketStartMoves ==
  ASSUME IInv, NEW q, PositionOK(sent, q), NEW r, PositionOK(sent, r),
         Hop(sent, q, Head(input), r), ReceiverAt(q), FindPacketStart
  PROVE  ReceiverAt(r)'
<1> DEFINE b == Head(input)
<1>1. /\ ustate = "kFindPacketStart" /\ sawEscape' = (b = kEscapeStart)
      /\ UNCHANGED <<sent, mayMiss, delivered, buf, uremaining>>
      /\ buf = <<>> /\ TypeOK
  BY DEF FindPacketStart, resetVars, IInv, BufferHasRoom
<1>2. /\ q.k \in Nat /\ q.j \in Nat /\ q.half \in BOOLEAN /\ r.k \in Nat /\ r.j \in Nat
      /\ r.half \in BOOLEAN /\ mayMiss \in Nat
  BY <1>1, PositionType DEF TypeOK, HistoryTypeOK
<1>3. /\ Odd(r) <=> ~Odd(q) /\ b = kEscapeStart
      /\ r.j >= 2 => \/ Within(sent, q, b, r) /\ q.j >= 1 /\ q.k > 0 /\ r.k = q.k
                     \/ Done(sent, q) /\ r = q /\ b \in Text
  BY <1>1, HopByte
<1> HIDE DEF b
<1>4. Past(r)'
  <2>1. \A p : Delivered(p) => Delivered(p)'
    BY <1>1 DEF Delivered
  <2> QED
    BY <1>1, <2>1, PastHop DEF ReceiverAt
<1>5. CASE ~(b = kPacketStart /\ sawEscape)
  <2>1. ustate' = "kFindPacketStart"
    BY <1>1, <1>5 DEF FindPacketStart, b
  <2>2. Found(r)'
    <3> SUFFICES ASSUME r.k > mayMiss, r.j = 1 PROVE b = kEscapeStart
      BY <1>1 DEF Found
    <3>1. Odd(r)
      BY DEF Odd
    <3> QED
      BY <1>3, <3>1
  <2>3. InStep(r)'
    <3> SUFFICES ASSUME r.k > mayMiss, r.j >= 2 PROVE Complete(r)'
      BY <1>1 DEF InStep
    <3>1. CASE Done(sent, q) /\ r = q
      <4>1. Complete(q)
        BY <3>1, DoneIsComplete DEF ReceiverAt
      <4> QED
        BY <1>1, <2>1, <3>1, <4>1 DEF Complete, Delivered
    <3>2. CASE Within(sent, q, b, r) /\ q.j >= 1 /\ r.k = q.k
      <4>1. q.j # 1
        <5> SUFFICES ASSUME q.j = 1 PROVE FALSE
          OBVIOUS
        <5>1. b = kPacketStart
          BY <1>1, <3>2, WithinByte
        <5>2. sawEscape
          BY <1>1, <3>2 DEF ReceiverAt, Found
        <5> QED
          BY <1>5, <5>1, <5>2
      <4>2. q.j >= 2
        BY <1>2, <3>2, <4>1
      <4>3. Complete(q)
        BY <1>1, <3>2, <4>2 DEF ReceiverAt, InStep, InLength, InPayload, InCrc
      <4>4. FALSE
        BY <1>2, <3>2, <4>3 DEF Complete, Done, Within
      <4> QED
        BY <4>4
    <3> QED
      BY <1>3, <3>1, <3>2
  <2>4. Parity(r)'
    BY <2>1 DEF Parity
  <2> QED
    BY <1>4, <2>2, <2>3, <2>4 DEF ReceiverAt
<1>6. CASE b = kPacketStart /\ sawEscape
  <2>1. /\ ustate' = "kFindPacketLength" /\ rx' = <<>>
        /\ ucrc' = UpdateCrc(UpdateCrc(CrcInit, kEscapeStart), kPacketStart)
    BY <1>6 DEF FindPacketStart, b
  <2>2. Parity(r)'
    BY <1>1, <1>3, <1>6, Codes DEF Parity
  <2>3. InStep(r)'
    <3> SUFFICES ASSUME r.k > mayMiss, r.j >= 2 PROVE InLength(r)'
      BY <1>1 DEF InStep
    <3>1. Within(sent, q, b, r) /\ q.j >= 1 /\ q.k > 0 /\ r.k = q.k
      BY <1>3, <1>6, Codes
    <3>2. q.j < LastItem(Payload(sent, q.k))
      BY <3>1 DEF Within
    <3>3. q.j = 1
      <4> SUFFICES ASSUME q.j >= 2 PROVE FALSE
        BY <1>2, <3>1
      <4>1. Complete(q)
        BY <1>1, <3>1 DEF ReceiverAt, InStep, InLength, InPayload, InCrc
      <4> QED
        BY <1>2, <3>2, <4>1 DEF Complete, Done
    <3>4. ~r.half /\ r.j = 2
      <4>1. ~r.half /\ (~r.half => r.j = q.j + 1)
        BY <1>1, <1>6, <3>1, Codes, WithinByte
      <4> QED
        BY <3>3, <4>1
    <3>5. r.crc = ucrc'
      <4>1. Summed(Payload(sent, q.k), q.j + 1)
        BY <1>1, <3>1, <3>3, PositionType DEF Summed
      <4>2. q.crc = UpdateCrc(CrcInit, kEscapeStart)
        BY <3>3 DEF PositionOK
      <4> QED
        BY <1>6, <2>1, <3>1, <4>1, <4>2 DEF Within
    <3> QED
      BY <1>1, <2>1, <3>4, <3>5 DEF InLength
  <2>4. Found(r)'
    BY <2>1 DEF Found
  <2> QED
    BY <1>4, <2>2, <2>3, <2>4 DEF ReceiverAt
<1> QED
  BY <1>5, <1>6

(* ConsumeInput reads an item: nothing of it before its last byte.          *)
LEMMA ConsumeHop ==
  ASSUME IInv, NEW q, PositionOK(sent, q), NEW r, PositionOK(sent, r),
         Hop(sent, q, Head(input), r), ReceiverAt(q), Consume
  PROVE  /\ sawEscape' <=> Odd(r)
         /\ r.k > mayMiss /\ r.j >= 2 =>
              /\ Within(sent, q, Head(input), r)
              /\ q.j >= 2 /\ q.k > 0 /\ r.k = q.k /\ q.k > mayMiss
              /\ InLength(q) \/ InPayload(q) \/ InCrc(q)
              /\ r.half => Filled = buf /\ r.j = q.j
              /\ ~r.half => /\ Filled = Append(buf, ByteAt(Payload(sent, q.k), q.crc, q.j + 1))
                            /\ r.j = q.j + 1
<1> DEFINE b == Head(input)
<1>1. /\ ustate # "kFindPacketStart" /\ TypeOK
      /\ sawEscape' = (~sawEscape /\ b = kEscapeStart)
      /\ ~IsShortPacket
      /\ sawEscape \in BOOLEAN
  <2>1. ustate # "kFindPacketStart" /\ TypeOK /\ sawEscape \in BOOLEAN
    BY DEF Consume, InPacket, IInv, TypeOK, UnframerTypeOK
  <2>2. sawEscape' = (~sawEscape /\ b = kEscapeStart)
    BY DEF Consume
  <2>3. IsSkipped \/ IsLiteral
    BY DEF Consume
  <2>4. ~IsShortPacket
    BY <2>3, Codes DEF IsShortPacket, IsSkipped, IsLiteral
  <2> QED
    BY <2>1, <2>2, <2>4
<1>2. sawEscape <=> Odd(q)
  BY <1>1 DEF ReceiverAt, Parity
<1>3. /\ Odd(r) <=> ~Odd(q) /\ b = kEscapeStart
      /\ r.j >= 2 => \/ Within(sent, q, b, r) /\ q.j >= 1 /\ q.k > 0 /\ r.k = q.k
                     \/ Done(sent, q) /\ r = q /\ b \in Text
  BY <1>1, HopByte
<1>4. sawEscape' <=> Odd(r)
  BY <1>1, <1>2, <1>3
<1>5. ASSUME r.k > mayMiss, r.j >= 2
      PROVE  /\ Within(sent, q, b, r)
             /\ q.j >= 2 /\ q.k > 0 /\ r.k = q.k /\ q.k > mayMiss
             /\ InLength(q) \/ InPayload(q) \/ InCrc(q)
             /\ r.half => Filled = buf /\ r.j = q.j
             /\ ~r.half => /\ Filled = Append(buf, ByteAt(Payload(sent, q.k), q.crc, q.j + 1))
                           /\ r.j = q.j + 1
  <2>1. q.j \in Nat /\ q.half \in BOOLEAN /\ r.half \in BOOLEAN
    BY <1>1, PositionType
  <2>2. ~(Done(sent, q) /\ r = q)
    <3> SUFFICES ASSUME Done(sent, q), r = q PROVE FALSE
      OBVIOUS
    <3>1. Complete(q)
      BY <1>5, DoneIsComplete DEF ReceiverAt
    <3> QED
      BY <1>1, <3>1 DEF Complete
  <2>3. Within(sent, q, b, r) /\ q.j >= 1 /\ q.k > 0 /\ r.k = q.k /\ q.k > mayMiss
    BY <1>3, <1>5, <2>2
  <2>4. q.j # 1
    <3> SUFFICES ASSUME q.j = 1 PROVE FALSE
      OBVIOUS
    <3>1. b = kPacketStart /\ Odd(q)
      BY <1>1, <2>3, WithinByte DEF Odd
    <3> QED
      BY <1>1, <1>2, <3>1 DEF IsShortPacket, Consume
  <2>5. q.j >= 2
    BY <2>1, <2>3, <2>4
  <2>6. InLength(q) \/ InPayload(q) \/ InCrc(q)
    BY <1>1, <2>3, <2>5 DEF ReceiverAt, InStep, Complete
  <2>7. /\ r.half <=> ~q.half /\ b = kEscapeStart
        /\ r.half => r.j = q.j
        /\ ~r.half => r.j = q.j + 1
        /\ q.half => b = kEscapeStart
    BY <1>1, <2>3, <2>5, WithinByte
  <2>8. Odd(q) <=> q.half
    BY <2>1, <2>4 DEF Odd
  <2>9. r.half => Filled = buf
    BY <1>2, <2>7, <2>8 DEF Filled, IsLiteral
  <2>10. ~r.half => Filled = Append(buf, b)
    BY <1>2, <2>7, <2>8 DEF Filled, IsLiteral
  <2>11. b = ByteAt(Payload(sent, q.k), q.crc, q.j + 1)
    BY <2>3 DEF Within
  <2> QED
    BY <2>3, <2>5, <2>6, <2>7, <2>9, <2>10, <2>11
<1> QED
  BY <1>4, <1>5

LEMMA AppendAt ==
  ASSUME NEW S, NEW s \in Seq(S), NEW x \in S
  PROVE  /\ Append(s, x) \in Seq(S) /\ Len(s) \in Nat /\ Len(Append(s, x)) = Len(s) + 1
         /\ Append(s, x)[Len(s) + 1] = x
         /\ \A i \in 1 .. Len(s) : Append(s, x)[i] = s[i]
OBVIOUS
-----------------------------------------------------------------------------
(* What one call of ConsumeInput leaves to show.                            *)
LEMMA ConsumeMoves ==
  ASSUME IInv, NEW q, PositionOK(sent, q), NEW r, PositionOK(sent, r),
         Hop(sent, q, Head(input), r), ReceiverAt(q), Consume,
         \A p : Delivered(p) => Delivered(p)',
         r.k > mayMiss /\ r.j >= 2 => InStep(r)'
  PROVE  ReceiverAt(r)'
<1>1. sawEscape' <=> Odd(r)
  BY ConsumeHop
<1>2. UNCHANGED <<sent, mayMiss>>
  BY DEF Consume, resetVars
<1>3. Past(r)'
  BY <1>2, PastHop DEF ReceiverAt
<1>4. Parity(r)' /\ Found(r)'
  BY <1>1 DEF Parity, Found, Odd
<1>5. InStep(r)'
  BY <1>2 DEF InStep
<1> QED
  BY <1>3, <1>4, <1>5 DEF ReceiverAt

(* The place a relevant byte of a field is read at.                         *)
LEMMA FieldType ==
  ASSUME IInv, NEW q, PositionOK(sent, q), NEW r, PositionOK(sent, r), q.k > 0
  PROVE  /\ Payload(sent, q.k) \in Seq(Byte) /\ Len(Payload(sent, q.k)) \in Nat
         /\ q.j \in Nat /\ r.j \in Nat /\ q.j + 1 \in Nat /\ q.crc \in Crc /\ r.half \in BOOLEAN
         /\ buf \in Seq(Byte) /\ rx \in Seq(Byte) /\ uremaining \in Nat
         /\ Len(buf) \in Nat /\ Len(rx) \in Nat
<1>1. TypeOK /\ buf \in Seq(Byte) /\ rx \in Seq(Byte) /\ uremaining \in Nat
  BY DEF IInv, TypeOK, UnframerTypeOK
<1> QED
  BY <1>1, PositionType

LEMMA FindPacketLengthMoves ==
  ASSUME IInv, SentPayloads, NEW q, PositionOK(sent, q), NEW r, PositionOK(sent, r),
         Hop(sent, q, Head(input), r), ReceiverAt(q), FindPacketLength
  PROVE  ReceiverAt(r)'
<1> DEFINE p == Payload(sent, q.k)
           x == ByteAt(p, q.crc, q.j + 1)
<1>1. /\ ustate = "kFindPacketLength" /\ Consume
      /\ UNCHANGED <<rx, delivered, sent>>
  BY DEF FindPacketLength, Consume
<1>2. \A s : Delivered(s) => Delivered(s)'
  BY <1>1 DEF Delivered
<1>3. ASSUME r.k > mayMiss, r.j >= 2 PROVE InLength(r)' \/ InPayload(r)'
  <2>1. /\ Within(sent, q, Head(input), r) /\ r.k = q.k /\ q.j >= 2 /\ q.k > 0
        /\ r.half => Filled = buf /\ r.j = q.j
        /\ ~r.half => Filled = Append(buf, x) /\ r.j = q.j + 1
    BY <1>1, <1>3, ConsumeHop
  <2>2. InLength(q)
    BY <1>1, <1>3, ConsumeHop DEF InPayload, InCrc
  <2>3. /\ p \in Seq(Byte) /\ Len(p) \in Nat /\ q.j \in Nat /\ q.crc \in Crc
        /\ r.half \in BOOLEAN /\ buf \in Seq(Byte) /\ Len(buf) \in Nat
    BY <2>1, FieldType
  <2>4. /\ q.j < 6 /\ ucrc = q.crc /\ rx = <<>> /\ Len(buf) = q.j - 2
        /\ \A i \in 1 .. Len(buf) : buf[i] = LengthField(Len(p))[i]
    BY <2>2 DEF InLength
  <2>5. Len(p) < (MaxByte + 1) * (MaxByte + 1)
    <3>1. TypeOK /\ q.k \in 1 .. Len(sent)
      BY <2>1, PositionType DEF IInv
    <3> QED
      BY <3>1, PayloadsAssumption DEF SentPayloads, Payload
  <2>6. ucrc' = r.crc
    <3>1. Summed(p, q.j + 1)
      BY <2>3, <2>4 DEF Summed
    <3>2. ucrc' = UpdateCrc(ucrc, Head(input))
      BY <1>1 DEF Consume
    <3> QED
      BY <2>1, <2>4, <3>1, <3>2 DEF Within
  <2> HIDE DEF p, x
  <2>7. CASE r.half
    <3>3. Filled = buf /\ r.j = q.j
      BY <2>1, <2>7
    <3>4. Len(buf) # 4
      BY <2>3, <2>4
    <3>1. Len(Filled) # kPayloadLength /\ Filled = buf /\ r.j = q.j
      BY <3>3, <3>4 DEF kPayloadLength
    <3>2. buf' = buf /\ ustate' = ustate
      BY <3>1 DEF FindPacketLength
    <3> QED
      BY <1>1, <2>1, <2>4, <2>6, <3>1, <3>2 DEF InLength, p
  <2>8. CASE ~r.half
    <3>1. Filled = Append(buf, x) /\ r.j = q.j + 1
      BY <2>1, <2>8
    <3>2. x = LengthField(Len(p))[q.j - 1] /\ x \in Byte
      <4>1. LengthField(Len(p)) \in Seq(Byte) /\ Len(LengthField(Len(p))) = 4
        BY <2>3, <2>5, LengthFieldType, LengthReadBack
      <4>2. q.j - 1 \in 1 .. 4 /\ (q.j + 1) - 2 = q.j - 1
        BY <2>1, <2>3, <2>4
      <4>3. q.j + 1 # 0 /\ q.j + 1 # 1 /\ q.j + 1 # 2 /\ q.j + 1 <= 6
        BY <2>1, <2>3, <2>4
      <4>4. x = LengthField(Len(p))[q.j - 1]
        BY <4>2, <4>3 DEF ByteAt, x
      <4>5. q.j - 1 \in 1 .. Len(LengthField(Len(p)))
        BY <4>1, <4>2
      <4>6. LengthField(Len(p))[q.j - 1] \in Byte
        BY <4>1, <4>5, ElementOfSeq
      <4> QED
        BY <4>4, <4>6
    <3>3. /\ Filled \in Seq(Byte) /\ Len(Filled) = Len(buf) + 1
          /\ Filled[Len(buf) + 1] = x /\ \A i \in 1 .. Len(buf) : Filled[i] = buf[i]
      BY <2>3, <3>1, <3>2, AppendAt
    <3>4. Len(buf) + 1 = q.j - 1 /\ Len(Filled) = r.j - 2 /\ Len(Filled) \in Nat
      BY <2>3, <2>4, <3>1, <3>3
    <3>5. \A i \in 1 .. Len(Filled) : Filled[i] = LengthField(Len(p))[i]
      <4> SUFFICES ASSUME NEW i \in 1 .. Len(Filled) PROVE Filled[i] = LengthField(Len(p))[i]
        OBVIOUS
      <4>1. CASE i = Len(buf) + 1
        BY <3>2, <3>3, <3>4, <4>1
      <4>2. CASE i # Len(buf) + 1
        <5>1. i \in 1 .. Len(buf)
          BY <2>3, <3>3, <4>2
        <5> QED
          BY <2>4, <3>3, <5>1
      <4> QED
        BY <4>1, <4>2
    <3>6. CASE Len(Filled) = kPayloadLength
      <4>1. r.j = 6
        BY <2>3, <3>1, <3>4, <3>6 DEF kPayloadLength
      <4>2. uremaining' = LengthValue(Filled) /\ ustate' = "kFindPacketCrc" /\ buf' = <<>>
        BY <3>6 DEF FindPacketLength
      <4>3. Filled = LengthField(Len(p))
        <5>1. LengthField(Len(p)) \in Seq(Byte) /\ Len(LengthField(Len(p))) = Len(Filled)
          BY <2>3, <2>5, <3>6, LengthFieldType, LengthReadBack DEF kPayloadLength
        <5>2. Filled \in Seq(Byte)
          BY <3>3
        <5> QED
          BY <3>5, <5>1, <5>2, SeqEqual
      <4>4. uremaining' = Len(p)
        BY <2>3, <2>5, <4>2, <4>3, LengthReadBack
      <4>5. rx' = <<>>
        BY <1>1, <2>4
      <4>6. Payload(sent', r.k) = p
        BY <1>1, <2>1 DEF p
      <4>7. 6 < 6 + Len(p) \/ Len(p) = 0
        BY <2>3
      <4>8. Len(p) = Len(p) - Len(<<>>) /\ Len(<<>>) + Len(<<>>) = 6 - 6
        BY <2>3
      <4>9. InPayload(r)'
        BY <2>6, <4>1, <4>2, <4>4, <4>5, <4>6, <4>7, <4>8 DEF InPayload
      <4> QED
        BY <4>9
    <3>7. CASE Len(Filled) # kPayloadLength
      <4>1. buf' = Filled /\ ustate' = ustate
        BY <3>7 DEF FindPacketLength
      <4>2. r.j < 6
        BY <2>3, <2>4, <3>1, <3>4, <3>7 DEF kPayloadLength
      <4> QED
        BY <1>1, <2>1, <2>4, <2>6, <3>4, <3>5, <4>1, <4>2 DEF InLength, p
    <3> QED
      BY <3>6, <3>7
  <2> QED
    BY <2>7, <2>8
<1>4. r.k > mayMiss /\ r.j >= 2 => InStep(r)'
  BY <1>3 DEF InStep
<1> QED
  BY <1>1, <1>2, <1>4, ConsumeMoves

LEMMA FindCrcEndMoves ==
  ASSUME IInv, NEW q, PositionOK(sent, q), NEW r, PositionOK(sent, r),
         Hop(sent, q, Head(input), r), ReceiverAt(q), FindCrcEnd
  PROVE  ReceiverAt(r)'
<1> DEFINE p == Payload(sent, q.k)
           x == ByteAt(p, q.crc, q.j + 1)
<1>1. /\ ustate = "kFindCrcEnd" /\ Consume
      /\ UNCHANGED <<rx, sent>> /\ ucrc' = ucrc
  BY DEF FindCrcEnd, Consume
<1>0. delivered \in Seq(Seq(Byte)) /\ rx \in Seq(Byte)
  BY DEF IInv, TypeOK, UnframerTypeOK
<1>2. \A s : Delivered(s) => Delivered(s)'
  <2>1. delivered' = delivered \/ delivered' = Append(delivered, rx)
    BY DEF FindCrcEnd
  <2>2. DOMAIN delivered = 1 .. Len(delivered)
    BY <1>0
  <2>3. \A i \in DOMAIN delivered : i \in DOMAIN delivered' /\ delivered'[i] = delivered[i]
    <3>1. CASE delivered' = delivered
      BY <3>1
    <3>2. CASE delivered' = Append(delivered, rx)
      <4> SUFFICES ASSUME NEW i \in DOMAIN delivered
                   PROVE  i \in DOMAIN delivered' /\ delivered'[i] = delivered[i]
        OBVIOUS
      <4>1. /\ Len(delivered) \in Nat /\ i \in 1 .. Len(delivered)
            /\ delivered' \in Seq(Seq(Byte)) /\ Len(delivered') = Len(delivered) + 1
            /\ delivered'[i] = delivered[i]
        BY <1>0, <2>2, <3>2, AppendAt
      <4> QED
        BY <4>1
    <3> QED
      BY <2>1, <3>1, <3>2
  <2> QED
    BY <2>3 DEF Delivered
<1>3. ASSUME r.k > mayMiss, r.j >= 2 PROVE InCrc(r)' \/ Complete(r)'
  <2>1. /\ Within(sent, q, Head(input), r) /\ r.k = q.k /\ q.j >= 2 /\ q.k > 0
        /\ r.half => Filled = buf /\ r.j = q.j
        /\ ~r.half => Filled = Append(buf, x) /\ r.j = q.j + 1
    BY <1>1, <1>3, ConsumeHop
  <2>2. InCrc(q)
    BY <1>1, <1>3, ConsumeHop DEF InPayload, InLength
  <2>3. /\ p \in Seq(Byte) /\ Len(p) \in Nat /\ q.j \in Nat /\ q.crc \in Crc
        /\ r.half \in BOOLEAN /\ buf \in Seq(Byte) /\ Len(buf) \in Nat
    BY <2>1, FieldType
  <2>4. /\ q.j >= 6 + Len(p) /\ q.j < 8 + Len(p) /\ ucrc = q.crc /\ rx = p
        /\ Len(buf) = q.j - 6 - Len(p)
        /\ \A i \in 1 .. Len(buf) : buf[i] = q.crc[i]
    BY <2>2 DEF InCrc, LastItem
  <2>5. q.crc \in Seq(Byte) /\ Len(q.crc) = 2
    BY <2>3, CrcIsBytes DEF Crc
  <2>6. r.crc = q.crc /\ Payload(sent', r.k) = p
    <3>1. ~Summed(p, q.j + 1)
      BY <2>3, <2>4 DEF Summed
    <3> QED
      BY <1>1, <2>1, <3>1 DEF Within
  <2> HIDE DEF p, x
  <2>7. CASE r.half
    <3>3. Filled = buf /\ r.j = q.j
      BY <2>1, <2>7
    <3>4. Len(buf) # 2
      BY <2>3, <2>4
    <3>1. Len(Filled) # kCrc /\ Filled = buf /\ r.j = q.j
      BY <3>3, <3>4 DEF kCrc
    <3>2. buf' = buf /\ ustate' = ustate
      BY <3>1 DEF FindCrcEnd
    <3> QED
      BY <1>1, <2>3, <2>4, <2>6, <3>1, <3>2 DEF InCrc, LastItem
  <2>8. CASE ~r.half
    <3>1. Filled = Append(buf, x) /\ r.j = q.j + 1
      BY <2>1, <2>8
    <3>2. x = q.crc[Len(buf) + 1] /\ x \in Byte
      <4>1. Len(buf) + 1 \in 1 .. 2 /\ (q.j + 1) - 6 - Len(p) = Len(buf) + 1
        BY <2>3, <2>4
      <4>2. /\ q.j + 1 # 0 /\ q.j + 1 # 1 /\ q.j + 1 # 2 /\ ~(q.j + 1 <= 6)
            /\ ~(q.j + 1 <= 6 + Len(p))
        BY <2>3, <2>4
      <4>3. x = q.crc[Len(buf) + 1]
        BY <4>1, <4>2 DEF ByteAt, x
      <4> QED
        BY <2>5, <4>1, <4>3
    <3>3. /\ Filled \in Seq(Byte) /\ Len(Filled) = Len(buf) + 1
          /\ Filled[Len(buf) + 1] = x /\ \A i \in 1 .. Len(buf) : Filled[i] = buf[i]
      BY <2>3, <3>1, <3>2, AppendAt
    <3>4. Len(Filled) = r.j - 6 - Len(p) /\ Len(Filled) \in Nat
      BY <2>3, <2>4, <3>1, <3>3
    <3>5. \A i \in 1 .. Len(Filled) : Filled[i] = q.crc[i]
      <4> SUFFICES ASSUME NEW i \in 1 .. Len(Filled) PROVE Filled[i] = q.crc[i]
        OBVIOUS
      <4>1. CASE i = Len(buf) + 1
        BY <3>2, <3>3, <4>1
      <4>2. CASE i # Len(buf) + 1
        <5>1. i \in 1 .. Len(buf)
          BY <2>3, <3>3, <4>2
        <5> QED
          BY <2>4, <3>3, <5>1
      <4> QED
        BY <4>1, <4>2
    <3>6. CASE Len(Filled) = kCrc
      <4>1. r.j = 8 + Len(p)
        BY <2>3, <3>1, <3>4, <3>6 DEF kCrc
      <4>2. Filled = q.crc
        <5>1. Len(q.crc) = Len(Filled)
          BY <2>5, <3>6 DEF kCrc
        <5> QED
          BY <2>5, <3>3, <3>5, <5>1, SeqEqual
      <4>3. CrcMatches(Filled)
        BY <2>4, <4>2 DEF CrcMatches
      <4>4. delivered' = Append(delivered, rx) /\ ustate' = "kFindPacketStart"
        BY <3>6, <4>3 DEF FindCrcEnd
      <4>5. delivered'[Len(delivered) + 1] = p /\ Len(delivered) + 1 \in DOMAIN delivered'
        BY <1>0, <2>4, <4>4
      <4>6. Done(sent', r)
        BY <2>1, <2>6, <4>1 DEF Done, LastItem
      <4>7. Complete(r)'
        BY <2>6, <4>4, <4>5, <4>6 DEF Complete, Delivered
      <4> QED
        BY <4>7
    <3>7. CASE Len(Filled) # kCrc
      <4>1. buf' = Filled /\ ustate' = ustate
        BY <3>7 DEF FindCrcEnd
      <4>2. r.j < LastItem(p) /\ r.j >= 6 + Len(p)
        BY <2>3, <2>4, <3>1, <3>4, <3>7 DEF kCrc, LastItem
      <4> QED
        BY <1>1, <2>4, <2>6, <3>4, <3>5, <4>1, <4>2 DEF InCrc
    <3> QED
      BY <3>6, <3>7
  <2> QED
    BY <2>7, <2>8
<1>4. r.k > mayMiss /\ r.j >= 2 => InStep(r)'
  BY <1>3 DEF InStep
<1> QED
  BY <1>1, <1>2, <1>4, ConsumeMoves
-----------------------------------------------------------------------------
LEMMA FindPacketCrcMoves ==
  ASSUME IInv, NEW q, PositionOK(sent, q), NEW r, PositionOK(sent, r),
         Hop(sent, q, Head(input), r), ReceiverAt(q), FindPacketCrc
  PROVE  ReceiverAt(r)'
<1> DEFINE p == Payload(sent, q.k)
           x == ByteAt(p, q.crc, q.j + 1)
<1>1. /\ ustate = "kFindPacketCrc" /\ Consume
      /\ UNCHANGED <<delivered, sent>>
  BY DEF FindPacketCrc, Consume
<1>2. \A s : Delivered(s) => Delivered(s)'
  BY <1>1 DEF Delivered
<1>3. ASSUME r.k > mayMiss, r.j >= 2 PROVE InPayload(r)' \/ InCrc(r)'
  <2>1. /\ Within(sent, q, Head(input), r) /\ r.k = q.k /\ q.j >= 2 /\ q.k > 0
        /\ r.half => Filled = buf /\ r.j = q.j
        /\ ~r.half => Filled = Append(buf, x) /\ r.j = q.j + 1
    BY <1>1, <1>3, ConsumeHop
  <2>2. InPayload(q)
    BY <1>1, <1>3, ConsumeHop DEF InCrc, InLength
  <2>3. /\ p \in Seq(Byte) /\ Len(p) \in Nat /\ q.j \in Nat /\ q.crc \in Crc
        /\ r.half \in BOOLEAN /\ buf \in Seq(Byte) /\ Len(buf) \in Nat
        /\ rx \in Seq(Byte) /\ Len(rx) \in Nat /\ uremaining \in Nat /\ r.j \in Nat
    BY <2>1, FieldType
  <2>4. /\ q.j >= 6 /\ ucrc = q.crc
        /\ q.j < 6 + Len(p) \/ (q.j = 6 /\ Len(p) = 0)
        /\ uremaining = Len(p) - Len(rx) /\ Len(rx) + Len(buf) = q.j - 6
        /\ \A i \in 1 .. Len(rx) : rx[i] = p[i]
        /\ \A i \in 1 .. Len(buf) : buf[i] = p[Len(rx) + i]
    BY <2>2 DEF InPayload
  <2>12. /\ q.j >= 6 /\ uremaining = Len(p) - Len(rx) /\ Len(rx) + Len(buf) = q.j - 6
         /\ p \in Seq(Byte) /\ Len(p) \in Nat /\ q.j \in Nat /\ r.j \in Nat
         /\ Len(buf) \in Nat /\ Len(rx) \in Nat /\ uremaining \in Nat
    BY <2>3, <2>4
  <2>5. uremaining > 0
    BY <1>1, <2>3 DEF Consume, InPacket, PayloadComplete
  <2>6. q.j < 6 + Len(p)
    BY <2>3, <2>4, <2>5
  <2>7. /\ NumBytesToBuffer \in 1 .. uremaining /\ NumBytesToBuffer \in Nat
        /\ Len(buf) < NumBytesToBuffer
    <3>1. NumBytesToBuffer \in 1 .. uremaining /\ NumBytesToBuffer \in Nat
      BY <2>3, <2>5, BufferAssumption DEF NumBytesToBuffer
    <3>2. buf = <<>> \/ Len(buf) < NumBytesToBuffer
      BY <1>1 DEF IInv, BufferHasRoom
    <3>3. CASE buf = <<>>
      <4>1. Len(buf) = 0
        BY <3>3
      <4> QED
        BY <3>1, <4>1
    <3> QED
      BY <3>1, <3>2, <3>3
  <2>8. r.crc = ucrc' /\ Payload(sent', r.k) = p
    <3>1. Summed(p, q.j + 1)
      BY <2>3, <2>6 DEF Summed
    <3>2. ucrc' = UpdateCrc(ucrc, Head(input))
      BY <1>1 DEF Consume
    <3> QED
      BY <1>1, <2>1, <2>4, <3>1, <3>2 DEF Within
  <2> HIDE DEF p, x
  <2>9. /\ Filled \in Seq(Byte) /\ Len(Filled) \in Nat /\ Len(Filled) <= NumBytesToBuffer
        /\ Len(rx) + Len(Filled) = r.j - 6
        /\ \A i \in 1 .. Len(Filled) : Filled[i] = p[Len(rx) + i]
        /\ r.half => Len(Filled) < NumBytesToBuffer
    <3>1. CASE r.half
      BY <2>1, <2>3, <2>4, <2>7, <3>1
    <3>2. CASE ~r.half
      <4>1. Filled = Append(buf, x) /\ r.j = q.j + 1
        BY <2>1, <3>2
      <4>2. x = p[Len(rx) + (Len(buf) + 1)] /\ x \in Byte
        <5>1. /\ Len(rx) + (Len(buf) + 1) = (q.j + 1) - 6
              /\ Len(rx) + (Len(buf) + 1) \in 1 .. Len(p)
          BY <2>6, <2>12
        <5>2. /\ q.j + 1 # 0 /\ q.j + 1 # 1 /\ q.j + 1 # 2 /\ ~(q.j + 1 <= 6)
              /\ q.j + 1 <= 6 + Len(p)
          BY <2>3, <2>4, <2>6
        <5>3. x = p[Len(rx) + (Len(buf) + 1)]
          BY <5>1, <5>2 DEF ByteAt, x
        <5> QED
          BY <2>3, <5>1, <5>3, ElementOfSeq
      <4>3. /\ Filled \in Seq(Byte) /\ Len(Filled) = Len(buf) + 1
            /\ Filled[Len(buf) + 1] = x /\ \A i \in 1 .. Len(buf) : Filled[i] = buf[i]
        BY <2>3, <4>1, <4>2, AppendAt
      <4>4. Len(rx) + Len(Filled) = r.j - 6 /\ Len(Filled) <= NumBytesToBuffer
        <5>1. Len(Filled) = Len(buf) + 1 /\ r.j = q.j + 1
          BY <4>1, <4>3
        <5> QED
          BY <2>7, <2>12, <5>1
      <4>5. ASSUME NEW i \in 1 .. Len(Filled) PROVE Filled[i] = p[Len(rx) + i]
        <5>1. CASE i = Len(buf) + 1
          BY <4>2, <4>3, <5>1
        <5>2. CASE i # Len(buf) + 1
          <6>1. i \in 1 .. Len(buf)
            BY <2>3, <4>3, <5>2
          <6> QED
            BY <2>4, <4>3, <6>1
        <5> QED
          BY <5>1, <5>2
      <4> QED
        BY <2>3, <3>2, <4>3, <4>4, <4>5
    <3> QED
      BY <2>3, <3>1, <3>2
  <2>10. CASE Len(Filled) = NumBytesToBuffer \/ input' = <<>>
    <3>1. /\ rx' = rx \o Filled /\ uremaining' = uremaining - Len(Filled) /\ buf' = <<>>
          /\ ustate' = IF uremaining' = 0 THEN "kFindCrcEnd" ELSE ustate
      BY <2>10 DEF FindPacketCrc
    <3>2. /\ rx' \in Seq(Byte) /\ Len(rx') = Len(rx) + Len(Filled)
          /\ \A i \in 1 .. Len(rx) : rx'[i] = rx[i]
          /\ \A i \in 1 .. Len(Filled) : rx'[Len(rx) + i] = Filled[i]
      BY <2>3, <2>9, <3>1, Joined
    <3>3. Len(rx') = r.j - 6 /\ Len(rx') \in Nat /\ uremaining' = Len(p) - Len(rx')
      BY <2>3, <2>4, <2>9, <3>1, <3>2
    <3>4. \A i \in 1 .. Len(rx') : rx'[i] = p[i]
      <4> SUFFICES ASSUME NEW i \in 1 .. Len(rx') PROVE rx'[i] = p[i]
        OBVIOUS
      <4>1. CASE i <= Len(rx)
        <5>1. i \in 1 .. Len(rx)
          BY <2>3, <4>1
        <5> QED
          BY <2>4, <3>2, <5>1
      <4>2. CASE i > Len(rx)
        <5>1. i - Len(rx) \in 1 .. Len(Filled) /\ Len(rx) + (i - Len(rx)) = i
          BY <2>3, <2>9, <3>2, <4>2
        <5>2. Filled[i - Len(rx)] = p[Len(rx) + (i - Len(rx))]
          BY <2>9, <5>1
        <5>3. rx'[Len(rx) + (i - Len(rx))] = Filled[i - Len(rx)]
          BY <3>2, <5>1
        <5> QED
          BY <5>1, <5>2, <5>3
      <4> QED
        BY <2>3, <4>1, <4>2
    <3>5. Len(buf') = 0 /\ \A i \in 1 .. 0 : FALSE
      BY <3>1
    <3>6. CASE uremaining' = 0
      <4>1. Len(rx') = Len(p) /\ r.j = 6 + Len(p)
        BY <2>3, <3>3, <3>6
      <4>2. rx' = p
        BY <2>3, <3>2, <3>4, <4>1, SeqEqual
      <4>3. /\ r.j >= 6 + Len(p) /\ r.j < LastItem(p) /\ Len(buf') = r.j - 6 - Len(p)
        BY <2>3, <3>5, <4>1 DEF LastItem
      <4>4. ustate' = "kFindCrcEnd"
        BY <3>1, <3>6
      <4>5. \A i \in 1 .. Len(buf') : buf'[i] = r.crc[i]
        BY <3>5
      <4>6. InCrc(r)'
        BY <2>8, <4>2, <4>3, <4>4, <4>5 DEF InCrc
      <4> QED
        BY <4>6
    <3>7. CASE uremaining' # 0
      <4>1. r.j < 6 + Len(p) /\ r.j >= 6
        <5>1. uremaining' >= 0
          BY <2>3, <2>7, <2>9, <3>1
        <5>2. r.j - 6 = Len(p) - uremaining'
          BY <2>3, <3>3
        <5> QED
          BY <2>3, <3>3, <3>7, <5>1, <5>2
      <4>2. ustate' = "kFindPacketCrc" /\ Len(rx') + Len(buf') = r.j - 6
        BY <1>1, <2>3, <3>1, <3>3, <3>5, <3>7
      <4>3. \A i \in 1 .. Len(buf') : buf'[i] = p[Len(rx') + i]
        BY <3>5
      <4>4. InPayload(r)'
        BY <2>8, <3>3, <3>4, <4>1, <4>2, <4>3 DEF InPayload
      <4> QED
        BY <4>4
    <3> QED
      BY <3>6, <3>7
  <2>11. CASE ~(Len(Filled) = NumBytesToBuffer \/ input' = <<>>)
    <3>1. buf' = Filled /\ UNCHANGED <<rx, uremaining, ustate>>
      BY <2>11 DEF FindPacketCrc
    <3>2. Len(Filled) < uremaining
      BY <2>7, <2>9, <2>11, <2>12
    <3>3. r.j < 6 + Len(p) /\ r.j >= 6
      BY <2>9, <2>12, <3>2
    <3>4. InPayload(r)'
      BY <1>1, <2>4, <2>8, <2>9, <3>1, <3>3 DEF InPayload
    <3> QED
      BY <3>4
  <2> QED
    BY <2>10, <2>11
<1>4. r.k > mayMiss /\ r.j >= 2 => InStep(r)'
  BY <1>3 DEF InStep
<1> QED
  BY <1>1, <1>2, <1>4, ConsumeMoves

LEMMA AbortInvalidEscapeMoves ==
  ASSUME IInv, NEW q, PositionOK(sent, q), NEW r, PositionOK(sent, r),
         Hop(sent, q, Head(input), r), ReceiverAt(q), AbortInvalidEscape
  PROVE  ReceiverAt(r)' /\ MaxText > 0
<1>1. /\ ustate # "kFindPacketStart" /\ sawEscape /\ Head(input) \notin {kPacketStart, kEscapeNop, kEscapeStart}
      /\ ustate' = "kFindPacketStart" /\ UNCHANGED <<sent, mayMiss, delivered>> /\ TypeOK
  BY DEF AbortInvalidEscape, IsInvalidEscape, InPacket, ErrorReturn, resetVars, IInv
<1>2. Odd(q)
  BY <1>1 DEF ReceiverAt, Parity
<1>3. r.j = 0 /\ MaxText > 0
  BY <1>1, <1>2, HopByte
<1>4. Past(r)'
  <2>1. \A p : Delivered(p) => Delivered(p)'
    BY <1>1 DEF Delivered
  <2> QED
    BY <1>1, <2>1, PastHop DEF ReceiverAt
<1> QED
  BY <1>1, <1>3, <1>4 DEF ReceiverAt, Parity, Found, InStep

(* Two steps take no byte.                                                  *)
LEMMA AbortShortPacketStays ==
  ASSUME IInv, NEW q, PositionOK(sent, q), NEW r, PositionOK(sent, r),
         Hop(sent, q, Head(input), r), ReceiverAt(q), AbortShortPacket
  PROVE  ReceiverAt(q)'
<1>1. /\ ustate # "kFindPacketStart" /\ sawEscape /\ Head(input) = kPacketStart
      /\ ustate' = "kFindPacketStart" /\ UNCHANGED <<sent, mayMiss, delivered, sawEscape>> /\ TypeOK
  BY DEF AbortShortPacket, IsShortPacket, InPacket, ErrorReturn, resetVars, IInv
<1>2. Odd(q)
  BY <1>1 DEF ReceiverAt, Parity
<1>3. q.j = 1
  BY <1>1, <1>2, HopByte, Codes
<1> QED
  BY <1>1, <1>3 DEF ReceiverAt, Parity, Found, InStep, Past, Delivered

LEMMA FindPacketCrcEmptyStays ==
  ASSUME IInv, NEW q, PositionOK(sent, q), ReceiverAt(q), FindPacketCrcEmpty
  PROVE  ReceiverAt(q)'
<1>1. /\ ustate = "kFindPacketCrc" /\ uremaining = 0 /\ ustate' = "kFindCrcEnd"
      /\ UNCHANGED <<sent, mayMiss, delivered, sawEscape, buf, rx, ucrc>> /\ TypeOK
  BY DEF FindPacketCrcEmpty, PayloadComplete, resetVars, IInv
<1>2. ASSUME q.k > mayMiss, q.j >= 2 PROVE InCrc(q)'
  <2> DEFINE p == Payload(sent, q.k)
  <2>1. InPayload(q) /\ q.k > 0
    BY <1>1, <1>2 DEF ReceiverAt, InStep, InLength, InCrc, Complete, TypeOK, HistoryTypeOK,
                      PositionOK, Position
  <2>2. /\ p \in Seq(Byte) /\ Len(p) \in Nat /\ q.j \in Nat
        /\ buf \in Seq(Byte) /\ Len(buf) \in Nat /\ rx \in Seq(Byte) /\ Len(rx) \in Nat
    BY <2>1, FieldType
  <2>3. /\ q.j >= 6
        /\ q.j < 6 + Len(p) \/ (q.j = 6 /\ Len(p) = 0)
        /\ 0 = Len(p) - Len(rx) /\ Len(rx) + Len(buf) = q.j - 6 /\ ucrc = q.crc
    BY <1>1, <2>1 DEF InPayload
  <2> HIDE DEF p
  <2>4. q.j = 6 /\ Len(p) = 0 /\ Len(rx) = 0 /\ Len(buf) = 0
    BY <2>2, <2>3
  <2>5. rx = p
    BY <2>2, <2>4
  <2>6. \A i \in 1 .. Len(buf) : buf[i] = q.crc[i]
    BY <2>4
  <2>7. q.j >= 6 + Len(p) /\ q.j < LastItem(p) /\ Len(buf) = q.j - 6 - Len(p)
    BY <2>4 DEF LastItem
  <2> QED
    BY <1>1, <2>3, <2>5, <2>6, <2>7 DEF InCrc, p
<1>3. InStep(q)'
  BY <1>1, <1>2 DEF InStep
<1> QED
  BY <1>1, <1>3 DEF ReceiverAt, Parity, Found, Past, Delivered
-----------------------------------------------------------------------------
(* The stream leads from the Unframer's place to the Framer's.              *)
LEMMA InitPathInv == Init => PathInv
<1> SUFFICES ASSUME Init PROVE PathInv
  OBVIOUS
<1>1. IInv
  BY InitIInv
<1>2. SentPayloads
  BY DEF Init, SentPayloads
<1>3. PICK z : z = [k |-> 0, j |-> 0, half |-> FALSE, crc |-> CrcInit]
  OBVIOUS
<1>4. PICK Q : Q = [i \in {0} |-> z]
  OBVIOUS
<1>5. input \o wire = <<>> /\ Len(input \o wire) = 0
  BY DEF Init
<1>6. z \in Position /\ z.k = 0 /\ z.j = 0 /\ ~z.half /\ z.crc = CrcInit
  BY <1>3, CrcAssumption DEF Position
<1>7. PositionOK(sent, z)
  BY <1>6 DEF PositionOK, Init
<1>8. Path(sent, Q, input \o wire) /\ Q[0] = z
  <2>1. Q[0] = z
    BY <1>4
  <2> QED
    BY <1>5, <1>7, <2>1 DEF Path
<1>9. SenderAt(z)
  BY <1>6 DEF Init, SenderAt, Unfinished, NoCallAt
<1>10. ReceiverAt(z)
  <2>1. mayMiss = 0 /\ sent = <<>> /\ ustate = "kFindPacketStart"
    BY DEF Init
  <2>2. Past(z)
    BY <2>1 DEF Past
  <2> QED
    BY <1>6, <2>1, <2>2 DEF ReceiverAt, Parity, Found, InStep
<1>11. Steady /\ Ordered(z)
  BY <1>6 DEF Init, Steady, Ordered, DeliveredBy, DeliveredInOrder
<1> QED
  BY <1>1, <1>2, <1>5, <1>8, <1>9, <1>10, <1>11 DEF PathInv

(* The sender's steps leave the Unframer where it is. *)
LEMMA ReceiverStays ==
  ASSUME IInv, IInv', FramerNext, NEW q, PositionOK(sent, q), ReceiverAt(q)
  PROVE  ReceiverAt(q)'
<1>1. UNCHANGED <<ustate, sawEscape, buf, uremaining, ucrc, rx, delivered, mayMiss>>
  BY DEF FramerNext, StartPacket, WritePayloadChunk, FinishPacket, WriteAndCrc, StartPacketDone,
         WritePayloadChunkDone, FinishPacketDone, WriteError, SenderReset, PrintText,
         unframerVars, resetVars
<1>2. /\ Len(sent) \in Nat /\ Len(sent') \in Nat /\ Len(sent') >= Len(sent)
      /\ \A i \in 1 .. Len(sent) : sent'[i].payload = sent[i].payload
      /\ \A i \in 1 .. Len(sent) : i < Len(sent) => sent'[i].finished = sent[i].finished
  BY SentGrows DEF IInv
<1>3. q.k \in Nat /\ q.k <= Len(sent) /\ mayMiss \in Nat
  BY DEF PositionOK, Position, IInv, TypeOK, HistoryTypeOK
<1>4. q.k > mayMiss => Payload(sent', q.k) = Payload(sent, q.k)
  BY <1>2, <1>3 DEF Payload
<1>5. Past(q)'
  <2> SUFFICES ASSUME NEW i \in mayMiss + 1 .. Len(sent'), i < q.k, sent'[i].finished
               PROVE  Delivered(Payload(sent', i))
    BY <1>1 DEF Past, Delivered
  <2>1. i \in mayMiss + 1 .. Len(sent) /\ i \in 1 .. Len(sent) /\ i < Len(sent)
    BY <1>2, <1>3
  <2>2. sent[i].finished /\ Payload(sent', i) = Payload(sent, i)
    BY <1>2, <2>1 DEF Payload
  <2> QED
    BY <2>1, <2>2 DEF ReceiverAt, Past
<1>6. InStep(q)'
  <2> SUFFICES ASSUME q.k > mayMiss, q.j >= 2
               PROVE  InLength(q)' \/ InPayload(q)' \/ InCrc(q)' \/ Complete(q)'
    BY <1>1 DEF InStep
  <2>1. Payload(sent', q.k) = Payload(sent, q.k)
    BY <1>4
  <2>2. InLength(q) => InLength(q)'
    BY <1>1, <2>1 DEF InLength
  <2>3. InPayload(q) => InPayload(q)'
    BY <1>1, <2>1 DEF InPayload
  <2>4. InCrc(q) => InCrc(q)'
    BY <1>1, <2>1 DEF InCrc
  <2>5. Complete(q) => Complete(q)'
    BY <1>1, <2>1 DEF Complete, Done, Delivered
  <2> QED
    BY <2>2, <2>3, <2>4, <2>5 DEF ReceiverAt, InStep
<1> QED
  BY <1>1, <1>5, <1>6 DEF ReceiverAt, Parity, Found

LEMMA SentPayloadsKept ==
  ASSUME IInv, SentPayloads, [Next]_vars
  PROVE  SentPayloads'
<1>1. ASSUME FramerNext PROVE SentPayloads'
  <2>1. /\ Len(sent) \in Nat /\ Len(sent') \in Nat
        /\ \A i \in 1 .. Len(sent) : sent'[i].payload = sent[i].payload
    BY <1>1, SentGrows DEF IInv
  <2>2. Len(sent') = Len(sent) \/ \E p \in Payloads : StartPacket(p)
    <3>1. CASE FinishPacketDone
      BY <3>1 DEF FinishPacketDone, IInv, TypeOK, HistoryTypeOK
    <3>2. CASE ~FinishPacketDone
      BY <1>1, <3>2 DEF FramerNext, WritePayloadChunk, FinishPacket, WriteAndCrc, StartPacketDone,
         WritePayloadChunkDone, WriteError, SenderReset, PrintText
    <3> QED
      BY <3>1, <3>2
  <2>3. CASE Len(sent') = Len(sent)
    BY <2>1, <2>3 DEF SentPayloads
  <2>4. ASSUME NEW p \in Payloads, StartPacket(p) PROVE SentPayloads'
    <3>1. sent' = Append(sent, [payload |-> p, finished |-> FALSE]) /\ sent \in Seq(Packet)
      BY <2>4 DEF StartPacket, IInv, TypeOK, HistoryTypeOK
    <3>2. Len(sent') = Len(sent) + 1 /\ sent'[Len(sent) + 1].payload = p
      BY <3>1
    <3> QED
      BY <2>1, <3>2 DEF SentPayloads
  <2> QED
    BY <2>2, <2>3, <2>4
<1>2. ASSUME ~FramerNext PROVE UNCHANGED sent
  BY <1>2 DEF Next, UnframerStep, Receive, FindPacketStart, FindPacketLength, FindPacketCrc, Consume,
     FindPacketCrcEmpty, FindCrcEnd, AbortShortPacket, AbortInvalidEscape, ErrorReturn,
     ReceiverReset, vars
<1> QED
  BY <1>1, <1>2 DEF SentPayloads

-----------------------------------------------------------------------------
(* The order of what is delivered, when neither side is reset.              *)
LEMMA HopForward ==
  ASSUME TypeOK, NEW q, PositionOK(sent, q), NEW b, NEW r, PositionOK(sent, r), Hop(sent, q, b, r)
  PROVE  /\ r.k >= q.k
         /\ r.k = q.k /\ Done(sent, q) => Done(sent, r)
         /\ q.k = 0 => b # kPacketStart
         /\ MaxSenderResets = 0 /\ q.k > 0 =>
              Within(sent, q, b, r) \/ (b = kEscapeStart /\ ~Odd(q))
<1>1. q \in Position /\ q.k \in Nat /\ r.k \in Nat /\ q.j \in Nat
  BY PositionType DEF PositionOK
<1>2. CASE Within(sent, q, b, r)
  <2>1. r.k = q.k /\ q.k > 0 /\ q.j < LastItem(Payload(sent, q.k))
    BY <1>2 DEF Within
  <2>2. ~Done(sent, q)
    <3>1. Len(Payload(sent, q.k)) \in Nat
      BY <2>1, PositionType
    <3> QED
      BY <1>1, <2>1, <3>1 DEF Done, LastItem
  <2> QED
    BY <1>1, <1>2, <2>1, <2>2
<1>3. CASE Starts(sent, q, b, r)
  <2>1. r.k > q.k
    BY <1>3 DEF Starts
  <2>2. (b = kEscapeNop /\ Early(q)) \/ (b = kEscapeStart /\ ~Odd(q))
    BY <1>3 DEF Starts
  <2> QED
    BY <1>1, <2>1, <2>2, Codes DEF Early
<1>4. CASE Prints(sent, q, b, r)
  <2>1. b \in Text /\ Early(q)
    BY <1>4 DEF Prints
  <2>2. r.k = q.k /\ (Done(sent, q) => r = q)
    <3>1. CASE Done(sent, q)
      BY <1>4, <3>1 DEF Prints
    <3>2. CASE ~Done(sent, q)
      BY <1>1, <1>4, <3>2 DEF Prints, Position
    <3> QED
      BY <3>1, <3>2
  <2> QED
    BY <1>1, <2>1, <2>2, Codes DEF Early
<1> QED
  BY <1>2, <1>3, <1>4 DEF Hop

(* A byte that completes no packet. *)
LEMMA OrderedHop ==
  ASSUME IInv, NEW q, PositionOK(sent, q), NEW b, NEW r, PositionOK(sent, r), Hop(sent, q, b, r),
         Ordered(q), UNCHANGED <<sent, delivered>>,
         q.k = 0 /\ ustate = "kFindPacketStart" => ustate' = "kFindPacketStart"
  PROVE  Ordered(r)'
<1> SUFFICES ASSUME NoResets
             PROVE  /\ r.k = 0 => ustate' = "kFindPacketStart"
                    /\ DeliveredBy(r)' /\ DeliveredInOrder'
  BY DEF Ordered, NoResets
<1>1. /\ q.k = 0 => ustate = "kFindPacketStart"
      /\ DeliveredBy(q) /\ DeliveredInOrder
  BY DEF Ordered
<1>2. q.k \in Nat /\ r.k \in Nat /\ r.k >= q.k /\ (r.k = q.k /\ Done(sent, q) => Done(sent, r))
  BY PositionType, HopForward DEF IInv
<1>3. r.k = 0 => ustate' = "kFindPacketStart"
  BY <1>1, <1>2
<1>4. DeliveredBy(r)'
  <2> SUFFICES ASSUME NEW i \in DOMAIN delivered
               PROVE  \E k \in 1 .. r.k : Sent(k, delivered[i]) /\ (k = r.k => Done(sent, r))
    BY DEF DeliveredBy, Sent
  <2>1. PICK k \in 1 .. q.k : Sent(k, delivered[i]) /\ (k = q.k => Done(sent, q))
    BY <1>1 DEF DeliveredBy
  <2>2. k \in 1 .. r.k /\ (k = r.k => k = q.k /\ r.k = q.k)
    BY <1>2
  <2> QED
    BY <1>2, <2>1, <2>2
<1>5. DeliveredInOrder'
  BY <1>1 DEF DeliveredInOrder, Sent
<1> QED
  BY <1>3, <1>4, <1>5

(* A packet is delivered when its last byte is read. *)
LEMMA OrderedDelivery ==
  ASSUME IInv, Steady, NEW q, PositionOK(sent, q), Ordered(q), NoResets, q.k > 0, ~Done(sent, q),
         NEW r, r.k = q.k, Done(sent, r), rx = Payload(sent, q.k),
         sent' = sent, delivered' = Append(delivered, rx)
  PROVE  Ordered(r)'
<1> DEFINE n == Len(delivered) + 1
           p == Payload(sent, q.k)
<1>1. DeliveredBy(q) /\ DeliveredInOrder
  BY DEF Ordered
<1>2. q.k \in Nat /\ q.k \in 1 .. Len(sent) /\ Len(sent) \in Nat /\ DOMAIN sent = 1 .. Len(sent)
  BY PositionType DEF IInv, TypeOK, HistoryTypeOK
<1>3. /\ Len(delivered) \in Nat /\ n \in Nat /\ DOMAIN delivered = 1 .. Len(delivered)
      /\ DOMAIN delivered' = 1 .. n /\ delivered'[n] = p
      /\ \A i \in 1 .. Len(delivered) : delivered'[i] = delivered[i]
  <2>1. delivered \in Seq(Seq(Byte)) /\ rx \in Seq(Byte)
    BY DEF IInv, TypeOK, UnframerTypeOK
  <2> QED
    BY <2>1, AppendAt
<1> HIDE DEF n
<1>4. \A i \in 1 .. n : i # n => i \in DOMAIN delivered /\ delivered'[i] = delivered[i]
  BY <1>3 DEF n
<1>5. ASSUME NEW i \in DOMAIN delivered
      PROVE  \E k \in 1 .. q.k : Sent(k, delivered[i]) /\ k < q.k
  <2>1. PICK k \in 1 .. q.k : Sent(k, delivered[i]) /\ (k = q.k => Done(sent, q))
    BY <1>1, <1>5 DEF DeliveredBy
  <2>2. k < q.k
    BY <1>2, <2>1
  <2> QED
    BY <2>1, <2>2
<1>6. Sent(q.k, p)
  BY <1>2 DEF Sent, Payload
<1>7. ASSUME NEW k, NEW l, NEW x, Sent(k, x), Sent(l, x) PROVE k = l
  BY <1>7 DEF Steady, Sent
<1> HIDE DEF p
<1>8. DeliveredBy(r)'
  <2> SUFFICES ASSUME NEW i \in DOMAIN delivered'
               PROVE  \E k \in 1 .. r.k : Sent(k, delivered'[i]) /\ (k = r.k => Done(sent, r))
    BY DEF DeliveredBy, Sent
  <2>1. CASE i = n
    <3>1. q.k \in 1 .. r.k
      BY <1>2
    <3> QED
      BY <1>3, <1>6, <2>1, <3>1
  <2>2. CASE i # n
    <3>1. i \in DOMAIN delivered /\ delivered'[i] = delivered[i]
      BY <1>3, <1>4, <2>2
    <3> QED
      BY <1>5, <3>1
  <2> QED
    BY <2>1, <2>2
<1>9. ASSUME NEW i \in DOMAIN delivered' PROVE \E k \in DOMAIN sent : Sent(k, delivered'[i])
  <2>1. PICK k : Sent(k, delivered'[i])
    BY <1>8, <1>9 DEF DeliveredBy, Sent
  <2> QED
    BY <1>2, <2>1 DEF Sent
<1>10. ASSUME NEW i \in DOMAIN delivered', NEW j \in DOMAIN delivered', i < j,
              NEW k \in DOMAIN sent, NEW l \in DOMAIN sent,
              Sent(k, delivered'[i]), Sent(l, delivered'[j])
       PROVE  k < l
  <2>1. i # n
    BY <1>3, <1>10
  <2>2. i \in DOMAIN delivered /\ delivered'[i] = delivered[i]
    BY <1>3, <1>4, <2>1
  <2>3. CASE j = n
    <3>1. l = q.k
      BY <1>3, <1>6, <1>7, <1>10, <2>3
    <3>2. PICK m \in 1 .. q.k : Sent(m, delivered[i]) /\ m < q.k
      BY <1>5, <2>2
    <3>3. k = m
      BY <1>7, <1>10, <2>2, <3>2
    <3> QED
      BY <3>1, <3>2, <3>3
  <2>4. CASE j # n
    <3>1. j \in DOMAIN delivered /\ delivered'[j] = delivered[j]
      BY <1>3, <1>4, <2>4
    <3> QED
      BY <1>1, <1>10, <2>2, <3>1 DEF DeliveredInOrder
  <2> QED
    BY <2>3, <2>4
<1>11. DeliveredInOrder'
  <2>1. \A k, x : Sent(k, x) <=> k \in 1 .. Len(sent') /\ sent'[k].payload = x
    BY DEF Sent
  <2>2. \A i \in DOMAIN delivered' : \E k \in DOMAIN sent' : Sent(k, delivered[i])'
    BY <1>9, <2>1 DEF Sent
  <2>3. \A i, j \in DOMAIN delivered' :
          i < j => \A k, l \in DOMAIN sent' :
                     Sent(k, delivered[i])' /\ Sent(l, delivered[j])' => k < l
    BY <1>10, <2>1 DEF Sent
  <2> QED
    BY <2>2, <2>3 DEF DeliveredInOrder
<1>12. r.k # 0
  BY <1>2
<1> QED
  BY <1>8, <1>11, <1>12 DEF Ordered

(* The last byte of a CRC is of the packet the Unframer is in: the byte     *)
(* after a cut is the kEscapeStart of another, which completes nothing.     *)
LEMMA CompletesPacket ==
  ASSUME IInv, Steady, NoResets, NEW q, PositionOK(sent, q), NEW r, PositionOK(sent, r),
         Hop(sent, q, Head(input), r), ReceiverAt(q), Ordered(q), FindCrcEnd,
         delivered' # delivered
  PROVE  /\ q.k > 0 /\ r.k = q.k /\ ~Done(sent, q) /\ Done(sent, r)
         /\ rx = Payload(sent, q.k) /\ delivered' = Append(delivered, rx)
<1> DEFINE b == Head(input)
           p == Payload(sent, q.k)
<1>0. /\ ustate = "kFindCrcEnd" /\ Consume /\ sent' = sent
      /\ TypeOK /\ Len(buf) < kCrc /\ buf \in Seq(Byte)
  BY DEF FindCrcEnd, Consume, IInv, BufferHasRoom, TypeOK, UnframerTypeOK
<1>1. Len(Filled) = kCrc /\ delivered' = Append(delivered, rx)
  BY DEF FindCrcEnd
<1>2. Filled # buf
  <2>1. Len(buf) \in Nat /\ Len(buf) < 2 /\ Len(Filled) = 2
    BY <1>0, <1>1 DEF kCrc
  <2> QED
    BY <2>1
<1>3. ~(b = kEscapeStart /\ ~Odd(q))
  <2>1. sawEscape <=> Odd(q)
    BY <1>0 DEF ReceiverAt, Parity
  <2> QED
    BY <1>2, <2>1 DEF Filled, IsLiteral
<1>4. q.k > 0 /\ mayMiss = 0 /\ q.j \in Nat /\ q.half \in BOOLEAN /\ r.half \in BOOLEAN
  <2>1. q.k # 0
    BY <1>0 DEF Ordered
  <2>2. q.k \in Nat /\ q.j \in Nat /\ q.half \in BOOLEAN /\ r.half \in BOOLEAN
    BY <1>0, PositionType
  <2> QED
    BY <2>1, <2>2 DEF Steady, NoResets
<1>5. Within(sent, q, b, r)
  BY <1>0, <1>3, <1>4, HopForward DEF NoResets
<1>6. /\ r.k = q.k
      /\ r.half => r.j = q.j /\ q.j >= 2
      /\ ~r.half => r.j = q.j + 1
      /\ q.j = 0 => b = kEscapeStart
      /\ q.half => q.j >= 2
  BY <1>0, <1>5, WithinByte, PositionType
<1>7. q.j # 0
  BY <1>3, <1>6 DEF Odd
<1>8. r.j >= 2
  BY <1>4, <1>6, <1>7
<1>9. /\ InLength(q) \/ InPayload(q) \/ InCrc(q)
      /\ r.half => Filled = buf
      /\ ~r.half => Filled = Append(buf, ByteAt(p, q.crc, q.j + 1))
  BY <1>0, <1>4, <1>6, <1>8, ConsumeHop
<1>10. InCrc(q)
  BY <1>0, <1>9 DEF InLength, InPayload
<1>11. p \in Seq(Byte) /\ Len(p) \in Nat /\ Len(buf) \in Nat
  BY <1>0, <1>4, PositionType
<1>12. Len(Filled) = Len(buf) + 1 /\ r.j = q.j + 1
  BY <1>0, <1>2, <1>6, <1>9
<1>13. /\ q.j < LastItem(p) /\ rx = p
       /\ Len(buf) = q.j - 6 - Len(p)
  BY <1>10 DEF InCrc
<1>14. r.j = LastItem(p) /\ q.j # LastItem(p)
  <2>1. Len(Filled) = 2 /\ LastItem(p) = 8 + Len(p)
    BY <1>1 DEF LastItem, kCrc
  <2> HIDE DEF p
  <2>2. \A l, m, n \in Nat : m = n - 6 - l /\ m + 1 = 2 => n = 7 + l
    OBVIOUS
  <2>3. Len(buf) = q.j - 6 - Len(p) /\ Len(buf) + 1 = 2
    BY <1>12, <1>13, <2>1
  <2>4. q.j = 7 + Len(p)
    BY <1>4, <1>11, <2>2, <2>3
  <2> QED
    BY <1>11, <1>12, <2>1, <2>4
<1>15. Done(sent, r) /\ ~Done(sent, q)
  BY <1>4, <1>6, <1>14 DEF Done
<1> QED
  BY <1>1, <1>4, <1>6, <1>13, <1>15

LEMMA FindCrcEndOrdered ==
  ASSUME IInv, Steady, NEW q, PositionOK(sent, q), NEW r, PositionOK(sent, r),
         Hop(sent, q, Head(input), r), ReceiverAt(q), Ordered(q), FindCrcEnd
  PROVE  Ordered(r)'
<1>1. ustate = "kFindCrcEnd" /\ sent' = sent
  BY DEF FindCrcEnd, Consume
<1>2. CASE delivered' = delivered
  BY <1>1, <1>2, OrderedHop
<1>3. CASE delivered' # delivered
  <2> SUFFICES ASSUME NoResets PROVE Ordered(r)'
    BY DEF Ordered, NoResets
  <2> QED
    BY <1>1, <1>3, CompletesPacket, OrderedDelivery
<1> QED
  BY <1>2, <1>3

(* The Unframer's steps that take a byte, and those that take none.         *)
LEMMA TakingOrdered ==
  ASSUME IInv, Steady, NEW q, PositionOK(sent, q), NEW r, PositionOK(sent, r),
         Hop(sent, q, Head(input), r), ReceiverAt(q), Ordered(q),
         FindPacketStart \/ FindPacketLength \/ FindPacketCrc \/ FindCrcEnd \/ AbortInvalidEscape
  PROVE  Ordered(r)'
<1>1. CASE FindPacketStart
  <2>1. q.k = 0 => Head(input) # kPacketStart
    BY HopForward DEF IInv
  <2>2. Head(input) # kPacketStart => ustate' = ustate
    BY <1>1 DEF FindPacketStart
  <2>3. UNCHANGED <<sent, delivered>>
    BY <1>1 DEF FindPacketStart
  <2> QED
    BY <2>1, <2>2, <2>3, OrderedHop
<1>2. CASE FindPacketLength \/ FindPacketCrc
  <2>1. ustate # "kFindPacketStart" /\ UNCHANGED <<sent, delivered>>
    BY <1>2 DEF FindPacketLength, FindPacketCrc, Consume
  <2> QED
    BY <2>1, OrderedHop
<1>3. CASE FindCrcEnd
  BY <1>3, FindCrcEndOrdered
<1>4. CASE AbortInvalidEscape
  <2>1. ustate' = "kFindPacketStart" /\ UNCHANGED <<sent, delivered>>
    BY <1>4 DEF AbortInvalidEscape, ErrorReturn
  <2> QED
    BY <2>1, OrderedHop
<1> QED
  BY <1>1, <1>2, <1>3, <1>4

LEMMA OrderedStays ==
  ASSUME NEW q, Ordered(q), UNCHANGED <<sent, delivered>>,
         ustate = "kFindPacketStart" => ustate' = "kFindPacketStart"
  PROVE  Ordered(q)'
BY DEF Ordered, NoResets, DeliveredBy, DeliveredInOrder, Sent, Done, Payload

(* What was sent before keeps its number. *)
LEMMA SendingOrdered ==
  ASSUME IInv, Steady', FramerNext, NEW q, PositionOK(sent, q), Ordered(q)
  PROVE  Ordered(q)'
<1> SUFFICES ASSUME NoResets
             PROVE  /\ q.k = 0 => ustate' = "kFindPacketStart"
                    /\ DeliveredBy(q)' /\ DeliveredInOrder'
  BY DEF Ordered, NoResets
<1>1. /\ q.k = 0 => ustate = "kFindPacketStart"
      /\ DeliveredBy(q) /\ DeliveredInOrder
  BY DEF Ordered
<1>2. UNCHANGED <<ustate, delivered>>
  BY DEF FramerNext, StartPacket, WritePayloadChunk, FinishPacket, WriteAndCrc, StartPacketDone,
         WritePayloadChunkDone, FinishPacketDone, WriteError, SenderReset, PrintText, unframerVars
<1>3. /\ Len(sent) \in Nat /\ Len(sent') \in Nat /\ Len(sent') >= Len(sent)
      /\ \A i \in 1 .. Len(sent) : sent'[i].payload = sent[i].payload
  BY SentGrows DEF IInv
<1>4. DOMAIN sent = 1 .. Len(sent) /\ DOMAIN sent' = 1 .. Len(sent')
  <2>1. sent \in Seq(Packet) /\ IInv'
    BY FramerKeepsIInv DEF IInv, TypeOK, HistoryTypeOK
  <2>2. sent' \in Seq(Packet)
    BY <2>1 DEF IInv, TypeOK, HistoryTypeOK
  <2> QED
    BY <2>1, <2>2
<1>5. q.k \in Nat /\ q.k <= Len(sent)
  BY <1>3 DEF PositionOK, Position
<1>6. ASSUME NEW k, NEW x, Sent(k, x) PROVE Sent(k, x)'
  BY <1>3, <1>6 DEF Sent
<1>7. Done(sent, q) => Done(sent', q)
  BY <1>3, <1>5 DEF Done, Payload
<1>8. DeliveredBy(q)'
  <2> SUFFICES ASSUME NEW i \in DOMAIN delivered
               PROVE  \E k \in 1 .. q.k : Sent(k, delivered[i])' /\ (k = q.k => Done(sent', q))
    BY <1>2 DEF DeliveredBy
  <2>1. PICK k \in 1 .. q.k : Sent(k, delivered[i]) /\ (k = q.k => Done(sent, q))
    BY <1>1 DEF DeliveredBy
  <2>2. Sent(k, delivered[i])'
    BY <1>2, <1>3, <2>1 DEF Sent
  <2> QED
    BY <1>7, <2>1, <2>2
<1>9. ASSUME NEW i \in DOMAIN delivered, NEW k, Sent(k, delivered[i])' PROVE Sent(k, delivered[i])
  <2>1. PICK m \in 1 .. q.k : Sent(m, delivered[i])
    BY <1>1, <1>9 DEF DeliveredBy
  <2>2. Sent(m, delivered[i])'
    BY <1>2, <1>3, <2>1 DEF Sent
  <2>3. k = m
    BY <1>9, <2>2 DEF Steady, Sent
  <2> QED
    BY <2>1, <2>3
<1>10. DeliveredInOrder'
  <2>1. ASSUME NEW i \in DOMAIN delivered PROVE \E k \in DOMAIN sent' : Sent(k, delivered[i])'
    BY <1>4, <1>8, <2>1, <1>2 DEF DeliveredBy, Sent
  <2>2. ASSUME NEW i \in DOMAIN delivered, NEW j \in DOMAIN delivered, i < j,
               NEW k \in DOMAIN sent', NEW l \in DOMAIN sent',
               Sent(k, delivered[i])', Sent(l, delivered[j])'
        PROVE  k < l
    <3>1. Sent(k, delivered[i]) /\ Sent(l, delivered[j])
      BY <1>9, <2>2
    <3>2. k \in DOMAIN sent /\ l \in DOMAIN sent
      BY <1>4, <3>1 DEF Sent
    <3> QED
      BY <1>1, <2>2, <3>1, <3>2 DEF DeliveredInOrder
  <2> QED
    BY <1>2, <2>1, <2>2 DEF DeliveredInOrder
<1> QED
  BY <1>1, <1>2, <1>8, <1>10

LEMMA SteadyKept ==
  ASSUME IInv, Steady, [Next]_vars, WriteErrors = FALSE
  PROVE  Steady'
<1>1. sent \in Seq(Packet) /\ Len(sent) \in Nat /\ senderResets \in Nat /\ receiverResets \in Nat
  BY DEF IInv, TypeOK, HistoryTypeOK
<1>2. ASSUME UNCHANGED <<sent, mayMiss>>,
             fstate' = "kReset" => fstate = "kReset" /\ (call' # "StartPacket" => call # "StartPacket")
      PROVE  Steady'
  BY <1>2 DEF Steady
<1>3. ASSUME NEW p \in Payloads, StartPacket(p) PROVE Steady'
  <2>1. /\ call = "none" /\ call' = "StartPacket" /\ UNCHANGED <<fstate, mayMiss>>
        /\ \A k \in 1 .. Len(sent) : sent[k].payload # p
        /\ sent' = Append(sent, [payload |-> p, finished |-> FALSE])
    BY <1>3 DEF StartPacket, resetVars
  <2>2. /\ Len(sent') = Len(sent) + 1 /\ sent'[Len(sent) + 1].payload = p
        /\ \A k \in 1 .. Len(sent) : sent'[k] = sent[k]
    BY <1>1, <2>1
  <2>3. ASSUME NEW i \in 1 .. Len(sent'), NEW j \in 1 .. Len(sent'),
               sent'[i].payload = sent'[j].payload
        PROVE  i = j
    <3>1. i \in 1 .. Len(sent) \/ i = Len(sent) + 1
      BY <1>1, <2>2
    <3>2. j \in 1 .. Len(sent) \/ j = Len(sent) + 1
      BY <1>1, <2>2
    <3> QED
      BY <2>1, <2>2, <2>3, <3>1, <3>2 DEF Steady
  <2>4. MaxSenderResets = 0 /\ fstate' = "kReset" => Len(sent') = 1
    <3> SUFFICES ASSUME MaxSenderResets = 0, fstate = "kReset" PROVE Len(sent') = 1
      BY <2>1
    <3>1. sent = <<>>
      BY <2>1 DEF Steady
    <3> QED
      BY <2>2, <3>1
  <2> QED
    BY <2>1, <2>3, <2>4 DEF Steady
<1>4. ASSUME FinishPacketDone PROVE Steady'
  <2>1. fstate' = "kIdle" /\ mayMiss' = mayMiss
    BY <1>4 DEF FinishPacketDone, resetVars
  <2>2. FramerNext
    BY <1>4 DEF FramerNext
  <2>3. /\ Len(sent') = Len(sent)
        /\ \A i \in 1 .. Len(sent) : sent'[i].payload = sent[i].payload
    BY <1>1, <1>4, <2>2, SentGrows DEF FinishPacketDone, IInv
  <2> QED
    BY <2>1, <2>3 DEF Steady
<1>5. ASSUME SenderReset PROVE Steady'
  <2>1. MaxSenderResets # 0 /\ UNCHANGED <<sent, mayMiss>>
    BY <1>1, <1>5 DEF SenderReset
  <2> QED
    BY <2>1 DEF Steady
<1>6. ASSUME ReceiverReset PROVE Steady'
  <2>1. MaxReceiverResets # 0 /\ UNCHANGED <<sent, fstate, call>>
    BY <1>1, <1>6 DEF ReceiverReset, framerVars
  <2> QED
    BY <2>1 DEF Steady
<1>7. CASE \/ \E n \in 1 .. Len(pending) : WritePayloadChunk(n)
           \/ FinishPacket \/ WriteAndCrc \/ StartPacketDone \/ WritePayloadChunkDone
           \/ \E b \in Text : PrintText(b)
  BY <1>2, <1>7 DEF WritePayloadChunk, FinishPacket, WriteAndCrc, StartPacketDone,
     WritePayloadChunkDone, PrintText, framerVars, resetVars
<1>8. CASE UnframerStep \/ UNCHANGED vars
  BY <1>2, <1>8 DEF UnframerStep, Receive, FindPacketStart, FindPacketLength, FindPacketCrc,
     Consume, FindPacketCrcEmpty, FindCrcEnd, AbortShortPacket, AbortInvalidEscape, ErrorReturn,
     vars, framerVars, resetVars
<1> QED
  BY <1>3, <1>4, <1>5, <1>6, <1>7, <1>8 DEF Next, FramerNext, WriteError
-----------------------------------------------------------------------------
LEMMA StreamAppends ==
  ASSUME NEW a \in Seq(Byte), NEW w \in Seq(Byte), NEW b \in Byte
  PROVE  a \o Append(w, b) = Append(a \o w, b)
OBVIOUS

LEMMA StreamDrops ==
  ASSUME NEW a \in Seq(Byte), NEW w \in Seq(Byte), a # <<>>
  PROVE  /\ a \o w \in Seq(Byte) /\ Tail(a) \o w \in Seq(Byte) /\ Len(a \o w) \in Nat
         /\ Len(a \o w) >= 1 /\ (a \o w)[1] = Head(a)
         /\ Len(Tail(a) \o w) = Len(a \o w) - 1
         /\ \A i \in 1 .. Len(Tail(a) \o w) : (Tail(a) \o w)[i] = (a \o w)[i + 1]
OBVIOUS

LEMMA SenderKeepsPath ==
  ASSUME PathInv, IInv', FramerNext, WriteErrors = FALSE
  PROVE  PathInv'
<1>1. PICK Q, q, z : /\ Path(sent, Q, input \o wire) /\ Q[0] = q /\ Q[Len(input \o wire)] = z
                     /\ SenderAt(z) /\ ReceiverAt(q) /\ Ordered(q)
  BY DEF PathInv
<1>2. /\ IInv /\ SentPayloads /\ SentPayloads' /\ input \in Seq(Byte) /\ wire \in Seq(Byte)
      /\ input' = input
  BY SentPayloadsKept DEF PathInv, IInv, TypeOK, UnframerTypeOK, FramerNext, Next, StartPacket,
     WritePayloadChunk, FinishPacket, WriteAndCrc, StartPacketDone, WritePayloadChunkDone,
     FinishPacketDone, WriteError, SenderReset, PrintText, unframerVars
<1>3. PICK R \in Seq(Byte) : R = input \o wire
  <2>1. input \o wire \in Seq(Byte)
    BY <1>2, ConcatProperties
  <2> QED
    BY <2>1
<1>4. PositionOK(sent, q) /\ PositionOK(sent, z) /\ Len(R) \in Nat
  BY <1>1, <1>3 DEF Path
<1>8. Steady /\ Steady'
  BY SteadyKept DEF PathInv, Next
<1>5. ReceiverAt(q)' /\ Ordered(q)'
  BY <1>1, <1>2, <1>4, <1>8, ReceiverStays, SendingOrdered
<1>6. CASE Silent(z)
  <2>1. input' \o wire' = R /\ SenderAt(z)'
    BY <1>2, <1>3, <1>6 DEF Silent
  <2>2. PICK t : t = sent'
    OBVIOUS
  <2>3. Path(t, Q, R)
    <3>1. /\ Len(sent) \in Nat /\ Len(t) \in Nat /\ Len(t) >= Len(sent)
          /\ \A i \in 1 .. Len(sent) : t[i].payload = sent[i].payload
          /\ \A i \in 1 .. Len(sent) : i < Len(sent) => t[i].finished = sent[i].finished
      BY <1>2, <2>2, SentGrows DEF IInv
    <3> QED
      BY <1>1, <1>3, <3>1, PathStays
  <2>4. Path(sent', Q, input' \o wire') /\ Q[Len(input' \o wire')] = z
    BY <1>1, <1>3, <2>1, <2>2, <2>3
  <2> QED
    BY <1>1, <1>2, <1>5, <1>8, <2>1, <2>4 DEF PathInv
<1>7. CASE Sends(z)
  <2>1. PICK b \in Byte : \E r : /\ wire' = Append(wire, b) /\ sent' = sent
                                 /\ PositionOK(sent, r) /\ Hop(sent, z, b, r) /\ SenderAt(r)'
    BY <1>7 DEF Sends
  <2>2. PICK r : /\ wire' = Append(wire, b) /\ sent' = sent
                 /\ PositionOK(sent, r) /\ Hop(sent, z, b, r) /\ SenderAt(r)'
    BY <2>1
  <2>3. PICK P : Path(sent, P, Append(R, b)) /\ P[0] = Q[0] /\ P[Len(R) + 1] = r
    <3>1. Path(sent, Q, R) /\ Hop(sent, Q[Len(R)], b, r)
      BY <1>1, <1>3, <2>2
    <3> QED
      BY <2>2, <3>1, PathExtends
  <2>4. input' \o wire' = Append(R, b) /\ Len(Append(R, b)) = Len(R) + 1
    BY <1>2, <1>3, <2>2, StreamAppends
  <2>5. Path(sent', P, input' \o wire') /\ P[0] = q /\ P[Len(input' \o wire')] = r
    BY <1>1, <2>2, <2>3, <2>4
  <2> QED
    BY <1>2, <1>5, <1>8, <2>2, <2>5 DEF PathInv
<1> QED
  BY <1>1, <1>2, <1>4, <1>6, <1>7, <1>8, SenderMoves

LEMMA ReceiverKeepsPath ==
  ASSUME PathInv, IInv', UnframerStep, WriteErrors = FALSE
  PROVE  PathInv'
<1>1. PICK Q, q, z : /\ Path(sent, Q, input \o wire) /\ Q[0] = q /\ Q[Len(input \o wire)] = z
                     /\ SenderAt(z) /\ ReceiverAt(q) /\ Ordered(q)
  BY DEF PathInv
<1>2. /\ IInv /\ SentPayloads /\ SentPayloads' /\ input \in Seq(Byte) /\ wire \in Seq(Byte)
      /\ UNCHANGED <<framerVars, sent, mayMiss>>
  BY SentPayloadsKept DEF PathInv, IInv, TypeOK, UnframerTypeOK, Next, UnframerStep, Receive,
     FindPacketStart, FindPacketLength, FindPacketCrc, Consume, FindPacketCrcEmpty, FindCrcEnd,
     AbortShortPacket, AbortInvalidEscape, ErrorReturn, resetVars
<1>3. PICK R \in Seq(Byte) : R = input \o wire
  <2>1. input \o wire \in Seq(Byte)
    BY <1>2, ConcatProperties
  <2> QED
    BY <2>1
<1>4. PositionOK(sent, q) /\ PositionOK(sent, z) /\ Len(R) \in Nat
  BY <1>1, <1>3 DEF Path
<1>5. SenderAt(z)'
  BY <1>1, <1>2 DEF framerVars, SenderAt, NoCallAt, StartPacketAt, NotBegun, WritePayloadChunkAt,
     FinishPacketAt, Rest, Left, Current, Unfinished
<1>12. Steady /\ Steady'
  BY SteadyKept DEF PathInv, Next
<1>6. ASSUME input' \o wire' = input \o wire, ReceiverAt(q)', Ordered(q)' PROVE PathInv'
  BY <1>1, <1>2, <1>5, <1>6, <1>12 DEF PathInv
<1>7. CASE \E n \in 1 .. MaxChunk : Receive(n)
  <2>1. PICK n \in 1 .. MaxChunk : Receive(n)
    BY <1>7
  <2>2. /\ input = <<>> /\ n <= Len(wire) /\ input' = SubSeq(wire, 1, n)
        /\ wire' = SubSeq(wire, n + 1, Len(wire))
        /\ UNCHANGED <<ustate, sawEscape, buf, uremaining, ucrc, rx, delivered, sent, mayMiss>>
    BY <2>1 DEF Receive, resetVars
  <2>3. input' \o wire' = input \o wire
    <3>1. n \in Nat /\ n >= 1 /\ n <= Len(wire)
      BY <2>2, BoundsAssumption
    <3>2. SubSeq(wire, 1, n) \o SubSeq(wire, n + 1, Len(wire)) = wire
      BY <1>2, <3>1
    <3> QED
      BY <1>2, <2>2, <3>2
  <2>4. ReceiverAt(q)'
    BY <1>1, <2>2 DEF ReceiverAt, Parity, Found, InStep, Past, InLength, InPayload, InCrc, Complete,
       Delivered
  <2>5. delivered' = delivered
    BY <2>1 DEF Receive
  <2> QED
    BY <1>1, <1>6, <2>2, <2>3, <2>4, <2>5, OrderedStays
<1>8. CASE FindPacketCrcEmpty
  <2>1. input' \o wire' = input \o wire
    BY <1>8 DEF FindPacketCrcEmpty
  <2>2. ustate # "kFindPacketStart" /\ UNCHANGED <<sent, delivered>>
    BY <1>8 DEF FindPacketCrcEmpty, PayloadComplete
  <2>3. ReceiverAt(q)' /\ Ordered(q)'
    BY <1>1, <1>2, <1>4, <1>8, <2>2, FindPacketCrcEmptyStays, OrderedStays
  <2> QED
    BY <1>6, <2>1, <2>3
<1>9. ASSUME input # <<>>
      PROVE  \E r : /\ PositionOK(sent, r) /\ Hop(sent, q, Head(input), r)
                    /\ input' = Tail(input) /\ wire' = wire /\ ReceiverAt(r)' /\ Ordered(r)'
                       => PathInv'
  <2>1. /\ Tail(input) \o wire \in Seq(Byte) /\ Len(R) >= 1 /\ R[1] = Head(input)
        /\ Len(Tail(input) \o wire) = Len(R) - 1
        /\ \A i \in 1 .. Len(Tail(input) \o wire) : (Tail(input) \o wire)[i] = R[i + 1]
    BY <1>2, <1>3, <1>9, StreamDrops
  <2>2. PICK T \in Seq(Byte) : T = Tail(input) \o wire
    BY <2>1
  <2>3. PICK P : Path(sent, P, T) /\ P[0] = Q[1] /\ P[Len(T)] = Q[Len(R)]
    <3>1. 1 \in 0 .. Len(R) /\ Path(sent, Q, R)
      BY <1>1, <1>3, <1>4, <2>1
    <3>2. Behind(T, R, 1)
      BY <2>1, <2>2 DEF Behind
    <3> QED
      BY <3>1, <3>2, PathDrops
  <2>4. PositionOK(sent, Q[1]) /\ Hop(sent, q, Head(input), Q[1])
    <3>1. 1 \in 1 .. Len(R) /\ 1 \in 0 .. Len(R) /\ 1 - 1 = 0
      BY <1>4, <2>1
    <3>2. PositionOK(sent, Q[1]) /\ Hop(sent, Q[1 - 1], R[1], Q[1])
      BY <1>1, <1>3, <3>1 DEF Path
    <3> QED
      BY <1>1, <2>1, <3>1, <3>2
  <2>5. ASSUME input' = Tail(input), wire' = wire, ReceiverAt(Q[1])', Ordered(Q[1])'
        PROVE  PathInv'
    <3>1. input' \o wire' = T
      BY <2>2, <2>5
    <3>2. Path(sent', P, input' \o wire') /\ P[0] = Q[1] /\ P[Len(input' \o wire')] = z
      BY <1>1, <1>2, <1>3, <2>3, <3>1
    <3> QED
      BY <1>2, <1>5, <1>12, <2>5, <3>2 DEF PathInv
  <2> QED
    BY <2>4, <2>5
<1>10. CASE FindPacketStart \/ FindPacketLength \/ FindPacketCrc \/ FindCrcEnd \/ AbortInvalidEscape
  <2>1. input # <<>> /\ input' = Tail(input) /\ wire' = wire
    BY <1>10 DEF FindPacketStart, FindPacketLength, FindPacketCrc, FindCrcEnd, Consume,
       AbortInvalidEscape, IsInvalidEscape, InPacket, ErrorReturn
  <2>2. PICK r : /\ PositionOK(sent, r) /\ Hop(sent, q, Head(input), r)
                 /\ input' = Tail(input) /\ wire' = wire /\ ReceiverAt(r)' /\ Ordered(r)'
                    => PathInv'
    BY <1>9, <2>1
  <2>3. ReceiverAt(r)'
    BY <1>1, <1>2, <1>4, <1>10, <2>2, FindPacketStartMoves, FindPacketLengthMoves,
       FindPacketCrcMoves, FindCrcEndMoves, AbortInvalidEscapeMoves
  <2>4. Ordered(r)'
    BY <1>1, <1>2, <1>4, <1>10, <1>12, <2>2, TakingOrdered
  <2> QED
    BY <2>1, <2>2, <2>3, <2>4
<1>11. CASE AbortShortPacket
  <2>1. input # <<>> /\ input' \o wire' = input \o wire
    BY <1>11 DEF AbortShortPacket, IsShortPacket, InPacket, ErrorReturn
  <2>2. PICK r : PositionOK(sent, r) /\ Hop(sent, q, Head(input), r)
    BY <1>9, <2>1
  <2>3. ReceiverAt(q)'
    BY <1>1, <1>2, <1>4, <1>11, <2>2, AbortShortPacketStays
  <2>4. Ordered(q)'
    <3>1. ustate' = "kFindPacketStart" /\ UNCHANGED <<sent, delivered>>
      BY <1>11 DEF AbortShortPacket, ErrorReturn
    <3> QED
      BY <1>1, <3>1, OrderedStays
  <2> QED
    BY <1>6, <2>1, <2>3, <2>4
<1> QED
  BY <1>7, <1>8, <1>10, <1>11 DEF UnframerStep
-----------------------------------------------------------------------------
LEMMA ResetKeepsPath ==
  ASSUME PathInv, IInv', ReceiverReset, WriteErrors = FALSE
  PROVE  PathInv'
<1>1. PICK Q, q, z : /\ Path(sent, Q, input \o wire) /\ Q[0] = q /\ Q[Len(input \o wire)] = z
                     /\ SenderAt(z) /\ ReceiverAt(q) /\ Ordered(q)
  BY DEF PathInv
<1>2. /\ IInv /\ SentPayloads /\ SentPayloads' /\ input \in Seq(Byte) /\ wire \in Seq(Byte)
      /\ UNCHANGED <<framerVars, sent, wire>> /\ input' = <<>>
      /\ ustate' = "kFindPacketStart" /\ mayMiss' = Len(sent) /\ Len(sent) \in Nat
  <2>1. IInv /\ SentPayloads
    BY DEF PathInv
  <2>2. SentPayloads'
    BY <2>1, SentPayloadsKept DEF Next
  <2>3. input \in Seq(Byte) /\ wire \in Seq(Byte) /\ Len(sent) \in Nat
    BY <2>1 DEF IInv, TypeOK, UnframerTypeOK, HistoryTypeOK
  <2>4. /\ UNCHANGED <<framerVars, sent, wire>> /\ input' = <<>>
        /\ ustate' = "kFindPacketStart" /\ mayMiss' = Len(sent)
    BY DEF ReceiverReset
  <2> QED
    BY <2>1, <2>2, <2>3, <2>4
<1>3. /\ input \o wire \in Seq(Byte) /\ Len(input) \in 0 .. Len(input \o wire)
      /\ Len(wire) = Len(input \o wire) - Len(input)
      /\ \A i \in 1 .. Len(wire) : wire[i] = (input \o wire)[i + Len(input)]
  <2>1. /\ input \o wire \in Seq(Byte) /\ Len(input) \in Nat /\ Len(wire) \in Nat
        /\ Len(input \o wire) = Len(input) + Len(wire)
        /\ \A i \in 1 .. Len(wire) : (input \o wire)[Len(input) + i] = wire[i]
    BY <1>2, Joined
  <2>2. \A i \in 1 .. Len(wire) : Len(input) + i = i + Len(input)
    BY <2>1
  <2> QED
    BY <2>1, <2>2
<1>4. PICK R \in Seq(Byte) : R = input \o wire
  BY <1>3
<1>5. PICK n \in 0 .. Len(R) : n = Len(input)
  BY <1>3, <1>4
<1>6. PICK T \in Seq(Byte) : T = wire
  BY <1>2
<1>7. PICK P : Path(sent, P, T) /\ P[0] = Q[n] /\ P[Len(T)] = Q[Len(R)]
  <2>1. Path(sent, Q, R)
    BY <1>1, <1>4
  <2>2. Behind(T, R, n)
    BY <1>3, <1>4, <1>5, <1>6 DEF Behind
  <2> QED
    BY <2>1, <2>2, PathDrops
<1>8. PositionOK(sent, Q[n])
  BY <1>1, <1>4 DEF Path
<1>9. ReceiverAt(Q[n])'
  <2>1. Q[n].k \in Nat /\ Q[n].k <= Len(sent)
    BY <1>2, <1>8 DEF PositionOK, Position
  <2>2. ~(Q[n].k > mayMiss')
    BY <1>2, <2>1
  <2>3. Past(Q[n])'
    BY <1>2 DEF Past
  <2> QED
    BY <1>2, <2>2, <2>3 DEF ReceiverAt, Parity, Found, InStep
<1>10. SenderAt(z)'
  BY <1>1, <1>2 DEF framerVars, SenderAt, NoCallAt, StartPacketAt, NotBegun, WritePayloadChunkAt,
     FinishPacketAt, Rest, Left, Current, Unfinished
<1>11. input' \o wire' = T
  BY <1>2, <1>6
<1>12. Path(sent', P, input' \o wire') /\ P[0] = Q[n] /\ P[Len(input' \o wire')] = z
  BY <1>1, <1>2, <1>4, <1>7, <1>11
<1>13. Steady' /\ Ordered(Q[n])'
  <2>1. Steady'
    BY SteadyKept DEF PathInv, Next
  <2>2. MaxReceiverResets # 0
    BY DEF ReceiverReset, PathInv, IInv, TypeOK, HistoryTypeOK
  <2> QED
    BY <2>1, <2>2 DEF Ordered, NoResets
<1> QED
  BY <1>2, <1>9, <1>10, <1>12, <1>13 DEF PathInv

LEMMA StutterKeepsPath ==
  ASSUME PathInv, UNCHANGED vars
  PROVE  PathInv'
<1>1. PICK Q, q, z : /\ Path(sent, Q, input \o wire) /\ Q[0] = q /\ Q[Len(input \o wire)] = z
                     /\ SenderAt(z) /\ ReceiverAt(q) /\ Ordered(q)
  BY DEF PathInv
<1>2. UNCHANGED <<fstate, fremaining, fcrc, call, data, pending, wire, ustate, sawEscape, buf,
                  uremaining, ucrc, input, rx, delivered, sent, texts, senderResets,
                  receiverResets, mayMiss>>
  BY DEF vars, framerVars, unframerVars, resetVars
<1>3. IInv' /\ SentPayloads'
  BY <1>2, StutterKeepsIInv DEF PathInv, SentPayloads
<1>4. SenderAt(z)'
  BY <1>1, <1>2 DEF SenderAt, NoCallAt, StartPacketAt, NotBegun, WritePayloadChunkAt,
     FinishPacketAt, Rest, Left, Current, Unfinished
<1>5. ReceiverAt(q)'
  BY <1>1, <1>2 DEF ReceiverAt, Parity, Found, InStep, Past, InLength, InPayload, InCrc, Complete,
     Delivered
<1>6. Steady' /\ Ordered(q)'
  BY <1>1, <1>2, OrderedStays DEF PathInv, Steady
<1> QED
  BY <1>1, <1>2, <1>3, <1>4, <1>5, <1>6 DEF PathInv

LEMMA NextKeepsPath ==
  ASSUME PathInv, [Next]_vars, WriteErrors = FALSE
  PROVE  PathInv'
<1>1. IInv
  BY DEF PathInv
<1>2. CASE FramerNext
  BY <1>1, <1>2, FramerKeepsIInv, SenderKeepsPath
<1>3. CASE UnframerStep
  BY <1>1, <1>3, UnframerKeepsIInv, ReceiverKeepsPath
<1>4. CASE ReceiverReset
  BY <1>1, <1>4, UnframerKeepsIInv, ResetKeepsPath
<1>5. CASE UNCHANGED vars
  BY <1>5, StutterKeepsPath
<1> QED
  BY <1>2, <1>3, <1>4, <1>5 DEF Next

LEMMA PathIsOrdered == PathInv /\ NoResets => DeliveredInOrder
BY DEF PathInv, Ordered

(* What the path says once it is empty, and of the next byte.               *)
LEMMA PathLosesNothing == PathInv => NoFinishedPacketLost
<1> SUFFICES ASSUME PathInv, wire = <<>>, input = <<>>,
                    NEW k \in mayMiss + 1 .. Len(sent), sent[k].finished
             PROVE  Delivered(sent[k].payload)
  BY DEF NoFinishedPacketLost, Delivered
<1>1. PICK Q, q, z : /\ Path(sent, Q, input \o wire) /\ Q[0] = q /\ Q[Len(input \o wire)] = z
                     /\ SenderAt(z) /\ ReceiverAt(q) /\ Ordered(q)
  BY DEF PathInv
<1>2. Len(input \o wire) = 0 /\ q = z
  BY <1>1
<1>3. PositionOK(sent, q) /\ IInv
  BY <1>1, <1>2 DEF Path, PathInv
<1>4. /\ q.k \in Nat /\ mayMiss \in Nat /\ Len(sent) \in Nat /\ k \in Nat /\ k > mayMiss
      /\ k \in 1 .. Len(sent)
  BY <1>3 DEF PositionOK, Position, IInv, TypeOK, HistoryTypeOK
<1>5. CASE k < q.k
  BY <1>1, <1>5 DEF ReceiverAt, Past, Payload
<1>6. CASE ~(k < q.k)
  <2>1. k \in q.k .. (Len(sent) + 1) - 1 /\ k > 0
    BY <1>4, <1>6
  <2>2. k = q.k /\ Done(sent, q)
    BY <1>1, <1>2, <2>1 DEF SenderAt, Unfinished
  <2>3. Complete(q)
    BY <1>1, <1>3, <1>4, <2>2, DoneIsComplete DEF ReceiverAt
  <2> QED
    BY <2>2, <2>3 DEF Complete, Payload
<1> QED
  BY <1>5, <1>6

LEMMA PathHasNoInvalidEscape ==
  ASSUME PathInv, MaxText = 0
  PROVE  NoInvalidEscape
<1> SUFFICES ASSUME IsInvalidEscape PROVE FALSE
  BY DEF NoInvalidEscape
<1>1. PICK Q, q, z : /\ Path(sent, Q, input \o wire) /\ Q[0] = q /\ Q[Len(input \o wire)] = z
                     /\ SenderAt(z) /\ ReceiverAt(q) /\ Ordered(q)
  BY DEF PathInv
<1>2. /\ ustate # "kFindPacketStart" /\ sawEscape /\ input # <<>>
      /\ Head(input) \notin {kPacketStart, kEscapeNop, kEscapeStart}
      /\ IInv /\ TypeOK /\ input \in Seq(Byte) /\ wire \in Seq(Byte)
  BY DEF IsInvalidEscape, InPacket, PathInv, IInv, TypeOK, UnframerTypeOK
<1>3. Len(input \o wire) \in Nat /\ Len(input \o wire) >= 1 /\ (input \o wire)[1] = Head(input)
  BY <1>2, StreamDrops
<1>4. PositionOK(sent, q) /\ PositionOK(sent, Q[1]) /\ Hop(sent, q, Head(input), Q[1])
  <2>1. 0 \in 0 .. Len(input \o wire) /\ 1 \in 0 .. Len(input \o wire)
        /\ 1 \in 1 .. Len(input \o wire) /\ 1 - 1 = 0
    BY <1>3
  <2>2. Hop(sent, Q[1 - 1], (input \o wire)[1], Q[1])
    BY <1>1, <2>1 DEF Path
  <2> QED
    BY <1>1, <1>3, <2>1, <2>2 DEF Path
<1>5. Odd(q)
  BY <1>1, <1>2 DEF ReceiverAt, Parity
<1> QED
  BY <1>2, <1>4, <1>5, HopByte

(* As long as the stream takes every byte, each packet whose FinishPacket   *)
(* returned is delivered once all bytes are read, unless it was in flight   *)
(* when the receiver restarted: for every alphabet, CRC, set of payloads    *)
(* and chunking, any number of resets of the sender and log messages that   *)
(* cut packets short, and text printed between them.                        *)
THEOREM PacketsArrive ==
  ASSUME WriteErrors = FALSE
  PROVE  Spec => []NoFinishedPacketLost
<1>1. PathInv /\ [Next]_vars => PathInv'
  BY NextKeepsPath
<1> QED
  BY <1>1, InitPathInv, PathLosesNothing, PTL DEF Spec

(* If moreover no text is printed, no escape sequence the Unframer reads    *)
(* within a packet is invalid, even when it restarted in the middle of one: *)
(* main.cc never aborts the device for it.                                  *)
THEOREM EscapesValid ==
  ASSUME WriteErrors = FALSE, MaxText = 0
  PROVE  Spec => []NoInvalidEscape
<1>1. PathInv /\ [Next]_vars => PathInv'
  BY NextKeepsPath
<1>2. PathInv => NoInvalidEscape
  BY PathHasNoInvalidEscape
<1> QED
  BY <1>1, <1>2, InitPathInv, PTL DEF Spec

(* As long as neither side is reset and the stream takes every byte, what   *)
(* is delivered are payloads that were sent, each at most once and in the   *)
(* order they were started, whatever packets a log message cuts short and   *)
(* whatever text comes before the first.  The CRC is arbitrary here, even   *)
(* one that is the same for all packets: the escapes alone keep the pieces  *)
(* of two packets apart.                                                    *)
THEOREM OrderKept ==
  ASSUME WriteErrors = FALSE, MaxSenderResets = 0, MaxReceiverResets = 0
  PROVE  Spec => []DeliveredInOrder
<1>1. PathInv /\ [Next]_vars => PathInv'
  BY NextKeepsPath
<1>2. PathInv => DeliveredInOrder
  BY PathIsOrdered DEF NoResets
<1> QED
  BY <1>1, <1>2, InitPathInv, PTL DEF Spec
-----------------------------------------------------------------------------
(* The steps of the layer are those of Link.                                *)
LEMMA NextHop ==
  ASSUME PathInv, input # <<>>
  PROVE  \E q, r : /\ PositionOK(sent, q) /\ PositionOK(sent, r)
                   /\ Hop(sent, q, Head(input), r) /\ ReceiverAt(q) /\ Ordered(q)
<1>1. PICK Q, q, z : /\ Path(sent, Q, input \o wire) /\ Q[0] = q /\ Q[Len(input \o wire)] = z
                     /\ SenderAt(z) /\ ReceiverAt(q) /\ Ordered(q)
  BY DEF PathInv
<1>2. input \in Seq(Byte) /\ wire \in Seq(Byte)
  BY DEF PathInv, IInv, TypeOK, UnframerTypeOK
<1>3. Len(input \o wire) \in Nat /\ Len(input \o wire) >= 1 /\ (input \o wire)[1] = Head(input)
  BY <1>2, StreamDrops
<1>4. 0 \in 0 .. Len(input \o wire) /\ 1 \in 0 .. Len(input \o wire)
      /\ 1 \in 1 .. Len(input \o wire) /\ 1 - 1 = 0
  BY <1>3
<1>5. Hop(sent, Q[1 - 1], (input \o wire)[1], Q[1])
  BY <1>1, <1>4 DEF Path
<1> QED
  BY <1>1, <1>3, <1>4, <1>5 DEF Path

LEMMA DeliveryIsLinks ==
  ASSUME PathInv, NoResets, FindCrcEnd, delivered' # delivered
  PROVE  \E k \in DOMAIN sent : Promise!Deliver(k)
<1>1. input # <<>> /\ UNCHANGED <<sent, mayMiss>> /\ IInv /\ Steady
  BY DEF FindCrcEnd, Consume, InPacket, resetVars, PathInv
<1>2. PICK q, r : /\ PositionOK(sent, q) /\ PositionOK(sent, r)
                  /\ Hop(sent, q, Head(input), r) /\ ReceiverAt(q) /\ Ordered(q)
  BY <1>1, NextHop
<1>3. /\ q.k > 0 /\ ~Done(sent, q)
      /\ rx = Payload(sent, q.k) /\ delivered' = Append(delivered, rx)
  BY <1>1, <1>2, CompletesPacket
<1>4. /\ q.k \in Nat /\ q.k \in DOMAIN sent /\ DOMAIN sent = 1 .. Len(sent)
      /\ Len(sent) \in Nat /\ mayMiss \in Nat
  <2>1. q.k \in Nat /\ q.k \in 0 .. Len(sent)
    BY <1>2 DEF PositionOK, Position
  <2>2. DOMAIN sent = 1 .. Len(sent) /\ Len(sent) \in Nat /\ mayMiss \in Nat
    BY <1>1 DEF IInv, TypeOK, HistoryTypeOK
  <2> QED
    BY <1>3, <2>1, <2>2
<1>5. ASSUME NEW l \in DOMAIN sent, Promise!Delivered(l) PROVE l < q.k
  <2>1. PICK i \in DOMAIN delivered : delivered[i] = sent[l].payload
    BY <1>5 DEF Promise!Delivered
  <2>2. PICK k \in 1 .. q.k : Sent(k, delivered[i]) /\ (k = q.k => Done(sent, q))
    BY <1>2 DEF Ordered, DeliveredBy
  <2>3. k = l
    BY <1>1, <1>4, <2>1, <2>2 DEF Sent, Steady
  <2> QED
    BY <1>3, <1>4, <2>2, <2>3
<1>6. ASSUME NEW l \in mayMiss + 1 .. q.k - 1, sent[l].finished PROVE Promise!Delivered(l)
  <2>1. l \in mayMiss + 1 .. Len(sent) /\ l < q.k
    BY <1>4
  <2>2. Delivered(Payload(sent, l))
    BY <1>2, <1>6, <2>1 DEF ReceiverAt, Past
  <2> QED
    BY <2>2 DEF Delivered, Payload, Promise!Delivered
<1>7. Promise!Deliver(q.k)
  BY <1>1, <1>3, <1>5, <1>6 DEF Promise!Deliver, Payload
<1> QED
  BY <1>4, <1>7

LEMMA StepIsLinks ==
  ASSUME PathInv, NoResets, [Next]_vars
  PROVE  [Promise!Next]_(Promise!vars)
<1>1. ASSUME NEW p \in Payloads, StartPacket(p) PROVE Promise!Start(p)
  <2>1. DOMAIN sent = 1 .. Len(sent)
    BY DEF PathInv, IInv, TypeOK, HistoryTypeOK
  <2> QED
    BY <1>1, <2>1 DEF StartPacket, Promise!Start, unframerVars, resetVars
<1>2. CASE FinishPacketDone
  <2>1. sent # <<>>
    BY <1>2 DEF FinishPacketDone, PathInv, IInv, HasPacket
  <2>2. Promise!Finish
    BY <1>2, <2>1 DEF FinishPacketDone, Promise!Finish, unframerVars, resetVars
  <2> QED
    BY <2>2 DEF Promise!Next
<1>3. CASE FindCrcEnd
  <2>1. CASE delivered' = delivered
    BY <1>3, <2>1 DEF FindCrcEnd, Consume, resetVars, Promise!vars
  <2>2. CASE delivered' # delivered
    BY <1>3, <2>2, DeliveryIsLinks DEF Promise!Next
  <2> QED
    BY <2>1, <2>2
<1>4. CASE ReceiverReset
  BY <1>4 DEF ReceiverReset, Promise!Next, Promise!Restart
<1>5. CASE \/ \E n \in 1 .. Len(pending) : WritePayloadChunk(n)
           \/ FinishPacket \/ WriteAndCrc \/ StartPacketDone \/ WritePayloadChunkDone
           \/ WriteError \/ SenderReset \/ \E b \in Text : PrintText(b)
  BY <1>5 DEF WritePayloadChunk, FinishPacket, WriteAndCrc, StartPacketDone,
     WritePayloadChunkDone, WriteError, SenderReset, PrintText, unframerVars, resetVars,
     Promise!vars
<1>6. CASE \/ \E n \in 1 .. MaxChunk : Receive(n)
           \/ FindPacketStart \/ FindPacketLength \/ FindPacketCrc \/ FindPacketCrcEmpty
           \/ AbortShortPacket \/ AbortInvalidEscape \/ UNCHANGED vars
  BY <1>6 DEF Receive, FindPacketStart, FindPacketLength, FindPacketCrc, FindPacketCrcEmpty,
     AbortShortPacket, AbortInvalidEscape, ErrorReturn, Consume, vars, unframerVars, resetVars,
     Promise!vars
<1> QED
  BY <1>1, <1>2, <1>3, <1>4, <1>5, <1>6 DEF Next, FramerNext, UnframerStep, Promise!Next

(* As long as neither side is reset and the stream takes every byte, Framer *)
(* and Unframer implement the link the session layer relies on: a packet is *)
(* delivered after all that were delivered before it, and only when every   *)
(* finished packet in front of it has been.                                 *)
THEOREM LayerKeepsPromise ==
  ASSUME WriteErrors = FALSE, MaxSenderResets = 0, MaxReceiverResets = 0
  PROVE  Spec => KeepsLink
<1>1. Init => Promise!Init
  BY DEF Init, Promise!Init
<1>2. PathInv /\ [Next]_vars => [Promise!Next]_(Promise!vars)
  BY StepIsLinks DEF NoResets
<1>3. PathInv /\ [Next]_vars => PathInv'
  BY NextKeepsPath
<1> QED
  BY InitPathInv, <1>1, <1>2, <1>3, PTL DEF Spec, KeepsLink, Promise!Spec
=============================================================================
