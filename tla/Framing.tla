------------------------------- MODULE Framing -------------------------------
(***************************************************************************)
(* The framing layer of the microTVM RPC transport: a Framer that turns    *)
(* packets into an escaped byte stream, the stream, and an Unframer that   *)
(* recovers the packets.  The sender may be reset at any byte and may      *)
(* start a packet (a log message) before the previous one is finished; the *)
(* receiver may be reset at any byte and takes the stream in chunks.       *)
(*                                                                         *)
(* On the wire a packet is                                                 *)
(*   [kEscapeNop]  kEscapeStart kPacketStart  length  payload  crc         *)
(* with the leading kEscapeNop only from the kReset state, and with every  *)
(* kEscapeStart of length, payload and crc doubled.                        *)
(***************************************************************************)
EXTENDS Integers, Sequences

CONSTANTS
  MaxByte,           \* the largest byte: 255 in the code
  CrcInit,           \* the value the running CRC starts from
  UpdateCrc(_, _),   \* the CRC, its two bytes as a pair, after one more byte
  BufferSize,        \* sizeof(Unframer::buffer_): 128 in the code
  Payloads,          \* the payloads a sender may send
  Text,              \* the bytes printf may put on the stream
  MaxChunk,          \* bound: bytes given to one Unframer::Write (main.cc: 1)
  MaxPackets,        \* bound: packets started
  MaxText,           \* bound: bytes printed between packets
  MaxSenderResets,   \* bound: resets of the sender
  MaxReceiverResets, \* bound: resets of the receiver
  WriteErrors        \* TRUE iff the sender's WriteStream may fail

Byte == 0 .. MaxByte
Crc  == Byte \X Byte

ASSUME ByteAssumption == MaxByte \in Nat /\ MaxByte >= 3
ASSUME CrcAssumption ==
  /\ CrcInit \in Crc
  /\ \A c \in Crc, b \in Byte : UpdateCrc(c, b) \in Crc
ASSUME BufferAssumption == BufferSize \in Nat /\ BufferSize >= 4
ASSUME PayloadsAssumption ==
  \A p \in Payloads : p \in Seq(Byte) /\ Len(p) < (MaxByte + 1) * (MaxByte + 1)
ASSUME BoundsAssumption ==
  /\ MaxChunk \in Nat \ {0}
  /\ MaxPackets \in Nat
  /\ MaxText \in Nat
  /\ MaxSenderResets \in Nat
  /\ MaxReceiverResets \in Nat
  /\ WriteErrors \in BOOLEAN

(* enum class Escape. *)
kEscapeStart == MaxByte
kEscapeNop   == MaxByte - 1
kPacketStart == MaxByte - 2

ASSUME TextAssumption ==
  Text \subseteq Byte \ {kEscapeStart, kEscapeNop, kPacketStart}

kPayloadLength == 4
kCrc           == 2

(* The uint32_t length on the wire, least significant byte first, and back. *)
LengthField(n) ==
  <<n % (MaxByte + 1), (n \div (MaxByte + 1)) % (MaxByte + 1), 0, 0>>

LengthValue(f) ==
  LET base == MaxByte + 1
  IN  f[1] + base * (f[2] + base * (f[3] + base * f[4]))

(* A byte handed to Framer::WriteAndCrc with its two flags. *)
WireItem == [byte : Byte, escape : BOOLEAN, crc : BOOLEAN]

Items(bytes, escape, crc) ==
  [i \in 1 .. Len(bytes) |-> [byte |-> bytes[i], escape |-> escape, crc |-> crc]]

VARIABLES
  (* the Framer *)
  fstate,      \* Framer::state_
  fremaining,  \* Framer::num_payload_bytes_remaining_
  fcrc,        \* Framer::crc_
  call,        \* the Framer operation in progress, "none" between two calls
  data,        \* the items that operation has still to write
  pending,     \* the bytes the caller has still to pass to WritePayloadChunk
  (* the byte stream *)
  wire,
  (* the Unframer *)
  ustate,      \* Unframer::state_
  sawEscape,   \* Unframer::saw_escape_start_
  buf,         \* the valid bytes of Unframer::buffer_
  uremaining,  \* Unframer::num_payload_bytes_remaining_
  ucrc,        \* Unframer::crc_
  input,       \* the bytes of the current Write that are not consumed yet
  (* history *)
  sent,        \* the packets started, in order: payload, and whether finished
  rx,          \* the bytes given to the stream for the packet being received
  delivered,   \* the payloads PacketDone(true) completed, in order
  mayMiss,     \* packets with a number up to this one may be lost to a reset
  texts, senderResets, receiverResets

framerVars   == <<fstate, fremaining, fcrc, call, data, pending>>
unframerVars == <<ustate, sawEscape, buf, uremaining, ucrc, input, rx, delivered>>
resetVars    == <<texts, senderResets, receiverResets, mayMiss>>
vars == <<framerVars, wire, unframerVars, sent, resetVars>>

FramerState   == {"kReset", "kIdle", "kTransmitPacketPayload"}
FramerCall    == {"none", "StartPacket", "WritePayloadChunk", "FinishPacket"}
UnframerState == {"kFindPacketStart", "kFindPacketLength", "kFindPacketCrc",
                  "kFindCrcEnd"}

Init ==
  /\ fstate = "kReset" /\ fremaining = 0 /\ fcrc = CrcInit
  /\ call = "none" /\ data = <<>> /\ pending = <<>>
  /\ wire = <<>>
  /\ ustate = "kFindPacketStart" /\ sawEscape = FALSE /\ buf = <<>>
  /\ uremaining = 0 /\ ucrc = CrcInit /\ input = <<>>
  /\ sent = <<>> /\ rx = <<>> /\ delivered = <<>>
  /\ mayMiss = 0 /\ texts = 0 /\ senderResets = 0 /\ receiverResets = 0

-----------------------------------------------------------------------------
(* The Framer. *)

(* The bytes before the packet start.  Mutants: no byte at all, and a pad   *)
(* that is not the escape no-op.                                            *)
NoLeadIn  == <<>>
PadLeadIn == IF fstate = "kReset" THEN <<0>> ELSE <<>>
LeadIn    == IF fstate = "kReset" THEN <<kEscapeNop>> ELSE <<>>

(* Framer::StartPacket: no state is refused, so a log message may start     *)
(* while another packet is half written.                                    *)
StartPacket(p) ==
  /\ call = "none"
  /\ Len(sent) < MaxPackets
  /\ \A k \in 1 .. Len(sent) : sent[k].payload # p
  /\ call' = "StartPacket"
  /\ data' = Items(LeadIn, FALSE, FALSE)
             \o Items(<<kEscapeStart, kPacketStart>>, FALSE, TRUE)
             \o Items(LengthField(Len(p)), TRUE, TRUE)
  /\ fcrc' = CrcInit
  /\ pending' = p
  /\ sent' = Append(sent, [payload |-> p, finished |-> FALSE])
  /\ UNCHANGED <<fstate, fremaining, wire, unframerVars, resetVars>>

(* Framer::WritePayloadChunk with the next n bytes of the payload. *)
WritePayloadChunk(n) ==
  /\ call = "none"
  /\ fstate = "kTransmitPacketPayload"
  /\ n <= fremaining
  /\ call' = "WritePayloadChunk"
  /\ data' = Items(SubSeq(pending, 1, n), TRUE, TRUE)
  /\ pending' = SubSeq(pending, n + 1, Len(pending))
  /\ fremaining' = fremaining - n
  /\ UNCHANGED <<fstate, fcrc, wire, unframerVars, sent, resetVars>>

(* Framer::FinishPacket. *)
FinishPacket ==
  /\ call = "none"
  /\ fstate = "kTransmitPacketPayload"
  /\ fremaining = 0
  /\ call' = "FinishPacket"
  /\ data' = Items(fcrc, TRUE, FALSE)
  /\ UNCHANGED <<fstate, fremaining, fcrc, pending, wire, unframerVars, sent, resetVars>>

(* Framer::WriteAndCrc writes one byte; an escaped kEscapeStart takes two. *)
WriteAndCrc ==
  /\ data # <<>>
  /\ LET item == Head(data)
         doubled == item.escape /\ item.byte = kEscapeStart
     IN  /\ wire' = Append(wire, item.byte)
         /\ fcrc' = IF item.crc THEN UpdateCrc(fcrc, item.byte) ELSE fcrc
         /\ data' = IF doubled
                      THEN <<[item EXCEPT !.escape = FALSE]>> \o Tail(data)
                      ELSE Tail(data)
  /\ UNCHANGED <<fstate, fremaining, call, pending, unframerVars, sent, resetVars>>

(* What each operation does once all its bytes are written. *)
StartPacketDone ==
  /\ call = "StartPacket" /\ data = <<>>
  /\ call' = "none"
  /\ fstate' = "kTransmitPacketPayload"
  /\ fremaining' = Len(pending)
  /\ UNCHANGED <<fcrc, data, pending, wire, unframerVars, sent, resetVars>>

WritePayloadChunkDone ==
  /\ call = "WritePayloadChunk" /\ data = <<>>
  /\ call' = "none"
  /\ UNCHANGED <<fstate, fremaining, fcrc, data, pending, wire, unframerVars, sent, resetVars>>

FinishPacketDone ==
  /\ call = "FinishPacket" /\ data = <<>>
  /\ call' = "none"
  /\ fstate' = "kIdle"
  /\ sent' = [sent EXCEPT ![Len(sent)].finished = TRUE]
  /\ UNCHANGED <<fremaining, fcrc, data, pending, wire, unframerVars, resetVars>>

(* The WriteStream refuses the next bytes: StartPacket returns the error    *)
(* with state_ as it was, the two other operations go back to kReset.  The  *)
(* caller gives the packet up.                                              *)
WriteError ==
  /\ WriteErrors
  /\ data # <<>>
  /\ call' = "none" /\ data' = <<>> /\ pending' = <<>>
  /\ fstate' = IF call = "StartPacket" THEN fstate ELSE "kReset"
  /\ UNCHANGED <<fremaining, fcrc, wire, unframerVars, sent, resetVars>>

(* The sender restarts at any byte: what it had on the wire stays there.    *)
SenderReset ==
  /\ senderResets < MaxSenderResets
  /\ senderResets' = senderResets + 1
  /\ fstate' = "kReset" /\ fremaining' = 0 /\ fcrc' = CrcInit
  /\ call' = "none" /\ data' = <<>> /\ pending' = <<>>
  /\ UNCHANGED <<wire, unframerVars, sent, texts, receiverResets, mayMiss>>

(* printf of MicroTVMRpcServerInit: it shares the stream with the Framer    *)
(* and runs before the Framer sends its first packet.                       *)
PrintText(b) ==
  /\ texts < MaxText
  /\ call = "none" /\ fstate = "kReset"
  /\ wire' = Append(wire, b)
  /\ texts' = texts + 1
  /\ UNCHANGED <<framerVars, unframerVars, sent, senderResets, receiverResets, mayMiss>>

-----------------------------------------------------------------------------
(* The Unframer. *)

(* The caller of Unframer::Write hands it the next n bytes.  A Write that   *)
(* returns early leaves the rest in input, which the caller submits again.  *)
Receive(n) ==
  /\ input = <<>>
  /\ n <= Len(wire)
  /\ input' = SubSeq(wire, 1, n)
  /\ wire' = SubSeq(wire, n + 1, Len(wire))
  /\ UNCHANGED <<framerVars, ustate, sawEscape, buf, uremaining, ucrc, rx,
                 delivered, sent, resetVars>>

FindPacketStart ==
  /\ ustate = "kFindPacketStart"
  /\ input # <<>>
  /\ sawEscape' = (Head(input) = kEscapeStart)
  /\ IF Head(input) = kPacketStart /\ sawEscape
       THEN /\ ustate' = "kFindPacketLength"
            /\ ucrc' = UpdateCrc(UpdateCrc(CrcInit, kEscapeStart), kPacketStart)
            /\ rx' = <<>>
       ELSE UNCHANGED <<ustate, ucrc, rx>>
  /\ input' = Tail(input)
  /\ UNCHANGED <<framerVars, wire, buf, uremaining, delivered, sent, resetVars>>

(* FindPacketCrc moves on without input once no payload byte is missing.    *)
PayloadComplete == ustate = "kFindPacketCrc" /\ uremaining = 0

(* What ConsumeInput makes of the next byte. *)
InPacket        == ustate # "kFindPacketStart" /\ input # <<>> /\ ~PayloadComplete
IsShortPacket   == InPacket /\ sawEscape /\ Head(input) = kPacketStart
IsInvalidEscape == InPacket /\ sawEscape
                   /\ Head(input) \notin {kPacketStart, kEscapeNop, kEscapeStart}
IsSkipped       == IF sawEscape THEN Head(input) = kEscapeNop
                                ELSE Head(input) = kEscapeStart
IsLiteral       == IF sawEscape THEN Head(input) = kEscapeStart
                                ELSE Head(input) # kEscapeStart

(* Unframer::Write returns an error: the packet is abandoned.  On a packet  *)
(* start the kPacketStart byte stays in input and the escape is remembered, *)
(* so that the next Write finds the new packet.  The CRC that ConsumeInput  *)
(* has added up is left out: FindPacketStart begins it again.  Mutants: the *)
(* rest of the input is dropped with the packet; the Unframer stays in the  *)
(* packet; the buffer is not cleared.                                       *)
ErrorReturn(rest) ==
  /\ input' = rest
  /\ UNCHANGED <<framerVars, wire, uremaining, ucrc, rx, delivered, sent, resetVars>>

AbortDroppingInput ==
  /\ IsShortPacket /\ ErrorReturn(<<>>)
  /\ ustate' = "kFindPacketStart" /\ buf' = <<>> /\ UNCHANGED sawEscape
AbortStuck ==
  /\ IsShortPacket /\ ErrorReturn(input)
  /\ buf' = <<>> /\ UNCHANGED <<ustate, sawEscape>>
AbortKeepingBuffer ==
  /\ IsShortPacket /\ ErrorReturn(input)
  /\ ustate' = "kFindPacketStart" /\ UNCHANGED <<buf, sawEscape>>
AbortShortPacket ==
  /\ IsShortPacket /\ ErrorReturn(input)
  /\ ustate' = "kFindPacketStart" /\ buf' = <<>> /\ UNCHANGED sawEscape

AbortInvalidEscape ==
  /\ IsInvalidEscape /\ ErrorReturn(Tail(input))
  /\ ustate' = "kFindPacketStart" /\ buf' = <<>> /\ sawEscape' = FALSE

(* buffer_ after ConsumeInput took the next byte. *)
Filled == IF IsLiteral THEN Append(buf, Head(input)) ELSE buf

(* ConsumeInput takes the next byte of a field.                             *)
Consume ==
  /\ InPacket
  /\ IsSkipped \/ IsLiteral
  /\ sawEscape' = (~sawEscape /\ Head(input) = kEscapeStart)
  /\ input' = Tail(input)
  /\ ucrc' = IF ustate = "kFindCrcEnd" THEN ucrc ELSE UpdateCrc(ucrc, Head(input))
  /\ UNCHANGED <<framerVars, wire, sent, resetVars>>

FindPacketLength ==
  /\ ustate = "kFindPacketLength"
  /\ Consume
  /\ IF Len(Filled) = kPayloadLength
       THEN /\ uremaining' = LengthValue(Filled)
            /\ ustate' = "kFindPacketCrc"
            /\ buf' = <<>>
       ELSE /\ buf' = Filled
            /\ UNCHANGED <<ustate, uremaining>>
  /\ UNCHANGED <<rx, delivered>>

(* The payload bytes AddToBuffer is asked for.  Mutant: always a full       *)
(* buffer.                                                                  *)
WantedFullBuffer  == BufferSize
NumBytesToBuffer  == IF uremaining > BufferSize THEN BufferSize ELSE uremaining

(* AddToBuffer stops when the buffer holds all that is wanted or the input  *)
(* is used up; what it holds then goes to the stream.                       *)
FindPacketCrc ==
  /\ ustate = "kFindPacketCrc"
  /\ Consume
  /\ IF Len(Filled) = NumBytesToBuffer \/ input' = <<>>
       THEN /\ rx' = rx \o Filled
            /\ uremaining' = uremaining - Len(Filled)
            /\ buf' = <<>>
            /\ ustate' = IF uremaining' = 0 THEN "kFindCrcEnd" ELSE ustate
       ELSE /\ buf' = Filled
            /\ UNCHANGED <<rx, uremaining, ustate>>
  /\ UNCHANGED delivered

FindPacketCrcEmpty ==
  /\ PayloadComplete
  /\ input # <<>>
  /\ ustate' = "kFindCrcEnd"
  /\ UNCHANGED <<framerVars, wire, sawEscape, buf, uremaining, ucrc, input, rx,
                 delivered, sent, resetVars>>

(* The CRC of the packet, against the one received.  Mutant: any CRC will do. *)
AnyCrc(field)     == TRUE
CrcMatches(field) == field = ucrc

(* PacketDone tells the stream whether the CRC matches. *)
FindCrcEnd ==
  /\ ustate = "kFindCrcEnd"
  /\ Consume
  /\ IF Len(Filled) = kCrc
       THEN /\ delivered' = IF CrcMatches(Filled) THEN Append(delivered, rx) ELSE delivered
            /\ ustate' = "kFindPacketStart"
            /\ buf' = <<>>
       ELSE /\ buf' = Filled
            /\ UNCHANGED <<ustate, delivered>>
  /\ UNCHANGED <<rx, uremaining>>

(* The receiver restarts: bytes handed to it are gone. *)
ReceiverReset ==
  /\ receiverResets < MaxReceiverResets
  /\ receiverResets' = receiverResets + 1
  /\ ustate' = "kFindPacketStart" /\ sawEscape' = FALSE /\ buf' = <<>>
  /\ input' = <<>>
  /\ mayMiss' = Len(sent)
  /\ UNCHANGED <<framerVars, wire, uremaining, ucrc, rx, delivered, sent, texts,
                 senderResets>>

-----------------------------------------------------------------------------
FramerNext ==
  \/ \E p \in Payloads : StartPacket(p)
  \/ \E n \in 1 .. Len(pending) : WritePayloadChunk(n)
  \/ FinishPacket
  \/ WriteAndCrc
  \/ StartPacketDone
  \/ WritePayloadChunkDone
  \/ FinishPacketDone
  \/ WriteError
  \/ SenderReset
  \/ \E b \in Text : PrintText(b)

UnframerStep ==
  \/ \E n \in 1 .. MaxChunk : Receive(n)
  \/ FindPacketStart
  \/ FindPacketLength
  \/ FindPacketCrc
  \/ FindPacketCrcEmpty
  \/ FindCrcEnd
  \/ AbortShortPacket
  \/ AbortInvalidEscape

Next == FramerNext \/ UnframerStep \/ ReceiverReset

Spec == Init /\ [][Next]_vars

(* The receiving main loop takes every byte that arrives. *)
FairSpec == Spec /\ WF_vars(UnframerStep)

-----------------------------------------------------------------------------
FramerTypeOK ==
  /\ fstate \in FramerState /\ fremaining \in Nat /\ fcrc \in Crc
  /\ call \in FramerCall /\ data \in Seq(WireItem) /\ pending \in Seq(Byte)

UnframerTypeOK ==
  /\ ustate \in UnframerState /\ sawEscape \in BOOLEAN /\ buf \in Seq(Byte)
  /\ uremaining \in Nat /\ ucrc \in Crc /\ input \in Seq(Byte)
  /\ rx \in Seq(Byte) /\ delivered \in Seq(Seq(Byte))

Packet == [payload : Seq(Byte), finished : BOOLEAN]

HistoryTypeOK ==
  /\ sent \in Seq(Packet)
  /\ mayMiss \in 0 .. Len(sent)
  /\ texts \in Nat /\ senderResets \in Nat /\ receiverResets \in Nat

TypeOK == FramerTypeOK /\ wire \in Seq(Byte) /\ UnframerTypeOK /\ HistoryTypeOK

(* buffer_ always has room for what AddToBuffer is asked for: the CHECKs of *)
(* AddToBuffer and ConsumeInput, which would abort the device, never fire.  *)
BufferHasRoom ==
  /\ ustate = "kFindPacketStart"  => buf = <<>>
  /\ ustate = "kFindPacketLength" => Len(buf) < kPayloadLength
  /\ ustate = "kFindPacketCrc"    => buf = <<>> \/ Len(buf) < NumBytesToBuffer
  /\ ustate = "kFindCrcEnd"       => Len(buf) < kCrc

(* The number of the packet a payload belongs to; payloads are distinct.    *)
Sent(k, p) == k \in 1 .. Len(sent) /\ sent[k].payload = p

(* Whatever resets and log messages cut a packet short, what PacketDone     *)
(* accepts is the payload of packets the sender started, each at most once  *)
(* and in the order they were started.                                      *)
DeliveredInOrder ==
  /\ \A i \in DOMAIN delivered : \E k \in DOMAIN sent : Sent(k, delivered[i])
  /\ \A i, j \in DOMAIN delivered :
       i < j => \A k, l \in DOMAIN sent :
                  Sent(k, delivered[i]) /\ Sent(l, delivered[j]) => k < l

(* Once every byte is read, each packet whose FinishPacket returned was     *)
(* delivered, whatever was cut short before it: the Unframer resynchronises *)
(* on the very next packet.  Packets in flight when the receiver itself     *)
(* restarts are excused.                                                    *)
NoFinishedPacketLost ==
  wire = <<>> /\ input = <<>> =>
    \A k \in mayMiss + 1 .. Len(sent) :
      sent[k].finished => \E i \in DOMAIN delivered : delivered[i] = sent[k].payload

(* The layer keeps the promise of a link at every delivery, not only once   *)
(* the stream is empty: each step is one of Link's or changes nothing that  *)
(* its users see.                                                           *)
Promise == INSTANCE Link
KeepsLink == Promise!Spec

(* The kEscapeNop a reset Framer starts with keeps an escape left open by   *)
(* the cut packet from ever becoming an invalid one, which main.cc would    *)
(* answer by aborting the device; and a receiver that restarted in the      *)
(* middle of a packet, and takes its data for a packet, agrees with the     *)
(* Framer on which bytes are escaped.  Printed text breaks it: an escape    *)
(* that a cut packet left open takes in the first byte of the text.         *)
NoInvalidEscape == ~IsInvalidEscape

(* The receiver never gets stuck on a byte it does not consume.             *)
StreamDrained == <>[](wire = <<>> /\ input = <<>>)
=============================================================================
