----------------------------- MODULE ReceivePath -----------------------------
(***************************************************************************)
(* The device's receive path above the framing layer: the FrameBuffer, the *)
(* SessionReceiver that fills it and takes messages out of it, the server  *)
(* that is handed the requests, and the errors that make main exit.  The   *)
(* Unframer (module Framing) writes the payload of a packet in chunks and  *)
(* then calls PacketDone, or gives the packet up in the middle of it       *)
(* without telling the receiver.                                           *)
(*                                                                         *)
(* A byte in the buffer is a cell that says which byte of which packet it  *)
(* is.  A header read from cells that are not a packet's own header bytes  *)
(* can say anything.                                                       *)
(***************************************************************************)
EXTENDS Integers, Sequences

CONSTANTS
  Capacity,   \* TVM_CRT_MAX_PACKET_SIZE_BYTES: 4096
  MaxChunk,   \* bound: bytes in one SessionReceiver::Write
  MaxBody,    \* bound: bytes in the body of a request or a log message
  MaxPackets, \* bound: packets received
  MaxLost     \* bound: packets given up or with a wrong CRC

kHeader  == 3   \* sizeof(SessionHeader)
kVersion == 1   \* sizeof(microtvm_session_start_payload_t)
Overhead == 11  \* what GetCRTMaxPacketSize takes off the packet size

ASSUME CapacityAssumption == Capacity \in Nat /\ Capacity > Overhead
ASSUME BoundsAssumption ==
  /\ MaxChunk \in Nat \ {0}
  /\ MaxBody \in 0 .. Capacity - Overhead
  /\ MaxPackets \in Nat
  /\ MaxLost \in Nat

(* What a host sends to a device, and a packet too short for a header, which *)
(* the framing layer passes on like any other.  A garbled header can also   *)
(* say "reply".                                                             *)
PacketType == {"init", "terminate", "log", "normal", "runt"}
HeaderType == {"init", "terminate", "log", "normal", "reply"}
SessionState == {"kNoSessionEstablished", "kSessionEstablished", "kReset"}

PayloadSizes(type) == CASE type = "init"      -> {kHeader + kVersion}
                        [] type = "terminate" -> {kHeader}
                        [] type = "runt"      -> 1 .. kHeader - 1
                        [] OTHER              -> kHeader .. kHeader + MaxBody

VARIABLES
  data,      \* the valid bytes of FrameBuffer::data_: num_valid_bytes_ of them
  cursor,    \* FrameBuffer::read_cursor_
  complete,  \* Session::receive_buffer_has_complete_message_
  session,   \* Session::state_
  running,   \* main has not exited
  packet,    \* the packet the Unframer is in
  got,       \* the payload bytes of it that were passed to Write
  (* history *)
  count,     \* packets begun
  lost,      \* packets lost
  dirty,     \* bytes of a lost packet are in the buffer
  handed     \* the body the application was given last, and the right one

vars == <<data, cursor, complete, session, running, packet, got, count, lost,
          dirty, handed>>

NoPacket == [type |-> "none", size |-> 0]

(* Byte i of the payload of the current packet. *)
Cell(i) == [id |-> count, type |-> packet.type, at |-> i]
Cells(from, to) == [j \in 1 .. to - from + 1 |-> Cell(from + j - 1)]

NothingHanded == [got |-> <<>>, want |-> <<>>, dirty |-> FALSE]

(* The receive buffer when main starts to read. *)
Init ==
  /\ data = <<>> /\ cursor = 0 /\ complete = FALSE
  /\ session = "kNoSessionEstablished" /\ running = TRUE
  /\ packet = NoPacket /\ got = 0 /\ count = 0 /\ lost = 0
  /\ dirty = FALSE /\ handed = NothingHanded

-----------------------------------------------------------------------------
(* The Unframer found a packet and its length. *)
BeginPacket(type, size) ==
  /\ running /\ packet = NoPacket
  /\ count < MaxPackets
  /\ packet' = [type |-> type, size |-> size]
  /\ got' = 0
  /\ count' = count + 1
  /\ UNCHANGED <<data, cursor, complete, session, running, lost, dirty, handed>>

(* FrameBuffer::Write keeps what fits.  Mutant: it does not look.           *)
Unchecked(n) == n
Fits(n) == IF Capacity - Len(data) < n THEN Capacity - Len(data) ELSE n

(* SessionReceiver::Write with the next n bytes.  A write that is refused   *)
(* or cut short returns an error code, a positive number: WriteAll takes it *)
(* for a write that was too long, and main exits.                           *)
Write(n) ==
  /\ running /\ packet # NoPacket
  /\ n <= packet.size - got
  /\ IF complete
       THEN /\ running' = FALSE
            /\ UNCHANGED <<data, got>>
       ELSE /\ data' = data \o Cells(got + 1, got + Fits(n))
            /\ got' = got + Fits(n)
            /\ running' = (Fits(n) = n)
  /\ UNCHANGED <<cursor, complete, session, packet, count, lost, dirty, handed>>

(* The packet ends before its length (Unframer error kTvmErrorFramingShort- *)
(* Packet, which main goes on after): the receiver is not told.             *)
GiveUp ==
  /\ running /\ packet # NoPacket
  /\ lost < MaxLost
  /\ lost' = lost + 1
  /\ packet' = NoPacket
  /\ dirty' = (dirty \/ got > 0)
  /\ UNCHANGED <<data, cursor, complete, session, running, got, count, handed>>

(* PacketDone(false): the CRC is wrong, and PacketDone returns. *)
PacketDoneInvalid ==
  /\ running /\ packet # NoPacket /\ got = packet.size
  /\ lost < MaxLost
  /\ lost' = lost + 1
  /\ packet' = NoPacket
  /\ dirty' = TRUE
  /\ UNCHANGED <<data, cursor, complete, session, running, got, count, handed>>

-----------------------------------------------------------------------------
(* PacketDone(true). *)

(* What FrameBuffer::Read of n bytes returns. *)
ReadAvailable == Len(data) - cursor
Peek(n) == SubSeq(data, cursor + 1, IF n < ReadAvailable THEN cursor + n ELSE Len(data))

(* The header in the buffer is the current packet's. *)
OwnHeader == packet.size >= kHeader /\ Peek(kHeader) = Cells(1, kHeader)

(* The types the header in the buffer may say. *)
HeaderSays == IF OwnHeader THEN {packet.type} ELSE HeaderType

Done ==
  /\ running /\ packet # NoPacket /\ got = packet.size
  /\ packet' = NoPacket
  /\ UNCHANGED <<running, got, count, lost>>

(* Fewer bytes than a header: they are read, and that is all. *)
HeaderTooShort ==
  /\ Done
  /\ ReadAvailable < kHeader
  /\ cursor' = Len(data)
  /\ UNCHANGED <<data, complete, session, dirty, handed>>

Header(type) ==
  /\ Done
  /\ ReadAvailable >= kHeader
  /\ type \in HeaderSays

(* ProcessStartSessionInit and ProcessStartSessionReply return for a header *)
(* with an invalid nonce, which only a garbled one has, and when there is   *)
(* no version to read.  The message stays in the buffer, read.              *)
StartMessageIgnored ==
  /\ Header("init") \/ Header("reply")
  /\ ~OwnHeader \/ ReadAvailable < kHeader + kVersion
  /\ cursor' = cursor + kHeader
  /\ UNCHANGED <<data, complete, session, dirty, handed>>

(* The read cursor once the version is read.  Mutant: it is not read.       *)
VersionNotRead == cursor + kHeader
VersionRead    == cursor + kHeader + kVersion

ProcessStartSessionInit ==
  /\ Header("init")
  /\ ReadAvailable >= kHeader + kVersion
  /\ cursor' = VersionRead
  /\ session' = "kSessionEstablished"
  /\ UNCHANGED <<data, complete, dirty, handed>>

ProcessStartSessionReply ==
  /\ Header("reply")
  /\ ReadAvailable >= kHeader + kVersion
  /\ cursor' = VersionRead
  /\ session' = IF session = "kSessionEstablished" THEN "kReset" ELSE session
  /\ UNCHANGED <<data, complete, dirty, handed>>

TerminateSession ==
  /\ Header("terminate")
  /\ cursor' = cursor + kHeader
  /\ session' = IF session = "kSessionEstablished" THEN "kNoSessionEstablished" ELSE session
  /\ UNCHANGED <<data, complete, dirty, handed>>

HandOver ==
  handed' = [got   |-> SubSeq(data, cursor + kHeader + 1, Len(data)),
             want  |-> Cells(kHeader + 1, packet.size),
             dirty |-> dirty]

(* A log message: HandleCompleteMessage returns and nobody clears it. A     *)
(* garbled one may have a session id that is not even given to it.          *)
ProcessLog ==
  /\ Header("log")
  /\ cursor' = cursor + kHeader
  /\ complete' = TRUE
  /\ HandOver \/ (~OwnHeader /\ UNCHANGED handed)
  /\ UNCHANGED <<data, session, dirty>>

(* FrameBuffer::Clear. *)
ClearBuffer ==
  /\ data' = <<>>
  /\ cursor' = 0

(* A request of the session: HandleCompleteMessage processes it and clears  *)
(* the buffer.                                                              *)
ProcessRequest ==
  /\ Header("normal")
  /\ session = "kSessionEstablished"
  /\ HandOver
  /\ ClearBuffer
  /\ dirty' = FALSE
  /\ UNCHANGED <<complete, session>>

(* A normal message outside its session: it is not handed over, and stays.  *)
StaleMessage ==
  /\ Header("normal")
  /\ cursor' = cursor + kHeader
  /\ complete' = TRUE
  /\ UNCHANGED <<data, session, dirty, handed>>

-----------------------------------------------------------------------------
PacketDone ==
  \/ PacketDoneInvalid
  \/ HeaderTooShort
  \/ StartMessageIgnored
  \/ ProcessStartSessionInit
  \/ ProcessStartSessionReply
  \/ TerminateSession
  \/ ProcessLog
  \/ ProcessRequest
  \/ StaleMessage

Next ==
  \/ \E type \in PacketType : \E size \in PayloadSizes(type) : BeginPacket(type, size)
  \/ \E n \in 1 .. MaxChunk : Write(n)
  \/ GiveUp
  \/ PacketDone

Spec == Init /\ [][Next]_vars

-----------------------------------------------------------------------------
ByteOfPacket == [id : Nat, type : PacketType, at : Nat]

(* The cursor stays behind the valid bytes and those within the buffer, so  *)
(* that neither subtraction of FrameBuffer goes below zero.                 *)
TypeOK ==
  /\ data \in Seq(ByteOfPacket) /\ Len(data) <= Capacity
  /\ cursor \in 0 .. Len(data)
  /\ complete \in BOOLEAN /\ running \in BOOLEAN /\ dirty \in BOOLEAN
  /\ session \in SessionState
  /\ packet = NoPacket \/ packet \in [type : PacketType, size : Nat]
  /\ got \in Nat /\ count \in Nat /\ lost \in Nat
  /\ handed \in [got : Seq(ByteOfPacket), want : Seq(ByteOfPacket), dirty : BOOLEAN]

(* The damage a lost packet does ends with the next Clear: a message handed *)
(* over after it is the body of one packet, whole and alone, although the   *)
(* session messages before it were never cleared from the buffer.           *)
DamageEndsWithClear == ~handed.dirty => handed.got = handed.want

(* session.h on MessageReceivedFunc: the buffer's "read cursor is at the    *)
(* first byte of the message payload".                                      *)
CursorAtPayload == handed.got = handed.want
=============================================================================
