------------------------------- MODULE MinRPC -------------------------------
(***************************************************************************)
(* The RPC server (minrpc_server.h, rpc_reference.h) on its arena: one     *)
(* request at a time, complete in the receive buffer, is read field by     *)
(* field into objects of the arena, the call is made, one reply is sent.   *)
(* MicroIOHandler (rpc_server.cc) has one answer to everything that is     *)
(* wrong: it loops for ever.                                               *)
(*                                                                         *)
(* What the server does to read a request is a list of steps that the      *)
(* request's own fields determine: bytes to read, objects to allocate,     *)
(* bytes to write into them, conditions to check.  Sizes are those of the  *)
(* 32-bit target.                                                          *)
(***************************************************************************)
EXTENDS Arena

CONSTANTS
  Requests,    \* what arrives, see RequestAssumption
  Results,     \* the values a function may return
  ErrorLength  \* strlen of an error's text

VARIABLES
  at,         \* "wait", "read" or "shut down"
  request,    \* the request being served, or the last one
  todo,       \* the steps left to read it
  available,  \* ReadAvailable of the receive buffer
  (* history *)
  replies,    \* replies to it
  astray      \* a byte was written that is not in the object it was meant for

requestVars == <<at, request, replies>>
vars == <<arenaVars, requestVars, todo, available, astray>>

-----------------------------------------------------------------------------
(* Values as they are sent (SendPackedSeq): their number, the type codes,   *)
(* the values.  A tensor goes without its data.                             *)
Numbers == {"int", "uint", "float", "device", "datatype"}
Handles == {"func", "module", "opaque"}
Texts   == {"str", "bytes"}

TensorBytes(ndim) == 8 + 16 + (8 * ndim) + 8
ValueBytes(v) ==
  CASE v.type \in Numbers \cup Handles -> 8
    [] v.type \in Texts                -> 8 + v.length
    [] v.type = "tensor"               -> TensorBytes(v.length)
    [] OTHER                           -> 0
BytesUpTo(values) ==
  LET sent[n \in 0 .. Len(values)] ==
        IF n = 0 THEN 4 ELSE sent[n - 1] + 4 + ValueBytes(values[n])
  IN  sent
SendPackedSeq(values) == BytesUpTo(values)[Len(values)]

(* What the host sends for a request: its length, the code and the rest. *)
RequestBytes(r) ==
  CASE r.code = "empty"           -> 8
    [] r.code = "kShutdown"       -> 12
    [] r.code = "kInitServer"     -> 12 + 8 + r.length + SendPackedSeq(r.args)
    [] r.code = "kCallFunc"       -> 12 + 8 + SendPackedSeq(r.args)
    [] r.code = "kCopyFromRemote" -> 12 + TensorBytes(1) + 8
    [] r.code = "kCopyToRemote"   -> 12 + TensorBytes(1) + 8 + r.length
    [] OTHER                      -> 12 + SendPackedSeq(r.args)

-----------------------------------------------------------------------------
(* The steps.  Objects count backwards from the latest, 0, or forwards from *)
(* the first, 1.  ReadHead reads while a clean shutdown is allowed.         *)
ReadHead(bytes)           == [op |-> "head", bytes |-> bytes]
Read(bytes)               == [op |-> "read", bytes |-> bytes]
ReadInto(o, offset, size) == [op |-> "fill", bytes |-> size, object |-> o, offset |-> offset]
Write(o, offset, size)    == [op |-> "write", bytes |-> size, object |-> o, offset |-> offset]
ArenaAlloc(size, align)   == [op |-> "alloc", bytes |-> size, align |-> align]
ThrowError                == [op |-> "throw"]
MINRPC_CHECK(holds)       == IF holds THEN <<>> ELSE <<ThrowError>>

(* A DLTensor and its shape; between their fields come those of the call    *)
(* that only the local variables get.                                       *)
TensorFields(ndim) ==
  <<Write(0, 0, 4), ReadInto(0, 4, 16), ArenaAlloc(8 * ndim, 8), Write(-1, 20, 4),
    ReadInto(0, 0, 8 * ndim), Write(-1, 24, 4), ReadInto(-1, 32, 8)>>

(* Room for a string and its terminator.  Mutant: only for the string. *)
LengthOnly(length)  == length
StringSize(length)  == length + 1

(* RecvPackedSeq: value i of the array that is object o. *)
ReceiveValue(v, i, o) ==
  LET offset == 8 * (i - 1)  pointer == <<Write(o, offset, 4)>> IN
  CASE v.type \in Numbers \ {"datatype"} -> <<ReadInto(o, offset, 8)>>
    [] v.type = "datatype" -> <<ReadInto(o, offset, 4), Read(4)>>
    [] v.type \in Handles  -> <<Read(8)>> \o pointer
    [] v.type = "null"     -> pointer
    [] v.type = "str"      -> <<Read(8), ArenaAlloc(StringSize(v.length), 1),
                                Write(0, v.length, 1), ReadInto(0, 0, v.length)>> \o pointer
    [] v.type = "bytes"    -> <<Read(8), ArenaAlloc(8, 4), ArenaAlloc(v.length, 1),
                                Write(-1, 0, 8), ReadInto(0, 0, v.length)>> \o pointer
    [] v.type = "tensor"   -> <<Read(8), ArenaAlloc(40, 8)>> \o TensorFields(v.length) \o pointer
    [] OTHER               -> <<ThrowError>>

StepsUpTo(values, o) ==
  LET received[n \in 0 .. Len(values)] ==
        IF n = 0 THEN <<>> ELSE received[n - 1] \o ReceiveValue(values[n], n, o)
  IN  received
RecvPackedSeq(values, o) ==
  <<Read(4)>> \o
  IF values = <<>> THEN <<>>
  ELSE <<ArenaAlloc(8 * Len(values), 8), ArenaAlloc(4 * Len(values), 4),
         ReadInto(0, 0, 4 * Len(values))>> \o StepsUpTo(values, o)[Len(values)]

(* What each system call checks of its arguments (SyscallFreeHandle: also   *)
(* that the handle is of one of three kinds, which the host's is).          *)
Syscall ==
  [kGetGlobalFunc         |-> <<{"str"}>>,
   kFreeHandle            |-> <<{"opaque"}, {"int"}>>,
   kDevAllocData          |-> <<{"device"}, {"int"}, {"int"}, {"datatype"}>>,
   kDevAllocDataWithScope |-> <<{"tensor"}, {"null", "str"}>>,
   kDevFreeData           |-> <<{"device"}, {"opaque"}>>,
   kDevCreateStream       |-> <<{"device"}>>,
   kDevFreeStream         |-> <<{"device"}, {"opaque"}>>,
   kDevStreamSync         |-> <<{"device"}, {"opaque"}>>,
   kDevSetStream          |-> <<{"device"}, {"opaque"}>>,
   kCopyAmongRemote       |-> <<{"tensor"}, {"tensor"}, {"opaque"}>>]
RefusedSyscall == {"kDevSetDevice", "kDevGetAttr", "kSyscallUnknown"}

TypesMatch(args, expected) ==
  Len(args) = Len(expected) /\ \A i \in DOMAIN args : args[i].type \in expected[i]

(* HandleCopyFromRemote and HandleCopyToRemote: the tensor is allocated     *)
(* before its address is read, and data of another device than the CPU      *)
(* passes through the arena.                                                *)
Copy(r) == <<ArenaAlloc(40, 8), Read(8)>> \o TensorFields(1) \o <<Read(8)>>
           \o IF r.cpu THEN <<>> ELSE <<ArenaAlloc(r.length, 1)>>

ProcessOnePacket(r) ==
  IF r.code = "empty" THEN <<ReadHead(8)>>
  ELSE <<ReadHead(8), ReadHead(4)>> \o
    CASE r.code \in DOMAIN Syscall ->
           RecvPackedSeq(r.args, 1) \o MINRPC_CHECK(TypesMatch(r.args, Syscall[r.code]))
      [] r.code \in RefusedSyscall    -> RecvPackedSeq(r.args, 1)
      [] r.code = "kCallFunc"         -> <<Read(8)>> \o RecvPackedSeq(r.args, 1)
      [] r.code = "kInitServer"       ->
           <<Read(8), ArenaAlloc(r.length + 1, 1), ReadInto(0, 0, r.length)>>
           \o RecvPackedSeq(r.args, 2) \o MINRPC_CHECK(r.args = <<>>)
      [] r.code = "kCopyFromRemote"   -> Copy(r)
      [] r.code = "kCopyToRemote"     ->
           Copy(r) \o IF r.cpu THEN <<Read(r.length)>> ELSE <<ReadInto(0, 0, r.length)>>
      [] r.code = "kShutdown"         -> <<>>
      [] OTHER                        -> <<ThrowError>>

(* What arrives.  A request is what the bytes at the read cursor spell,     *)
(* available how many bytes there are.  When a packet was lost, what the    *)
(* buffer kept of it stands in front (session.cc), so that the length, the  *)
(* code and the fields are read from that, and there may be fewer bytes     *)
(* than they call for, or more.  length: of proto_ver, or of the data to    *)
(* copy.  "garbage" is a code, and "unknown" a type, that the server does   *)
(* not know.  Bounds: lengths and numbers that stale bytes spell are small  *)
(* enough for the target's integers, and the handles and addresses they     *)
(* spell are those of functions and data outside the arena.                 *)
RequestCode ==
  DOMAIN Syscall \cup RefusedSyscall
  \cup {"empty", "kInitServer", "kCallFunc", "kCopyFromRemote", "kCopyToRemote", "kShutdown",
        "garbage"}
ValueType == Numbers \cup Handles \cup Texts \cup {"null", "tensor", "unknown"}

ASSUME RequestAssumption ==
  \A r \in Requests :
    /\ r.code \in RequestCode /\ r.length \in Nat /\ r.cpu \in BOOLEAN
    /\ r.args \in Seq([type : ValueType, length : Nat])
    /\ r.available \in Nat
ASSUME ResultAssumption ==
  ErrorLength \in Nat /\ \A v \in Results : v.length \in Nat

-----------------------------------------------------------------------------
(* Replies: the number of bytes that MessageStart is told follow the length *)
(* of the packet, and how many do.                                          *)
Reply(packet_nbytes, written) == [announced |-> packet_nbytes, written |-> written]

ReturnVoid           == Reply(4 + 4 + 4, 4 + 4 + 4)
(* Mutant: the type code is not counted. *)
ReturnHandleShort    == Reply(4 + 4 + 8, 4 + 4 + 4 + 8)
ReturnHandle         == Reply(4 + 4 + 4 + 8, 4 + 4 + 4 + 8)
ReturnException      == Reply(4 + 4 + 4 + 8 + ErrorLength, 4 + 4 + 4 + 8 + ErrorLength)
ReturnCopy(length)   == Reply(4 + length, 4 + length)
ReturnPackedSeq(values) == Reply(4 + SendPackedSeq(values), 4 + SendPackedSeq(values))

(* NormalCallFunc: the type of the value goes first, and an array goes as   *)
(* a tensor and a handle.  Bytes are freed afterwards (TVMByteArrayFree).   *)
Value(type, length) == [type |-> type, length |-> length]
ReturnValue(v) ==
  ReturnPackedSeq(
    <<Value("int", 0)>> \o
    CASE v.type = "ndarray"           -> <<Value("tensor", v.length), Value("opaque", 0)>>
      [] v.type \in {"func", "module"} -> <<Value("opaque", 0)>>
      [] OTHER                        -> <<v>>)

GivesHandle == {"kGetGlobalFunc", "kDevAllocData", "kDevAllocDataWithScope", "kDevCreateStream"}

ReplyTo(r) ==
  CASE r.code = "kCallFunc"       -> {ReturnValue(v) : v \in Results} \cup {ReturnException}
    [] r.code = "kInitServer"     -> {ReturnVoid}
    [] r.code = "kCopyFromRemote" -> {ReturnCopy(r.length)}
                                       \cup (IF r.cpu THEN {} ELSE {ReturnException})
    [] r.code = "kCopyToRemote"   -> {ReturnVoid}
                                       \cup (IF r.cpu THEN {} ELSE {ReturnException})
    [] r.code \in RefusedSyscall  -> {ReturnException}
    [] r.code \in GivesHandle     -> {ReturnHandle, ReturnException}
    [] r.code \in DOMAIN Syscall \ GivesHandle -> {ReturnVoid, ReturnException}

-----------------------------------------------------------------------------
None == [code |-> "empty", args |-> <<>>, length |-> 0, cpu |-> TRUE, available |-> 8]

Init ==
  /\ ArenaInit
  /\ at = "wait" /\ request = None /\ todo = <<>> /\ available = 0
  /\ replies = 0 /\ astray = FALSE

(* HandleCompleteMessage, for a message that the session layer takes. *)
HandleCompleteMessage(r) ==
  /\ at = "wait" /\ running
  /\ RecycleAll
  /\ at' = "read" /\ request' = r /\ todo' = ProcessOnePacket(r)
  /\ available' = r.available
  /\ replies' = 0 /\ UNCHANGED <<open, astray>>

Reading(ops) == at = "read" /\ running /\ todo # <<>> /\ todo[1].op \in ops
Done == todo' = Tail(todo)

Object(o) == IF o > 0 THEN objects[o] ELSE objects[Len(objects) + o]

(* Bytes go into the object they were meant for. *)
WriteInside(step) ==
  astray' = (astray \/ step.offset + step.bytes > Object(step.object).size)

ReadBytes ==
  /\ Reading({"head", "read", "fill"}) /\ todo[1].bytes <= available
  /\ available' = available - todo[1].bytes
  /\ IF todo[1].op = "fill" THEN WriteInside(todo[1]) ELSE UNCHANGED astray
  /\ Done /\ UNCHANGED <<arenaVars, requestVars>>

(* PosixRead returns 0: the server frees its arena if nothing but the head  *)
(* was read, and loops in Exit.                                             *)
ReadShort ==
  /\ Reading({"head", "read", "fill"}) /\ todo[1].bytes > available
  /\ running' = FALSE /\ available' = 0
  /\ IF todo[1].op = "head" THEN FreeAll /\ open' = FALSE
                            ELSE UNCHANGED <<pages, head, tail, freeList, open, objects, peak>>
  /\ UNCHANGED <<requestVars, todo, astray>>

WriteBytes ==
  /\ Reading({"write"})
  /\ WriteInside(todo[1])
  /\ Done /\ UNCHANGED <<arenaVars, requestVars, available>>

Allocate ==
  /\ Reading({"alloc"})
  /\ Alloc(todo[1].bytes, todo[1].align)
  /\ IF running' THEN Done ELSE UNCHANGED todo
  /\ UNCHANGED <<requestVars, available, astray>>

Exit ==
  /\ Reading({"throw"})
  /\ running' = FALSE
  /\ UNCHANGED <<pages, head, tail, freeList, open, objects, peak, requestVars, todo,
                 available, astray>>

(* The call and its reply.  PosixWrite takes the framer's errors, which are *)
(* positive, for success, so that only FinishMessage notices that a reply   *)
(* is not as long as was announced: its CHECK ends the program.  Then the   *)
(* receive buffer is cleared.                                               *)
Answer ==
  /\ at = "read" /\ running /\ todo = <<>> /\ request.code \notin {"empty", "kShutdown"}
  /\ \E reply \in ReplyTo(request) :
       IF reply.announced = reply.written
       THEN at' = "wait" /\ replies' = replies + 1 /\ available' = 0 /\ UNCHANGED running
       ELSE running' = FALSE /\ UNCHANGED <<at, replies, available>>
  /\ UNCHANGED <<pages, head, tail, freeList, open, objects, peak, request, todo, astray>>

(* A length of zero is no request. *)
Ignore ==
  /\ at = "read" /\ running /\ todo = <<>> /\ request.code = "empty"
  /\ at' = "wait" /\ available' = 0
  /\ UNCHANGED <<arenaVars, request, replies, todo, astray>>

(* MinRPCServer::Shutdown.  Loop then returns kTvmErrorPlatformShutdown,    *)
(* which main takes for an error: it logs it and exits.                     *)
Shutdown ==
  /\ at = "read" /\ running /\ todo = <<>> /\ request.code = "kShutdown"
  /\ FreeAll /\ open' = FALSE
  /\ at' = "shut down" /\ available' = 0
  /\ UNCHANGED <<running, request, replies, todo, astray>>

Next ==
  \/ \E r \in Requests : HandleCompleteMessage(r)
  \/ ReadBytes \/ ReadShort \/ WriteBytes \/ Allocate \/ Exit
  \/ Answer \/ Ignore \/ Shutdown

Spec == Init /\ [][Next]_vars

-----------------------------------------------------------------------------
TypeOK ==
  /\ ArenaTypeOK
  /\ at \in {"wait", "read", "shut down"} /\ request \in Requests \cup {None}
  /\ available \in Nat /\ replies \in {0, 1} /\ astray \in BOOLEAN

(* What a call gets is what its message spells: the fields that are read    *)
(* are the fields that SendPackedSeq writes, to the last byte, so that a    *)
(* message without stale bytes is read to its end; every one is written     *)
(* into the object it was allocated for, also when stale bytes spell it,    *)
(* and no two objects share a byte, whichever pages were recycled in which  *)
(* order (RecvPackedSeq, SendPackedSeq, Alloc, RecycleAll).                 *)
ArgumentsAsSent ==
  /\ ObjectsIntact /\ ~astray
  /\ at = "read" /\ running /\ todo = <<>> =>
       available = request.available - RequestBytes(request)

(* Every request is answered, once, before the next is taken: the server is *)
(* caught in Exit only by a message that is not what the host sends, or     *)
(* when the platform gives it no page, and a reply is as long as it says    *)
(* (ProcessOnePacket, MicroIOHandler).                                      *)
AsTheHostSends(r) ==
  /\ r.available = RequestBytes(r)
  /\ r.code \in DOMAIN Syscall => TypesMatch(r.args, Syscall[r.code])
  /\ r.code = "kInitServer" => r.args = <<>>
  /\ r.code # "garbage" /\ \A i \in DOMAIN r.args : r.args[i].type # "unknown"
AnsweredOnce ==
  /\ at = "wait" => replies = IF request.code = "empty" THEN 0 ELSE 1
  /\ ~running => ~AsTheHostSends(request) \/ (todo # <<>> /\ todo[1].op = "alloc")
=============================================================================
