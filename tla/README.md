# Verification of the microTVM / GVSoC project template

This directory holds TLA+ models of the device-side C runtime under
`src/template_project` (the microTVM C runtime with its RPC transport, and the
`host_driven` program that ties it to the simulator), the TLC configurations
that check them on small instances, and TLAPS proofs of the results that matter
most. File names below are relative to `src/template_project`; `crt/` stands for
`crt/src/runtime/crt/`, and `rpc_common/` for
`crt/include/tvm/runtime/crt/rpc_common/`.

## The system

A host process (Python and C++ of TVM, outside this repository, except for
`microtvm_api_server.py`) drives a device over a byte stream. The device runs one
program, `src/host_driven/main.cc`: a single-threaded loop that reads a byte,
hands it to the RPC server and, when a request is complete, executes it and
writes the answer. There are no threads and no interrupts; what interleaves are
the two ends of the link, the resets of either end, and messages (log lines)
that the program writes while it is in the middle of another one.

```
  host  ==bytes==>  main loop -> Unframer -> SessionReceiver -> FrameBuffer
                                                  |                  |
                                               Session  -> HandleCompleteMessage
                                                                     |
        <==bytes==  Framer <- Session::SendMessage <-  MinRPC server + arena
                       ^                                  |
                    TVMLogf                 C runtime: module table, registry,
                                            NDArray, executors, time evaluator
                                                          |
                                                page memory manager
```

### Inventory

| Part | State it keeps | Operations | Interacts by | Hard behaviour | What makes it correct |
|---|---|---|---|---|---|
| Framing: `crt/microtvm_rpc_common/framing.cc`, `rpc_common/framing.h` | Framer: state, bytes left, running CRC. Unframer: state, pending escape, a 128-byte buffer, bytes left, CRC | `StartPacket`, `WritePayloadChunk`, `FinishPacket`, `Reset`; `Unframer::Write`, `Reset` | a byte stream; the Unframer writes to a `WriteStream` and calls `PacketDone` | a reset at any byte, a packet started inside another, text from `printf` on the same stream, input in arbitrary chunks | no finished packet is lost; nothing is delivered that was not sent; the buffer never overflows; the stream is always consumed |
| Session: `session.cc`, `session.h` | state, local nonce, session id, "buffer holds a complete message" | `Initialize`, `StartSession`, `TerminateSession`, `SendMessage`, one handler per message type | messages; a callback to the application | crossing Inits, resets of either side with unread input lost, repeated nonces, late replies | both sides agree on the session; nothing of an older session is executed; nobody waits for ever; the application knows |
| Receive path: `frame_buffer.cc`, `write_stream.cc`, `SessionReceiver` | valid bytes, read cursor, the complete flag | `Write`, `Read`, `Clear`, `PacketDone` | filled by the Unframer, emptied by the server | packets lost half way, buffer never cleared for session messages, errors turned into other errors | the application is handed the payload of one message; legal packets fit |
| RPC server and main: `rpc_server.cc`, `src/host_driven/main.cc` | `is_running_`, a pending message flag, the log buffer | `Initialize`, `Loop`, `HandleCompleteMessage`, `TVMLogf`, `TVMPlatformAbort` | calls all of the above | errors that end the program, log during a reply | a request is answered once; harmless input does not end the program |
| Page memory manager: `crt/memory/page_allocator.c` | pages handed out, the look-aside buffer, the free map | `Allocate`, `Free` | behind `TVMPlatformMemoryAllocate/Free` | reuse of blocks in any order, table limits, rounding | blocks are disjoint and large enough; no page is lost; owners' frees never abort |
| MinRPC server and arena: `crt/src/runtime/minrpc/*`, `crt/src/support/generic_arena.h` | two page lists of the arena | one handler per RPC code, `ThrowError`, `Shutdown` | reads the request from the FrameBuffer, calls the C runtime | short and unknown requests, exits, reuse of arena pages | arguments arrive as sent; one reply per request; every page in one list |
| Module table and handles: `crt/common/crt_runtime_api.c`, `func_registry.c` | registered modules, the global registry | create, free, look up, encode and decode handles | handles are numbers the host sends back | a handle used after its module is freed, indices at the limit, registry space | a handle never reaches what it was not made for, while its module is there |
| Time evaluator: `crt_runtime_api.c:474-632` and the timer of `main.cc` | one evaluator, `g_utvm_timer_running` | create, run | calls a function repeatedly between timer start and stop | a failing step between start and stop, a counter that wraps, an index that outgrows its handle | the time reported passed; buffers are freed once; the run ends |
| Graph loading: `crt/graph_executor/load_json.c`, `graph_executor.c:40-728, 918-1188` | position and scopes of the reader; nodes, attributes, storage pool, views, operators | `JSONReader_*`, `Load`, `SetupStorage`, `SetupOpExecs` | reads the text the host sends with `create` | reading ahead, keys in any order, strings at their limit, shared storage | the executor is the graph that was compiled; every view fits |
| NDArray, graph executor, AOT executor: `crt/common/ndarray.c`, `crt/graph_executor*`, `crt/aot_executor*` | reference counts, views, storage pool, executor singletons | create, get, free, load parameters, release | page manager, module table | views of freed data, a `Create` that fails half way, index bounds | storage lives as long as its views; nothing is lost or freed twice |
| Stack allocator: `crt/memory/stack_allocator.c` | next pointer, tags | allocate, free in LIFO order | generated operator code | order of frees | a free returns to the state before its allocation |
| Host side: `microtvm_api_server.py` | the simulator process and its pipes | open, close, read, write with timeouts | the byte stream | timeouts, a broken pipe | open and close leave nothing behind |
| UART ring buffer: `src/host_driven/ringbuffer.c` | head, tail | put, get | not used by `main.cc`, which reads by semihosting | full and empty | bytes come out in order |

`PROJECT.json` lists the same parts with what is modelled of each, and the
hazards, each at its line.

## Modules

| Module | Models | Role |
|---|---|---|
| `Framing` | Framer, byte stream, Unframer | detailed model, byte by byte |
| `Link` | what the framing layer promises to the session layer | abstract specification that `Framing` implements |
| `Session` | two endpoints of class `Session` on an in-order link | detailed model, message by message |
| `ReceivePath` | FrameBuffer, SessionReceiver, the exits of main | detailed model, chunk by chunk |
| `Arena` | the arena of the MinRPC server | operators and state, used by `MinRPC` |
| `MinRPC` | the RPC server on its arena | detailed model, field by field |
| `ModuleTable` | module table, function registry, handles | operators and state, used by `TimeEvaluator` |
| `TimeEvaluator` | time evaluator and timer, on the module table | detailed model, step by step of a run |
| `JSONReader` | the reader of graph documents | operators, used by `GraphLoader` |
| `GraphSetup` | what loading a graph promises; its storage, views and operators | detailed model of the setup, abstract specification of the loading that `GraphLoader` implements |
| `GraphLoader` | how a document is read | detailed model, key by key, on `GraphSetup` |
| `GraphExecutor` | the graph executor's life, with the NDArrays it is made of | detailed model, call by call |
| `AotExecutor` | the ahead-of-time executor, beside the other one | detailed model, call by call |
| `PageAllocator` | page memory manager | detailed model, call by call |
| `BlockAllocator` | what the allocation interface promises | abstract specification that `PageAllocator` implements |
| `MCFraming`, `MCSession`, `MCReceivePath`, `MCMinRPC`, `MCTimeEvaluator`, `MCGraphLoader`, `MCExecutors`, `MCPageAllocator` | | values of the constants for TLC |
| `FramingProofs`, `SessionProofs`, `ReceivePathProofs`, `PageAllocatorProofs`, `MinRPCProofs`, `TimeEvaluatorProofs`, `GraphSetupProofs`, `ExecutorProofs` | | theorems |

Every model is single steps of single-threaded code: an action is one call that
the code runs to its end, except where the code can stop, or be watched, in
between: in `Framing` a step of the sender is one byte, in `MinRPC` one field of
a request, in `TimeEvaluator` one stretch of `RunTimeEvaluator` between two
calls that can fail, in `GraphLoader` one key of the document, in `GraphSetup` one node.

### Framing

The variables of the Framer are its members (`fstate`, `fremaining`, `fcrc`) and,
as an operation writes its bytes one at a time, the operation in progress
(`call`) with the items it has still to write (`data`). An item is a byte with
the two flags `Framer::WriteAndCrc` is called with, so that an escape is doubled
there, after the CRC, as in the code. `StartPacket` refuses no state: a log
message may start inside a packet. The Unframer has its members (`ustate`,
`sawEscape`, `buf`, `uremaining`, `ucrc`) and `input`, what the current `Write`
has not consumed. `AddToBuffer` and `ConsumeInput` are the action `Consume`, one
byte per step; the outcomes of `ConsumeInput` that return an error are
`AbortShortPacket` and `AbortInvalidEscape`. The history variables `sent`, `rx`
and `delivered` record the packets.

The CRC is a parameter with only its type assumed. Its two bytes are a pair.
Bytes are `0 .. MaxByte` with the three escape codes at the top, so that the
checks can use five byte values. The Unframer's stream never fails here;
`ReceivePath` has what happens above when it does.

`Link` has only the packets started, those delivered and the number up to which a
restart of the receiver excuses a loss. A delivery is of a packet behind all that were
delivered, and every finished packet it passes over must be excused. Its variables are
the history variables of `Framing`, so the refinement mapping is by name (`KeepsLink`).

### Session

One function per member: `state`, `localNonce`, `sessionId`, `complete`, indexed
by endpoint, and a queue of messages to each endpoint. `Boot` is a constructor
and `Initialize`; when `LosesInput` is set it also loses any number of the
messages the endpoint had not read. The nonce `Initialize` is given is a constant
sequence per endpoint (`InitialNonce`), because the code of the device leaves it
to an uninitialized variable (`main.cc:175`) and the host's is not in this
repository: each value is one outcome. Which message types an application clears
from the buffer is a constant (`AppClears`): the device's `HandleCompleteMessage`
clears requests and not logs; the host's application is external and clears all.
`Requesters`, `Starters` and `Loggers` say which application does what. History
variables number the boots and record with which boot of the peer a session is.

### ReceivePath

Cells stand for bytes: which byte of which packet. A header read from cells that
are not a packet's own header says anything (`HeaderSays`), the nondeterminism
that stale bytes in a buffer cause. The Unframer calls `Write` with chunks and
then `PacketDone`, or gives the packet up without a call. Every way through
`PacketDone` is an action. An error of `SessionReceiver::Write` makes main exit:
the two error codes are positive numbers, which `WriteAll`
(`write_stream.cc:28-46`) takes for a count that is too long, and main exits on
what it makes of that.

### PageAllocator and BlockAllocator

`entries` has all slots of the free map, the stale ones behind `num_entries`
included, since `MultiMap_Erase` leaves a copy there; `pmap` is the look-aside
buffer as a function from addresses to page counts. `PagesFor` is the code's
rounding, in a `size_t` of `WordSize` values. A failed CHECK ends the program
(`running`). The callers own what they are given and free it once. A request for no
bytes, of which the graph executor makes one for the `inputs` of every null node, gets a
whole free block, or, when none is free, the address at which the next block will begin.
The history variable `bare` has the owners of such an address; the others, `Holders`, have
a block of pages. The model goes on when a bare owner frees its address, which puts
the block of another owner on the free map or counts an entry that was not written; the
properties end there (`ordinary`), as at the first grant whose rounding wrapped and at an
address cut behind the last page, for which the look-aside buffer may have no slot.
`BlockAllocator` says what a caller of `TVMPlatformMemoryAllocate` relies on and
nothing else. The refinement mapping takes a holder to the pages of the block at
its address (`HeldBlocks`); a bare owner holds none.

### Arena and MinRPC

`pages` is the memory of the arena's pages: the header of each by its address, with
the `next` pointer that makes two lists of them from `head` and `freeList`; `tail` is
`tail_`. The three ways through `GenericArena::Alloc` are three disjuncts,
`RecycleAll` does its assignments in the code's order, since the tail and the head
may be one page, and `ShutdownArena` is `FreeAll`. A page that the platform does
not grant stops the program in `MicroIOHandler::Exit`, which never returns
(`running`). The history variable `objects` has what the current request was given.

In `MinRPC` a request is what the bytes at the read cursor of the buffer spell, with the
number of bytes there (`available`): a message of the host, or, behind a packet that was lost
(`ReceivePath`), stale bytes that give the length, the code and the fields. The server makes a
list of what it does to read it (`todo`): bytes to take from the buffer, objects to allocate, bytes to
write into them, conditions to check, for each RPC code as in its handler. The
steps follow `minrpc_server.h` and `rpc_reference.h`; what was sent follows
`SendPackedSeq` and the host's side of the protocol, separately, so that the two
can disagree. The call is made when nothing is left to do;
its result is any of `Results` or an error. A reply is compared with the length it
announced.

### ModuleTable and TimeEvaluator

`registered` is the table of slots, `names` and `funcs` the mutable registry, whose
names grow towards its functions. Handles are the numbers the host gets: the index
with its top bit set, cut to the width of the C type (`Word`, `Top`), encoded and
decoded by the code's own arithmetic. `handed` records what each function handle
was looked up for. Functions are registered before modules are created: the program
does so at start-up. A registry filled to its last byte is damaged by the second
terminator (`MarkerHitsFunctions`) and is followed no further.

`TimeEvaluator` adds `RPCTimeEvaluator` (create) and `RunTimeEvaluator`: `Begin`,
`WarmUp`, then `TimerStart`, `TimedCalls`, `TimerStop` once or more for each repeat,
then `Reply`, or `Release` from wherever a step failed. Times are whole ticks of the
platform's timer, the function timed takes a number of parts of a tick, and the cycle
counter has `ClockTop` values. `spent` is the time that really passed.

### JSONReader, GraphSetup and GraphLoader

`JSONReader` has one operator for each function of the reader, on a text of tokens:
the position, and for each open array or object the number of items begun.
`ArrayLength` reads ahead through everything an array contains, then puts back the
position and opens the closed scope again. Strings have a length, because
`ReadString` gives one up when its buffer is nearly full and goes on inside it
(`lost`). The operators are recursive, as the documents are.

`GraphSetup` has what is made of a graph that was loaded: `SetupStorage`, with the size
of each pool entry and the views, and one step of `SetupOpExecs` for each node. A
document carries the graph it was written for. `Loading` is all that is said there of
`TVMGraphExecutor_Load`: when it ends well the executor has what the compiler wrote
(`AsWritten`, a scalar's shape read as a single zero), it misreads only strings that
do not fit and refuses only what the executor has no use for. Sizes are counted modulo
`WordSize`, as in C, and an assumption says that the compiler's entries can be counted.

`GraphLoader` adds the reader and has `TVMGraphExecutor_Load` as one action per key
(`LoadKey`, `LoadEnds`), with the nodes, their attributes, entries, shapes and the
graph's attributes below it. `LoadsAsWritten` says that it implements `GraphSetup`: each
key it reads is a step of `Loading`. `MCGraphLoader` writes the documents. The two
are apart because the reader's operators are recursive, which excludes the prover,
and the setup's need not be.

### GraphExecutor and AotExecutor

A block of memory is named by what it was allocated for, so that a block that is
freed and allocated again is the same, and one freed twice is noticed. `entry` has the
two pointers and the count of each view; `flagged` has the pool entries whose
`is_linked_param` is not zero, which Create leaves to chance. A `Create` that fails is
one action for each set of blocks it leaves behind. `handles` and `seen` are the
host's. `AotExecutor` extends it with the other executor; between two boots the host
creates one of the two. An ahead-of-time executor whose Create failed at an array has a module
all the same, and hands out arrays by their index: `made` counts those that were made, the
one that failed is cleared, and those behind it hold what was in their memory (`Leftovers`
has the counts). Releasing one of them frees whatever its pointers are (`stray`).

### How they fit together

`Framing` delivers payloads in order or drops them; `Session` is built on a link
that delivers in order and may lose a suffix of its unread input with a reset;
`ReceivePath` stands between the two on the device and takes any sequence of
packets, complete, lost or garbled. They are checked separately and not composed:
`Link`, which `Framing` implements, and `NoFinishedPacketLost` are what `Session`
assumes of its link. `MinRPC` takes the requests that `Session` and `ReceivePath` hand over:
one at a time, and behind the bytes of a lost packet what these make of it. It is composed with `Arena`, which takes
its pages from the page manager as `BlockAllocator` promises: distinct addresses,
large enough, or a refusal. `TimeEvaluator` is composed with `ModuleTable`,
`AotExecutor` with `GraphExecutor`, `GraphLoader` with `JSONReader` and `GraphSetup`, whose
promise of loading it keeps; `GraphSetup` says how the executor of `GraphExecutor` comes to its
entries and storages, which are constants there.

## What the runs show

A passing run checks all its properties on every reachable state of its instance.

| Run | Properties | Shows |
|---|---|---|
| `framing_resync` | `TypeOK`, `BufferHasRoom`, `NoFinishedPacketLost`, `NoInvalidEscape`, `KeepsLink` | a sender reset at any byte, or starting a packet inside another, costs only the packet it cut; the receiver takes the very next one; the leading `kEscapeNop` keeps a cut escape from becoming an invalid one (which main answers by exiting); a receiver that restarts in the middle of a payload that looks like a packet delivers nothing that was not sent; at every delivery what is passed over was cut short or excused |
| `framing_drain` | `DeliveredInOrder`, `StreamDrained` | with write errors, resets and text on the stream, the receiver reads on and delivers nothing that was not sent |
| `session_resets` | `SessionIdValid`, `NoHalfOpenSession`, `NoStaleDelivery`, `ApplicationInformed`, `NoncesFresh` | a host that starts sessions, with resets of both sides at any step and loss of unread input; the device boots with the same nonce again; no session is started with a nonce that a message on its way still carries, the hypothesis of the theorems about sessions |
| `session_crossed` | `NoHalfOpenSession`, `NotLeftWaiting` | both sides start sessions; Inits cross everything, and tie; nobody is left waiting unless a program exits or ties go on for ever, which they can (that nothing stale is accepted then is a theorem) |
| `receive_path` | `TypeOK`, `DamageEndsWithClear` | lost and garbled packets: counters stay in range, damage ends with the next `Clear` |
| `requests` | `TypeOK`, `ArgumentsAsSent`, `PagesOnOneList`, `GrowsOnlyWhenNeeded`, `ShutdownReturnsAll`, `AnsweredOnce` | requests of every kind in any order, and what stale bytes make of them: a call gets what its message spells, in memory of its own, each request is answered once or stops the program, no arena page is lost, a shutdown returns them all |
| `runtime` | `HandleReachesFunction`, `EvaluatorAsMade`, `MeasuredIsElapsed`, `NothingElseLost`, `EvaluationEnds` | modules, functions and evaluators made, freed and used in any order: a handle reaches its function, the time reported is the time that passed, a run loses nothing but what is known, and ends |
| `graph_documents` | `ViewsFit`, `OperatorsAsWritten`, `LoadsAsWritten` | documents with their keys in every order: reading them key by key implements the loading `GraphSetup` promises, so that the executor is the graph that was written; entries that share storage fit, operators work on the right entries |
| `executors` | `HandlesCounted`, `StorageLives`, `NothingLost`, `ArgsKept` | both executors created in every way, gets, frees and parameters: references add up, in a half-made ahead-of-time executor too, storage lives, nothing is lost or freed twice |
| `pages_blocks` | `TypeOK`, `GrantFits`, `PagesPartitioned`, `TLBHasRoom`, `OwnersNeverAbort`, `KeepsPromise` | any order of allocations and frees of one to three pages and of no bytes, until the pool is exhausted and beyond, or an address without pages is freed |

Two runs end in a counterexample, each to something a comment of the code says:

| Run | Property | What happens |
|---|---|---|
| `receive_lost` | `CursorAtPayload` | the bytes of a lost packet stay in front of the next message (`session.cc:132`, against `session.h:86`) |
| `executor_params` | `DataKept` | loading a parameter starts the count of its entry anew at zero, so a host that gets the input and frees it takes the data from the executor (`graph_executor.c:858`, `ndarray.c:35`, against `ndarray.h:44`) |

Each property of a passing run has a mutant: a small change of the mapped
definition, of the kind a slip in the code would be, under which TLC finds the
property violated. They stand in the modules before the definition they change.

### Bounds

* `framing_resync`: five byte values, a buffer of four bytes, two packets of one, four
  or eight bytes, one reset of each side, chunks of one to three bytes. A reset and a cut
  packet interact only with the packet before and the one after. A payload of four
  bytes fills the buffer exactly, and its length equals the escape code, so that the
  length field is escaped too; the one of eight overfills it and looks like a packet
  without a valid CRC.
* `framing_drain`: two packets, one sender reset, two bytes of text, any number of write errors.
* The stand-in CRC has 25 values and can collide; the payloads are chosen so that
  it does not. What a real CRC lets through is outside the model.
* `session_*`: three starts, one termination, up to two requests and one log
  message (none in `session_crossed`), two boots of each side. A session needs one start; the
  second makes it cross, the third meets what is left of both. Nonces are the code's eight
  bits. In `session_crossed` both ends have the same nonce for their first session, so that
  the first Inits tie, and different ones after a reset.
* `receive_path`: four packets, one of them lost, bodies of up to two bytes and a buffer of
  14: four packets fill it, so that short writes happen.
* `pages_blocks`: four pages of two bytes, four callers, requests for one to three
  pages, for nothing, and for so much that the rounding wraps in a word of 16 values. Reuse
  of a larger block for a smaller request, a full free map, a request that no
  block satisfies, several owners of one address without pages and a block cut at that
  address all occur. Callers are interchangeable (symmetry); the
  refinement is a safety property, so symmetry is sound for it.
* `requests`: five pages of 2048 bytes with a header of twelve, the sizes of the
  target; requests of each RPC code, strings that fill a page together, one that fills
  it to the last byte and ones that need two, and twelve messages as a buffer with stale
  bytes in front may spell them: with fewer and with more bytes than their fields take, and
  other types, lengths and codes than any the host sends. The lengths spelled are small (the longest
  5000 bytes), and a handle or address that is spelled is taken to lie outside the arena. Three requests with different needs leave free pages of both sizes to
  link and to choose from.
* `runtime`: two slots, an index of three bits, one function handle, two
  evaluators with two runs (fewer than a handle can number: the limit is in the theorem), a counter of eight values that starts at one or at seven,
  so that it wraps in the run or not, three blocks of memory, seven bytes of names and
  three functions: the names end one byte before the functions, or do not fit.
* `graph_documents`: two graphs with their five keys in all 120 orders, and five more in
  two orders, each with and without what is optional (device indices, other
  attributes, versions, the order of a node's keys) and with metadata or an unknown key
  at the end. Names of the longest that fits and one more, a type name of nine
  characters, three dimensions (the limit there), one argument less than the limit and as many, sizes
  of which the largest with its rounding is 29 bytes below `WordSize`.
* `executors`: an input, three parameters of which one is linked, and an operator that
  writes over the input; two handles of each entry; any set of parameters loaded, again
  and again; four arguments of a compiled model; counts of zero and two in memory that was
  not cleared.
* `MaxPackets`, `MaxText`, `MaxSenderResets`, `MaxReceiverResets`, `MaxStarts`,
  `MaxTerminates`, `MaxRequests`, `MaxLogs`, `MaxLost`, `MaxHandles`, `MaxEvaluators`,
  `MaxRuns`, the arena's `MaxPages` and the length of `InitialNonce` are bounds of what
  happens, each a guard of an action. `Requests`, `Settings` and `Documents` are
  bounds of what comes in. In `GraphSetup` a load that fails is not followed into
  `SetupStorage`, as the code would (see the observations), and graphs have no more
  storage ids than nodes, no more dimensions than fit and no entry of `WordSize` bytes and more.
* `CHECK_DEADLOCK FALSE` is set where all bounds can be used up and everything has
  been read (framing, session and runtime runs), where main may exit (`receive_*`), where
  the server shuts down or is caught in `Exit` (`requests`), where a failed CHECK ends
  the program (`executor*`), where a request got an address that the look-aside buffer has no
  slot for (`pages_blocks`) and where the load ends (`graph_documents`).

### Fairness

`StreamDrained` needs weak fairness of the Unframer's steps together: main reads
a byte whenever there is one and `Unframer::Write` runs to its end. The sender has
no fairness: it may stop anywhere. `NotLeftWaiting` needs weak fairness of reading
at both ends and of their first boot (a host talks to a device that is powered
on). Nothing is assumed of starts, terminations, requests or later resets. The
property excepts behaviours in which one of the programs exits, and those in which ties
never end: two ends that tie regenerate the same nonce, and no fairness makes one of them start
anew. The link of that
run loses nothing: the code has no retry, so an Init that is lost with a reset is
never answered, and the host's own timeout (`microtvm_api_server.py`) is what
ends the wait. `EvaluationEnds` needs weak fairness of the steps of a run together:
the code is one function, which goes on to its end; the function that is timed is
assumed to return. It takes the limit of zero times, or the growth of the number of
calls, to end the loop.

## What is proved

All proofs hold for every value of the constants that meets the named assumptions
of the modules.
Each safety property that a run finds to hold is stated by a theorem, some of them
under hypotheses that the theorem names, except `NoncesFresh` and `LoadsAsWritten` (see the end of this section).

* `FramingProofs!FramingSafe`: `Spec => [](TypeOK /\ BufferHasRoom)`. The types and
  the room in the buffer are not inductive without each other: that a field in
  `kFindPacketLength` is read from four bytes, and in `kFindPacketCrc` never takes
  more bytes than are left, needs both, and that a started packet exists
  when `FinishPacket` marks it. The invariant is `IInv`, one lemma per
  Unframer action.
* `FramingProofs!PacketsArrive` and `EscapesValid`: with a stream that takes every byte
  (`WriteErrors = FALSE`), `Spec => []NoFinishedPacketLost`, and without text on it also
  `Spec => []NoInvalidEscape`, for every alphabet, CRC, buffer, set of payloads and number of
  resets. The invariant, `PathInv`, is about the bytes that are still to be read. A place says
  how far into which packet a point of the stream is; a path gives every byte of what the
  current `Write` still has and of the stream the places before and behind it, such that the
  byte is the one a Framer writes between the two, or starts a packet there. `PathInv` says
  that there is a path from a place that agrees with the state of the Unframer to one that
  agrees with the Framer's. A receiver agrees with a place in one of four ways: only in the
  parity of an escape, as one that restarted in the middle; having found a start; in
  step, with the length, the bytes and the CRC of the packet; or past it. That the field in the
  middle of which it is is the sender's needs `SentPayloads`, that the CRC it has is the
  sender's needs its whole buffer. Both theorems hold with a CRC that tells
  nothing apart. With printed text TLC finds `NoInvalidEscape` violated (a Framer
  reset behind an escape, then text), with write errors both (see the observations).
* `FramingProofs!OrderKept`: `Spec => []DeliveredInOrder` when the stream takes every byte
  and neither side is reset, for every CRC, one that is the same for all packets included, with
  log messages that cut packets short and text before the first packet. `PathInv`
  carries what it needs: `Steady`, that the Framer leaves `kReset` for good with its first packet,
  so that no `kEscapeNop` and no text can stand in for the missing bytes of a packet that was
  cut (`Early`), and `Ordered`, that all that was delivered lies behind the receiver's place and
  belongs to a packet read to its end. The step that matters is the last byte of a CRC: the
  byte after a cut is the kEscapeStart of the next packet, which completes nothing, so the
  buffer and the CRC in it are those of one packet. With resets the property rests on the CRC
  (see below).
* `FramingProofs!LayerKeepsPromise`: under the same assumptions `Spec => KeepsLink`, the
  refinement of `Link`. The steps that matter are those that deliver (`DeliveryIsLinks`):
  `CompletesPacket` says that such a step reads the last byte of the packet at the receiver's place,
  `Ordered` that all delivered before lies behind that place, and `Past` that every
  finished packet behind it was delivered. It is more than order and the eventual delivery of
  what was finished: at no moment does the session layer see a packet before one it
  should have had first.
* `SessionProofs!NonceValid`: the rotation yields a byte between 1 and 232 from
  every nonce, so the branch of `RegenerateNonce` that skips zero never runs.
* `SessionProofs!SessionSafe`: `Spec => [](TypeOK /\ SessionIdValid)`. An endpoint
  that enters a session on a reply takes its own nonce as the initiator's half, so
  the invariant needs `WaitingHasNonce`: whoever waits for a reply has a valid
  nonce. It holds for every nonce the device may boot with, zero included.
* `SessionProofs!NothingStale`: `Spec /\ NoncesFresh => []NoStaleDelivery`, whoever
  starts sessions and whatever is lost. `NoncesFresh` says that no session is started with
  a nonce that an Init or a reply still on its way carries. A nonce has eight bits and the
  first one is not the code's, so it cannot be proved; `session_resets` checks it there, with a
  device that repeats itself at every boot. Without it the property is false: with both sides
  repeating their nonce at each boot and losing unread input TLC has a request of an older session
  accepted after twelve steps. The invariant is one of the two links, each by itself
  (`LinkInv`): what a message from the peer says of the session it belongs to, given
  the endpoint's own state, the peer's, and the messages behind it. There are five kinds of steps, and
  one lemma for each says what it keeps of the link it reads from and of the one it writes to.
* `SessionProofs!BothInformed`, `NoHalfOpen`: `ApplicationInformed` and
  `NoHalfOpenSession` under the same hypothesis, with at most one side that starts sessions: in this
  repository only host code calls `StartSession`. `NoHalfOpen` also needs the
  two versions to be equal, because the device answers an Init of any version and is then in a
  session the host refuses; `kVersion` is a constant of the code, and the device does not
  compare. `OneStarterInv` says what cannot be on the links with one starter, and `WholeSession` how
  far the two ends have come in a session.
* `ReceivePathProofs!ReceivePathSafe`: `Spec => [](TypeOK /\ DamageEndsWithClear)`. Needs that what is
  behind the cursor of a buffer without damage is exactly what was passed on of the current
  packet (`AlignedInv`), and that nothing of the next packet is taken while a message is
  in the buffer (`BusyInv`).
* `PageAllocatorProofs!PoolSafe`: `Spec` implies that `TypeOK`, `GrantFits`,
  `PagesPartitioned`, `TLBHasRoom` and `OwnersNeverAbort` always hold, for requests of any
  sizes. All but `TypeOK` are claimed while `ordinary` is true, that is until a bare owner frees its
  address, a rounding wraps in a grant, or an address is cut behind the last page. After the
  first two the code breaks them, after the third it may (see the observations).
  The inductive invariant says that the entries with pages in the look-aside buffer cut the used
  pages into blocks, and that an entry without pages is at the end of them, where the next
  block replaces it (`BlocksCutPool`); that a holder's address is such a block and large enough
  (`OwnersHaveBlocks`), that bare owners asked for nothing (`BareAskedNothing`), that a used
  entry of the free map is a block with its whole page count (`EntriesAreBlocks`), and that each
  block is held once (`HeldOnce`) and by somebody (`NoneLost`). That a free never finds the
  free map full is a pigeonhole argument (`OwnerCanFree`): free entries and the block being
  freed have different first pages, all below `MaxPages`.
* `PageAllocatorProofs!ManagerKeepsPromise`: up to the same point every step of the manager is one
  of `BlockAllocator`, by the invariant and one lemma per branch; to hand out an address
  without pages is a stutter.

* `MinRPCProofs!ArenaSafe`: `PagesOnOneList`, `GrowsOnlyWhenNeeded` and `ShutdownReturnsAll` for
  every page and header size, number of pages, and requests. The operators `List` and `Ends` walk
  the `next` pointers; the invariant `ArenaInv` instead has the two lists as sequences without a
  repetition (`TwoLists`), to which each of the three ways through `Alloc` adds or from
  which it takes one page, and which `RecycleAll` joins, whether or not the head is the tail. `WalkMeets`
  says that following the pointers meets just the elements of such a sequence. That objects are
  behind the header and apart needs that they end before the page's `offset` (`ObjectsIn`);
  that the arena does not grow needs that its pages have the numbers 1 to n (`Numbered`).
* `MinRPCProofs!CallGetsItsArguments`: `ArgumentsAsSent` for any requests: any number of arguments,
  of any types and lengths, and any number of bytes in the buffer, fewer or more than the message it
  spells takes. What is sent and what the server does
  to read it are two recursive functions over the arguments, and the induction is over their
  length, on the set of lengths for which it fails. `Executes(s, steps, t)` says that steps lead from
  `s` to `t`, where a state has the sizes of the objects so far and the bytes unread, and a step
  that fills or writes must be inside its object. `PlanExecutes`: what `ProcessOnePacket` does to read a
  request leads from no objects and all of its bytes to a state with nothing unread. The invariant
  (`Planned`) is that the steps left lead there from what the arena and the buffer now have.
* `MinRPCProofs!RequestsAnswered`: `AnsweredOnce` from the same invariant. That a field is cut short
  only if the message lacks bytes is the arithmetic of `Planned`; that a step refuses only what the
  host does not send is in `StepTaken` for `throw`; that a reply is as long as it says
  is `RepliesAsAnnounced`. `TypeCorrect` is `TypeOK`, with each page's offset within its size.
* `ExecutorProofs!CountsHold`, `StorageHolds`, `NoneLost`: `HandlesCounted`,
  `StorageLives` and `NothingLost` for every graph, storage plan and number of handles.
  None of them is inductive: that a free releases nothing of the executor's needs the
  counts of all views of a storage, and that needs what each entry points to. The
  invariant says that an entry is the view Create made, with its shape allocated and
  counted, or a parameter that owns its data or has lost it, and that nobody has a
  handle while there is no executor (`TypeOK`, `Idle`, `EntriesHold`, `NothingLost`).
* There too, `ArgumentsHold`: `ArgsKept` for every list of arguments and whatever
  uncleared memory holds; an argument the executor has no reference to is never handed out. `BothExecutorsHold`: every
  step of the two executors is a step of the graph executor or leaves it
  (`ExecutorsImplementGraph`), so the theorems above hold beside the other one too.
* `TimeEvaluatorProofs!MemoryKept`: `NothingElseLost` for any blocks, settings and
  number of runs, from what each stretch of the run has allocated (`RunInv`).
  `EvaluatorFound`: `EvaluatorAsMade` for every index width, by the arithmetic of the
  handle (`HandleParts`), with `MadeInv`: the handles given out are those of the
  evaluators 1 to `created`. `TimeMeasured`: `MeasuredIsElapsed` for every counter,
  since the time of one measurement and the counter's start differ by less than its
  range. `HandlesReach`: `HandleReachesFunction` for every number of slots, functions and
  look-ups (`TableInv`): that a name is found at the same index after others were
  registered goes by the least index that has it.

* `GraphSetupProofs!StorageSuffices`, `OperatorsAsCompiled`: `ViewsFit` and
  `OperatorsAsWritten` for every graph the compiler may write (`DocumentAssumption`), with any
  number of nodes, outputs, entries and dimensions, whatever was loaded in which order. That a
  storage suffices: the product of the dimensions, which `TensorBytes` takes, is at most the one
  `Shape_Accumulate` stops at a zero (`AccumulateCovers`, by induction over the dimensions; both are recursive
  functions, and `Recursion` gives what they are), nothing wraps (`EntryFits`), and the entry
  that shares a storage is among those the maximum is over (`PoolCovers`). That
  operators are on the right entries: counting the outputs of all nodes before gives the
  row (`OutputsNumbered`, by induction over the nodes), and an entry's number stays below the last
  row (`RowsOrdered`). The invariant (`Inv`) says of each operator bound so far that it is that of its node.
  Of a node whose function the module does not have nothing is claimed: `CreateTVMOp` fails, its
  status is ignored, and the operator is a local variable that was never written.

Only model-checked, and why:

* liveness (`StreamDrained`, `NotLeftWaiting`, `EvaluationEnds`), which the prover does not
  do here;
* `DeliveredInOrder` with resets or write errors, and `KeepsLink` with resets: they rest on the CRC. With an
  arbitrary one they are false, since a receiver that joins in the middle of a payload, or repeated resets of the sender
  with their kEscapeNop and text, can make the pieces of two packets look like one;
* `NoncesFresh`, the hypothesis of the theorems about sessions: with enough resets and a message
  delayed long enough the rotation does come round, so it holds within bounds only;
* `NoHalfOpenSession` with both sides starting sessions (`session_crossed`), where it takes
  the luck of the nonces;
* `LoadsAsWritten`: the operators that read a document are recursive, which excludes the prover. What is
  proved of `GraphSetup` holds of the loader as far as this run shows that it implements it.

## Observations on the code

Behaviour the models have because the code has it, and which a reader of the
comments would not expect.

Transport:

* A write error in `Framer::StartPacket` (`framing.cc:343-347`) leaves `state_`
  as it was; the other two operations go to `kReset`, which `framing.h:231` calls
  the state after a write error. The next packet then starts without
  `kEscapeNop`. With write errors `NoFinishedPacketLost` and `NoInvalidEscape`
  are therefore not claimed.
* `Unframer::Write` decodes several packets in one call; `framing.h:58` says it
  returns after one.
* An Init in an established session runs the callback twice (`session.cc:223-226`).
* A normal message outside its session, or a log message that reaches the device,
  leaves the receive buffer marked as busy, and the next byte makes main exit
  (`session.cc:142`, `160-173`).
* Nonces: a device that repeats its nonce at every boot does no harm as long as
  the host does not (`session_resets`). A host that repeats its nonce after a
  reset can end half-open, and if both repeat, a request of an older session is
  accepted: `session.h:116` asks for different ones.
* `GoToReset`: in a session every reply ends in `kReset`, without telling the
  application; the branch for a reply with no responder nonce is behind a return
  for that very case. From `kReset` the next `StartSession` aborts
  (`session.cc:84`), although `session.h:128` says it starts a session "regardless of
  state". It takes two sides that start sessions, so
  `ApplicationInformed` is checked with one.
* Two Inits with equal nonces cross: both sides take the same next nonce, for ever
  (`session.cc:212-217`, "ties retry"). `NotLeftWaiting` excepts this (`Tied`); without the
  exception TLC finds it in `session_crossed`, whose first nonces are equal.
* Session messages are read but never cleared from the buffer (`session.cc:147`), so a
  packet of the size `crt_config.h:44` allows may not fit behind them.
* `PosixWrite` takes the framer's positive error codes for success (`rpc_server.cc:64`);
  a reply that was cut is found only by the CHECK in `MessageDone`. A refused argument type and a short message loop
  for ever in `MicroIOHandler::Exit` (79). `kShutdown` makes `Loop` return an error like any
  other (151), which main answers by exiting as from a failure.

Memory:

* `page_allocator.c`: rounding a request close to the largest `size_t` wraps and
  grants no page (131). A request for zero bytes, when no block is free, shares its address
  with the next block, whose pages its free then takes; at the end of the pool it can add an
  entry more than the look-aside buffer has room for (62, 285). Shapes of no dimensions
  (`ndarray.c:39`) and empty arrays of a document (`graph_executor.c:143`) make such
  requests, and the release of the executor frees them (`graph_executor.c:220`). That they are held
  does no harm to others (`PoolSafe`); that they are freed does. `*out_ptr` is cleared also when the request fails (129, against `platform.h:67`).
* `generic_arena.h`: with objects larger than a page the arena can grow without end:
  one request, repeated, may take another page each time, because only the first free
  page is tried (155) and a small object may take the large page the next one needs.
  `GrowsOnlyWhenNeeded` is therefore stated for single pages.

Runtime (`crt_runtime_api.c`, `func_registry.c`):

* A timed function that fails leaves the timer running, and every later start fails
  (`platform.h:88`). The release path frees the array of the result only if freeing its
  data failed (623), and dereferences NULL when the first allocation failed (620).
  `NothingElseLost` says that this is all that is lost.
* The number of calls, once it has grown, stays so for the next repeats; a measurement
  of more than the counter's range wraps. After a cooldown the run returns without error and without
  a result. A failing `RPCTimeEvaluator` has already overwritten the settings of the
  evaluator before it, and from index 32768 on the handle it returns is never accepted (521).
* `DecodeModuleHandle` accepts an index equal to the size of the table. A function
  handle kept beyond `TVMModFree` reaches whatever takes the slot next.
* Behind the last name of the registry a second terminator is written, which the space
  check does not count: when the space is full it clears a byte of the first function
  (`func_registry.c:159-165`). `TVMStreamCreate` leaves the handle unwritten (138);
  `g_last_error` keeps the text of an older error.

Executors:

* `graph_executor_module.c:241` says the registry has eight functions and lists ten: the
  last two cannot be looked up. `get_num_inputs` reads an argument it is not given (129).
* A `Create` that fails leaves the singleton set and its memory allocated; every later
  one is refused until a reset. The ahead-of-time one ignores the status
  (`aot_executor_module.c:60`) and hands out its module, whose `get_input` and `get_output`
  look at the metadata only (81-130) and hand out arrays that were never made; a host
  cannot free the executor. If no slot
  is free for the module, the executor is released and its address kept.
* `LoadParams` aborts on a parameter that is input 0, `CHECK_GT(in_idx, 0)` (835). An
  index equal to the number of inputs or outputs passes the checks (`>` for `>=`), and
  the tests for negative indices are on unsigned numbers.
* `is_linked_param` is only ever set to one, in memory that was not cleared, so
  `Release` may skip an array (`graph_executor.c:993`). A linked parameter's shape is taken from
  the entry whose number is its storage's (1000).

Loading a graph (`load_json.c`, `graph_executor.c`):

* The function of a reshape, `"__nop"` in
  `model/executor-config/graph/default.graph`, is in no module. `SetupOpExecs` ignores
  that `CreateTVMOp` failed (1097), and the operator is what the uninitialised local
  variable held: on many builds the one before, which `Run` then calls twice, but any
  function, number of arguments and pointers are possible.
* `ReadString` gives up when one byte is left besides the terminator (`load_json.c:214`),
  says so without an error and leaves the reader inside the string: a type name of nine
  characters, like `float64x4`, makes everything after it misread. An escape in a string
  that `ArrayLength` skips is written through NULL.
* What `Load` returns is ignored by `Init`, which goes on with what there is. An empty shape is
  read as a single zero, which counts as one element. `pool_entry` has as many elements
  as there are nodes and is indexed by storage id (971). `flatten_data` writes through
  NULL (1141). More dimensions than six are misread. The arguments of an operator are
  written to their array before they are counted (1074, 1087).

## Not modelled

* The Unframer's rewind when its own stream fails (`framing.cc:266`): main exits on that
  error. `TVMLogf`'s formatting buffer: `vsnprintf` returns the length the text would
  have had (`rpc_server.cc:245`).
* `PageMemoryManager_Realloc`, which nothing installs or calls; the stack allocator,
  which nothing of the device program calls; the UART ring buffer, which `main.cc` does
  not use.
* Contents and shapes of tensors, `SetInput`, `GetOutput` and `Run`, which copy and
  compute but change no structure; the header checks of a parameter blob; linked
  parameters in `GraphSetup`; indices at the off-by-one, whose outcome is undefined.
* `packed_func.c` and `crt_backend_api.c` are thin forwarding and appear where they are
  called.
* The host side (`microtvm_api_server.py`): it forwards reads and writes to the pipes of the
  simulator with a timeout and keeps no state but the process. When the simulator ends it calls
  `disconnect_transport`, which this repository does not define (`close_transport` is what it
  has), so what follows depends on the base class in TVM. Also the logging wrappers of host tools, the
  generated operator code and the example scripts.
* The vendored headers (`crt/include/dmlc`, `crt/include/dlpack`), C++ templates of host programs that the device
  does not use; they are the larger part of the lines of this repository, so the models cover a small share of all lines
  and most of the device's own.

## Plan

Done: the transport (`Framing`, `Session`, `ReceivePath`), the page manager with its
abstract specification, the RPC server on its arena, the module table with the time
evaluator, the graph loader and both executors, and the proofs above.

Next:

1. `KeepsLink` with resets, from an assumption on the CRC.
2. A composition of `Session`, on `Link`, with `ReceivePath` on the device.
3. The stack allocator's two checked modes, as generated code would use them, and the
   host's side of the pipes: timeouts and a simulator that ends.
