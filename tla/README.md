# A specification of the smts streaming server

`smts` relays live video. Viewers connect over TCP and ask to preview a channel of a recorder (a
"DVR"). The server opens one connection per channel to the recorder, reads frames from it and sends
each frame to every viewer of the channel. It is written in C on libuv: one event loop, on which
every handler below is a callback; only the logger uses threads.

This directory holds TLA+ modules that model the program, TLC configurations that check them on
small instances, and proofs checked by TLAPS. Paths such as `smts_session.c:90` are below `src/src/`.

## 1. Inventory

| component | sources | state it keeps | operations |
|---|---|---|---|
| intrusive queue | `common/queue.h` | two pointers per node | init, insert at head, remove, foreach |
| session manager | `session_manager.c`, `smts_abstract_session.c` | a queue of sessions and a counter | init, is_contain, get, add, delete |
| media session | `smts_session.c` | status, list and number of viewers, exit timer, the recorder's connection | start and stop a preview, hand out frames, wait, exit, send a command to the recorder |
| viewer connection | `smts_client_impl.c` | status, its session, list node | accept, preview response, frame, error, close, transparent channel |
| recorder connection | `mock/smts_mock_dvr_impl.c` | status, channel, callbacks | connect, preview command, read frames, write, close |
| TCP client base | `smts_abstract_tcp_client.c` | the handle, the packet being read | connect, send, start reading, alloc and read callbacks, close |
| dispatch | `smts_dispatch.c` | none | one handler per command, or the error handler |
| protocol codec | `protocol/*` | layouts; per command its buffers, a bit map, a reference count | length, alloc, encode, decode, share, destroy |
| listen socket | `tcp_server.c` | status | init, start, stop, destroy |
| logger | `common/css_logger.c` | line buffers, dump position, rotation, status | init, log, dump, rotate, close |
| allocation guard | `common/mem_guard.c` | a table of blocks | malloc, free, report |
| addresses, recorder table, error texts, utilities, main | the rest | tables | lookups, formatting, start-up |

How they interact. A packet comes out of the **TCP client base** and goes to **dispatch**, which
calls the **media session** (`media_client_start_preview`) or, on a failed read,
`stop_smts_client`. The media session looks itself up in the **session manager**, joins or creates
a session, and starts the **recorder connection**; the recorder's callbacks (connected, preview
command written, frame, error, closed) come back into the media session, which writes responses and
frames through the **viewer connections**. A write callback may stop a viewer, which unlinks it from
its session, which may arm the exit timer. All share one loop; an object is freed by the callback of
the close of its handle.

What is hard. No two callbacks run at once, but nearly any two can run in either order, and each
object is reachable from several of them:

- a session has viewers, a recorder's connection, a timer and an entry in the table, and each of
  them can outlive the others by some callbacks;
- a frame is shared by as many writes as it has receivers, and any of the writes may be refused at
  once, fail later, or be cancelled by the close of its connection;
- stopping a session twice, or a session that is out of the table, is reached by ordinary failures;
- a connection may be stopped from its own read, from a write callback, from the list of its session
  and from the exit of its session, while libuv aborts on a second `uv_close`;
- a command for the recorder is held by the dispatcher and by a write which may wait for the
  connection, be refused, or be called back when viewer and session are gone;
- the logger's threads, timer and closing worker share buffers which the pool is still reading, and
  check the writer and the length before they take the mutex;
- a packet comes in any number of pieces, and its length is taken from a buffer that belongs to
  libuv;
- the encoder goes over the fields three times and must get the same buffers each time.

What makes the parts correct:

- session manager: one session per key, found by its key, lost only when deleted; the links form a
  circle of the length of the counter;
- media session: no session is forgotten, freed while reachable or closed twice; lists, counters and
  back pointers agree; every viewer is answered;
- frames: the count equals the writes in flight; freed exactly at zero;
- viewer connection: the response first, frames after it, silence after the close, memory given back;
- packet reader: packets are handed over once, whole and in order, and bodies never leak;
- codec: what is written is what the layout says and what the receiver decodes; blocks are freed
  once and frames never;
- transparent channel: a command is freed once, by whichever holder lets go last, and is written to a
  recorder that serves;
- listen socket and addresses: the server's memory outlives its socket, and every address is used;
- logger: lines stay whole in the buffer and in flight, none is lost but one that no buffer holds,
  the writer that is used is not one that closes or is freed, no file but the oldest is lost, and text
  leaves the buffer at last: it is dumped, or thrown away when the file is lost
  (`common/css_logger.c:177`).

`PROJECT.json` lists every hazard at its line with the properties that cover it, or why none does.

## 2. Modules

| module | models | lines of the source |
|---|---|---|
| `Queue` | the queue's macros, assignment by assignment | `common/queue.h` |
| `SessionManager` (extends `Queue`) | the table's functions as operators from the manager before a call to the one after | `session_manager.c` |
| `Registry` | abstract specification of the table: a set of sessions, one per key | `session_manager.h` |
| `TcpServer`, `NetAddrs` | the listening socket; the addresses that connections are bound to | `tcp_server.c`, `common/net_addrs_util.c` |
| `Main` (extends `SessionManager` and these two) | what `main` sets up, beside each other | `smts_main.c` |
| `Media` (extends `SessionManager`) | sessions, viewers, recorders and frames | `smts_session.c`, `smts_client_impl.c`, `mock/smts_mock_dvr_impl.c`, the writes and closes of the client base |
| `Viewer` | abstract specification of what a viewer sees | the protocol of `smts_client_impl.c` |
| `Channel` (extends `Media`) | commands for the recorder and their acknowledgements | `smts_dispatch.h`, `smts_session.c`, `smts_client_impl.c` |
| `PacketReader` | the alloc and read callbacks under libuv's `uv__read` | `smts_abstract_tcp_client.c` |
| `Codec` | the generated codec and the life of a command on both sides | `protocol/*` |
| `LogFiles`, `Logger` | the log directory; threads, buffers, writers and the close | `common/css_logger.c` |
| `MC...` | constants and symmetry sets for TLC | |
| `..._proofs` | theorems and their proofs: `Media`, `Viewer` (what a viewer sees), `Frames` (the counts of frames), `Channel`, `PacketReader`, `Main`, `Logger`, `Codec` | |

Composition: `Main` calls the table in every order of keys and sessions, beside the socket and the
addresses, but deletes a session only while it is in the table or while no session of its key is.
This rule is the model's: `session_manager.h` states none, and the media sessions break it (run
`unregistered_session`). `Media` calls the same operators as the media sessions do. `Channel`
extends `Media` action by action. Two specifications are refined: `Registry` by `Main`
(`ImplementsRegistry`) and `Viewer` by `Media` (`ImplementsViewer`).

### Media

An action is one callback of the loop with everything it calls. The correspondence of names:

| action | callback |
|---|---|
| `client_on_connection` | accept; `uv_accept` or `uv_read_start` may refuse, then the connection is closed |
| `smts_start_preview` | a PREVIEW packet: `JoinSession`, `CreateSession` or `FailToCreateSession` |
| `dispatch_packet_error` | a failed read, a bad packet, or the viewer has gone |
| `on_smts_client_send_preview_res_cb_slient`, `..._error_preview_res_cb`, `..._send_frame_cb` | write callbacks; a queue per connection keeps their order |
| `socket_close_cb` | the close callback of a viewer, which frees it |
| `on_connected_to_dvr`, `on_smts_dvr_client_send_preview`, `on_smts_dvr_client_recv_frame`, `on_dvr_client_read_error`, `on_dvr_client_close_cb` | the recorder's side |
| `session_exit_cb` | the five-second exit timer |

`chandle` joins a connection's memory and its libuv handle: `free`, `open`, `closing`. `writeq` is
the queue of accepted writes; a refused `uv_write` is a disjunct of the handler. `smem`, `fmem` are
the memory of sessions and frames: a freed block may be allocated again, so a stale pointer is
observable. `clients`, `client_size`, `csession` are the list, the counter and the back pointers;
the list of viewers is a set, since nothing depends on its order, while the table of sessions keeps
its pointers, since `delete_session` unlinks by address what it looked up by key.

Bounds: `Clients`, `Sessions`, `Frames` are the blocks that `malloc` may return, `Keys` the
channels; `MaxStarts` bounds the PREVIEW packets of one connection.

`Viewer` says what the protocol promises to one viewer and lets a callback move many of them. The
mapping (`PhaseOf`, `FramesIn`) reads the phase off `chandle`, `cstatus`, `csession` and `writeq`.

### Channel

A command (`Packets`) is one block of memory with the packet it refers to; `ref` is its count. The
macro of the dispatcher, `media_client_send_cmd` and `on_send_cmd_to_dvr_cb` are one operator or
action each. `dvrq` is the queue of writes to a recorder's handle, in which the preview command has
its place: a write waits for the connection, and goes before the preview command. `acks` counts the
acknowledgements to a viewer that are in flight; all of them carry status 0, since
`common_res_t_init` clears the status that was set before it. Actions of `Media` which meet a queue
of the channel (`ClientCloses`, `DvrConnects`, `DvrPreviews`, `DvrCloses`) get the guard that libuv
gives them; the rest are taken over as they are.

### Main

`TcpServer` keeps the status of the server, what the loop has of its handle, and its memory block.
Starting fails before the handle is initialised or after it, and then leaves it in the loop. Nobody
stops a server twice before its callback, so the model does not either. `uses` in `NetAddrs` is a
history variable. `NewSession` and `EndSession` are what a client of the table may do that keeps to
the rule of `Unregister`: a session is deleted while it is in the table or while none of its key is.

### Logger

A critical section is one action; what the code reads before it takes the mutex (status, writer,
the length to dump) is a step of its own, and so is each callback of the loop. `css_logger_start`
may open a new file, reopen one, or fail; it is called once. The three buffers are one flat array of
characters, as in memory, so that text which runs past its buffer lands in the next one. A character
is the number of its line and its place in it. `writes` holds what the pool was handed and has not
called back; `wstate` are the writers so far, each open, not opened, closing or freed; a file is its
age. `held`, `missed` and `rotations` are history variables for the properties: the lines that
`offset` counts, those logged since the buffer was emptied that it does not count (`LogRetried`), and
how often the buffers turned. `BufferHoldsLines` says of the first that they are the text of the
buffer, and of the second that at most one of them would fit an empty buffer. That there is one at
all is what the run `lost_line` shows. A thread that goes through a
`NULL` writer under the mutex stops the process (`crash`).

### PacketReader

libuv's `uv__read` is modelled as far as the reader depends on it: `buf` is a local variable that is
not initialised (so what the alloc callback decodes from it is any length, unless the previous turn
of the same loop left it at the field), the loop goes on after a read that fills its buffer, at most
`Budget` (32) times, and stops when the handle is closed. `stream` holds the place and the length of
each packet sent; bytes are counted, not stored. `Whole` restricts the network: a length field
arrives whole and together with some of its body.

### Codec

`PROTOCOL_MAP` is the layout of every command; the five generated functions are folds over it. A
byte has `Byte` values (4 in the run, so that eight-byte integers fit TLC's), command codes are
numbered, and texts are as long as `TokenLen`. `Power` is what a shift by bytes multiplies with;
`LengthAssumption` says that a packet's length fits its four-byte field (`MAX_PACKET_LEN` keeps to
that), `CommandsAssumption` that what is sent is in the protocol. Blocks of memory are the elements
of `heap`. `BinaryBuf` (no command has one) is left out, the reference fields in use are never `NULL`, and
`abstract_cmd`, the common head, is never sent by itself.

## 3. Runs

| run | instance | what it shows |
|---|---|---|
| `main` | 3 sessions, 3 keys (symmetry), up to 3 addresses with 3 connections each; 90,826 states | the pointer-level table implements `Registry` and its links stay a circle (`ManagerList`); `ServerMemory`; `AddressesEven` |
| `media` | 2 viewers, 2 sessions, 1 key, 2 frames; 228,311 states | `TypeOK` (no count below zero), `ListIntegrity`, `NoForgottenSession`, `SessionMemory`, `ManagerList`, `WaitersAreAnswered`, `FrameReferences`, `CloseOnce`, `ResponseFirst`, `ClosingIsQuiet`; `Viewer` is implemented; `IdleSessionReleased`, `StoppedClientReleased`, `ViewerAnswered` |
| `channel` | 2 viewers, 1 session block, 2 commands in 2 blocks; 107,798 states | `PacketReferences`, `WrittenToServingDvr`, `CommandReleased` |
| `packet_reader` | 3 packets of lengths -1, 4, 5, 7, 8, maximum 7; 35,554 states | `PacketsInOrder`, `BodyOwned`, `PacketDelivered` |
| `codec` | all seven commands, frames of 0, 1 and 3 bytes, 2 references; 9,417 states | `WireFormat`, `OwnMemory`, `ExactRoundTrip` |
| `logger` | 2 threads and the closing worker, 3 lines of lengths 2 and 3, buffers of 6, 3 files; 1,676,378 states | `BufferHoldsLines`, `InFlightUntouched`, `WriterUsable`, `FilesInOrder`, `OnlyOldestLost`, `TextLeavesBuffer` |
| `failed_preview` | 1 viewer | a viewer whose recorder cannot be reached is sent status 0, "success", and disconnected |
| `unregistered_session` | 2 viewers, 2 sessions, 1 key | a failed session unlinks the one that replaced it: it serves viewers and cannot be found |
| `packet_pieces` | 1 packet whose length field comes in pieces | the length is decoded from the wrong place |
| `frame_round_trip` | the frame response | the decoder takes the frame for four bytes longer than it is |
| `lost_line` | 1 thread, 2 lines of length 3, buffers of 6 | a line that an empty buffer would hold is retried at its old place, and no dump takes it up |
| `logger_dump` | 2 threads, 2 lines | the timer's dump leaves out a line that is logged between its look at the length and the mutex |

The last six are violations: each checks one statement of the repository that the code does not keep
(`findings` in `PROJECT.json` quote it).

Why the bounds are enough. *Media*: with two viewers one can be answered while the other waits, joins
or leaves; with two frames one can be in flight to a viewer while the next is handed out; two
sessions let one end while another of its channel starts. That no more viewers are needed for the
safety properties is proved (section 4): each of them is a theorem for any number of viewers, sessions
and frames. Three viewers were checked for them too, with the symmetry of `MCMedia` (427,013 states,
not a run of its own); liveness rules symmetry out. One key, because every viewer then meets
the same session. There is no passing run of `Media` with two keys: a stale removal of
`unregistered_session` may then link a freed neighbour back into the table, its counter diverges, and
what follows has no meaning in the program either. For the same reason the passing runs send one
PREVIEW per connection (`MaxStarts = 1`): after a second one a viewer is counted twice and its node
linked twice, and the model, in which a session's list is a set, means the program only up to that
point.
*Channel*: two commands meet in one queue or go to a session and its successor, which waits until the
block of the first is freed, as a pointer kept to it would show; with two blocks for sessions
and one command the properties hold as well (973,856 states, not a run of its own).
*Main*: three sessions make a list with a middle; three connections per address go round twice.
*Logger*: buffers of 6 and lines of 2 and 3 characters: a line fits, fits and fills the buffer beyond
80 %, or does not fit, and with three lines a line follows a dump by either thread. A file is full
after one dump or two (`MaxFileSize = 4`). Three names, so that a file lies between the written one
and the one that is unlinked. One case of `InFlightUntouched` lies beyond these bounds and was met
while proving it. A line that does not fit is retried at its old place with the room of a whole
buffer, and may run on into the buffer behind. While the file is open that one is not in flight, or
only since three rotations ago; once a rotation of files has failed and the writer is `NULL`, a dump
hands out nothing and turns no buffer, so the line runs on into text that was handed out two
rotations ago. The property therefore grants a write one rotation less when there is no writer. The
instance that shows the need has three threads, five lines of length 3, `BufSize = 6`,
`MaxFileSize = 7` and one name; on it TLC checked the property as it stands (11,977,882 states, too
many for a run), and `FlightUntouched` proves it for all.
*Packet reader*: the lengths are the smallest and largest valid ones, those next to them, and a
negative one; with three packets a packet lies between two others and several come in one call of
`uv__read`.

Two more behaviours of the packet reader were seen with TLC and are not runs of their own, since
they have the cause of `packet_pieces`: with `Whole = FALSE` `BodyOwned` fails too (the body is
allocated twice when the field came alone), and with `Whole = TRUE`, `Budget = 2` and two packets
`PacketsInOrder` fails (the budget ends between a field and its body).

Every property of a passing run has a mutant in `PROJECT.json`: a bug of the kind the code could
have, for which the same run fails. The mutated operators stand in the modules, marked "A bug to tell
apart", and nothing uses them.

### Fairness

`Media!Fairness` holds what libuv does by itself: it runs the callback of a connect, of a write to
the recorder, of an expired timer, and every callback that a close makes pending. Writes to a viewer
that is not closing have none (its TCP window may stay full for ever), nor does a recorder have to
send frames or a viewer to leave. The connect to the recorder and the preview command are given
fairness, although a recorder might accept neither: the kernel gives up a connect, and the command
is a few bytes into an empty buffer of the kernel. `PacketReader!FairSpec`: the loop polls a handle
that is being read and runs the close callback. The network is not fair: `PacketDelivered` speaks of
packets that have arrived. `ChannelFairness` adds to that of `Media` that a close calls back the commands and
acknowledgements in flight, and that a command before the preview command, as short as it is, is
written. `Logger!Fairness`: the loop runs expired timers and finished work, the pool runs the closing
worker and its writes, and a thread in front of the mutex gets in; no thread has to log.

`CHECK_DEADLOCK FALSE` stands in the configurations of `PacketReader`, `Codec`, `Logger` and `Main`,
where the system ends (the connection closed, the commands destroyed, the logger closed or crashed,
the connections counted by `MaxConnects` made); the others do not stop.

## 4. Proofs

Without assumptions (`Media_proofs`):

- `TypeCorrect`: `Spec => []Types`, for any numbers of viewers, sessions, keys, frames and PREVIEW
  packets. `Types` is `TypeOK` but that the two counters, of viewers and of references, are integers:
  that they are never negative needs the condition below.

With one channel and one PREVIEW per connection (`OneChannel`; the runs above show what happens
without):

- `Invariant`: `Spec => []IInv`, from which `ListsAgree` (`ListIntegrity`), `SessionsAlive`
  (`SessionMemory`), `NoneForgotten` (`NoForgottenSession`) and `TableWellFormed` (`ManagerList`)
  follow, for any number of viewers, sessions and frames;
- `ConversationsKept` (`Viewer_proofs`), and from it `AnsweredFirst` (`ResponseFirst`), `ClosedOnce`
  (`CloseOnce`), `QuietOnceClosing` (`ClosingIsQuiet`) and `ViewerImplemented`: the server implements
  module `Viewer`;
- `ServingKept`, and from it `WaitersAnswered` (`WaitersAreAnswered`);
- `FramesCounted` (`Frames_proofs`): `FrameReferences`, and with it and `ListIntegrity`
  `CountsNatural`: `Spec => []TypeOK`;
- `CommandsReachRecorders` (`Channel_proofs`): `WrittenToServingDvr`.

These are theorems `ASSUME OneChannel PROVE Spec => ...`.

`SessionMemory` by itself is not inductive. A session deletes itself from the table twice or more,
and each deletion writes through links that may be stale. `Shape` says what stale links can be with
one key: the table holds one session or none, and a node points at itself or at the head, so that a
stale removal empties the table and does nothing else. `ConnectionInv` says that a connection which
has not asked for anything is in no session, so that a first PREVIEW inserts a node that is not
linked. `SessionInv` adds that what can reach a session finds it alive and that one without viewers
waits for its timer or is closing. The proof has one lemma per callback; the lemmas on the helpers
(`stop_smts_client`, the table's functions, cardinalities) come first.

What a viewer sees is proved in two steps. Lemma `StepMoves` says that every callback, whichever
viewers it touches, makes one of ten moves of each connection or leaves it alone; each move keeps
`Conversation`, which says what lies in a queue of writes in each state of the connection, and is a
step of `Viewer`. `FramesInv` adds to the counts that no frame is twice in a viewer's queue: then
a frame is handed to as many viewers as it has writes, and a callback takes away one.

About the transparent channel, without assumptions (`Channel_proofs`):

- `MediaUndisturbed`: `ChannelSpec => Spec`. The channel only delays steps of `Media`, so that every
  safety theorem above holds beside it;
- `PacketsCounted`, and from it `ChannelTypes` (`ChannelTypeOK`) and `PacketReferencesCounted`
  (`PacketReferences`). The invariant says that a block is held by one write of one session, or by
  none and free.

About the table, for callers that keep to the rule of `Unregister`, the socket and the addresses,
without assumptions on the constants (`Main_proofs`), for any number of sessions, keys and addresses:

- `TableKept`: the links of the registered sessions and of the head are a ring, each key has one
  session, and the counter is their number; `TableIsList` (`ManagerList`) and
  `TableImplementsRegistry` follow. A ring is stated without an induction along the list:
  `Ring(q, L)` says that the set `L` of nodes is closed under both links, that they are inverse, and
  that no smaller non-empty set is closed under `next`. The last part is what makes it one circle,
  and it is what `RingInsert` and `RingRemove` keep: a set that is closed afterwards gives one that
  was closed before;
- `ServerMemoryKept`, `AddressesSpread` and `MainTypes`.

About the logger, without assumptions (`Logger_proofs`), for any number of threads, lines, files and
sizes:

- `FilesKept`, and from it `FilesStayInOrder` (`FilesInOrder`) and `OldestIsLost` (`OnlyOldestLost`);
- `WriterStaysUsable` (`WriterUsable`). Its invariant adds that no write in flight closes the
  current writer, and (`Phases`) that the closing worker does nothing before the close: it dumps with
  the order to close, after which the writer is used no more.

About the reader (`PacketReader_proofs`), for packets of any length and number, under two
conditions: the network brings a length field whole with some of its body (`Whole`), and no call of
`uv__read` spends the last of its reads on a field (`FieldNotLast`, a hypothesis `[]FieldNotLast`
beside `Spec`):

- `InPlace`: the inductive invariant `IInv`; `InOrder` (`PacketsInOrder`), `OneOwner` (`BodyOwned`),
  `ReaderTypes` (`TypeOK`) follow;
- `FewPackets`: with `Budget >= 2 * MaxPackets` the second condition always holds. With libuv's 32
  these are connections of sixteen packets. A longer burst, read from the middle of a body on, can
  make the last read that of a field; whether it does is a matter of timing, hence the hypothesis.

The argument: `InStep` says that `taken` is the start of the current packet plus `offset`, and that
between the field and the body the reader is always in the same call of `uv__read`, whose buffer
still points at the field. Lemma `NextPacket` says that where more has arrived a packet starts, so
the length decoded is the one sent. `ReadsInv` keeps the budget positive, `ReadsLeft` (for
`FewPackets`) counts two reads per packet.

About the buffers of the logger, as above without assumptions (`Logger_proofs`):

- `LoggerTypes` (`TypeOK`), from `LoggerInv` and `MissedInv`;
- `TextKept`, and from it and `MissedInv` `BufferKeepsLines` (`BufferHoldsLines`) and `FlightUntouched`
  (`InFlightUntouched`).

`BufferHoldsLines` is not inductive by itself: that a dump starts with an empty buffer, and that a
retried line does not disturb what is held, depends on where the other buffers are. `Turning` says
that the index `bindex` is that of the buffer after the current one, and that nothing is logged
before the start. `HeldText` says that the lines held cover the buffer up to `offset`, each character
in one line, and stand in it. `InFlight` follows a write by its age: after one rotation its buffer is
the one before the current and holds its lines; after two it is the one to come, and holds them while
there is a writer; after three nothing is known. The lemmas on one line (`Stands`) say which
characters a retried line can reach: the end of the buffer it did not fit in, and the start of the
next, which is the new current one after a dump and a write two rotations old without. `MissedInv`
says that a line which misses the buffer while it is empty is too long for any, and that one which
misses it later is the first since the dump that it caused.

About the codec (`Codec_proofs`), from the assumptions on the constants alone, for any even number of
values of a byte, any length of the token and of frames and any number of references:

- `IntegerRoundTrip`: an integer of one to eight bytes is decoded to itself;
- `CodecKept`: the inductive invariant. `Made`, `Sent` and `Received` say that what each side has is
  what the passes make of the fields, `Held` that a command has as many holders as references were
  added and one more, `Allocations` that `heap` is the blocks of the commands that are held, and the
  frame. `CodecTypes` (`TypeOK`), `MemoryKept` (`OwnMemory`), `WireKept` (`WireFormat`) and
  `RoundTripKept` (`ExactRoundTrip`) follow.

The passes are folds over a layout, that is, recursive functions, of which the prover knows only that
they satisfy their equation if some function does. Lemma `Induction` states induction over the
numbers with a set for the predicate, and takes it from the least element of a well-founded order
(`WFMin`), since a theorem with an operator parameter cannot be used. `FoldExists` then builds, for
any step given as a function, the function on prefixes that a fold stands for; `CmdLen`, `BufsAlloc`,
`BufsInnerAlloc`, `Encode`, `Flattening` and `Decode` are its instances. With them
`BufferCount` (a reference takes a second buffer), `Allocation` (the sizes of the buffers, and a bit
for the reference), `Written` (what is written into each buffer) and `Decoding` (what was joined is
read back) go by induction over the fields of any layout that meets `GoodLayout`, as the seven of
the protocol do (`Layouts`): the last field is the only one that may be a reference.

Only model-checked is liveness: `IdleSessionReleased`, `StoppedClientReleased`, `ViewerAnswered`,
`PacketDelivered`, `CommandReleased` and `TextLeavesBuffer`. Liveness and `ENABLED` are out of the
prover's reach.

## 5. Plan

Done: the table, the media sessions, the reader and the codec; the transparent channel; the logger;
the socket and the addresses; the specification of a viewer; a theorem for every safety property that
a passing run checks. What is left, in this order:

1. What may be proved with several channels and several PREVIEWs per connection: the parts of the
   media invariant that need neither condition.
2. An abstract specification of the wire (a packet sent is the packet received) implemented by
   `Codec`, now that the round trip is proved.
3. `MemGuard`: an entry is found under the lock and removed under it again later
   (`common/mem_guard.c:107`).
4. The queue of handles of libuv, for a session freed with its timer and socket in the loop.

## 6. Not modelled

- The allocation guard: no other component reads what it keeps.
- Memory of write and connect requests, which leaks on two error paths
  (`smts_abstract_tcp_client.c:82`).
- The loop's queue of handles: a session whose connect fails at once is freed with its timer and
  socket still in it (`smts_session.c:274`, listed), a server whose bind fails is destroyed with its
  handle in it, the logger frees its timer without `uv_close` (both listed).
- Of the socket: a second stop before the callback, on which libuv aborts (nothing calls it). Of the
  addresses: `destory_smts_addrs` and a second `init_smts_addrs`, which adds to the count of the
  first (unit tests only). Of `main`: the signal handler, which waits for a key, and that the results
  of `init_smts_addrs` and `start_tcp_server` are ignored, which the model shows as a server without
  addresses or socket.
- What a retried line writes beyond the third buffer. `vsnprintf` is given the room of a whole buffer
  at a place inside one (`common/css_logger.c:601`), and in the third buffer a long line is written
  beyond the end of the static array; `Put` drops those characters. The runs log too few
  lines to come there, and no property speaks of it (listed among the hazards).
- Of the logger: the console, the levels and the formatting; what a file holds (so that `0.log` is
  opened without `O_APPEND` when the directory cannot be listed has no consequence here); a second
  start. That the writer stays `NULL` after a failed rotation, and that a line logged during the
  close is lost, are in the model and contradict nothing the repository says.
- An acknowledgement whose write is refused leaves its viewer connected; it is in the model
  (`msg_channel`), and nothing says that every command is acknowledged.
- Values of frames and of the fields of commands outside `Codec`; error texts.
- The recorder table (a constant array) and the utilities: lookups and formatting.
- Callbacks are atomic, which is exact for one loop without threads. The critical sections of the
  logger are atomic, which is not quite exact: the code looks at the writer and at the length outside
  the mutex, and in the middle of a section of another thread it may see no writer while a file is
  replaced (and then clears the offset of the new buffer), or a length that is about to be cleared.
  Both are narrower forms of the race that `logger_dump` shows, and `BufferHoldsLines` speaks of the
  program without them.
