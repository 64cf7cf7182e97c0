# Verification of dslogger

dslogger is a log relay for Windows.  Programs connect to port 9880 and send
log packets; browsers connect to port 9980 over WebSocket and are shown every
record while it is received.  This directory holds a TLA+ model of the relay,
the TLC runs that check it on small instances and the proofs, checked by TLAPS,
of what holds for instances of any size.

`PROJECT.json` lists components, runs, the correspondence between definitions
and source lines, hazards, findings, mutants and theorems.

## 1. Inventory

| Component | State it keeps | Operations | Talks to |
|---|---|---|---|
| log clients (`socksvr.cpp/.h`, `packets.h`) | list of `Client` objects; per client the header read last, packet memory (`PacketBuf` list, `bufLock`), name, text received | accept, read header, read body, read text, disconnect, get and give back packet memory | server thread of `ioService`; calls `onFormatData`, `onDumpData` |
| dispatch (`configs.cpp`, `LogDumpDispatchToWebSockets`) | `sessions`, `sessionsListLock` | `onDumpData` | called by the server thread; posts to every connection |
| WebSocket connection (`ws/connection.cpp`) | flags `m_parsing_headers`, `m_active`; `m_session`; socket; strand; `m_outbox` | read a header line or frame, handshake, answer, queue and send messages, close | WebSocket thread of `wsService`; the viewer |
| WebSocket server, sessions (`ws/server.cpp`, `ws/session.cpp`, `Session` in `socksvr.cpp`) | `m_connections`, factories; the list of sessions | accept, make a session, list and unlist it, write to it | connection, dispatch |
| start and stop (`socksvr.cpp`, `dslog.cpp`) | `bEventLooping`, `bMainRunning`, `bWSRunning` | start the threads, run the services, stop, wait | window thread, server thread, WebSocket thread |
| growing buffer (`dbuffer.cpp/.h`) | for each object: block, size of the block, begin, end, whether the block is lent | take and remove room at the begin, the end, the middle; move, resize, reserve; attach, detach, assign | used by log clients in text mode, which only append |
| wire format (`ws/frame.cpp`, `process` and `write_text` of the connection) | `buffer_`, `fragment_` | parse and write frames, put messages together | connection |
| viewer page (`htmlviewer/dslog.js`, `index.html`) | the WebSocket; a tab for each client name with its rows and its box "allow clear"; which tab is visible | show a string, commands clear and close, the buttons and boxes of the user, reconnect | the strings of `onDumpData` |
| window, tray icon, configuration file | | calls of Windows | starts and stops the server |
| SHA-1, base64 | | third-party code | the handshake of the connection |
| `logdump.cpp` | | nothing | |

Three threads run.  The *window thread* starts and stops the server.  The
*server thread* runs all handlers of the log clients, one at a time.  The
*WebSocket thread* runs all handlers of the viewers, one at a time.  The two
server threads meet in `sessionsListLock` and in the strands of the
connections: `onDumpData`, in the server thread, posts tasks that the WebSocket
thread executes later.

What is hard here:

- the list of sessions holds raw pointers to objects that are owned by
  connections of the other thread, and those are destroyed when their last
  handler ends;
- whether a write or a read is under way is not stored anywhere: it follows
  from the size of `m_outbox` and from every handler starting the next read;
- `close()` may come from a read, a write, a frame, the handshake or the
  middle of a read condition; the actual closing is posted, and may find the
  socket closed already;
- an exception of one handler leaves `run()` and shows a message box in the
  thread that serves all viewers;
- the packet memory of a client is managed by addresses;
- two of the socket modes come from an uninitialised member;
- a buffer does its arithmetic on three numbers through some twenty functions
  that call each other, and its block may be lent, shared or handed over;
- the page sorts strings into tabs by a name that the server leaves out of some
  strings, and looks tabs up by a selector that for some names finds nothing,
  something else, or throws.

What makes each component correct: for the *connection*, one read and one write
at a time, messages in order and never interleaved, a close after the flush, no
leak of the object; for the *list*, no dangling pointer and no erased iterator;
for the *dispatch*, every listed viewer is shown each record once and in order;
for the *log clients*, one outstanding operation for each object, packets in
memory of their own, records in order and the news of a disconnect last; for
*start and stop*, both servers run until the stop, and the stop ends; for the
*buffer*, its data within its block, no block with two owners, and agreement
with a sequence of bytes; for the *wire format*, agreement with the format of
frames; for the *page*, that a tab shows the end of what its name was sent.

## 2. Modules

| Module | Models | Composes |
|---|---|---|
| `Broadcast` | the promise: a record is owed to everybody present, and shown once and in order | |
| `WsServer` | connection, WebSocket server, sessions, dispatch | refines `Broadcast` |
| `MCWsServer` | its instances | `WsServer` |
| `WsServerProofs` | theorems about it | `WsServer` |
| `PacketBuf` | `getPacketBuf` and `backPacketBuf` as operators on the list of nodes | |
| `LogClients` | the log side | `PacketBuf` |
| `MCLogClients` | its instances | `LogClients` |
| `LogClientsProofs` | theorems about it | `LogClients` |
| `ViewerPage` | the page of a viewer | `LogClients` |
| `MCViewerPage` | its instances: names, and what jQuery selects for them | `ViewerPage` |
| `ViewerPageProofs` | theorems about it | `ViewerPage`, `LogClientsProofs` |
| `ByteSeq` | the promise of the buffer: a sequence of bytes, and what each call does to it | |
| `DBuffer` | `DBuffer` objects, their memory and their callers | refines `ByteSeq` |
| `MCDBuffer` | its instances | `DBuffer` |
| `DBufferProofs`, `DBufferSeqProofs` | theorems about it | `DBuffer` |
| `WireFormat` | the bytes of frames, `Frame::parse`, `Frame::write`, `process` | |
| `MCWireFormat` | its instances | `WireFormat` |
| `WireFormatProofs` | theorems about it | `WireFormat` |
| `ServerLifecycle` | start and stop of the two servers | |
| `ServerLifecycleProofs` | a theorem about it | `ServerLifecycle` |
| `Induction` | induction and recursion over the natural numbers, stated for sets, for the proofs | |

### WsServer

A handler is one step.  The strand of a connection is a FIFO queue `strand_[c]`
that holds the tasks that were posted (a write of a record, a handshake or a
pong; `close_impl`) and the results of reads and writes that ended.  An action
takes the head of a queue and does all that the handler does:

| Code | Action |
|---|---|
| `onDumpData` | `OnDumpData`, `SessionWrite(c)` for each session, `DumpReturns` |
| `Server::handle_accept` | `HandleAccept` |
| completion of `async_read_until`, `async_write` | `ReadCompletes`, `ReadFails`, `WriteCompletes`, `WriteFails` |
| `buffer_ready_condition` without a newline for 64K | `HeaderLineTooLong` |
| `handle_read` with an error, a header line, a frame | `HandleReadError`, `HandleHeaderLine`, `HandleHandshakeRejected`, `HandleHandshakeAccepted`, `HandshakeThrows`, `DropHugeHandshake`, `HandleFrame` |
| `write_impl`, `write_many_impl` | `WriteImpl` |
| `handle_write` | `HandleWritten`, `HandleWriteFailed` |
| `close_impl` | `CloseImpl`, `CloseImplThrows` |
| the loop around `wsService.run()` | `DismissAlert` |

`Close` is `Connection::close`, an operator that the handlers that call it
share.  `onDumpData` is split at each session because handlers of the other
thread run in between; the lock `sessionsListLock` is the variable `dumping`: a
handler that lists or unlists a session waits while it is true.
`HandleHandshakeAccepted` and `DropHugeHandshake` are one handler of the code,
cut in two at the second place where it takes the lock.

Data is abstracted to what a handler does with it.  A header line is one that
ends nothing, the last one of good headers or the last one of bad headers; a
frame is a close frame (or one with reserved bits), a ping, or one that is
ignored.  A record is the number of the call of `onDumpData` it was given to.
A message of `m_outbox` is the header of a frame, its payload, a handshake
response or a pong.

The network: a viewer may close (`PeerCloses`) or a connection be reset
(`PeerFails`) at any time.  Shutting down a socket that is closed throws; on one
that was reset it may throw.

Left out: exceptions for lack of memory; data that completes the rest of an
overlong header line so that it is blank (see the comment of `Incoming`); the
content of the answer to a ping (it is in `WireFormat`).

### LogClients and PacketBuf

A Client has a list of outstanding operations, of which there should be one.
`kSocketMode` is never set by the code, so that each client starts with any of
three values: packets, text, neither.

| Code | Action |
|---|---|
| `onAccept` | `OnAccept`, `OnAcceptError` |
| `onReadHeader` without, with a body | `ReadShortPacket`, `ReadHeader` |
| `onReadBody` | `ReadBody` |
| `readLength`, `async_read` of a body that overruns its node | `BodyOverruns` |
| `onReadHeader`, `onReadBody` with an error, `onDisconnected` | `ReadFails` |
| `onReadStrings` | `ReadStrings` |
| the end of `serverThreadProc` | `ServerThreadEnds` |

Here `onDumpData` is one step that appends to `dumps`: the two sides meet only
in it, and what happens behind it is `WsServer`.

`PacketBuf` keeps the arithmetic of the code, with the sizes as constants.  A
pointer is the position of a node and an offset from the start of its memory.
Packets have any lengths (`Lengths`).  A body that is longer than what is left of
its node behind the place it was given overruns the node when it is read.  What
the bytes hit there is not modelled: either nothing that is used, and `ReadBody`
goes on, or something, and then `BodyOverruns` makes the server thread
"undefined" and nothing more is said of the process.

### ViewerPage

The page receives what `LogClients` hands to `onDumpData`, from the string
behind the one at which it connected (`joined`), in that order and each once:
this is what `ImplementsBroadcast` of `WsServer` says, and here it is used
instead of `WsServer`.  Next to the steps of the log side there are those of the
page:

| Code | Action |
|---|---|
| `onopen`; `onerror`, `onclose` of the first WebSocket | `OnOpen`; `OnClose` |
| leaving the field for the address (`blur`); `onerror` of the WebSocket made then | `Blur`; `RetryFails` |
| `onmessage`, `getClientContent`, the commands | `OnMessage` with `Show` (`NewTab`, `InsertRow`) and `ClearCommand` |
| buttons of the tabs (`toggleClient`, clear), the box "allow clear" | `Click` |

A name is the sequence of the packets it was put together from, as in
`LogClients`.  Its text is not modelled letter by letter; four parameters say
what the code makes of it: `Id`, the text before the first `|`; `Cut`, whether
more follows it; `Selects`, which elements of the page `$('#' + id)` finds; and
`BadSelector`, whether jQuery throws instead.  The elements are the tabs, the
buttons of the tabs, the hidden template and the div of the buttons.  `Show`
has all four outcomes: an exception leaves the page as it is, and so does an
element without a table; with no element a tab is made; the template's table
gets the row if the template is found, for it comes first; else the first tab
found.  After an exception `onmessage` is called for the next string as before.

`onFormatData` writes no name for the command clear and for `setName` and unknown
packets, so that the page takes them for the name `default`.

The field for an address is there from the time the page is loaded.  A WebSocket
that the user makes goes to port 9080, where nobody listens (`threadWebSocketProc`
listens on 9980), so that `RetryFails` is the only thing that happens to it.

Left out: names that hold a `|` with a `*` right behind it, which would make a
record a command; names with markup (`dslog.js:39` puts them into HTML, where they
would make elements of their own); the look-up of an address by a web service, of
which a success is `Blur`.

### DBuffer and ByteSeq

A member function is an operator on a record: the fields of the buffer and the
heap.  Functions that call each other (`MoveData` calls `FromEnd` and
`RemoveEnd`, most call `Reallocate` or `ResizeTo`) do so in the model.  A block
is a function from offsets to bytes; a byte is a value of a small set, one of
which, `Junk`, is the byte nobody has written.

| Code | Definition |
|---|---|
| `reallocate`, `fromBegin`, `fromEnd`, `fromMiddle` | `Reallocate`, `FromBegin`, `FromEnd`, `FromMiddle` |
| `resize`, `_reallocAndCopy`, `reserve` | `ResizeTo`, `ReallocAndCopy`, `Reserve` |
| `removeBegin`, `removeEnd`, `removeMiddle`, `moveData` | `RemoveBegin`, `RemoveEnd`, `RemoveMiddle`, `MoveData` |
| `deallocate`, the destructor, the constructors | `Deallocate`, `Construct`, `CallReserve` |
| `attachMem`, `detachMem`, `freeDetachMem` | `AttachMem`, `DetachMem`, `FreeMem` |
| `assignTo`, `attach` | `AssignTo`, `Attach` |
| `append`, `prepend`, the operators `+`, `c_str`, `setUnusedUpper`, `clear` | `CallAppend`, `CallPrepend`, `InsertMiddle`, `CStr`, `SetUnusedUpper`, `Clear` |

`ByteSeq` is the same without memory.  The variable `call` holds the call that
the step makes, so that `ByteSeq` can say what this very call does.

Most functions do what `ByteSeq` says only for callers that keep to more than
`dbuffer.h` asks for.  The module writes this down (`MayChange` and the operators
`Owed...`), and a run assumes it with `Careful = TRUE`.  What the passing runs and
the theorems say is therefore said of careful callers only: the cases of the
table's last column are excluded by assumption and not shown to be harmless.
Lent memory may be written in place (it is a finding that it is, `dbuffer_lent`),
and blocks may be lost (`LeaksAreTwo` says how).

| Call | What the caller owes | Otherwise |
|---|---|---|
| every call that writes in place | no other buffer has the block | the function writes into bytes that another buffer shows |
| every call that frees or replaces the block | no other buffer has it, or it is borrowed | another buffer shows memory that was freed |
| `fromBegin` with room left | begin is 0, or there is that much room before begin | the data is moved over the new end |
| `fromMiddle` with room left | the room behind the data is enough, or there is none and what is pushed back is no longer than the gap | data is moved twice, or lost |
| `reallocate` in place | `before` is where the data begins already | the data is not moved to the new begin |
| `resize` to a new block | begin is 0, or there is no data | bytes are copied from the start of the block (`dbuffer.cpp:444`) |
| `moveData` | the bytes are there; begin is 0 or the target lies within the data; there is room behind the data | bytes behind the data are moved; the target is compared with `end`; a pointer into the old block is used after `fromEnd` has freed it |
| `detachMem` | no other buffer has the block, begin is 0 | the caller owns what a buffer shows; the address returned is not that of the data |
| `attach` | two different buffers, and no third has the block | the block is freed while it is shown |
| `setUnusedUpper` | the block is not lent | the flag of a lent block is cleared, and it is freed later |
| `c_str` | the block is not full | the 0 is written one byte behind the block |
| freeing lent or detached memory | no buffer has it | a buffer shows memory that was freed (this is a guard of `FreeMem`, with and without `Careful`) |

`assignTo`, the constructors and `attachMem` ask nothing of their callers beyond
the second row.

The program itself only appends to `recvBuffer` of a log client
(`socksvr.cpp:422`), and keeps all this.

### WireFormat

`WsServer` treats a frame as a unit; here it is a sequence of bytes.  The
viewer lays frames out as the RFC says (`Rfc`, which is also what the answers
of the server are compared with), they arrive in pieces, and the connection
finds them in its buffer:

| Code | Definition |
|---|---|
| `Frame::parse`: its returns of 0, its result, the payload | `Complete`, `Parse`, `Unmasked` |
| `Frame::write` | `WriteHeader` |
| `buffer_ready_condition`, `async_read_until` | `Receive` |
| `handle_read` and `process` | `HandleRead` with `ProcessPing`, `ProcessPong`, `ProcessPiece`, `ProcessText` |
| `write_text` | `WriteText` |

`Radix`, the number of values of a byte, is a constant, 256 in the code and
here any power of two down to 32; the marks 126 and 127 and the bound 0xFFFF of
the code follow from it.  Frames that close the connection are in `WsServer`.
A payload has fewer than `Radix`^4 bytes, which is 4 GiB for bytes of eight
bits.  `MaxInt` is the largest `int`: `handle_read` puts the number of bytes into
one (`ToInt`), and takes nothing from the buffer when that makes it negative.

### ServerLifecycle

The three threads share three plain booleans and the stopped state of the two
`io_service`s.  Every read and every write of one of them is a step, because
nothing orders them between threads; `toStore` leaves open in which order the
two flags of `serverThreadProc` become visible.

| Code | Action |
|---|---|
| `startSocketServer` | `StartThread`, once for each thread |
| end of the message loop, `bEventLooping = false` | `Exit` |
| `stopSocketServer` | `StopServices`, once for each service; `Wait`, once for each flag read |
| `serverThreadProc` | `BindFails`, `ServerBinds`, `ServerStores`, `ServerTests`, `ServerLeaves`, `ServerThrows`, `ServerAlertDismissed`, `ServerCleansUp`, `ServerEnds` |
| `threadWebSocketProc` | `BindFails`, `WsBinds`, `WsAnnounces`, `WsTests`, `WsLeaves`, `WsThrows`, `WsAlertDismissed`, `WsEnds` |

`run()` is one place of a thread: what happens in it is `LogClients` and
`WsServer`.  It does not return before the stop, because `work` keeps
`ioService` busy and the WebSocket server always accepts; it throws when a
handler throws.  `announced` is a history variable: whether both threads had
set their flags when the user chose to exit.

## 3. Runs

All runs but those of `DBuffer` state `CHECK_DEADLOCK FALSE`: with the bounds used up the
model stops, and a connection that is closed has nothing left to do.  A buffer
can always be called.

| Run | Instance | States | Checks |
|---|---|---|---|
| `ws_one` | 1 connection, 2 records, 3 inputs | 80 671 | `TypeOK`, `ReadDiscipline`, `WriteDiscipline`, `FramesWhole`, `CloseAfterFlush`, `ImplementsBroadcast`; `Delivery`, `Released`, `DisconnectNoticed` |
| `ws_two` | 2 connections (symmetric), 1 record, 1 input each | 158 777 | `NoDanglingSession`, `DumpIteratorValid` |
| `ws_death` | 1 connection, 1 record, 2 inputs | violation | `DeathIsFinal` |
| `log_clients` | 2 clients, packets of length 0, 4 and 9, up to 3 | 1 830 699 | `TypeOK`, `OneOperation`, `PacketMemorySound`, `RelayInOrder`, `Listening`; `PacketMemoryOnlyGrows`, `DisconnectAnnounced` |
| `log_hang` | 1 client, packets of length 2 | violation | `ServerThreadRuns` |
| `log_overrun` | 1 client, packets of length 2 and 9 | violation | `ContentKept` |
| `wire_format` | bytes of 5 bits, an int up to 1500, up to 3 frames | 24 962 | `FramesReceived`, `MessagesWhole`, `TextsReadable`, `AllProcessed` |
| `dbuffer` | 2 buffers, 3 blocks, a byte and junk; 3 bytes of data, 6 of memory; `MINALLOC` 2 | 38 288 | `DataInBlock`, `OneOwner`; `LeaksAreTwo`, `ImplementsByteSeq` |
| `dbuffer_lent` | 1 buffer, 3 bytes of data | violation | `LentKept` |
| `viewer_page` | 1 client, 5 packets, 1 click; the names are put together from `client-template`, `b`, `.y`, `t-b` and `\|c` | 3 417 523 | `RowsAreTheEndOfTheLog`, `TabsOfNames`, `UserMayRetry`; `NamedRowsStay` |
| `lifecycle` | everything (it has no constants) | 724 | `StopWaits`, `StopEnds` |
| `lifecycle_start` | everything | violation | `ViewersServed` |

Why the bounds are enough.  A connection needs one input to be accepted or
rejected, a second one to be closed by a frame or pinged, a third one for a
frame after the close; two records are needed for an order, and for a write
that is queued behind another.  Connections share only the list, the lock and
the thread, so that two of them show their interplay; what one connection does
on its own is explored deeper in `ws_one`.  `MaxRecords` and `MaxInputs` bound
how often the environment acts and no queue of the program.

`LogClients` scales the sizes of `socksvr.h` down (a header of 1, a node
structure of 4 or 6, an allocation of 16).  In `log_clients` a packet has no
body, a body of length 4, of which a node takes two and the second is not found
when it is given back, or one of length 9, which fills a node.  So second nodes
are linked in, a body is placed outside of its node (behind 4 and 9 the third
packet is), and one client hangs the thread while the other one is in any state.
The view of `MCLogClients` leaves out headers and places of bodies that are not
in use, and takes states behind the end of the server thread as one that have the
same `dumps`: nothing happens in them, and every Client is gone.

`WireFormat` has bytes of five bits, with which the longer forms of a length
begin at 14 and at 1024; the frames have the lengths on both sides of these
bounds, and one is longer than an int.  Three frames make a message of two
pieces with a ping between them, or of three pieces.  Two frames and more together have at most 30 bytes of payload
(`MaxBytes`), and a read does not end in the middle of a payload that is longer
(`MaxCut`): there nothing is decided.

`DBuffer`: three bytes are the fewest with a byte before, in and behind what is
moved, and with junk among them a byte of one value is enough to tell them apart;
two buffers are what a call can involve; three blocks let a call take a new one
while both buffers keep theirs.  A malloc
succeeds (`Bounded` leaves one block free).  The bytes inside a block that no
buffer shows are taken as one, by `Tidied` where nobody else has the block and by
the view of `MCDBuffer` elsewhere, and the buffers are symmetric.  The view
also leaves out `call`: the next state of `ByteSeq` reads `call'` only, and TLC
evaluates the properties on every step it generates, so no step is lost by taking
states that differ in `call` as one.

`ViewerPage`: five packets of one client are enough for a name in several parts
and strings before, between and behind them, with the command clear among them;
the strings of several clients differ for the page in their names only.  The
names of the run have each outcome of the look-up: `client-template` finds the
template, `bt-b` (the pieces `b` and `t-b`) the button of the tab `b`, a name that
begins with `.y` is no selector, one that holds `.y` further behind finds
nothing, `|c` is cut off.  One click toggles,
clears, changes a box or enters an address.

`ImplementsBroadcast` is checked with the refinement mapping at the end of
`WsServer`: `present` are the listed sessions whose connection still works,
`owed` is what is in `m_outbox`, in posted tasks and still to be visited by the
dump, `shown` is what was sent.

### Fairness

`WsUnattended` assumes weak fairness of the server thread (a dump that began
goes on: it holds the lock and waits for nothing), of the handlers of each
connection (one thread runs them, and Boost.Asio serves its queue in order), of
each write (it ends because the viewer reads or the connection fails) and of a
read that cannot succeed any more.  It assumes nothing of the viewers: they
never have to send, to close or to reset.  `WsFairSpec` adds that the operator
dismisses message boxes.  `Delivery` needs this: with `WsUnattended` alone TLC finds
that an exception in one connection's handler (a rejected handshake on a connection
that was reset is enough) keeps all records from the viewers until the message box
is dismissed (`socksvr.cpp:96`).
`LifecycleFairSpec` assumes that every thread is scheduled, that `run()` of a
stopped service returns, and that message boxes are dismissed; nobody has to
choose to exit and no handler has to throw.  `WireSpec` assumes that what was
sent arrives and that a handler that can run is run.  `LogFairSpec` assumes that a
read from a program that has gone ends with an error.  `DBSpec`, `DsSpec` and
`LogSpec`, which have no liveness to show, assume no fairness.

### What the failing runs show

- `ws_death`: a close frame that comes while the last write is in flight; the
  socket is closed by `handle_write`, and `close_impl`, still queued, throws on
  it.
- `log_hang`: a short packet at the end of a node is not found when it is given
  back; its lock stays locked and the server thread waits for ever.
- `log_overrun`: a packet is placed by the counter of the last node into
  another node, beyond its end.
- `dbuffer_lent`: lent memory is written in place, first of all by `c_str`; the
  comment of `dbuffer.h` says that it is copied before the first write.
- `lifecycle_start`: the WebSocket thread tests `bEventLooping` before the
  server thread has set it; it ends, and the server runs on without viewers.

`StopWaits` and `StopEnds` are stated for a stop after both threads have
announced themselves.  For an earlier stop neither holds: the flags are still
false and nothing is waited for, or `serverThreadProc` sets `bEventLooping`
again and the WebSocket thread goes round its loop for ever.  No document of
the repository speaks of such a stop.

Other things the code does, of which no run is made; the model has them as they
are:

- a failed accept ends the chain of accepts (`socksvr.cpp:148`); `Listening`
  says that nothing else does;
- `set_option` throws on a connection that was reset between its headers and the
  answer (`connection.cpp:354`, `HandshakeThrows`): the connection stays active, in
  no list, and is not read any more;
- a frame longer than an `int` is complete, but the number of its bytes is negative
  for `handle_read`, which takes nothing; it is found again for ever, and the frames
  behind it are never seen (`connection.cpp:103`, `ToInt`);
- the answer to a ping has opcode 0 and announces a payload that is not sent
  (`connection.cpp:140-142`, `ProcessPing`);
- `detachMem` returns the address of the block, also when the data begins behind it,
  although `dbuffer.h:105-108` says the first address of the data (`DetachMem`);
- an address that is entered while the page is still connecting: when that attempt
  fails, the mask "not connected" covers a page that is connected (`RetryFails`);
- a client whose `kSocketMode` is garbage is never read, and one in text mode that
  disconnects is read again for ever;
- the command clear is sent without a name and clears the tab `default`
  (`configs.cpp`, `onFormatData`); `NamedRowsStay` says that it clears no other;
- `setName` and unknown packets make an empty string, a row in tab `default`;
- the server sends the command `closed`, the page knows `close`;
- the page reconnects to port 9080, the server listens on 9980;
- names that jQuery does not find get a tab for each string, and strings whose
  name is no selector, or selects elements without a table, get no row at all;
- memory that a caller had in another buffer is lost by `assignTo`, and the copy
  that `detachMem` makes of borrowed memory is (`LeaksAreTwo`);
- `strListenIp` has no effect: the results of `from_string` are dropped
  (`socksvr.cpp:31` and `:83`).

Each property of a passing run has a mutant, a definition next to the one it
changes (`HandleWrittenStops`, `CloseUnlocked`, ...), with which TLC finds it
violated.

## 4. Proofs

`WsServerProofs` proves for every set of connections, every number of records
and every number of inputs, from `WsAssumption` alone:

| Theorem | Property |
|---|---|
| `TypeCorrect` | `TypeOK`: at most one write outstanding |
| `SessionsAlive` | `NoDanglingSession` |
| `IteratorSound` | `DumpIteratorValid` |
| `OneReadAtATime` | `ReadDiscipline` |
| `OneWriteAtATime` | `WriteDiscipline` |
| `FlushedWhenClosed` | `CloseAfterFlush` |

None of these invariants is inductive.  A listed session has a read only
because nothing but the handler of a read can end the chain of reads, and that
handler closes when it does; the iterator of a dump is valid only because
whatever unlists a session waits for the lock.  `IndInv` says this of each
connection on its own, in six parts: how listing, session and the flags go
together (`ListInv`), the chain of reads (`ReadInv`), the chain of writes
(`WriteInv`), nothing written before the handshake (`HandshakeInv`), which
tasks a closing connection may have queued (`CloseInv`), nothing under way
before the accept (`FreshInv`).

The contents of a queue enter only through two predicates, `Has` (some task
does one of these things) and `Once` (at most one does).  The lemmas
`AppendQueue` and `TailQueue` say how posting and running a task change them;
`Takes`, `Posts`, `Leaves` and `Closes` summarise what a step does to the
strand of one connection.  Then each action has a lemma that `IndInv` is
preserved: one step for the types, one for each of the six parts at the
connection that moves, and `Untouched` for all others.  `FlushedWhenClosed`
uses the same invariant: a socket is closed by three actions only
(`SocketCloses`), and each of them finds the outbox empty or leaves it so.

Its second half proves two more, from the same assumption:

| Theorem | Property |
|---|---|
| `FramesAlwaysWhole` | `FramesWhole` |
| `Refinement` | `ImplementsBroadcast` |

For the first, what a connection has sent and what it has still to send are one
stream; `write_impl` appends whole frames to it, and the completion of a write
moves only the border.  That the response to the handshake comes first follows
from the order of the strand: a connection past its headers has sent the
response, or has it queued before every other write (`Waiting`), or was refused
and has `close_impl` queued before every write, which then finds nothing to
flush and closes (`Refused`).

For the second, a record goes through four places: the list the dump has still
to visit, the strand, the outbox, the wire.  `Broadcast` sees the middle ones
as one sequence, what is owed to a viewer.  Taking a task that writes, putting
its message into the outbox and starting a write leave that sequence as it is;
`SessionWrite` moves a record into it that was already owed; `onDumpData` adds
one at its end, for everybody present; and the completion of a payload's write
takes the first one and shows it.  Everything that closes a connection or makes
its network fail also takes it out of `present`.  The lemmas on `Records` say how a
sequence of tasks or of messages gives records when one is added or taken.

`ServerLifecycleProofs` proves `StopIsSafe`: `StopWaits`.  The window thread
reads the two flags one after the other, so what it saw of the first must still
be so when it has seen the second.  The inductive invariant says that a flag
that was taken back is never set again (`FlagsTell`), that no thread is there
before it is started (`NotStarted`), and what the window thread knows at each
place of its wait (`WaitTells`).

`LogClientsProofs` proves, from `LogClientsAssumption` and
`PacketBufAssumption` (what the constants are):

| Theorem | Property |
|---|---|
| `LogTypesOK` | `TypeOK` |
| `OneOperationAlways` | `OneOperation` |
| `RelayedInOrder` | `RelayInOrder` |
| `AlwaysListening` | `Listening` |
| `PacketMemoryIsSound` | `PacketMemorySound` |
| `PacketMemoryGrows` | `PacketMemoryOnlyGrows` |

`OneOperation`, `RelayInOrder` and `Listening` share an invariant, `IndInv`.  A
`Client` never has two reads
because each handler ends by starting the next one or by deleting the object:
`WorkInv` says which single operation is pending in each mode and each state of
an object.  A record is relayed in order because the last record told about a
client is about the packet received last, under the name it has then or, for
the names that came before the name was known, under a prefix of it
(`ToldInv`).  The two theorems about packet memory hold whatever the lengths of
the packets are.  They do not say that a body lies in its node, which is false
(`log_overrun`); they say what survives: counters that are right, one packet at
most that is out, no node freed, and a body in the last node that ends where the
counter says, so that only one placed in another node can lie outside (`CountInv`).
Behind an overrun they say nothing of the executions in which it hit something
(`BodyOverruns`).

`TypeOK` takes an invariant of its own, `TypeInv`.  The counter `cc` of a node
is decremented without a test, so that it stays a natural number only if no
packet is given back twice, and the theorem says so for *all* lengths of
packets, those included with which a body overruns its node: a packet that is not
found leaves the lock locked and none is taken any more, and a counter is 1
where one is given back.  The numbers in records stay within the bound of the
model because no more packets are received than strings handed on.

`ViewerPageProofs` proves, for all clients, names and ways the user clicks:

| Theorem | Property |
|---|---|
| `RowsAlwaysTheEnd` | `RowsAreTheEndOfTheLog` |
| `TabsAlwaysOfNames` | `TabsOfNames` |
| `UserMayAlwaysRetry` | `UserMayRetry` |
| `NamedRowsAlwaysStay` | `NamedRowsStay` |

Nothing is assumed of the names and of what jQuery selects for them.  The
inductive invariant has the types, the rows and the tabs (`PageInv`) and the
connection with its mask (`LinkInv`).  What makes it inductive is that the log side never
takes back what it has handed on, so that a row stays about the string it was made
for (`DumpsGrow`), and that a tab is only added, behind all others, when its id
selects nothing on the page, neither one of them nor a button.

`WireFormatProofs` proves, for all sets of frames and lengths of records, every
radix of `WireAssumption`, every width of an `int` and every way the stream is cut:

| Theorem | Property |
|---|---|
| `FramesAlwaysReceived` | `FramesReceived` |
| `TextsAlwaysReadable` | `TextsReadable` |
| `MessagesAlwaysWhole` | `MessagesWhole` |

Three facts about bytes come first: `Number` undoes `Digits`, a mask applied twice is
no mask, and hence what `Parse` makes of a buffer that begins with a frame of
the RFC is that frame, and `Complete` holds of it exactly when all its bytes are there
(`ParseIs`).  `WireInv` then says that the bytes received and those on their way
are, one behind the other, the frames that were sent and not yet processed.
The `int` that `handle_read` makes of a number of bytes is that number or not
positive, so that a frame is taken whole or not at all; one beyond an `int`, and
all behind it, are never processed, and `FramesReceived` does not say they are.
`MessageInv` says when the viewer is in the middle of a message (`Begun`), that
it continues one exactly then (`Proper`), and that what `on_message` was given
and what `fragment_` holds are the pieces processed (`Whole`).

`DBufferProofs` proves, for callers that owe what section 2 lists
(`ASSUME Careful`) and buffers and blocks of any number and size:

| Theorem | Property |
|---|---|
| `DataStaysInBlock` | `DataInBlock` |
| `OneOwnerAlways` | `OneOwner` |
| `LeaksAlwaysTwo` | `LeaksAreTwo` |

`OneOwner` says that no block is freed twice or used after it was freed, and not
that every block is freed: what is lost, and how, is `LeaksAreTwo`.

Every member function either writes into the block that the buffer has
(`Writes`) or puts its data into one that was free and frees the old one
(`Renews`); there is one lemma of that form for each.  The inductive invariant
`Good` says that the begin, the end and the size fit the block and that every
block that is not free is held once, by a buffer that owns it or by one of
`Held`, the callers and the lost blocks.  It is preserved by each of the things a
call does to memory as a whole: it writes into its block, releases it, takes a new
one, shares or passes on a block, frees one, or gives one away (`GoodWrite` to
`GoodDetach`).  The second half of `IndInv`, a block left for `malloc`, is the
guard `Bounded`: the model does not let `malloc` fail.  For `LeaksAreTwo` each
step is shown to lose no block, but for the two that do.

`DBufferSeqProofs` proves, under the same assumptions:

| Theorem | Property |
|---|---|
| `BytesAsPromised` | `ImplementsByteSeq` |

Byte k of the data is `Octet(b, k)`, wherever the data lies in whichever block.
For each member function `DBufferProofs` says where its bytes come from: behind
an insertion byte k is byte `Past(k, start, size)`, behind `moveData` it was
byte `Origin(k, start, size, to)`, and so on; this is where the copies, their
order and the conditions of `Careful` enter.  `DBufferSeqProofs` turns those
statements about indices into the equations between sequences that `ByteSeq`
is written in (`InsertedSeq`, `ErasedSeq`, `MovedSeq`, `PrefixSeq`), and shows
that the other buffers keep theirs, because a block that is written or freed is
shown by no other (`GrowsShows`, `KeepsShows`, `ReleaseLeaves`).  Then each
call is a step of `ByteSeq`, one lemma for each.

Induction over data.  The library states induction for operators, which cannot
be instantiated here.  `Induction` states it for sets of numbers instead
(`NatInduct`), derived from the well-foundedness of inclusion between finite
sets, and likewise that a function defined by recursion over numbers exists
(`Recursion`).  So the stream of `WireFormat`, which concatenates any number of
frames, and the digits of a length could be reasoned about.

Only model-checked are the properties that say that something happens at last:
`Delivery`, `Released` and `DisconnectNoticed` of `WsServer`,
`DisconnectAnnounced` of `LogClients`, `AllProcessed` of `WireFormat` and
`StopEnds` of `ServerLifecycle`.  They need fairness, hence `ENABLED`, which is beyond the prover.  All invariants, all other
action properties and both refinements of the passing runs are theorems.

## 5. Plan

Done: `Broadcast`, `WsServer` and its proofs with the refinement; `PacketBuf`,
`LogClients` and their proofs; `WireFormat` and its proofs; `ServerLifecycle`
and its proof; `ByteSeq`, `DBuffer` and their proofs with the refinement;
`ViewerPage` and its proofs.

Left, in this order:

1. An instance of log clients, dispatch and viewers in one state space; now
   `RelayInOrder` and `ImplementsBroadcast` meet in the call of `onDumpData`.

## 6. Not modelled

- The window, the tray icon, the dialogs, the clipboard and the HTTP request of
  `dslog.cpp`, and `SystemTraySDK`: calls of Windows without state of the relay.
- The parser of `config.ini` (`dslog.cpp:72`): it runs once, before any thread.
  A line without `=` makes it write to a null pointer; what it should do with
  such a line is said nowhere.
- `sha1.cpp` and `base64.cpp`: third-party code whose result is only sent.
- `logdump.cpp`: it has no content.
- `Server::get_peers`, `Session::close`, `Connection::ping` and
  `Session::get_header`: the program never calls them.
- `pAlloc` and `setAlloator`: the program uses `malloc` and `free`.  That
  `malloc` fails is not modelled either: no caller tests for it.
- An exception of `strand_.post` in `write_raw`, which would take
  `sessionsListLock` twice: only when memory is used up.
- Growth: `m_outbox` has no limit and `m_connections` is never pruned.  No
  property is stated about the size of either, because the code promises none.
  For the packet memory of a client, `PacketMemoryOnlyGrows` states what the
  code does: nothing is freed before the client leaves.
- Of the page: the text inside a row, scrolling, the look of tabs, and how the
  address of the server is found.
