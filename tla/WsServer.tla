------------------------------ MODULE WsServer ------------------------------
(***************************************************************************)
(* The viewer side of dslogger: WS::Connection and WS::Server (dslog/ws),  *)
(* the application's Session, and onDumpData, the call through which the   *)
(* log side hands a record to every viewer.                                *)
(*                                                                         *)
(* Two threads run here.  The WebSocket thread runs wsService.run(): it    *)
(* executes, one at a time, the handlers of all connections.  The server   *)
(* thread (log side) calls onDumpData: it holds sessionsListLock and posts *)
(* one task to the strand of every listed session.                         *)
(*                                                                         *)
(* The handlers of one connection go through its strand, a FIFO queue that *)
(* holds both the tasks that were posted (write_impl, write_many_impl,     *)
(* close_impl) and the completions of the asynchronous read and write.     *)
(* A handler is one step.  One that takes sessionsListLock waits while a   *)
(* dump is running.  An exception leaves wsService.run() and shows a       *)
(* message box in the WebSocket thread: no handler runs until it is        *)
(* dismissed.                                                              *)
(*                                                                         *)
(* Record n is the string of the n-th call of onDumpData.                  *)
(***************************************************************************)
EXTENDS Naturals, Sequences

CONSTANTS
    Conns,          \* the connection objects of the server's life
    MaxRecords,     \* bound: calls of onDumpData
    MaxInputs       \* bound: header lines and frames read per connection

ASSUME WsAssumption ==
    /\ MaxRecords \in Nat
    /\ MaxInputs \in Nat

VARIABLES
    \* the server thread
    sessions,           \* the listed sessions, each named by its connection
    dumping,            \* onDumpData is running and holds sessionsListLock
    visiting,           \* listed sessions the running dump has yet to write to
    dumped,             \* number of calls of onDumpData so far
    \* the WebSocket thread
    wsThread,           \* "run", or "alert" while the message box is shown
    dropping,           \* connection whose handler still has to drop it for
                        \* its huge handshake (at most one)
    \* one value for each connection
    m_parsing_headers,
    m_active,
    m_session,          \* m_session is set
    socket_,            \* "none", "open", "rcvshut" (receiving shut), "closed"
    peer,               \* "up", "eof" (has sent FIN) or "gone" (reset)
    reading,            \* an async_read_until is outstanding
    writing,            \* number of outstanding async_writes
    strand_,
    m_outbox,
    wire,               \* the chunks async_write has sent
    inputs              \* header lines and frames read so far

serverVars == <<sessions, dumping, visiting, dumped>>
threadVars == <<wsThread, dropping>>
stateVars  == <<m_parsing_headers, m_active, m_session>>
netVars    == <<socket_, peer, reading, inputs>>
writeVars  == <<writing, m_outbox, wire>>
wsVars     == <<serverVars, threadVars, stateVars, netVars, writeVars, strand_>>

-----------------------------------------------------------------------------
(* Tasks of a strand and chunks of an outbox. *)

PostedWrites == {"handshake", "log", "pong"}
HeaderLines  == {"line", "accept", "reject"}
Frames       == {"closeFrame", "ping", "frame"}
ReadResults  == HeaderLines \cup Frames \cup {"error"}
WriteResults == {"written", "failed"}

\* A task is named by what it does; n is the record of a "log" write, else 0.
Task(op)    == [op |-> op, n |-> 0]
LogWrite(n) == [op |-> "log", n |-> n]
TaskSet == [op : PostedWrites \cup ReadResults \cup WriteResults \cup {"close"},
            n  : Nat]

\* A message is an entry of m_outbox.  write_text sends the header of the
\* frame and its payload as two messages; a handshake response and the
\* answer to a ping are one.
Chunk(kind, n) == [kind |-> kind, n |-> n]
ChunkSet == [kind : {"handshake", "pong", "head", "body"}, n : Nat]
ChunksOfSwapped(task) ==                \* mutant: payload before its header
    IF task.op = "log" THEN <<Chunk("body", task.n), Chunk("head", task.n)>>
                       ELSE <<Chunk(task.op, 0)>>

ChunksOf(task) ==
    IF task.op = "log" THEN <<Chunk("head", task.n), Chunk("body", task.n)>>
                       ELSE <<Chunk(task.op, 0)>>

\* The connection object exists: some handler, posted, outstanding or
\* running, holds a shared_ptr to it.
Alive(c) == reading[c] \/ writing[c] > 0 \/ strand_[c] # <<>> \/ c \in dropping

-----------------------------------------------------------------------------
Init ==
    /\ sessions = {}
    /\ dumping = FALSE
    /\ visiting = {}
    /\ dumped = 0
    /\ wsThread = "run"
    /\ dropping = {}
    /\ m_parsing_headers = [c \in Conns |-> TRUE]
    /\ m_active = [c \in Conns |-> TRUE]
    /\ m_session = [c \in Conns |-> FALSE]
    /\ socket_ = [c \in Conns |-> "none"]
    /\ peer = [c \in Conns |-> "up"]
    /\ reading = [c \in Conns |-> FALSE]
    /\ writing = [c \in Conns |-> 0]
    /\ strand_ = [c \in Conns |-> <<>>]
    /\ m_outbox = [c \in Conns |-> <<>>]
    /\ wire = [c \in Conns |-> <<>>]
    /\ inputs = [c \in Conns |-> 0]

-----------------------------------------------------------------------------
(* The server thread: onDumpData. *)

\* onDumpData takes the lock; its loop will visit the sessions listed now.
OnDumpData ==
    /\ ~dumping
    /\ dumped < MaxRecords
    /\ dumping' = TRUE
    /\ dumped' = dumped + 1
    /\ visiting' = sessions
    /\ UNCHANGED <<sessions, threadVars, stateVars, netVars, writeVars, strand_>>

\* One turn of the loop: Session::write, write_text and write_raw post a task
\* that will append the header and the payload of a text frame.
SessionWrite(c) ==
    /\ c \in visiting
    /\ visiting' = visiting \ {c}
    /\ strand_' = [strand_ EXCEPT ![c] = Append(@, LogWrite(dumped))]
    /\ UNCHANGED <<sessions, dumping, dumped, threadVars, stateVars, netVars, writeVars>>

\* The loop is over and the lock is released.
DumpReturns ==
    /\ dumping
    /\ visiting = {}
    /\ dumping' = FALSE
    /\ UNCHANGED <<sessions, visiting, dumped, threadVars, stateVars, netVars, writeVars, strand_>>

-----------------------------------------------------------------------------
(* The network and the viewers. *)

\* The viewer closes its end (FIN), or the connection is reset.
PeerCloses(c) ==
    /\ socket_[c] \in {"open", "rcvshut"}
    /\ peer[c] = "up"
    /\ peer' = [peer EXCEPT ![c] = "eof"]
    /\ UNCHANGED <<serverVars, threadVars, stateVars, socket_, reading, inputs, writeVars, strand_>>

PeerFails(c) ==
    /\ socket_[c] \in {"open", "rcvshut"}
    /\ peer[c] # "gone"
    /\ peer' = [peer EXCEPT ![c] = "gone"]
    /\ UNCHANGED <<serverVars, threadVars, stateVars, socket_, reading, inputs, writeVars, strand_>>

-----------------------------------------------------------------------------
(* The WebSocket thread: completions of outstanding operations. *)

Running == wsThread = "run" /\ dropping = {}

\* Server::handle_accept: the accepted connection starts reading (and
\* start_listen accepts the next one).  With an error the connection object
\* is dropped for a new one, which is the same "none" connection here.
\* m_connections keeps a weak reference to every connection accepted: only
\* get_peers, which the program does not call, would prune it.
HandleAccept(c) ==
    /\ Running
    /\ socket_[c] = "none"
    /\ socket_' = [socket_ EXCEPT ![c] = "open"]
    /\ reading' = [reading EXCEPT ![c] = TRUE]
    /\ UNCHANGED <<serverVars, threadVars, stateVars, peer, inputs, writeVars, strand_>>

\* What the outstanding read may find.  A connection that is closed while it
\* still parses headers was closed by HeaderLineTooLong, in the middle of a
\* line: the rest of that line, when it comes, is taken not to be all blanks,
\* which would end the headers.
Incoming(c) ==
    IF ~m_parsing_headers[c] THEN Frames
    ELSE IF m_active[c] THEN HeaderLines ELSE {"line"}

\* async_read_until has a whole header line, or a whole frame, in the buffer.
\* Data already received may complete it after the socket was shut or closed.
ReadCompletes(c) ==
    /\ Running
    /\ reading[c]
    /\ inputs[c] < MaxInputs
    /\ \E what \in Incoming(c) :
          strand_' = [strand_ EXCEPT ![c] = Append(@, Task(what))]
    /\ reading' = [reading EXCEPT ![c] = FALSE]
    /\ inputs' = [inputs EXCEPT ![c] = @ + 1]
    /\ UNCHANGED <<serverVars, threadVars, stateVars, socket_, peer, writeVars>>

ReadFails(c) ==
    /\ Running
    /\ reading[c]
    /\ peer[c] # "up" \/ socket_[c] \in {"rcvshut", "closed"}
    /\ strand_' = [strand_ EXCEPT ![c] = Append(@, Task("error"))]
    /\ reading' = [reading EXCEPT ![c] = FALSE]
    /\ UNCHANGED <<serverVars, threadVars, stateVars, socket_, peer, inputs, writeVars>>

\* async_write sends the whole of the front message, or fails.
WriteCompletes(c) ==
    /\ Running
    /\ writing[c] > 0
    /\ peer[c] # "gone" /\ socket_[c] # "closed"
    /\ writing' = [writing EXCEPT ![c] = @ - 1]
    /\ wire' = [wire EXCEPT ![c] = Append(@, Head(m_outbox[c]))]
    /\ strand_' = [strand_ EXCEPT ![c] = Append(@, Task("written"))]
    /\ UNCHANGED <<serverVars, threadVars, stateVars, netVars, m_outbox>>

WriteFails(c) ==
    /\ Running
    /\ writing[c] > 0
    /\ peer[c] = "gone" \/ socket_[c] = "closed"
    /\ writing' = [writing EXCEPT ![c] = @ - 1]
    /\ strand_' = [strand_ EXCEPT ![c] = Append(@, Task("failed"))]
    /\ UNCHANGED <<serverVars, threadVars, stateVars, netVars, m_outbox, wire>>

-----------------------------------------------------------------------------
(* The WebSocket thread: handlers of a connection, run from its strand. *)

\* The strand of c is about to run a task that does op.
Runs(c, op) == Running /\ strand_[c] # <<>> /\ Head(strand_[c]).op = op

CloseStaysListed(c, q) ==               \* mutant: on_disconnect is not called
    IF m_active[c]
    THEN /\ strand_' = [strand_ EXCEPT ![c] = Append(q, Task("close"))]
         /\ m_session' = [m_session EXCEPT ![c] = FALSE]
         /\ m_active' = [m_active EXCEPT ![c] = FALSE]
         /\ UNCHANGED sessions
    ELSE /\ strand_' = [strand_ EXCEPT ![c] = q]
         /\ UNCHANGED <<sessions, m_session, m_active>>

CloseUnlocked(c, q) ==                  \* mutant: on_disconnect takes no lock
    IF m_active[c]
    THEN /\ sessions' = sessions \ {c}
         /\ strand_' = [strand_ EXCEPT ![c] = Append(q, Task("close"))]
         /\ m_session' = [m_session EXCEPT ![c] = FALSE]
         /\ m_active' = [m_active EXCEPT ![c] = FALSE]
    ELSE /\ strand_' = [strand_ EXCEPT ![c] = q]
         /\ UNCHANGED <<sessions, m_session, m_active>>

\* Connection::close, called by a handler that leaves the queue q behind it.
\* on_disconnect takes sessionsListLock.
Close(c, q) ==
    IF m_active[c]
    THEN /\ m_session[c] => ~dumping
         /\ sessions' = IF m_session[c] THEN sessions \ {c} ELSE sessions
         /\ strand_' = [strand_ EXCEPT ![c] = Append(q, Task("close"))]
         /\ m_session' = [m_session EXCEPT ![c] = FALSE]
         /\ m_active' = [m_active EXCEPT ![c] = FALSE]
    ELSE /\ strand_' = [strand_ EXCEPT ![c] = q]
         /\ UNCHANGED <<sessions, m_session, m_active>>

\* Whether more than 4K may have been received at the end of a header line:
\* certainly after HeaderLineTooLong.
Huge(c) == IF m_active[c] THEN BOOLEAN ELSE {TRUE}

\* buffer_ready_condition: more than 64K without a newline.  The read goes on.
HeaderLineTooLong(c) ==
    /\ Running
    /\ reading[c]
    /\ m_parsing_headers[c] /\ m_active[c]
    /\ Close(c, strand_[c])
    /\ UNCHANGED <<dumping, visiting, dumped, threadVars, m_parsing_headers, netVars, writeVars>>

\* handle_read with an error.
HandleReadError(c) ==
    /\ Runs(c, "error")
    /\ Close(c, Tail(strand_[c]))
    /\ UNCHANGED <<dumping, visiting, dumped, threadVars, m_parsing_headers, netVars, writeVars>>

\* handle_read of a header line that ends nothing.  A handshake of more than
\* 4K is dropped and not read any more.
HandleHeaderLine(c) ==
    /\ Runs(c, "line")
    /\ \/ /\ FALSE \in Huge(c)
          /\ strand_' = [strand_ EXCEPT ![c] = Tail(@)]
          /\ reading' = [reading EXCEPT ![c] = TRUE]
          /\ UNCHANGED <<sessions, m_session, m_active>>
       \/ /\ Close(c, Tail(strand_[c]))
          /\ UNCHANGED reading
    /\ UNCHANGED <<dumping, visiting, dumped, threadVars, m_parsing_headers, socket_, peer, inputs, writeVars>>

\* The empty line after headers that do not validate, or whose resource has no
\* factory: close, then read on unless the handshake was huge.
HandleHandshakeRejected(c) ==
    /\ Runs(c, "reject")
    /\ m_parsing_headers' = [m_parsing_headers EXCEPT ![c] = FALSE]
    /\ Close(c, Tail(strand_[c]))
    /\ \E huge \in Huge(c) : reading' = [reading EXCEPT ![c] = ~huge]
    /\ UNCHANGED <<dumping, visiting, dumped, threadVars, socket_, peer, inputs, writeVars>>

\* The empty line after good headers: post the response, make the session,
\* list it (on_connect takes sessionsListLock).  If the handshake was huge the
\* handler goes on in DropHugeHandshake, else it starts the next read.
HandleHandshakeAccepted(c) ==
    /\ Runs(c, "accept")
    /\ socket_[c] # "closed"
    /\ ~dumping
    /\ m_parsing_headers' = [m_parsing_headers EXCEPT ![c] = FALSE]
    /\ strand_' = [strand_ EXCEPT ![c] = Append(Tail(@), Task("handshake"))]
    /\ m_session' = [m_session EXCEPT ![c] = TRUE]
    /\ sessions' = sessions \cup {c}
    /\ \E huge \in Huge(c) :
          /\ dropping' = IF huge THEN {c} ELSE {}
          /\ reading' = [reading EXCEPT ![c] = ~huge]
    /\ UNCHANGED <<dumping, visiting, dumped, wsThread, m_active, socket_, peer, inputs, writeVars>>

\* socket_.set_option throws on a closed socket, and may on a connection that
\* was reset: no session is made and nothing is read any more.
HandshakeThrows(c) ==
    /\ Runs(c, "accept")
    /\ peer[c] = "gone" \/ socket_[c] = "closed"
    /\ m_parsing_headers' = [m_parsing_headers EXCEPT ![c] = FALSE]
    /\ strand_' = [strand_ EXCEPT ![c] = Append(Tail(@), Task("handshake"))]
    /\ wsThread' = "alert"
    /\ UNCHANGED <<serverVars, dropping, m_active, m_session, netVars, writeVars>>

\* The rest of handle_read after a huge handshake was accepted.
DropHugeHandshake(c) ==
    /\ wsThread = "run"
    /\ c \in dropping
    /\ Close(c, strand_[c])
    /\ dropping' = dropping \ {c}
    /\ UNCHANGED <<dumping, visiting, dumped, wsThread, m_parsing_headers, netVars, writeVars>>

HandleFrameOnce(c) ==                   \* mutant: the next read is not started
    /\ Runs(c, "frame")
    /\ strand_' = [strand_ EXCEPT ![c] = Tail(@)]
    /\ UNCHANGED <<sessions, m_session, m_active, reading>>
    /\ UNCHANGED <<dumping, visiting, dumped, threadVars, m_parsing_headers, socket_, peer, inputs, writeVars>>

\* handle_read and process of a frame.  Whatever the frame, the next read is
\* started, also after close().  A close frame, or one with reserved bits set,
\* closes; a ping is answered with one message; on_message ignores the rest.
HandleFrame(c) ==
    /\ \/ /\ Runs(c, "closeFrame")
          /\ Close(c, Tail(strand_[c]))
       \/ /\ Runs(c, "ping")
          /\ strand_' = [strand_ EXCEPT ![c] = Append(Tail(@), Task("pong"))]
          /\ UNCHANGED <<sessions, m_session, m_active>>
       \/ /\ Runs(c, "frame")
          /\ strand_' = [strand_ EXCEPT ![c] = Tail(@)]
          /\ UNCHANGED <<sessions, m_session, m_active>>
    /\ reading' = [reading EXCEPT ![c] = TRUE]
    /\ UNCHANGED <<dumping, visiting, dumped, threadVars, m_parsing_headers, socket_, peer, inputs, writeVars>>

WriteImplFront(c) ==                    \* mutant: push_front
    /\ \E op \in PostedWrites : Runs(c, op)
    /\ m_outbox' = [m_outbox EXCEPT ![c] = ChunksOf(Head(strand_[c])) \o @]
    /\ writing' = [writing EXCEPT ![c] = IF m_outbox[c] = <<>> THEN @ + 1 ELSE @]
    /\ strand_' = [strand_ EXCEPT ![c] = Tail(@)]
    /\ UNCHANGED <<serverVars, threadVars, stateVars, netVars, wire>>

WriteImplAlways(c) ==                   \* mutant: the outbox size is not tested
    /\ \E op \in PostedWrites : Runs(c, op)
    /\ m_outbox' = [m_outbox EXCEPT ![c] = @ \o ChunksOf(Head(strand_[c]))]
    /\ writing' = [writing EXCEPT ![c] = @ + 1]
    /\ strand_' = [strand_ EXCEPT ![c] = Tail(@)]
    /\ UNCHANGED <<serverVars, threadVars, stateVars, netVars, wire>>

\* write_impl and write_many_impl: queue the messages of the task; start an
\* async_write if the outbox was empty.
WriteImpl(c) ==
    /\ \E op \in PostedWrites : Runs(c, op)
    /\ m_outbox' = [m_outbox EXCEPT ![c] = @ \o ChunksOf(Head(strand_[c]))]
    /\ writing' = [writing EXCEPT ![c] = IF m_outbox[c] = <<>> THEN @ + 1 ELSE @]
    /\ strand_' = [strand_ EXCEPT ![c] = Tail(@)]
    /\ UNCHANGED <<serverVars, threadVars, stateVars, netVars, wire>>

HandleWrittenStops(c) ==                \* mutant: the next write is not started
    /\ Runs(c, "written")
    /\ m_outbox' = [m_outbox EXCEPT ![c] = Tail(@)]
    /\ strand_' = [strand_ EXCEPT ![c] = Tail(@)]
    /\ UNCHANGED <<serverVars, threadVars, stateVars, netVars, writing, wire>>

\* handle_write after a successful write: the next message, if any.
HandleWritten(c) ==
    /\ Runs(c, "written")
    /\ m_outbox' = [m_outbox EXCEPT ![c] = Tail(@)]
    /\ strand_' = [strand_ EXCEPT ![c] = Tail(@)]
    /\ \/ /\ Len(m_outbox[c]) > 1
          /\ writing' = [writing EXCEPT ![c] = @ + 1]
          /\ UNCHANGED <<wsThread, socket_>>
       \/ /\ Len(m_outbox[c]) = 1 /\ m_active[c]
          /\ UNCHANGED <<wsThread, socket_, writing>>
       \/ \* asked to shut down, and the outbox is flushed
          /\ Len(m_outbox[c]) = 1 /\ ~m_active[c]
          /\ socket_' = [socket_ EXCEPT ![c] = "closed"]
          /\ UNCHANGED <<wsThread, writing>>
       \/ \* the same, but shutdown throws on a connection that was reset
          /\ Len(m_outbox[c]) = 1 /\ ~m_active[c]
          /\ peer[c] = "gone"
          /\ wsThread' = "alert"
          /\ UNCHANGED <<socket_, writing>>
    /\ UNCHANGED <<serverVars, dropping, stateVars, peer, reading, inputs, wire>>

\* handle_write after an error: close, or, when already asked to shut down,
\* close the socket.  No further write is started.
HandleWriteFailed(c) ==
    /\ Runs(c, "failed")
    /\ m_outbox' = [m_outbox EXCEPT ![c] = Tail(@)]
    /\ Close(c, Tail(strand_[c]))
    /\ socket_' = IF m_active[c] THEN socket_ ELSE [socket_ EXCEPT ![c] = "closed"]
    /\ UNCHANGED <<dumping, visiting, dumped, threadVars, m_parsing_headers, peer, reading, inputs, writing, wire>>

CloseImplAtOnce(c) ==                   \* mutant: the outbox is not tested
    /\ Runs(c, "close")
    /\ socket_[c] # "closed"
    /\ socket_' = [socket_ EXCEPT ![c] = "closed"]
    /\ strand_' = [strand_ EXCEPT ![c] = Tail(@)]
    /\ UNCHANGED <<serverVars, threadVars, stateVars, peer, reading, inputs, writeVars>>

CloseImplHalf(c) ==                     \* mutant: the socket is never closed here
    /\ Runs(c, "close")
    /\ socket_[c] # "closed"
    /\ socket_' = [socket_ EXCEPT ![c] = "rcvshut"]
    /\ strand_' = [strand_ EXCEPT ![c] = Tail(@)]
    /\ UNCHANGED <<serverVars, threadVars, stateVars, peer, reading, inputs, writeVars>>

\* close_impl: stop receiving; with nothing to send, close the socket.
CloseImpl(c) ==
    /\ Runs(c, "close")
    /\ socket_[c] # "closed"
    /\ socket_' = [socket_ EXCEPT ![c] = IF m_outbox[c] = <<>> THEN "closed" ELSE "rcvshut"]
    /\ strand_' = [strand_ EXCEPT ![c] = Tail(@)]
    /\ UNCHANGED <<serverVars, threadVars, stateVars, peer, reading, inputs, writeVars>>

\* close_impl: shutdown throws, always on a closed socket and possibly on a
\* connection that was reset.
CloseImplThrows(c) ==
    /\ Runs(c, "close")
    /\ peer[c] = "gone" \/ socket_[c] = "closed"
    /\ strand_' = [strand_ EXCEPT ![c] = Tail(@)]
    /\ wsThread' = "alert"
    /\ UNCHANGED <<serverVars, dropping, stateVars, netVars, writeVars>>

\* The operator dismisses the message box; wsService.run() is called again.
DismissAlert ==
    /\ wsThread = "alert"
    /\ wsThread' = "run"
    /\ UNCHANGED <<serverVars, dropping, stateVars, netVars, writeVars, strand_>>

-----------------------------------------------------------------------------
ServerStep == OnDumpData \/ DumpReturns \/ \E c \in Conns : SessionWrite(c)

HandlerStep(c) ==
    \/ HandleReadError(c) \/ HandleHeaderLine(c)
    \/ HandleHandshakeRejected(c) \/ HandleHandshakeAccepted(c)
    \/ HandshakeThrows(c) \/ DropHugeHandshake(c) \/ HandleFrame(c)
    \/ WriteImpl(c) \/ HandleWritten(c) \/ HandleWriteFailed(c)
    \/ CloseImpl(c) \/ CloseImplThrows(c)

CompletionStep(c) ==
    HandleAccept(c) \/ ReadCompletes(c) \/ ReadFails(c) \/ WriteCompletes(c) \/ WriteFails(c)

WsNext ==
    \/ ServerStep
    \/ DismissAlert
    \/ \E c \in Conns :
          \/ HandlerStep(c) \/ CompletionStep(c) \/ HeaderLineTooLong(c)
          \/ PeerCloses(c) \/ PeerFails(c)

WsSpec == Init /\ [][WsNext]_wsVars

\* The server thread finishes a dump it began; the WebSocket thread runs the
\* handlers it has; a write ends (the viewer's end reads, or the connection
\* fails); a read ends when the viewer has closed or the socket is closed.
ReadEnds(c) == ReadFails(c) /\ (peer[c] # "up" \/ socket_[c] = "closed")

WsUnattended ==
    /\ WsSpec
    /\ WF_wsVars(DumpReturns)
    /\ \A c \in Conns :
          /\ WF_wsVars(SessionWrite(c))
          /\ WF_wsVars(HandlerStep(c))
          /\ WF_wsVars(ReadEnds(c))
          /\ WF_wsVars(WriteCompletes(c) \/ WriteFails(c))

\* Moreover the operator dismisses every message box.
WsFairSpec == WsUnattended /\ WF_wsVars(DismissAlert)

-----------------------------------------------------------------------------
(* Safety. *)

\* A task of the queue q does one of ops; at most one task does.
Has(q, ops) == \E i \in 1..Len(q) : q[i].op \in ops

Once(q, ops) ==
    \A i, j \in 1..Len(q) : q[i].op \in ops /\ q[j].op \in ops => i = j

TypeOK ==
    /\ sessions \subseteq Conns
    /\ dumping \in BOOLEAN
    /\ visiting \subseteq Conns
    /\ dumped \in 0..MaxRecords
    /\ wsThread \in {"run", "alert"}
    /\ dropping \subseteq Conns
    /\ m_parsing_headers \in [Conns -> BOOLEAN]
    /\ m_active \in [Conns -> BOOLEAN]
    /\ m_session \in [Conns -> BOOLEAN]
    /\ socket_ \in [Conns -> {"none", "open", "rcvshut", "closed"}]
    /\ peer \in [Conns -> {"up", "eof", "gone"}]
    /\ reading \in [Conns -> BOOLEAN]
    /\ writing \in [Conns -> {0, 1}]
    /\ strand_ \in [Conns -> Seq(TaskSet)]
    /\ m_outbox \in [Conns -> Seq(ChunkSet)]
    /\ wire \in [Conns -> Seq(ChunkSet)]
    /\ inputs \in [Conns -> 0..MaxInputs]

\* The list holds raw pointers (socksvr.cpp, Session::on_connect and
\* on_disconnect): a listed session always belongs to a connection that still
\* exists and still owns it.
NoDanglingSession == \A c \in sessions : Alive(c) /\ m_session[c]

\* The loop of onDumpData goes over the list itself (configs.cpp): no session
\* it has yet to reach is erased under it, from the other thread or by a write
\* of its own.
DumpIteratorValid == visiting \subseteq sessions

\* At most one read is outstanding on the stream buffer of a connection, and
\* there is one, or its result, for every listed session: this is how the
\* server learns that a viewer has gone (connection.cpp, handle_read).
ReadDiscipline ==
    \A c \in Conns :
        /\ Once(strand_[c], ReadResults)
        /\ reading[c] => ~Has(strand_[c], ReadResults) /\ c \notin dropping
        /\ c \in sessions => reading[c] \/ Has(strand_[c], ReadResults) \/ c \in dropping

\* Of the messages in m_outbox the front one, and only it, is being written
\* (connection.cpp, write_impl and handle_write).  handle_write never pops an
\* empty queue, and the queue of an active connection is never left waiting
\* with no write under way.
WriteDiscipline ==
    \A c \in Conns :
        /\ Once(strand_[c], WriteResults)
        /\ writing[c] > 0 => ~Has(strand_[c], WriteResults)
        /\ writing[c] > 0 \/ Has(strand_[c], WriteResults) => m_outbox[c] # <<>>
        /\ m_active[c] /\ m_outbox[c] # <<>> => writing[c] > 0 \/ Has(strand_[c], WriteResults)

\* The messages still to be sent: handle_write removes the front one only
\* after it was sent.
Unsent(c) == IF Has(strand_[c], WriteResults) THEN Tail(m_outbox[c]) ELSE m_outbox[c]

\* The handshake response comes first and only once, and each record's payload
\* right behind the header of its frame, whatever pongs and records of other
\* calls were queued meanwhile (connection.cpp, write_text).  What a pong
\* consists of is not part of this.
FramesWhole ==
    \A c \in Conns : \A i \in 1..Len(wire[c]) :
        LET m == wire[c][i] IN
        /\ m.kind = "handshake" <=> i = 1
        /\ m.kind = "body" => wire[c][i - 1] = Chunk("head", m.n)
        /\ m.kind = "head" /\ i < Len(wire[c]) => wire[c][i + 1] = Chunk("body", m.n)

\* While its network works, a connection is closed only after everything in
\* m_outbox was sent (connection.cpp, handle_write and close_impl).
CloseAfterFlush ==
    [][\A c \in Conns :
          socket_[c] # "closed" /\ socket_'[c] = "closed" /\ peer[c] # "gone"
              => ~m_active[c] /\ Unsent(c)' = <<>>]_wsVars

-----------------------------------------------------------------------------
(* The WebSocket side implements Broadcast. *)

Bodies    == [kind : {"body"}, n : Nat]
LogWrites == [op : {"log"}, n : Nat]

\* The records of those entries of the queue s that are in S.
Records(s, S) ==
    LET upTo[i \in 0..Len(s)] ==
          IF i = 0 THEN <<>>
          ELSE IF s[i] \in S THEN Append(upTo[i - 1], s[i].n) ELSE upTo[i - 1]
    IN  upTo[Len(s)]

Lost(c) == peer[c] = "gone" \/ socket_[c] = "closed"

\* A record is owed to a viewer from the start of onDumpData: first its session
\* is still to be visited, then the write is posted, then it is in m_outbox.
Owed(c) ==
    IF Lost(c) THEN <<>>
    ELSE Records(Unsent(c), Bodies)
         \o Records(strand_[c], LogWrites)
         \o (IF c \in visiting THEN <<dumped>> ELSE <<>>)

Promise == INSTANCE Broadcast WITH
    Viewers   <- Conns,
    published <- dumped,
    present   <- {c \in sessions : ~Lost(c)},
    owed      <- [c \in Conns |-> Owed(c)],
    shown     <- [c \in Conns |-> Records(wire[c], Bodies)]

\* Every listed viewer is shown each record once and in the order of the calls
\* of onDumpData (configs.h, kDumpDispatchToWebSockets), whatever the posted
\* tasks, the completions and the closing of connections interleave.
ImplementsBroadcast == Promise!Spec

-----------------------------------------------------------------------------
(* Liveness. *)

Shown(c, n) == \E i \in 1..Len(wire[c]) : wire[c][i] = Chunk("body", n)

\* A record dumped for a listed viewer reaches it, unless its connection is
\* being closed or its network is down (README.md, configs.h
\* kDumpDispatchToWebSockets).
Delivery ==
    \A c \in Conns : \A n \in 1..MaxRecords :
        c \in visiting /\ dumped = n ~> Shown(c, n) \/ ~m_active[c] \/ peer[c] # "up"

\* A connection that was closed is destroyed (its handlers hold it by
\* shared_ptr): its socket and its outbox do not stay for ever.
Released == \A c \in Conns : ~m_active[c] ~> ~Alive(c)

\* The session of a viewer that has left is unlisted.
DisconnectNoticed ==
    \A c \in Conns : c \in sessions /\ peer[c] # "up" ~> c \notin sessions

-----------------------------------------------------------------------------
(* What the comments of the code say, and its steps do not do. *)

\* connection.cpp, handle_write: "We were asked to shut down and we've just
\* finished flushing the outbox.  Time for us to die."  Then nothing of the
\* shut-down, nor of the messages posted before it, is left to run.
DeathIsFinal ==
    [][\A c \in Conns :
          socket_[c] # "closed" /\ socket_'[c] = "closed" /\ peer[c] # "gone"
              => ~Has(strand_[c], PostedWrites \cup {"close"})']_wsVars
=============================================================================
