----------------------------- MODULE LogClients -----------------------------
(***************************************************************************)
(* The log side of dslogger (dslog/socksvr.cpp): programs connect to port  *)
(* 9880 and send packets, a header and a body.  One Client object serves   *)
(* each connection.  All its handlers run in the server thread, inside     *)
(* ioService.run(), one at a time; each ends by handing one string to      *)
(* onDumpData, which gives it to the viewers (module WsServer).            *)
(*                                                                         *)
(* A handler is one step.  It is free to touch its Client because that     *)
(* object has exactly one asynchronous operation outstanding; it deletes   *)
(* the object itself, from onDisconnected.                                 *)
(***************************************************************************)
EXTENDS PacketBuf

CONSTANTS
    Clients,        \* the Client objects of the server's life
    Lengths,        \* the lengths of the packets that are sent
    MaxPackets      \* bound: strings handed on before another packet is begun,
                    \* and pieces of text sent by one client

ASSUME LogClientsAssumption ==
    /\ Lengths \subseteq Nat
    /\ MaxPackets \in Nat

VARIABLES
    serverThread,   \* "run"; "blocked" for ever in bufLock; "ended"; "undefined"
                    \* behind a write outside of packet memory
    clients,        \* the connected clients
    object,         \* each Client: "none", "accepting", "live" or "deleted"
    kSocketMode,    \* of its ProjectConfig
    pending,        \* its outstanding asynchronous operations
    peer,           \* the program at the other end: "up" or "closed"
    pckHeader,      \* the header read last
    body,           \* where the body is read to
    buffers,        \* the PacketBuf list
    bufLock,        \* "free" or "held"
    strClientName,  \* the packets whose bodies it is put together from
    recvBuffer,     \* number of pieces of text received
    received,       \* number of packets received
    dumps           \* what was handed to onDumpData

objVars == <<clients, object, kSocketMode, pending>>
arenaVars == <<body, buffers, bufLock>>
dataVars == <<strClientName, recvBuffer, received>>
logVars == <<serverThread, objVars, peer, pckHeader, arenaVars, dataVars, dumps>>

-----------------------------------------------------------------------------
\* kSocketMode is never set: it has the value the memory had.
SocketModes == {"packets", "strings", "garbage"}

\* Types of packets: one of the log levels, the two commands, any other.
LogTypes == {"log", "setName", "clear", "unknown"}
Headers == [logType : LogTypes, msgLeng : Lengths]

Events == {"normal", "clearAll", "closed", "empty"}
Operations == {"accept", "header", "body", "strings"}

\* A string for the viewers: from which client, with which name, about which
\* of its packets (or behind which one).  onFormatData writes the name for "normal" and "closed"
\* only, and nothing at all is written for the other packets.
Record(event, c, k) ==
    [event |-> event, client |-> c, packet |-> k,
     name |-> IF event \in {"normal", "closed"} THEN strClientName[c] ELSE <<>>]

\* Client::start: the next read, if kSocketMode is one of the two modes.
Start(mode) ==
    IF mode = "packets" THEN <<"header">>
    ELSE IF mode = "strings" THEN <<"strings">> ELSE <<>>

-----------------------------------------------------------------------------
\* Before the thread runs its handlers it has called acceptOne once.
Init ==
    /\ serverThread = "run"
    /\ clients = {}
    /\ \E c \in Clients :
          /\ object = [d \in Clients |-> IF d = c THEN "accepting" ELSE "none"]
          /\ pending = [d \in Clients |-> IF d = c THEN <<"accept">> ELSE <<>>]
    /\ kSocketMode \in [Clients -> SocketModes]
    /\ peer = [c \in Clients |-> "up"]
    /\ pckHeader = [c \in Clients |-> [logType |-> "log", msgLeng |-> 0]]
    /\ body = [c \in Clients |-> [at |-> 0, off |-> 0]]
    /\ buffers = [c \in Clients |-> <<>>]
    /\ bufLock = [c \in Clients |-> "free"]
    /\ strClientName = [c \in Clients |-> <<>>]
    /\ recvBuffer = [c \in Clients |-> 0]
    /\ received = [c \in Clients |-> 0]
    /\ dumps = <<>>

\* The handler of operation op of c is called.
Handles(c, op) == serverThread = "run" /\ pending[c] # <<>> /\ Head(pending[c]) = op

PeerCloses(c) ==
    /\ object[c] = "live"
    /\ peer[c] = "up"
    /\ peer' = [peer EXCEPT ![c] = "closed"]
    /\ UNCHANGED <<serverThread, objVars, pckHeader, arenaVars, dataVars, dumps>>

-----------------------------------------------------------------------------
(* Accepting. *)

OnAcceptLast(c) ==                      \* mutant: acceptOne is not called
    /\ Handles(c, "accept")
    /\ clients' = clients \cup {c}
    /\ object' = [object EXCEPT ![c] = "live"]
    /\ pending' = [pending EXCEPT ![c] = Tail(@) \o Start(kSocketMode[c])]
    /\ UNCHANGED <<serverThread, kSocketMode, peer, pckHeader, arenaVars, dataVars, dumps>>

\* onAccept: list the client, start to read, accept one more (Client::acceptOne
\* makes a new object, if the bound on Clients allows).
OnAccept(c) ==
    /\ Handles(c, "accept")
    /\ clients' = clients \cup {c}
    /\ \/ \E d \in Clients :
             /\ object[d] = "none"
             /\ object' = [object EXCEPT ![c] = "live", ![d] = "accepting"]
             /\ pending' = [pending EXCEPT ![c] = Tail(@) \o Start(kSocketMode[c]),
                                           ![d] = <<"accept">>]
       \/ /\ \A d \in Clients : object[d] # "none"
          /\ object' = [object EXCEPT ![c] = "live"]
          /\ pending' = [pending EXCEPT ![c] = Tail(@) \o Start(kSocketMode[c])]
    /\ UNCHANGED <<serverThread, kSocketMode, peer, pckHeader, arenaVars, dataVars, dumps>>

\* onAccept with an error: the object is deleted, and that is all.
OnAcceptError(c) ==
    /\ Handles(c, "accept")
    /\ object' = [object EXCEPT ![c] = "deleted"]
    /\ pending' = [pending EXCEPT ![c] = Tail(@)]
    /\ UNCHANGED <<serverThread, clients, kSocketMode, peer, pckHeader, arenaVars, dataVars, dumps>>

-----------------------------------------------------------------------------
(* Reading packets. *)

RelayRenames(c, logType, msgLeng) ==    \* mutant: strClientName.assign
    /\ received' = [received EXCEPT ![c] = @ + 1]
    /\ strClientName' = [strClientName EXCEPT ![c] =
                            IF logType = "setName" /\ msgLeng > 0
                            THEN <<received'[c]>> ELSE @]
    /\ dumps' = Append(dumps, Record(IF logType = "log" THEN "normal" ELSE "empty", c, received'[c]))
    /\ UNCHANGED recvBuffer

\* onReadBody, from the string to be made to onDumpData.
Relay(c, logType, msgLeng) ==
    /\ received' = [received EXCEPT ![c] = @ + 1]
    /\ strClientName' = [strClientName EXCEPT ![c] =
                            IF logType = "setName" /\ msgLeng > 0
                            THEN Append(@, received'[c]) ELSE @]
    /\ dumps' = Append(dumps, Record(CASE logType = "log" -> "normal"
                                       [] logType = "clear" -> "clearAll"
                                       [] OTHER -> "empty", c, received'[c]))
    /\ UNCHANGED recvBuffer

\* onReadHeader of a packet without a body: onReadBody at once, then start.
ReadShortPacket(c) ==
    /\ Handles(c, "header")
    /\ peer[c] = "up" /\ Len(dumps) < MaxPackets
    /\ 0 \in Lengths
    /\ \E logType \in LogTypes :
          /\ pckHeader' = [pckHeader EXCEPT ![c] = [logType |-> logType, msgLeng |-> 0]]
          /\ Relay(c, logType, 0)
    /\ pending' = [pending EXCEPT ![c] = Tail(@) \o Start(kSocketMode[c])]
    /\ UNCHANGED <<serverThread, clients, object, kSocketMode, peer, arenaVars>>

\* onReadHeader and readLength of a packet with a body: take memory for it and
\* read it.  getPacketBuf waits for bufLock, which only this thread unlocks.
ReadHeader(c) ==
    /\ Handles(c, "header")
    /\ peer[c] = "up" /\ Len(dumps) < MaxPackets
    /\ \E h \in Headers :
          /\ h.msgLeng > 0
          /\ pckHeader' = [pckHeader EXCEPT ![c] = h]
          /\ IF bufLock[c] = "held"
             THEN /\ serverThread' = "blocked"
                  /\ pending' = [pending EXCEPT ![c] = Tail(@)]
                  /\ UNCHANGED arenaVars
             ELSE LET got == TakePacketBuf(buffers[c], h.msgLeng) IN
                  /\ buffers' = [buffers EXCEPT ![c] = got.bufs]
                  /\ body' = [body EXCEPT ![c] = got.r]
                  /\ pending' = [pending EXCEPT ![c] = Append(Tail(@), "body")]
                  /\ UNCHANGED <<serverThread, bufLock>>
    /\ UNCHANGED <<clients, object, kSocketMode, peer, dataVars, dumps>>

\* onReadBody: relay the packet, give its memory back, read the next header.
\* backPacketBuf unlocks bufLock only when it has found the node.
ReadBody(c) ==
    /\ Handles(c, "body")
    /\ peer[c] = "up"
    /\ Relay(c, pckHeader[c].logType, pckHeader[c].msgLeng)
    /\ IF FindsNode(buffers[c], body[c])
       THEN /\ buffers' = [buffers EXCEPT ![c] = ReturnPacketBuf(@, body[c])]
            /\ UNCHANGED bufLock
       ELSE /\ bufLock' = [bufLock EXCEPT ![c] = "held"]
            /\ UNCHANGED buffers
    /\ pending' = [pending EXCEPT ![c] = Tail(@) \o Start(kSocketMode[c])]
    /\ UNCHANGED <<serverThread, clients, object, kSocketMode, peer, pckHeader, body>>

\* The bytes of a body that ends behind its node are written over what is
\* there.  They may hit nothing that is used (ReadBody); or any outcome is
\* possible, and nothing more is said of the process.
BodyOverruns(c) ==
    /\ Handles(c, "body")
    /\ peer[c] = "up"
    /\ ~InBounds(buffers[c], body[c], pckHeader[c].msgLeng)
    /\ serverThread' = "undefined"
    /\ UNCHANGED <<objVars, peer, pckHeader, arenaVars, dataVars, dumps>>

\* onReadStrings: the text is kept, and with an error nothing is: either way
\* the next read is started.
ReadStrings(c) ==
    /\ Handles(c, "strings")
    /\ \/ /\ peer[c] = "up" /\ recvBuffer[c] < MaxPackets
          /\ recvBuffer' = [recvBuffer EXCEPT ![c] = @ + 1]
       \/ /\ peer[c] = "closed"
          /\ UNCHANGED recvBuffer
    /\ pending' = [pending EXCEPT ![c] = Tail(@) \o Start(kSocketMode[c])]
    /\ UNCHANGED <<serverThread, clients, object, kSocketMode, peer, pckHeader, arenaVars,
                   strClientName, received, dumps>>

-----------------------------------------------------------------------------
(* The end of a client, and of the thread. *)

OnDisconnectedGoesOn(c) ==              \* mutant: no return after onDisconnected
    /\ clients' = clients \ {c}
    /\ object' = [object EXCEPT ![c] = "deleted"]
    /\ pending' = [pending EXCEPT ![c] = Tail(@) \o Start(kSocketMode[c])]
    /\ dumps' = Append(dumps, Record("closed", c, received[c]))
    /\ UNCHANGED <<serverThread, kSocketMode, peer, pckHeader, arenaVars, dataVars>>

\* onDisconnected: unlist the client, close the socket, tell the viewers,
\* delete the object.
OnDisconnected(c) ==
    /\ clients' = clients \ {c}
    /\ object' = IF c \in clients THEN [object EXCEPT ![c] = "deleted"] ELSE object
    /\ pending' = [pending EXCEPT ![c] = Tail(@)]
    /\ dumps' = IF c \in clients THEN Append(dumps, Record("closed", c, received[c])) ELSE dumps
    /\ UNCHANGED <<serverThread, kSocketMode, peer, pckHeader, arenaVars, dataVars>>

ReadFailsIgnored(c) ==                  \* mutant: errors are ignored, as in onReadStrings
    /\ Handles(c, "header") \/ Handles(c, "body")
    /\ peer[c] = "closed"
    /\ UNCHANGED logVars

\* onReadHeader and onReadBody with an error.
ReadFails(c) ==
    /\ Handles(c, "header") \/ Handles(c, "body")
    /\ peer[c] = "closed"
    /\ OnDisconnected(c)

\* stopSocketServer has stopped ioService: run() returns between two handlers,
\* and the thread closes and deletes the clients that are left.  Operations
\* that are outstanding then are never completed.
ServerThreadEnds ==
    /\ serverThread = "run"
    /\ serverThread' = "ended"
    /\ clients' = {}
    /\ object' = [c \in Clients |-> IF c \in clients THEN "deleted" ELSE object[c]]
    /\ UNCHANGED <<kSocketMode, pending, peer, pckHeader, arenaVars, dataVars, dumps>>

-----------------------------------------------------------------------------
ClientHandler(c) ==
    \/ OnAccept(c) \/ OnAcceptError(c)
    \/ ReadShortPacket(c) \/ ReadHeader(c) \/ ReadBody(c) \/ BodyOverruns(c)
    \/ ReadStrings(c) \/ ReadFails(c)

LogNext == ServerThreadEnds \/ \E c \in Clients : PeerCloses(c) \/ ClientHandler(c)

LogSpec == Init /\ [][LogNext]_logVars

\* The server thread runs the handlers it has; an operation on a connection
\* that the other end has closed ends with an error.
LogFairSpec == LogSpec /\ \A c \in Clients : WF_logVars(ReadFails(c))

-----------------------------------------------------------------------------
(* Properties. *)

RecordSet == [event : Events, client : Clients, packet : 0..MaxPackets,
              name : Seq(1..MaxPackets)]

TypeOK ==
    /\ serverThread \in {"run", "blocked", "ended", "undefined"}
    /\ clients \subseteq Clients
    /\ object \in [Clients -> {"none", "accepting", "live", "deleted"}]
    /\ kSocketMode \in [Clients -> SocketModes]
    /\ pending \in [Clients -> Seq(Operations)]
    /\ peer \in [Clients -> {"up", "closed"}]
    /\ pckHeader \in [Clients -> [logType : LogTypes, msgLeng : Lengths \cup {0}]]
    /\ body \in [Clients -> Pointers]
    /\ buffers \in [Clients -> Seq(PacketBufSet)]
    /\ bufLock \in [Clients -> {"free", "held"}]
    /\ strClientName \in [Clients -> Seq(1..MaxPackets)]
    /\ recvBuffer \in [Clients -> 0..MaxPackets]
    /\ received \in [Clients -> 0..MaxPackets]
    /\ dumps \in Seq(RecordSet)

\* Every completion calls a handler on a Client that still exists, and no two
\* handlers of one Client are outstanding, since they share its header, its
\* packet memory and its right to delete the object (socksvr.cpp, onReadHeader,
\* onReadBody, onDisconnected).  A listed client is always being read, but one
\* whose kSocketMode is garbage never is.
OneOperation ==
    /\ \A c \in Clients : c \in clients => object[c] = "live"
    /\ serverThread = "run" =>
         \A c \in Clients :
            /\ Len(pending[c]) <= 1
            /\ pending[c] # <<>> => object[c] \in {"accepting", "live"}
            /\ c \in clients /\ kSocketMode[c] # "garbage" => pending[c] # <<>>

\* Whatever the lengths of the packets, the counters of packet memory stay
\* right: cc is 1 for the one node whose packet is out, and that is the packet
\* being read, or the one backPacketBuf did not find when it left bufLock
\* locked; no node has handed out more than it has; and a body read to the last
\* node ends where the bytes handed out end, so that only one placed in another
\* node can lie outside (socksvr.cpp, getPacketBuf and backPacketBuf).
PacketMemorySound ==
    \A c \in Clients : object[c] = "live" =>
        LET reads == pending[c] = <<"body">>
            bufs  == buffers[c]
            mem   == body[c]
            isOut(i) == i = mem.at /\ (reads \/ bufLock[c] = "held")
        IN  /\ \A i \in DOMAIN bufs : /\ bufs[i].used <= bufs[i].total
                                     /\ bufs[i].cc = (IF isOut(i) THEN 1 ELSE 0)
            /\ reads => bufLock[c] = "free" /\ mem.at \in DOMAIN bufs
            /\ reads /\ mem.at = Len(bufs)
                 => mem.off + HDR + pckHeader[c].msgLeng = bufs[mem.at].used

\* What the viewers are told of one client: packets in the order they were
\* sent, under a name that only grows, and nothing behind the news that the
\* client has disconnected (socksvr.cpp, onReadBody and onDisconnected).
RelayInOrder ==
    \A i, j \in DOMAIN dumps :
        LET a == dumps[i]
            b == dumps[j]
        IN  i < j /\ a.client = b.client =>
              /\ a.event # "closed"
              /\ a.packet < b.packet \/ (a.packet = b.packet /\ b.event = "closed")
              /\ a.name # <<>> /\ b.name # <<>> => IsPrefix(a.name, b.name)

Announced(c) == \E i \in DOMAIN dumps : dumps[i].client = c /\ dumps[i].event = "closed"

\* There is always an acceptor for the next connection, until one accept fails:
\* then a Client that never was connected is deleted, and nobody listens any
\* more (socksvr.cpp, onAccept).
Listening ==
    serverThread = "run" /\ (\E c \in Clients : object[c] = "none")
        => \/ \E c \in Clients : pending[c] = <<"accept">>
           \/ \E c \in Clients : object[c] = "deleted" /\ ~Announced(c)

\* The packet memory of a client is never given back while it is connected:
\* backPacketBuf frees only a node that other packets are left in, and there
\* is one packet at a time, whatever the lengths (socksvr.cpp, backPacketBuf).
PacketMemoryOnlyGrows ==
    [][\A c \in Clients : object'[c] = "live" => Len(buffers[c]) <= Len(buffers'[c])]_logVars

\* The viewers are told of every client in packet mode that goes away, if the
\* server goes on running (socksvr.cpp, onReadHeader and onReadBody with an error).
DisconnectAnnounced ==
    \A c \in Clients :
        c \in clients /\ kSocketMode[c] = "packets" /\ peer[c] = "closed"
            ~> Announced(c) \/ serverThread # "run"

-----------------------------------------------------------------------------
(* What README.md says of the program: one end receives the log content that
   is sent after a socket connection, the other end sends it to the WebSocket
   clients to be displayed. *)

\* The thread that receives the packets of all clients never waits for ever.
ServerThreadRuns == serverThread # "blocked"

\* The content received is kept in memory of its own until it is relayed.
ContentKept ==
    \A c \in Clients :
        object[c] = "live" /\ pending[c] = <<"body">>
            => InBounds(buffers[c], body[c], pckHeader[c].msgLeng)
=============================================================================
