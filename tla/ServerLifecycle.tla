-------------------------- MODULE ServerLifecycle ---------------------------
(***************************************************************************)
(* The start and the stop of the two servers (dslog/socksvr.cpp, called by *)
(* wWinMain in dslog.cpp): the window thread starts the server thread and  *)
(* the WebSocket thread, and at the end waits for them on two flags.       *)
(*                                                                         *)
(* The threads share three plain booleans and the stopped state of the two *)
(* io_services; every read and every write of them is a step of its own.   *)
(* What the services do while they run is left to LogClients and WsServer: *)
(* here run() ends because the service is stopped or a handler throws.     *)
(***************************************************************************)
EXTENDS Naturals

VARIABLES
    window,         \* where the window thread is in wWinMain
    server,         \* where serverThreadProc is
    ws,             \* where threadWebSocketProc is
    toStore,        \* flags serverThreadProc has yet to set to true
    bEventLooping,
    bMainRunning,
    bWSRunning,
    stopped,        \* the io_services that were stopped
    announced       \* at the stop: both threads had set their flags before

flags == <<bEventLooping, bMainRunning, bWSRunning>>
lcVars == <<window, server, ws, toStore, flags, stopped, announced>>

Init ==
    /\ window = "start"
    /\ server = "none"
    /\ ws = "none"
    /\ toStore = {"bMainRunning", "bEventLooping"}
    /\ bEventLooping = FALSE
    /\ bMainRunning = FALSE
    /\ bWSRunning = FALSE
    /\ stopped = {}
    /\ announced = FALSE

\* The process is there: it ends when wWinMain returns, or at once when an
\* exception leaves the function of a thread.
Lives == window \notin {"returned", "terminated"}

At(pc, place) == Lives /\ pc = place

-----------------------------------------------------------------------------
(* The window thread. *)

\* startSocketServer makes one thread, then the other.
StartThread ==
    /\ \/ /\ At(window, "start")
          /\ window' = "startWs" /\ server' = "bind"
          /\ UNCHANGED ws
       \/ /\ At(window, "startWs")
          /\ window' = "loop" /\ ws' = "bind"
          /\ UNCHANGED server
    /\ UNCHANGED <<toStore, flags, stopped, announced>>

\* The user chooses to exit: the message loop of wWinMain ends, and
\* stopSocketServer clears bEventLooping.
Exit ==
    /\ At(window, "loop")
    /\ window' = "stop"
    /\ bEventLooping' = FALSE
    /\ announced' = (toStore = {} /\ ws \notin {"none", "bind", "announce"})
    /\ UNCHANGED <<server, ws, toStore, bMainRunning, bWSRunning, stopped>>

StopServicesHalf ==                     \* mutant: wsService is not stopped
    /\ At(window, "stop")
    /\ window' = "wait"
    /\ stopped' = stopped \cup {"ioService"}
    /\ UNCHANGED <<server, ws, toStore, flags, announced>>

\* stopSocketServer stops one service, then the other.  (Interrupting threads
\* that are detached does nothing.)
StopServices ==
    /\ \/ /\ At(window, "stop")
          /\ window' = "stopWs" /\ stopped' = stopped \cup {"ioService"}
       \/ /\ At(window, "stopWs")
          /\ window' = "wait" /\ stopped' = stopped \cup {"wsService"}
    /\ UNCHANGED <<server, ws, toStore, flags, announced>>

WaitEither ==                           \* mutant: && for ||
    /\ \/ /\ At(window, "wait")
          /\ window' = IF bMainRunning THEN "waitWs" ELSE "returned"
       \/ /\ At(window, "waitWs")
          /\ window' = IF bWSRunning THEN "wait" ELSE "returned"
    /\ UNCHANGED <<server, ws, toStore, flags, stopped, announced>>

\* One turn of the loop that waits: bMainRunning, then bWSRunning; when both
\* are false wWinMain returns.
Wait ==
    /\ \/ /\ At(window, "wait") /\ ~bMainRunning
          /\ window' = "waitWs"
       \/ /\ At(window, "waitWs")
          /\ window' = IF bWSRunning THEN "wait" ELSE "returned"
    /\ UNCHANGED <<server, ws, toStore, flags, stopped, announced>>

-----------------------------------------------------------------------------
(* The server thread. *)

ServerMoves(from, to) == At(server, from) /\ server' = to

\* acceptor.bind, or the acceptor of WS::Server, throws when the port is in
\* use: the exception leaves the thread.
BindFails ==
    /\ Lives
    /\ server = "bind" \/ ws = "bind"
    /\ window' = "terminated"
    /\ UNCHANGED <<server, ws, toStore, flags, stopped, announced>>

ServerBinds ==
    /\ ServerMoves("bind", "announce")
    /\ UNCHANGED <<window, ws, toStore, flags, stopped, announced>>

\* Nothing orders the two assignments for the other threads.
ServerStores ==
    /\ At(server, "announce")
    /\ \E flag \in toStore :
          /\ toStore' = toStore \ {flag}
          /\ bMainRunning' = (bMainRunning \/ flag = "bMainRunning")
          /\ bEventLooping' = (bEventLooping \/ flag = "bEventLooping")
    /\ server' = IF toStore' = {} THEN "test" ELSE server
    /\ UNCHANGED <<window, ws, bWSRunning, stopped, announced>>

ServerTests ==
    /\ ServerMoves("test", IF bEventLooping THEN "run" ELSE "cleanup")
    /\ UNCHANGED <<window, ws, toStore, flags, stopped, announced>>

\* ioService.run() returns only when it is stopped: the object work keeps it
\* busy.
ServerLeaves ==
    /\ "ioService" \in stopped
    /\ ServerMoves("run", "cleanup")
    /\ UNCHANGED <<window, ws, toStore, flags, stopped, announced>>

\* A handler throws and a message box is shown.
ServerThrows ==
    /\ ServerMoves("run", "alert")
    /\ UNCHANGED <<window, ws, toStore, flags, stopped, announced>>

ServerAlertDismissed ==
    /\ ServerMoves("alert", "test")
    /\ UNCHANGED <<window, ws, toStore, flags, stopped, announced>>

\* The acceptor is closed and the clients are deleted; ioService.reset().
ServerCleansUp ==
    /\ ServerMoves("cleanup", "last")
    /\ stopped' = stopped \ {"ioService"}
    /\ UNCHANGED <<window, ws, toStore, flags, announced>>

ServerEnds ==
    /\ ServerMoves("last", "ended")
    /\ bMainRunning' = FALSE
    /\ UNCHANGED <<window, ws, toStore, bEventLooping, bWSRunning, stopped, announced>>

-----------------------------------------------------------------------------
(* The WebSocket thread. *)

WsMoves(from, to) == At(ws, from) /\ ws' = to

WsBinds ==
    /\ WsMoves("bind", "announce")
    /\ UNCHANGED <<window, server, toStore, flags, stopped, announced>>

WsAnnounces ==
    /\ WsMoves("announce", "test")
    /\ bWSRunning' = TRUE
    /\ UNCHANGED <<window, server, toStore, bEventLooping, bMainRunning, stopped, announced>>

WsTests ==
    /\ WsMoves("test", IF bEventLooping THEN "run" ELSE "last")
    /\ UNCHANGED <<window, server, toStore, flags, stopped, announced>>

\* wsService.run() returns only when it is stopped: the server always accepts.
WsLeaves ==
    /\ "wsService" \in stopped
    /\ WsMoves("run", "test")
    /\ UNCHANGED <<window, server, toStore, flags, stopped, announced>>

WsThrows ==
    /\ WsMoves("run", "alert")
    /\ UNCHANGED <<window, server, toStore, flags, stopped, announced>>

WsAlertDismissed ==
    /\ WsMoves("alert", "test")
    /\ UNCHANGED <<window, server, toStore, flags, stopped, announced>>

WsEnds ==
    /\ WsMoves("last", "ended")
    /\ bWSRunning' = FALSE
    /\ UNCHANGED <<window, server, toStore, bEventLooping, bMainRunning, stopped, announced>>

-----------------------------------------------------------------------------
(* The processes together. *)

ServerSteps == ServerBinds \/ ServerStores \/ ServerTests \/ ServerLeaves
                  \/ ServerAlertDismissed \/ ServerCleansUp \/ ServerEnds

WsSteps == WsBinds \/ WsAnnounces \/ WsTests \/ WsLeaves \/ WsAlertDismissed \/ WsEnds

Next ==
    \/ StartThread \/ Exit \/ StopServices \/ Wait
    \/ BindFails
    \/ ServerSteps \/ ServerThrows
    \/ WsSteps \/ WsThrows

LifecycleSpec == Init /\ [][Next]_lcVars

\* Every thread is scheduled, a stopped service returns from run(), and the
\* operator dismisses the message boxes.  Nobody has to choose to exit and no
\* handler has to throw.
LifecycleFairSpec ==
    /\ LifecycleSpec
    /\ WF_lcVars(StartThread \/ StopServices \/ Wait)
    /\ WF_lcVars(ServerSteps)
    /\ WF_lcVars(WsSteps)

-----------------------------------------------------------------------------
(* Properties. *)

TypeOK ==
    /\ window \in {"start", "startWs", "loop", "stop", "stopWs", "wait", "waitWs",
                   "returned", "terminated"}
    /\ server \in {"none", "bind", "announce", "test", "run", "alert", "cleanup", "last", "ended"}
    /\ ws \in {"none", "bind", "announce", "test", "run", "alert", "last", "ended"}
    /\ toStore \subseteq {"bMainRunning", "bEventLooping"}
    /\ flags \in BOOLEAN \X BOOLEAN \X BOOLEAN
    /\ stopped \subseteq {"ioService", "wsService"}
    /\ announced \in BOOLEAN

\* When the threads have announced themselves before the stop, wWinMain does
\* not return, and the globals are not destroyed, under a thread that still
\* runs (socksvr.cpp, stopSocketServer), although the two flags are read one
\* after the other while both threads change them.
StopWaits == window = "returned" /\ announced => server = "ended" /\ ws = "ended"

\* Once announced threads are stopped the process ends: no thread goes into
\* run() again, or goes round its loop for ever (socksvr.cpp, both loops).
StopEnds == window = "stop" /\ announced ~> ~Lives

\* While the server receives log content, the thread that serves the viewers
\* has not ended: README.md:2 promises the one and the other.
ViewersServed == window = "loop" /\ server = "run" => ws # "ended"

=============================================================================
