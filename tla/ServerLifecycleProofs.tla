------------------------ MODULE ServerLifecycleProofs -----------------------
(***************************************************************************)
(* StopWaits of ServerLifecycle: wWinMain does not return under a thread   *)
(* that had announced itself.                                              *)
(*                                                                         *)
(* The window thread reads the two flags one after the other, so that what *)
(* it saw of the first must still be so when it has seen the second.  It   *)
(* is, because a flag that was taken back is never set again (FlagsTell).  *)
(***************************************************************************)
EXTENDS ServerLifecycle, TLAPS

\* A flag is set exactly while its thread is between its two assignments.
FlagsTell ==
    /\ server \in {"none", "bind", "announce"} => toStore # {}
    /\ server \notin {"none", "bind", "announce"} => toStore = {}
    /\ "bMainRunning" \notin toStore => (bMainRunning <=> server # "ended")
    /\ bWSRunning <=> ws \in {"test", "run", "alert", "last"}

\* No thread is there before it is started.
NotStarted ==
    /\ window = "start" => server = "none"
    /\ window \in {"start", "startWs"} => ws = "none"

\* What the window thread knows once it has begun to stop.
WaitTells ==
    /\ announced => toStore = {} /\ ws \notin {"none", "bind", "announce"}
    /\ announced /\ window \in {"waitWs", "returned"} => server = "ended"
    /\ announced /\ window = "returned" => ws = "ended"

IndInv == TypeOK /\ FlagsTell /\ NotStarted /\ WaitTells

LEMMA InitInv == Init => IndInv
  BY DEF Init, IndInv, TypeOK, FlagsTell, NotStarted, WaitTells, flags

LEMMA StepInv == IndInv /\ [Next]_lcVars => IndInv'
  <1> SUFFICES ASSUME IndInv, [Next]_lcVars PROVE IndInv'
    OBVIOUS
  <1> USE DEF IndInv, TypeOK, FlagsTell, NotStarted, WaitTells, flags, Lives, At
  <1>1. CASE StartThread
    BY <1>1 DEF StartThread
  <1>2. CASE Exit
    BY <1>2 DEF Exit
  <1>3. CASE StopServices
    BY <1>3 DEF StopServices
  <1>4. CASE Wait
    BY <1>4 DEF Wait
  <1>5. CASE BindFails
    BY <1>5 DEF BindFails
  <1>6. CASE ServerSteps
    <2> USE DEF ServerMoves
    <2>1. CASE ServerBinds
      BY <2>1 DEF ServerBinds
    <2>2. CASE ServerStores
      <3>1. PICK flag \in toStore :
               /\ toStore' = toStore \ {flag}
               /\ bMainRunning' = (bMainRunning \/ flag = "bMainRunning")
               /\ bEventLooping' = (bEventLooping \/ flag = "bEventLooping")
        BY <2>2 DEF ServerStores
      <3>2. TypeOK'
        <4>1. flags' \in BOOLEAN \X BOOLEAN \X BOOLEAN
          BY <2>2, <3>1 DEF ServerStores
        <4>2. QED
          BY <2>2, <3>1, <4>1 DEF ServerStores
      <3>3. "bMainRunning" \notin toStore' => bMainRunning'
        <4>1. CASE flag = "bMainRunning"
          BY <3>1, <4>1
        <4>2. CASE flag # "bMainRunning" /\ "bMainRunning" \notin toStore
          <5>1. bMainRunning
            BY <2>2, <4>2 DEF ServerStores
          <5>2. QED
            BY <3>1, <5>1
        <4>3. QED
          BY <3>1, <4>1, <4>2
      <3>4. FlagsTell'
        BY <2>2, <3>1, <3>3 DEF ServerStores
      <3>5. NotStarted' /\ WaitTells'
        BY <2>2, <3>1 DEF ServerStores
      <3>6. QED
        BY <3>2, <3>4, <3>5
    <2>3. CASE ServerTests
      BY <2>3 DEF ServerTests
    <2>4. CASE ServerLeaves
      BY <2>4 DEF ServerLeaves
    <2>5. CASE ServerAlertDismissed
      BY <2>5 DEF ServerAlertDismissed
    <2>6. CASE ServerCleansUp
      BY <2>6 DEF ServerCleansUp
    <2>7. CASE ServerEnds
      BY <2>7 DEF ServerEnds
    <2>8. QED
      BY <1>6, <2>1, <2>2, <2>3, <2>4, <2>5, <2>6, <2>7 DEF ServerSteps
  <1>7. CASE ServerThrows
    BY <1>7 DEF ServerThrows, ServerMoves
  <1>8. CASE WsSteps
    <2> USE DEF WsMoves
    <2>1. CASE WsBinds
      BY <2>1 DEF WsBinds
    <2>2. CASE WsAnnounces
      BY <2>2 DEF WsAnnounces
    <2>3. CASE WsTests
      BY <2>3 DEF WsTests
    <2>4. CASE WsLeaves
      BY <2>4 DEF WsLeaves
    <2>5. CASE WsAlertDismissed
      BY <2>5 DEF WsAlertDismissed
    <2>6. CASE WsEnds
      BY <2>6 DEF WsEnds
    <2>7. QED
      BY <1>8, <2>1, <2>2, <2>3, <2>4, <2>5, <2>6 DEF WsSteps
  <1>9. CASE WsThrows
    BY <1>9 DEF WsThrows, WsMoves
  <1>10. CASE UNCHANGED lcVars
    BY <1>10 DEF lcVars
  <1>11. QED
    BY <1>1, <1>2, <1>3, <1>4, <1>5, <1>6, <1>7, <1>8, <1>9, <1>10 DEF Next

\* wWinMain does not return, and destroy the globals, while a thread that had
\* announced itself before the stop still runs (socksvr.cpp, stopSocketServer).
THEOREM StopIsSafe == LifecycleSpec => []StopWaits
  <1>1. IndInv => StopWaits
    BY DEF IndInv, WaitTells, StopWaits
  <1>2. QED
    BY <1>1, InitInv, StepInv, PTL DEF LifecycleSpec

=============================================================================
