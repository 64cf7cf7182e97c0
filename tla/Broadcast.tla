----------------------------- MODULE Broadcast ------------------------------
(***************************************************************************)
(* What the log server promises its viewers, without threads, sockets or   *)
(* queues: every record is handed to all the viewers present when it is    *)
(* published, and a viewer is shown the records it is owed once each, in   *)
(* the order they were published.  Records may be lost only for a viewer   *)
(* that has left or whose network has failed.                              *)
(*                                                                         *)
(* README.md of the repository: one end receives log content over sockets, *)
(* the other end sends it to WebSocket clients to display it; configs.h,   *)
(* kDumpDispatchToWebSockets: "dispatched directly to all WebSockets".     *)
(***************************************************************************)
EXTENDS Naturals, Sequences

CONSTANT Viewers        \* the viewers that may ever connect

VARIABLES
    published,          \* how many records have been published: they are 1..published
    present,            \* the viewers that are owed the next record
    owed,               \* owed[v]: published records v has not been shown yet
    shown               \* shown[v]: the records v has been shown, in order

bcVars == <<published, present, owed, shown>>

-----------------------------------------------------------------------------
Init ==
    /\ published = 0
    /\ present = {}
    /\ owed = [v \in Viewers |-> <<>>]
    /\ shown = [v \in Viewers |-> <<>>]

\* A viewer joins once, and is owed nothing of what was published before.
Join(v) ==
    /\ v \notin present
    /\ owed[v] = <<>>
    /\ shown[v] = <<>>
    /\ present' = present \cup {v}
    /\ UNCHANGED <<published, owed, shown>>

\* One step hands the new record to every viewer present.
Publish ==
    /\ published' = published + 1
    /\ owed' = [v \in Viewers |->
                  IF v \in present THEN Append(owed[v], published') ELSE owed[v]]
    /\ UNCHANGED <<present, shown>>

Show(v) ==
    /\ owed[v] # <<>>
    /\ shown' = [shown EXCEPT ![v] = Append(@, Head(owed[v]))]
    /\ owed' = [owed EXCEPT ![v] = Tail(@)]
    /\ UNCHANGED <<published, present>>

\* A viewer that leaves may still be shown what it was owed.
Leave(v) ==
    /\ v \in present
    /\ present' = present \ {v}
    /\ UNCHANGED <<published, owed, shown>>

\* The network of a viewer fails, or the rest is dropped after it left.
Lose(v) ==
    /\ present' = present \ {v}
    /\ owed' = [owed EXCEPT ![v] = <<>>]
    /\ UNCHANGED <<published, shown>>

Next ==
    \/ Publish
    \/ \E v \in Viewers : Join(v) \/ Show(v) \/ Leave(v) \/ Lose(v)

Spec == Init /\ [][Next]_bcVars
=============================================================================
