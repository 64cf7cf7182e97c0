-------------------------- MODULE LogClientsProofs --------------------------
(***************************************************************************)
(* Proofs about LogClients, for every set of Client objects, every size of *)
(* packets and every bound.                                                *)
(*                                                                         *)
(* A Client has one operation outstanding because every handler ends by    *)
(* starting the one that follows it, and nobody else starts any (WorkInv). *)
(* What the viewers are told of it is in order because a record is about   *)
(* the packet received last, under the name the Client has at that time,   *)
(* and a Client is deleted in the step that says so (ToldInv).             *)
(* The counters of packet memory are right, whatever the lengths of the    *)
(* packets, because one packet at a time is out: its node has the counter  *)
(* 1, so that backPacketBuf never frees a node, and once it has not found  *)
(* the node, no other packet is taken (CountInv).  That the packet itself  *)
(* lies in the node does not follow, and is not true (run log_overrun).    *)
(***************************************************************************)
EXTENDS LogClients, Induction, SequenceTheorems, TLAPS

-----------------------------------------------------------------------------
(* The inductive invariant. *)

Records == [event : Events, client : Clients, packet : Nat, name : Seq(Nat)]

Types ==
    /\ clients \in SUBSET Clients
    /\ object \in [Clients -> {"none", "accepting", "live", "deleted"}]
    /\ kSocketMode \in [Clients -> SocketModes]
    /\ pending \in [Clients -> Seq(Operations)]
    /\ strClientName \in [Clients -> Seq(Nat)]
    /\ received \in [Clients -> Nat]
    /\ dumps \in Seq(Records)

\* The operations a Client may have outstanding.
Queues == {<<>>, <<"accept">>, <<"header">>, <<"body">>, <<"strings">>}

\* What is outstanding for a Client in state o, of mode m.
Work(o, m, p) ==
    /\ p \in Queues
    /\ p = <<"accept">> <=> o = "accepting"
    /\ p # <<>> => o \in {"accepting", "live"}
    /\ o = "live" /\ m # "garbage" => p # <<>>

WorkInv ==
    serverThread = "run" =>
        \A c \in Clients : Work(object[c], kSocketMode[c], pending[c])

\* The list holds the Clients that are connected.
ListInv == \A c \in Clients : c \in clients <=> object[c] = "live"

\* A record of a Client in state o, that has received r packets and has name n.
Behind(a, o, r, n) ==
    /\ a.packet <= r
    /\ a.event = "closed" => o = "deleted"
    /\ a.name # <<>> => IsPrefix(a.name, n)

ToldInv ==
    \A i \in DOMAIN dumps :
        Behind(dumps[i], object[dumps[i].client], received[dumps[i].client],
               strClientName[dumps[i].client])

IndInv == Types /\ WorkInv /\ ListInv /\ ToldInv /\ RelayInOrder /\ Listening

-----------------------------------------------------------------------------
(* Sequences. *)

\* A queue is empty or has one operation, at its head.
LEMMA OneOrNone ==
    ASSUME NEW p \in Queues
    PROVE  /\ p \in Seq(Operations)
           /\ p = <<>> \/ \E op \in Operations : p = <<op>>
           /\ Len(p) <= 1
  <1>1. p = <<>> \/ \E op \in Operations : p = <<op>>
    BY DEF Queues, Operations
  <1>2. CASE p = <<>>
    BY <1>1, <1>2
  <1>3. CASE \E op \in Operations : p = <<op>>
    BY <1>1, <1>3
  <1> QED
    BY <1>1, <1>2, <1>3

\* What a queue becomes when a handler has started the next operation.
LEMMA NextOperation ==
    ASSUME NEW p \in Queues, p # <<>>, NEW m \in SocketModes
    PROVE  /\ Tail(p) = <<>>
           /\ Tail(p) \o Start(m) = Start(m)
           /\ Append(Tail(p), "body") = <<"body">>
           /\ Start(m) \in Queues
           /\ Work("live", m, Start(m))
  <1>1. PICK op \in Operations : p = <<op>>
    BY OneOrNone
  <1>2. Tail(p) = <<>>
    BY <1>1
  <1>3. Start(m) = <<"header">> \/ Start(m) = <<"strings">> \/ Start(m) = <<>>
    BY DEF Start
  <1>4. Start(m) \in Queues
    BY <1>3 DEF Queues
  <1>5. Tail(p) \o Start(m) = Start(m)
    BY <1>2, <1>4, OneOrNone, ConcatEmptySeq
  <1>6. Append(Tail(p), "body") = <<"body">>
    <2>1. "body" \in Operations /\ <<>> \in Seq(Operations) /\ <<"body">> \in Seq(Operations)
      BY OneOrNone DEF Operations, Queues
    <2>2. Append(<<>>, "body") = <<>> \o <<"body">>
      BY <2>1, AppendIsConcat
    <2> QED
      BY <1>2, <2>1, <2>2, ConcatEmptySeq
  <1>7. m # "garbage" => Start(m) # <<>>
    BY DEF SocketModes, Start
  <1>8. Start(m) # <<"accept">>
    BY <1>3
  <1>9. Work("live", m, Start(m))
    BY <1>4, <1>7, <1>8 DEF Work
  <1> QED
    BY <1>2, <1>4, <1>5, <1>6, <1>9

\* A name that has grown still begins with what it began with before.
LEMMA PrefixGrows ==
    ASSUME NEW s \in Seq(Nat), NEW t \in Seq(Nat), NEW x \in Nat, IsPrefix(s, t)
    PROVE  IsPrefix(s, Append(t, x))
  BY DEF IsPrefix

\* A name begins with itself.
LEMMA PrefixSelf ==
    ASSUME NEW s \in Seq(Nat)
    PROVE  IsPrefix(s, s)
  BY DEF IsPrefix

\* A record is about the Client, the packet and the event it was made for, and
\* has the name the Client has now or none.
LEMMA RecordType ==
    ASSUME Types, NEW c \in Clients, NEW e \in Events, NEW k \in Nat
    PROVE  /\ Record(e, c, k) \in Records
           /\ Record(e, c, k).client = c
           /\ Record(e, c, k).packet = k
           /\ Record(e, c, k).event = e
           /\ Record(e, c, k).name # <<>> => Record(e, c, k).name = strClientName[c]
  BY DEF Types, Record, Records

-----------------------------------------------------------------------------
(* What a handler finds, and what a record adds. *)

\* A handler is called on a Client that exists, and its operation was the only
\* one.
LEMMA HandlerFinds ==
    ASSUME Types, WorkInv, ListInv, NEW c \in Clients, NEW op \in Operations, Handles(c, op)
    PROVE  /\ serverThread = "run"
           /\ pending[c] = <<op>>
           /\ pending[c] \in Queues
           /\ pending[c] # <<>>
           /\ kSocketMode[c] \in SocketModes
           /\ op = "accept" => object[c] = "accepting" /\ c \notin clients
           /\ op # "accept" => object[c] = "live" /\ c \in clients
  <1>1. serverThread = "run" /\ pending[c] # <<>> /\ Head(pending[c]) = op
    BY DEF Handles
  <1>2. Work(object[c], kSocketMode[c], pending[c])
    BY <1>1 DEF WorkInv
  <1>3. pending[c] \in Queues
    BY <1>2 DEF Work
  <1>4. pending[c] = <<op>>
    BY <1>1, <1>3, OneOrNone
  <1>5. op = "accept" => object[c] = "accepting"
    BY <1>2, <1>4 DEF Work
  <1>6. op # "accept" => object[c] = "live"
    <2>1. op # "accept" => pending[c] # <<"accept">>
      BY <1>4
    <2> QED
      BY <1>1, <1>2, <2>1 DEF Work
  <1>7. kSocketMode[c] \in SocketModes
    BY DEF Types
  <1> QED
    BY <1>1, <1>3, <1>4, <1>5, <1>6, <1>7 DEF ListInv

\* The order of the records is kept when one about a Client that still exists
\* comes behind them: it is about a later packet, or about the end.
LEMMA RecordBehind ==
    ASSUME Types, ToldInv, RelayInOrder, NEW e \in Records,
           object[e.client] = "live",
           \/ e.packet > received[e.client]
           \/ e.packet = received[e.client] /\ e.event = "closed",
           e.name # <<>> => e.name = strClientName[e.client],
           dumps' = Append(dumps, e)
    PROVE  RelayInOrder'
  <1> DEFINE n == Len(dumps)
  <1>1. /\ dumps \in Seq(Records) /\ n \in Nat /\ DOMAIN dumps = 1 .. n
        /\ Len(dumps') = n + 1 /\ DOMAIN dumps' = 1 .. n + 1
        /\ \A i \in 1 .. n : dumps'[i] = dumps[i] /\ dumps[i] \in Records
        /\ dumps'[n + 1] = e
    BY AppendProperties, LenProperties DEF Types
  <1> SUFFICES ASSUME NEW i \in 1 .. n + 1, NEW j \in 1 .. n + 1, i < j,
                      dumps'[i].client = dumps'[j].client
               PROVE  /\ dumps'[i].event # "closed"
                      /\ \/ dumps'[i].packet < dumps'[j].packet
                         \/ dumps'[i].packet = dumps'[j].packet /\ dumps'[j].event = "closed"
                      /\ dumps'[i].name # <<>> /\ dumps'[j].name # <<>>
                            => IsPrefix(dumps'[i].name, dumps'[j].name)
    BY <1>1 DEF RelayInOrder
  <1> HIDE DEF n
  <1>2. i \in 1 .. n /\ dumps'[i] = dumps[i]
    BY <1>1
  <1>3. CASE j \in 1 .. n
    BY <1>1, <1>2, <1>3 DEF RelayInOrder
  <1>4. CASE j = n + 1
    <2>1. dumps'[j] = e /\ dumps[i].client = e.client
      BY <1>1, <1>2, <1>4
    <2>2. Behind(dumps[i], object[e.client], received[e.client], strClientName[e.client])
      BY <1>1, <1>2, <2>1 DEF ToldInv
    <2>3. dumps[i].packet \in Nat /\ e.packet \in Nat /\ received[e.client] \in Nat
      BY <1>1, <1>2 DEF Types, Records
    <2> QED
      BY <1>2, <2>1, <2>2, <2>3 DEF Behind
  <1> QED
    BY <1>1, <1>3, <1>4

\* ToldInv is kept when every Client is behind what was said of it before.
LEMMA ToldKept ==
    ASSUME Types, ToldInv,
           \A d \in Clients : \A a \in Records :
              Behind(a, object[d], received[d], strClientName[d])
                => Behind(a, object'[d], received'[d], strClientName'[d]),
           \/ dumps' = dumps
           \/ \E e \in Records :
                /\ dumps' = Append(dumps, e)
                /\ Behind(e, object'[e.client], received'[e.client], strClientName'[e.client])
    PROVE  ToldInv'
  <1> DEFINE n == Len(dumps)
  <1>1. /\ dumps \in Seq(Records) /\ n \in Nat /\ DOMAIN dumps = 1 .. n
        /\ \A i \in 1 .. n : dumps[i] \in Records
    BY LenProperties DEF Types
  <1>2. ASSUME NEW i \in 1 .. n
        PROVE  Behind(dumps[i], object'[dumps[i].client], received'[dumps[i].client],
                      strClientName'[dumps[i].client])
    <2>1. dumps[i] \in Records /\ dumps[i].client \in Clients
      BY <1>1 DEF Records
    <2>2. Behind(dumps[i], object[dumps[i].client], received[dumps[i].client],
                 strClientName[dumps[i].client])
      BY <1>1 DEF ToldInv
    <2> QED
      BY <2>1, <2>2
  <1>3. CASE dumps' = dumps
    BY <1>1, <1>2, <1>3 DEF ToldInv
  <1>4. ASSUME NEW e \in Records, dumps' = Append(dumps, e),
               Behind(e, object'[e.client], received'[e.client], strClientName'[e.client])
        PROVE  ToldInv'
    <2>1. /\ dumps' \in Seq(Records) /\ Len(dumps') = n + 1
          /\ \A i \in 1 .. n : dumps'[i] = dumps[i]
          /\ dumps'[n + 1] = e
      BY ONLY <1>1, <1>4, AppendProperties
    <2>2. DOMAIN dumps' = 1 .. n + 1
      BY <2>1, LenProperties
    <2> SUFFICES ASSUME NEW i \in 1 .. n + 1
                 PROVE  Behind(dumps'[i], object'[dumps'[i].client], received'[dumps'[i].client],
                               strClientName'[dumps'[i].client])
      BY <2>2 DEF ToldInv
    <2>3. CASE i \in 1 .. n
      BY <1>2, <2>1, <2>3
    <2>4. CASE i = n + 1
      BY <1>4, <2>1, <2>4
    <2> QED
      BY <1>1, <2>3, <2>4
  <1> QED
    BY <1>3, <1>4

\* Somebody listens when those who listened do, and those who had failed to be
\* accepted still are not said to have disconnected.
LEMMA StillListening ==
    ASSUME Listening,
           serverThread' = "run" => serverThread = "run",
           \A d \in Clients : object'[d] = "none" => object[d] = "none",
           \A d \in Clients : pending[d] = <<"accept">> => pending'[d] = <<"accept">>,
           \A d \in Clients : object[d] = "deleted" /\ ~Announced(d)
                                => object'[d] = "deleted" /\ ~Announced(d)'
    PROVE  Listening'
  BY DEF Listening

\* A record about one Client does not announce another.
LEMMA NotAnnounced ==
    ASSUME Types, NEW e \in Records, dumps' = Append(dumps, e), NEW d \in Clients,
           d # e.client \/ e.event # "closed", ~Announced(d)
    PROVE  ~Announced(d)'
  <1> DEFINE n == Len(dumps)
  <1>1. /\ dumps \in Seq(Records) /\ n \in Nat /\ DOMAIN dumps = 1 .. n
        /\ Len(dumps') = n + 1 /\ DOMAIN dumps' = 1 .. n + 1
        /\ \A i \in 1 .. n : dumps'[i] = dumps[i]
        /\ dumps'[n + 1] = e
    BY AppendProperties, LenProperties DEF Types
  <1> SUFFICES ASSUME NEW i \in 1 .. n + 1, dumps'[i].client = d, dumps'[i].event = "closed"
               PROVE  FALSE
    BY <1>1 DEF Announced
  <1>2. i # n + 1
    BY <1>1
  <1>3. i \in 1 .. n
    BY <1>1, <1>2
  <1> QED
    BY <1>1, <1>3 DEF Announced

\* Only the queue of one Client changes, or nothing that the invariant is about.
LEMMA QuietStep ==
    ASSUME IndInv, NEW c \in Clients,
           clients' = clients, object' = object, kSocketMode' = kSocketMode,
           strClientName' = strClientName, received' = received, dumps' = dumps,
           serverThread' = "run" => serverThread = "run",
           pending' \in [Clients -> Seq(Operations)],
           \A d \in Clients \ {c} : pending'[d] = pending[d],
           pending[c] # <<"accept">>,
           serverThread' = "run" => Work(object[c], kSocketMode[c], pending'[c])
    PROVE  IndInv'
  <1>1. Types'
    BY DEF IndInv, Types
  <1>2. WorkInv'
    BY DEF IndInv, WorkInv
  <1>3. ListInv' /\ RelayInOrder'
    BY DEF IndInv, ListInv, RelayInOrder
  <1>4. ToldInv'
    BY DEF IndInv, ToldInv
  <1>5. Listening'
    <2>1. \A d \in Clients : pending[d] = <<"accept">> => pending'[d] = <<"accept">>
      OBVIOUS
    <2>2. \A d \in Clients : Announced(d)' = Announced(d)
      BY DEF Announced
    <2> QED
      BY <2>1, <2>2, StillListening DEF IndInv
  <1> QED
    BY <1>1, <1>2, <1>3, <1>4, <1>5 DEF IndInv

-----------------------------------------------------------------------------
(* One lemma for each action. *)

\* onReadBody, which two handlers end with: the record is about the next packet
\* of a Client that exists, and the next read is started.
LEMMA RelayKeeps ==
    ASSUME IndInv, NEW c \in Clients, NEW logType, NEW msgLeng,
           serverThread = "run", object[c] = "live", pending[c] \in Queues,
           pending[c] # <<>>, pending[c] # <<"accept">>,
           Relay(c, logType, msgLeng),
           pending' = [pending EXCEPT ![c] = Tail(@) \o Start(kSocketMode[c])],
           UNCHANGED <<serverThread, clients, object, kSocketMode>>
    PROVE  IndInv'
  <1> DEFINE k == received[c] + 1
  <1>1. /\ received' = [received EXCEPT ![c] = k]
        /\ received'[c] = k /\ k \in Nat /\ received[c] \in Nat /\ received[c] < k
    BY DEF IndInv, Types, Relay
  <1>2. /\ strClientName' \in [Clients -> Seq(Nat)]
        /\ strClientName[c] \in Seq(Nat)
        /\ \A d \in Clients \ {c} : strClientName'[d] = strClientName[d]
        /\ strClientName'[c] = strClientName[c] \/ strClientName'[c] = Append(strClientName[c], k)
    BY <1>1, AppendProperties DEF IndInv, Types, Relay
  <1>3. PICK e \in {"normal", "clearAll", "empty"} : dumps' = Append(dumps, Record(e, c, k))
    BY <1>1 DEF Relay
  <1> HIDE DEF k
  <1>4. /\ Record(e, c, k) \in Records
        /\ Record(e, c, k).client = c /\ Record(e, c, k).packet = k /\ Record(e, c, k).event = e
        /\ Record(e, c, k).name # <<>> => Record(e, c, k).name = strClientName[c]
    BY <1>1, RecordType DEF IndInv, Events
  <1>5. pending' = [pending EXCEPT ![c] = Start(kSocketMode[c])]
        /\ Start(kSocketMode[c]) \in Queues /\ Work("live", kSocketMode[c], Start(kSocketMode[c]))
    <2>1. kSocketMode[c] \in SocketModes
      BY DEF IndInv, Types
    <2> QED
      BY <2>1, NextOperation
  <1>6. Types'
    <2>1. Start(kSocketMode[c]) \in Seq(Operations)
      BY <1>5, OneOrNone
    <2>2. dumps' \in Seq(Records)
      BY <1>3, <1>4, AppendProperties DEF IndInv, Types
    <2> QED
      BY <1>1, <1>2, <1>5, <2>1, <2>2 DEF IndInv, Types
  <1>7. WorkInv'
    BY <1>5 DEF IndInv, WorkInv, Types
  <1>8. ListInv'
    BY DEF IndInv, ListInv
  <1>9. ToldInv'
    <2>1. ASSUME NEW d \in Clients, NEW a \in Records,
                 Behind(a, object[d], received[d], strClientName[d])
          PROVE  Behind(a, object'[d], received'[d], strClientName'[d])
      <3>1. CASE d # c
        BY <1>1, <1>2, <2>1, <3>1 DEF IndInv, Types
      <3>2. CASE d = c
        <4>1. a.packet \in Nat /\ a.name \in Seq(Nat)
          BY DEF Records
        <4>2. a.packet <= received'[c]
          BY <1>1, <2>1, <3>2, <4>1 DEF Behind
        <4>3. a.name # <<>> => IsPrefix(a.name, strClientName'[c])
          BY <1>1, <1>2, <2>1, <3>2, <4>1, PrefixGrows DEF Behind
        <4> QED
          BY <2>1, <3>2, <4>2, <4>3 DEF Behind
      <3> QED
        BY <3>1, <3>2
    <2>2. Behind(Record(e, c, k), object'[c], received'[c], strClientName'[c])
      <3>1. IsPrefix(strClientName[c], strClientName'[c])
        BY <1>1, <1>2, PrefixSelf, PrefixGrows
      <3> QED
        BY <1>1, <1>4, <3>1 DEF Behind
    <2> QED
      BY <1>3, <1>4, <2>1, <2>2, ToldKept DEF IndInv
  <1>10. RelayInOrder'
    BY <1>1, <1>3, <1>4, RecordBehind DEF IndInv
  <1>11. Listening'
    <2>1. \A d \in Clients : pending[d] = <<"accept">> => pending'[d] = <<"accept">>
      BY <1>5 DEF IndInv, Types
    <2>2. \A d \in Clients : ~Announced(d) => ~Announced(d)'
      BY <1>3, <1>4, NotAnnounced DEF IndInv
    <2> QED
      BY <2>1, <2>2, StillListening DEF IndInv
  <1> QED
    BY <1>6, <1>7, <1>8, <1>9, <1>10, <1>11 DEF IndInv

\* The Client joins the list and begins to read; the one that waits for the next
\* connection was none before.
LEMMA OnAcceptKeeps ==
    ASSUME IndInv, NEW c \in Clients, OnAccept(c)
    PROVE  IndInv'
  <1> DEFINE m == kSocketMode[c]
  <1>1. /\ serverThread = "run" /\ pending[c] \in Queues /\ pending[c] # <<>>
        /\ m \in SocketModes /\ object[c] = "accepting" /\ c \notin clients
    BY HandlerFinds DEF IndInv, OnAccept, Operations
  <1>2. /\ Start(m) \in Queues /\ Start(m) \in Seq(Operations)
        /\ Work("live", m, Start(m)) /\ Start(m) # <<"accept">>
        /\ Tail(pending[c]) \o Start(m) = Start(m)
    BY <1>1, NextOperation, OneOrNone DEF Work
  <1>3. <<"accept">> \in Queues /\ <<"accept">> \in Seq(Operations)
    BY OneOrNone DEF Queues
  <1>4. /\ clients' = clients \cup {c}
        /\ UNCHANGED <<serverThread, kSocketMode, strClientName, received, dumps>>
    BY DEF OnAccept, dataVars
  <1>5. ASSUME NEW d \in Clients
        PROVE  /\ object[d] # "accepting" /\ object[d] # "none" => object'[d] = object[d]
               /\ object'[d] = "none" => object[d] = "none"
               /\ d # c => (object'[d] = "live" <=> object[d] = "live")
               /\ object'[c] = "live"
    BY <1>1 DEF OnAccept, IndInv, Types
  <1>6. Types' /\ WorkInv'
    <2>1. CASE \E d \in Clients :
                  /\ object[d] = "none"
                  /\ object' = [object EXCEPT ![c] = "live", ![d] = "accepting"]
                  /\ pending' = [pending EXCEPT ![c] = Tail(@) \o Start(m), ![d] = <<"accept">>]
      <3>1. PICK d \in Clients :
                  /\ object[d] = "none"
                  /\ object' = [object EXCEPT ![c] = "live", ![d] = "accepting"]
                  /\ pending' = [pending EXCEPT ![c] = Tail(@) \o Start(m), ![d] = <<"accept">>]
        BY <2>1
      <3>2. d # c /\ Work("accepting", kSocketMode[d], <<"accept">>)
        BY <1>1, <1>3, <3>1 DEF Work
      <3>3. pending' = [pending EXCEPT ![c] = Start(m), ![d] = <<"accept">>]
        BY <1>2, <3>1
      <3>4. Types'
        BY <1>2, <1>3, <1>4, <3>1, <3>3 DEF IndInv, Types
      <3>5. WorkInv'
        BY <1>2, <1>4, <3>1, <3>2, <3>3 DEF IndInv, Types, WorkInv
      <3> QED
        BY <3>4, <3>5
    <2>2. CASE /\ object' = [object EXCEPT ![c] = "live"]
               /\ pending' = [pending EXCEPT ![c] = Tail(@) \o Start(m)]
      <3>1. pending' = [pending EXCEPT ![c] = Start(m)]
        BY <1>2, <2>2
      <3>2. Types'
        BY <1>2, <1>4, <2>2, <3>1 DEF IndInv, Types
      <3>3. WorkInv'
        BY <1>2, <1>4, <2>2, <3>1 DEF IndInv, Types, WorkInv
      <3> QED
        BY <3>2, <3>3
    <2> QED
      BY <2>1, <2>2 DEF OnAccept
  <1>7. ListInv'
    BY <1>4, <1>5 DEF IndInv, ListInv
  <1>8. RelayInOrder'
    BY <1>4 DEF IndInv, RelayInOrder
  <1>9. ToldInv'
    <2>1. ASSUME NEW d \in Clients, NEW a \in Records,
                 Behind(a, object[d], received[d], strClientName[d])
          PROVE  Behind(a, object'[d], received'[d], strClientName'[d])
      BY <1>4, <1>5, <2>1 DEF Behind
    <2> QED
      BY <1>4, <2>1, ToldKept DEF IndInv
  <1>10. Listening'
    <2>1. CASE \A d \in Clients : object'[d] # "none"
      BY <2>1 DEF Listening
    <2>2. CASE \E d \in Clients : pending'[d] = <<"accept">>
      BY <2>2 DEF Listening
    <2> QED
      BY <1>1, <1>5, <2>1, <2>2 DEF OnAccept, IndInv, Types
  <1> QED
    BY <1>6, <1>7, <1>8, <1>9, <1>10 DEF IndInv

\* A Client goes away that was not accepted: nobody was told of it.
LEMMA OnAcceptErrorKeeps ==
    ASSUME IndInv, NEW c \in Clients, OnAcceptError(c)
    PROVE  IndInv'
  <1>1. /\ serverThread = "run" /\ pending[c] \in Queues /\ pending[c] # <<>>
        /\ kSocketMode[c] \in SocketModes /\ object[c] = "accepting" /\ c \notin clients
    BY HandlerFinds DEF IndInv, OnAcceptError, Operations
  <1>2. Tail(pending[c]) = <<>> /\ <<>> \in Queues /\ Work("deleted", kSocketMode[c], <<>>)
    BY <1>1, NextOperation DEF Work, Queues
  <1>3. /\ object' = [object EXCEPT ![c] = "deleted"]
        /\ pending' = [pending EXCEPT ![c] = <<>>]
        /\ UNCHANGED <<serverThread, clients, kSocketMode, strClientName, received, dumps>>
    BY <1>2 DEF OnAcceptError, dataVars
  <1>4. Types'
    BY <1>3 DEF IndInv, Types
  <1>5. WorkInv'
    BY <1>2, <1>3 DEF IndInv, Types, WorkInv
  <1>6. ListInv'
    BY <1>1, <1>3 DEF IndInv, Types, ListInv
  <1>7. RelayInOrder'
    BY <1>3 DEF IndInv, RelayInOrder
  <1>8. ToldInv'
    <2>1. ASSUME NEW d \in Clients, NEW a \in Records,
                 Behind(a, object[d], received[d], strClientName[d])
          PROVE  Behind(a, object'[d], received'[d], strClientName'[d])
      BY <1>3, <2>1 DEF Behind, IndInv, Types
    <2> QED
      BY <1>3, <2>1, ToldKept DEF IndInv
  <1>9. Listening'
    <2>1. ~Announced(c)'
      <3>1. ~Announced(c)
        BY <1>1 DEF IndInv, ToldInv, Behind, Announced
      <3> QED
        BY <1>3, <3>1 DEF Announced
    <2>2. object'[c] = "deleted"
      BY <1>3 DEF IndInv, Types
    <2> QED
      BY <2>1, <2>2 DEF Listening
  <1> QED
    BY <1>4, <1>5, <1>6, <1>7, <1>8, <1>9 DEF IndInv

\* A packet without a body is relayed when its header is read.
LEMMA ReadShortPacketKeeps ==
    ASSUME IndInv, NEW c \in Clients, ReadShortPacket(c)
    PROVE  IndInv'
  <1>1. /\ serverThread = "run" /\ pending[c] = <<"header">> /\ pending[c] \in Queues
        /\ pending[c] # <<>> /\ object[c] = "live"
    BY HandlerFinds DEF IndInv, ReadShortPacket, Operations
  <1>2. PICK logType \in LogTypes : Relay(c, logType, 0)
    BY DEF ReadShortPacket
  <1>3. /\ pending' = [pending EXCEPT ![c] = Tail(@) \o Start(kSocketMode[c])]
        /\ UNCHANGED <<serverThread, clients, object, kSocketMode>>
    BY DEF ReadShortPacket
  <1>4. pending[c] # <<"accept">>
    BY <1>1
  <1> QED
    BY <1>1, <1>2, <1>3, <1>4, RelayKeeps

\* A packet with a body is relayed when the body is read.
LEMMA ReadBodyKeeps ==
    ASSUME IndInv, NEW c \in Clients, ReadBody(c)
    PROVE  IndInv'
  <1>1. /\ serverThread = "run" /\ pending[c] = <<"body">> /\ pending[c] \in Queues
        /\ pending[c] # <<>> /\ object[c] = "live"
    BY HandlerFinds DEF IndInv, ReadBody, Operations
  <1>2. Relay(c, pckHeader[c].logType, pckHeader[c].msgLeng)
    BY DEF ReadBody
  <1>3. /\ pending' = [pending EXCEPT ![c] = Tail(@) \o Start(kSocketMode[c])]
        /\ UNCHANGED <<serverThread, clients, object, kSocketMode>>
    BY DEF ReadBody
  <1>4. pending[c] # <<"accept">>
    BY <1>1
  <1> QED
    BY <1>1, <1>2, <1>3, <1>4, RelayKeeps

\* The body is read behind the header, or the thread runs no handler any more.
LEMMA ReadHeaderKeeps ==
    ASSUME IndInv, NEW c \in Clients, ReadHeader(c)
    PROVE  IndInv'
  <1>1. /\ serverThread = "run" /\ pending[c] = <<"header">> /\ pending[c] \in Queues
        /\ pending[c] # <<>> /\ object[c] = "live" /\ kSocketMode[c] \in SocketModes
    BY HandlerFinds DEF IndInv, ReadHeader, Operations
  <1>2. UNCHANGED <<clients, object, kSocketMode, strClientName, received, dumps>>
    BY DEF ReadHeader, dataVars
  <1>3. Tail(pending[c]) = <<>> /\ Append(Tail(pending[c]), "body") = <<"body">>
    BY <1>1, NextOperation
  <1>4. <<>> \in Queues /\ <<"body">> \in Queues /\ Work("live", kSocketMode[c], <<"body">>)
    BY DEF Work, Queues
  <1>5. <<>> \in Seq(Operations) /\ <<"body">> \in Seq(Operations)
    BY <1>4, OneOrNone
  <1>6. \/ serverThread' = "blocked" /\ pending' = [pending EXCEPT ![c] = <<>>]
        \/ serverThread' = serverThread /\ pending' = [pending EXCEPT ![c] = <<"body">>]
    BY <1>3 DEF ReadHeader
  <1>7. pending[c] # <<"accept">>
    BY <1>1
  <1>8. /\ pending' \in [Clients -> Seq(Operations)]
        /\ \A d \in Clients \ {c} : pending'[d] = pending[d]
        /\ serverThread' = "run" => Work(object[c], kSocketMode[c], pending'[c])
    BY <1>1, <1>4, <1>5, <1>6 DEF IndInv, Types
  <1>9. serverThread' = "run" => serverThread = "run"
    BY <1>6
  <1> QED
    BY <1>2, <1>7, <1>8, <1>9, QuietStep

\* Nothing is said of the Clients once the thread is lost.
LEMMA BodyOverrunsKeeps ==
    ASSUME IndInv, NEW c \in Clients, BodyOverruns(c)
    PROVE  IndInv'
  <1>1. /\ serverThread' = "undefined" /\ pending[c] = <<"body">>
        /\ pending \in [Clients -> Seq(Operations)]
    BY HandlerFinds DEF IndInv, Types, BodyOverruns, Operations
  <1>2. UNCHANGED <<clients, object, kSocketMode, pending, strClientName, received, dumps>>
    BY DEF BodyOverruns, dataVars, objVars
  <1>3. pending[c] # <<"accept">>
    BY <1>1
  <1> QED
    BY <1>1, <1>2, <1>3, QuietStep

\* A read of text starts the next one.
LEMMA ReadStringsKeeps ==
    ASSUME IndInv, NEW c \in Clients, ReadStrings(c)
    PROVE  IndInv'
  <1>1. /\ serverThread = "run" /\ pending[c] = <<"strings">> /\ pending[c] \in Queues
        /\ pending[c] # <<>> /\ object[c] = "live" /\ kSocketMode[c] \in SocketModes
    BY HandlerFinds DEF IndInv, ReadStrings, Operations
  <1>2. UNCHANGED <<serverThread, clients, object, kSocketMode, strClientName, received, dumps>>
    BY DEF ReadStrings
  <1>3. /\ pending' = [pending EXCEPT ![c] = Start(kSocketMode[c])]
        /\ Start(kSocketMode[c]) \in Seq(Operations)
        /\ Work("live", kSocketMode[c], Start(kSocketMode[c]))
    BY <1>1, NextOperation, OneOrNone DEF ReadStrings
  <1>4. /\ pending' \in [Clients -> Seq(Operations)]
        /\ \A d \in Clients \ {c} : pending'[d] = pending[d]
        /\ Work(object[c], kSocketMode[c], pending'[c])
    BY <1>1, <1>3 DEF IndInv, Types
  <1>5. pending[c] # <<"accept">>
    BY <1>1
  <1> QED
    BY <1>2, <1>4, <1>5, QuietStep

\* The Client is unlisted and deleted in the step that tells the viewers.
LEMMA ReadFailsKeeps ==
    ASSUME IndInv, NEW c \in Clients, ReadFails(c)
    PROVE  IndInv'
  <1> DEFINE e == Record("closed", c, received[c])
  <1>1. /\ serverThread = "run" /\ pending[c] \in Queues /\ pending[c] # <<>>
        /\ pending[c] # <<"accept">>
        /\ object[c] = "live" /\ c \in clients /\ kSocketMode[c] \in SocketModes
    <2>1. PICK op \in {"header", "body"} : Handles(c, op)
      BY DEF ReadFails
    <2>2. op \in Operations /\ op # "accept"
      BY DEF Operations
    <2>3. pending[c] = <<op>>
      BY <2>1, <2>2, HandlerFinds DEF IndInv
    <2> QED
      BY <2>1, <2>2, <2>3, HandlerFinds DEF IndInv
  <1>2. Tail(pending[c]) = <<>> /\ <<>> \in Queues /\ Work("deleted", kSocketMode[c], <<>>)
    BY <1>1, NextOperation DEF Work, Queues
  <1>3. /\ clients' = clients \ {c}
        /\ object' = [object EXCEPT ![c] = "deleted"]
        /\ pending' = [pending EXCEPT ![c] = <<>>]
        /\ dumps' = Append(dumps, e)
        /\ UNCHANGED <<serverThread, kSocketMode, strClientName, received>>
    BY <1>1, <1>2 DEF ReadFails, OnDisconnected, dataVars
  <1>4. /\ e \in Records /\ e.client = c /\ e.packet = received[c] /\ e.event = "closed"
        /\ e.name # <<>> => e.name = strClientName[c]
        /\ received[c] \in Nat /\ strClientName[c] \in Seq(Nat)
    BY RecordType DEF IndInv, Types, Events
  <1> HIDE DEF e
  <1>5. Types'
    BY <1>3, <1>4, AppendProperties DEF IndInv, Types
  <1>6. WorkInv'
    BY <1>2, <1>3 DEF IndInv, Types, WorkInv
  <1>7. ListInv'
    BY <1>1, <1>3 DEF IndInv, Types, ListInv
  <1>8. RelayInOrder'
    BY <1>1, <1>3, <1>4, RecordBehind DEF IndInv
  <1>9. ToldInv'
    <2>1. ASSUME NEW d \in Clients, NEW a \in Records,
                 Behind(a, object[d], received[d], strClientName[d])
          PROVE  Behind(a, object'[d], received'[d], strClientName'[d])
      BY <1>3, <2>1 DEF Behind, IndInv, Types
    <2>2. Behind(e, object'[c], received'[c], strClientName'[c])
      BY <1>3, <1>4, PrefixSelf DEF Behind, IndInv, Types
    <2> QED
      BY <1>3, <1>4, <2>1, <2>2, ToldKept DEF IndInv
  <1>10. Listening'
    <2>1. /\ \A d \in Clients : pending[d] = <<"accept">> => pending'[d] = <<"accept">>
          /\ \A d \in Clients : object'[d] = "none" => object[d] = "none"
      BY <1>1, <1>3 DEF IndInv, Types
    <2>2. ASSUME NEW d \in Clients, object[d] = "deleted", ~Announced(d)
          PROVE  object'[d] = "deleted" /\ ~Announced(d)'
      <3>1. d # e.client /\ object'[d] = "deleted"
        BY <1>1, <1>3, <1>4, <2>2 DEF IndInv, Types
      <3> QED
        BY <1>3, <1>4, <2>2, <3>1, NotAnnounced DEF IndInv
    <2> QED
      BY <1>3, <2>1, <2>2, StillListening DEF IndInv
  <1> QED
    BY <1>5, <1>6, <1>7, <1>8, <1>9, <1>10 DEF IndInv

\* The Clients that are left are deleted, and no handler runs any more.
LEMMA ServerThreadEndsKeeps ==
    ASSUME IndInv, ServerThreadEnds
    PROVE  IndInv'
  <1>1. /\ serverThread' = "ended" /\ clients' = {}
        /\ object' = [c \in Clients |-> IF c \in clients THEN "deleted" ELSE object[c]]
        /\ UNCHANGED <<kSocketMode, pending, strClientName, received, dumps>>
    BY DEF ServerThreadEnds, dataVars
  <1>2. Types'
    BY <1>1 DEF IndInv, Types
  <1>3. WorkInv' /\ Listening'
    BY <1>1 DEF WorkInv, Listening
  <1>4. ListInv'
    BY <1>1 DEF IndInv, ListInv
  <1>5. RelayInOrder'
    BY <1>1 DEF IndInv, RelayInOrder
  <1>6. ToldInv'
    <2>1. ASSUME NEW d \in Clients, NEW a \in Records,
                 Behind(a, object[d], received[d], strClientName[d])
          PROVE  Behind(a, object'[d], received'[d], strClientName'[d])
      BY <1>1, <2>1 DEF Behind
    <2> QED
      BY <1>1, <2>1, ToldKept DEF IndInv
  <1> QED
    BY <1>2, <1>3, <1>4, <1>5, <1>6 DEF IndInv

\* A step that changes nothing the invariant is about: the other end closes,
\* or nothing happens.
LEMMA StutterKeeps ==
    ASSUME IndInv,
           UNCHANGED <<serverThread, clients, object, kSocketMode, pending, strClientName,
                       received, dumps>>
    PROVE  IndInv'
  BY DEF IndInv, Types, WorkInv, ListInv, ToldInv, RelayInOrder, Listening, Announced

-----------------------------------------------------------------------------
\* At the start one Client waits for a connection.
LEMMA InitInv == Init => IndInv
  <1> SUFFICES ASSUME Init PROVE IndInv
    OBVIOUS
  <1>1. PICK c \in Clients :
          /\ object = [d \in Clients |-> IF d = c THEN "accepting" ELSE "none"]
          /\ pending = [d \in Clients |-> IF d = c THEN <<"accept">> ELSE <<>>]
    BY DEF Init
  <1>2. /\ <<>> \in Queues /\ <<"accept">> \in Queues
        /\ <<>> \in Seq(Operations) /\ <<"accept">> \in Seq(Operations)
    BY OneOrNone DEF Queues
  <1>3. dumps = <<>> /\ DOMAIN dumps = {}
    BY DEF Init
  <1>4. Types
    BY <1>1, <1>2, <1>3 DEF Init, Types
  <1>5. WorkInv
    BY <1>1, <1>2 DEF Init, WorkInv, Work
  <1>6. ListInv
    BY <1>1 DEF Init, ListInv
  <1>7. ToldInv /\ RelayInOrder
    BY <1>3 DEF ToldInv, RelayInOrder
  <1>8. Listening
    BY <1>1 DEF Listening
  <1> QED
    BY <1>4, <1>5, <1>6, <1>7, <1>8 DEF IndInv

\* Every step preserves the invariant.
LEMMA StepInv == IndInv /\ [LogNext]_logVars => IndInv'
  <1> SUFFICES ASSUME IndInv, [LogNext]_logVars PROVE IndInv'
    OBVIOUS
  <1>1. CASE ServerThreadEnds
    BY <1>1, ServerThreadEndsKeeps
  <1>2. ASSUME NEW c \in Clients, PeerCloses(c) \/ ClientHandler(c)
        PROVE  IndInv'
    <2>1. CASE PeerCloses(c)
      BY <2>1, StutterKeeps DEF PeerCloses, objVars, dataVars
    <2>2. CASE OnAccept(c)
      BY <2>2, OnAcceptKeeps
    <2>3. CASE OnAcceptError(c)
      BY <2>3, OnAcceptErrorKeeps
    <2>4. CASE ReadShortPacket(c)
      BY <2>4, ReadShortPacketKeeps
    <2>5. CASE ReadHeader(c)
      BY <2>5, ReadHeaderKeeps
    <2>6. CASE ReadBody(c)
      BY <2>6, ReadBodyKeeps
    <2>7. CASE ReadStrings(c)
      BY <2>7, ReadStringsKeeps
    <2>8. CASE ReadFails(c)
      BY <2>8, ReadFailsKeeps
    <2>9. CASE BodyOverruns(c)
      BY <2>9, BodyOverrunsKeeps
    <2> QED
      BY <1>2, <2>1, <2>2, <2>3, <2>4, <2>5, <2>6, <2>7, <2>8, <2>9 DEF ClientHandler
  <1>3. CASE UNCHANGED logVars
    BY <1>3, StutterKeeps DEF logVars, objVars, dataVars
  <1> QED
    BY <1>1, <1>2, <1>3 DEF LogNext

\* The invariant holds in every reachable state.
LEMMA InvAlways == LogSpec => []IndInv
  BY InitInv, StepInv, PTL DEF LogSpec

\* No two handlers of one Client are outstanding, none of a Client that is
\* gone, and a listed Client is always being read: whatever the programs that
\* are connected send, and whenever they go (socksvr.cpp, onReadHeader,
\* onReadBody, onDisconnected).
THEOREM OneOperationAlways == LogSpec => []OneOperation
  <1>1. IndInv => OneOperation
    <2> SUFFICES ASSUME IndInv PROVE OneOperation
      OBVIOUS
    <2>1. \A c \in Clients : c \in clients => object[c] = "live"
      BY DEF IndInv, ListInv
    <2>2. ASSUME serverThread = "run", NEW c \in Clients
          PROVE  /\ Len(pending[c]) <= 1
                 /\ pending[c] # <<>> => object[c] \in {"accepting", "live"}
                 /\ c \in clients /\ kSocketMode[c] # "garbage" => pending[c] # <<>>
      <3>1. Work(object[c], kSocketMode[c], pending[c])
        BY <2>2 DEF IndInv, WorkInv
      <3> QED
        BY <2>1, <3>1, OneOrNone DEF Work
    <2> QED
      BY <2>1, <2>2 DEF OneOperation
  <1> QED
    BY <1>1, InvAlways, PTL

\* The viewers are told of a Client's packets in the order of their arrival,
\* under a name that only grows, and of nothing after its end (socksvr.cpp,
\* onReadBody and onDisconnected).
THEOREM RelayedInOrder == LogSpec => []RelayInOrder
  <1>1. IndInv => RelayInOrder
    BY DEF IndInv
  <1> QED
    BY <1>1, InvAlways, PTL

\* Nobody listens any more only after an accept has failed (socksvr.cpp,
\* onAccept).
THEOREM AlwaysListening == LogSpec => []Listening
  <1>1. IndInv => Listening
    BY DEF IndInv
  <1> QED
    BY <1>1, InvAlways, PTL

-----------------------------------------------------------------------------
(* The types and packet memory, whatever the lengths of the packets.  The
   counter of a node stays a number because it is 1 when the node is given
   back: the lock, once left locked, lets no other packet be taken.  The bound
   on the packets is kept because no more packets were received than strings
   were handed on. *)

Reads(c) == object[c] = "live" /\ pending[c] = <<"body">>

\* The nodes, when the packet in b, of length len, is being read or was left
\* behind with the lock: the counters say which node holds it, none has handed
\* out more than it has, and in the last node it is what was handed out last.
Counted(bufs, b, len, lock, reads) ==
    /\ \A i \in DOMAIN bufs :
          /\ bufs[i].used <= bufs[i].total
          /\ bufs[i].cc = (IF i = b.at /\ (reads \/ lock = "held") THEN 1 ELSE 0)
    /\ reads => lock = "free" /\ b.at \in DOMAIN bufs
    /\ reads /\ b.at = Len(bufs) => b.off + HDR + len = bufs[b.at].used

CountInv ==
    \A c \in Clients :
        object[c] # "deleted" =>
            Counted(buffers[c], body[c], pckHeader[c].msgLeng, bufLock[c], Reads(c))

BoundInv ==
    \A c \in Clients :
        /\ received[c] <= Len(dumps)
        /\ Reads(c) => received[c] < MaxPackets

\* What TypeOK says of the variables IndInv says nothing of, or less.
DataTypes ==
    /\ serverThread \in {"run", "blocked", "ended", "undefined"}
    /\ peer \in [Clients -> {"up", "closed"}]
    /\ pckHeader \in [Clients -> [logType : LogTypes, msgLeng : Lengths \cup {0}]]
    /\ body \in [Clients -> Pointers]
    /\ buffers \in [Clients -> Seq(PacketBufSet)]
    /\ bufLock \in [Clients -> {"free", "held"}]
    /\ strClientName \in [Clients -> Seq(1..MaxPackets)]
    /\ recvBuffer \in [Clients -> 0..MaxPackets]
    /\ received \in [Clients -> 0..MaxPackets]
    /\ dumps \in Seq(RecordSet)

TypeInv == DataTypes /\ CountInv /\ BoundInv

\* The larger of two numbers.
LEMMA MaxOfTwo ==
    ASSUME NEW a \in Nat, NEW b \in Nat
    PROVE  Max({a, b}) \in Nat /\ Max({a, b}) >= a /\ Max({a, b}) >= b
  <1>1. \E x \in {a, b} : \A y \in {a, b} : x >= y
    OBVIOUS
  <1>2. Max({a, b}) \in {a, b} /\ \A y \in {a, b} : Max({a, b}) >= y
    BY <1>1 DEF Max
  <1> QED
    BY <1>2

\* The smallest element of a set of numbers is one of them.
LEMMA MinOfSet ==
    ASSUME NEW S \in SUBSET Nat, S # {}
    PROVE  Min(S) \in S
  <1>1. \E x \in S : \A y \in S : x <= y
    BY NatMin
  <1> QED
    BY <1>1 DEF Min

\* A node and its counters.
LEMMA NodeFields ==
    ASSUME NEW b \in PacketBufSet, NEW u \in Nat, NEW x \in Nat
    PROVE  /\ b.used \in Nat /\ b.total \in Nat /\ b.cc \in Nat
           /\ [b EXCEPT !.used = u, !.cc = x] = [used |-> u, total |-> b.total, cc |-> x]
           /\ [b EXCEPT !.cc = x] = [used |-> b.used, total |-> b.total, cc |-> x]
  <1> DEFINE g == [b EXCEPT !.used = u, !.cc = x]
  <1>1. g.used = u
    BY DEF PacketBufSet
  <1>2. g.total = b.total
    BY DEF PacketBufSet
  <1>3. g.cc = x
    BY DEF PacketBufSet
  <1>4. g \in PacketBufSet
    BY DEF PacketBufSet
  <1> HIDE DEF g
  <1>5. g = [used |-> u, total |-> b.total, cc |-> x]
    BY <1>1, <1>2, <1>3, <1>4 DEF PacketBufSet
  <1>6. [b EXCEPT !.cc = x] = [used |-> b.used, total |-> b.total, cc |-> x]
    BY DEF PacketBufSet
  <1>7. b.used \in Nat /\ b.total \in Nat /\ b.cc \in Nat
    BY DEF PacketBufSet
  <1> QED
    BY <1>5, <1>6, <1>7 DEF g

\* getPacketBuf changes the counters of one node, or links in a new one.
LEMMA TakeTypes ==
    ASSUME NEW n \in Nat, NEW bufs \in Seq(PacketBufSet),
           \A i \in DOMAIN bufs : bufs[i].cc = 0 /\ bufs[i].used <= bufs[i].total
    PROVE  /\ TakePacketBuf(bufs, n).bufs \in Seq(PacketBufSet)
           /\ TakePacketBuf(bufs, n).r \in Pointers
           /\ Counted(TakePacketBuf(bufs, n).bufs, TakePacketBuf(bufs, n).r, n, "free", TRUE)
           /\ Len(bufs) <= Len(TakePacketBuf(bufs, n).bufs)
  <1> SUFFICES ASSUME NEW g, g = TakePacketBuf(bufs, n).bufs, NEW r, r = TakePacketBuf(bufs, n).r
               PROVE  /\ g \in Seq(PacketBufSet) /\ r \in Pointers
                      /\ Counted(g, r, n, "free", TRUE) /\ Len(bufs) <= Len(g)
    OBVIOUS
  <1> DEFINE k == Len(bufs)
             fit == FirstFit(bufs, n)
             i == Min(fit)
             t == Max({n + HDR + NODE, PACKETBUFALLOCSIZE})
             fresh == [used |-> n + HDR, total |-> t - NODE, cc |-> 1]
             u == bufs[i].used + n + HDR
             taken == [used |-> u, total |-> bufs[i].total, cc |-> 1]
  <1>1. HDR \in Nat /\ NODE \in Nat /\ PACKETBUFALLOCSIZE \in Nat
    BY PacketBufAssumption
  <1>2. /\ k \in Nat /\ k = Len(bufs) /\ DOMAIN bufs = 1 .. k
        /\ \A j \in 1 .. k : /\ bufs[j] \in PacketBufSet
                             /\ bufs[j].cc = 0 /\ bufs[j].used <= bufs[j].total
    BY LenProperties
  <1> HIDE DEF k
  <1>3. CASE fit # {}
    <2>1. i \in 1 .. k /\ Fits(bufs[i], n)
      <3>1. fit \in SUBSET (1 .. k) /\ fit \in SUBSET Nat
        BY <1>2 DEF FirstFit
      <3>2. \A j \in fit : Fits(bufs[j], n)
        BY DEF FirstFit
      <3> HIDE DEF fit
      <3> QED
        BY <1>3, <3>1, <3>2, MinOfSet
    <2>2. /\ bufs[i].cc = 0 /\ bufs[i].used \in Nat /\ bufs[i].total \in Nat
          /\ u \in Nat /\ k \in 1 .. k /\ bufs[k].used \in Nat
          /\ u <= bufs[i].total
      BY <1>1, <1>2, <2>1 DEF PacketBufSet, Fits
    <2>3. g = [bufs EXCEPT ![i].used = @ + n + HDR, ![i].cc = @ + 1]
          /\ r = [at |-> i, off |-> bufs[k].used]
      BY <1>2, <1>3 DEF TakePacketBuf
    <2> HIDE DEF i
    <2>4. [bufs[i] EXCEPT !.used = @ + n + HDR, !.cc = @ + 1] = taken
      <3>1. bufs[i] \in PacketBufSet /\ bufs[i].cc + 1 = 1 /\ 1 \in Nat
        BY <1>2, <2>1, <2>2
      <3>2. [bufs[i] EXCEPT !.used = u, !.cc = 1] = taken
        <4> HIDE DEF u
        <4>1. [bufs[i] EXCEPT !.used = u, !.cc = 1] = [used |-> u, total |-> bufs[i].total, cc |-> 1]
          BY <2>2, <3>1, NodeFields
        <4> QED
          BY ONLY <4>1 DEF taken
      <3> QED
        BY <3>1, <3>2
    <2>5. g = [bufs EXCEPT ![i] = taken]
      <3>1. [bufs EXCEPT ![i].used = @ + n + HDR, ![i].cc = @ + 1]
               = [bufs EXCEPT ![i] = [bufs[i] EXCEPT !.used = @ + n + HDR, !.cc = @ + 1]]
        BY <1>2, <2>1
      <3> QED
        BY ONLY <2>3, <2>4, <3>1
    <2>6. /\ taken \in PacketBufSet /\ taken.cc = 1
          /\ taken.used = bufs[i].used + n + HDR /\ taken.used <= taken.total
      BY <2>2 DEF PacketBufSet
    <2> HIDE DEF taken, u
    <2>7. /\ g \in Seq(PacketBufSet) /\ DOMAIN g = 1 .. k /\ Len(g) = k
          /\ \A j \in 1 .. k : j # i => g[j] = bufs[j]
          /\ g[i] = taken
      BY <1>2, <2>1, <2>5, <2>6, ExceptSeq, LenProperties
    <2>8. r \in Pointers /\ r.at = i /\ r.off = bufs[k].used
      BY <2>1, <2>2, <2>3 DEF Pointers
    <2>9. r.at = Len(g) => r.off + HDR + n = g[r.at].used
      BY <1>1, <2>2, <2>6, <2>7, <2>8
    <2>10. Counted(g, r, n, "free", TRUE)
      BY <1>2, <2>1, <2>6, <2>7, <2>8, <2>9 DEF Counted
    <2>11. Len(bufs) <= Len(g)
      BY <1>2, <2>7
    <2> QED
      BY <2>7, <2>8, <2>10, <2>11
  <1>4. CASE fit = {}
    <2>1. t \in Nat /\ t >= n + HDR + NODE
      BY <1>1, MaxOfTwo
    <2>2. /\ fresh \in PacketBufSet /\ fresh.cc = 1
          /\ fresh.used = n + HDR /\ fresh.used <= fresh.total
      BY <1>1, <2>1 DEF PacketBufSet
    <2>3. g = Append(bufs, fresh) /\ r = [at |-> k + 1, off |-> 0]
      BY <1>2, <1>4 DEF TakePacketBuf
    <2> HIDE DEF fresh, fit
    <2>4. /\ g \in Seq(PacketBufSet) /\ DOMAIN g = 1 .. k + 1 /\ Len(g) = k + 1
          /\ \A j \in 1 .. k : g[j] = bufs[j]
          /\ g[k + 1] = fresh
      BY <1>2, <2>2, <2>3, AppendProperties, LenProperties
    <2>5. r \in Pointers /\ r.at = k + 1 /\ r.off = 0
      BY <1>2, <2>3 DEF Pointers
    <2>6. \A j \in 1 .. k + 1 : j # k + 1 => j \in 1 .. k
      BY <1>2
    <2>7. 0 + HDR + n = n + HDR
      BY <1>1
    <2>8. Counted(g, r, n, "free", TRUE)
      BY <1>2, <2>2, <2>4, <2>5, <2>6, <2>7 DEF Counted
    <2>9. Len(bufs) <= Len(g)
      BY <1>2, <2>4
    <2> QED
      BY <2>4, <2>5, <2>8, <2>9
  <1> QED
    BY <1>3, <1>4

\* backPacketBuf frees no node, since the counter of the node is 1.
LEMMA ReturnTypes ==
    ASSUME NEW bufs \in Seq(PacketBufSet), NEW b \in Pointers, NEW len,
           Counted(bufs, b, len, "free", TRUE)
    PROVE  /\ ReturnPacketBuf(bufs, b) \in Seq(PacketBufSet)
           /\ Len(ReturnPacketBuf(bufs, b)) = Len(bufs)
           /\ Counted(ReturnPacketBuf(bufs, b), b, len, "free", FALSE)
  <1> DEFINE k == Len(bufs)
             given == [used |-> bufs[b.at].used, total |-> bufs[b.at].total, cc |-> 0]
             less == [bufs EXCEPT ![b.at] = given]
  <1>1. /\ k \in Nat /\ DOMAIN bufs = 1 .. k
        /\ \A i \in 1 .. k : bufs[i] \in PacketBufSet
        /\ b.at \in 1 .. k
    BY LenProperties DEF Counted
  <1>2. /\ bufs[b.at].cc = 1 /\ \A i \in 1 .. k : i # b.at => bufs[i].cc = 0
        /\ \A i \in 1 .. k : bufs[i].used <= bufs[i].total
    BY <1>1 DEF Counted
  <1>3. ReturnPacketBuf(bufs, b) = less
    <2>1. [bufs[b.at] EXCEPT !.cc = 0] = given
      BY <1>1, NodeFields
    <2>2. bufs[b.at].cc - 1 = 0
      BY <1>2
    <2>3. [bufs EXCEPT ![b.at].cc = bufs[b.at].cc - 1] = less
      BY <1>1, <2>1, <2>2
    <2> QED
      BY <1>2, <2>3 DEF ReturnPacketBuf, FreesNode
  <1>4. given \in PacketBufSet /\ given.cc = 0 /\ given.used <= given.total
    BY <1>1, <1>2 DEF PacketBufSet
  <1> HIDE DEF given
  <1>5. /\ less \in Seq(PacketBufSet) /\ DOMAIN less = 1 .. k /\ Len(less) = k
        /\ \A i \in 1 .. k : i # b.at => less[i] = bufs[i]
        /\ less[b.at].cc = 0 /\ less[b.at].used <= less[b.at].total
    BY <1>1, <1>4, ExceptSeq, LenProperties
  <1> QED
    BY <1>1, <1>2, <1>3, <1>5 DEF Counted

\* The next read after a packet, a text or the accept is not that of a body.
LEMMA StartsNoBody ==
    ASSUME NEW p \in Queues, p # <<>>, NEW m \in SocketModes
    PROVE  Tail(p) \o Start(m) # <<"body">>
  <1>1. Tail(p) \o Start(m) = Start(m)
    BY NextOperation
  <1>2. Start(m) = <<"header">> \/ Start(m) = <<"strings">> \/ Start(m) = <<>>
    BY DEF Start
  <1>3. \A x \in Operations : <<x>> = <<"body">> => x = "body"
    OBVIOUS
  <1>4. <<"header">> # <<"body">> /\ <<"strings">> # <<"body">> /\ <<>> # <<"body">>
    BY <1>3 DEF Operations
  <1> QED
    BY <1>1, <1>2, <1>4

\* The other steps: a Client may begin to read, but no body, or be deleted.
LEMMA OtherReads ==
    ASSUME IndInv,
           \/ ServerThreadEnds \/ UNCHANGED logVars
           \/ \E c \in Clients : \/ PeerCloses(c) \/ OnAccept(c) \/ OnAcceptError(c)
                                 \/ ReadStrings(c) \/ ReadFails(c) \/ BodyOverruns(c)
    PROVE  /\ UNCHANGED <<pckHeader, body, buffers, bufLock>>
           /\ \A d \in Clients : object'[d] # "deleted"
                                => object[d] # "deleted" /\ (Reads(d)' <=> Reads(d))
  <1> USE DEF objVars, arenaVars
  <1>1. UNCHANGED <<pckHeader, body, buffers, bufLock>>
    BY DEF ServerThreadEnds, PeerCloses, OnAccept, OnAcceptError, ReadStrings, ReadFails,
           BodyOverruns, OnDisconnected, logVars
  <1>2. \A d \in Clients : object'[d] # "deleted"
                             => object[d] # "deleted" /\ (Reads(d)' <=> Reads(d))
    <2>1. CASE ServerThreadEnds
      BY <2>1 DEF ServerThreadEnds, Reads
    <2>2. CASE (\E c \in Clients : PeerCloses(c) \/ BodyOverruns(c)) \/ UNCHANGED logVars
      BY <2>2 DEF PeerCloses, BodyOverruns, logVars, Reads
    <2>3. ASSUME NEW c \in Clients, OnAccept(c)
          PROVE  \A d \in Clients : object'[d] # "deleted"
                                       => object[d] # "deleted" /\ (Reads(d)' <=> Reads(d))
      <3>1. /\ pending[c] \in Queues /\ pending[c] # <<>> /\ kSocketMode[c] \in SocketModes
            /\ object[c] = "accepting"
        BY <2>3, HandlerFinds DEF IndInv, OnAccept, Operations
      <3>2. pending'[c] # <<"body">>
        <4>1. pending'[c] = Tail(pending[c]) \o Start(kSocketMode[c])
          BY <2>3, <3>1 DEF OnAccept, IndInv, Types
        <4> QED
          BY <3>1, <4>1, StartsNoBody
      <3>3. \A d \in Clients \ {c} : \/ object'[d] = object[d] /\ pending'[d] = pending[d]
                                     \/ object[d] = "none" /\ object'[d] = "accepting"
        BY <2>3 DEF OnAccept, IndInv, Types
      <3> QED
        BY <3>1, <3>2, <3>3 DEF Reads
    <2>4. ASSUME NEW c \in Clients, OnAcceptError(c) \/ ReadFails(c)
          PROVE  \A d \in Clients : object'[d] # "deleted"
                                       => object[d] # "deleted" /\ (Reads(d)' <=> Reads(d))
      <3>1. c \in clients \/ OnAcceptError(c)
        BY <2>4, HandlerFinds DEF IndInv, ReadFails, Operations
      <3>2. object'[c] = "deleted"
        BY <2>4, <3>1 DEF OnAcceptError, ReadFails, OnDisconnected, IndInv, Types
      <3>3. \A d \in Clients \ {c} : object'[d] = object[d] /\ pending'[d] = pending[d]
        BY <2>4 DEF OnAcceptError, ReadFails, OnDisconnected, IndInv, Types
      <3> QED
        BY <3>2, <3>3 DEF Reads
    <2>5. ASSUME NEW c \in Clients, ReadStrings(c)
          PROVE  \A d \in Clients : object'[d] # "deleted"
                                       => object[d] # "deleted" /\ (Reads(d)' <=> Reads(d))
      <3>1. /\ pending[c] = <<"strings">> /\ pending[c] \in Queues /\ pending[c] # <<>>
            /\ kSocketMode[c] \in SocketModes
        BY <2>5, HandlerFinds DEF IndInv, ReadStrings, Operations
      <3>2. pending'[c] # <<"body">> /\ object' = object
        <4>1. pending'[c] = Tail(pending[c]) \o Start(kSocketMode[c]) /\ object' = object
          BY <2>5 DEF ReadStrings, IndInv, Types
        <4> QED
          BY <3>1, <4>1, StartsNoBody
      <3>3. pending[c] # <<"body">>
        <4>1. \A x \in Operations : <<x>> = <<"body">> => x = "body"
          OBVIOUS
        <4> QED
          BY <3>1, <4>1 DEF Operations
      <3>4. \A d \in Clients \ {c} : pending'[d] = pending[d]
        BY <2>5 DEF ReadStrings, IndInv, Types
      <3> QED
        BY <3>2, <3>3, <3>4 DEF Reads
    <2> QED
      BY <2>1, <2>2, <2>3, <2>4, <2>5
  <1> QED
    BY <1>1, <1>2

\* A record about a packet within the bound, under the name the Client has.
LEMMA RecordWithinBound ==
    ASSUME DataTypes, NEW c \in Clients, NEW e \in Events, NEW k \in 0..MaxPackets
    PROVE  Record(e, c, k) \in RecordSet
  <1> DEFINE name == IF e \in {"normal", "closed"} THEN strClientName[c] ELSE <<>>
  <1>1. name \in Seq(1..MaxPackets)
    <2>1. strClientName[c] \in Seq(1..MaxPackets) /\ <<>> \in Seq(1..MaxPackets)
      BY DEF DataTypes
    <2> QED
      BY <2>1
  <1>2. Record(e, c, k) = [event |-> e, client |-> c, packet |-> k, name |-> name]
    BY DEF Record
  <1> HIDE DEF name
  <1> QED
    BY <1>1, <1>2 DEF RecordSet

\* What onReadBody, which two handlers end with, does to the data.
LEMMA RelayTypes ==
    ASSUME DataTypes, BoundInv, NEW c \in Clients, NEW logType, NEW msgLeng,
           received[c] < MaxPackets, Relay(c, logType, msgLeng)
    PROVE  /\ strClientName' \in [Clients -> Seq(1..MaxPackets)]
           /\ recvBuffer' \in [Clients -> 0..MaxPackets]
           /\ received' \in [Clients -> 0..MaxPackets]
           /\ dumps' \in Seq(RecordSet)
           /\ \A d \in Clients : received'[d] <= Len(dumps')
           /\ \A d \in Clients \ {c} : received'[d] = received[d]
  <1> DEFINE k == received[c] + 1
  <1>1. /\ MaxPackets \in Nat /\ received[c] \in 0..MaxPackets
        /\ k \in 1..MaxPackets /\ k \in 0..MaxPackets
        /\ received' = [received EXCEPT ![c] = k] /\ received'[c] = k
    BY LogClientsAssumption DEF DataTypes, Relay
  <1>2. PICK e \in Events : dumps' = Append(dumps, Record(e, c, k))
    BY <1>1 DEF Relay, Events
  <1>3. strClientName' = [strClientName EXCEPT ![c] = strClientName'[c]]
        /\ strClientName'[c] \in {strClientName[c], Append(strClientName[c], k)}
    BY <1>1 DEF Relay, DataTypes
  <1> HIDE DEF k
  <1>4. strClientName' \in [Clients -> Seq(1..MaxPackets)]
    <2>1. strClientName \in [Clients -> Seq(1..MaxPackets)] /\ strClientName[c] \in Seq(1..MaxPackets)
      BY DEF DataTypes
    <2>2. Append(strClientName[c], k) \in Seq(1..MaxPackets)
      BY <1>1, <2>1, AppendProperties
    <2>3. strClientName'[c] \in Seq(1..MaxPackets)
      BY <1>3, <2>1, <2>2
    <2> QED
      BY ONLY <1>3, <2>1, <2>3
  <1>5. recvBuffer' \in [Clients -> 0..MaxPackets]
    BY DEF Relay, DataTypes
  <1>6. received' \in [Clients -> 0..MaxPackets] /\ \A d \in Clients \ {c} : received'[d] = received[d]
    BY <1>1 DEF DataTypes
  <1>7. Record(e, c, k) \in RecordSet /\ dumps \in Seq(RecordSet)
    BY <1>1, RecordWithinBound DEF DataTypes
  <1>8. dumps' \in Seq(RecordSet) /\ Len(dumps') = Len(dumps) + 1 /\ Len(dumps) \in Nat
    BY <1>2, <1>7, AppendProperties, LenProperties
  <1>9. \A d \in Clients : received'[d] <= Len(dumps')
    <2>1. \A d \in Clients : received[d] \in Nat /\ received[d] <= Len(dumps)
      BY <1>1 DEF BoundInv, DataTypes
    <2>2. received'[c] <= Len(dumps')
      BY <1>1, <1>8, <2>1 DEF k
    <2> QED
      BY <1>6, <1>8, <2>1, <2>2
  <1> QED
    BY <1>4, <1>5, <1>6, <1>8, <1>9

\* The packet, its memory and what is outstanding change for one Client.
LEMMA CountedOfOne ==
    ASSUME CountInv, NEW c \in Clients, object' = object,
           \A d \in Clients \ {c} :
              /\ pending'[d] = pending[d] /\ buffers'[d] = buffers[d]
              /\ body'[d] = body[d] /\ bufLock'[d] = bufLock[d]
              /\ pckHeader'[d] = pckHeader[d],
           Counted(buffers'[c], body'[c], pckHeader'[c].msgLeng, bufLock'[c], Reads(c)')
    PROVE  CountInv'
  <1> SUFFICES ASSUME NEW d \in Clients, object[d] # "deleted"
               PROVE  Counted(buffers'[d], body'[d], pckHeader'[d].msgLeng, bufLock'[d], Reads(d)')
    BY DEF CountInv
  <1>1. CASE d = c
    BY <1>1
  <1>2. CASE d # c
    <2>1. Counted(buffers[d], body[d], pckHeader[d].msgLeng, bufLock[d], Reads(d))
      BY DEF CountInv
    <2>2. Reads(d)' <=> Reads(d)
      BY <1>2 DEF Reads
    <2> QED
      BY <1>2, <2>1, <2>2 DEF Counted
  <1> QED
    BY <1>1, <1>2

\* The Client that is about to read a header reads no body: no node is in use
\* while the lock is free.
LEMMA HeaderReadsNoBody ==
    ASSUME NEW c \in Clients, pending[c] = <<"header">>
    PROVE  ~Reads(c)
  <1>1. \A x \in Operations : <<x>> = <<"body">> => x = "body"
    OBVIOUS
  <1> QED
    BY <1>1 DEF Reads, Operations

\* A packet without a body is relayed at once; the bound was tested.
LEMMA ReadShortPacketTypes ==
    ASSUME IndInv, TypeInv, NEW c \in Clients, ReadShortPacket(c)
    PROVE  TypeInv'
  <1>1. /\ pending[c] = <<"header">> /\ pending[c] \in Queues
        /\ pending[c] # <<>> /\ object[c] = "live" /\ kSocketMode[c] \in SocketModes
    BY HandlerFinds DEF IndInv, ReadShortPacket, Operations
  <1>2. PICK logType \in LogTypes :
           /\ pckHeader' = [pckHeader EXCEPT ![c] = [logType |-> logType, msgLeng |-> 0]]
           /\ Relay(c, logType, 0)
    BY DEF ReadShortPacket
  <1>3. /\ UNCHANGED <<serverThread, object, peer, body, buffers, bufLock>>
        /\ pending' = [pending EXCEPT ![c] = Tail(@) \o Start(kSocketMode[c])]
        /\ Len(dumps) < MaxPackets
    BY DEF ReadShortPacket, arenaVars
  <1>4. received[c] < MaxPackets
    <2>1. received[c] \in 0..MaxPackets /\ received[c] <= Len(dumps) /\ Len(dumps) \in Nat
          /\ MaxPackets \in Nat
      BY LogClientsAssumption, LenProperties DEF TypeInv, DataTypes, BoundInv
    <2> QED
      BY <1>3, <2>1
  <1>5. /\ strClientName' \in [Clients -> Seq(1..MaxPackets)]
        /\ recvBuffer' \in [Clients -> 0..MaxPackets]
        /\ received' \in [Clients -> 0..MaxPackets]
        /\ dumps' \in Seq(RecordSet)
        /\ \A d \in Clients : received'[d] <= Len(dumps')
        /\ \A d \in Clients \ {c} : received'[d] = received[d]
    BY <1>2, <1>4, RelayTypes DEF TypeInv
  <1>6. ~Reads(c) /\ ~Reads(c)'
    BY <1>1, <1>3, HeaderReadsNoBody, StartsNoBody DEF IndInv, Types, Reads
  <1>7. \A d \in Clients \ {c} : pending'[d] = pending[d]
    BY <1>3 DEF IndInv, Types
  <1>8. DataTypes'
    <2>1. pckHeader' \in [Clients -> [logType : LogTypes, msgLeng : Lengths \cup {0}]]
      BY <1>2 DEF TypeInv, DataTypes
    <2> QED
      BY <1>3, <1>5, <2>1 DEF TypeInv, DataTypes
  <1>9. CountInv'
    <2>1. Counted(buffers[c], body[c], pckHeader[c].msgLeng, bufLock[c], Reads(c))
      BY <1>1 DEF TypeInv, CountInv
    <2>2. Counted(buffers'[c], body'[c], pckHeader'[c].msgLeng, bufLock'[c], Reads(c)')
      BY <1>3, <1>6, <2>1 DEF Counted
    <2>3. \A d \in Clients \ {c} : pckHeader'[d] = pckHeader[d]
      BY <1>2 DEF TypeInv, DataTypes
    <2> QED
      BY <1>3, <1>7, <2>2, <2>3, CountedOfOne DEF TypeInv
  <1>10. BoundInv'
    <2>1. \A d \in Clients \ {c} : Reads(d)' <=> Reads(d)
      BY <1>3, <1>7 DEF Reads
    <2> QED
      BY <1>5, <1>6, <2>1 DEF TypeInv, BoundInv
  <1> QED
    BY <1>8, <1>9, <1>10 DEF TypeInv

\* Memory is taken with the lock free, when no node is in use; otherwise the
\* thread is blocked.
LEMMA ReadHeaderTypes ==
    ASSUME IndInv, TypeInv, NEW c \in Clients, ReadHeader(c)
    PROVE  TypeInv' /\ \A d \in Clients : Len(buffers[d]) <= Len(buffers'[d])
  <1>1. /\ pending[c] = <<"header">> /\ pending[c] \in Queues
        /\ pending[c] # <<>> /\ object[c] = "live" /\ kSocketMode[c] \in SocketModes
    BY HandlerFinds DEF IndInv, ReadHeader, Operations
  <1>2. /\ UNCHANGED <<object, peer, strClientName, recvBuffer, received, dumps>>
        /\ Len(dumps) < MaxPackets
    BY DEF ReadHeader, dataVars
  <1>3. received[c] < MaxPackets
    <2>1. received[c] \in 0..MaxPackets /\ received[c] <= Len(dumps) /\ Len(dumps) \in Nat
          /\ MaxPackets \in Nat
      BY LogClientsAssumption, LenProperties DEF TypeInv, DataTypes, BoundInv
    <2> QED
      BY <1>2, <2>1
  <1>4. PICK h \in Headers :
          /\ h.msgLeng > 0
          /\ pckHeader' = [pckHeader EXCEPT ![c] = h]
          /\ IF bufLock[c] = "held"
             THEN /\ serverThread' = "blocked"
                  /\ pending' = [pending EXCEPT ![c] = Tail(@)]
                  /\ UNCHANGED arenaVars
             ELSE LET got == TakePacketBuf(buffers[c], h.msgLeng) IN
                  /\ buffers' = [buffers EXCEPT ![c] = got.bufs]
                  /\ body' = [body EXCEPT ![c] = got.r]
                  /\ pending' = [pending EXCEPT ![c] = Append(Tail(@), "body")]
                  /\ UNCHANGED <<serverThread, bufLock>>
    BY DEF ReadHeader
  <1>5. /\ pckHeader' \in [Clients -> [logType : LogTypes, msgLeng : Lengths \cup {0}]]
        /\ h.msgLeng \in Nat
        /\ pckHeader'[c] = h /\ \A d \in Clients \ {c} : pckHeader'[d] = pckHeader[d]
    BY <1>4, LogClientsAssumption DEF TypeInv, DataTypes, Headers
  <1>6. /\ Tail(pending[c]) = <<>>
        /\ Append(Tail(pending[c]), "body") = <<"body">>
    BY <1>1, NextOperation
  <1>7. \A d \in Clients \ {c} : pending'[d] = pending[d]
    BY <1>4 DEF IndInv, Types
  <1>8. ~Reads(c) /\ Counted(buffers[c], body[c], pckHeader[c].msgLeng, bufLock[c], Reads(c))
    BY <1>1, HeaderReadsNoBody DEF TypeInv, CountInv
  <1>9. BoundInv'
    <2>1. \A d \in Clients \ {c} : Reads(d)' <=> Reads(d)
      BY <1>2, <1>7 DEF Reads
    <2> QED
      BY <1>2, <1>3, <2>1 DEF TypeInv, BoundInv
  <1>10. \A d \in Clients : Len(buffers[d]) \in Nat
    BY LenProperties DEF TypeInv, DataTypes
  <1>11. CASE bufLock[c] = "held"
    <2>1. serverThread' = "blocked" /\ UNCHANGED <<body, buffers, bufLock>> /\ pending'[c] = <<>>
      BY <1>4, <1>6, <1>11 DEF arenaVars, IndInv, Types
    <2>2. ~Reads(c)'
      BY <2>1 DEF Reads
    <2>3. DataTypes'
      BY <1>2, <1>5, <2>1 DEF TypeInv, DataTypes
    <2>4. Counted(buffers'[c], body'[c], pckHeader'[c].msgLeng, bufLock'[c], Reads(c)')
      BY <1>8, <2>1, <2>2 DEF Counted
    <2>5. CountInv'
      BY <1>2, <1>5, <1>7, <2>1, <2>4, CountedOfOne DEF TypeInv
    <2> QED
      BY <1>9, <1>10, <2>1, <2>3, <2>5 DEF TypeInv
  <1>12. CASE bufLock[c] # "held"
    <2> DEFINE g == TakePacketBuf(buffers[c], h.msgLeng).bufs
               r == TakePacketBuf(buffers[c], h.msgLeng).r
    <2>1. /\ bufLock[c] = "free" /\ buffers[c] \in Seq(PacketBufSet)
          /\ \A i \in DOMAIN buffers[c] :
                buffers[c][i].cc = 0 /\ buffers[c][i].used <= buffers[c][i].total
      BY <1>8, <1>12 DEF TypeInv, DataTypes, Counted
    <2>2. /\ g \in Seq(PacketBufSet) /\ r \in Pointers
          /\ Counted(g, r, h.msgLeng, "free", TRUE) /\ Len(buffers[c]) <= Len(g)
      BY <1>5, <2>1, TakeTypes
    <2>3. /\ buffers' = [buffers EXCEPT ![c] = g] /\ body' = [body EXCEPT ![c] = r]
          /\ pending' = [pending EXCEPT ![c] = <<"body">>]
          /\ UNCHANGED <<serverThread, bufLock>>
      BY <1>4, <1>6, <1>12
    <2> HIDE DEF g, r
    <2>4. DataTypes'
      BY <1>2, <1>5, <2>2, <2>3 DEF TypeInv, DataTypes
    <2>5. Reads(c)'
      BY <1>1, <1>2, <2>3 DEF Reads, IndInv, Types
    <2>6. buffers'[c] = g /\ body'[c] = r /\ bufLock'[c] = "free"
      BY <2>1, <2>3 DEF TypeInv, DataTypes
    <2>7. Counted(buffers'[c], body'[c], pckHeader'[c].msgLeng, bufLock'[c], Reads(c)')
      BY <1>5, <2>2, <2>5, <2>6 DEF Counted
    <2>8. \A d \in Clients \ {c} : buffers'[d] = buffers[d] /\ body'[d] = body[d]
                                     /\ bufLock'[d] = bufLock[d]
      BY <2>3 DEF TypeInv, DataTypes
    <2>9. CountInv'
      BY <1>2, <1>5, <1>7, <2>7, <2>8, CountedOfOne DEF TypeInv
    <2>10. \A d \in Clients : Len(buffers[d]) <= Len(buffers'[d])
      BY <1>10, <2>2, <2>6, <2>8
    <2> QED
      BY <1>9, <2>4, <2>9, <2>10 DEF TypeInv
  <1> QED
    BY <1>11, <1>12

\* The memory is given back, or the lock stays locked; the packet was counted
\* when its header was read.
LEMMA ReadBodyTypes ==
    ASSUME IndInv, TypeInv, NEW c \in Clients, ReadBody(c)
    PROVE  TypeInv' /\ \A d \in Clients : Len(buffers[d]) <= Len(buffers'[d])
  <1>1. /\ pending[c] = <<"body">> /\ pending[c] \in Queues
        /\ pending[c] # <<>> /\ object[c] = "live" /\ kSocketMode[c] \in SocketModes
    BY HandlerFinds DEF IndInv, ReadBody, Operations
  <1>2. /\ Relay(c, pckHeader[c].logType, pckHeader[c].msgLeng)
        /\ UNCHANGED <<serverThread, object, peer, pckHeader, body>>
        /\ pending' = [pending EXCEPT ![c] = Tail(@) \o Start(kSocketMode[c])]
    BY DEF ReadBody
  <1>3. Reads(c) /\ received[c] < MaxPackets
    BY <1>1 DEF Reads, TypeInv, BoundInv
  <1>4. /\ strClientName' \in [Clients -> Seq(1..MaxPackets)]
        /\ recvBuffer' \in [Clients -> 0..MaxPackets]
        /\ received' \in [Clients -> 0..MaxPackets]
        /\ dumps' \in Seq(RecordSet)
        /\ \A d \in Clients : received'[d] <= Len(dumps')
        /\ \A d \in Clients \ {c} : received'[d] = received[d]
    BY <1>2, <1>3, RelayTypes DEF TypeInv
  <1>5. ~Reads(c)'
    BY <1>1, <1>2, StartsNoBody DEF IndInv, Types, Reads
  <1>6. \A d \in Clients \ {c} : pending'[d] = pending[d]
    BY <1>2 DEF IndInv, Types
  <1>7. /\ Counted(buffers[c], body[c], pckHeader[c].msgLeng, "free", TRUE)
        /\ bufLock[c] = "free"
        /\ buffers[c] \in Seq(PacketBufSet) /\ body[c] \in Pointers
    <2>1. Counted(buffers[c], body[c], pckHeader[c].msgLeng, bufLock[c], Reads(c))
      BY <1>1 DEF TypeInv, CountInv
    <2> QED
      BY <1>3, <2>1 DEF Counted, TypeInv, DataTypes
  <1> DEFINE g == ReturnPacketBuf(buffers[c], body[c])
  <1>8. /\ g \in Seq(PacketBufSet) /\ Len(g) = Len(buffers[c])
        /\ Counted(g, body[c], pckHeader[c].msgLeng, "free", FALSE)
    BY <1>7, ReturnTypes
  <1>9. \/ /\ buffers' = [buffers EXCEPT ![c] = g]
           /\ bufLock' = bufLock
        \/ /\ bufLock' = [bufLock EXCEPT ![c] = "held"]
           /\ buffers' = buffers
    BY DEF ReadBody
  <1> HIDE DEF g
  <1>10. /\ buffers' \in [Clients -> Seq(PacketBufSet)] /\ bufLock' \in [Clients -> {"free", "held"}]
         /\ Counted(buffers'[c], body'[c], pckHeader'[c].msgLeng, bufLock'[c], Reads(c)')
         /\ \A d \in Clients \ {c} : buffers'[d] = buffers[d] /\ bufLock'[d] = bufLock[d]
         /\ Len(buffers'[c]) = Len(buffers[c])
    <2>1. buffers \in [Clients -> Seq(PacketBufSet)] /\ bufLock \in [Clients -> {"free", "held"}]
      BY DEF TypeInv, DataTypes
    <2>2. CASE buffers' = [buffers EXCEPT ![c] = g] /\ bufLock' = bufLock
      <3>1. buffers'[c] = g /\ bufLock'[c] = "free"
        BY <1>7, <2>1, <2>2
      <3>2. buffers' \in [Clients -> Seq(PacketBufSet)]
        BY <1>8, <2>1, <2>2
      <3> QED
        BY <1>2, <1>5, <1>8, <2>1, <2>2, <3>1, <3>2 DEF Counted
    <2>3. CASE bufLock' = [bufLock EXCEPT ![c] = "held"] /\ buffers' = buffers
      <3>1. bufLock'[c] = "held" /\ buffers'[c] = buffers[c]
        BY <2>1, <2>3
      <3> QED
        BY <1>2, <1>5, <1>7, <2>1, <2>3, <3>1 DEF Counted
    <2> QED
      BY <1>9, <2>2, <2>3
  <1>11. DataTypes'
    BY <1>2, <1>4, <1>10 DEF TypeInv, DataTypes
  <1>12. CountInv'
    BY <1>2, <1>6, <1>10, CountedOfOne DEF TypeInv
  <1>13. BoundInv'
    <2>1. \A d \in Clients \ {c} : Reads(d)' <=> Reads(d)
      BY <1>2, <1>6 DEF Reads
    <2> QED
      BY <1>4, <1>5, <2>1 DEF TypeInv, BoundInv
  <1>14. \A d \in Clients : Len(buffers[d]) <= Len(buffers'[d])
    <2>1. \A d \in Clients : Len(buffers[d]) \in Nat
      BY LenProperties DEF TypeInv, DataTypes
    <2> QED
      BY <1>10, <2>1
  <1> QED
    BY <1>11, <1>12, <1>13, <1>14 DEF TypeInv

\* The other steps take and give back nothing; one may hand on that a Client
\* has disconnected.
LEMMA OtherTypes ==
    ASSUME IndInv, TypeInv,
           \/ ServerThreadEnds \/ UNCHANGED logVars
           \/ \E c \in Clients : \/ PeerCloses(c) \/ OnAccept(c) \/ OnAcceptError(c)
                                 \/ ReadStrings(c) \/ ReadFails(c) \/ BodyOverruns(c)
    PROVE  TypeInv' /\ buffers' = buffers
  <1>1. /\ UNCHANGED <<pckHeader, body, buffers, bufLock>>
        /\ \A d \in Clients : object'[d] # "deleted"
                             => object[d] # "deleted" /\ (Reads(d)' <=> Reads(d))
    BY OtherReads
  <1>2. /\ serverThread' \in {serverThread, "ended", "undefined"}
        /\ UNCHANGED <<strClientName, received>>
    BY DEF ServerThreadEnds, PeerCloses, OnAccept, OnAcceptError, ReadStrings, ReadFails,
           BodyOverruns, OnDisconnected, logVars, dataVars, objVars
  <1>3. peer' \in [Clients -> {"up", "closed"}]
    <2>1. peer' = peer \/ \E c \in Clients : peer' = [peer EXCEPT ![c] = "closed"]
      BY DEF ServerThreadEnds, PeerCloses, OnAccept, OnAcceptError, ReadStrings, ReadFails,
             BodyOverruns, OnDisconnected, logVars
    <2> QED
      BY <2>1 DEF TypeInv, DataTypes
  <1>4. recvBuffer' \in [Clients -> 0..MaxPackets]
    <2>1. \/ recvBuffer' = recvBuffer
          \/ \E c \in Clients : /\ recvBuffer[c] < MaxPackets
                                /\ recvBuffer' = [recvBuffer EXCEPT ![c] = @ + 1]
      BY DEF ServerThreadEnds, PeerCloses, OnAccept, OnAcceptError, ReadStrings, ReadFails,
             BodyOverruns, OnDisconnected, logVars, dataVars
    <2>2. recvBuffer \in [Clients -> 0..MaxPackets] /\ MaxPackets \in Nat
      BY LogClientsAssumption DEF TypeInv, DataTypes
    <2> QED
      BY <2>1, <2>2
  <1>5. dumps' = dumps \/ \E c \in Clients : dumps' = Append(dumps, Record("closed", c, received[c]))
    BY DEF ServerThreadEnds, PeerCloses, OnAccept, OnAcceptError, ReadStrings, ReadFails,
           BodyOverruns, OnDisconnected, logVars
  <1>6. dumps' \in Seq(RecordSet) /\ Len(dumps) <= Len(dumps') /\ Len(dumps) \in Nat /\ Len(dumps') \in Nat
    <2>1. dumps \in Seq(RecordSet) /\ Len(dumps) \in Nat
      BY LenProperties DEF TypeInv, DataTypes
    <2>2. ASSUME NEW c \in Clients PROVE Record("closed", c, received[c]) \in RecordSet
      <3>1. received[c] \in 0..MaxPackets
        BY DEF TypeInv, DataTypes
      <3> QED
        BY <3>1, RecordWithinBound DEF TypeInv, Events
    <2> QED
      BY <1>5, <2>1, <2>2, AppendProperties
  <1>7. DataTypes'
    BY <1>1, <1>2, <1>3, <1>4, <1>6 DEF TypeInv, DataTypes
  <1>8. CountInv'
    BY <1>1 DEF TypeInv, CountInv, Counted
  <1>9. BoundInv'
    <2>1. ASSUME NEW d \in Clients PROVE received'[d] <= Len(dumps')
      <3>1. received[d] \in 0..MaxPackets /\ received[d] <= Len(dumps) /\ MaxPackets \in Nat
        BY LogClientsAssumption DEF TypeInv, DataTypes, BoundInv
      <3> QED
        BY <1>2, <1>6, <3>1
    <2>2. ASSUME NEW d \in Clients, Reads(d)' PROVE received'[d] < MaxPackets
      <3>1. Reads(d)
        BY <1>1, <2>2 DEF Reads
      <3> QED
        BY <1>2, <3>1 DEF TypeInv, BoundInv
    <2> QED
      BY <2>1, <2>2 DEF BoundInv
  <1> QED
    BY <1>1, <1>7, <1>8, <1>9 DEF TypeInv

\* At the start nothing was received.
LEMMA InitTypes == Init => TypeInv
  <1> SUFFICES ASSUME Init PROVE TypeInv
    OBVIOUS
  <1>1. MaxPackets \in Nat /\ 0 \in 0..MaxPackets
    BY LogClientsAssumption
  <1>2. DataTypes
    <2>1. <<>> \in Seq(1..MaxPackets) /\ <<>> \in Seq(PacketBufSet) /\ <<>> \in Seq(RecordSet)
      OBVIOUS
    <2> QED
      BY <1>1, <2>1 DEF Init, DataTypes, LogTypes, Pointers
  <1>3. ASSUME NEW c \in Clients
        PROVE  /\ buffers[c] = <<>> /\ DOMAIN buffers[c] = {} /\ ~Reads(c)
               /\ received[c] = 0 /\ Len(dumps) = 0
    <2>1. buffers[c] = <<>> /\ object[c] # "live" /\ received[c] = 0 /\ dumps = <<>>
      BY DEF Init
    <2> QED
      BY <2>1 DEF Reads
  <1> QED
    BY <1>2, <1>3 DEF TypeInv, CountInv, Counted, BoundInv

\* Every step preserves the types, and gives no node back.
LEMMA StepTypes ==
    IndInv /\ TypeInv /\ [LogNext]_logVars
        => TypeInv' /\ \A d \in Clients : Len(buffers[d]) <= Len(buffers'[d])
  <1> SUFFICES ASSUME IndInv, TypeInv, [LogNext]_logVars
               PROVE  TypeInv' /\ \A d \in Clients : Len(buffers[d]) <= Len(buffers'[d])
    OBVIOUS
  <1>1. \A d \in Clients : Len(buffers[d]) \in Nat
    BY LenProperties DEF TypeInv, DataTypes
  <1>2. CASE \/ ServerThreadEnds \/ UNCHANGED logVars
             \/ \E c \in Clients : \/ PeerCloses(c) \/ OnAccept(c) \/ OnAcceptError(c)
                                   \/ ReadStrings(c) \/ ReadFails(c) \/ BodyOverruns(c)
    BY <1>1, <1>2, OtherTypes
  <1>3. ASSUME NEW c \in Clients, ReadShortPacket(c)
        PROVE  TypeInv' /\ buffers' = buffers
    BY <1>3, ReadShortPacketTypes DEF ReadShortPacket, arenaVars
  <1>4. ASSUME NEW c \in Clients, ReadHeader(c) \/ ReadBody(c)
        PROVE  TypeInv' /\ \A d \in Clients : Len(buffers[d]) <= Len(buffers'[d])
    BY <1>4, ReadHeaderTypes, ReadBodyTypes
  <1> QED
    BY <1>1, <1>2, <1>3, <1>4 DEF LogNext, ClientHandler

\* Every variable of the log side keeps its type, whatever the programs that
\* connect send: above all the counters of the packet memory, which backPacketBuf
\* decrements, and the numbers of packets, within the bound of the model
\* (socksvr.cpp and socksvr.h).
THEOREM LogTypesOK == LogSpec => []TypeOK
  <1>1. IndInv /\ TypeInv => TypeOK
    BY DEF IndInv, Types, TypeInv, DataTypes, TypeOK
  <1> QED
    BY <1>1, InitTypes, StepTypes, InvAlways, PTL DEF LogSpec

\* Whatever the lengths of the packets: the counters of a connected Client's
\* nodes say which node the packet is in that is being read, or that was left
\* out with the lock; no node hands out more than it has; and a body placed in
\* the last node lies within it (socksvr.cpp, getPacketBuf and backPacketBuf).
THEOREM PacketMemoryIsSound == LogSpec => []PacketMemorySound
  <1>1. TypeInv => PacketMemorySound
    BY DEF TypeInv, CountInv, Counted, Reads, PacketMemorySound
  <1> QED
    BY <1>1, InitTypes, StepTypes, InvAlways, PTL DEF LogSpec

\* Whatever the lengths of the packets: no node of a connected Client is ever
\* freed (socksvr.cpp, backPacketBuf).
THEOREM PacketMemoryGrows == LogSpec => PacketMemoryOnlyGrows
  <1>1. IndInv /\ TypeInv /\ [LogNext]_logVars
          => [\A c \in Clients : object'[c] = "live" => Len(buffers[c]) <= Len(buffers'[c])]_logVars
    BY StepTypes
  <1> QED
    BY <1>1, InitTypes, StepTypes, InvAlways, PTL DEF LogSpec, PacketMemoryOnlyGrows
=============================================================================
