--------------------------- MODULE WsServerProofs ---------------------------
(***************************************************************************)
(* Proofs about WsServer, for every set of connections and every bound.    *)
(*                                                                         *)
(* First the invariants of single connections.  IndInv is inductive: it    *)
(* says of each connection on its own how its flags, its listing, its      *)
(* outstanding read and write and the contents of its strand fit together. *)
(* The invariants of WsServer follow from it.                              *)
(*                                                                         *)
(* Then FramesWhole.  What a connection has sent and what it has still to  *)
(* send make one stream (Stream), to which write_impl appends whole frames *)
(* and in which the completions of writes move the border only.  The       *)
(* handshake response comes first because the strand is a queue: it is     *)
(* posted by the step that ends the headers, and a connection that is      *)
(* refused has close_impl queued before anything that could be written.    *)
(*                                                                         *)
(* Last, that WsServer implements Broadcast.  The records of a connection  *)
(* go from the loop of onDumpData to its strand, to its outbox and to the  *)
(* wire in the order in which they were dumped, and none is left behind.   *)
(* Broadcast sees one sequence of records owed (Owed): most steps leave it *)
(* as it is, onDumpData adds one, and the completion of the write of a     *)
(* payload takes the first.                                                *)
(***************************************************************************)
EXTENDS WsServer, SequenceTheorems, Induction

-----------------------------------------------------------------------------
(* The inductive invariant. *)

\* A listed session is the session of an active connection past its headers;
\* the loop of onDumpData has only listed sessions ahead of it.
ListInv(c) ==
    /\ c \in sessions <=> m_session[c]
    /\ m_session[c] => m_active[c] /\ ~m_parsing_headers[c]
    /\ c \in visiting => c \in sessions /\ dumping

\* The chain of reads.
ReadInv(c) ==
    /\ Once(strand_[c], ReadResults)
    /\ reading[c] \/ c \in dropping => ~Has(strand_[c], ReadResults)
    /\ ~(reading[c] /\ c \in dropping)
    /\ c \in sessions => reading[c] \/ Has(strand_[c], ReadResults) \/ c \in dropping

\* The chain of writes.
WriteInv(c) ==
    /\ Once(strand_[c], WriteResults)
    /\ writing[c] = 1 => ~Has(strand_[c], WriteResults)
    /\ writing[c] = 1 \/ Has(strand_[c], WriteResults) => m_outbox[c] # <<>>
    /\ m_active[c] /\ m_outbox[c] # <<>> => writing[c] = 1 \/ Has(strand_[c], WriteResults)

\* Nothing is written before the handshake, and the handshake is accepted only
\* on an active connection.
HandshakeInv(c) ==
    /\ m_parsing_headers[c] =>
         /\ c \notin dropping
         /\ writing[c] = 0
         /\ m_outbox[c] = <<>>
         /\ ~Has(strand_[c], PostedWrites)
         /\ ~Has(strand_[c], WriteResults)
    /\ Has(strand_[c], {"accept"}) => m_parsing_headers[c] /\ m_active[c]
    /\ Has(strand_[c], Frames) => ~m_parsing_headers[c]

\* close_impl is posted only for a connection that is not active any more; a
\* write fails only on a network or a socket that is gone.
CloseInv(c) ==
    /\ Has(strand_[c], {"close"}) => ~m_active[c]
    /\ Has(strand_[c], {"failed"}) => peer[c] = "gone" \/ socket_[c] = "closed"

\* A connection that was not accepted yet has nothing under way.
FreshInv(c) ==
    socket_[c] = "none" =>
        /\ strand_[c] = <<>>
        /\ ~reading[c]
        /\ writing[c] = 0
        /\ c \notin sessions
        /\ c \notin dropping

ConnInv(c) ==
    /\ ListInv(c)
    /\ ReadInv(c)
    /\ WriteInv(c)
    /\ HandshakeInv(c)
    /\ CloseInv(c)
    /\ FreshInv(c)

IndInv == TypeOK /\ \A c \in Conns : ConnInv(c)

-----------------------------------------------------------------------------
(* Queues. *)

\* The empty queue has no task.
LEMMA EmptyQueue ==
    \A ops : ~Has(<<>>, ops) /\ Once(<<>>, ops)
BY DEF Has, Once

\* What appending a task to a queue changes of Has and Once.
LEMMA AppendQueue ==
    ASSUME NEW q \in Seq(TaskSet), NEW t \in TaskSet
    PROVE  /\ Append(q, t) \in Seq(TaskSet)
           /\ \A ops : Has(Append(q, t), ops) <=> Has(q, ops) \/ t.op \in ops
           /\ \A ops : Once(q, ops) /\ (t.op \in ops => ~Has(q, ops)) => Once(Append(q, t), ops)
<1> DEFINE r == Append(q, t)
<1>1. /\ r \in Seq(TaskSet)
      /\ Len(r) = Len(q) + 1
      /\ Len(q) \in Nat
      /\ \A i \in 1..Len(q) : r[i] = q[i]
      /\ r[Len(q) + 1] = t
  OBVIOUS
<1>2. \A i \in 1..Len(r) : i \in 1..Len(q) \/ i = Len(q) + 1
  OBVIOUS
<1>3. ASSUME NEW ops PROVE Has(r, ops) <=> Has(q, ops) \/ t.op \in ops
  <2>1. ASSUME Has(r, ops) PROVE Has(q, ops) \/ t.op \in ops
    BY <2>1 DEF Has
  <2>2. ASSUME Has(q, ops) PROVE Has(r, ops)
    BY <2>2 DEF Has
  <2>3. ASSUME t.op \in ops PROVE Has(r, ops)
    BY <2>3 DEF Has
  <2> QED BY <2>1, <2>2, <2>3
<1>4. ASSUME NEW ops, Once(q, ops), t.op \in ops => ~Has(q, ops) PROVE Once(r, ops)
  <2> SUFFICES ASSUME NEW i \in 1..Len(r), NEW j \in 1..Len(r),
                      r[i].op \in ops, r[j].op \in ops
               PROVE  i = j
    BY DEF Once
  <2>1. CASE i \in 1..Len(q) /\ j \in 1..Len(q)
    BY <1>4, <2>1 DEF Once
  <2>2. CASE i = Len(q) + 1 /\ j \in 1..Len(q)
    BY <1>4, <2>2 DEF Has
  <2>3. CASE j = Len(q) + 1 /\ i \in 1..Len(q)
    BY <1>4, <2>3 DEF Has
  <2> QED BY <2>1, <2>2, <2>3
<1> QED BY <1>1, <1>3, <1>4

\* What running the first task of a queue changes of Has and Once.
LEMMA TailQueue ==
    ASSUME NEW q \in Seq(TaskSet), q # <<>>
    PROVE  /\ Tail(q) \in Seq(TaskSet)
           /\ Head(q) \in TaskSet
           /\ \A ops : Has(q, ops) <=> Head(q).op \in ops \/ Has(Tail(q), ops)
           /\ \A ops : Once(q, ops) => Once(Tail(q), ops)
           /\ \A ops : Once(q, ops) /\ Head(q).op \in ops => ~Has(Tail(q), ops)
<1> DEFINE r == Tail(q)
<1>1. /\ r \in Seq(TaskSet)
      /\ Head(q) \in TaskSet
      /\ Len(q) \in Nat /\ Len(q) > 0
      /\ Len(r) = Len(q) - 1
      /\ \A i \in 1..Len(r) : r[i] = q[i + 1]
      /\ Head(q) = q[1]
  OBVIOUS
<1>2. \A i \in 1..Len(q) : i = 1 \/ i - 1 \in 1..Len(r)
  OBVIOUS
<1>3. \A i \in 1..Len(r) : i + 1 \in 1..Len(q) /\ i + 1 # 1
  OBVIOUS
<1>4. ASSUME NEW ops PROVE Has(q, ops) <=> Head(q).op \in ops \/ Has(r, ops)
  <2>1. ASSUME Has(q, ops) PROVE Head(q).op \in ops \/ Has(r, ops)
    <3>1. PICK i \in 1..Len(q) : q[i].op \in ops
      BY <2>1 DEF Has
    <3>2. CASE i = 1
      BY <3>1, <3>2
    <3>3. CASE i - 1 \in 1..Len(r)
      <4>1. r[i - 1] = q[i]
        BY <3>3
      <4> QED BY <3>1, <4>1 DEF Has
    <3> QED BY <3>2, <3>3
  <2>2. ASSUME Head(q).op \in ops PROVE Has(q, ops)
    BY <2>2 DEF Has
  <2>3. ASSUME Has(r, ops) PROVE Has(q, ops)
    BY <2>3 DEF Has
  <2> QED BY <2>1, <2>2, <2>3
<1>5. ASSUME NEW ops, Once(q, ops) PROVE Once(r, ops)
  <2> SUFFICES ASSUME NEW i \in 1..Len(r), NEW j \in 1..Len(r),
                      r[i].op \in ops, r[j].op \in ops
               PROVE  i = j
    BY DEF Once
  <2>1. i + 1 = j + 1
    BY <1>5 DEF Once
  <2> QED BY <2>1
<1>6. ASSUME NEW ops, Once(q, ops), Head(q).op \in ops, Has(r, ops) PROVE FALSE
  <2>1. PICK i \in 1..Len(r) : r[i].op \in ops
    BY <1>6 DEF Has
  <2>2. q[i + 1].op \in ops /\ q[1].op \in ops /\ 1 \in 1..Len(q)
    BY <1>6, <2>1
  <2>3. i + 1 = 1
    BY <1>6, <2>2 DEF Once
  <2> QED BY <2>3
<1> QED BY <1>4, <1>5, <1>6

-----------------------------------------------------------------------------
(* One connection, seen from a step. *)

\* Nothing that ConnInv(d) speaks of changes.
SameAt(d) ==
    /\ d \in sessions' <=> d \in sessions
    /\ d \in visiting' => d \in visiting
    /\ d \in dropping' <=> d \in dropping
    /\ dumping' = dumping
    /\ m_parsing_headers'[d] = m_parsing_headers[d]
    /\ m_active'[d] = m_active[d]
    /\ m_session'[d] = m_session[d]
    /\ socket_'[d] = socket_[d]
    /\ peer'[d] = peer[d]
    /\ reading'[d] = reading[d]
    /\ writing'[d] = writing[d]
    /\ strand_'[d] = strand_[d]
    /\ m_outbox'[d] = m_outbox[d]

\* A step keeps the invariant of the connections it does not touch.
LEMMA Untouched ==
    ASSUME NEW d \in Conns, ConnInv(d), SameAt(d)
    PROVE  ConnInv(d)'
BY DEF ConnInv, ListInv, ReadInv, WriteInv, HandshakeInv, CloseInv, FreshInv,
       SameAt

\* What is left to show for a step of the handlers of c alone.
LEMMA OnlyOneTouched ==
    ASSUME IndInv, TypeOK', NEW c \in Conns, ConnInv(c)',
           \A d \in Conns \ {c} : SameAt(d)
    PROVE  IndInv'
BY Untouched DEF IndInv

\* The strand of c, of which a task doing op is taken, leaving q.
Takes(c, op, q) ==
    /\ q = Tail(strand_[c])
    /\ q \in Seq(TaskSet)
    /\ strand_[c] # <<>>
    /\ Head(strand_[c]) \in TaskSet
    /\ Head(strand_[c]).op = op
    /\ dropping = {}
    /\ \A ops : Has(strand_[c], ops) <=> op \in ops \/ Has(q, ops)
    /\ \A ops : Once(strand_[c], ops) => Once(q, ops)
    /\ \A ops : Once(strand_[c], ops) /\ op \in ops => ~Has(q, ops)

LEMMA RunsTakes ==
    ASSUME TypeOK, NEW c \in Conns, NEW op, Runs(c, op)
    PROVE  Takes(c, op, Tail(strand_[c]))
<1>1. /\ strand_[c] # <<>> /\ strand_[c] \in Seq(TaskSet)
      /\ Head(strand_[c]).op = op
      /\ dropping = {}
  BY DEF TypeOK, Runs, Running
<1> QED BY <1>1, TailQueue DEF Takes

\* A step that leaves in the strand of c the queue q and behind it a task doing
\* op.
Posts(c, op, q) ==
    /\ strand_' = [strand_ EXCEPT ![c] = strand_'[c]]
    /\ strand_'[c] \in Seq(TaskSet)
    /\ strand_'[c] # <<>>
    /\ \A ops : Has(strand_'[c], ops) <=> Has(q, ops) \/ op \in ops
    /\ \A ops : Once(q, ops) /\ (op \in ops => ~Has(q, ops)) => Once(strand_'[c], ops)

LEMMA AppendPosts ==
    ASSUME TypeOK, NEW c \in Conns, NEW q \in Seq(TaskSet),
           NEW t \in TaskSet, NEW op, t.op = op,
           strand_' = [strand_ EXCEPT ![c] = Append(q, t)]
    PROVE  Posts(c, op, q)
<1>1. strand_'[c] = Append(q, t)
  BY DEF TypeOK
<1>2. Append(q, t) # <<>> /\ Append(q, t) \in Seq(TaskSet)
  OBVIOUS
<1>3. /\ \A ops : Has(Append(q, t), ops) <=> Has(q, ops) \/ op \in ops
      /\ \A ops : Once(q, ops) /\ (op \in ops => ~Has(q, ops)) => Once(Append(q, t), ops)
  BY AppendQueue
<1>4. strand_' = [strand_ EXCEPT ![c] = strand_'[c]]
  BY <1>1
<1> QED BY ONLY <1>1, <1>2, <1>3, <1>4 DEF Posts

\* Whatever the state it is called in, Close leaves the connection unlisted,
\* without a session and not active; the dump under way, if any, is not on its
\* way to it; and behind q only a "close" is queued.
Leaves(c, q) ==
    /\ strand_' = [strand_ EXCEPT ![c] = strand_'[c]]
    /\ strand_'[c] \in Seq(TaskSet)
    /\ \A ops : "close" \notin ops =>
          /\ Has(strand_'[c], ops) <=> Has(q, ops)
          /\ Once(q, ops) => Once(strand_'[c], ops)
    /\ Has(strand_'[c], {"close"}) => Has(q, {"close"}) \/ ~m_active'[c]

Closes(c, q) ==
    /\ sessions' = sessions \ {c}
    /\ c \notin visiting
    /\ m_session' = [m_session EXCEPT ![c] = FALSE]
    /\ m_active' = [m_active EXCEPT ![c] = FALSE]
    /\ Leaves(c, q)

LEMMA CloseCloses ==
    ASSUME TypeOK, NEW c \in Conns, ListInv(c), NEW q \in Seq(TaskSet), Close(c, q)
    PROVE  Closes(c, q)
<1>1. Task("close") \in TaskSet /\ Task("close").op = "close"
  BY DEF Task, TaskSet
<1>2. CASE m_active[c]
  <2>1. strand_'[c] = Append(q, Task("close"))
    BY <1>2 DEF Close, TypeOK
  <2>2. /\ sessions' = sessions \ {c}
        /\ c \notin visiting
    BY DEF Close, ListInv
  <2>3. /\ m_session' = [m_session EXCEPT ![c] = FALSE]
        /\ m_active' = [m_active EXCEPT ![c] = FALSE]
        /\ strand_' = [strand_ EXCEPT ![c] = strand_'[c]]
    BY <1>2 DEF Close
  <2>4. Posts(c, "close", q)
    BY <1>1, <1>2, AppendPosts DEF Close
  <2>5. ~m_active'[c]
    BY <2>3 DEF TypeOK
  <2> QED BY <2>2, <2>3, <2>4, <2>5 DEF Closes, Leaves, Posts
<1>3. CASE ~m_active[c]
  <2>1. strand_'[c] = q
    BY <1>3 DEF Close, TypeOK
  <2>2. /\ sessions' = sessions \ {c}
        /\ c \notin visiting
    BY DEF Close, ListInv
  <2>3. /\ m_session' = [m_session EXCEPT ![c] = FALSE]
        /\ m_active' = [m_active EXCEPT ![c] = FALSE]
        /\ strand_' = [strand_ EXCEPT ![c] = strand_'[c]]
    BY DEF Close, ListInv, TypeOK
  <2> QED BY <2>1, <2>2, <2>3 DEF Closes, Leaves
<1> QED BY <1>2, <1>3

LEMMA TailLeaves ==
    ASSUME TypeOK, NEW c \in Conns, Tail(strand_[c]) \in Seq(TaskSet),
           strand_' = [strand_ EXCEPT ![c] = Tail(@)]
    PROVE  Leaves(c, Tail(strand_[c]))
BY DEF TypeOK, Leaves

LEMMA TailLength ==
    ASSUME NEW q \in Seq(ChunkSet), q # <<>>
    PROVE  /\ Tail(q) \in Seq(ChunkSet)
           /\ Len(q) > 1 => Tail(q) # <<>>
           /\ Len(q) = 1 => Tail(q) = <<>>
<1>1. Tail(q) \in Seq(ChunkSet) /\ Len(Tail(q)) = Len(q) - 1 /\ Len(q) \in Nat
  OBVIOUS
<1>2. ASSUME Len(q) > 1 PROVE Tail(q) # <<>>
  <2>1. Len(Tail(q)) # Len(<<>>)
    BY <1>1, <1>2
  <2> QED BY <2>1, Zenon
<1>3. ASSUME Len(q) = 1 PROVE Tail(q) = <<>>
  <2>1. Len(Tail(q)) = 0
    BY <1>3
  <2> QED BY <1>1, <2>1, EmptySeq
<1> QED BY <1>1, <1>2

\* Which sets of tasks contain which.
LEMMA TaskKinds ==
    /\ \A q : Has(q, {"accept"}) => Has(q, ReadResults)
    /\ \A q : Has(q, Frames) => Has(q, ReadResults)
    /\ \A q : Has(q, {"failed"}) => Has(q, WriteResults)
BY DEF Has, ReadResults, HeaderLines, WriteResults

\* write_impl and write_many_impl queue at least one message.
LEMMA ChunksQueued ==
    ASSUME NEW t \in TaskSet, t.op \in PostedWrites, NEW q \in Seq(ChunkSet)
    PROVE  q \o ChunksOf(t) \in Seq(ChunkSet) /\ q \o ChunksOf(t) # <<>>
<1>1. ChunksOf(t) \in Seq(ChunkSet) /\ ChunksOf(t) # <<>>
  <2>1. CASE t.op = "log"
    <3>1. Chunk("head", t.n) \in ChunkSet /\ Chunk("body", t.n) \in ChunkSet
      BY DEF Chunk, ChunkSet, TaskSet
    <3> QED BY <2>1, <3>1 DEF ChunksOf
  <2>2. CASE t.op # "log"
    <3>1. Chunk(t.op, 0) \in ChunkSet
      BY <2>2 DEF Chunk, ChunkSet, PostedWrites
    <3> QED BY <2>2, <3>1 DEF ChunksOf
  <2> QED BY <2>1, <2>2
<1> QED BY <1>1

-----------------------------------------------------------------------------
(* Each action preserves the invariant. *)

\* The loop of onDumpData posts to a listed session, which is past its handshake.
LEMMA SessionWriteStep ==
    ASSUME IndInv, NEW c \in Conns, SessionWrite(c)
    PROVE  IndInv'
<1>1. TypeOK /\ ConnInv(c) /\ ListInv(c)
  BY DEF IndInv, ConnInv
<1>2. LogWrite(dumped) \in TaskSet /\ LogWrite(dumped).op = "log"
  BY <1>1 DEF LogWrite, TaskSet, PostedWrites, TypeOK
<1>3. Posts(c, "log", strand_[c])
  BY <1>1, <1>2, AppendPosts DEF SessionWrite, TypeOK
<1>4. m_session[c] /\ ~m_parsing_headers[c]
  BY <1>1 DEF SessionWrite, ListInv
<1>5. TypeOK'
  BY <1>1, <1>2
     DEF TypeOK, SessionWrite, serverVars, threadVars, stateVars, netVars,
         writeVars
<1>6. ConnInv(c)'
  <2>1. ListInv(c)'
    BY <1>1 DEF ListInv, SessionWrite, stateVars
  <2>2. ReadInv(c)'
    BY <1>1, <1>3
       DEF ConnInv, ReadInv, ReadResults, HeaderLines, Frames, SessionWrite,
           Posts, threadVars, netVars
  <2>3. WriteInv(c)'
    BY <1>1, <1>3
       DEF ConnInv, WriteInv, WriteResults, SessionWrite, Posts, stateVars,
           writeVars
  <2>4. HandshakeInv(c)'
    BY <1>1, <1>3, <1>4
       DEF ConnInv, HandshakeInv, SessionWrite, Posts, stateVars
  <2>5. CloseInv(c)'
    BY <1>1, <1>3 DEF ConnInv, CloseInv, ListInv, SessionWrite, Posts, netVars
  <2>6. FreshInv(c)'
    BY <1>1 DEF ConnInv, FreshInv, ListInv, SessionWrite, netVars
  <2> QED BY <2>1, <2>2, <2>3, <2>4, <2>5, <2>6 DEF ConnInv
<1>7. \A d \in Conns \ {c} : SameAt(d)
  BY DEF SameAt, SessionWrite, serverVars, threadVars, stateVars, netVars,
         writeVars
<1> QED BY <1>5, <1>6, <1>7, OnlyOneTouched

\* The viewer closes its end.
LEMMA PeerClosesStep ==
    ASSUME IndInv, NEW c \in Conns, PeerCloses(c)
    PROVE  IndInv'
<1>1. TypeOK /\ ConnInv(c) /\ ListInv(c)
  BY DEF IndInv, ConnInv
<1>2. TypeOK'
  BY <1>1
     DEF TypeOK, PeerCloses, serverVars, threadVars, stateVars, netVars,
         writeVars
<1>3. ConnInv(c)'
  <2>1. ListInv(c)'
    BY <1>1 DEF ListInv, PeerCloses, serverVars, stateVars
  <2>2. ReadInv(c)'
    BY <1>1 DEF ConnInv, ReadInv, PeerCloses, serverVars, threadVars
  <2>3. WriteInv(c)'
    BY <1>1 DEF ConnInv, WriteInv, PeerCloses, stateVars, netVars, writeVars
  <2>4. HandshakeInv(c)'
    BY <1>1
       DEF ConnInv, HandshakeInv, PeerCloses, threadVars, stateVars, netVars,
           writeVars
  <2>5. CloseInv(c)'
    BY <1>1 DEF ConnInv, CloseInv, PeerCloses, stateVars
  <2>6. FreshInv(c)'
    BY DEF FreshInv, PeerCloses
  <2> QED BY <2>1, <2>2, <2>3, <2>4, <2>5, <2>6 DEF ConnInv
<1>4. \A d \in Conns \ {c} : SameAt(d)
  BY DEF SameAt, PeerCloses, serverVars, threadVars, stateVars, netVars,
         writeVars
<1> QED BY <1>2, <1>3, <1>4, OnlyOneTouched

\* The connection is reset.
LEMMA PeerFailsStep ==
    ASSUME IndInv, NEW c \in Conns, PeerFails(c)
    PROVE  IndInv'
<1>1. TypeOK /\ ConnInv(c) /\ ListInv(c)
  BY DEF IndInv, ConnInv
<1>2. TypeOK'
  BY <1>1
     DEF TypeOK, PeerFails, serverVars, threadVars, stateVars, netVars,
         writeVars
<1>3. ConnInv(c)'
  <2>1. ListInv(c)'
    BY <1>1 DEF ListInv, PeerFails, serverVars, stateVars
  <2>2. ReadInv(c)'
    BY <1>1 DEF ConnInv, ReadInv, PeerFails, serverVars, threadVars
  <2>3. WriteInv(c)'
    BY <1>1 DEF ConnInv, WriteInv, PeerFails, stateVars, netVars, writeVars
  <2>4. HandshakeInv(c)'
    BY <1>1
       DEF ConnInv, HandshakeInv, PeerFails, threadVars, stateVars, netVars,
           writeVars
  <2>5. CloseInv(c)'
    BY <1>1 DEF ConnInv, CloseInv, PeerFails, stateVars
  <2>6. FreshInv(c)'
    BY DEF FreshInv, PeerFails
  <2> QED BY <2>1, <2>2, <2>3, <2>4, <2>5, <2>6 DEF ConnInv
<1>4. \A d \in Conns \ {c} : SameAt(d)
  BY DEF SameAt, PeerFails, serverVars, threadVars, stateVars, netVars,
         writeVars
<1> QED BY <1>2, <1>3, <1>4, OnlyOneTouched

\* The connection is accepted.
LEMMA HandleAcceptStep ==
    ASSUME IndInv, NEW c \in Conns, HandleAccept(c)
    PROVE  IndInv'
<1>1. TypeOK /\ ConnInv(c) /\ ListInv(c)
  BY DEF IndInv, ConnInv
<1>2. ~Has(strand_[c], ReadResults) /\ c \notin dropping
  BY <1>1, EmptyQueue DEF HandleAccept, ConnInv, FreshInv
<1>3. TypeOK'
  BY <1>1
     DEF TypeOK, HandleAccept, serverVars, threadVars, stateVars, netVars,
         writeVars
<1>4. ConnInv(c)'
  <2>1. ListInv(c)'
    BY <1>1 DEF ListInv, HandleAccept, serverVars, stateVars
  <2>2. ReadInv(c)'
    BY <1>1, <1>2 DEF ConnInv, ReadInv, TypeOK, HandleAccept, threadVars
  <2>3. WriteInv(c)'
    BY <1>1 DEF ConnInv, WriteInv, HandleAccept, stateVars, netVars, writeVars
  <2>4. HandshakeInv(c)'
    BY <1>1
       DEF ConnInv, HandshakeInv, HandleAccept, threadVars, stateVars,
           netVars, writeVars
  <2>5. CloseInv(c)'
    BY <1>1 DEF ConnInv, CloseInv, HandleAccept, stateVars
  <2>6. FreshInv(c)'
    BY <1>1 DEF FreshInv, TypeOK, HandleAccept
  <2> QED BY <2>1, <2>2, <2>3, <2>4, <2>5, <2>6 DEF ConnInv
<1>5. \A d \in Conns \ {c} : SameAt(d)
  BY DEF SameAt, HandleAccept, serverVars, threadVars, stateVars, netVars,
         writeVars
<1> QED BY <1>3, <1>4, <1>5, OnlyOneTouched

\* A header line or a frame was read.
LEMMA ReadCompletesStep ==
    ASSUME IndInv, NEW c \in Conns, ReadCompletes(c)
    PROVE  IndInv'
<1>1. TypeOK /\ ConnInv(c) /\ ListInv(c)
  BY DEF IndInv, ConnInv
<1>2. PICK what \in Incoming(c) : strand_' = [strand_ EXCEPT ![c] = Append(@, Task(what))]
  BY DEF ReadCompletes
<1>3. /\ what \in ReadResults \ {"error"}
      /\ what \notin WriteResults \cup PostedWrites \cup {"close", "failed"}
      /\ Task(what) \in TaskSet /\ Task(what).op = what
  BY DEF Incoming, Task, TaskSet, ReadResults, HeaderLines, Frames,
         WriteResults, PostedWrites
<1>4. Posts(c, what, strand_[c])
  BY <1>1, <1>2, <1>3, AppendPosts DEF TypeOK
<1>5. /\ what = "accept" => m_parsing_headers[c] /\ m_active[c]
      /\ what \in Frames => ~m_parsing_headers[c]
  BY DEF Incoming, HeaderLines, Frames
<1>6. TypeOK'
  <2>1. strand_' \in [Conns -> Seq(TaskSet)]
    BY <1>1, <1>4 DEF TypeOK, Posts
  <2>2. inputs' \in [Conns -> 0..MaxInputs]
    BY <1>1, WsAssumption DEF TypeOK, ReadCompletes
  <2>3. reading' \in [Conns -> BOOLEAN]
    BY <1>1 DEF TypeOK, ReadCompletes
  <2> QED
    BY <2>1, <2>2, <1>1
       DEF TypeOK, ReadCompletes, serverVars, threadVars, stateVars, netVars,
           writeVars
<1>7. ConnInv(c)'
  <2>1. ListInv(c)'
    BY <1>1 DEF ListInv, ReadCompletes, serverVars, stateVars
  <2>2. ReadInv(c)'
    BY <1>1, <1>3, <1>4
       DEF ConnInv, ReadInv, TypeOK, ReadCompletes, Posts, threadVars
  <2>3. WriteInv(c)'
    BY <1>1, <1>3, <1>4
       DEF ConnInv, WriteInv, ReadCompletes, Posts, stateVars, netVars,
           writeVars
  <2>4. HandshakeInv(c)'
    BY <1>1, <1>3, <1>4, <1>5
       DEF ConnInv, HandshakeInv, ReadCompletes, Posts, threadVars, stateVars,
           netVars, writeVars
  <2>5. CloseInv(c)'
    BY <1>1, <1>3, <1>4 DEF ConnInv, CloseInv, ReadCompletes, Posts, stateVars
  <2>6. FreshInv(c)'
    BY <1>1 DEF ConnInv, FreshInv, ReadCompletes
  <2> QED BY <2>1, <2>2, <2>3, <2>4, <2>5, <2>6 DEF ConnInv
<1>8. \A d \in Conns \ {c} : SameAt(d)
  BY DEF SameAt, ReadCompletes, serverVars, threadVars, stateVars, netVars,
         writeVars
<1> QED BY <1>6, <1>7, <1>8, OnlyOneTouched

\* The read failed.
LEMMA ReadFailsStep ==
    ASSUME IndInv, NEW c \in Conns, ReadFails(c)
    PROVE  IndInv'
<1>1. TypeOK /\ ConnInv(c) /\ ListInv(c)
  BY DEF IndInv, ConnInv
<1>2. Task("error") \in TaskSet /\ Task("error").op = "error"
  BY DEF Task, TaskSet, ReadResults
<1>3. Posts(c, "error", strand_[c])
  BY <1>1, <1>2, AppendPosts DEF ReadFails, TypeOK
<1>4. TypeOK'
  BY <1>1, <1>2
     DEF TypeOK, ReadFails, serverVars, threadVars, stateVars, netVars,
         writeVars
<1>5. ConnInv(c)'
  <2>1. ListInv(c)'
    BY <1>1 DEF ListInv, ReadFails, serverVars, stateVars
  <2>2. ReadInv(c)'
    BY <1>1, <1>3
       DEF ConnInv, ReadInv, ReadResults, TypeOK, ReadFails, Posts, threadVars
  <2>3. WriteInv(c)'
    BY <1>1, <1>3
       DEF ConnInv, WriteInv, WriteResults, ReadFails, Posts, stateVars,
           netVars, writeVars
  <2>4. HandshakeInv(c)'
    BY <1>1, <1>3
       DEF ConnInv, HandshakeInv, PostedWrites, Frames, WriteResults,
           ReadFails, Posts, threadVars, stateVars, netVars, writeVars
  <2>5. CloseInv(c)'
    BY <1>1, <1>3 DEF ConnInv, CloseInv, ReadFails, Posts, stateVars
  <2>6. FreshInv(c)'
    BY <1>1 DEF ConnInv, FreshInv, ReadFails
  <2> QED BY <2>1, <2>2, <2>3, <2>4, <2>5, <2>6 DEF ConnInv
<1>6. \A d \in Conns \ {c} : SameAt(d)
  BY DEF SameAt, ReadFails, serverVars, threadVars, stateVars, netVars,
         writeVars
<1> QED BY <1>4, <1>5, <1>6, OnlyOneTouched

\* The front message was sent.
LEMMA WriteCompletesStep ==
    ASSUME IndInv, NEW c \in Conns, WriteCompletes(c)
    PROVE  IndInv'
<1>1. TypeOK /\ ConnInv(c) /\ ListInv(c)
  BY DEF IndInv, ConnInv
<1>2. Task("written") \in TaskSet /\ Task("written").op = "written"
  BY DEF Task, TaskSet, WriteResults
<1>3. Posts(c, "written", strand_[c])
  BY <1>1, <1>2, AppendPosts DEF WriteCompletes, TypeOK
<1>4. m_outbox[c] # <<>> /\ Head(m_outbox[c]) \in ChunkSet
  BY <1>1 DEF WriteCompletes, ConnInv, WriteInv, TypeOK
<1>5. writing[c] = 1 /\ ~m_parsing_headers[c]
  BY <1>1 DEF WriteCompletes, ConnInv, HandshakeInv, TypeOK
<1>6. TypeOK'
  BY <1>1, <1>2, <1>4
     DEF TypeOK, WriteCompletes, serverVars, threadVars, stateVars, netVars,
         writeVars
<1>7. ConnInv(c)'
  <2>1. ListInv(c)'
    BY <1>1 DEF ListInv, WriteCompletes, serverVars, stateVars, writeVars
  <2>2. ReadInv(c)'
    BY <1>1, <1>3
       DEF ConnInv, ReadInv, ReadResults, HeaderLines, Frames, WriteCompletes,
           Posts, serverVars, threadVars, netVars, writeVars
  <2>3. WriteInv(c)'
    BY <1>1, <1>3
       DEF ConnInv, WriteInv, WriteResults, TypeOK, WriteCompletes, Posts,
           writeVars
  <2>4. HandshakeInv(c)'
    BY <1>1, <1>3, <1>4
       DEF ConnInv, HandshakeInv, WriteCompletes, Posts, stateVars, writeVars
  <2>5. CloseInv(c)'
    BY <1>1, <1>3
       DEF ConnInv, CloseInv, WriteCompletes, Posts, stateVars, writeVars
  <2>6. FreshInv(c)'
    BY <1>1 DEF ConnInv, FreshInv, WriteCompletes, netVars, writeVars
  <2> QED BY <2>1, <2>2, <2>3, <2>4, <2>5, <2>6 DEF ConnInv
<1>8. \A d \in Conns \ {c} : SameAt(d)
  BY DEF SameAt, WriteCompletes, serverVars, threadVars, stateVars, netVars,
         writeVars
<1> QED BY <1>6, <1>7, <1>8, OnlyOneTouched

\* The front message was not sent.
LEMMA WriteFailsStep ==
    ASSUME IndInv, NEW c \in Conns, WriteFails(c)
    PROVE  IndInv'
<1>1. TypeOK /\ ConnInv(c) /\ ListInv(c)
  BY DEF IndInv, ConnInv
<1>2. Task("failed") \in TaskSet /\ Task("failed").op = "failed"
  BY DEF Task, TaskSet, WriteResults
<1>3. Posts(c, "failed", strand_[c])
  BY <1>1, <1>2, AppendPosts DEF WriteFails, TypeOK
<1>4. writing[c] = 1 /\ ~m_parsing_headers[c]
  BY <1>1 DEF WriteFails, ConnInv, HandshakeInv, TypeOK
<1>5. TypeOK'
  BY <1>1, <1>2
     DEF TypeOK, WriteFails, serverVars, threadVars, stateVars, netVars,
         writeVars
<1>6. ConnInv(c)'
  <2>1. ListInv(c)'
    BY <1>1 DEF ListInv, WriteFails, serverVars, stateVars, writeVars
  <2>2. ReadInv(c)'
    BY <1>1, <1>3
       DEF ConnInv, ReadInv, ReadResults, HeaderLines, Frames, WriteFails,
           Posts, serverVars, threadVars, netVars, writeVars
  <2>3. WriteInv(c)'
    BY <1>1, <1>3, TaskKinds
       DEF ConnInv, WriteInv, TypeOK, WriteFails, Posts, writeVars
  <2>4. HandshakeInv(c)'
    BY <1>1, <1>3
       DEF ConnInv, HandshakeInv, WriteFails, Posts, stateVars, writeVars
  <2>5. CloseInv(c)'
    BY <1>1, <1>3
       DEF ConnInv, CloseInv, WriteFails, Posts, stateVars, netVars, writeVars
  <2>6. FreshInv(c)'
    BY <1>1 DEF ConnInv, FreshInv, WriteFails, netVars, writeVars
  <2> QED BY <2>1, <2>2, <2>3, <2>4, <2>5, <2>6 DEF ConnInv
<1>7. \A d \in Conns \ {c} : SameAt(d)
  BY DEF SameAt, WriteFails, serverVars, threadVars, stateVars, netVars,
         writeVars
<1> QED BY <1>5, <1>6, <1>7, OnlyOneTouched

\* A header line does not end.
LEMMA HeaderLineTooLongStep ==
    ASSUME IndInv, NEW c \in Conns, HeaderLineTooLong(c)
    PROVE  IndInv'
<1>1. TypeOK /\ ConnInv(c) /\ ListInv(c)
  BY DEF IndInv, ConnInv
<1>2. Closes(c, strand_[c])
  BY <1>1, CloseCloses DEF HeaderLineTooLong, TypeOK
<1>3. TypeOK'
  BY <1>1, <1>2
     DEF TypeOK, HeaderLineTooLong, Closes, Leaves, serverVars, threadVars,
         stateVars, netVars, writeVars
<1>4. ConnInv(c)'
  <2>1. ListInv(c)'
    BY <1>1, <1>2 DEF ListInv, HeaderLineTooLong, Closes
  <2>2. ReadInv(c)'
    BY <1>1, <1>2
       DEF ConnInv, ReadInv, ReadResults, HeaderLines, Frames,
           HeaderLineTooLong, Closes, Leaves, threadVars
  <2>3. WriteInv(c)'
    BY <1>1, <1>2
       DEF ConnInv, WriteInv, WriteResults, HeaderLineTooLong, Closes, Leaves,
           writeVars
  <2>4. HandshakeInv(c)'
    BY <1>1, <1>2, TaskKinds
       DEF ConnInv, HandshakeInv, ReadInv, PostedWrites, Frames, WriteResults,
           HeaderLineTooLong, Closes, Leaves, threadVars, writeVars
  <2>5. CloseInv(c)'
    BY <1>1, <1>2
       DEF ConnInv, CloseInv, HeaderLineTooLong, Closes, Leaves, netVars
  <2>6. FreshInv(c)'
    BY <1>1 DEF ConnInv, FreshInv, HeaderLineTooLong, netVars
  <2> QED BY <2>1, <2>2, <2>3, <2>4, <2>5, <2>6 DEF ConnInv
<1>5. \A d \in Conns \ {c} : SameAt(d)
  BY <1>1, <1>2
     DEF SameAt, TypeOK, HeaderLineTooLong, Closes, Leaves, serverVars,
         threadVars, stateVars, netVars, writeVars
<1> QED BY <1>3, <1>4, <1>5, OnlyOneTouched

\* The viewer has gone, or the socket was shut.
LEMMA HandleReadErrorStep ==
    ASSUME IndInv, NEW c \in Conns, HandleReadError(c)
    PROVE  IndInv'
<1>1. TypeOK /\ ConnInv(c) /\ ListInv(c)
  BY DEF IndInv, ConnInv
<1>2. Takes(c, "error", Tail(strand_[c]))
  BY <1>1, RunsTakes DEF HandleReadError
<1>3. Closes(c, Tail(strand_[c]))
  BY <1>1, <1>2, CloseCloses DEF HandleReadError, Takes
<1>4. TypeOK'
  BY <1>1, <1>3
     DEF TypeOK, HandleReadError, Closes, Leaves, serverVars, threadVars,
         stateVars, netVars, writeVars
<1>5. ConnInv(c)'
  <2>1. ListInv(c)'
    BY <1>1, <1>3 DEF ListInv, TypeOK, HandleReadError, Closes
  <2>2. ReadInv(c)'
    BY <1>1, <1>2, <1>3
       DEF ConnInv, ReadInv, ReadResults, HeaderLines, Frames,
           HandleReadError, Takes, Closes, Leaves, threadVars
  <2>3. WriteInv(c)'
    BY <1>1, <1>2, <1>3
       DEF ConnInv, WriteInv, WriteResults, HandleReadError, Takes, Closes,
           Leaves, writeVars
  <2>4. HandshakeInv(c)'
    BY <1>1, <1>2, <1>3, TaskKinds
       DEF ConnInv, HandshakeInv, ReadInv, PostedWrites, ReadResults, Frames,
           WriteResults, HandleReadError, Takes, Closes, Leaves, threadVars,
           writeVars
  <2>5. CloseInv(c)'
    BY <1>1, <1>2, <1>3
       DEF ConnInv, CloseInv, HandleReadError, Takes, Closes, Leaves, netVars
  <2>6. FreshInv(c)'
    BY <1>1, <1>2 DEF ConnInv, FreshInv, HandleReadError, Takes, netVars
  <2> QED BY <2>1, <2>2, <2>3, <2>4, <2>5, <2>6 DEF ConnInv
<1>6. \A d \in Conns \ {c} : SameAt(d)
  BY <1>1, <1>3
     DEF SameAt, TypeOK, HandleReadError, Closes, Leaves, serverVars,
         threadVars, stateVars, netVars, writeVars
<1> QED BY <1>4, <1>5, <1>6, OnlyOneTouched

\* A header line that ends nothing.
LEMMA HandleHeaderLineStep ==
    ASSUME IndInv, NEW c \in Conns, HandleHeaderLine(c)
    PROVE  IndInv'
<1>1. TypeOK /\ ConnInv(c) /\ ListInv(c)
  BY DEF IndInv, ConnInv
<1>2. Takes(c, "line", Tail(strand_[c]))
  BY <1>1, RunsTakes DEF HandleHeaderLine
<1>3. /\ Leaves(c, Tail(strand_[c]))
      /\ \/ /\ reading' = [reading EXCEPT ![c] = TRUE]
            /\ UNCHANGED <<sessions, m_session, m_active>>
         \/ /\ Closes(c, Tail(strand_[c]))
            /\ UNCHANGED reading
  BY <1>1, <1>2, CloseCloses, TailLeaves DEF HandleHeaderLine, Takes, Closes
<1>4. TypeOK'
  BY <1>1, <1>3
     DEF TypeOK, HandleHeaderLine, Closes, Leaves, serverVars, threadVars,
         stateVars, netVars, writeVars
<1>5. ConnInv(c)'
  <2>1. ListInv(c)'
    BY <1>1, <1>3 DEF ListInv, TypeOK, HandleHeaderLine, Closes
  <2>2. ReadInv(c)'
    BY <1>1, <1>2, <1>3
       DEF ConnInv, ReadInv, ReadResults, HeaderLines, Frames, TypeOK,
           HandleHeaderLine, Takes, Closes, Leaves, threadVars
  <2>3. WriteInv(c)'
    BY <1>1, <1>2, <1>3
       DEF ConnInv, WriteInv, WriteResults, TypeOK, HandleHeaderLine, Takes,
           Closes, Leaves, stateVars, netVars, writeVars
  <2>4. HandshakeInv(c)'
    BY <1>1, <1>2, <1>3, TaskKinds
       DEF ConnInv, HandshakeInv, ReadInv, PostedWrites, ReadResults,
           HeaderLines, Frames, WriteResults, HandleHeaderLine, Takes, Leaves,
           serverVars, threadVars, stateVars, netVars, writeVars
  <2>5. CloseInv(c)'
    BY <1>1, <1>2, <1>3
       DEF ConnInv, CloseInv, TypeOK, HandleHeaderLine, Takes, Closes, Leaves
  <2>6. FreshInv(c)'
    BY <1>1, <1>2 DEF ConnInv, FreshInv, HandleHeaderLine, Takes
  <2> QED BY <2>1, <2>2, <2>3, <2>4, <2>5, <2>6 DEF ConnInv
<1>6. \A d \in Conns \ {c} : SameAt(d)
  BY <1>1, <1>3
     DEF SameAt, TypeOK, HandleHeaderLine, Closes, Leaves, serverVars,
         threadVars, stateVars, netVars, writeVars
<1> QED BY <1>4, <1>5, <1>6, OnlyOneTouched

\* The handshake is refused.
LEMMA HandleHandshakeRejectedStep ==
    ASSUME IndInv, NEW c \in Conns, HandleHandshakeRejected(c)
    PROVE  IndInv'
<1>1. TypeOK /\ ConnInv(c) /\ ListInv(c)
  BY DEF IndInv, ConnInv
<1>2. Takes(c, "reject", Tail(strand_[c]))
  BY <1>1, RunsTakes DEF HandleHandshakeRejected
<1>3. Closes(c, Tail(strand_[c]))
  BY <1>1, <1>2, CloseCloses DEF HandleHandshakeRejected, Takes
<1>4. TypeOK'
  BY <1>1, <1>3
     DEF TypeOK, HandleHandshakeRejected, Closes, Leaves, serverVars,
         threadVars, stateVars, netVars, writeVars
<1>5. ConnInv(c)'
  <2>1. ListInv(c)'
    BY <1>1, <1>3 DEF ListInv, TypeOK, HandleHandshakeRejected, Closes
  <2>2. ReadInv(c)'
    BY <1>1, <1>2, <1>3
       DEF ConnInv, ReadInv, ReadResults, HeaderLines, Frames,
           HandleHandshakeRejected, Takes, Closes, Leaves, threadVars
  <2>3. WriteInv(c)'
    BY <1>1, <1>2, <1>3
       DEF ConnInv, WriteInv, WriteResults, HandleHandshakeRejected, Takes,
           Closes, Leaves, stateVars, netVars, writeVars
  <2>4. HandshakeInv(c)'
    BY <1>1, <1>2, <1>3, TaskKinds
       DEF ConnInv, HandshakeInv, ReadInv, ReadResults, HeaderLines, TypeOK,
           HandleHandshakeRejected, Takes, Closes, Leaves
  <2>5. CloseInv(c)'
    BY <1>1, <1>2, <1>3
       DEF ConnInv, CloseInv, HandleHandshakeRejected, Takes, Closes, Leaves
  <2>6. FreshInv(c)'
    BY <1>1, <1>2 DEF ConnInv, FreshInv, HandleHandshakeRejected, Takes
  <2> QED BY <2>1, <2>2, <2>3, <2>4, <2>5, <2>6 DEF ConnInv
<1>6. \A d \in Conns \ {c} : SameAt(d)
  BY <1>1, <1>3
     DEF SameAt, TypeOK, HandleHandshakeRejected, Closes, Leaves, serverVars,
         threadVars, stateVars, netVars, writeVars
<1> QED BY <1>4, <1>5, <1>6, OnlyOneTouched

\* The session is made and listed.
LEMMA HandleHandshakeAcceptedStep ==
    ASSUME IndInv, NEW c \in Conns, HandleHandshakeAccepted(c)
    PROVE  IndInv'
<1>1. TypeOK /\ ConnInv(c) /\ ListInv(c)
  BY DEF IndInv, ConnInv
<1>2. Takes(c, "accept", Tail(strand_[c]))
  BY <1>1, RunsTakes DEF HandleHandshakeAccepted
<1>3. Task("handshake") \in TaskSet /\ Task("handshake").op = "handshake"
  BY DEF Task, TaskSet, PostedWrites
<1>4. Posts(c, "handshake", Tail(strand_[c]))
  BY <1>1, <1>2, <1>3, AppendPosts DEF HandleHandshakeAccepted, Takes
<1>5. m_parsing_headers[c] /\ m_active[c]
  BY <1>1, <1>2 DEF ConnInv, HandshakeInv, Takes
<1>6. /\ dropping = {}
      /\ ~Has(Tail(strand_[c]), ReadResults)
      /\ Once(Tail(strand_[c]), ReadResults)
  BY <1>1, <1>2 DEF Takes, ConnInv, ReadInv, ReadResults, HeaderLines
<1>7. /\ ~Has(strand_'[c], ReadResults)
      /\ Once(strand_'[c], ReadResults)
  BY <1>4, <1>6 DEF Posts, ReadResults, HeaderLines, Frames
<1>8. c \in dropping' <=> ~reading'[c]
  BY <1>1 DEF HandleHandshakeAccepted, TypeOK
<1>9. TypeOK'
  BY <1>1, <1>4
     DEF TypeOK, HandleHandshakeAccepted, Posts, serverVars, threadVars,
         stateVars, netVars, writeVars
<1>10. ConnInv(c)'
  <2>1. ListInv(c)'
    BY <1>1, <1>5 DEF ListInv, TypeOK, HandleHandshakeAccepted
  <2>2. ReadInv(c)'
    BY <1>7, <1>8 DEF ConnInv, ReadInv
  <2>3. WriteInv(c)'
    BY <1>1, <1>2, <1>4
       DEF ConnInv, WriteInv, WriteResults, HandleHandshakeAccepted, Takes,
           Posts, serverVars, threadVars, stateVars, netVars, writeVars
  <2>4. HandshakeInv(c)'
    BY <1>1, <1>7, TaskKinds DEF HandshakeInv, TypeOK, HandleHandshakeAccepted
  <2>5. CloseInv(c)'
    BY <1>1, <1>2, <1>4
       DEF ConnInv, CloseInv, HandleHandshakeAccepted, Takes, Posts
  <2>6. FreshInv(c)'
    BY <1>1, <1>2 DEF ConnInv, FreshInv, HandleHandshakeAccepted, Takes
  <2> QED BY <2>1, <2>2, <2>3, <2>4, <2>5, <2>6 DEF ConnInv
<1>11. \A d \in Conns \ {c} : SameAt(d)
  BY <1>6
     DEF SameAt, HandleHandshakeAccepted, serverVars, threadVars, stateVars,
         netVars, writeVars
<1> QED BY <1>9, <1>10, <1>11, OnlyOneTouched

\* The socket option cannot be set.
LEMMA HandshakeThrowsStep ==
    ASSUME IndInv, NEW c \in Conns, HandshakeThrows(c)
    PROVE  IndInv'
<1>1. TypeOK /\ ConnInv(c) /\ ListInv(c)
  BY DEF IndInv, ConnInv
<1>2. Takes(c, "accept", Tail(strand_[c]))
  BY <1>1, RunsTakes DEF HandshakeThrows
<1>3. Task("handshake") \in TaskSet /\ Task("handshake").op = "handshake"
  BY DEF Task, TaskSet, PostedWrites
<1>4. Posts(c, "handshake", Tail(strand_[c]))
  BY <1>1, <1>2, <1>3, AppendPosts DEF HandshakeThrows, Takes
<1>5. m_parsing_headers[c] /\ m_active[c]
  BY <1>1, <1>2 DEF ConnInv, HandshakeInv, Takes
<1>6. TypeOK'
  BY <1>1, <1>4
     DEF TypeOK, HandshakeThrows, Posts, serverVars, threadVars, stateVars,
         netVars, writeVars
<1>7. ConnInv(c)'
  <2>1. ListInv(c)'
    BY <1>1 DEF ListInv, HandshakeThrows, serverVars
  <2>2. ReadInv(c)'
    BY <1>1, <1>2, <1>4, <1>5
       DEF ConnInv, ReadInv, ReadResults, HeaderLines, Frames, ListInv,
           HandshakeThrows, Takes, Posts, serverVars
  <2>3. WriteInv(c)'
    BY <1>1, <1>2, <1>4
       DEF ConnInv, WriteInv, WriteResults, HandshakeThrows, Takes, Posts,
           writeVars
  <2>4. HandshakeInv(c)'
    BY <1>1, <1>2, <1>4, TaskKinds
       DEF ConnInv, HandshakeInv, ReadInv, ReadResults, HeaderLines, TypeOK,
           HandshakeThrows, Takes, Posts
  <2>5. CloseInv(c)'
    BY <1>1, <1>2, <1>4
       DEF ConnInv, CloseInv, HandshakeThrows, Takes, Posts, netVars
  <2>6. FreshInv(c)'
    BY <1>1, <1>2 DEF ConnInv, FreshInv, HandshakeThrows, Takes, netVars
  <2> QED BY <2>1, <2>2, <2>3, <2>4, <2>5, <2>6 DEF ConnInv
<1>8. \A d \in Conns \ {c} : SameAt(d)
  BY DEF SameAt, HandshakeThrows, serverVars, threadVars, stateVars, netVars,
         writeVars
<1> QED BY <1>6, <1>7, <1>8, OnlyOneTouched

\* The handler of a huge handshake ends.
LEMMA DropHugeHandshakeStep ==
    ASSUME IndInv, NEW c \in Conns, DropHugeHandshake(c)
    PROVE  IndInv'
<1>1. TypeOK /\ ConnInv(c) /\ ListInv(c)
  BY DEF IndInv, ConnInv
<1>2. Closes(c, strand_[c])
  BY <1>1, CloseCloses DEF DropHugeHandshake, TypeOK
<1>3. TypeOK'
  BY <1>1, <1>2
     DEF TypeOK, DropHugeHandshake, Closes, Leaves, serverVars, threadVars,
         stateVars, netVars, writeVars
<1>4. ConnInv(c)'
  <2>1. ListInv(c)'
    BY <1>1, <1>2 DEF ListInv, TypeOK, DropHugeHandshake, Closes
  <2>2. ReadInv(c)'
    BY <1>1, <1>2
       DEF ConnInv, ReadInv, ReadResults, HeaderLines, Frames,
           DropHugeHandshake, Closes, Leaves
  <2>3. WriteInv(c)'
    BY <1>1, <1>2
       DEF ConnInv, WriteInv, WriteResults, DropHugeHandshake, Closes, Leaves,
           writeVars
  <2>4. HandshakeInv(c)'
    BY <1>1, <1>2 DEF ConnInv, HandshakeInv, DropHugeHandshake, Closes, Leaves
  <2>5. CloseInv(c)'
    BY <1>1, <1>2
       DEF ConnInv, CloseInv, DropHugeHandshake, Closes, Leaves, netVars
  <2>6. FreshInv(c)'
    BY <1>1 DEF ConnInv, FreshInv, DropHugeHandshake, netVars
  <2> QED BY <2>1, <2>2, <2>3, <2>4, <2>5, <2>6 DEF ConnInv
<1>5. \A d \in Conns \ {c} : SameAt(d)
  BY <1>1, <1>2
     DEF SameAt, TypeOK, DropHugeHandshake, Closes, Leaves, serverVars,
         threadVars, stateVars, netVars, writeVars
<1> QED BY <1>3, <1>4, <1>5, OnlyOneTouched

\* A close frame is handled.
LEMMA HandleCloseFrameStep ==
    ASSUME IndInv, NEW c \in Conns, HandleFrame(c), Runs(c, "closeFrame")
    PROVE  IndInv'
<1>1. TypeOK /\ ConnInv(c) /\ ListInv(c)
  BY DEF IndInv, ConnInv
<1>2. Takes(c, "closeFrame", Tail(strand_[c]))
  BY <1>1, RunsTakes
<1>3. Closes(c, Tail(strand_[c]))
  BY <1>1, <1>2, CloseCloses DEF HandleFrame, Runs, Takes
<1>4. ~m_parsing_headers[c]
  BY <1>1, <1>2 DEF ConnInv, HandshakeInv, Takes, Frames
<1>5. TypeOK'
  BY <1>1, <1>3
     DEF TypeOK, HandleFrame, Closes, Leaves, serverVars, threadVars,
         stateVars, netVars, writeVars
<1>6. ConnInv(c)'
  <2>1. ListInv(c)'
    BY <1>1, <1>3 DEF ListInv, TypeOK, HandleFrame, Closes
  <2>2. ReadInv(c)'
    BY <1>1, <1>2, <1>3
       DEF ConnInv, ReadInv, ReadResults, HeaderLines, Frames, HandleFrame,
           Takes, Closes, Leaves, threadVars
  <2>3. WriteInv(c)'
    BY <1>1, <1>2, <1>3, <1>4
       DEF ConnInv, WriteInv, WriteResults, HandleFrame, Takes, Closes,
           Leaves, stateVars, netVars, writeVars
  <2>4. HandshakeInv(c)'
    BY <1>1, <1>2, <1>3, <1>4
       DEF ConnInv, HandshakeInv, HandleFrame, Takes, Closes, Leaves
  <2>5. CloseInv(c)'
    BY <1>1, <1>2, <1>3
       DEF ConnInv, CloseInv, HandleFrame, Takes, Closes, Leaves
  <2>6. FreshInv(c)'
    BY <1>1, <1>2 DEF ConnInv, FreshInv, HandleFrame, Takes
  <2> QED BY <2>1, <2>2, <2>3, <2>4, <2>5, <2>6 DEF ConnInv
<1>7. \A d \in Conns \ {c} : SameAt(d)
  BY <1>1, <1>3
     DEF SameAt, TypeOK, HandleFrame, Closes, Leaves, serverVars, threadVars,
         stateVars, netVars, writeVars
<1> QED BY <1>5, <1>6, <1>7, OnlyOneTouched

\* A ping is answered.
LEMMA HandlePingStep ==
    ASSUME IndInv, NEW c \in Conns, HandleFrame(c), Runs(c, "ping")
    PROVE  IndInv'
<1>1. TypeOK /\ ConnInv(c) /\ ListInv(c)
  BY DEF IndInv, ConnInv
<1>2. Takes(c, "ping", Tail(strand_[c]))
  BY <1>1, RunsTakes
<1>3. Task("pong") \in TaskSet /\ Task("pong").op = "pong"
  BY DEF Task, TaskSet, PostedWrites
<1>4. /\ strand_' = [strand_ EXCEPT ![c] = Append(Tail(@), Task("pong"))]
      /\ UNCHANGED <<sessions, m_session, m_active>>
  BY DEF HandleFrame, Runs
<1>5. /\ Posts(c, "pong", Tail(strand_[c]))
      /\ UNCHANGED <<sessions, m_session, m_active>>
  BY <1>1, <1>2, <1>3, <1>4, AppendPosts DEF Takes
<1>6. ~m_parsing_headers[c]
  BY <1>1, <1>2 DEF ConnInv, HandshakeInv, Takes, Frames
<1>7. TypeOK'
  BY <1>1, <1>5
     DEF TypeOK, HandleFrame, Posts, serverVars, threadVars, stateVars,
         netVars, writeVars
<1>8. ConnInv(c)'
  <2>1. ListInv(c)'
    BY <1>1, <1>5 DEF ListInv, HandleFrame
  <2>2. ReadInv(c)'
    BY <1>1, <1>2, <1>5
       DEF ConnInv, ReadInv, ReadResults, HeaderLines, Frames, TypeOK,
           HandleFrame, Takes, Posts, threadVars
  <2>3. WriteInv(c)'
    BY <1>1, <1>2, <1>5
       DEF ConnInv, WriteInv, WriteResults, HandleFrame, Takes, Posts,
           stateVars, netVars, writeVars
  <2>4. HandshakeInv(c)'
    BY <1>1, <1>2, <1>5, <1>6
       DEF ConnInv, HandshakeInv, HandleFrame, Takes, Posts
  <2>5. CloseInv(c)'
    BY <1>1, <1>2, <1>5 DEF ConnInv, CloseInv, HandleFrame, Takes, Posts
  <2>6. FreshInv(c)'
    BY <1>1, <1>2 DEF ConnInv, FreshInv, HandleFrame, Takes
  <2> QED BY <2>1, <2>2, <2>3, <2>4, <2>5, <2>6 DEF ConnInv
<1>9. \A d \in Conns \ {c} : SameAt(d)
  BY <1>1, <1>5
     DEF SameAt, TypeOK, HandleFrame, Posts, serverVars, threadVars,
         stateVars, netVars, writeVars
<1> QED BY <1>7, <1>8, <1>9, OnlyOneTouched

\* Any other frame is ignored.
LEMMA HandleOtherFrameStep ==
    ASSUME IndInv, NEW c \in Conns, HandleFrame(c), Runs(c, "frame")
    PROVE  IndInv'
<1>1. TypeOK /\ ConnInv(c) /\ ListInv(c)
  BY DEF IndInv, ConnInv
<1>2. Takes(c, "frame", Tail(strand_[c]))
  BY <1>1, RunsTakes
<1>3. /\ strand_' = [strand_ EXCEPT ![c] = Tail(@)]
      /\ UNCHANGED <<sessions, m_session, m_active>>
  BY DEF HandleFrame, Runs
<1>4. /\ Leaves(c, Tail(strand_[c]))
      /\ UNCHANGED <<sessions, m_session, m_active>>
  BY <1>1, <1>2, <1>3, TailLeaves DEF Takes
<1>5. ~m_parsing_headers[c]
  BY <1>1, <1>2 DEF ConnInv, HandshakeInv, Takes, Frames
<1>6. TypeOK'
  BY <1>1, <1>4
     DEF TypeOK, HandleFrame, Leaves, serverVars, threadVars, stateVars,
         netVars, writeVars
<1>7. ConnInv(c)'
  <2>1. ListInv(c)'
    BY <1>1, <1>4 DEF ListInv, HandleFrame
  <2>2. ReadInv(c)'
    BY <1>1, <1>2, <1>4
       DEF ConnInv, ReadInv, ReadResults, HeaderLines, Frames, TypeOK,
           HandleFrame, Takes, Leaves, threadVars
  <2>3. WriteInv(c)'
    BY <1>1, <1>2, <1>4
       DEF ConnInv, WriteInv, WriteResults, HandleFrame, Takes, Leaves,
           stateVars, netVars, writeVars
  <2>4. HandshakeInv(c)'
    BY <1>1, <1>2, <1>4, <1>5
       DEF ConnInv, HandshakeInv, HandleFrame, Takes, Leaves
  <2>5. CloseInv(c)'
    BY <1>1, <1>2, <1>4 DEF ConnInv, CloseInv, HandleFrame, Takes, Leaves
  <2>6. FreshInv(c)'
    BY <1>1, <1>2 DEF ConnInv, FreshInv, HandleFrame, Takes
  <2> QED BY <2>1, <2>2, <2>3, <2>4, <2>5, <2>6 DEF ConnInv
<1>8. \A d \in Conns \ {c} : SameAt(d)
  BY <1>1, <1>4
     DEF SameAt, TypeOK, HandleFrame, Leaves, serverVars, threadVars,
         stateVars, netVars, writeVars
<1> QED BY <1>6, <1>7, <1>8, OnlyOneTouched

\* The messages of a posted write are queued.
LEMMA WriteImplStep ==
    ASSUME IndInv, NEW c \in Conns, WriteImpl(c)
    PROVE  IndInv'
<1>1. TypeOK /\ ConnInv(c) /\ ListInv(c)
  BY DEF IndInv, ConnInv
<1>2. PICK op \in PostedWrites : Runs(c, op)
  BY DEF WriteImpl
<1>3. Takes(c, op, Tail(strand_[c]))
  BY <1>1, <1>2, RunsTakes
<1>4. /\ op \in PostedWrites
      /\ op \notin ReadResults \cup WriteResults \cup {"close", "failed"}
  BY DEF PostedWrites, ReadResults, HeaderLines, Frames, WriteResults
<1>5. /\ m_outbox' = [m_outbox EXCEPT ![c] = m_outbox'[c]]
      /\ m_outbox'[c] \in Seq(ChunkSet)
      /\ m_outbox'[c] # <<>>
  BY <1>1, <1>3, ChunksQueued DEF WriteImpl, Takes, TypeOK
<1>6. Leaves(c, Tail(strand_[c]))
  BY <1>1, <1>3, TailLeaves DEF WriteImpl, Takes
<1>7. m_outbox[c] = <<>> => writing[c] = 0
  BY <1>1 DEF ConnInv, WriteInv, TypeOK
<1>8. /\ writing' = [writing EXCEPT ![c] = writing'[c]]
      /\ writing'[c] = IF m_outbox[c] = <<>> THEN 1 ELSE writing[c]
  BY <1>1, <1>7 DEF WriteImpl, TypeOK
<1>9. ~m_parsing_headers[c]
  BY <1>1, <1>3 DEF ConnInv, HandshakeInv, Takes
<1>10. UNCHANGED <<serverVars, threadVars, stateVars, netVars, wire>>
  BY DEF WriteImpl
<1>11. TypeOK'
  <2>1. strand_' \in [Conns -> Seq(TaskSet)]
    BY <1>1, <1>6 DEF TypeOK, Leaves
  <2>2. m_outbox' \in [Conns -> Seq(ChunkSet)]
    BY <1>1, <1>5 DEF TypeOK
  <2>3. writing' \in [Conns -> {0, 1}]
    BY <1>1, <1>8 DEF TypeOK
  <2>4. UNCHANGED <<serverVars, threadVars, stateVars, netVars, wire>>
    BY DEF TypeOK, WriteImpl
  <2> QED
    BY <2>1, <2>2, <2>3, <2>4, <1>1
       DEF TypeOK, serverVars, threadVars, stateVars, netVars, writeVars
<1>12. ConnInv(c)'
  <2>1. ListInv(c)'
    BY <1>1, <1>10 DEF ListInv, serverVars, stateVars, writeVars
  <2>2. ReadInv(c)'
    BY <1>1, <1>3, <1>4, <1>6, <1>10
       DEF ConnInv, ReadInv, ReadResults, HeaderLines, Frames, Takes, Leaves,
           serverVars, threadVars, netVars, writeVars
  <2>3. WriteInv(c)'
    BY <1>1, <1>3, <1>4, <1>5, <1>6, <1>8, <1>10
       DEF ConnInv, WriteInv, WriteResults, Takes, Leaves, stateVars,
           writeVars
  <2>4. HandshakeInv(c)'
    BY <1>1, <1>3, <1>6, <1>10
       DEF ConnInv, HandshakeInv, Takes, Leaves, stateVars, writeVars
  <2>5. CloseInv(c)'
    BY <1>1, <1>3, <1>6, <1>10
       DEF ConnInv, CloseInv, Takes, Leaves, stateVars, netVars, writeVars
  <2>6. FreshInv(c)'
    BY <1>1, <1>3, <1>10 DEF ConnInv, FreshInv, Takes, netVars, writeVars
  <2> QED BY <2>1, <2>2, <2>3, <2>4, <2>5, <2>6 DEF ConnInv
<1>13. \A d \in Conns \ {c} : SameAt(d)
  BY <1>1, <1>5, <1>6, <1>8, <1>10
     DEF SameAt, TypeOK, Leaves, serverVars, threadVars, stateVars, netVars,
         writeVars
<1> QED BY <1>11, <1>12, <1>13, OnlyOneTouched

\* The front message is removed, and the next one is written.
LEMMA HandleWrittenStep ==
    ASSUME IndInv, NEW c \in Conns, HandleWritten(c)
    PROVE  IndInv'
<1>1. TypeOK /\ ConnInv(c) /\ ListInv(c)
  BY DEF IndInv, ConnInv
<1>2. Takes(c, "written", Tail(strand_[c]))
  BY <1>1, RunsTakes DEF HandleWritten
<1>3. /\ m_outbox[c] # <<>> /\ m_outbox[c] \in Seq(ChunkSet)
      /\ Tail(m_outbox[c]) \in Seq(ChunkSet)
  BY <1>1, <1>2 DEF ConnInv, WriteInv, Takes, WriteResults, TypeOK
<1>4. /\ Len(m_outbox[c]) > 1 => Tail(m_outbox[c]) # <<>>
      /\ Len(m_outbox[c]) = 1 => Tail(m_outbox[c]) = <<>>
  BY <1>3, TailLength
<1>5. writing[c] = 0
  BY <1>1, <1>2 DEF ConnInv, WriteInv, Takes, WriteResults, TypeOK
<1>6. /\ writing' = [writing EXCEPT ![c] = writing'[c]]
      /\ writing'[c] = IF Tail(m_outbox[c]) = <<>> THEN 0 ELSE 1
  BY <1>1, <1>4, <1>5 DEF HandleWritten, TypeOK
<1>7. /\ socket_' = [socket_ EXCEPT ![c] = socket_'[c]]
      /\ socket_'[c] \in {socket_[c], "closed"}
      /\ wsThread' \in {wsThread, "alert"}
  BY <1>1 DEF HandleWritten, TypeOK
<1>8. Leaves(c, Tail(strand_[c]))
  BY <1>1, <1>2, TailLeaves DEF HandleWritten, Takes
<1>9. m_outbox' = [m_outbox EXCEPT ![c] = Tail(@)]
  BY DEF HandleWritten
<1>10. UNCHANGED <<serverVars, dropping, stateVars, peer, reading, inputs, wire>>
  BY DEF HandleWritten
<1>11. TypeOK'
  <2>1. strand_' \in [Conns -> Seq(TaskSet)]
    BY <1>1, <1>8 DEF TypeOK, Leaves
  <2>2. m_outbox' \in [Conns -> Seq(ChunkSet)]
    BY <1>1, <1>3, <1>9 DEF TypeOK
  <2>3. writing' \in [Conns -> {0, 1}]
    BY <1>1, <1>6 DEF TypeOK
  <2>4. socket_' \in [Conns -> {"none", "open", "rcvshut", "closed"}] /\ wsThread' \in {"run", "alert"}
    <3>1. /\ socket_ \in [Conns -> {"none", "open", "rcvshut", "closed"}]
          /\ wsThread \in {"run", "alert"}
      BY <1>1 DEF TypeOK
    <3>2. socket_[c] \in {"none", "open", "rcvshut", "closed"}
      BY <3>1
    <3>3. socket_'[c] \in {"none", "open", "rcvshut", "closed"}
      BY ONLY <1>7, <3>2
    <3> QED BY ONLY <1>7, <3>1, <3>3
  <2>5. UNCHANGED <<serverVars, dropping, stateVars, peer, reading, inputs, wire>>
    BY DEF TypeOK, HandleWritten
  <2> QED
    BY <2>1, <2>2, <2>3, <2>4, <2>5, <1>1
       DEF TypeOK, serverVars, threadVars, stateVars, netVars, writeVars
<1>12. ConnInv(c)'
  <2>1. ListInv(c)'
    BY <1>1, <1>10
       DEF ListInv, serverVars, threadVars, stateVars, netVars, writeVars
  <2>2. ReadInv(c)'
    BY <1>1, <1>2, <1>8, <1>10
       DEF ConnInv, ReadInv, ReadResults, HeaderLines, Frames, Takes, Leaves,
           serverVars, netVars, writeVars
  <2>3. WriteInv(c)'
    BY <1>1, <1>2, <1>6, <1>8, <1>9
       DEF ConnInv, WriteInv, WriteResults, TypeOK, Takes, Leaves, netVars,
           writeVars
  <2>4. HandshakeInv(c)'
    BY <1>1, <1>2, <1>3, <1>8, <1>10
       DEF ConnInv, HandshakeInv, Takes, Leaves, threadVars, stateVars,
           netVars, writeVars
  <2>5. CloseInv(c)'
    BY <1>1, <1>2, <1>7, <1>8, <1>10
       DEF ConnInv, CloseInv, Takes, Leaves, threadVars, stateVars, netVars,
           writeVars
  <2>6. FreshInv(c)'
    BY <1>1, <1>2, <1>7 DEF ConnInv, FreshInv, Takes, netVars, writeVars
  <2> QED BY <2>1, <2>2, <2>3, <2>4, <2>5, <2>6 DEF ConnInv
<1>13. \A d \in Conns \ {c} : SameAt(d)
  BY <1>1, <1>6, <1>7, <1>8, <1>9, <1>10
     DEF SameAt, TypeOK, Leaves, serverVars, threadVars, stateVars, netVars,
         writeVars
<1> QED BY <1>11, <1>12, <1>13, OnlyOneTouched

\* The front message is removed, and no other is written.
LEMMA HandleWriteFailedStep ==
    ASSUME IndInv, NEW c \in Conns, HandleWriteFailed(c)
    PROVE  IndInv'
<1>1. TypeOK /\ ConnInv(c) /\ ListInv(c)
  BY DEF IndInv, ConnInv
<1>2. Takes(c, "failed", Tail(strand_[c]))
  BY <1>1, RunsTakes DEF HandleWriteFailed
<1>3. Closes(c, Tail(strand_[c]))
  BY <1>1, <1>2, CloseCloses DEF HandleWriteFailed, Takes
<1>4. /\ m_outbox[c] # <<>> /\ m_outbox[c] \in Seq(ChunkSet)
      /\ Tail(m_outbox[c]) \in Seq(ChunkSet)
  BY <1>1, <1>2 DEF ConnInv, WriteInv, Takes, WriteResults, TypeOK
<1>5. TypeOK'
  BY <1>1, <1>3, <1>4
     DEF TypeOK, HandleWriteFailed, Closes, Leaves, serverVars, threadVars,
         stateVars, netVars, writeVars
<1>6. ConnInv(c)'
  <2>1. ListInv(c)'
    BY <1>1, <1>3
       DEF ListInv, TypeOK, HandleWriteFailed, Closes, stateVars, netVars,
           writeVars
  <2>2. ReadInv(c)'
    BY <1>1, <1>2, <1>3
       DEF ConnInv, ReadInv, ReadResults, HeaderLines, Frames,
           HandleWriteFailed, Takes, Closes, Leaves, serverVars, threadVars,
           stateVars, netVars, writeVars
  <2>3. WriteInv(c)'
    BY <1>1, <1>2, <1>3
       DEF ConnInv, WriteInv, WriteResults, TypeOK, HandleWriteFailed, Takes,
           Closes, Leaves, stateVars, netVars, writeVars
  <2>4. HandshakeInv(c)'
    BY <1>1, <1>2, <1>3, <1>4
       DEF ConnInv, HandshakeInv, HandleWriteFailed, Takes, Closes, Leaves,
           stateVars, netVars, writeVars
  <2>5. CloseInv(c)'
    BY <1>1, <1>2, <1>3
       DEF ConnInv, CloseInv, TypeOK, HandleWriteFailed, Takes, Closes,
           stateVars, netVars, writeVars
  <2>6. FreshInv(c)'
    BY <1>1, <1>2
       DEF ConnInv, FreshInv, HandleWriteFailed, Takes, stateVars, netVars,
           writeVars
  <2> QED BY <2>1, <2>2, <2>3, <2>4, <2>5, <2>6 DEF ConnInv
<1>7. \A d \in Conns \ {c} : SameAt(d)
  BY <1>1, <1>3
     DEF SameAt, TypeOK, HandleWriteFailed, Closes, Leaves, serverVars,
         threadVars, stateVars, netVars, writeVars
<1> QED BY <1>5, <1>6, <1>7, OnlyOneTouched

\* The socket is shut or closed.
LEMMA CloseImplStep ==
    ASSUME IndInv, NEW c \in Conns, CloseImpl(c)
    PROVE  IndInv'
<1>1. TypeOK /\ ConnInv(c) /\ ListInv(c)
  BY DEF IndInv, ConnInv
<1>2. Takes(c, "close", Tail(strand_[c]))
  BY <1>1, RunsTakes DEF CloseImpl
<1>3. Leaves(c, Tail(strand_[c]))
  BY <1>1, <1>2, TailLeaves DEF CloseImpl, Takes
<1>4. TypeOK'
  BY <1>1, <1>3
     DEF TypeOK, CloseImpl, Leaves, serverVars, threadVars, stateVars,
         netVars, writeVars
<1>5. ConnInv(c)'
  <2>1. ListInv(c)'
    BY <1>1 DEF ListInv, CloseImpl, serverVars, stateVars
  <2>2. ReadInv(c)'
    BY <1>1, <1>2
       DEF ConnInv, ReadInv, ReadResults, HeaderLines, Frames, CloseImpl,
           Takes, serverVars, threadVars
  <2>3. WriteInv(c)'
    BY <1>1, <1>2
       DEF ConnInv, WriteInv, WriteResults, CloseImpl, Takes, stateVars,
           netVars, writeVars
  <2>4. HandshakeInv(c)'
    BY <1>1, <1>2
       DEF ConnInv, HandshakeInv, CloseImpl, Takes, threadVars, stateVars,
           netVars, writeVars
  <2>5. CloseInv(c)'
    BY <1>1, <1>2 DEF ConnInv, CloseInv, CloseImpl, Takes, stateVars
  <2>6. FreshInv(c)'
    BY <1>1 DEF FreshInv, TypeOK, CloseImpl
  <2> QED BY <2>1, <2>2, <2>3, <2>4, <2>5, <2>6 DEF ConnInv
<1>6. \A d \in Conns \ {c} : SameAt(d)
  BY DEF SameAt, CloseImpl, serverVars, threadVars, stateVars, netVars,
         writeVars
<1> QED BY <1>4, <1>5, <1>6, OnlyOneTouched

\* The socket cannot be shut.
LEMMA CloseImplThrowsStep ==
    ASSUME IndInv, NEW c \in Conns, CloseImplThrows(c)
    PROVE  IndInv'
<1>1. TypeOK /\ ConnInv(c) /\ ListInv(c)
  BY DEF IndInv, ConnInv
<1>2. Takes(c, "close", Tail(strand_[c]))
  BY <1>1, RunsTakes DEF CloseImplThrows
<1>3. Leaves(c, Tail(strand_[c]))
  BY <1>1, <1>2, TailLeaves DEF CloseImplThrows, Takes
<1>4. TypeOK'
  BY <1>1, <1>3
     DEF TypeOK, CloseImplThrows, Leaves, serverVars, threadVars, stateVars,
         netVars, writeVars
<1>5. ConnInv(c)'
  <2>1. ListInv(c)'
    BY <1>1 DEF ListInv, CloseImplThrows, serverVars, stateVars
  <2>2. ReadInv(c)'
    BY <1>1, <1>2
       DEF ConnInv, ReadInv, ReadResults, HeaderLines, Frames,
           CloseImplThrows, Takes, serverVars, netVars
  <2>3. WriteInv(c)'
    BY <1>1, <1>2
       DEF ConnInv, WriteInv, WriteResults, CloseImplThrows, Takes, stateVars,
           writeVars
  <2>4. HandshakeInv(c)'
    BY <1>1, <1>2
       DEF ConnInv, HandshakeInv, CloseImplThrows, Takes, stateVars, writeVars
  <2>5. CloseInv(c)'
    BY <1>1, <1>2
       DEF ConnInv, CloseInv, CloseImplThrows, Takes, stateVars, netVars
  <2>6. FreshInv(c)'
    BY <1>1, <1>2 DEF ConnInv, FreshInv, CloseImplThrows, Takes, netVars
  <2> QED BY <2>1, <2>2, <2>3, <2>4, <2>5, <2>6 DEF ConnInv
<1>6. \A d \in Conns \ {c} : SameAt(d)
  BY DEF SameAt, CloseImplThrows, serverVars, threadVars, stateVars, netVars,
         writeVars
<1> QED BY <1>4, <1>5, <1>6, OnlyOneTouched

\* A frame is handled in one of the three ways.
LEMMA HandleFrameStep ==
    ASSUME IndInv, NEW c \in Conns, HandleFrame(c)
    PROVE  IndInv'
<1>1. CASE Runs(c, "closeFrame")
  BY <1>1, HandleCloseFrameStep
<1>2. CASE Runs(c, "ping")
  BY <1>2, HandlePingStep
<1>3. CASE Runs(c, "frame")
  BY <1>3, HandleOtherFrameStep
<1> QED BY <1>1, <1>2, <1>3 DEF HandleFrame

\* A dump begins: it has all the listed sessions, and only them, ahead of it.
LEMMA OnDumpDataStep ==
    ASSUME IndInv, OnDumpData
    PROVE  IndInv'
<1>1. TypeOK
  BY DEF IndInv
<1>2. TypeOK'
  BY <1>1, WsAssumption
     DEF TypeOK, OnDumpData, threadVars, stateVars, netVars, writeVars
<1>3. ASSUME NEW d \in Conns PROVE ConnInv(d)'
  <2>1. ConnInv(d)
    BY DEF IndInv
  <2>2. ListInv(d)'
    BY <2>1 DEF OnDumpData, ConnInv, ListInv, stateVars
  <2>3. ReadInv(d)' /\ WriteInv(d)' /\ HandshakeInv(d)'
    BY <2>1
       DEF OnDumpData, ConnInv, ReadInv, WriteInv, HandshakeInv, threadVars,
           stateVars, netVars, writeVars
  <2>4. CloseInv(d)' /\ FreshInv(d)'
    BY <2>1
       DEF OnDumpData, ConnInv, CloseInv, FreshInv, threadVars, stateVars,
           netVars, writeVars
  <2> QED BY <2>2, <2>3, <2>4 DEF ConnInv
<1> QED BY <1>2, <1>3 DEF IndInv

\* A dump ends: it had no session left to visit.
LEMMA DumpReturnsStep ==
    ASSUME IndInv, DumpReturns
    PROVE  IndInv'
<1>1. TypeOK
  BY DEF IndInv
<1>2. TypeOK'
  BY <1>1 DEF TypeOK, DumpReturns, threadVars, stateVars, netVars, writeVars
<1>3. ASSUME NEW d \in Conns PROVE ConnInv(d)'
  <2>1. ConnInv(d)
    BY DEF IndInv
  <2>2. ListInv(d)'
    BY <2>1 DEF DumpReturns, ConnInv, ListInv, stateVars
  <2>3. ReadInv(d)' /\ WriteInv(d)' /\ HandshakeInv(d)'
    BY <2>1
       DEF DumpReturns, ConnInv, ReadInv, WriteInv, HandshakeInv, threadVars,
           stateVars, netVars, writeVars
  <2>4. CloseInv(d)' /\ FreshInv(d)'
    BY <2>1
       DEF DumpReturns, ConnInv, CloseInv, FreshInv, threadVars, stateVars,
           netVars, writeVars
  <2> QED BY <2>2, <2>3, <2>4 DEF ConnInv
<1> QED BY <1>2, <1>3 DEF IndInv

\* Neither the message box nor a stuttering step touches a connection.
LEMMA IdleStep ==
    ASSUME IndInv, DismissAlert \/ UNCHANGED wsVars
    PROVE  IndInv'
<1>1. TypeOK'
  BY DEF IndInv, TypeOK, DismissAlert, wsVars, serverVars, threadVars,
         stateVars, netVars, writeVars
<1>2. \A d \in Conns : SameAt(d)
  BY DEF SameAt, DismissAlert, wsVars, serverVars, threadVars, stateVars,
         netVars, writeVars
<1> QED BY <1>1, <1>2, Untouched DEF IndInv

-----------------------------------------------------------------------------
(* The invariant holds. *)

\* No connection is accepted at the start.
LEMMA InitInv == Init => IndInv
<1> SUFFICES ASSUME Init PROVE IndInv
  OBVIOUS
<1>1. TypeOK
  <2>1. <<>> \in Seq(TaskSet) /\ <<>> \in Seq(ChunkSet)
    OBVIOUS
  <2>2. /\ strand_ \in [Conns -> Seq(TaskSet)]
        /\ m_outbox \in [Conns -> Seq(ChunkSet)]
        /\ wire \in [Conns -> Seq(ChunkSet)]
    BY DEF Init
  <2>3. dumped \in 0..MaxRecords /\ inputs \in [Conns -> 0..MaxInputs]
    BY WsAssumption DEF Init
  <2>4. /\ m_parsing_headers \in [Conns -> BOOLEAN]
        /\ m_active \in [Conns -> BOOLEAN]
        /\ m_session \in [Conns -> BOOLEAN]
        /\ reading \in [Conns -> BOOLEAN]
        /\ writing \in [Conns -> {0, 1}]
    BY DEF Init
  <2>5. /\ socket_ \in [Conns -> {"none", "open", "rcvshut", "closed"}]
        /\ peer \in [Conns -> {"up", "eof", "gone"}]
    BY DEF Init
  <2>6. /\ sessions \subseteq Conns /\ visiting \subseteq Conns /\ dropping \subseteq Conns
        /\ dumping \in BOOLEAN /\ wsThread \in {"run", "alert"}
    BY DEF Init
  <2> QED BY <2>2, <2>3, <2>4, <2>5, <2>6 DEF TypeOK
<1>2. ASSUME NEW c \in Conns PROVE ConnInv(c)
  <2>1. /\ strand_[c] = <<>> /\ m_outbox[c] = <<>>
        /\ m_parsing_headers[c] = TRUE /\ m_active[c] = TRUE /\ m_session[c] = FALSE
        /\ reading[c] = FALSE /\ writing[c] = 0
        /\ sessions = {} /\ visiting = {} /\ dropping = {}
    BY DEF Init
  <2>2. \A ops : ~Has(strand_[c], ops) /\ Once(strand_[c], ops)
    BY <2>1, EmptyQueue
  <2> QED
    BY <2>1, <2>2
       DEF ConnInv, ListInv, ReadInv, WriteInv, HandshakeInv, CloseInv,
           FreshInv
<1> QED BY <1>1, <1>2 DEF IndInv

\* Every step keeps the invariant.
LEMMA NextInv == IndInv /\ [WsNext]_wsVars => IndInv'
<1> SUFFICES ASSUME IndInv, [WsNext]_wsVars PROVE IndInv'
  OBVIOUS
<1>1. CASE ServerStep
  BY <1>1, OnDumpDataStep, DumpReturnsStep, SessionWriteStep DEF ServerStep
<1>2. CASE DismissAlert \/ UNCHANGED wsVars
  BY <1>2, IdleStep
<1>3. ASSUME NEW c \in Conns, HandlerStep(c) PROVE IndInv'
  <2>1. CASE HandleReadError(c) \/ HandleHeaderLine(c) \/ HandleHandshakeRejected(c)
    BY <2>1, HandleReadErrorStep, HandleHeaderLineStep,
       HandleHandshakeRejectedStep
  <2>2. CASE HandleHandshakeAccepted(c) \/ HandshakeThrows(c) \/ DropHugeHandshake(c)
    BY <2>2, HandleHandshakeAcceptedStep, HandshakeThrowsStep,
       DropHugeHandshakeStep
  <2>3. CASE HandleFrame(c) \/ WriteImpl(c) \/ HandleWritten(c)
    BY <2>3, HandleFrameStep, WriteImplStep, HandleWrittenStep
  <2>4. CASE HandleWriteFailed(c) \/ CloseImpl(c) \/ CloseImplThrows(c)
    BY <2>4, HandleWriteFailedStep, CloseImplStep, CloseImplThrowsStep
  <2> QED BY <1>3, <2>1, <2>2, <2>3, <2>4 DEF HandlerStep
<1>4. ASSUME NEW c \in Conns, CompletionStep(c) PROVE IndInv'
  BY <1>4, HandleAcceptStep, ReadCompletesStep, ReadFailsStep,
     WriteCompletesStep, WriteFailsStep
     DEF CompletionStep
<1>5. ASSUME NEW c \in Conns, HeaderLineTooLong(c) \/ PeerCloses(c) \/ PeerFails(c)
      PROVE  IndInv'
  BY <1>5, HeaderLineTooLongStep, PeerClosesStep, PeerFailsStep
<1> QED BY <1>1, <1>2, <1>3, <1>4, <1>5 DEF WsNext

\* The inductive invariant holds in every state of every behaviour.
THEOREM Inductive == WsSpec => []IndInv
BY InitInv, NextInv, PTL DEF WsSpec

-----------------------------------------------------------------------------
(* What follows from it. *)

\* Every variable keeps its type: in particular at most one async_write is
\* outstanding on a connection (connection.cpp, write_impl and handle_write).
THEOREM TypeCorrect == WsSpec => []TypeOK
<1>1. IndInv => TypeOK
  BY DEF IndInv
<1> QED BY <1>1, Inductive, PTL

\* sessionsList never holds a session whose connection was destroyed, nor one
\* that its connection has let go (socksvr.cpp, on_connect and on_disconnect).
THEOREM SessionsAlive == WsSpec => []NoDanglingSession
<1>1. IndInv => NoDanglingSession
  <2> SUFFICES ASSUME IndInv, NEW c \in sessions PROVE Alive(c) /\ m_session[c]
    BY DEF NoDanglingSession
  <2>1. c \in Conns /\ ConnInv(c)
    BY DEF IndInv, TypeOK
  <2>2. reading[c] \/ Has(strand_[c], ReadResults) \/ c \in dropping
    BY <2>1 DEF ConnInv, ReadInv
  <2>3. Has(strand_[c], ReadResults) => strand_[c] # <<>>
    BY EmptyQueue
  <2> QED BY <2>1, <2>2, <2>3 DEF ConnInv, ListInv, Alive
<1> QED BY <1>1, Inductive, PTL

\* The loop of onDumpData never reaches an erased element of the list
\* (configs.cpp, onDumpData).
THEOREM IteratorSound == WsSpec => []DumpIteratorValid
<1>1. IndInv => DumpIteratorValid
  BY DEF IndInv, TypeOK, ConnInv, ListInv, DumpIteratorValid
<1> QED BY <1>1, Inductive, PTL

\* A connection has one read at a time, and a listed one always has it
\* (connection.cpp, handle_read and async_read).
THEOREM OneReadAtATime == WsSpec => []ReadDiscipline
<1>1. IndInv => ReadDiscipline
  BY DEF IndInv, ConnInv, ReadInv, ReadDiscipline
<1> QED BY <1>1, Inductive, PTL

\* A connection has one write at a time, of the front message of m_outbox, and
\* an active one with messages always has it (connection.cpp, write_impl and
\* handle_write).
THEOREM OneWriteAtATime == WsSpec => []WriteDiscipline
<1>1. IndInv => WriteDiscipline
  <2> SUFFICES ASSUME IndInv, NEW c \in Conns
               PROVE  /\ Once(strand_[c], WriteResults)
                      /\ writing[c] > 0 => ~Has(strand_[c], WriteResults)
                      /\ writing[c] > 0 \/ Has(strand_[c], WriteResults) => m_outbox[c] # <<>>
                      /\ m_active[c] /\ m_outbox[c] # <<>>
                            => writing[c] > 0 \/ Has(strand_[c], WriteResults)
    BY DEF WriteDiscipline
  <2>1. writing[c] > 0 <=> writing[c] = 1
    BY DEF IndInv, TypeOK
  <2> QED BY <2>1 DEF IndInv, ConnInv, WriteInv
<1> QED BY <1>1, Inductive, PTL

\* The step of a connection's handlers that closes its socket.
LEMMA SocketCloses ==
    ASSUME IndInv, WsNext, NEW c \in Conns,
           socket_[c] # "closed", socket_'[c] = "closed"
    PROVE  HandleWritten(c) \/ HandleWriteFailed(c) \/ CloseImpl(c)
<1>1. socket_ \in [Conns -> {"none", "open", "rcvshut", "closed"}]
  BY DEF IndInv, TypeOK
<1>2. CASE ServerStep \/ DismissAlert
  BY <1>2
     DEF ServerStep, OnDumpData, DumpReturns, SessionWrite, DismissAlert,
         netVars
<1>3. ASSUME NEW d \in Conns, CompletionStep(d) \/ PeerCloses(d) \/ PeerFails(d) PROVE FALSE
  BY <1>1, <1>3
     DEF CompletionStep, HandleAccept, ReadCompletes, ReadFails,
         WriteCompletes, WriteFails, PeerCloses, PeerFails, netVars
<1>4. ASSUME NEW d \in Conns, HeaderLineTooLong(d) PROVE FALSE
  BY <1>4 DEF HeaderLineTooLong, netVars
<1>5. ASSUME NEW d \in Conns, HandlerStep(d)
      PROVE  d = c /\ (HandleWritten(c) \/ HandleWriteFailed(c) \/ CloseImpl(c))
  <2>1. CASE HandleWritten(d)
    BY <1>1, <2>1 DEF HandleWritten
  <2>2. CASE HandleWriteFailed(d)
    BY <1>1, <2>2 DEF HandleWriteFailed
  <2>3. CASE CloseImpl(d)
    BY <1>1, <2>3 DEF CloseImpl
  <2>4. CASE HandleReadError(d) \/ HandleHeaderLine(d) \/ HandleHandshakeRejected(d)
    BY <2>4
       DEF HandleReadError, HandleHeaderLine, HandleHandshakeRejected, netVars
  <2>5. CASE HandleHandshakeAccepted(d) \/ HandshakeThrows(d) \/ DropHugeHandshake(d)
    BY <2>5
       DEF HandleHandshakeAccepted, HandshakeThrows, DropHugeHandshake,
           netVars
  <2>6. CASE HandleFrame(d) \/ WriteImpl(d) \/ CloseImplThrows(d)
    BY <2>6 DEF HandleFrame, WriteImpl, CloseImplThrows, netVars
  <2> QED BY <1>5, <2>1, <2>2, <2>3, <2>4, <2>5, <2>6 DEF HandlerStep
<1> QED BY <1>2, <1>3, <1>4, <1>5 DEF WsNext

\* A socket is closed only when the connection was asked to shut down and, the
\* network being up, everything in m_outbox was sent (connection.cpp,
\* handle_write and close_impl).
THEOREM FlushedWhenClosed == WsSpec => CloseAfterFlush
<1>1. ASSUME IndInv, WsNext, NEW c \in Conns,
             socket_[c] # "closed", socket_'[c] = "closed", peer[c] # "gone"
      PROVE  ~m_active[c] /\ Unsent(c)' = <<>>
  <2>1. TypeOK /\ ConnInv(c)
    BY <1>1 DEF IndInv
  <2>2. HandleWritten(c) \/ HandleWriteFailed(c) \/ CloseImpl(c)
    BY <1>1, SocketCloses
  <2>3. CASE HandleWritten(c)
    <3>1. Takes(c, "written", Tail(strand_[c]))
      BY <2>1, <2>3, RunsTakes DEF HandleWritten
    <3>2. m_outbox[c] # <<>> /\ m_outbox[c] \in Seq(ChunkSet)
      BY <2>1, <3>1 DEF ConnInv, WriteInv, Takes, WriteResults, TypeOK
    <3>3. Len(m_outbox[c]) = 1 /\ ~m_active[c]
      BY <1>1, <2>3 DEF HandleWritten
    <3>4. m_outbox'[c] = <<>>
      BY <2>1, <2>3, <3>3, TailLength DEF HandleWritten, TypeOK
    <3>5. strand_'[c] = Tail(strand_[c])
      BY <2>1, <2>3 DEF HandleWritten, TypeOK
    <3>6. ~Has(strand_'[c], WriteResults)
      BY <2>1, <3>1, <3>5 DEF ConnInv, WriteInv, Takes, WriteResults
    <3> QED BY <3>3, <3>4 DEF Unsent
  <2>4. CASE HandleWriteFailed(c)
    <3>1. Takes(c, "failed", Tail(strand_[c]))
      BY <2>1, <2>4, RunsTakes DEF HandleWriteFailed
    <3> QED BY <1>1, <2>1, <3>1 DEF ConnInv, CloseInv, Takes
  <2>5. CASE CloseImpl(c)
    <3>1. Takes(c, "close", Tail(strand_[c]))
      BY <2>1, <2>5, RunsTakes DEF CloseImpl
    <3>2. ~m_active[c]
      BY <2>1, <3>1 DEF ConnInv, CloseInv, Takes
    <3>3. m_outbox[c] = <<>>
      BY <1>1, <2>5 DEF CloseImpl
    <3>4. m_outbox'[c] = <<>> /\ strand_'[c] = Tail(strand_[c])
      BY <2>1, <2>5, <3>3 DEF CloseImpl, writeVars, TypeOK
    <3>5. ~Has(strand_'[c], WriteResults)
      BY <2>1, <3>1, <3>3, <3>4 DEF ConnInv, WriteInv, Takes
    <3> QED BY <3>2, <3>4 DEF Unsent
  <2> QED BY <2>2, <2>3, <2>4, <2>5
<1>2. IndInv /\ [WsNext]_wsVars
        => [\A c \in Conns :
               socket_[c] # "closed" /\ socket_'[c] = "closed" /\ peer[c] # "gone"
                  => ~m_active[c] /\ Unsent(c)' = <<>>]_wsVars
  BY <1>1
<1> QED BY <1>2, Inductive, PTL DEF WsSpec, CloseAfterFlush

-----------------------------------------------------------------------------
(* Whole frames, and the records owed: the invariant. *)

\* FramesWhole of one sequence of messages.
WholeBut(s) ==
    \A i \in 1..Len(s) :
        /\ s[i].kind = "handshake" <=> i = 1
        /\ s[i].kind = "body" => s[i - 1] = Chunk("head", s[i].n)
        /\ s[i].kind = "head" /\ i < Len(s) => s[i + 1] = Chunk("body", s[i].n)

\* Moreover the last frame is complete.
Whole(s) == WholeBut(s) /\ \A i \in 1..Len(s) : s[i].kind = "head" => i < Len(s)

\* What was sent and what is to be sent.
Stream(c) == wire[c] \o Unsent(c)

\* A task that does op comes before all writes of the queue.
Leads(q, op) ==
    \E i \in 1..Len(q) : /\ q[i].op = op
                         /\ \A j \in 1..Len(q) : q[j].op \in PostedWrites => i <= j

Silent(c) == wire[c] = <<>> /\ m_outbox[c] = <<>>

\* The response to the handshake was written, is posted, or is never made.
Opened(c)  == Stream(c) # <<>> /\ ~Has(strand_[c], {"handshake"})
Waiting(c) == Silent(c) /\ Leads(strand_[c], "handshake") /\ Once(strand_[c], {"handshake"})
Refused(c) == Silent(c) /\ Leads(strand_[c], "close") /\ ~Has(strand_[c], {"handshake"})

WireInv(c) ==
    /\ WholeBut(wire[c])
    /\ m_parsing_headers[c] => wire[c] = <<>>
    /\ Has(strand_[c], {"reject"}) => m_parsing_headers[c] /\ m_active[c]
    /\ ~m_parsing_headers[c] /\ ~Lost(c) =>
         /\ Whole(Stream(c))
         /\ Opened(c) \/ Waiting(c) \/ Refused(c)

FramesInv == \A c \in Conns : WireInv(c)

-----------------------------------------------------------------------------
(* Sequences of messages. *)

\* Nothing has been cut.
LEMMA WholeEmpty == Whole(<<>>)
BY DEF Whole, WholeBut

\* What was sent is a beginning of the stream.
LEMMA WholeBegin ==
    ASSUME NEW s \in Seq(ChunkSet), NEW t \in Seq(ChunkSet), Whole(s \o t)
    PROVE  WholeBut(s)
<1> DEFINE r == s \o t
<1>1. /\ r \in Seq(ChunkSet) /\ Len(r) = Len(s) + Len(t)
      /\ Len(s) \in Nat /\ Len(t) \in Nat
      /\ \A i \in 1..Len(s) : r[i] = s[i]
  OBVIOUS
<1> HIDE DEF r
<1> SUFFICES ASSUME NEW i \in 1..Len(s)
             PROVE  /\ s[i].kind = "handshake" <=> i = 1
                    /\ s[i].kind = "body" => s[i - 1] = Chunk("head", s[i].n)
                    /\ s[i].kind = "head" /\ i < Len(s) => s[i + 1] = Chunk("body", s[i].n)
  BY DEF WholeBut
<1>2. i \in 1..Len(r) /\ r[i] = s[i]
  BY <1>1
<1>3. WholeBut(r)
  BY DEF Whole, r
<1>4. s[i].kind = "handshake" <=> i = 1
  BY <1>2, <1>3 DEF WholeBut
<1>5. ASSUME s[i].kind = "body" PROVE s[i - 1] = Chunk("head", s[i].n)
  <2>1. i # 1
    BY <1>4, <1>5
  <2>2. i - 1 \in 1..Len(s)
    BY <2>1
  <2>3. r[i - 1] = Chunk("head", r[i].n)
    BY <1>2, <1>3, <1>5 DEF WholeBut
  <2> QED BY <1>1, <1>2, <2>2, <2>3
<1>6. ASSUME s[i].kind = "head", i < Len(s) PROVE s[i + 1] = Chunk("body", s[i].n)
  <2>1. i + 1 \in 1..Len(s) /\ i < Len(r)
    BY <1>1, <1>6
  <2>2. r[i + 1] = Chunk("body", r[i].n)
    BY <1>2, <1>3, <1>6, <2>1 DEF WholeBut
  <2> QED BY <1>1, <1>2, <2>1, <2>2
<1> QED BY <1>4, <1>5, <1>6

\* A write adds whole frames: the response to an empty stream, all else behind it.
LEMMA WholeGrows ==
    ASSUME NEW s \in Seq(ChunkSet), Whole(s), NEW t \in TaskSet, t.op \in PostedWrites,
           t.op = "handshake" <=> s = <<>>
    PROVE  Whole(s \o ChunksOf(t))
<1> DEFINE k == ChunksOf(t)
           r == s \o k
<1>1. CASE t.op = "log"
  <2>1. /\ k = <<Chunk("head", t.n), Chunk("body", t.n)>>
        /\ Chunk("head", t.n) \in ChunkSet /\ Chunk("body", t.n) \in ChunkSet
    BY <1>1 DEF ChunksOf, Chunk, ChunkSet, TaskSet
  <2>2. /\ Len(s) \in Nat /\ Len(s) # 0
        /\ Len(r) = Len(s) + 2
        /\ \A i \in 1..Len(s) : r[i] = s[i]
        /\ r[Len(s) + 1] = Chunk("head", t.n)
        /\ r[Len(s) + 2] = Chunk("body", t.n)
    <3>1. Len(s) \in Nat /\ Len(s) # 0
      BY <1>1, EmptySeq
    <3> QED BY <2>1, <3>1
  <2> HIDE DEF r, k
  <2>3. ASSUME NEW i \in 1..Len(r)
        PROVE  /\ r[i].kind = "handshake" <=> i = 1
               /\ r[i].kind = "body" => r[i - 1] = Chunk("head", r[i].n)
               /\ r[i].kind = "head" => i < Len(r) /\ r[i + 1] = Chunk("body", r[i].n)
    <3>1. CASE i \in 1..Len(s)
      <4>1. r[i] = s[i] /\ (s[i].kind = "handshake" <=> i = 1)
        BY <2>2, <3>1 DEF Whole, WholeBut
      <4>2. ASSUME s[i].kind = "body" PROVE r[i - 1] = Chunk("head", s[i].n)
        <5>1. i - 1 \in 1..Len(s)
          BY <2>2, <3>1, <4>1, <4>2
        <5>2. s[i - 1] = Chunk("head", s[i].n)
          BY <3>1, <4>2 DEF Whole, WholeBut
        <5> QED BY <2>2, <5>1, <5>2
      <4>3. ASSUME s[i].kind = "head" PROVE i < Len(r) /\ r[i + 1] = Chunk("body", s[i].n)
        <5>1. i < Len(s) /\ s[i + 1] = Chunk("body", s[i].n)
          BY <3>1, <4>3 DEF Whole, WholeBut
        <5>2. i + 1 \in 1..Len(s)
          BY <2>2, <3>1, <5>1
        <5> QED BY <2>2, <5>1, <5>2
      <4> QED BY <4>1, <4>2, <4>3
    <3>2. CASE i = Len(s) + 1
      <4>1. r[i] = Chunk("head", t.n) /\ i # 1 /\ i < Len(r) /\ r[i + 1] = Chunk("body", t.n)
        BY <2>2, <3>2
      <4> QED BY <4>1 DEF Chunk
    <3>3. CASE i = Len(s) + 2
      <4>1. r[i] = Chunk("body", t.n) /\ i # 1 /\ r[i - 1] = Chunk("head", t.n)
        BY <2>2, <3>3
      <4> QED BY <4>1 DEF Chunk
    <3> QED BY <2>2, <3>1, <3>2, <3>3
  <2>4. Whole(r)
    BY <2>3 DEF Whole, WholeBut
  <2> QED BY <2>4 DEF r, k
<1>2. CASE t.op # "log"
  <2>1. k = <<Chunk(t.op, 0)>> /\ Chunk(t.op, 0) \in ChunkSet
    BY <1>2 DEF ChunksOf, Chunk, ChunkSet, PostedWrites
  <2>2. /\ Len(s) \in Nat /\ (Len(s) = 0 <=> s = <<>>)
        /\ Len(r) = Len(s) + 1
        /\ \A i \in 1..Len(s) : r[i] = s[i]
        /\ r[Len(s) + 1] = Chunk(t.op, 0)
    <3>1. Len(s) \in Nat /\ (Len(s) = 0 <=> s = <<>>)
      BY EmptySeq
    <3> QED BY <2>1, <3>1
  <2> HIDE DEF r, k
  <2>3. ASSUME NEW i \in 1..Len(r)
        PROVE  /\ r[i].kind = "handshake" <=> i = 1
               /\ r[i].kind = "body" => r[i - 1] = Chunk("head", r[i].n)
               /\ r[i].kind = "head" => i < Len(r) /\ r[i + 1] = Chunk("body", r[i].n)
    <3>1. CASE i \in 1..Len(s)
      <4>1. r[i] = s[i] /\ (s[i].kind = "handshake" <=> i = 1)
        BY <2>2, <3>1 DEF Whole, WholeBut
      <4>2. ASSUME s[i].kind = "body" PROVE r[i - 1] = Chunk("head", s[i].n)
        <5>1. i - 1 \in 1..Len(s)
          BY <2>2, <3>1, <4>1, <4>2
        <5>2. s[i - 1] = Chunk("head", s[i].n)
          BY <3>1, <4>2 DEF Whole, WholeBut
        <5> QED BY <2>2, <5>1, <5>2
      <4>3. ASSUME s[i].kind = "head" PROVE i < Len(r) /\ r[i + 1] = Chunk("body", s[i].n)
        <5>1. i < Len(s) /\ s[i + 1] = Chunk("body", s[i].n)
          BY <3>1, <4>3 DEF Whole, WholeBut
        <5>2. i + 1 \in 1..Len(s)
          BY <2>2, <3>1, <5>1
        <5> QED BY <2>2, <5>1, <5>2
      <4> QED BY <4>1, <4>2, <4>3
    <3>2. CASE i = Len(s) + 1
      <4>1. r[i] = Chunk(t.op, 0) /\ (i = 1 <=> s = <<>>)
        BY <2>2, <3>2
      <4> QED BY <1>2, <4>1 DEF Chunk, PostedWrites
    <3> QED BY <2>2, <3>1, <3>2
  <2>4. Whole(r)
    BY <2>3 DEF Whole, WholeBut
  <2> QED BY <2>4 DEF r, k
<1> QED BY <1>1, <1>2

\* The front message stays where it is when others are added.
LEMMA TailConcat ==
    ASSUME NEW s \in Seq(ChunkSet), NEW t \in Seq(ChunkSet), s # <<>>
    PROVE  Tail(s \o t) = Tail(s) \o t
<1>1. s \o t \in Seq(ChunkSet) /\ s \o t # <<>>
  BY ConcatEqualIffEmpty, ConcatProperties
<1>2. /\ Tail(s) \in Seq(ChunkSet) /\ Len(Tail(s)) = Len(s) - 1
      /\ \A i \in 1..Len(Tail(s)) : Tail(s)[i] = s[i + 1]
      /\ Len(s) \in Nat /\ Len(s) > 0 /\ Len(t) \in Nat
  BY HeadTailProperties, LenProperties, EmptySeq
<1>3. /\ Len(s \o t) = Len(s) + Len(t)
      /\ \A i \in 1..(Len(s) + Len(t)) :
            (s \o t)[i] = IF i <= Len(s) THEN s[i] ELSE t[i - Len(s)]
  BY ConcatProperties
<1>4. /\ Tail(s \o t) \in Seq(ChunkSet) /\ Len(Tail(s \o t)) = Len(s \o t) - 1
      /\ \A i \in 1..Len(Tail(s \o t)) : Tail(s \o t)[i] = (s \o t)[i + 1]
  BY <1>1, HeadTailProperties
<1>5. /\ Tail(s) \o t \in Seq(ChunkSet) /\ Len(Tail(s) \o t) = Len(Tail(s)) + Len(t)
      /\ \A i \in 1..(Len(Tail(s)) + Len(t)) :
            (Tail(s) \o t)[i] = IF i <= Len(Tail(s)) THEN Tail(s)[i] ELSE t[i - Len(Tail(s))]
  BY <1>2, ConcatProperties
<1> DEFINE a == Tail(s \o t)
           b == Tail(s) \o t
<1>6. Len(a) = Len(b)
  BY <1>2, <1>3, <1>4, <1>5
<1>7. ASSUME NEW i \in 1..Len(a) PROVE a[i] = b[i]
  <2>1. i + 1 \in 1..(Len(s) + Len(t)) /\ i \in 1..(Len(Tail(s)) + Len(t))
    BY <1>2, <1>3, <1>4
  <2>2. a[i] = IF i + 1 <= Len(s) THEN s[i + 1] ELSE t[i + 1 - Len(s)]
    BY <1>3, <1>4, <2>1
  <2>3. b[i] = IF i <= Len(Tail(s)) THEN Tail(s)[i] ELSE t[i - Len(Tail(s))]
    BY <1>5, <2>1
  <2>4. CASE i + 1 <= Len(s)
    <3>1. i \in 1..Len(Tail(s))
      BY <1>2, <2>4
    <3> QED BY <1>2, <2>2, <2>3, <2>4, <3>1
  <2>5. CASE ~(i + 1 <= Len(s))
    <3>1. ~(i <= Len(Tail(s))) /\ i + 1 - Len(s) = i - Len(Tail(s))
      BY <1>2, <2>1, <2>5
    <3> QED BY <2>2, <2>3, <2>5, <3>1
  <2> QED BY <2>4, <2>5
<1> HIDE DEF a, b
<1>8. a = b
  BY <1>4, <1>5, <1>6, <1>7, SeqEqual DEF a, b
<1> QED BY <1>8 DEF a, b

\* write_impl and write_many_impl have at least one message to queue.
LEMMA ChunksOfWrite ==
    ASSUME NEW t \in TaskSet, t.op \in PostedWrites
    PROVE  ChunksOf(t) \in Seq(ChunkSet) /\ ChunksOf(t) # <<>>
<1>1. CASE t.op = "log"
  <2>1. Chunk("head", t.n) \in ChunkSet /\ Chunk("body", t.n) \in ChunkSet
    BY DEF Chunk, ChunkSet, TaskSet
  <2> QED BY <1>1, <2>1 DEF ChunksOf
<1>2. CASE t.op # "log"
  <2>1. Chunk(t.op, 0) \in ChunkSet
    BY <1>2 DEF Chunk, ChunkSet, PostedWrites
  <2> QED BY <1>2, <2>1 DEF ChunksOf
<1> QED BY <1>1, <1>2

\* Concatenation is associative.
LEMMA ConcatThree ==
    \A s, t, u \in Seq(ChunkSet) : s \o (t \o u) = (s \o t) \o u
<1> SUFFICES ASSUME NEW s \in Seq(ChunkSet), NEW t \in Seq(ChunkSet), NEW u \in Seq(ChunkSet)
             PROVE  s \o (t \o u) = (s \o t) \o u
  OBVIOUS
<1> DEFINE a == s \o (t \o u)
           b == (s \o t) \o u
<1>1. /\ Len(s) \in Nat /\ Len(t) \in Nat /\ Len(u) \in Nat
      /\ t \o u \in Seq(ChunkSet) /\ Len(t \o u) = Len(t) + Len(u)
      /\ s \o t \in Seq(ChunkSet) /\ Len(s \o t) = Len(s) + Len(t)
  BY ConcatProperties, LenProperties
<1>2. /\ a \in Seq(ChunkSet) /\ Len(a) = Len(s) + Len(t \o u)
      /\ b \in Seq(ChunkSet) /\ Len(b) = Len(s \o t) + Len(u)
  BY <1>1, ConcatProperties
<1>3. Len(a) = Len(b)
  BY <1>1, <1>2
<1>4. ASSUME NEW i \in 1..Len(a) PROVE a[i] = b[i]
  OBVIOUS
<1> HIDE DEF a, b
<1>5. a = b
  BY <1>2, <1>3, <1>4, SeqEqual
<1> QED BY <1>5 DEF a, b

\* Sending the front message moves it from what is to be sent to what was sent.
LEMMA HeadSent ==
    ASSUME NEW w \in Seq(ChunkSet), NEW q \in Seq(ChunkSet), q # <<>>
    PROVE  /\ Append(w, Head(q)) \in Seq(ChunkSet)
           /\ Append(w, Head(q)) \o Tail(q) = w \o q
  OBVIOUS

-----------------------------------------------------------------------------
(* Queues, and what is written from them. *)

\* r is q but for tasks that neither write nor end a write.
Keeps(q, r) ==
    /\ \A op \in {"handshake", "close"} : Leads(q, op) => Leads(r, op)
    /\ Has(r, {"handshake"}) <=> Has(q, {"handshake"})
    /\ Once(q, {"handshake"}) => Once(r, {"handshake"})
    /\ Has(r, WriteResults) <=> Has(q, WriteResults)

\* What is appended never comes first, unless nothing is there to be written.
LEMMA LeadsAppend ==
    ASSUME NEW q \in Seq(TaskSet), NEW t \in TaskSet, NEW op
    PROVE  /\ Leads(q, op) => Leads(Append(q, t), op)
           /\ t.op = op /\ ~Has(q, PostedWrites) => Leads(Append(q, t), op)
<1> DEFINE r == Append(q, t)
<1>1. /\ Len(r) = Len(q) + 1
      /\ Len(q) \in Nat
      /\ \A i \in 1..Len(q) : r[i] = q[i]
      /\ r[Len(q) + 1] = t
  OBVIOUS
<1> HIDE DEF r
<1>2. ASSUME Leads(q, op) PROVE Leads(r, op)
  <2>1. PICK i \in 1..Len(q) : q[i].op = op /\ \A j \in 1..Len(q) : q[j].op \in PostedWrites => i <= j
    BY <1>2 DEF Leads
  <2>2. i \in 1..Len(r) /\ r[i].op = op
    BY <1>1, <2>1
  <2>3. ASSUME NEW j \in 1..Len(r), r[j].op \in PostedWrites PROVE i <= j
    <3>1. j \in 1..Len(q) \/ j = Len(q) + 1
      BY <1>1
    <3> QED BY <1>1, <2>1, <2>3, <3>1
  <2> QED BY <2>2, <2>3 DEF Leads
<1>3. ASSUME t.op = op, ~Has(q, PostedWrites) PROVE Leads(r, op)
  <2>1. Len(r) \in 1..Len(r) /\ r[Len(r)].op = op
    BY <1>1, <1>3
  <2>2. ASSUME NEW j \in 1..Len(r), r[j].op \in PostedWrites PROVE Len(r) <= j
    <3>1. j \in 1..Len(q) \/ j = Len(r)
      BY <1>1
    <3>2. j \notin 1..Len(q)
      BY <1>1, <1>3, <2>2 DEF Has
    <3> QED BY <1>1, <3>1, <3>2
  <2> QED BY <2>1, <2>2 DEF Leads
<1> QED BY <1>2, <1>3 DEF r

\* Only the leading task itself runs before the others.
LEMMA LeadsTail ==
    ASSUME NEW q \in Seq(TaskSet), q # <<>>, NEW op, Leads(q, op)
    PROVE  /\ Head(q).op # op => Leads(Tail(q), op)
           /\ Head(q).op \in PostedWrites => Head(q).op = op
<1> DEFINE r == Tail(q)
<1>1. /\ Len(q) \in Nat /\ Len(q) > 0
      /\ Len(r) = Len(q) - 1
      /\ \A i \in 1..Len(r) : r[i] = q[i + 1]
      /\ Head(q) = q[1]
  OBVIOUS
<1> HIDE DEF r
<1>2. PICK i \in 1..Len(q) : q[i].op = op /\ \A j \in 1..Len(q) : q[j].op \in PostedWrites => i <= j
  BY DEF Leads
<1>3. ASSUME Head(q).op # op PROVE Leads(r, op)
  <2>1. i # 1
    BY <1>1, <1>2, <1>3
  <2>2. i - 1 \in 1..Len(r) /\ r[i - 1] = q[i]
    BY <1>1, <2>1
  <2>3. ASSUME NEW j \in 1..Len(r), r[j].op \in PostedWrites PROVE i - 1 <= j
    <3>1. j + 1 \in 1..Len(q) /\ q[j + 1].op \in PostedWrites
      BY <1>1, <2>3
    <3>2. i <= j + 1
      BY <1>2, <3>1
    <3> QED BY <1>1, <3>2
  <2> QED BY <1>2, <2>2, <2>3 DEF Leads
<1>4. ASSUME Head(q).op \in PostedWrites PROVE Head(q).op = op
  <2>1. 1 \in 1..Len(q) /\ q[1].op \in PostedWrites
    BY <1>1, <1>4
  <2>2. i = 1
    BY <1>1, <1>2, <2>1
  <2> QED BY <1>1, <1>2, <2>2
<1> QED BY <1>3, <1>4 DEF r

\* Posting a task that neither is a response nor ends a write.
LEMMA KeepsAppend ==
    ASSUME NEW q \in Seq(TaskSet), NEW t \in TaskSet, t.op \notin {"handshake"} \cup WriteResults
    PROVE  Keeps(q, Append(q, t))
  BY AppendQueue, LeadsAppend DEF Keeps

\* Running a task that neither writes, closes, nor ends a write.
LEMMA KeepsTail ==
    ASSUME NEW q \in Seq(TaskSet), q # <<>>,
           Head(q).op \notin PostedWrites \cup {"close"} \cup WriteResults
    PROVE  Keeps(q, Tail(q))
<1>1. ASSUME NEW op \in {"handshake", "close"}, Leads(q, op) PROVE Leads(Tail(q), op)
  BY <1>1, LeadsTail DEF PostedWrites
<1> QED BY <1>1, TailQueue DEF Keeps, PostedWrites

\* Appending another task adds none that does one of ops.
LEMMA StillWithout ==
    ASSUME NEW q \in Seq(TaskSet), NEW t \in TaskSet, NEW ops, ~Has(q, ops), t.op \notin ops
    PROVE  ~Has(Append(q, t), ops)
  BY AppendQueue

\* close() only adds close_impl.
LEMMA KeepsClose ==
    ASSUME TypeOK, NEW c \in Conns, NEW q \in Seq(TaskSet), Close(c, q)
    PROVE  Keeps(q, strand_'[c])
<1>1. Task("close") \in TaskSet /\ Task("close").op \notin {"handshake"} \cup WriteResults
  BY DEF Task, TaskSet, WriteResults
<1>2. strand_'[c] = q \/ strand_'[c] = Append(q, Task("close"))
  BY DEF Close, TypeOK
<1>3. Keeps(q, q)
  BY DEF Keeps
<1>4. Keeps(q, Append(q, Task("close")))
  BY <1>1, KeepsAppend
<1> QED BY ONLY <1>2, <1>3, <1>4

-----------------------------------------------------------------------------
(* Steps that write nothing. *)

\* Nothing is written on d, and its strand is kept but for tasks that do not
\* write; a handshake is refused on an active connection only.
Quiet(d) ==
    /\ wire'[d] = wire[d]
    /\ m_outbox'[d] = m_outbox[d]
    /\ m_parsing_headers'[d] = m_parsing_headers[d]
    /\ peer[d] = "gone" => peer'[d] = "gone"
    /\ socket_[d] = "closed" => socket_'[d] = "closed"
    /\ Keeps(strand_[d], strand_'[d])
    /\ Has(strand_'[d], {"reject"}) => m_parsing_headers[d] /\ m_active'[d]

\* A step that writes nothing keeps the invariant.
LEMMA QuietWire ==
    ASSUME NEW d \in Conns, WireInv(d), Quiet(d)
    PROVE  WireInv(d)'
<1>1. Unsent(d)' = Unsent(d) /\ Stream(d)' = Stream(d)
  BY DEF Quiet, Keeps, Unsent, Stream
<1>2. Lost(d) => Lost(d)'
  BY DEF Quiet, Lost
<1>3. /\ Opened(d) => Opened(d)'
      /\ Waiting(d) => Waiting(d)'
      /\ Refused(d) => Refused(d)'
  BY <1>1 DEF Quiet, Keeps, Opened, Waiting, Refused, Silent
<1> QED BY <1>1, <1>2, <1>3 DEF Quiet, WireInv

\* Nothing of d changes.
Still(d) ==
    /\ wire'[d] = wire[d]
    /\ m_outbox'[d] = m_outbox[d]
    /\ m_parsing_headers'[d] = m_parsing_headers[d]
    /\ m_active'[d] = m_active[d]
    /\ peer'[d] = peer[d]
    /\ socket_'[d] = socket_[d]
    /\ strand_'[d] = strand_[d]

\* So does a step of another connection.
LEMMA StillWire ==
    ASSUME NEW d \in Conns, WireInv(d), Still(d)
    PROVE  WireInv(d)'
<1>1. Quiet(d)
  BY DEF Quiet, Still, Keeps, WireInv
<1> QED BY <1>1, QuietWire

\* What is left to show for a step of c alone.
LEMMA OnlyOneWritten ==
    ASSUME FramesInv, NEW c \in Conns, WireInv(c)', \A d \in Conns \ {c} : Still(d)
    PROVE  FramesInv'
  BY StillWire DEF FramesInv

\* The same for a step that writes nothing on c.
LEMMA OnlyOneQuiet ==
    ASSUME FramesInv, NEW c \in Conns, Quiet(c), \A d \in Conns \ {c} : Still(d)
    PROVE  FramesInv'
  BY QuietWire, OnlyOneWritten DEF FramesInv

\* The loop of onDumpData posts a write.
LEMMA SessionWriteFrames ==
    ASSUME IndInv, FramesInv, NEW c \in Conns, SessionWrite(c)
    PROVE  FramesInv'
<1>1. TypeOK /\ WireInv(c)
  BY DEF IndInv, FramesInv
<1>2. /\ LogWrite(dumped) \in TaskSet
      /\ LogWrite(dumped).op \notin {"handshake", "reject"} \cup WriteResults
  BY <1>1 DEF LogWrite, TaskSet, PostedWrites, WriteResults, TypeOK
<1>3. strand_[c] \in Seq(TaskSet) /\ strand_'[c] = Append(strand_[c], LogWrite(dumped))
  BY <1>1 DEF TypeOK, SessionWrite
<1>4. Keeps(strand_[c], strand_'[c])
  BY <1>2, <1>3, KeepsAppend
<1>5. Has(strand_'[c], {"reject"}) => Has(strand_[c], {"reject"})
  BY <1>2, <1>3, AppendQueue
<1>6. Quiet(c)
  BY <1>1, <1>4, <1>5
     DEF Quiet, WireInv, SessionWrite, stateVars, netVars, writeVars
<1>7. \A d \in Conns \ {c} : Still(d)
  BY <1>1 DEF Still, TypeOK, SessionWrite, stateVars, netVars, writeVars
<1> QED BY <1>6, <1>7, OnlyOneQuiet

\* The accept, and what happens at the other end of the connection.
LEMMA NetworkFrames ==
    ASSUME IndInv, FramesInv, NEW c \in Conns,
           PeerCloses(c) \/ PeerFails(c) \/ HandleAccept(c)
    PROVE  FramesInv'
<1>1. TypeOK /\ WireInv(c)
  BY DEF IndInv, FramesInv
<1>2. /\ UNCHANGED <<wire, m_outbox, m_parsing_headers, m_active, strand_>>
      /\ peer[c] = "gone" => peer'[c] = "gone"
      /\ socket_[c] = "closed" => socket_'[c] = "closed"
      /\ \A d \in Conns \ {c} : peer'[d] = peer[d] /\ socket_'[d] = socket_[d]
  BY <1>1
     DEF TypeOK, PeerCloses, PeerFails, HandleAccept, stateVars, netVars,
         writeVars
<1>3. Quiet(c)
  BY <1>1, <1>2 DEF Quiet, Keeps, WireInv
<1>4. \A d \in Conns \ {c} : Still(d)
  BY <1>2 DEF Still
<1> QED BY <1>3, <1>4, OnlyOneQuiet

\* A read ends.  A handshake is found wanting on an active connection only.
LEMMA ReadFrames ==
    ASSUME IndInv, FramesInv, NEW c \in Conns, ReadCompletes(c) \/ ReadFails(c)
    PROVE  FramesInv'
<1>1. TypeOK /\ WireInv(c)
  BY DEF IndInv, FramesInv
<1>2. PICK what \in ReadResults :
          /\ strand_' = [strand_ EXCEPT ![c] = Append(@, Task(what))]
          /\ what = "reject" => m_parsing_headers[c] /\ m_active[c]
  BY DEF ReadCompletes, ReadFails, Incoming, ReadResults, HeaderLines, Frames
<1>3. /\ Task(what) \in TaskSet /\ Task(what).op = what
      /\ what \notin {"handshake"} \cup WriteResults
  BY DEF Task, TaskSet, ReadResults, HeaderLines, Frames, WriteResults
<1>4. strand_[c] \in Seq(TaskSet) /\ strand_'[c] = Append(strand_[c], Task(what))
  BY <1>1, <1>2 DEF TypeOK
<1>5. Keeps(strand_[c], strand_'[c])
  BY <1>3, <1>4, KeepsAppend
<1>6. Has(strand_'[c], {"reject"}) => Has(strand_[c], {"reject"}) \/ what = "reject"
  BY <1>3, <1>4, AppendQueue
<1>7. UNCHANGED <<stateVars, socket_, peer, writeVars>>
  BY DEF ReadCompletes, ReadFails
<1>8. Quiet(c)
  BY <1>1, <1>2, <1>5, <1>6, <1>7 DEF Quiet, WireInv, stateVars, writeVars
<1>9. \A d \in Conns \ {c} : Still(d)
  BY <1>1, <1>2, <1>7 DEF Still, TypeOK, stateVars, writeVars
<1> QED BY <1>8, <1>9, OnlyOneQuiet

\* What close() leaves alone, and that no refusal of a handshake may be queued.
LEMMA CloseFrames ==
    ASSUME TypeOK, FramesInv, NEW c \in Conns, NEW q \in Seq(TaskSet), Close(c, q),
           Keeps(strand_[c], q), ~Has(q, {"reject"}),
           UNCHANGED <<m_parsing_headers, socket_, peer, writeVars>>
    PROVE  FramesInv'
<1>1. Keeps(strand_[c], strand_'[c])
  BY KeepsClose DEF Keeps
<1>2. strand_' \in [Conns -> Seq(TaskSet)] /\ ~Has(strand_'[c], {"reject"})
  <2>1. Task("close") \in TaskSet /\ Task("close").op # "reject"
    BY DEF Task, TaskSet
  <2>2. strand_' = [strand_ EXCEPT ![c] = q] \/ strand_' = [strand_ EXCEPT ![c] = Append(q, Task("close"))]
    BY DEF Close
  <2>3. ~Has(Append(q, Task("close")), {"reject"})
    BY <2>1, AppendQueue
  <2>4. Append(q, Task("close")) \in Seq(TaskSet)
    BY <2>1
  <2>5. strand_ \in [Conns -> Seq(TaskSet)]
    BY DEF TypeOK
  <2>6. CASE strand_' = [strand_ EXCEPT ![c] = q]
    BY <2>5, <2>6
  <2>7. CASE strand_' = [strand_ EXCEPT ![c] = Append(q, Task("close"))]
    BY ONLY <2>3, <2>4, <2>5, <2>7
  <2> QED BY ONLY <2>2, <2>6, <2>7
<1>3. Quiet(c)
  BY <1>1, <1>2 DEF Quiet, writeVars
<1>4. \A d \in Conns \ {c} : Still(d)
  <2>1. \A d \in Conns \ {c} : strand_'[d] = strand_[d] /\ m_active'[d] = m_active[d]
    BY DEF Close, TypeOK
  <2> QED BY <2>1 DEF Still, writeVars
<1> QED BY <1>3, <1>4, OnlyOneQuiet

\* A header line does not end, or the rest of a huge handshake is dropped.
LEMMA ClosedByServerFrames ==
    ASSUME IndInv, FramesInv, NEW c \in Conns, HeaderLineTooLong(c) \/ DropHugeHandshake(c)
    PROVE  FramesInv'
<1>1. TypeOK /\ ReadInv(c)
  BY DEF IndInv, ConnInv
<1>2. strand_[c] \in Seq(TaskSet) /\ Keeps(strand_[c], strand_[c])
  BY <1>1 DEF TypeOK, Keeps
<1>3. ~Has(strand_[c], {"reject"})
  <2>1. ~Has(strand_[c], ReadResults)
    BY <1>1 DEF ReadInv, HeaderLineTooLong, DropHugeHandshake
  <2> QED BY <2>1 DEF Has, ReadResults, HeaderLines
<1>4. Close(c, strand_[c]) /\ UNCHANGED <<m_parsing_headers, socket_, peer, writeVars>>
  BY DEF HeaderLineTooLong, DropHugeHandshake, netVars
<1> QED BY <1>1, <1>2, <1>3, <1>4, CloseFrames

\* What the handler of a read leaves of the strand.
LEMMA ReadTaken ==
    ASSUME IndInv, NEW c \in Conns, NEW op \in ReadResults, Runs(c, op)
    PROVE  /\ Tail(strand_[c]) \in Seq(TaskSet)
           /\ Keeps(strand_[c], Tail(strand_[c]))
           /\ ~Has(Tail(strand_[c]), {"reject"})
<1>1. TypeOK /\ ReadInv(c)
  BY DEF IndInv, ConnInv
<1>2. Takes(c, op, Tail(strand_[c]))
  BY <1>1, RunsTakes
<1>3. op \notin PostedWrites \cup {"close"} \cup WriteResults
  BY DEF PostedWrites, WriteResults, ReadResults, HeaderLines, Frames
<1>4. Keeps(strand_[c], Tail(strand_[c]))
  BY <1>1, <1>2, <1>3, KeepsTail DEF Takes, TypeOK
<1>5. ~Has(Tail(strand_[c]), ReadResults)
  BY <1>1, <1>2 DEF Takes, ReadInv
<1> QED BY <1>2, <1>4, <1>5 DEF Takes, Has, ReadResults, HeaderLines

\* The handler of a read takes its task only.
LEMMA TakenFrames ==
    ASSUME IndInv, FramesInv, NEW c \in Conns, NEW op \in ReadResults, Runs(c, op),
           strand_' = [strand_ EXCEPT ![c] = Tail(@)],
           UNCHANGED <<m_parsing_headers, m_active, socket_, peer, writeVars>>
    PROVE  FramesInv'
<1>1. TypeOK
  BY DEF IndInv
<1>2. strand_'[c] = Tail(strand_[c])
  BY <1>1 DEF TypeOK
<1>3. Quiet(c)
  BY <1>2, ReadTaken DEF Quiet, writeVars
<1>4. \A d \in Conns \ {c} : Still(d)
  BY <1>1 DEF Still, TypeOK, writeVars
<1> QED BY <1>3, <1>4, OnlyOneQuiet

\* The viewer has gone.
LEMMA HandleReadErrorFrames ==
    ASSUME IndInv, FramesInv, NEW c \in Conns, HandleReadError(c)
    PROVE  FramesInv'
<1>1. TypeOK /\ "error" \in ReadResults
  BY DEF IndInv, ReadResults
<1>2. Runs(c, "error") /\ Close(c, Tail(strand_[c]))
  BY DEF HandleReadError
<1>3. UNCHANGED <<m_parsing_headers, socket_, peer, writeVars>>
  BY DEF HandleReadError, netVars
<1> QED BY <1>1, <1>2, <1>3, ReadTaken, CloseFrames

\* A header line that ends nothing.
LEMMA HandleHeaderLineFrames ==
    ASSUME IndInv, FramesInv, NEW c \in Conns, HandleHeaderLine(c)
    PROVE  FramesInv'
<1>1. TypeOK /\ "line" \in ReadResults /\ Runs(c, "line")
  BY DEF IndInv, ReadResults, HeaderLines, HandleHeaderLine
<1>2. UNCHANGED <<m_parsing_headers, socket_, peer, writeVars>>
  BY DEF HandleHeaderLine, writeVars
<1>3. CASE strand_' = [strand_ EXCEPT ![c] = Tail(@)] /\ UNCHANGED <<sessions, m_session, m_active>>
  BY <1>1, <1>2, <1>3, TakenFrames
<1>4. CASE Close(c, Tail(strand_[c]))
  BY <1>1, <1>2, <1>4, ReadTaken, CloseFrames
<1> QED BY <1>3, <1>4 DEF HandleHeaderLine

\* A frame: close, answer a ping, or ignore it.
LEMMA HandleFrameFrames ==
    ASSUME IndInv, FramesInv, NEW c \in Conns, HandleFrame(c)
    PROVE  FramesInv'
<1>1. TypeOK /\ WireInv(c) /\ {"closeFrame", "ping", "frame"} \subseteq ReadResults
  BY DEF IndInv, FramesInv, ReadResults, Frames
<1>2. UNCHANGED <<m_parsing_headers, socket_, peer, writeVars>>
  BY DEF HandleFrame, writeVars
<1>3. CASE Runs(c, "closeFrame") /\ Close(c, Tail(strand_[c]))
  BY <1>1, <1>2, <1>3, ReadTaken, CloseFrames
<1>4. CASE /\ Runs(c, "frame")
           /\ strand_' = [strand_ EXCEPT ![c] = Tail(@)]
           /\ UNCHANGED <<sessions, m_session, m_active>>
  BY <1>1, <1>2, <1>4, TakenFrames
<1>5. CASE /\ Runs(c, "ping")
           /\ strand_' = [strand_ EXCEPT ![c] = Append(Tail(@), Task("pong"))]
           /\ UNCHANGED <<sessions, m_session, m_active>>
  <2>1. /\ Task("pong") \in TaskSet
        /\ Task("pong").op \notin {"handshake", "reject"} \cup WriteResults
    BY DEF Task, TaskSet, PostedWrites, WriteResults
  <2>2. /\ Tail(strand_[c]) \in Seq(TaskSet)
        /\ Keeps(strand_[c], Tail(strand_[c]))
        /\ ~Has(Tail(strand_[c]), {"reject"})
    BY <1>1, <1>5, ReadTaken
  <2>3. strand_'[c] = Append(Tail(strand_[c]), Task("pong"))
    BY <1>1, <1>5 DEF TypeOK
  <2>4. Keeps(Tail(strand_[c]), strand_'[c])
    BY <2>1, <2>2, <2>3, KeepsAppend
  <2>5. Keeps(strand_[c], strand_'[c])
    BY <2>2, <2>4 DEF Keeps
  <2>6. ~Has(strand_'[c], {"reject"})
    BY <2>1, <2>2, <2>3, AppendQueue
  <2>7. Quiet(c)
    BY <1>2, <2>5, <2>6 DEF Quiet, writeVars
  <2>8. \A d \in Conns \ {c} : Still(d)
    BY <1>1, <1>2, <1>5 DEF Still, TypeOK, writeVars
  <2> QED BY <2>7, <2>8, OnlyOneQuiet
<1> QED BY <1>3, <1>4, <1>5 DEF HandleFrame

\* The server thread takes or releases the lock, the message box goes away,
\* or nothing happens.
LEMMA IdleFrames ==
    ASSUME FramesInv, OnDumpData \/ DumpReturns \/ DismissAlert \/ UNCHANGED wsVars
    PROVE  FramesInv'
<1>1. \A d \in Conns : Still(d)
  BY DEF Still, OnDumpData, DumpReturns, DismissAlert, wsVars, stateVars,
         netVars, writeVars
<1> QED BY <1>1, StillWire DEF FramesInv

-----------------------------------------------------------------------------
(* The end of the headers. *)

\* Nothing was written, and nothing is queued, while headers are parsed.
LEMMA NothingWritten ==
    ASSUME IndInv, FramesInv, NEW c \in Conns, m_parsing_headers[c]
    PROVE  /\ Silent(c)
           /\ ~Has(strand_[c], PostedWrites)
           /\ ~Has(strand_[c], {"handshake"})
           /\ ~Has(strand_[c], WriteResults)
  BY DEF IndInv, ConnInv, HandshakeInv, FramesInv, WireInv, Silent, Has, PostedWrites

\* The handshake is refused: close_impl is queued, and nothing before it writes.
LEMMA RejectedFrames ==
    ASSUME IndInv, FramesInv, NEW c \in Conns, HandleHandshakeRejected(c)
    PROVE  FramesInv'
<1> DEFINE q == Tail(strand_[c])
           t == Task("close")
<1>1. TypeOK /\ WireInv(c)
  BY DEF IndInv, FramesInv
<1>2. Takes(c, "reject", q)
  BY <1>1, RunsTakes DEF HandleHandshakeRejected
<1>3. m_parsing_headers[c] /\ m_active[c]
  BY <1>1, <1>2 DEF WireInv, Takes
<1>4. /\ Silent(c)
      /\ q \in Seq(TaskSet)
      /\ ~Has(q, PostedWrites) /\ ~Has(q, {"handshake"}) /\ ~Has(q, WriteResults)
      /\ ~Has(q, {"reject"})
  <2>1. "reject" \in ReadResults /\ Runs(c, "reject")
    BY DEF ReadResults, HeaderLines, HandleHandshakeRejected
  <2> QED BY <1>2, <1>3, <2>1, NothingWritten, ReadTaken DEF Takes
<1>5. t \in TaskSet /\ t.op = "close" /\ "close" \notin WriteResults
  BY DEF Task, TaskSet, WriteResults
<1>6. /\ strand_'[c] = Append(q, t)
      /\ \A d \in Conns \ {c} : strand_'[d] = strand_[d] /\ m_active'[d] = m_active[d]
  BY <1>1, <1>3 DEF HandleHandshakeRejected, Close, TypeOK
<1>7. /\ Leads(strand_'[c], "close")
      /\ ~Has(strand_'[c], {"handshake"})
      /\ ~Has(strand_'[c], {"reject"})
      /\ ~Has(strand_'[c], WriteResults)
  <2>1. Leads(strand_'[c], "close")
    <3> HIDE DEF q, t
    <3>1. Leads(Append(q, t), "close")
      BY <1>4, <1>5, LeadsAppend
    <3> QED BY ONLY <1>6, <3>1
  <2>2. t.op \notin {"handshake"} /\ t.op \notin {"reject"} /\ t.op \notin WriteResults
    BY <1>5
  <2> HIDE DEF q, t
  <2>3. ~Has(strand_'[c], {"handshake"})
    BY <1>4, <1>5, <1>6, <2>2, StillWithout
  <2>4. ~Has(strand_'[c], {"reject"})
    BY <1>4, <1>5, <1>6, <2>2, StillWithout
  <2>5. ~Has(strand_'[c], WriteResults)
    BY <1>4, <1>5, <1>6, <2>2, StillWithout
  <2> QED BY <2>1, <2>3, <2>4, <2>5
<1>8. wire'[c] = <<>> /\ m_outbox'[c] = <<>>
  BY <1>4 DEF Silent, HandleHandshakeRejected, writeVars
<1>9. ~m_parsing_headers'[c]
  BY <1>1 DEF HandleHandshakeRejected, TypeOK
<1>10. Stream(c)' = <<>>
  BY <1>7, <1>8 DEF Stream, Unsent
<1>11. Refused(c)'
  BY <1>7, <1>8 DEF Refused, Silent
<1>12. WireInv(c)'
  BY <1>7, <1>8, <1>9, <1>10, <1>11, WholeEmpty DEF WireInv, Whole
<1>13. \A d \in Conns \ {c} : Still(d)
  BY <1>1, <1>6 DEF Still, TypeOK, HandleHandshakeRejected, writeVars
<1> QED BY <1>12, <1>13, OnlyOneWritten

\* The handshake is accepted: the response is the first message posted.
LEMMA AcceptedFrames ==
    ASSUME IndInv, FramesInv, NEW c \in Conns,
           HandleHandshakeAccepted(c) \/ HandshakeThrows(c)
    PROVE  FramesInv'
<1> DEFINE q == Tail(strand_[c])
           t == Task("handshake")
<1>1. TypeOK /\ WireInv(c) /\ HandshakeInv(c)
  BY DEF IndInv, ConnInv, FramesInv
<1>2. Takes(c, "accept", q)
  BY <1>1, RunsTakes DEF HandleHandshakeAccepted, HandshakeThrows
<1>3. m_parsing_headers[c]
  BY <1>1, <1>2 DEF HandshakeInv, Takes
<1>4. /\ Silent(c)
      /\ q \in Seq(TaskSet)
      /\ ~Has(q, PostedWrites) /\ ~Has(q, {"handshake"}) /\ ~Has(q, WriteResults)
      /\ ~Has(q, {"reject"})
  <2>1. "accept" \in ReadResults /\ Runs(c, "accept")
    BY DEF ReadResults, HeaderLines, HandleHandshakeAccepted, HandshakeThrows
  <2> QED BY <1>2, <1>3, <2>1, NothingWritten, ReadTaken DEF Takes
<1>5. /\ t \in TaskSet /\ t.op = "handshake"
      /\ "handshake" \notin WriteResults
  BY DEF Task, TaskSet, WriteResults, PostedWrites
<1>6. /\ strand_' = [strand_ EXCEPT ![c] = Append(Tail(@), t)]
      /\ m_parsing_headers' = [m_parsing_headers EXCEPT ![c] = FALSE]
      /\ UNCHANGED <<m_active, socket_, peer, writeVars>>
  BY DEF HandleHandshakeAccepted, HandshakeThrows, stateVars, netVars
<1>7. strand_'[c] = Append(q, t)
  BY <1>1, <1>6 DEF TypeOK
<1>8. \A i \in 1..Len(q) : q[i].op # "handshake"
  BY <1>4 DEF Has
<1>9. /\ Leads(strand_'[c], "handshake")
      /\ Once(strand_'[c], {"handshake"})
      /\ ~Has(strand_'[c], {"reject"})
      /\ ~Has(strand_'[c], WriteResults)
  <2>1. Once(q, {"handshake"})
    BY <1>8 DEF Once
  <2>2. Leads(strand_'[c], "handshake")
    BY <1>4, <1>5, <1>7, LeadsAppend
  <2>3. t.op \notin {"reject"} /\ t.op \notin WriteResults
    BY <1>5
  <2> HIDE DEF q, t
  <2>4. Once(strand_'[c], {"handshake"})
    BY <1>4, <1>5, <1>7, <2>1, AppendQueue
  <2>5. ~Has(strand_'[c], {"reject"})
    BY <1>4, <1>5, <1>7, <2>3, StillWithout
  <2>6. ~Has(strand_'[c], WriteResults)
    BY <1>4, <1>5, <1>7, <2>3, StillWithout
  <2> QED BY <2>2, <2>4, <2>5, <2>6
<1>10. wire'[c] = <<>> /\ m_outbox'[c] = <<>>
  BY <1>4, <1>6 DEF Silent, writeVars
<1>11. ~m_parsing_headers'[c]
  BY <1>1, <1>6 DEF TypeOK
<1>12. Stream(c)' = <<>>
  BY <1>9, <1>10 DEF Stream, Unsent
<1>13. Waiting(c)'
  BY <1>9, <1>10 DEF Waiting, Silent
<1>14. WireInv(c)'
  BY <1>9, <1>10, <1>11, <1>12, <1>13, WholeEmpty DEF WireInv, Whole
<1>15. \A d \in Conns \ {c} : Still(d)
  BY <1>1, <1>6 DEF Still, TypeOK, writeVars
<1> QED BY <1>14, <1>15, OnlyOneWritten

-----------------------------------------------------------------------------
(* Writes. *)

\* What an outstanding write or its result says of a connection.
LEMMA WriteUnderWay ==
    ASSUME IndInv, FramesInv, NEW c \in Conns,
           writing[c] > 0 \/ Has(strand_[c], WriteResults)
    PROVE  /\ m_outbox[c] \in Seq(ChunkSet) /\ m_outbox[c] # <<>>
           /\ wire[c] \in Seq(ChunkSet)
           /\ ~m_parsing_headers[c]
           /\ ~Has(strand_[c], {"reject"})
           /\ ~Lost(c) => Opened(c) /\ Whole(Stream(c))
<1>1. TypeOK /\ WriteInv(c) /\ HandshakeInv(c) /\ WireInv(c)
  BY DEF IndInv, ConnInv, FramesInv
<1>2. m_outbox[c] # <<>> /\ ~m_parsing_headers[c]
  BY <1>1 DEF TypeOK, WriteInv, HandshakeInv
<1> QED BY <1>1, <1>2 DEF TypeOK, WireInv, Waiting, Refused, Silent

\* An open connection stays open: its stream grows or stays, and no response to
\* a handshake is posted.
LEMMA OpenedStays ==
    ASSUME FramesInv, NEW c \in Conns, Lost(c)' \/ (Whole(Stream(c)') /\ Stream(c)' # <<>>),
           ~Has(strand_'[c], {"handshake"}), ~Has(strand_'[c], {"reject"}),
           ~m_parsing_headers'[c], WholeBut(wire'[c])
    PROVE  WireInv(c)'
  BY DEF WireInv, Opened, Whole

\* The front message was sent.
LEMMA WriteCompletesFrames ==
    ASSUME IndInv, FramesInv, NEW c \in Conns, WriteCompletes(c)
    PROVE  FramesInv'
<1> DEFINE t == Task("written")
<1>1. TypeOK /\ WriteInv(c)
  BY DEF IndInv, ConnInv
<1>2. writing[c] = 1 /\ ~Lost(c) /\ ~Lost(c)'
  BY <1>1 DEF WriteCompletes, TypeOK, Lost, netVars
<1>3. /\ m_outbox[c] \in Seq(ChunkSet) /\ m_outbox[c] # <<>>
      /\ wire[c] \in Seq(ChunkSet)
      /\ ~m_parsing_headers[c]
      /\ ~Has(strand_[c], {"reject"})
      /\ Opened(c) /\ Whole(Stream(c))
  BY <1>2, WriteUnderWay
<1>4. t \in TaskSet /\ t.op \in WriteResults /\ t.op \notin {"handshake", "reject"}
  BY DEF Task, TaskSet, WriteResults
<1>5. strand_[c] \in Seq(TaskSet) /\ strand_'[c] = Append(strand_[c], t)
  BY <1>1 DEF WriteCompletes, TypeOK
<1>6. /\ Has(strand_'[c], WriteResults)
      /\ ~Has(strand_'[c], {"handshake"})
      /\ ~Has(strand_'[c], {"reject"})
  BY <1>3, <1>4, <1>5, AppendQueue DEF Opened
<1>7. wire'[c] = Append(wire[c], Head(m_outbox[c])) /\ m_outbox'[c] = m_outbox[c]
  BY <1>1 DEF WriteCompletes, TypeOK
<1>8. Stream(c)' = Stream(c)
  <2>1. Stream(c) = wire[c] \o m_outbox[c]
    BY <1>1, <1>2 DEF Stream, Unsent, WriteInv
  <2>2. Stream(c)' = Append(wire[c], Head(m_outbox[c])) \o Tail(m_outbox[c])
    BY <1>6, <1>7 DEF Stream, Unsent
  <2> QED BY <1>3, <2>1, <2>2, HeadSent
<1>9. WholeBut(wire'[c])
  <2>1. Stream(c) = wire'[c] \o Tail(m_outbox[c])
    BY <1>6, <1>7, <1>8 DEF Stream, Unsent
  <2>2. wire'[c] \in Seq(ChunkSet) /\ Tail(m_outbox[c]) \in Seq(ChunkSet)
    BY <1>3, <1>7, HeadSent, TailLength
  <2> QED BY <1>3, <2>1, <2>2, WholeBegin
<1>10. ~m_parsing_headers'[c]
  BY <1>3 DEF WriteCompletes, stateVars
<1>11. WireInv(c)'
  BY <1>3, <1>6, <1>8, <1>9, <1>10, OpenedStays DEF Opened
<1>12. \A d \in Conns \ {c} : Still(d)
  BY <1>1 DEF Still, WriteCompletes, TypeOK, stateVars, netVars
<1> QED BY <1>11, <1>12, OnlyOneWritten

\* The front message was not sent: the network or the socket is gone.
LEMMA WriteFailsFrames ==
    ASSUME IndInv, FramesInv, NEW c \in Conns, WriteFails(c)
    PROVE  FramesInv'
<1> DEFINE t == Task("failed")
<1>1. TypeOK /\ WireInv(c)
  BY DEF IndInv, FramesInv
<1>2. Lost(c)' /\ writing[c] > 0
  BY DEF WriteFails, Lost, netVars
<1>3. ~m_parsing_headers[c] /\ ~Has(strand_[c], {"reject"})
  BY <1>2, WriteUnderWay
<1>4. t \in TaskSet /\ t.op # "reject"
  BY DEF Task, TaskSet, WriteResults
<1>5. strand_[c] \in Seq(TaskSet) /\ strand_'[c] = Append(strand_[c], t)
  BY <1>1 DEF WriteFails, TypeOK
<1>6. ~Has(strand_'[c], {"reject"})
  BY <1>3, <1>4, <1>5, AppendQueue
<1>7. WireInv(c)'
  BY <1>1, <1>2, <1>3, <1>6 DEF WireInv, WriteFails, stateVars
<1>8. \A d \in Conns \ {c} : Still(d)
  BY <1>1 DEF Still, WriteFails, TypeOK, stateVars, netVars
<1> QED BY <1>7, <1>8, OnlyOneWritten

\* write_impl and write_many_impl append whole frames to the stream.
LEMMA WriteImplFrames ==
    ASSUME IndInv, FramesInv, NEW c \in Conns, WriteImpl(c)
    PROVE  FramesInv'
<1> DEFINE t == Head(strand_[c])
           q == Tail(strand_[c])
<1>1. TypeOK /\ WriteInv(c) /\ HandshakeInv(c) /\ WireInv(c)
  BY DEF IndInv, ConnInv, FramesInv
<1>2. PICK op \in PostedWrites : Runs(c, op)
  BY DEF WriteImpl
<1>3. Takes(c, op, q)
  BY <1>1, <1>2, RunsTakes
<1>4. /\ t \in TaskSet /\ t.op = op /\ q \in Seq(TaskSet)
      /\ strand_[c] \in Seq(TaskSet) /\ strand_[c] # <<>>
  BY <1>1, <1>3 DEF Takes, TypeOK
<1>5. strand_'[c] = q /\ m_outbox'[c] = m_outbox[c] \o ChunksOf(t) /\ wire'[c] = wire[c]
  BY <1>1 DEF WriteImpl, TypeOK
<1>6. ~m_parsing_headers[c]
  BY <1>1, <1>3 DEF HandshakeInv, Takes, Has
<1>7. UNCHANGED <<m_parsing_headers, m_active, socket_, peer, wire>>
  BY DEF WriteImpl, stateVars, netVars
<1>8. /\ ~Has(q, {"reject"})
      /\ Has(q, WriteResults) <=> Has(strand_[c], WriteResults)
  BY <1>1, <1>3, <1>6 DEF WireInv, Takes, PostedWrites, WriteResults
<1>9. \A d \in Conns \ {c} : Still(d)
  BY <1>1 DEF Still, WriteImpl, TypeOK, stateVars, netVars
<1>10. WireInv(c)'
  <2>1. CASE Lost(c)
    BY <1>1, <1>5, <1>6, <1>7, <1>8, <2>1 DEF WireInv, Lost
  <2>2. CASE ~Lost(c)
    <3>1. /\ wire[c] \in Seq(ChunkSet) /\ m_outbox[c] \in Seq(ChunkSet)
          /\ ChunksOf(t) \in Seq(ChunkSet) /\ ChunksOf(t) # <<>>
      <4> QED BY <1>1, <1>2, <1>4, ChunksOfWrite DEF TypeOK
    <3>2. Unsent(c) \in Seq(ChunkSet) /\ Unsent(c)' = Unsent(c) \o ChunksOf(t)
      <4>1. CASE Has(strand_[c], WriteResults)
        <5>1. m_outbox[c] # <<>>
          BY <1>1, <4>1 DEF WriteInv
        <5>2. Tail(m_outbox[c] \o ChunksOf(t)) = Tail(m_outbox[c]) \o ChunksOf(t)
          BY <3>1, <5>1, TailConcat
        <5>3. Tail(m_outbox[c]) \in Seq(ChunkSet)
          BY <3>1, <5>1
        <5> QED BY <1>5, <1>8, <4>1, <5>2, <5>3 DEF Unsent
      <4>2. CASE ~Has(strand_[c], WriteResults)
        BY <1>5, <1>8, <3>1, <4>2 DEF Unsent
      <4> QED BY <4>1, <4>2
    <3>3. /\ Stream(c) \in Seq(ChunkSet)
          /\ Stream(c)' = Stream(c) \o ChunksOf(t)
          /\ Stream(c)' # <<>>
      <4>1. Stream(c)' = wire[c] \o (Unsent(c) \o ChunksOf(t))
        BY <1>5, <3>2 DEF Stream
      <4>2. wire[c] \o (Unsent(c) \o ChunksOf(t)) = (wire[c] \o Unsent(c)) \o ChunksOf(t)
        BY <3>1, <3>2, ConcatThree
      <4>3. Stream(c) \in Seq(ChunkSet)
        BY <3>1, <3>2 DEF Stream
      <4>4. Stream(c) \o ChunksOf(t) # <<>>
        BY <3>1, <4>3
      <4> QED BY <4>1, <4>2, <4>3, <4>4 DEF Stream
    <3>4. /\ Whole(Stream(c))
          /\ op = "handshake" <=> Stream(c) = <<>>
          /\ ~Has(q, {"handshake"})
      <4>1. Whole(Stream(c)) /\ (Opened(c) \/ Waiting(c) \/ Refused(c))
        BY <1>1, <1>6, <2>2 DEF WireInv
      <4>2. CASE Opened(c)
        BY <1>3, <4>1, <4>2 DEF Opened, Takes
      <4>3. CASE Waiting(c)
        <5>1. op = "handshake"
          BY <1>2, <1>4, <4>3, LeadsTail DEF Waiting
        <5>2. Stream(c) = <<>>
          BY <1>1, <4>3 DEF Waiting, Silent, Stream, Unsent, WriteInv
        <5>3. ~Has(q, {"handshake"})
          BY <1>3, <4>3, <5>1 DEF Waiting, Takes
        <5> QED BY <4>1, <5>1, <5>2, <5>3
      <4>4. CASE Refused(c)
        <5>1. op = "close"
          BY <1>2, <1>4, <4>4, LeadsTail DEF Refused
        <5> QED BY <1>2, <5>1 DEF PostedWrites
      <4> QED BY <4>1, <4>2, <4>3, <4>4
    <3>5. Whole(Stream(c)')
      BY <1>2, <1>4, <3>3, <3>4, WholeGrows
    <3>6. WholeBut(wire'[c])
      BY <1>1, <1>5 DEF WireInv
    <3> QED BY <1>5, <1>6, <1>7, <1>8, <3>3, <3>4, <3>5, <3>6, OpenedStays
  <2> QED BY <2>1, <2>2
<1> QED BY <1>9, <1>10, OnlyOneWritten

\* handle_write pops the message that was sent, or was not.
LEMMA HandleWriteFrames ==
    ASSUME IndInv, FramesInv, NEW c \in Conns, HandleWritten(c) \/ HandleWriteFailed(c)
    PROVE  FramesInv'
<1> DEFINE q == Tail(strand_[c])
<1>1. TypeOK /\ WriteInv(c) /\ CloseInv(c) /\ WireInv(c)
  BY DEF IndInv, ConnInv, FramesInv
<1>2. PICK op \in WriteResults : /\ Runs(c, op)
                                 /\ op = "failed" <=> Runs(c, "failed")
                                 /\ op = "written" => HandleWritten(c)
                                 /\ op = "failed" => HandleWriteFailed(c)
  BY DEF HandleWritten, HandleWriteFailed, WriteResults, Runs
<1>3. Takes(c, op, q)
  BY <1>1, <1>2, RunsTakes
<1>4. /\ Has(strand_[c], WriteResults)
      /\ ~Has(q, WriteResults)
  BY <1>1, <1>2, <1>3 DEF Takes, WriteInv
<1>5. /\ ~m_parsing_headers[c]
      /\ ~Has(q, {"reject"})
      /\ ~Lost(c) => Opened(c) /\ Whole(Stream(c))
  BY <1>3, <1>4, WriteUnderWay DEF Takes
<1>6. /\ m_outbox'[c] = Tail(m_outbox[c])
      /\ UNCHANGED <<m_parsing_headers, wire, peer>>
      /\ socket_[c] = "closed" => socket_'[c] = "closed"
      /\ \A d \in Conns \ {c} : socket_'[d] = socket_[d] /\ m_outbox'[d] = m_outbox[d]
  BY <1>1 DEF HandleWritten, HandleWriteFailed, TypeOK, stateVars
<1>7. CASE op = "written"
  <2>1. strand_'[c] = q /\ UNCHANGED m_active /\ \A d \in Conns \ {c} : strand_'[d] = strand_[d]
    BY <1>1, <1>2, <1>7 DEF HandleWritten, TypeOK, stateVars
  <2>2. Stream(c)' = Stream(c)
    BY <1>4, <1>6, <2>1 DEF Stream, Unsent
  <2>3. Lost(c) => Lost(c)'
    BY <1>6 DEF Lost
  <2>4. WholeBut(wire'[c])
    BY <1>1, <1>6 DEF WireInv
  <2>5. WireInv(c)'
    <3>1. CASE Lost(c)
      BY <1>5, <1>6, <2>1, <2>3, <2>4, <3>1 DEF WireInv
    <3>2. CASE ~Lost(c)
      <4>1. ~Has(q, {"handshake"})
        BY <1>3, <1>5, <3>2 DEF Opened, Takes
      <4> QED BY <1>5, <1>6, <2>1, <2>2, <2>4, <3>2, <4>1, OpenedStays DEF Opened
    <3> QED BY <3>1, <3>2
  <2>6. \A d \in Conns \ {c} : Still(d)
    BY <1>6, <2>1 DEF Still
  <2> QED BY <2>5, <2>6, OnlyOneWritten
<1>8. CASE op = "failed"
  <2>1. Close(c, q)
    BY <1>2, <1>8 DEF HandleWriteFailed
  <2>2. ~Has(strand_'[c], {"reject"})
    <3>1. Task("close") \in TaskSet /\ Task("close").op # "reject"
      BY DEF Task, TaskSet
    <3>2. strand_'[c] \in {q, Append(q, Task("close"))}
      BY <1>1, <2>1 DEF Close, TypeOK
    <3>3. q \in Seq(TaskSet) /\ ~Has(q, {"reject"})
      BY <1>3, <1>5 DEF Takes
    <3>4. ~Has(Append(q, Task("close")), {"reject"})
      BY <3>1, <3>3, StillWithout
    <3> HIDE DEF q
    <3> QED BY <3>2, <3>3, <3>4
  <2>3. Lost(c)'
    <3>1. Has(strand_[c], {"failed"})
      BY <1>3, <1>8 DEF Takes
    <3> QED BY <1>1, <1>6, <3>1 DEF CloseInv, Lost
  <2>4. WireInv(c)'
    BY <1>1, <1>5, <1>6, <2>2, <2>3 DEF WireInv
  <2>5. \A d \in Conns \ {c} : Still(d)
    <3>1. \A d \in Conns \ {c} : strand_'[d] = strand_[d] /\ m_active'[d] = m_active[d]
      BY <1>1, <2>1 DEF Close, TypeOK
    <3> QED BY <1>6, <3>1 DEF Still
  <2> QED BY <2>4, <2>5, OnlyOneWritten
<1> QED BY <1>7, <1>8 DEF WriteResults

\* close_impl leaves the socket of an open connection to its last write; any
\* other it closes, or finds gone.
LEMMA CloseImplFrames ==
    ASSUME IndInv, FramesInv, NEW c \in Conns, CloseImpl(c) \/ CloseImplThrows(c)
    PROVE  FramesInv'
<1> DEFINE q == Tail(strand_[c])
<1>1. TypeOK /\ WriteInv(c) /\ WireInv(c)
  BY DEF IndInv, ConnInv, FramesInv
<1>2. Takes(c, "close", q)
  BY <1>1, RunsTakes DEF CloseImpl, CloseImplThrows
<1>3. /\ strand_'[c] = q
      /\ UNCHANGED <<m_parsing_headers, m_active, wire, m_outbox, peer>>
      /\ socket_[c] = "closed" => socket_'[c] = "closed"
      /\ \A d \in Conns \ {c} : strand_'[d] = strand_[d] /\ socket_'[d] = socket_[d]
  BY <1>1 DEF CloseImpl, CloseImplThrows, TypeOK, stateVars, netVars, writeVars
<1>4. /\ Has(q, {"handshake"}) <=> Has(strand_[c], {"handshake"})
      /\ Has(q, {"reject"}) <=> Has(strand_[c], {"reject"})
      /\ Has(q, WriteResults) <=> Has(strand_[c], WriteResults)
  BY <1>2 DEF Takes, WriteResults
<1>5. Stream(c)' = Stream(c)
  BY <1>3, <1>4 DEF Stream, Unsent
<1>6. ~Lost(c)' => ~Lost(c) /\ m_outbox[c] # <<>>
  BY <1>1, <1>3 DEF CloseImpl, CloseImplThrows, Lost, TypeOK, netVars
<1>7. WireInv(c)'
  BY <1>1, <1>3, <1>4, <1>5, <1>6 DEF WireInv, Opened, Waiting, Refused, Silent
<1>8. \A d \in Conns \ {c} : Still(d)
  BY <1>3 DEF Still
<1> QED BY <1>7, <1>8, OnlyOneWritten

-----------------------------------------------------------------------------
(* The theorem. *)

\* No connection has sent anything at the start.
LEMMA FramesInit == Init => FramesInv
<1> SUFFICES ASSUME Init, NEW c \in Conns PROVE WireInv(c)
  BY DEF FramesInv
<1>1. wire[c] = <<>> /\ m_parsing_headers[c] = TRUE /\ strand_[c] = <<>>
  BY DEF Init
<1> QED BY <1>1, EmptyQueue, WholeEmpty DEF WireInv, Whole

\* Every step keeps the invariant.
LEMMA FramesStep == IndInv /\ FramesInv /\ [WsNext]_wsVars => FramesInv'
<1> SUFFICES ASSUME IndInv, FramesInv, [WsNext]_wsVars PROVE FramesInv'
  OBVIOUS
<1>1. CASE ServerStep
  BY <1>1, IdleFrames, SessionWriteFrames DEF ServerStep
<1>2. CASE DismissAlert \/ UNCHANGED wsVars
  BY <1>2, IdleFrames
<1>3. ASSUME NEW c \in Conns, HandlerStep(c) PROVE FramesInv'
  <2>1. CASE HandleReadError(c) \/ HandleHeaderLine(c) \/ HandleHandshakeRejected(c)
    BY <2>1, HandleReadErrorFrames, HandleHeaderLineFrames, RejectedFrames
  <2>2. CASE HandleHandshakeAccepted(c) \/ HandshakeThrows(c) \/ DropHugeHandshake(c)
    BY <2>2, AcceptedFrames, ClosedByServerFrames
  <2>3. CASE HandleFrame(c) \/ WriteImpl(c) \/ HandleWritten(c)
    BY <2>3, HandleFrameFrames, WriteImplFrames, HandleWriteFrames
  <2>4. CASE HandleWriteFailed(c) \/ CloseImpl(c) \/ CloseImplThrows(c)
    BY <2>4, HandleWriteFrames, CloseImplFrames
  <2> QED BY <1>3, <2>1, <2>2, <2>3, <2>4 DEF HandlerStep
<1>4. ASSUME NEW c \in Conns, CompletionStep(c) PROVE FramesInv'
  BY <1>4, NetworkFrames, ReadFrames, WriteCompletesFrames, WriteFailsFrames
     DEF CompletionStep
<1>5. ASSUME NEW c \in Conns, HeaderLineTooLong(c) \/ PeerCloses(c) \/ PeerFails(c)
      PROVE  FramesInv'
  BY <1>5, ClosedByServerFrames, NetworkFrames
<1> QED BY <1>1, <1>2, <1>3, <1>4, <1>5 DEF WsNext

\* Every viewer is sent the response to its handshake first and once, and then
\* whole frames, whatever was queued meanwhile (connection.cpp, write_text).
THEOREM FramesAlwaysWhole == WsSpec => []FramesWhole
<1>1. WsSpec => [](IndInv /\ FramesInv)
  <2>1. IndInv /\ FramesInv /\ [WsNext]_wsVars => (IndInv /\ FramesInv)'
    BY NextInv, FramesStep
  <2>2. Init => IndInv /\ FramesInv
    BY InitInv, FramesInit
  <2> QED BY <2>1, <2>2, PTL DEF WsSpec
<1>2. FramesInv => FramesWhole
  BY DEF FramesInv, WireInv, WholeBut, FramesWhole
<1> QED BY <1>1, <1>2, PTL

-----------------------------------------------------------------------------
(* The records of a queue. *)

\* The function by which Records goes over the queue.
UpTo(s, S) ==
    CHOOSE f : f = [i \in 0..Len(s) |->
                      IF i = 0 THEN <<>>
                      ELSE IF s[i] \in S THEN Append(f[i - 1], s[i].n) ELSE f[i - 1]]

\* There is one.
LEMMA UpToIs ==
    ASSUME NEW s, NEW S, Len(s) \in Nat
    PROVE  /\ Records(s, S) = UpTo(s, S)[Len(s)]
           /\ UpTo(s, S)[0] = <<>>
           /\ \A i \in 1..Len(s) :
                 UpTo(s, S)[i] = IF s[i] \in S THEN Append(UpTo(s, S)[i - 1], s[i].n)
                                               ELSE UpTo(s, S)[i - 1]
<1> DEFINE step(v, i) == IF s[i] \in S THEN Append(v, s[i].n) ELSE v
           goes(f, n) == f = [i \in 0..n |-> IF i = 0 THEN <<>> ELSE step(f[i - 1], i)]
           N == {n \in Nat : \E f : goes(f, n)}
<1>1. 0 \in N
  <2>1. goes([i \in 0..0 |-> <<>>], 0)
    OBVIOUS
  <2> QED BY <2>1
<1>2. ASSUME NEW n \in Nat, n \in N PROVE n + 1 \in N
  <2> HIDE DEF step
  <2>1. PICK f : goes(f, n)
    BY <1>2
  <2> DEFINE g == [i \in 0..n + 1 |-> IF i = n + 1 THEN step(f[n], n + 1) ELSE f[i]]
  <2>2. ASSUME NEW i \in 0..n + 1 PROVE g[i] = IF i = 0 THEN <<>> ELSE step(g[i - 1], i)
    <3>1. CASE i = 0
      BY <2>1, <3>1
    <3>2. CASE i \in 1..n
      <4>1. f[i] = step(f[i - 1], i)
        BY <2>1, <3>2
      <4>2. g[i] = f[i] /\ g[i - 1] = f[i - 1]
        BY <3>2
      <4> QED BY <3>2, <4>1, <4>2
    <3>3. CASE i = n + 1
      <4>1. g[i] = step(f[n], i) /\ g[i - 1] = f[n]
        BY <3>3
      <4> QED BY <3>3, <4>1
    <3> QED BY <3>1, <3>2, <3>3
  <2>3. g = [i \in 0..n + 1 |-> g[i]]
    OBVIOUS
  <2> HIDE DEF g
  <2>4. [i \in 0..n + 1 |-> g[i]] = [i \in 0..n + 1 |-> IF i = 0 THEN <<>> ELSE step(g[i - 1], i)]
    BY <2>2
  <2>5. goes(g, n + 1)
    BY <2>3, <2>4
  <2> QED BY <2>5
<1>3. Len(s) \in N
  <2> HIDE DEF N
  <2> QED BY <1>1, <1>2, NatInduct
<1>4. goes(UpTo(s, S), Len(s))
  BY <1>3 DEF UpTo
<1>5. Records(s, S) = UpTo(s, S)[Len(s)]
  BY DEF Records, UpTo
<1>6. ASSUME NEW f, goes(f, Len(s))
      PROVE  f[0] = <<>> /\ \A i \in 1..Len(s) : f[i] = step(f[i - 1], i)
  <2> HIDE DEF step
  <2>1. f = [i \in 0..Len(s) |-> IF i = 0 THEN <<>> ELSE step(f[i - 1], i)]
    BY <1>6
  <2>2. 0 \in 0..Len(s) /\ \A i \in 1..Len(s) : i \in 0..Len(s) /\ i # 0
    OBVIOUS
  <2> QED BY <2>1, <2>2
<1> HIDE DEF goes
<1> QED BY <1>4, <1>5, <1>6

LEMMA UpToType ==
    ASSUME NEW T, \A x \in T : x.n \in Nat, NEW s \in Seq(T), NEW S
    PROVE  /\ \A i \in 0..Len(s) : UpTo(s, S)[i] \in Seq(Nat)
           /\ Records(s, S) \in Seq(Nat)
<1> DEFINE f == UpTo(s, S)
           N == {n \in Nat : n <= Len(s) => f[n] \in Seq(Nat)}
<1>1. Len(s) \in Nat /\ \A i \in 1..Len(s) : s[i] \in T
  BY LenProperties, ElementOfSeq
<1>2. /\ Records(s, S) = f[Len(s)] /\ f[0] = <<>>
      /\ \A i \in 1..Len(s) : f[i] = IF s[i] \in S THEN Append(f[i - 1], s[i].n) ELSE f[i - 1]
  BY <1>1, UpToIs
<1> HIDE DEF f
<1>3. 0 \in N
  <2>1. f[0] \in Seq(Nat)
    BY <1>2, EmptySeq
  <2> QED BY <2>1
<1>4. ASSUME NEW n \in Nat, n \in N PROVE n + 1 \in N
  <2> SUFFICES ASSUME n + 1 <= Len(s) PROVE f[n + 1] \in Seq(Nat)
    OBVIOUS
  <2>1. n + 1 \in 1..Len(s) /\ n + 1 - 1 = n /\ f[n] \in Seq(Nat)
    BY <1>1, <1>4
  <2>2. s[n + 1].n \in Nat
    BY <1>1, <2>1
  <2>3. f[n + 1] = IF s[n + 1] \in S THEN Append(f[n], s[n + 1].n) ELSE f[n]
    BY <1>2, <2>1
  <2> QED BY <2>1, <2>2, <2>3, AppendProperties
<1>5. \A n \in Nat : n \in N
  <2> HIDE DEF N
  <2> QED BY <1>3, <1>4, NatInduct
<1>6. \A i \in 0..Len(s) : f[i] \in Seq(Nat)
  BY <1>1, <1>5
<1> QED BY <1>1, <1>2, <1>6 DEF f

LEMMA NoRecords == \A S : Records(<<>>, S) = <<>>
<1> SUFFICES ASSUME NEW S PROVE Records(<<>>, S) = <<>>
  OBVIOUS
<1> DEFINE s == <<>>
<1>1. Len(s) = 0
  OBVIOUS
<1> HIDE DEF s
<1>2. Records(s, S) = <<>>
  BY <1>1, UpToIs
<1> QED BY <1>2 DEF s

\* One entry more at the end.
LEMMA RecordsAppend ==
    ASSUME NEW T, NEW s \in Seq(T), NEW x \in T, NEW S
    PROVE  Records(Append(s, x), S)
             = IF x \in S THEN Append(Records(s, S), x.n) ELSE Records(s, S)
<1> DEFINE r == Append(s, x)
           f == UpTo(s, S)
           g == UpTo(r, S)
           N == {n \in Nat : n <= Len(s) => g[n] = f[n]}
<1>1. /\ Len(s) \in Nat /\ Len(r) \in Nat /\ Len(r) = Len(s) + 1
      /\ \A i \in 1..Len(s) : r[i] = s[i]
      /\ r[Len(s) + 1] = x
  BY AppendProperties, LenProperties
<1> HIDE DEF r
<1>2. /\ Records(s, S) = f[Len(s)] /\ f[0] = <<>>
      /\ \A i \in 1..Len(s) : f[i] = IF s[i] \in S THEN Append(f[i - 1], s[i].n) ELSE f[i - 1]
  BY <1>1, UpToIs
<1>3. /\ Records(r, S) = g[Len(r)] /\ g[0] = <<>>
      /\ \A i \in 1..Len(r) : g[i] = IF r[i] \in S THEN Append(g[i - 1], r[i].n) ELSE g[i - 1]
  BY <1>1, UpToIs
<1> HIDE DEF f, g
<1>4. 0 \in N
  BY <1>2, <1>3
<1>5. ASSUME NEW n \in Nat, n \in N PROVE n + 1 \in N
  <2> SUFFICES ASSUME n + 1 <= Len(s) PROVE g[n + 1] = f[n + 1]
    OBVIOUS
  <2>1. n + 1 \in 1..Len(s) /\ n + 1 \in 1..Len(r) /\ n + 1 - 1 = n /\ g[n] = f[n]
    BY <1>1, <1>5
  <2> QED BY <1>1, <1>2, <1>3, <2>1
<1>6. \A n \in Nat : n \in N
  <2> HIDE DEF N
  <2> QED BY <1>4, <1>5, NatInduct
<1>7. g[Len(s)] = Records(s, S)
  BY <1>1, <1>2, <1>6
<1>8. Len(r) \in 1..Len(r) /\ Len(r) - 1 = Len(s) /\ r[Len(r)] = x
  BY <1>1
<1>9. Records(r, S) = IF x \in S THEN Append(Records(s, S), x.n) ELSE Records(s, S)
  BY <1>3, <1>7, <1>8
<1> QED BY <1>9 DEF r

\* Numbers in front of others.
LEMMA ConcatNumbers ==
    ASSUME NEW a \in Seq(Nat), NEW b \in Seq(Nat)
    PROVE  /\ a \o b \in Seq(Nat)
           /\ \A n \in Nat : a \o Append(b, n) = Append(a \o b, n)
           /\ \A n \in Nat : Append(a, n) \o b = a \o (<<n>> \o b)
           /\ <<>> \o a = a /\ a \o <<>> = a
<1>1. a \o b \in Seq(Nat) /\ <<>> \o a = a /\ a \o <<>> = a
  BY ConcatProperties, ConcatEmptySeq
<1>2. ASSUME NEW n \in Nat PROVE a \o Append(b, n) = Append(a \o b, n)
  <2> DEFINE l == a \o Append(b, n)
             r == Append(a \o b, n)
  <2>1. /\ l \in Seq(Nat) /\ r \in Seq(Nat) /\ Len(l) = Len(r)
        /\ \A i \in 1..Len(l) : l[i] = r[i]
    OBVIOUS
  <2> HIDE DEF l, r
  <2>2. l = r
    BY <2>1, SeqEqual
  <2> QED BY <2>2 DEF l, r
<1>3. ASSUME NEW n \in Nat PROVE Append(a, n) \o b = a \o (<<n>> \o b)
  <2> DEFINE l == Append(a, n) \o b
             r == a \o (<<n>> \o b)
  <2>1. /\ l \in Seq(Nat) /\ r \in Seq(Nat) /\ Len(l) = Len(r)
        /\ \A i \in 1..Len(l) : l[i] = r[i]
    OBVIOUS
  <2> HIDE DEF l, r
  <2>2. l = r
    BY <2>1, SeqEqual
  <2> QED BY <2>2 DEF l, r
<1> QED BY <1>1, <1>2, <1>3

\* One entry less at the front.
LEMMA RecordsTail ==
    ASSUME NEW T, \A x \in T : x.n \in Nat, NEW s \in Seq(T), s # <<>>, NEW S
    PROVE  Records(s, S) = IF Head(s) \in S THEN <<Head(s).n>> \o Records(Tail(s), S)
                                            ELSE Records(Tail(s), S)
<1> DEFINE r == Tail(s)
           h == IF Head(s) \in S THEN <<Head(s).n>> ELSE <<>>
           f == UpTo(s, S)
           g == UpTo(r, S)
           N == {n \in Nat : n <= Len(r) => f[n + 1] = h \o g[n]}
<1>1. /\ Len(s) \in Nat /\ r \in Seq(T) /\ Len(r) \in Nat /\ Len(s) = Len(r) + 1
      /\ \A i \in 1..Len(r) : r[i] = s[i + 1]
      /\ s[1] = Head(s) /\ Head(s) \in T
      /\ \A i \in 1..Len(s) : s[i] \in T
  BY HeadTailProperties, LenProperties, ElementOfSeq, EmptySeq
<1> HIDE DEF r
<1>2. /\ Records(s, S) = f[Len(s)] /\ f[0] = <<>>
      /\ \A i \in 1..Len(s) : f[i] = IF s[i] \in S THEN Append(f[i - 1], s[i].n) ELSE f[i - 1]
  BY <1>1, UpToIs
<1>3. /\ Records(r, S) = g[Len(r)] /\ g[0] = <<>>
      /\ \A i \in 1..Len(r) : g[i] = IF r[i] \in S THEN Append(g[i - 1], r[i].n) ELSE g[i - 1]
  BY <1>1, UpToIs
<1>4. /\ \A i \in 0..Len(r) : g[i] \in Seq(Nat)
      /\ Records(r, S) \in Seq(Nat)
  BY <1>1, UpToType
<1> HIDE DEF f, g
<1>5. h \in Seq(Nat)
  BY <1>1
<1>6. 0 \in N
  <2>1. 1 \in 1..Len(s) /\ 1 - 1 = 0
    BY <1>1
  <2>2. f[1] = IF Head(s) \in S THEN Append(<<>>, Head(s).n) ELSE <<>>
    BY <1>1, <1>2, <2>1
  <2>3. f[1] = h
    BY <2>2
  <2> HIDE DEF h
  <2>4. h \o g[0] = h
    BY <1>3, <1>5, ConcatNumbers
  <2> QED BY <2>3, <2>4
<1> HIDE DEF h
<1>7. ASSUME NEW n \in Nat, n \in N PROVE n + 1 \in N
  <2> DEFINE m == n + 1
             k == n + 2
  <2> SUFFICES ASSUME m <= Len(r) PROVE f[k] = h \o g[m]
    BY <1>7
  <2>1. m \in 1..Len(r) /\ k \in 1..Len(s) /\ k - 1 = m /\ m - 1 = n /\ k = m + 1
        /\ n \in 0..Len(r) /\ f[m] = h \o g[n]
    BY <1>1, <1>7
  <2> HIDE DEF m, k
  <2>2. s[k] = r[m] /\ s[k].n \in Nat
    BY <1>1, <2>1
  <2>3. f[k] = IF s[k] \in S THEN Append(f[m], s[k].n) ELSE f[m]
    BY <1>2, <2>1
  <2>4. g[m] = IF s[k] \in S THEN Append(g[n], s[k].n) ELSE g[n]
    BY <1>3, <2>1, <2>2
  <2>5. h \o Append(g[n], s[k].n) = Append(h \o g[n], s[k].n)
    <3>1. g[n] \in Seq(Nat)
      BY <1>4, <2>1
    <3>2. \A j \in Nat : h \o Append(g[n], j) = Append(h \o g[n], j)
      BY <1>5, <3>1, ConcatNumbers
    <3> QED BY <2>2, <3>2
  <2> QED BY <2>1, <2>3, <2>4, <2>5
<1>8. \A n \in Nat : n \in N
  <2> HIDE DEF N
  <2> QED BY <1>6, <1>7, NatInduct
<1>9. Records(s, S) = h \o Records(r, S)
  BY <1>1, <1>2, <1>3, <1>8
<1>10. Records(r, S) = <<>> \o Records(r, S)
  BY <1>4, ConcatNumbers
<1> QED BY <1>9, <1>10 DEF h, r

-----------------------------------------------------------------------------
(* What Broadcast sees of a connection. *)

\* Owed, with the parts of the state it looks at as parameters.
OwedOf(lost, q, o, v, n) ==
    IF lost THEN <<>>
    ELSE Records(IF Has(q, WriteResults) THEN Tail(o) ELSE o, Bodies)
         \o Records(q, LogWrites)
         \o (IF v THEN <<n>> ELSE <<>>)

Seen(c) == Records(wire[c], Bodies)

LEMMA OwedIs ==
    ASSUME NEW c \in Conns
    PROVE  /\ Owed(c) = OwedOf(Lost(c), strand_[c], m_outbox[c], c \in visiting, dumped)
           /\ Owed(c)' = OwedOf(Lost(c)', strand_'[c], m_outbox'[c], c \in visiting', dumped')
<1>1. Owed(c) = OwedOf(Lost(c), strand_[c], m_outbox[c], c \in visiting, dumped)
  BY DEF Owed, OwedOf, Unsent
<1>2. Owed(c)' = OwedOf(Lost(c)', strand_'[c], m_outbox'[c], c \in visiting', dumped')
  BY DEF Owed, OwedOf, Unsent
<1> QED BY <1>1, <1>2

\* The same is said of c, whatever else happens to it.
SameView(c) ==
    /\ c \in sessions' <=> c \in sessions
    /\ Lost(c)' <=> Lost(c)
    /\ Owed(c)' = Owed(c)
    /\ Seen(c)' = Seen(c)

\* c leaves, its network fails or it is dropped, it is shown a record, it joins.
Left(c) ==
    /\ c \notin sessions'
    /\ Lost(c)' <=> Lost(c)
    /\ Owed(c)' = Owed(c)
    /\ Seen(c)' = Seen(c)

Failed(c) == Lost(c)' /\ Seen(c)' = Seen(c)

OneShown(c) ==
    /\ c \in sessions' <=> c \in sessions
    /\ Lost(c)' <=> Lost(c)
    /\ Owed(c) # <<>>
    /\ Owed(c)' = Tail(Owed(c))
    /\ Seen(c)' = Append(Seen(c), Head(Owed(c)))

Joined(c) ==
    /\ c \notin sessions /\ c \in sessions'
    /\ Lost(c)' <=> Lost(c)
    /\ Owed(c) = <<>> /\ Owed(c)' = <<>>
    /\ Seen(c) = <<>> /\ Seen(c)' = <<>>

\* A step that concerns one connection is a step of Broadcast, or none.
LEMMA OneView ==
    ASSUME sessions \subseteq Conns, sessions' \subseteq Conns, dumped' = dumped,
           NEW c \in Conns,
           \A d \in Conns \ {c} : SameView(d),
           SameView(c) \/ Left(c) \/ Failed(c) \/ OneShown(c) \/ Joined(c)
    PROVE  [Promise!Next]_(Promise!bcVars)
<1> DEFINE present == {d \in sessions : ~Lost(d)}
           owed == [d \in Conns |-> Owed(d)]
           shown == [d \in Conns |-> Seen(d)]
<1>1. \A d \in Conns \ {c} :
         /\ d \in present' <=> d \in present
         /\ owed'[d] = owed[d]
         /\ shown'[d] = shown[d]
  BY DEF SameView
<1>2. present \subseteq Conns /\ present' \subseteq Conns
      /\ owed = [d \in Conns |-> owed[d]] /\ owed' = [d \in Conns |-> owed'[d]]
      /\ shown = [d \in Conns |-> shown[d]] /\ shown' = [d \in Conns |-> shown'[d]]
  OBVIOUS
<1>3. /\ owed[c] = Owed(c) /\ owed'[c] = Owed(c)'
      /\ shown[c] = Seen(c) /\ shown'[c] = Seen(c)'
      /\ c \in present <=> c \in sessions /\ ~Lost(c)
      /\ c \in present' <=> c \in sessions' /\ ~Lost(c)'
  OBVIOUS
<1>4. ASSUME c \in present' <=> c \in present, owed'[c] = owed[c], shown'[c] = shown[c]
      PROVE  UNCHANGED Promise!bcVars
  <2>1. present' = present
    BY <1>1, <1>2, <1>4
  <2>2. owed' = owed /\ shown' = shown
    BY <1>1, <1>2, <1>4
  <2> QED BY <2>1, <2>2 DEF Promise!bcVars, Seen
<1>5. CASE SameView(c)
  BY <1>3, <1>4, <1>5 DEF SameView
<1>6. CASE Left(c)
  <2>1. CASE c \in present
    <3>1. present' = present \ {c}
      BY <1>1, <1>2, <1>3, <1>6 DEF Left
    <3>2. owed' = owed /\ shown' = shown
      BY <1>1, <1>2, <1>3, <1>6 DEF Left
    <3>3. Promise!Leave(c)
      BY <2>1, <3>1, <3>2 DEF Promise!Leave, Seen
    <3> QED BY <3>3 DEF Promise!Next
  <2>2. CASE c \notin present
    BY <1>3, <1>4, <1>6, <2>2 DEF Left
  <2> QED BY <2>1, <2>2
<1>7. CASE Failed(c)
  <2>1. present' = present \ {c}
    BY <1>1, <1>2, <1>3, <1>7 DEF Failed
  <2>2. owed'[c] = <<>> /\ shown'[c] = shown[c]
    BY <1>3, <1>7, OwedIs DEF Failed, OwedOf
  <2>3. shown' = shown
    BY <1>1, <1>2, <2>2
  <2>4. owed' = [owed EXCEPT ![c] = <<>>]
    BY <1>1, <1>2, <2>2
  <2>5. Promise!Lose(c)
    BY <2>1, <2>3, <2>4 DEF Promise!Lose, Seen
  <2> QED BY <2>5 DEF Promise!Next
<1>8. CASE OneShown(c)
  <2>1. present' = present
    BY <1>1, <1>2, <1>3, <1>8 DEF OneShown
  <2>2. owed[c] # <<>> /\ owed'[c] = Tail(owed[c])
        /\ shown'[c] = Append(shown[c], Head(owed[c]))
    BY <1>3, <1>8 DEF OneShown
  <2>3. owed' = [owed EXCEPT ![c] = Tail(@)]
    BY <1>1, <1>2, <2>2
  <2>4. shown' = [shown EXCEPT ![c] = Append(@, Head(owed[c]))]
    BY <1>1, <1>2, <2>2
  <2>5. Promise!Show(c)
    BY <2>1, <2>2, <2>3, <2>4 DEF Promise!Show, Seen
  <2> QED BY <2>5 DEF Promise!Next
<1>9. CASE Joined(c)
  <2>1. CASE ~Lost(c)
    <3>1. c \notin present /\ present' = present \cup {c}
      BY <1>1, <1>2, <1>3, <1>9, <2>1 DEF Joined
    <3>2. owed[c] = <<>> /\ shown[c] = <<>>
      BY <1>3, <1>9 DEF Joined
    <3>3. owed' = owed /\ shown' = shown
      BY <1>1, <1>2, <1>3, <1>9 DEF Joined
    <3>4. Promise!Join(c)
      BY <3>1, <3>2, <3>3 DEF Promise!Join, Seen
    <3> QED BY <3>4 DEF Promise!Next
  <2>2. CASE Lost(c)
    BY <1>3, <1>4, <1>9, <2>2 DEF Joined
  <2> QED BY <2>1, <2>2
<1> QED BY <1>5, <1>6, <1>7, <1>8, <1>9

\* Nothing that Broadcast sees of d changes.
SameIn(d) ==
    /\ d \in sessions' <=> d \in sessions
    /\ d \in visiting' <=> d \in visiting
    /\ socket_'[d] = socket_[d]
    /\ peer'[d] = peer[d]
    /\ strand_'[d] = strand_[d]
    /\ m_outbox'[d] = m_outbox[d]
    /\ wire'[d] = wire[d]

\* A step that may change c only.
Only(c) ==
    /\ sessions \subseteq Conns /\ sessions' \subseteq Conns
    /\ dumped' = dumped
    /\ \A d \in Conns \ {c} : SameIn(d)

LEMMA OnlyView ==
    ASSUME NEW c \in Conns, Only(c),
           SameView(c) \/ Left(c) \/ Failed(c) \/ OneShown(c) \/ Joined(c)
    PROVE  [Promise!Next]_(Promise!bcVars)
<1>1. \A d \in Conns \ {c} : SameView(d)
  BY OwedIs DEF Only, SameView, SameIn, Lost, Seen
<1> QED BY <1>1, OneView DEF Only

\* The queues q and r have the same records to write, and in one a write has
\* ended when one has in the other.
SameWrites(q, r) ==
    /\ Records(q, LogWrites) = Records(r, LogWrites)
    /\ Has(q, WriteResults) <=> Has(r, WriteResults)

LEMMA RecordsAreNumbers ==
    /\ \A q \in Seq(TaskSet) : Records(q, LogWrites) \in Seq(Nat)
    /\ \A q \in Seq(ChunkSet) : Records(q, Bodies) \in Seq(Nat)
<1>1. (\A x \in TaskSet : x.n \in Nat) /\ (\A x \in ChunkSet : x.n \in Nat)
  BY DEF TaskSet, ChunkSet
<1> QED BY <1>1, UpToType

LEMMA OtherTask ==
    ASSUME NEW t \in TaskSet, t.op # "log"
    PROVE  t \notin LogWrites
  BY DEF TaskSet, LogWrites

LEMMA AppendOther ==
    ASSUME NEW q \in Seq(TaskSet), NEW t \in TaskSet, t.op \notin WriteResults \cup {"log"}
    PROVE  SameWrites(Append(q, t), q)
<1>1. Records(Append(q, t), LogWrites) = Records(q, LogWrites)
  BY OtherTask, RecordsAppend
<1> QED BY <1>1, AppendQueue DEF SameWrites

LEMMA TakeOther ==
    ASSUME NEW q \in Seq(TaskSet), q # <<>>, Head(q).op # "log"
    PROVE  /\ Records(Tail(q), LogWrites) = Records(q, LogWrites)
           /\ Head(q).op \notin WriteResults => SameWrites(Tail(q), q)
<1>1. Head(q) \in TaskSet /\ Head(q) \notin LogWrites
  BY TailQueue, OtherTask
<1>2. \A x \in TaskSet : x.n \in Nat
  BY DEF TaskSet
<1>3. Records(Tail(q), LogWrites) = Records(q, LogWrites)
  BY <1>1, <1>2, RecordsTail
<1> QED BY <1>3, TailQueue DEF SameWrites

\* A handler whose task neither writes nor ends a write.
LEMMA RunOther ==
    ASSUME TypeOK, NEW c \in Conns, NEW op, Runs(c, op), op \notin WriteResults \cup {"log"}
    PROVE  Tail(strand_[c]) \in Seq(TaskSet) /\ SameWrites(Tail(strand_[c]), strand_[c])
<1>1. strand_[c] \in Seq(TaskSet) /\ strand_[c] # <<>> /\ Head(strand_[c]).op = op
  BY DEF TypeOK, Runs
<1> QED BY <1>1, TailQueue, TakeOther

LEMMA CloseOther ==
    ASSUME TypeOK, NEW c \in Conns, NEW q \in Seq(TaskSet), Close(c, q)
    PROVE  SameWrites(strand_'[c], q)
<1>1. Task("close") \in TaskSet /\ Task("close").op \notin WriteResults \cup {"log"}
  BY DEF Task, TaskSet, WriteResults
<1>2. strand_'[c] = q \/ strand_'[c] = Append(q, Task("close"))
  BY DEF Close, TypeOK
<1>3. CASE strand_'[c] = q
  BY <1>3 DEF SameWrites
<1>4. CASE strand_'[c] = Append(q, Task("close"))
  BY <1>1, <1>4, AppendOther
<1> QED BY <1>2, <1>3, <1>4

\* What is owed depends on nothing else.
LEMMA SameOwed ==
    ASSUME NEW c \in Conns, dumped' = dumped, c \in visiting' <=> c \in visiting,
           Lost(c)' <=> Lost(c), m_outbox'[c] = m_outbox[c],
           SameWrites(strand_'[c], strand_[c])
    PROVE  Owed(c)' = Owed(c)
  BY OwedIs DEF OwedOf, SameWrites

\* The queue of tasks changes, but not what it has to write.
LEMMA SameQueueView ==
    ASSUME NEW c \in Conns, Only(c), SameWrites(strand_'[c], strand_[c]),
           c \in visiting' <=> c \in visiting, c \in sessions' => c \in sessions,
           socket_'[c] = socket_[c] \/ (socket_[c] # "closed" /\ socket_'[c] # "closed"),
           peer'[c] = peer[c], m_outbox'[c] = m_outbox[c], wire'[c] = wire[c]
    PROVE  [Promise!Next]_(Promise!bcVars)
<1>1. Lost(c)' <=> Lost(c)
  BY DEF Lost
<1>2. Owed(c)' = Owed(c)
  BY <1>1, SameOwed DEF Only
<1>3. Seen(c)' = Seen(c)
  BY DEF Seen
<1>4. SameView(c) \/ Left(c)
  BY <1>1, <1>2, <1>3 DEF SameView, Left
<1> QED BY <1>4, OnlyView

-----------------------------------------------------------------------------
(* Each action is a step of Broadcast, or none. *)

\* onDumpData begins: every listed session is owed the new record.
LEMMA OnDumpDataView ==
    ASSUME IndInv, OnDumpData
    PROVE  Promise!Next
<1>1. /\ visiting = {}
      /\ visiting' = sessions /\ sessions' = sessions
      /\ dumped' = dumped + 1
      /\ dumped' \in Nat
  BY DEF IndInv, TypeOK, ConnInv, ListInv, OnDumpData
<1>2. UNCHANGED <<socket_, peer, strand_, m_outbox, wire>>
  BY DEF OnDumpData, netVars, writeVars
<1>3. ASSUME NEW c \in Conns
      PROVE  /\ Lost(c)' <=> Lost(c)
             /\ Owed(c)' = IF c \in sessions /\ ~Lost(c) THEN Append(Owed(c), dumped') ELSE Owed(c)
             /\ Seen(c)' = Seen(c)
  <2>1. Lost(c)' <=> Lost(c)
    BY <1>2 DEF Lost
  <2>2. Seen(c)' = Seen(c)
    BY <1>2 DEF Seen
  <2> DEFINE a == Records(IF Has(strand_[c], WriteResults) THEN Tail(m_outbox[c]) ELSE m_outbox[c], Bodies)
             b == Records(strand_[c], LogWrites)
  <2>3. /\ Owed(c) = IF Lost(c) THEN <<>> ELSE a \o b \o <<>>
        /\ Owed(c)' = IF Lost(c) THEN <<>>
                      ELSE a \o b \o (IF c \in sessions THEN <<dumped'>> ELSE <<>>)
    BY <1>1, <1>2, <2>1, OwedIs DEF OwedOf
  <2>4. a \in Seq(Nat) /\ b \in Seq(Nat)
    <3>1. strand_[c] \in Seq(TaskSet) /\ m_outbox[c] \in Seq(ChunkSet)
          /\ (Has(strand_[c], WriteResults) => m_outbox[c] # <<>>)
      BY DEF IndInv, TypeOK, ConnInv, WriteInv
    <3>2. (IF Has(strand_[c], WriteResults) THEN Tail(m_outbox[c]) ELSE m_outbox[c]) \in Seq(ChunkSet)
      BY <3>1, TailLength
    <3> QED BY <3>1, <3>2, RecordsAreNumbers
  <2> HIDE DEF a, b
  <2>5. a \o b \in Seq(Nat) /\ (a \o b) \o <<>> = a \o b
    BY <2>4, ConcatNumbers
  <2>6. (a \o b) \o <<dumped'>> = Append(a \o b, dumped')
    BY <1>1, <2>5
  <2> QED BY <2>1, <2>2, <2>3, <2>5, <2>6
<1>4. {c \in sessions : ~Lost(c)}' = {c \in sessions : ~Lost(c)}
  BY <1>1, <1>3 DEF IndInv, TypeOK
<1>5. [c \in Conns |-> Seen(c)]' = [c \in Conns |-> Seen(c)]
  BY <1>3
<1> DEFINE present == {c \in sessions : ~Lost(c)}
           owed == [c \in Conns |-> Owed(c)]
<1>6. \A c \in Conns : Owed(c)' = IF c \in present THEN Append(Owed(c), dumped') ELSE Owed(c)
  BY <1>3
<1>7. owed' = [c \in Conns |-> IF c \in present THEN Append(owed[c], dumped') ELSE owed[c]]
  BY <1>6
<1>8. Promise!Publish
  BY <1>1, <1>4, <1>5, <1>7 DEF Promise!Publish, Seen
<1> QED BY <1>8 DEF Promise!Next

\* One turn of its loop posts what the session was owed already.
LEMMA SessionWriteView ==
    ASSUME IndInv, NEW c \in Conns, SessionWrite(c)
    PROVE  [Promise!Next]_(Promise!bcVars)
<1>1. TypeOK /\ dumped \in Nat /\ strand_[c] \in Seq(TaskSet) /\ m_outbox[c] \in Seq(ChunkSet)
      /\ (Has(strand_[c], WriteResults) => m_outbox[c] # <<>>)
  BY DEF IndInv, TypeOK, ConnInv, WriteInv
<1>2. c \in visiting /\ c \notin visiting' /\ sessions' = sessions
      /\ UNCHANGED <<dumped, socket_, peer, m_outbox, wire>>
  BY DEF SessionWrite, netVars, writeVars
<1>3. Only(c)
  BY <1>1, <1>2 DEF Only, SameIn, SessionWrite, TypeOK
<1> DEFINE t == LogWrite(dumped)
<1>4. t \in TaskSet /\ t \in LogWrites /\ t.n = dumped /\ t.op \notin WriteResults
  BY <1>1 DEF LogWrite, TaskSet, LogWrites, PostedWrites, WriteResults
<1>5. strand_'[c] = Append(strand_[c], t)
  BY <1>1 DEF SessionWrite, TypeOK
<1> HIDE DEF t
<1>6. /\ Records(strand_'[c], LogWrites) = Append(Records(strand_[c], LogWrites), dumped)
      /\ Has(strand_'[c], WriteResults) <=> Has(strand_[c], WriteResults)
  BY <1>1, <1>4, <1>5, RecordsAppend, AppendQueue
<1>7. Lost(c)' <=> Lost(c)
  BY <1>2 DEF Lost
<1> DEFINE a == Records(IF Has(strand_[c], WriteResults) THEN Tail(m_outbox[c]) ELSE m_outbox[c], Bodies)
           b == Records(strand_[c], LogWrites)
<1>8. /\ Owed(c) = IF Lost(c) THEN <<>> ELSE a \o b \o <<dumped>>
      /\ Owed(c)' = IF Lost(c) THEN <<>> ELSE a \o Append(b, dumped) \o <<>>
  BY <1>2, <1>6, <1>7, OwedIs DEF OwedOf
<1>9. a \in Seq(Nat) /\ b \in Seq(Nat)
  <2>1. (IF Has(strand_[c], WriteResults) THEN Tail(m_outbox[c]) ELSE m_outbox[c]) \in Seq(ChunkSet)
    BY <1>1, TailLength
  <2> QED BY <1>1, <2>1, RecordsAreNumbers
<1> HIDE DEF a, b
<1>10. a \o Append(b, dumped) = Append(a \o b, dumped) /\ a \o b \in Seq(Nat)
  BY <1>1, <1>9, ConcatNumbers
<1>11. Append(a \o b, dumped) \o <<>> = Append(a \o b, dumped)
       /\ (a \o b) \o <<dumped>> = Append(a \o b, dumped)
  <2>1. Append(a \o b, dumped) \in Seq(Nat)
    BY <1>1, <1>10, AppendProperties
  <2> QED BY <1>1, <1>10, <2>1, ConcatNumbers
<1>12. Owed(c)' = Owed(c)
  <2>1. CASE Lost(c)
    BY <1>8, <2>1
  <2>2. CASE ~Lost(c)
    BY <1>8, <1>10, <1>11, <2>2
  <2> QED BY <2>1, <2>2
<1>13. SameView(c)
  BY <1>2, <1>7, <1>12 DEF SameView, Seen
<1> QED BY <1>3, <1>13, OnlyView

\* The network.
LEMMA NetworkView ==
    ASSUME IndInv, NEW c \in Conns, PeerCloses(c) \/ PeerFails(c) \/ HandleAccept(c)
    PROVE  [Promise!Next]_(Promise!bcVars)
<1>1. TypeOK
  BY DEF IndInv
<1>2. Only(c) /\ UNCHANGED <<serverVars, strand_, m_outbox, wire>>
  BY <1>1 DEF Only, SameIn, TypeOK, PeerCloses, PeerFails, HandleAccept, serverVars, writeVars
<1>3. CASE PeerCloses(c) \/ HandleAccept(c)
  <2>1. Lost(c)' <=> Lost(c)
    BY <1>1, <1>3 DEF Lost, TypeOK, PeerCloses, HandleAccept
  <2>2. SameWrites(strand_'[c], strand_[c])
    BY <1>2 DEF SameWrites
  <2>3. SameView(c)
    BY <1>2, <2>1, <2>2, SameOwed DEF SameView, Seen, serverVars
  <2> QED BY <1>2, <2>3, OnlyView
<1>4. CASE PeerFails(c)
  <2>1. Failed(c)
    BY <1>1, <1>2, <1>4 DEF Failed, Lost, Seen, TypeOK, PeerFails
  <2> QED BY <1>2, <2>1, OnlyView
<1> QED BY <1>3, <1>4

\* A read has a result.
LEMMA ReadView ==
    ASSUME IndInv, NEW c \in Conns, ReadCompletes(c) \/ ReadFails(c)
    PROVE  [Promise!Next]_(Promise!bcVars)
<1>1. TypeOK /\ strand_[c] \in Seq(TaskSet)
  BY DEF IndInv, TypeOK
<1>2. PICK what \in ReadResults : strand_' = [strand_ EXCEPT ![c] = Append(@, Task(what))]
  BY DEF ReadCompletes, ReadFails, Incoming, ReadResults, HeaderLines, Frames
<1>3. Task(what) \in TaskSet /\ Task(what).op \notin WriteResults \cup {"log"}
  BY DEF Task, TaskSet, ReadResults, HeaderLines, Frames, WriteResults
<1>4. SameWrites(strand_'[c], strand_[c])
  BY <1>1, <1>2, <1>3, AppendOther DEF TypeOK
<1>5. UNCHANGED <<serverVars, socket_, peer, m_outbox, wire>>
  BY DEF ReadCompletes, ReadFails, writeVars
<1>6. Only(c)
  BY <1>1, <1>2, <1>5 DEF Only, SameIn, TypeOK, serverVars
<1> QED BY <1>4, <1>5, <1>6, SameQueueView DEF serverVars

\* The front message is on the wire: a record is shown when it is a payload.
LEMMA WriteCompletesView ==
    ASSUME IndInv, NEW c \in Conns, WriteCompletes(c)
    PROVE  [Promise!Next]_(Promise!bcVars)
<1> DEFINE t == Task("written")
           o == m_outbox[c]
           m == Head(o)
<1>1. TypeOK /\ WriteInv(c) /\ dumped \in Nat
  BY DEF IndInv, ConnInv, TypeOK
<1>2. /\ o \in Seq(ChunkSet) /\ o # <<>> /\ wire[c] \in Seq(ChunkSet)
      /\ strand_[c] \in Seq(TaskSet) /\ ~Has(strand_[c], WriteResults)
  BY <1>1 DEF WriteCompletes, TypeOK, WriteInv
<1>3. UNCHANGED <<serverVars, socket_, peer, m_outbox>> /\ ~Lost(c) /\ ~Lost(c)'
  BY DEF WriteCompletes, Lost, netVars
<1>4. Only(c)
  BY <1>1, <1>3 DEF Only, SameIn, WriteCompletes, TypeOK, serverVars
<1>5. strand_'[c] = Append(strand_[c], t) /\ wire'[c] = Append(wire[c], m)
  BY <1>1 DEF WriteCompletes, TypeOK
<1>6. t \in TaskSet /\ t.op \in WriteResults /\ t.op # "log"
  BY DEF Task, TaskSet, WriteResults
<1> HIDE DEF t
<1>7. /\ Records(strand_'[c], LogWrites) = Records(strand_[c], LogWrites)
      /\ Has(strand_'[c], WriteResults)
  BY <1>2, <1>5, <1>6, OtherTask, RecordsAppend, AppendQueue
<1>8. \A x \in ChunkSet : x.n \in Nat
  BY DEF ChunkSet
<1>9. m \in ChunkSet /\ m.n \in Nat /\ Tail(o) \in Seq(ChunkSet)
  <2>1. m \in ChunkSet /\ Tail(o) \in Seq(ChunkSet)
    BY <1>2, HeadTailProperties
  <2> QED BY <1>8, <2>1
<1> HIDE DEF o, m
<1> DEFINE a == Records(Tail(o), Bodies)
           b == Records(strand_[c], LogWrites)
           v == IF c \in visiting THEN <<dumped>> ELSE <<>>
<1>10. a \in Seq(Nat) /\ b \in Seq(Nat) /\ v \in Seq(Nat) /\ Seen(c) \in Seq(Nat)
  <2>1. a \in Seq(Nat)
    BY <1>9, RecordsAreNumbers
  <2>2. b \in Seq(Nat) /\ Seen(c) \in Seq(Nat)
    BY <1>2, RecordsAreNumbers DEF Seen
  <2>3. v \in Seq(Nat)
    BY <1>1
  <2> QED BY <2>1, <2>2, <2>3
<1>11. Records(o, Bodies) = IF m \in Bodies THEN <<m.n>> \o a ELSE a
  BY <1>2, <1>8, RecordsTail DEF m
<1>12. Seen(c)' = IF m \in Bodies THEN Append(Seen(c), m.n) ELSE Seen(c)
  <2>1. Records(Append(wire[c], m), Bodies)
          = IF m \in Bodies THEN Append(Records(wire[c], Bodies), m.n) ELSE Records(wire[c], Bodies)
    BY <1>2, <1>9, RecordsAppend
  <2> QED BY <1>5, <2>1 DEF Seen
<1>13. Owed(c) = Records(o, Bodies) \o b \o v /\ Owed(c)' = a \o b \o v
  BY <1>2, <1>3, <1>7, OwedIs DEF OwedOf, o, serverVars
<1> HIDE DEF a, b, v
<1>14. CASE m \in Bodies
  <2>1. Owed(c) = ((<<m.n>> \o a) \o b) \o v
    BY <1>11, <1>13, <1>14
  <2>2. ((<<m.n>> \o a) \o b) \o v = <<m.n>> \o (a \o b \o v)
    <3> DEFINE l == ((<<m.n>> \o a) \o b) \o v
               r == <<m.n>> \o (a \o b \o v)
    <3>1. /\ l \in Seq(Nat) /\ r \in Seq(Nat) /\ Len(l) = Len(r)
          /\ \A i \in 1..Len(l) : l[i] = r[i]
      BY <1>9, <1>10
    <3> HIDE DEF l, r
    <3>2. l = r
      BY <3>1, SeqEqual
    <3> QED BY <3>2 DEF l, r
  <2> DEFINE w == a \o b \o v
             z == <<m.n>> \o w
  <2>3. w \in Seq(Nat)
    BY <1>10, ConcatProperties
  <2> HIDE DEF w
  <2>4. z # <<>> /\ Head(z) = m.n /\ Tail(z) = w
    <3>1. z \in Seq(Nat) /\ Len(z) = 1 + Len(w) /\ z[1] = m.n /\ Len(w) \in Nat
      BY <1>9, <2>3
    <3>2. Tail(z) \in Seq(Nat) /\ Len(Tail(z)) = Len(w) /\ \A i \in 1..Len(w) : Tail(z)[i] = w[i]
      BY <1>9, <2>3
    <3> HIDE DEF z
    <3>3. Tail(z) = w
      BY <2>3, <3>2, SeqEqual
    <3> QED BY <3>1, <3>3, EmptySeq
  <2> HIDE DEF z
  <2>5. Owed(c) = z /\ Owed(c)' = w
    BY <1>13, <2>1, <2>2 DEF w, z
  <2>6. OneShown(c)
    BY <1>3, <1>12, <1>14, <2>4, <2>5 DEF OneShown, serverVars
  <2> QED BY <1>4, <2>6, OnlyView
<1>15. CASE m \notin Bodies
  <2>1. SameView(c)
    BY <1>3, <1>11, <1>12, <1>13, <1>15 DEF SameView, serverVars
  <2> QED BY <1>4, <2>1, OnlyView
<1> QED BY <1>14, <1>15

\* It is not, and nothing more is owed.
LEMMA WriteFailsView ==
    ASSUME IndInv, NEW c \in Conns, WriteFails(c)
    PROVE  [Promise!Next]_(Promise!bcVars)
<1>1. TypeOK
  BY DEF IndInv
<1>2. UNCHANGED <<serverVars, socket_, peer, m_outbox, wire>> /\ Lost(c)'
  BY DEF WriteFails, Lost, netVars
<1>3. Only(c)
  BY <1>1, <1>2 DEF Only, SameIn, WriteFails, TypeOK, serverVars
<1>4. Failed(c)
  BY <1>2 DEF Failed, Seen
<1> QED BY <1>3, <1>4, OnlyView

\* close() is called by a handler that has nothing to do with writes.
LEMMA CloseView ==
    ASSUME IndInv, NEW c \in Conns, NEW q \in Seq(TaskSet), Close(c, q),
           SameWrites(q, strand_[c]), UNCHANGED <<visiting, dumped, socket_, peer, m_outbox, wire>>
    PROVE  [Promise!Next]_(Promise!bcVars)
<1>1. TypeOK /\ ListInv(c)
  BY DEF IndInv, ConnInv
<1>2. Closes(c, q)
  BY <1>1, CloseCloses
<1>3. SameWrites(strand_'[c], strand_[c])
  BY <1>1, CloseOther DEF SameWrites
<1>4. Only(c)
  BY <1>1, <1>2 DEF Only, SameIn, Closes, Leaves, TypeOK
<1> QED BY <1>2, <1>3, <1>4, SameQueueView DEF Closes

\* handle_read of an error, of a header line that ends nothing, of the end of
\* headers that are refused; a header line or a handshake that is too long.
LEMMA ClosingView ==
    ASSUME IndInv, NEW c \in Conns,
           \/ HandleReadError(c) \/ HandleHandshakeRejected(c)
           \/ HeaderLineTooLong(c) \/ DropHugeHandshake(c)
           \/ HandleFrame(c) /\ Runs(c, "closeFrame")
           \/ HandleHeaderLine(c) /\ Close(c, Tail(strand_[c]))
    PROVE  [Promise!Next]_(Promise!bcVars)
<1>1. TypeOK /\ strand_[c] \in Seq(TaskSet)
  BY DEF IndInv, TypeOK
<1>2. UNCHANGED <<visiting, dumped, socket_, peer, m_outbox, wire>>
  BY DEF HandleReadError, HandleHandshakeRejected, HeaderLineTooLong, DropHugeHandshake,
         HandleFrame, HandleHeaderLine, netVars, writeVars
<1>3. CASE HeaderLineTooLong(c) \/ DropHugeHandshake(c)
  <2>1. Close(c, strand_[c]) /\ SameWrites(strand_[c], strand_[c])
    BY <1>3 DEF HeaderLineTooLong, DropHugeHandshake, SameWrites
  <2> QED BY <1>1, <1>2, <2>1, CloseView
<1>4. ASSUME NEW op \in {"error", "reject", "closeFrame", "line"}, Runs(c, op),
             Close(c, Tail(strand_[c]))
      PROVE  [Promise!Next]_(Promise!bcVars)
  <2>1. op \notin WriteResults \cup {"log"}
    BY DEF WriteResults
  <2>2. Tail(strand_[c]) \in Seq(TaskSet) /\ SameWrites(Tail(strand_[c]), strand_[c])
    BY <1>1, <1>4, <2>1, RunOther
  <2> QED BY <1>2, <1>4, <2>2, CloseView
<1>5. HandleFrame(c) /\ Runs(c, "closeFrame") => Close(c, Tail(strand_[c]))
  BY DEF HandleFrame, Runs
<1> QED BY <1>3, <1>4, <1>5 DEF HandleReadError, HandleHandshakeRejected, HandleHeaderLine

\* Handlers that write nothing and close nothing.
LEMMA OtherHandlerView ==
    ASSUME IndInv, NEW c \in Conns,
           \/ HandleHeaderLine(c) /\ strand_' = [strand_ EXCEPT ![c] = Tail(@)]
           \/ HandshakeThrows(c)
           \/ HandleFrame(c) /\ (Runs(c, "ping") \/ Runs(c, "frame"))
           \/ CloseImplThrows(c)
    PROVE  [Promise!Next]_(Promise!bcVars)
<1> DEFINE q == Tail(strand_[c])
<1>1. TypeOK /\ strand_[c] \in Seq(TaskSet)
  BY DEF IndInv, TypeOK
<1>2. PICK op \in {"line", "accept", "ping", "frame", "close"} : Runs(c, op)
  BY DEF HandleHeaderLine, HandshakeThrows, CloseImplThrows
<1>3. q \in Seq(TaskSet) /\ SameWrites(q, strand_[c])
  <2>1. op \notin WriteResults \cup {"log"}
    BY DEF WriteResults
  <2> QED BY <1>1, <1>2, <2>1, RunOther
<1>4. \/ strand_' = [strand_ EXCEPT ![c] = Tail(@)]
      \/ \E t \in {"handshake", "pong"} : strand_' = [strand_ EXCEPT ![c] = Append(Tail(@), Task(t))]
  BY DEF HandshakeThrows, HandleFrame, CloseImplThrows, Runs
<1>5. SameWrites(strand_'[c], strand_[c])
  <2>1. CASE strand_' = [strand_ EXCEPT ![c] = Tail(@)]
    BY <1>1, <1>3, <2>1 DEF TypeOK
  <2>2. ASSUME NEW t \in {"handshake", "pong"},
               strand_' = [strand_ EXCEPT ![c] = Append(Tail(@), Task(t))]
        PROVE  SameWrites(strand_'[c], strand_[c])
    <3>1. Task(t) \in TaskSet /\ Task(t).op \notin WriteResults \cup {"log"}
      BY DEF Task, TaskSet, PostedWrites, WriteResults
    <3>2. strand_'[c] = Append(q, Task(t))
      BY <1>1, <2>2 DEF TypeOK
    <3>3. SameWrites(strand_'[c], q)
      BY <1>3, <3>1, <3>2, AppendOther
    <3> QED BY <1>3, <3>3 DEF SameWrites
  <2> QED BY <1>4, <2>1, <2>2
<1>6. UNCHANGED <<visiting, dumped, socket_, peer, m_outbox, wire>>
  BY DEF HandleHeaderLine, HandshakeThrows, HandleFrame, CloseImplThrows, serverVars, netVars,
         writeVars
<1>7. sessions' = sessions \/ Close(c, q)
  BY DEF HandleHeaderLine, HandshakeThrows, HandleFrame, CloseImplThrows, serverVars
<1>8. CASE sessions' = sessions
  <2>1. Only(c)
    BY <1>1, <1>4, <1>6, <1>8 DEF Only, SameIn, TypeOK
  <2> QED BY <1>5, <1>6, <1>8, <2>1, SameQueueView
<1>9. CASE Close(c, q)
  BY <1>3, <1>6, <1>9, CloseView
<1> QED BY <1>7, <1>8, <1>9

\* A queue without writes of records has none.
LEMMA NoneToWrite ==
    ASSUME NEW q \in Seq(TaskSet), ~Has(q, {"log"})
    PROVE  Records(q, LogWrites) = <<>>
<1> DEFINE f == UpTo(q, LogWrites)
           N == {n \in Nat : n <= Len(q) => f[n] = <<>>}
<1>1. Len(q) \in Nat /\ \A i \in 1..Len(q) : q[i] \notin LogWrites
  BY LenProperties, ElementOfSeq, OtherTask DEF Has
<1>2. /\ Records(q, LogWrites) = f[Len(q)] /\ f[0] = <<>>
      /\ \A i \in 1..Len(q) : f[i] = f[i - 1]
  BY <1>1, UpToIs
<1> HIDE DEF f
<1>3. 0 \in N
  BY <1>2
<1>4. ASSUME NEW n \in Nat, n \in N PROVE n + 1 \in N
  <2> SUFFICES ASSUME n + 1 <= Len(q) PROVE f[n + 1] = <<>>
    OBVIOUS
  <2>1. n + 1 \in 1..Len(q) /\ n + 1 - 1 = n /\ f[n] = <<>>
    BY <1>1, <1>4
  <2> QED BY <1>2, <2>1
<1>5. \A n \in Nat : n \in N
  <2> HIDE DEF N
  <2> QED BY <1>3, <1>4, NatInduct
<1> QED BY <1>1, <1>2, <1>5

LEMMA ConcatTwo ==
    ASSUME NEW s \in Seq(ChunkSet), NEW x \in ChunkSet, NEW y \in ChunkSet
    PROVE  s \o <<x, y>> = Append(Append(s, x), y) /\ Append(s, x) \in Seq(ChunkSet)
<1> DEFINE l == s \o <<x, y>>
           r == Append(Append(s, x), y)
<1>1. /\ l \in Seq(ChunkSet) /\ r \in Seq(ChunkSet) /\ Len(l) = Len(r)
      /\ \A i \in 1..Len(l) : l[i] = r[i]
  OBVIOUS
<1> HIDE DEF l, r
<1>2. l = r
  BY <1>1, SeqEqual
<1> QED BY <1>2, AppendProperties DEF l, r

\* The session is listed: nothing was written to the connection before.
LEMMA AcceptedView ==
    ASSUME IndInv, FramesInv, NEW c \in Conns, HandleHandshakeAccepted(c)
    PROVE  [Promise!Next]_(Promise!bcVars)
<1> DEFINE q == Tail(strand_[c])
           t == Task("handshake")
<1>1. TypeOK /\ ListInv(c) /\ HandshakeInv(c) /\ strand_[c] \in Seq(TaskSet)
  BY DEF IndInv, ConnInv, TypeOK
<1>2. Takes(c, "accept", q)
  BY <1>1, RunsTakes DEF HandleHandshakeAccepted
<1>3. m_parsing_headers[c]
  BY <1>1, <1>2 DEF HandshakeInv, Takes
<1>4. /\ c \notin sessions /\ c \notin visiting
      /\ wire[c] = <<>> /\ m_outbox[c] = <<>>
      /\ ~Has(strand_[c], PostedWrites) /\ ~Has(strand_[c], WriteResults)
  BY <1>1, <1>3, NothingWritten DEF ListInv, Silent
<1>5. /\ strand_' = [strand_ EXCEPT ![c] = Append(Tail(@), t)]
      /\ sessions' = sessions \cup {c}
      /\ UNCHANGED <<visiting, dumped, socket_, peer, m_outbox, wire>>
  BY DEF HandleHandshakeAccepted, writeVars
<1>6. Only(c)
  BY <1>1, <1>5 DEF Only, SameIn, TypeOK
<1>7. strand_'[c] = Append(q, t)
  BY <1>1, <1>5 DEF TypeOK
<1>8. t \in TaskSet /\ t.op \notin WriteResults \cup {"log"}
  BY DEF Task, TaskSet, PostedWrites, WriteResults
<1> HIDE DEF t
<1>9. SameWrites(strand_'[c], strand_[c])
  <2>1. SameWrites(strand_'[c], q)
    BY <1>2, <1>7, <1>8, AppendOther DEF Takes
  <2>2. SameWrites(q, strand_[c])
    <3>1. "accept" \notin WriteResults \cup {"log"} /\ Runs(c, "accept")
      BY DEF WriteResults, HandleHandshakeAccepted
    <3> QED BY <1>1, <3>1, RunOther
  <2> QED BY <2>1, <2>2 DEF SameWrites
<1>10. Records(strand_[c], LogWrites) = <<>>
  BY <1>1, <1>4, NoneToWrite DEF Has, PostedWrites
<1>11. Lost(c)' <=> Lost(c)
  BY <1>5 DEF Lost
<1>12. Owed(c) = <<>>
  <2>1. Records(m_outbox[c], Bodies) = <<>>
    BY <1>4, NoRecords
  <2>2. <<>> \o <<>> \o <<>> = <<>>
    BY ConcatEmptySeq, EmptySeq
  <2> QED BY <1>4, <1>10, <2>1, <2>2, OwedIs DEF OwedOf
<1>13. Owed(c)' = <<>>
  BY <1>5, <1>9, <1>11, <1>12, SameOwed
<1>14. Seen(c) = <<>> /\ Seen(c)' = <<>>
  BY <1>4, <1>5, NoRecords DEF Seen
<1>15. Joined(c)
  BY <1>4, <1>5, <1>11, <1>12, <1>13, <1>14 DEF Joined
<1> QED BY <1>6, <1>15, OnlyView

\* What a posted write has to write goes to the outbox.
LEMMA WriteImplView ==
    ASSUME IndInv, NEW c \in Conns, WriteImpl(c)
    PROVE  [Promise!Next]_(Promise!bcVars)
<1> DEFINE s == strand_[c]
           t == Head(s)
           q == Tail(s)
           o == IF Has(s, WriteResults) THEN Tail(m_outbox[c]) ELSE m_outbox[c]
           n == IF Has(q, WriteResults) THEN Tail(m_outbox'[c]) ELSE m_outbox'[c]
           v == IF c \in visiting THEN <<dumped>> ELSE <<>>
<1>1. TypeOK /\ WriteInv(c) /\ m_outbox[c] \in Seq(ChunkSet) /\ dumped \in Nat
  BY DEF IndInv, ConnInv, TypeOK
<1>2. PICK op \in PostedWrites : Runs(c, op)
  BY DEF WriteImpl
<1>3. Takes(c, op, q) /\ s \in Seq(TaskSet)
  BY <1>1, <1>2, RunsTakes DEF TypeOK
<1>4. s # <<>> /\ t \in TaskSet /\ t.op \in PostedWrites /\ q \in Seq(TaskSet)
      /\ (Has(q, WriteResults) <=> Has(s, WriteResults))
  BY <1>2, <1>3 DEF Takes, PostedWrites, WriteResults
<1>5. strand_'[c] = q /\ m_outbox'[c] = m_outbox[c] \o ChunksOf(t)
      /\ UNCHANGED <<serverVars, socket_, peer, wire>>
  BY <1>1 DEF WriteImpl, TypeOK, netVars
<1>6. Only(c)
  BY <1>1, <1>5 DEF Only, SameIn, WriteImpl, TypeOK, serverVars
<1>7. ChunksOf(t) \in Seq(ChunkSet)
  BY <1>4, ChunksOfWrite
<1>8. o \in Seq(ChunkSet) /\ n = o \o ChunksOf(t)
  <2>1. CASE Has(s, WriteResults)
    <3>1. m_outbox[c] # <<>>
      BY <1>1, <2>1 DEF WriteInv
    <3> QED BY <1>1, <1>4, <1>5, <1>7, <2>1, <3>1, TailConcat, TailLength
  <2>2. CASE ~Has(s, WriteResults)
    BY <1>1, <1>4, <1>5, <2>2
  <2> QED BY <2>1, <2>2
<1>9. Lost(c)' <=> Lost(c)
  BY <1>5 DEF Lost
<1> DEFINE a == Records(o, Bodies)
           b == Records(q, LogWrites)
<1>10. /\ Owed(c) = IF Lost(c) THEN <<>> ELSE a \o Records(s, LogWrites) \o v
       /\ Owed(c)' = IF Lost(c) THEN <<>> ELSE Records(n, Bodies) \o b \o v
  BY <1>5, <1>9, OwedIs DEF OwedOf, serverVars
<1> HIDE DEF o, n, v, s, t, q
<1>11. a \in Seq(Nat) /\ b \in Seq(Nat)
  BY <1>4, <1>8, RecordsAreNumbers
<1>12. Records(n, Bodies) \o b = a \o Records(s, LogWrites)
  <2>1. CASE t.op = "log"
    <3> DEFINE x == Chunk("head", t.n)
               y == Chunk("body", t.n)
    <3>1. t \in LogWrites /\ t.n \in Nat
      BY <1>4, <2>1 DEF LogWrites, TaskSet
    <3>2. x \in ChunkSet /\ y \in ChunkSet /\ x \notin Bodies /\ y \in Bodies /\ y.n = t.n
      BY <3>1 DEF Chunk, ChunkSet, Bodies
    <3>3. ChunksOf(t) = <<x, y>>
      BY <2>1 DEF ChunksOf
    <3> HIDE DEF x, y
    <3>4. o \o <<x, y>> = Append(Append(o, x), y) /\ Append(o, x) \in Seq(ChunkSet)
      BY <1>8, <3>2, ConcatTwo
    <3>5. Records(Append(o, x), Bodies) = a
      BY <1>8, <3>2, RecordsAppend
    <3>6. Records(n, Bodies) = Append(a, t.n)
      <4>1. n = Append(Append(o, x), y)
        BY <1>8, <3>3, <3>4
      <4> DEFINE w == Append(o, x)
      <4> HIDE DEF w
      <4>2. w \in Seq(ChunkSet) /\ Records(w, Bodies) = a /\ n = Append(w, y)
        BY <3>4, <3>5, <4>1 DEF w
      <4>3. Records(Append(w, y), Bodies) = Append(Records(w, Bodies), y.n)
        BY <3>2, <4>2, RecordsAppend
      <4> QED BY <3>2, <4>2, <4>3
    <3>7. Records(s, LogWrites) = <<t.n>> \o b
      <4>1. \A z \in TaskSet : z.n \in Nat
        BY DEF TaskSet
      <4> QED BY <1>3, <1>4, <3>1, <4>1, RecordsTail DEF t, q
    <3>8. Append(a, t.n) \o b = a \o (<<t.n>> \o b)
      BY <1>11, <3>1, ConcatNumbers
    <3> QED BY <3>6, <3>7, <3>8
  <2>2. CASE t.op # "log"
    <3> DEFINE x == Chunk(t.op, 0)
    <3>1. x \in ChunkSet /\ x \notin Bodies
      BY <1>4, <2>2 DEF Chunk, ChunkSet, Bodies, PostedWrites
    <3>2. ChunksOf(t) = <<x>>
      BY <2>2 DEF ChunksOf
    <3> HIDE DEF x
    <3>3. o \o <<x>> = Append(o, x)
      BY <1>8, <3>1
    <3>4. Records(n, Bodies) = a
      <4>1. n = Append(o, x)
        BY <1>8, <3>2, <3>3
      <4>2. Records(Append(o, x), Bodies) = a
        BY <1>8, <3>1, RecordsAppend
      <4> QED BY <4>1, <4>2
    <3>5. Records(s, LogWrites) = b
      BY <1>3, <1>4, <2>2, TakeOther DEF t, q
    <3> QED BY <3>4, <3>5
  <2> QED BY <2>1, <2>2
<1>13. Owed(c)' = Owed(c)
  <2>1. CASE Lost(c)
    BY <1>10, <2>1
  <2>2. CASE ~Lost(c)
    BY <1>10, <1>12, <2>2
  <2> QED BY <2>1, <2>2
<1>14. SameView(c)
  BY <1>5, <1>9, <1>13 DEF SameView, Seen, serverVars
<1> QED BY <1>6, <1>14, OnlyView

\* handle_write pops what was sent, and may close the socket.
LEMMA HandleWrittenView ==
    ASSUME IndInv, NEW c \in Conns, HandleWritten(c)
    PROVE  [Promise!Next]_(Promise!bcVars)
<1> DEFINE q == Tail(strand_[c])
<1>1. TypeOK /\ WriteInv(c) /\ strand_[c] \in Seq(TaskSet)
  BY DEF IndInv, ConnInv, TypeOK
<1>2. Takes(c, "written", q)
  BY <1>1, RunsTakes DEF HandleWritten
<1>3. Has(strand_[c], WriteResults) /\ ~Has(q, WriteResults)
  BY <1>1, <1>2 DEF Takes, WriteInv, WriteResults
<1>4. Records(q, LogWrites) = Records(strand_[c], LogWrites)
  BY <1>1, <1>2, TakeOther DEF Takes
<1>5. strand_'[c] = q /\ m_outbox'[c] = Tail(m_outbox[c])
      /\ UNCHANGED <<serverVars, peer, wire>>
  BY <1>1 DEF HandleWritten, TypeOK
<1>6. socket_' = socket_ \/ socket_' = [socket_ EXCEPT ![c] = "closed"]
  BY DEF HandleWritten
<1>7. Only(c)
  BY <1>1, <1>5, <1>6 DEF Only, SameIn, HandleWritten, TypeOK, serverVars
<1>8. CASE socket_' = socket_
  <2>1. Lost(c)' <=> Lost(c)
    BY <1>5, <1>8 DEF Lost
  <2>2. Owed(c)' = Owed(c)
    BY <1>3, <1>4, <1>5, <2>1, OwedIs DEF OwedOf, serverVars
  <2>3. SameView(c)
    BY <1>5, <2>1, <2>2 DEF SameView, Seen, serverVars
  <2> QED BY <1>7, <2>3, OnlyView
<1>9. CASE socket_' = [socket_ EXCEPT ![c] = "closed"]
  <2>1. Failed(c)
    BY <1>1, <1>5, <1>9 DEF Failed, Lost, Seen, TypeOK
  <2> QED BY <1>7, <2>1, OnlyView
<1> QED BY <1>6, <1>8, <1>9

\* A write failed: the viewer was lost already.
LEMMA HandleWriteFailedView ==
    ASSUME IndInv, NEW c \in Conns, HandleWriteFailed(c)
    PROVE  [Promise!Next]_(Promise!bcVars)
<1> DEFINE q == Tail(strand_[c])
<1>1. TypeOK /\ ListInv(c) /\ CloseInv(c)
  BY DEF IndInv, ConnInv
<1>2. Takes(c, "failed", q)
  BY <1>1, RunsTakes DEF HandleWriteFailed
<1>3. Lost(c)
  BY <1>1, <1>2 DEF Takes, CloseInv, Lost
<1>4. Close(c, q) /\ UNCHANGED <<visiting, dumped, peer, wire>>
      /\ m_outbox' = [m_outbox EXCEPT ![c] = Tail(@)]
      /\ (socket_' = socket_ \/ socket_' = [socket_ EXCEPT ![c] = "closed"])
  BY DEF HandleWriteFailed
<1>5. Closes(c, q)
  BY <1>1, <1>2, <1>4, CloseCloses DEF Takes
<1>6. Only(c)
  BY <1>1, <1>4, <1>5 DEF Only, SameIn, Closes, Leaves, TypeOK
<1>7. Failed(c)
  BY <1>1, <1>3, <1>4 DEF Failed, Lost, Seen, TypeOK
<1> QED BY <1>6, <1>7, OnlyView

\* close_impl stops receiving, or closes the socket.
LEMMA CloseImplView ==
    ASSUME IndInv, NEW c \in Conns, CloseImpl(c)
    PROVE  [Promise!Next]_(Promise!bcVars)
<1>1. TypeOK /\ "close" \notin WriteResults \cup {"log"}
  BY DEF IndInv, WriteResults
<1>2. SameWrites(Tail(strand_[c]), strand_[c])
  BY <1>1, RunOther DEF CloseImpl
<1>3. strand_'[c] = Tail(strand_[c]) /\ UNCHANGED <<serverVars, peer, m_outbox, wire>>
  BY <1>1 DEF CloseImpl, TypeOK, writeVars
<1>4. Only(c)
  BY <1>1, <1>3 DEF Only, SameIn, CloseImpl, TypeOK, serverVars
<1>5. CASE socket_'[c] = "closed"
  <2>1. Failed(c)
    BY <1>3, <1>5 DEF Failed, Lost, Seen
  <2> QED BY <1>4, <2>1, OnlyView
<1>6. CASE socket_'[c] # "closed"
  <2>1. socket_[c] # "closed"
    BY DEF CloseImpl
  <2> QED BY <1>2, <1>3, <1>4, <1>6, <2>1, SameQueueView DEF serverVars
<1> QED BY <1>5, <1>6

-----------------------------------------------------------------------------
(* The refinement. *)

\* Neither the end of a dump nor the operator concerns a viewer.
LEMMA IdleView ==
    ASSUME IndInv, DumpReturns \/ DismissAlert \/ UNCHANGED wsVars
    PROVE  UNCHANGED Promise!bcVars
<1>1. /\ UNCHANGED <<sessions, visiting, dumped>>
      /\ UNCHANGED <<socket_, peer, strand_, m_outbox, wire>>
  BY DEF DumpReturns, DismissAlert, wsVars, serverVars, netVars, writeVars
<1>2. \A c \in Conns : Lost(c)' = Lost(c) /\ Owed(c)' = Owed(c) /\ Seen(c)' = Seen(c)
  BY <1>1 DEF Lost, Owed, Unsent, Seen
<1>3. {c \in sessions : ~Lost(c)}' = {c \in sessions : ~Lost(c)}
  BY <1>1, <1>2 DEF IndInv, TypeOK
<1>4. [c \in Conns |-> Owed(c)]' = [c \in Conns |-> Owed(c)]
      /\ [c \in Conns |-> Seen(c)]' = [c \in Conns |-> Seen(c)]
  BY <1>2
<1> QED BY <1>1, <1>3, <1>4 DEF Promise!bcVars, Seen

LEMMA InitView == Init => Promise!Init
<1> SUFFICES ASSUME Init PROVE Promise!Init
  OBVIOUS
<1>1. dumped = 0 /\ sessions = {} /\ visiting = {}
      /\ \A c \in Conns : strand_[c] = <<>> /\ m_outbox[c] = <<>> /\ wire[c] = <<>>
  BY DEF Init
<1>2. \A c \in Conns : Seen(c) = <<>>
  BY <1>1, NoRecords DEF Seen
<1>3. ASSUME NEW c \in Conns PROVE Owed(c) = <<>>
  <2>1. <<>> \o <<>> \o <<>> = <<>>
    BY ConcatEmptySeq, EmptySeq
  <2>2. ~Has(<<>>, WriteResults) /\ Records(<<>>, Bodies) = <<>> /\ Records(<<>>, LogWrites) = <<>>
    BY EmptyQueue, NoRecords
  <2> QED BY <1>1, <2>1, <2>2, OwedIs DEF OwedOf
<1> QED BY <1>1, <1>2, <1>3 DEF Promise!Init, Seen

LEMMA StepView ==
    ASSUME IndInv, FramesInv, [WsNext]_wsVars
    PROVE  [Promise!Next]_(Promise!bcVars)
<1>1. CASE ServerStep
  BY <1>1, OnDumpDataView, IdleView, SessionWriteView DEF ServerStep
<1>2. CASE DismissAlert \/ UNCHANGED wsVars
  BY <1>2, IdleView
<1>3. ASSUME NEW c \in Conns, HandlerStep(c) PROVE [Promise!Next]_(Promise!bcVars)
  <2>1. CASE HandleReadError(c) \/ HandleHandshakeRejected(c) \/ DropHugeHandshake(c)
    BY <2>1, ClosingView
  <2>2. CASE HandleHeaderLine(c)
    BY <2>2, ClosingView, OtherHandlerView DEF HandleHeaderLine
  <2>3. CASE HandleFrame(c)
    BY <2>3, ClosingView, OtherHandlerView DEF HandleFrame
  <2>4. CASE HandshakeThrows(c) \/ CloseImplThrows(c)
    BY <2>4, OtherHandlerView
  <2>5. CASE HandleHandshakeAccepted(c) \/ WriteImpl(c)
    BY <2>5, AcceptedView, WriteImplView
  <2>6. CASE HandleWritten(c) \/ HandleWriteFailed(c) \/ CloseImpl(c)
    BY <2>6, HandleWrittenView, HandleWriteFailedView, CloseImplView
  <2> QED BY <1>3, <2>1, <2>2, <2>3, <2>4, <2>5, <2>6 DEF HandlerStep
<1>4. ASSUME NEW c \in Conns, CompletionStep(c) PROVE [Promise!Next]_(Promise!bcVars)
  BY <1>4, NetworkView, ReadView, WriteCompletesView, WriteFailsView DEF CompletionStep
<1>5. ASSUME NEW c \in Conns, HeaderLineTooLong(c) \/ PeerCloses(c) \/ PeerFails(c)
      PROVE  [Promise!Next]_(Promise!bcVars)
  BY <1>5, ClosingView, NetworkView
<1> QED BY <1>1, <1>2, <1>3, <1>4, <1>5 DEF WsNext

\* The WebSocket side does what Broadcast promises: every listed viewer is shown
\* each record once and in the order of the calls of onDumpData, and none is
\* lost while its network works and it is not closed (configs.cpp, onDumpData;
\* connection.cpp, write_impl, write_many_impl and handle_write).
THEOREM Refinement == WsSpec => ImplementsBroadcast
<1>1. IndInv /\ FramesInv /\ [WsNext]_wsVars => (IndInv /\ FramesInv)'
  BY NextInv, FramesStep
<1>2. Init => IndInv /\ FramesInv /\ Promise!Init
  BY InitInv, FramesInit, InitView
<1>3. IndInv /\ FramesInv /\ [WsNext]_wsVars => [Promise!Next]_(Promise!bcVars)
  BY StepView
<1> QED BY <1>1, <1>2, <1>3, PTL DEF WsSpec, ImplementsBroadcast, Promise!Spec
=============================================================================
