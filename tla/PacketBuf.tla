----------------------------- MODULE PacketBuf ------------------------------
(***************************************************************************)
(* The packet memory of a log client: Client::getPacketBuf and             *)
(* Client::backPacketBuf (dslog/socksvr.cpp) as operators on the list of   *)
(* PacketBuf nodes, a sequence from firstBuf to lastBuf.                   *)
(*                                                                         *)
(* A node is one malloc: a PacketBuf structure of NODE bytes, then total   *)
(* bytes for packets, used of them handed out so far.  The pointer that    *)
(* getPacketBuf returns is [at, off]: off bytes into the packet memory of  *)
(* the node at position at, the one whose counters it changed.             *)
(***************************************************************************)
EXTENDS Naturals, SequencesExt

CONSTANTS
    HDR,                    \* sizeof(PckHeader)
    NODE,                   \* sizeof(PacketBuf)
    PACKETBUFALLOCSIZE,
    PACKETFREEMIN

ASSUME PacketBufAssumption ==
    /\ HDR \in Nat \ {0}
    /\ NODE \in Nat \ {0}
    /\ PACKETBUFALLOCSIZE \in Nat
    /\ PACKETBUFALLOCSIZE > NODE
    /\ PACKETFREEMIN \in Nat

PacketBufSet == [used : Nat, total : Nat, cc : Nat]
Pointers == [at : Nat, off : Nat]

-----------------------------------------------------------------------------
Fits(n, needSize) == n.used + needSize + HDR <= n.total

FirstFit(bufs, needSize) == {i \in DOMAIN bufs : Fits(bufs[i], needSize)}

\* Of the first node with enough room the counters are changed; but the
\* pointer into it is computed from the counter of the last node.  With no
\* such node a new one is linked in behind the last.
TakePacketBuf(bufs, needSize) ==
    LET fit   == FirstFit(bufs, needSize)
        i     == Min(fit)
        t     == Max({needSize + HDR + NODE, PACKETBUFALLOCSIZE})
        fresh == [used |-> needSize + HDR, total |-> t - NODE, cc |-> 1]
    IN  IF fit # {}
        THEN [bufs |-> [bufs EXCEPT ![i].used = @ + needSize + HDR, ![i].cc = @ + 1],
              r    |-> [at |-> i, off |-> bufs[Len(bufs)].used]]
        ELSE [bufs |-> Append(bufs, fresh),
              r    |-> [at |-> Len(bufs) + 1, off |-> 0]]

\* backPacketBuf looks for the node by address: from the structure itself to
\* total bytes behind its beginning, which leaves out the last NODE bytes.
\* (Pointers that lie outside of their node are taken to be in no other.)
FindsNode(bufs, mem) == NODE + mem.off <= bufs[mem.at].total

FreesNodeEmpty(n) ==                    \* mutant: a node without packets is freed
    n.cc = 1 /\ n.total - n.used < PACKETFREEMIN

\* A node that packets are left in, and little room, is unlinked and freed.
FreesNode(n) == n.cc # 1 /\ n.total - n.used < PACKETFREEMIN

ReturnPacketBufKept(bufs, mem) == bufs  \* mutant: cc is not decremented

ReturnPacketBufTwice(bufs, mem) ==      \* mutant: cc is decremented twice
    [bufs EXCEPT ![mem.at].cc = @ - 2]

ReturnPacketBuf(bufs, mem) ==
    LET n == bufs[mem.at] IN
    IF FreesNode(n)
    THEN RemoveAt(bufs, mem.at)
    ELSE [bufs EXCEPT ![mem.at].cc = @ - 1]

\* The packet lies within the memory of its node.
InBounds(bufs, mem, needSize) == mem.off + HDR + needSize <= bufs[mem.at].total
=============================================================================
