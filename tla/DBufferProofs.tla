--------------------------- MODULE DBufferProofs ----------------------------
(***************************************************************************)
(* Proofs about DBuffer, for every set of buffers, blocks and bytes and    *)
(* every bound: with callers that keep what they owe, the data of a buffer *)
(* lies in its block, no block has two owners or is shown when it is free, *)
(* and a block is lost only in the two ways that dbuffer.cpp has for it.   *)
(*                                                                         *)
(* A call either works in the block of its buffer (Writes) or takes a new  *)
(* one (Renews).  First each member function is shown to do one of the     *)
(* two, on a record, and where it leaves each byte of the data (Octet);    *)
(* then that the inductive invariant, Good with a block left to take,      *)
(* survives both and every way of handing a block over.  Good counts the   *)
(* lost blocks with those of the callers, and so says of a step which      *)
(* blocks it loses.                                                        *)
(***************************************************************************)
EXTENDS DBuffer, TLAPS

-----------------------------------------------------------------------------
(* What holds of a buffer, and what a member function may do to it. *)

\* The contents of a block of n bytes, and of any block.
MemOf(n) == [0..(n - 1) -> Bytes]
Mems == UNION {MemOf(n) : n \in Nat}

FieldSet ==
    [buffer : Blocks \cup {Null}, maxbuffer : Nat, begin : Nat, end : Nat, borrowed : BOOLEAN]

Bufs ==
    [buffer : Blocks \cup {Null}, maxbuffer : Nat, begin : Nat, end : Nat, borrowed : BOOLEAN,
     heap : [Blocks -> Mems]]

\* The block is as large as it says, and the data lies within it.
Backed(b) ==
    /\ b \in Bufs
    /\ b.buffer = Null <=> b.maxbuffer = 0
    /\ b.buffer # Null => b.heap[b.buffer] \in MemOf(b.maxbuffer)

Sound(b) == Backed(b) /\ b.begin <= b.end /\ b.end <= b.maxbuffer

\* c has the block of b, and no other block differs.
Writes(b, c) ==
    /\ c.buffer = b.buffer /\ c.maxbuffer = b.maxbuffer /\ c.borrowed = b.borrowed
    /\ \A k \in Blocks : k # b.buffer => c.heap[k] = b.heap[k]

\* c has a block that was free, and that of b is freed unless it is lent.
Renews(b, c) ==
    /\ c.buffer \in UnusedBlocks(b.heap) /\ ~c.borrowed
    /\ \A k \in Blocks : k # c.buffer => c.heap[k] = Freed(b)[k]

\* b with its data elsewhere in the block.
Spanning(b, i, j) == [b EXCEPT !.begin = i, !.end = j]

-----------------------------------------------------------------------------
(* Memory. *)

\* An unallocated block is a block of no bytes.
LEMMA NoMem == Unallocated \in Mems /\ Unallocated \in MemOf(0) /\ DOMAIN Unallocated = {}
<1>1. Unallocated \in MemOf(0)
  BY DEF Unallocated, MemOf
<1>2. QED
  BY <1>1 DEF Mems, Unallocated

\* A block of at least one byte is allocated.
LEMMA SomeMem ==
    ASSUME NEW n \in Nat \ {0}, NEW m \in MemOf(n)
    PROVE  m # Unallocated /\ m \in Mems
<1>1. DOMAIN m = 0..(n - 1)
  BY DEF MemOf
<1>2. 0 \in DOMAIN m
  BY <1>1
<1>3. QED
  BY <1>2, NoMem DEF Mems

\* malloc yields a block of the size asked for.
LEMMA FreshMem ==
    ASSUME NEW n \in Nat
    PROVE  Fresh(n) \in MemOf(n) /\ Fresh(n) \in Mems
  BY DBufferAssumption DEF Fresh, MemOf, Mems, DBufferAssumption

\* A copy, wherever it goes and however long it is, leaves a block its size.
LEMMA CopiedMem ==
    ASSUME NEW size \in Nat, NEW to \in MemOf(size), NEW from \in Mems,
           NEW dst \in Int, NEW src \in Int, NEW n \in Int
    PROVE  Copied(to, dst, from, src, n) \in MemOf(size)
<1>1. PICK size2 \in Nat : from \in [0..(size2 - 1) -> Bytes]
  BY DEF Mems, MemOf
<1>2. to \in [0..(size - 1) -> Bytes]
  BY DEF MemOf
<1>3. Copied(to, dst, from, src, n) \in [0..(size - 1) -> Bytes]
  BY <1>1, <1>2, DBufferAssumption DEF Copied, DBufferAssumption
<1>4. QED
  BY <1>3 DEF MemOf

\* A buffer without a block has no bytes.
LEMMA MemIsMem ==
    ASSUME NEW b \in Bufs
    PROVE  Mem(b) \in Mems
  BY NoMem DEF Mem, Bufs

\* A new block to which a part of the old one is copied.
LEMMA NewMem ==
    ASSUME NEW b \in Bufs, NEW size \in Nat,
           NEW dst \in Int, NEW src \in Int, NEW n \in Int
    PROVE  Copied(Fresh(size), dst, Mem(b), src, n) \in MemOf(size)
  BY MemIsMem, FreshMem, CopiedMem

\* A move inside the block changes nothing but the bytes.
LEMMA MoveWrites ==
    ASSUME NEW b, Backed(b), NEW dst \in Int, NEW src \in Int, NEW n \in Int,
           NEW c, c = Move(b, dst, src, n)
    PROVE  /\ Backed(c) /\ Writes(b, c)
           /\ c.begin = b.begin /\ c.end = b.end
<1>1. CASE b.buffer = Null
  BY <1>1 DEF Move, Writes
<1>2. CASE b.buffer # Null
  <2> DEFINE m == Copied(b.heap[b.buffer], dst, b.heap[b.buffer], src, n)
  <2>1. /\ b \in Bufs /\ b.maxbuffer \in Nat /\ b.buffer \in Blocks
        /\ b.heap \in [Blocks -> Mems] /\ b.heap[b.buffer] \in Mems
        /\ b.heap[b.buffer] \in MemOf(b.maxbuffer)
    BY <1>2 DEF Backed, Bufs
  <2>2. m \in MemOf(b.maxbuffer)
    BY <2>1, CopiedMem
  <2> HIDE DEF m
  <2>3. m \in Mems
    BY <2>1, <2>2 DEF Mems
  <2>4. c = [b EXCEPT !.heap = [b.heap EXCEPT ![b.buffer] = m]]
    BY <1>2, <2>1 DEF Move, Bufs, m
  <2>5. QED
    BY <1>2, <2>1, <2>2, <2>3, <2>4 DEF Backed, Bufs, Writes
<1>3. QED
  BY <1>1, <1>2

\* A new block takes the place of the old one.
LEMMA RenewedRenews ==
    ASSUME NEW b, Backed(b), UnusedBlocks(b.heap) # {}, NEW size \in Nat \ {0},
           NEW m \in MemOf(size), NEW c, c = Renewed(b, size, m)
    PROVE  /\ Backed(c) /\ Renews(b, c)
           /\ c.maxbuffer = size /\ c.begin = b.begin /\ c.end = b.end
<1> DEFINE new == NewBlock(b.heap)
           h   == [Freed(b) EXCEPT ![new] = m]
<1>1. new \in UnusedBlocks(b.heap) /\ new \in Blocks /\ new # Null
  BY DBufferAssumption DEF NewBlock, UnusedBlocks, DBufferAssumption, Null
<1>2. Freed(b) \in [Blocks -> Mems]
  BY NoMem DEF Freed, Bufs, Backed
<1>3. h \in [Blocks -> Mems] /\ h[new] = m /\ \A k \in Blocks : k # new => h[k] = Freed(b)[k]
  BY <1>1, <1>2, SomeMem
<1>4. c = [b EXCEPT !.buffer = new, !.borrowed = FALSE, !.maxbuffer = size, !.heap = h]
  BY DEF Renewed
<1> HIDE DEF new, h
<1>5. b \in Bufs
  BY DEF Backed
<1>6. /\ c \in Bufs /\ c.buffer = new /\ ~c.borrowed /\ c.maxbuffer = size /\ c.heap = h
      /\ c.begin = b.begin /\ c.end = b.end
  BY <1>1, <1>3, <1>4, <1>5 DEF Bufs
<1>7. QED
  BY <1>1, <1>3, <1>6 DEF Renews, Backed

\* Data may lie anywhere within the block.
LEMMA SpanningSound ==
    ASSUME NEW b, Backed(b), NEW i \in Nat, NEW j \in Nat, i <= j, j <= b.maxbuffer,
           NEW c, c = Spanning(b, i, j)
    PROVE  Sound(c) /\ Writes(b, c) /\ c.heap = b.heap /\ c.begin = i /\ c.end = j
<1>1. b \in Bufs
  BY DEF Backed
<1>2. /\ c \in Bufs
      /\ c.buffer = b.buffer /\ c.maxbuffer = b.maxbuffer /\ c.borrowed = b.borrowed
      /\ c.heap = b.heap /\ c.begin = i /\ c.end = j
  BY <1>1 DEF Bufs, Spanning
<1>3. Backed(c)
  BY <1>2 DEF Backed
<1>4. Writes(b, c)
  BY <1>2 DEF Writes
<1>5. i <= j /\ j <= c.maxbuffer
  BY <1>2
<1>6. QED
  BY <1>2, <1>3, <1>4, <1>5 DEF Sound

\* Two calls that work in the block.
LEMMA WritesTwice ==
    ASSUME NEW b, NEW c, NEW d, Writes(b, c), Writes(c, d)
    PROVE  Writes(b, d)
  BY DEF Writes

\* A new block, and then work in it.
LEMMA RenewsThenWrites ==
    ASSUME NEW b, NEW c, NEW d, Renews(b, c), Writes(c, d)
    PROVE  Renews(b, d)
  BY DEF Writes, Renews

\* Bytes are moved, and the data lies elsewhere in the block.
LEMMA MoveSound ==
    ASSUME NEW b, Backed(b), NEW dst \in Int, NEW src \in Int, NEW n \in Int,
           NEW i \in Nat, NEW j \in Nat, i <= j, j <= b.maxbuffer,
           NEW c, c = Spanning(Move(b, dst, src, n), i, j)
    PROVE  Sound(c) /\ Writes(b, c) /\ c.begin = i /\ c.end = j
<1> DEFINE m == Move(b, dst, src, n)
<1>1. Backed(m) /\ Writes(b, m)
  BY MoveWrites
<1>2. c = Spanning(m, i, j)
  OBVIOUS
<1> HIDE DEF m
<1>3. j <= m.maxbuffer
  BY <1>1 DEF Writes
<1>4. Sound(c) /\ Writes(m, c) /\ c.begin = i /\ c.end = j
  BY <1>1, <1>2, <1>3, SpanningSound
<1>5. QED
  BY <1>1, <1>4, WritesTwice

\* A new block, with the data somewhere in it.
LEMMA RenewSound ==
    ASSUME NEW b, Backed(b), UnusedBlocks(b.heap) # {}, NEW size \in Nat \ {0},
           NEW m \in MemOf(size), NEW i \in Nat, NEW j \in Nat, i <= j, j <= size,
           NEW c, c = Spanning(Renewed(b, size, m), i, j)
    PROVE  Sound(c) /\ Renews(b, c) /\ c.begin = i /\ c.end = j /\ c.maxbuffer = size
<1> DEFINE r == Renewed(b, size, m)
<1>1. Backed(r) /\ Renews(b, r) /\ r.maxbuffer = size
  BY RenewedRenews
<1>2. c = Spanning(r, i, j)
  OBVIOUS
<1> HIDE DEF r
<1>3. j <= r.maxbuffer
  BY <1>1
<1>4. Sound(c) /\ Writes(r, c) /\ c.begin = i /\ c.end = j
  BY <1>1, <1>2, <1>3, SpanningSound
<1>5. c.maxbuffer = size
  BY <1>1, <1>4 DEF Writes
<1>6. QED
  BY <1>1, <1>4, <1>5, RenewsThenWrites

\* Only begin or only end is set.
LEMMA OneEnd ==
    ASSUME NEW b \in Bufs, NEW i, NEW j
    PROVE  /\ [b EXCEPT !.begin = i] = Spanning(b, i, b.end)
           /\ [b EXCEPT !.end = j] = Spanning(b, b.begin, j)
  BY DEF Spanning, Bufs

\* Both are set, and then one of them again.
LEMMA SpanningTwice ==
    ASSUME NEW b \in Bufs, NEW i, NEW j, NEW k
    PROVE  /\ [Spanning(b, i, j) EXCEPT !.end = k] = Spanning(b, i, k)
           /\ [Spanning(b, i, j) EXCEPT !.begin = k] = Spanning(b, k, j)
  BY DEF Spanning, Bufs

\* The numbers of a sound buffer.
LEMMA SoundFields ==
    ASSUME NEW b, Sound(b)
    PROVE  /\ b.begin \in Nat /\ b.end \in Nat /\ b.maxbuffer \in Nat
           /\ b.begin <= b.end /\ b.end <= b.maxbuffer
           /\ Cur(b) \in Nat /\ Cur(b) = b.end - b.begin
           /\ b.buffer = Null <=> b.maxbuffer = 0
           /\ Backed(b) /\ b \in Bufs
  BY DEF Sound, Backed, Bufs, Cur

\* Byte k of the data (see Content).
Octet(b, k) == Mem(b)[b.begin + k - 1]

\* The block m has the first n bytes of the data of b, from position at on.
Holds(m, at, b, n) == \A k \in 1..Cur(b) : k <= n => m[at + k - 1] = Octet(b, k)

\* The block, if there is one, has bytes of its own.
LEMMA MemOfBlock ==
    ASSUME NEW b, Backed(b)
    PROVE  Mem(b) \in MemOf(b.maxbuffer)
  BY NoMem DEF Backed, Mem

\* What a copy makes of each byte.
LEMMA CopiedAt ==
    ASSUME NEW size \in Nat, NEW to \in MemOf(size),
           NEW size2 \in Nat, NEW from \in MemOf(size2),
           NEW dst \in Int, NEW src \in Int, NEW n \in Int, NEW i \in 0..(size - 1)
    PROVE  /\ /\ dst <= i /\ i < dst + n
              /\ 0 <= i - dst + src /\ i - dst + src < size2
              => Copied(to, dst, from, src, n)[i] = from[i - dst + src]
           /\ ~(dst <= i /\ i < dst + n) => Copied(to, dst, from, src, n)[i] = to[i]
<1>1. i \in DOMAIN to /\ DOMAIN from = 0..(size2 - 1)
  BY DEF MemOf
<1>2. i \in Zone(to, dst, n) <=> dst <= i /\ i < dst + n
  BY <1>1 DEF Zone
<1>3. Copied(to, dst, from, src, n)[i]
        = IF i \notin Zone(to, dst, n) THEN to[i]
          ELSE IF i - dst + src \in DOMAIN from THEN from[i - dst + src] ELSE Junk
  BY <1>1 DEF Copied
<1>4. QED
  BY <1>1, <1>2, <1>3

\* Saying where in the block the data lies leaves the block as it is.
LEMMA SpanningMem ==
    ASSUME NEW b \in Bufs, NEW i, NEW j
    PROVE  /\ Mem(Spanning(b, i, j)) = Mem(b)
           /\ Spanning(b, i, j).begin = i /\ Spanning(b, i, j).end = j
  BY DEF Spanning, Mem, Bufs

\* A new block, wherever the data lies in it.
LEMMA RenewMem ==
    ASSUME NEW b, Backed(b), UnusedBlocks(b.heap) # {}, NEW size \in Nat \ {0},
           NEW m \in MemOf(size), NEW i, NEW j,
           NEW c, c = Spanning(Renewed(b, size, m), i, j)
    PROVE  Mem(c) = m
<1> DEFINE new == NewBlock(b.heap)
           h   == [Freed(b) EXCEPT ![new] = m]
<1>1. new \in UnusedBlocks(b.heap) /\ new \in Blocks /\ new # Null
  BY DBufferAssumption DEF NewBlock, UnusedBlocks, DBufferAssumption, Null
<1>2. h[new] = m
  BY <1>1 DEF Freed
<1>3. Renewed(b, size, m)
        = [b EXCEPT !.buffer = new, !.borrowed = FALSE, !.maxbuffer = size, !.heap = h]
  BY DEF Renewed
<1> HIDE DEF new, h
<1>4. c.buffer = new /\ c.heap = h
  BY <1>3 DEF Spanning, Backed, Bufs
<1>5. QED
  BY <1>1, <1>2, <1>4 DEF Mem

\* A move inside the block leaves begin and end alone.
LEMMA MovedFields ==
    ASSUME NEW b, Backed(b), NEW dst \in Int, NEW src \in Int, NEW n \in Int
    PROVE  /\ Move(b, dst, src, n) \in Bufs /\ Backed(Move(b, dst, src, n))
           /\ Move(b, dst, src, n).begin = b.begin /\ Move(b, dst, src, n).end = b.end
           /\ Writes(b, Move(b, dst, src, n))
<1>1. /\ Backed(Move(b, dst, src, n)) /\ Writes(b, Move(b, dst, src, n))
      /\ Move(b, dst, src, n).begin = b.begin /\ Move(b, dst, src, n).end = b.end
  BY MoveWrites
<1>2. QED
  BY <1>1 DEF Backed

\* A move inside the block, byte by byte.
LEMMA MovedMem ==
    ASSUME NEW b, Backed(b), NEW dst \in Int, NEW src \in Int, NEW n \in Int,
           NEW k \in 0..(b.maxbuffer - 1)
    PROVE  LET d == Move(b, dst, src, n) IN
           /\ /\ dst <= k /\ k < dst + n
              /\ 0 <= k - dst + src /\ k - dst + src < b.maxbuffer
              => Mem(d)[k] = Mem(b)[k - dst + src]
           /\ ~(dst <= k /\ k < dst + n) => Mem(d)[k] = Mem(b)[k]
<1> DEFINE d == Move(b, dst, src, n)
           m == Copied(b.heap[b.buffer], dst, b.heap[b.buffer], src, n)
<1>1. b \in Bufs /\ b.maxbuffer \in Nat /\ b.buffer # Null /\ b.buffer \in Blocks
  BY DEF Backed, Bufs
<1>2. Mem(b) = b.heap[b.buffer] /\ b.heap[b.buffer] \in MemOf(b.maxbuffer)
  BY <1>1 DEF Mem, Backed
<1>3. d = [b EXCEPT !.heap = [b.heap EXCEPT ![b.buffer] = m]]
  BY <1>1 DEF Move, Bufs
<1> HIDE DEF m, d
<1>4. Mem(d) = m
  BY <1>1, <1>3 DEF Mem, Bufs
<1>5. QED
  BY <1>1, <1>2, <1>4, CopiedAt DEF m, d

\* The same, wherever the data lies behind it.
LEMMA MoveMem ==
    ASSUME NEW b, Backed(b), NEW dst \in Int, NEW src \in Int, NEW n \in Int, NEW i, NEW j,
           NEW c, c = Spanning(Move(b, dst, src, n), i, j), NEW k \in 0..(b.maxbuffer - 1)
    PROVE  /\ /\ dst <= k /\ k < dst + n
              /\ 0 <= k - dst + src /\ k - dst + src < b.maxbuffer
              => Mem(c)[k] = Mem(b)[k - dst + src]
           /\ ~(dst <= k /\ k < dst + n) => Mem(c)[k] = Mem(b)[k]
<1> DEFINE d == Move(b, dst, src, n)
<1>1. d \in Bufs
  BY MovedFields
<1> HIDE DEF d
<1>2. Mem(c) = Mem(d)
  BY <1>1, SpanningMem DEF d
<1>3. QED
  BY <1>2, MovedMem DEF d

\* A member function that needs room, with room for it in the block or not.
Grows(b, c, room) == Sound(c) /\ IF room THEN Writes(b, c) ELSE Renews(b, c)

-----------------------------------------------------------------------------
(* Growing. *)

\* max of two numbers.
LEMMA MaxOfTwo ==
    ASSUME NEW a \in Int, NEW b \in Int
    PROVE  Max({a, b}) \in {a, b} /\ Max({a, b}) >= a /\ Max({a, b}) >= b
<1>1. \E m \in {a, b} : \A y \in {a, b} : m >= y
  BY SMT
<1>2. QED
  BY <1>1 DEF Max

\* min of two numbers.
LEMMA MinOfTwo ==
    ASSUME NEW a \in Int, NEW b \in Int
    PROVE  Min({a, b}) \in {a, b} /\ Min({a, b}) <= a /\ Min({a, b}) <= b
<1>1. \E m \in {a, b} : \A y \in {a, b} : m <= y
  BY SMT
<1>2. QED
  BY <1>1 DEF Min

\* reallocate asks for enough.
LEMMA ReallocateSize ==
    ASSUME NEW need \in Nat, NEW size, size = Max({MINALLOC, 2 * need})
    PROVE  size \in Nat \ {0} /\ size >= need
<1>1. 2 * need \in Int /\ MINALLOC \in Int /\ MINALLOC > 0
  BY DBufferAssumption DEF DBufferAssumption
<1>2. size \in {MINALLOC, 2 * need} /\ size >= MINALLOC /\ size >= 2 * need
  BY <1>1, MaxOfTwo
<1>3. QED
  BY <1>1, <1>2

\* There is not enough room.
LEMMA ReallocateRenews ==
    ASSUME NEW b, Sound(b), UnusedBlocks(b.heap) # {},
           NEW newsize \in Nat, NEW before \in Nat, NEW after \in Nat,
           b.buffer = Null \/ b.maxbuffer < newsize + before + after
    PROVE  \E size \in Nat \ {0} : \E m \in MemOf(size) :
              /\ size >= newsize + before + after
              /\ Reallocate(b, newsize, before, after)
                    = Spanning(Renewed(b, size, m), before, before + newsize)
              /\ Holds(m, before, b, newsize)
<1> DEFINE need == newsize + before + after
           size == Max({MINALLOC, 2 * need})
           m    == Copied(Fresh(size), before, Mem(b), b.begin, Cur(b))
<1>1. b \in Bufs /\ b.begin \in Int /\ Cur(b) \in Int /\ before \in Int
  BY SoundFields
<1>2. size \in Nat \ {0} /\ size >= need
  <2>1. need \in Nat
    OBVIOUS
  <2> HIDE DEF need
  <2>2. QED
    BY <2>1, ReallocateSize
<1>3. m \in MemOf(size)
  <2>1. size \in Nat
    BY <1>2
  <2> HIDE DEF size
  <2>2. QED
    BY <1>1, <2>1, NewMem
<1>4. Reallocate(b, newsize, before, after)
        = Spanning(Renewed(b, size, m), before, before + newsize)
  BY DEF Reallocate, Spanning
<1>5. ASSUME NEW k \in 1..Cur(b), k <= newsize
      PROVE  m[before + k - 1] = Octet(b, k)
  <2> DEFINE i == before + k - 1
  <2>1. /\ Mem(b) \in MemOf(b.maxbuffer) /\ b.maxbuffer \in Nat /\ b.begin \in Nat
        /\ b.end <= b.maxbuffer /\ Cur(b) = b.end - b.begin /\ b.end \in Nat
    BY SoundFields, MemOfBlock
  <2>2. size \in Nat /\ Fresh(size) \in MemOf(size)
    BY <1>2, FreshMem
  <2>3. /\ i \in 0..(size - 1) /\ before <= i /\ i < before + Cur(b)
        /\ 0 <= i - before + b.begin /\ i - before + b.begin < b.maxbuffer
        /\ i - before + b.begin = b.begin + k - 1
    <3> HIDE DEF size
    <3>1. QED
      BY <1>2, <1>5, <2>1, <2>2
  <2> HIDE DEF i, size
  <2>4. m[i] = Mem(b)[i - before + b.begin]
    BY <1>1, <2>1, <2>2, <2>3, CopiedAt
  <2>5. QED
    BY <2>3, <2>4 DEF Octet, i
<1> HIDE DEF m, size
<1>6. Holds(m, before, b, newsize)
  BY <1>5 DEF Holds
<1>7. QED
  BY <1>2, <1>3, <1>4, <1>6

\* A member function that only moves begin and end.
Keeps(b, c) == Sound(c) /\ Writes(b, c) /\ c.heap = b.heap

\* A call may do nothing.
LEMMA KeepsItself ==
    ASSUME NEW b, Sound(b)
    PROVE  Keeps(b, b)
  BY DEF Keeps, Writes

\* Or only say where in the block the data lies.
LEMMA SpanningKeeps ==
    ASSUME NEW b, Sound(b), NEW i \in Nat, NEW j \in Nat, i <= j, j <= b.maxbuffer
    PROVE  Keeps(b, Spanning(b, i, j))
<1> DEFINE c == Spanning(b, i, j)
<1>1. Backed(b)
  BY DEF Sound
<1>2. Sound(c) /\ Writes(b, c) /\ c.heap = b.heap
  BY <1>1, SpanningSound
<1>3. QED
  BY <1>2 DEF Keeps

\* What a new block and a move inside the block are to begin and end.
LEMMA RenewedFields ==
    ASSUME NEW b, Backed(b), UnusedBlocks(b.heap) # {}, NEW size \in Nat \ {0},
           NEW m \in MemOf(size)
    PROVE  /\ Renewed(b, size, m) \in Bufs
           /\ Renewed(b, size, m).begin = b.begin /\ Renewed(b, size, m).end = b.end
<1>1. /\ Backed(Renewed(b, size, m))
      /\ Renewed(b, size, m).begin = b.begin /\ Renewed(b, size, m).end = b.end
  BY RenewedRenews
<1>2. QED
  BY <1>1 DEF Backed

\* reallocate.
LEMMA ReallocateGrows ==
    ASSUME NEW b, Sound(b), UnusedBlocks(b.heap) # {},
           NEW newsize \in Nat, NEW before \in Nat, NEW after \in Nat
    PROVE  LET inPlace == b.buffer # Null /\ b.maxbuffer >= newsize + before + after
               c == Reallocate(b, newsize, before, after)
           IN  /\ Grows(b, c, inPlace) /\ Cur(c) = newsize
               /\ \/ inPlace /\ before # b.begin
                  \/ \A k \in 1..Cur(b) : k <= newsize => Octet(c, k) = Octet(b, k)
<1> DEFINE need == newsize + before + after
           c == Reallocate(b, newsize, before, after)
<1>1. /\ b.maxbuffer \in Nat /\ Backed(b) /\ before + newsize \in Nat
      /\ before <= before + newsize /\ before + newsize <= need
  BY SoundFields
<1>2. CASE b.buffer = Null \/ b.maxbuffer < need
  <2>1. PICK size \in Nat \ {0} : \E m \in MemOf(size) :
          /\ size >= need /\ c = Spanning(Renewed(b, size, m), before, before + newsize)
          /\ Holds(m, before, b, newsize)
    BY <1>2, ReallocateRenews
  <2>2. PICK m \in MemOf(size) :
          /\ size >= need /\ c = Spanning(Renewed(b, size, m), before, before + newsize)
          /\ Holds(m, before, b, newsize)
    BY <2>1
  <2>3. before + newsize <= size
    BY <1>1, <2>2
  <2>4. /\ Sound(c) /\ Renews(b, c) /\ Mem(c) = m
        /\ c.begin = before /\ c.end = before + newsize
    <3> HIDE DEF c
    <3>1. QED
      BY <1>1, <2>2, <2>3, RenewSound, RenewMem
  <2>5. Cur(c) = newsize
    BY <2>4 DEF Cur
  <2>6. \A k \in 1..Cur(b) : k <= newsize => Octet(c, k) = Octet(b, k)
    BY <2>2, <2>4 DEF Octet, Holds
  <2> HIDE DEF c
  <2>7. QED
    BY <1>1, <1>2, <2>4, <2>5, <2>6 DEF Grows, c
<1>3. CASE ~(b.buffer = Null \/ b.maxbuffer < need)
  <2>1. c = Spanning(b, before, before + newsize)
    BY <1>3 DEF Reallocate, Spanning
  <2>2. before + newsize <= b.maxbuffer
    BY <1>1, <1>3
  <2> HIDE DEF c
  <2>3. Keeps(b, c)
    BY <1>1, <2>1, <2>2, SpanningKeeps
  <2>4. Mem(c) = Mem(b) /\ c.begin = before /\ c.end = before + newsize
    BY <1>1, <2>1, SpanningMem DEF Backed
  <2>5. Cur(c) = newsize
    BY <2>4 DEF Cur
  <2>6. before = b.begin => \A k \in 1..Cur(b) : Octet(c, k) = Octet(b, k)
    BY <2>4 DEF Octet
  <2>7. QED
    BY <1>1, <1>3, <2>3, <2>5, <2>6 DEF Grows, Keeps, c
<1>4. QED
  BY <1>2, <1>3

\* fromEnd, behind which append is.
LEMMA FromEndGrows ==
    ASSUME NEW b, Sound(b), UnusedBlocks(b.heap) # {}, NEW size \in Nat
    PROVE  /\ Grows(b, FromEnd(b, size), b.maxbuffer - Cur(b) >= size)
           /\ Cur(FromEnd(b, size)) = Cur(b) + size
           /\ \A k \in 1..Cur(b) : Octet(FromEnd(b, size), k) = Octet(b, k)
<1> DEFINE cur == Cur(b)
           c   == FromEnd(b, size)
<1>1. /\ b.begin \in Nat /\ b.end \in Nat /\ b.maxbuffer \in Nat
      /\ b.begin <= b.end /\ b.end <= b.maxbuffer
      /\ cur \in Nat /\ cur = b.end - b.begin
  BY SoundFields
<1>2. Backed(b) /\ b \in Bufs
  BY SoundFields
<1>3. CASE b.maxbuffer - cur < size
  <2> DEFINE zero == 0
  <2>1. zero \in Nat
    OBVIOUS
  <2>2. zero = 0
    OBVIOUS
  <2>3. cur \in Nat /\ cur = Cur(b) /\ (b.buffer = Null \/ b.maxbuffer < cur + zero + size)
    BY <1>1, <1>3, <2>2
  <2>4. c = [Reallocate(b, cur, zero, size) EXCEPT !.end = @ + size]
    BY <1>3 DEF FromEnd
  <2> HIDE DEF zero
  <2>5. PICK s \in Nat \ {0} : \E m \in MemOf(s) :
          /\ s >= cur + zero + size
          /\ Reallocate(b, cur, zero, size) = Spanning(Renewed(b, s, m), zero, zero + cur)
          /\ Holds(m, zero, b, cur)
    <3> HIDE DEF cur
    <3>1. QED
      BY <2>1, <2>3, ReallocateRenews
  <2>6. PICK m \in MemOf(s) :
          /\ s >= cur + zero + size
          /\ Reallocate(b, cur, zero, size) = Spanning(Renewed(b, s, m), zero, zero + cur)
          /\ Holds(m, zero, b, cur)
    BY <2>5
  <2> DEFINE r == Renewed(b, s, m)
  <2>7. r \in Bufs
    BY <1>2, RenewedFields
  <2>8. c = Spanning(Renewed(b, s, m), zero, zero + cur + size)
    <3> HIDE DEF r
    <3>1. [Spanning(r, zero, zero + cur) EXCEPT !.end = @ + size]
            = Spanning(r, zero, zero + cur + size)
      BY <2>7 DEF Spanning, Bufs
    <3>2. QED
      BY <2>4, <2>6, <3>1 DEF r
  <2>9. /\ zero + cur + size \in Nat /\ zero <= zero + cur + size
        /\ zero + cur + size <= s /\ zero + cur + size = cur + size
    BY <1>1, <2>1, <2>2, <2>6
  <2> HIDE DEF c
  <2>10. Sound(c) /\ Renews(b, c) /\ c.begin = zero /\ c.end = zero + cur + size
    BY <1>2, <2>1, <2>8, <2>9, RenewSound
  <2>11. Mem(c) = m
    BY <1>2, <2>1, <2>8, <2>9, RenewMem
  <2>12. \A k \in 1..Cur(b) : Octet(c, k) = Octet(b, k)
    BY <2>3, <2>6, <2>10, <2>11 DEF Octet, Holds
  <2>13. QED
    BY <1>1, <1>3, <2>2, <2>9, <2>10, <2>12 DEF Grows, Cur, c
<1>4. CASE b.maxbuffer - cur >= size /\ b.maxbuffer - b.end < size
  <2> DEFINE m == Move(b, 0, b.begin, cur)
  <2>1. 0 \in Int /\ 0 \in Nat /\ b.begin \in Int /\ cur \in Int
    BY <1>1
  <2>2. m \in Bufs
    BY <1>2, <2>1, MovedFields
  <2>3. c = [[m EXCEPT !.begin = 0, !.end = cur] EXCEPT !.end = @ + size]
    <3>1. ~(b.maxbuffer - Cur(b) < size) /\ b.maxbuffer - b.end < size
      BY <1>1, <1>4
    <3>2. QED
      BY <3>1 DEF FromEnd
  <2>4. c = Spanning(m, 0, cur + size)
    <3> HIDE DEF m, c
    <3>1. QED
      BY <2>2, <2>3 DEF Spanning, Bufs
  <2>5. cur + size \in Nat /\ 0 <= cur + size /\ cur + size <= b.maxbuffer
    BY <1>1, <1>4
  <2> HIDE DEF c
  <2>6. Sound(c) /\ Writes(b, c) /\ c.begin = 0 /\ c.end = cur + size
    BY <1>2, <2>1, <2>4, <2>5, MoveSound
  <2>7. ASSUME NEW k \in 1..Cur(b)
        PROVE  Octet(c, k) = Octet(b, k)
    <3>1. /\ k - 1 \in 0..(b.maxbuffer - 1) /\ 0 <= k - 1 /\ k - 1 < 0 + cur
          /\ 0 <= k - 1 - 0 + b.begin /\ k - 1 - 0 + b.begin < b.maxbuffer
          /\ k - 1 - 0 + b.begin = b.begin + k - 1
      BY <1>1
    <3>2. Mem(c)[k - 1] = Mem(b)[k - 1 - 0 + b.begin]
      BY <1>2, <2>1, <2>4, <3>1, MoveMem
    <3>3. QED
      BY <2>6, <3>1, <3>2 DEF Octet
  <2>8. QED
    BY <1>1, <1>4, <2>6, <2>7 DEF Grows, Cur, c
<1>5. CASE b.maxbuffer - cur >= size /\ b.maxbuffer - b.end >= size
  <2>1. c = [b EXCEPT !.end = b.end + size]
    BY <1>1, <1>5 DEF FromEnd
  <2>2. c = Spanning(b, b.begin, b.end + size)
    BY <1>2, <2>1, OneEnd
  <2>3. /\ b.begin \in Nat /\ b.end + size \in Nat
        /\ b.begin <= b.end + size /\ b.end + size <= b.maxbuffer
    BY <1>1, <1>5
  <2> HIDE DEF c
  <2>4. /\ Sound(c) /\ Writes(b, c) /\ c.begin = b.begin /\ c.end = b.end + size
        /\ Mem(c) = Mem(b)
    BY <1>2, <2>2, <2>3, SpanningSound, SpanningMem
  <2>5. \A k \in 1..Cur(b) : Octet(c, k) = Octet(b, k)
    BY <2>4 DEF Octet
  <2>6. QED
    BY <1>1, <1>5, <2>4, <2>5 DEF Grows, Cur, c
<1>6. QED
  BY <1>1, <1>3, <1>4, <1>5

\* fromBegin; with room in the block the data must be at its start or leave
\* that much room before it.
LEMMA FromBeginGrows ==
    ASSUME NEW b, Sound(b), UnusedBlocks(b.heap) # {}, NEW size \in Nat,
           b.maxbuffer - Cur(b) >= size => b.begin = 0 \/ b.begin >= size
    PROVE  /\ Grows(b, FromBegin(b, size), b.maxbuffer - Cur(b) >= size)
           /\ Cur(FromBegin(b, size)) = Cur(b) + size
           /\ \A k \in 1..Cur(b) : Octet(FromBegin(b, size), size + k) = Octet(b, k)
<1> DEFINE cur == Cur(b)
           c   == FromBegin(b, size)
           after == b.maxbuffer - b.end
<1>1. Backed(b) /\ b \in Bufs
  BY SoundFields
<1>2. /\ b.begin \in Nat /\ b.end \in Nat /\ b.maxbuffer \in Nat
      /\ b.begin <= b.end /\ b.end <= b.maxbuffer
      /\ cur \in Nat /\ cur = b.end - b.begin
  BY SoundFields
<1>3. CASE b.maxbuffer - cur < size
  <2>1. /\ cur \in Nat /\ cur = Cur(b) /\ after \in Nat
        /\ b.buffer = Null \/ b.maxbuffer < cur + size + after
    BY <1>2, <1>3
  <2>2. c = [Reallocate(b, cur, size, after) EXCEPT !.begin = @ - size]
    BY <1>3 DEF FromBegin
  <2>3. PICK s \in Nat \ {0} : \E m \in MemOf(s) :
          /\ s >= cur + size + after
          /\ Reallocate(b, cur, size, after) = Spanning(Renewed(b, s, m), size, size + cur)
          /\ Holds(m, size, b, cur)
    <3> HIDE DEF cur, after
    <3>1. QED
      BY <2>1, ReallocateRenews
  <2>4. PICK m \in MemOf(s) :
          /\ s >= cur + size + after
          /\ Reallocate(b, cur, size, after) = Spanning(Renewed(b, s, m), size, size + cur)
          /\ Holds(m, size, b, cur)
    BY <2>3
  <2> DEFINE r == Renewed(b, s, m)
  <2>5. r \in Bufs
    BY <1>1, RenewedFields
  <2>6. c = Spanning(Renewed(b, s, m), size - size, size + cur)
    <3> HIDE DEF r
    <3>1. [Spanning(r, size, size + cur) EXCEPT !.begin = @ - size]
            = Spanning(r, size - size, size + cur)
      BY <2>5 DEF Spanning, Bufs
    <3>2. QED
      BY <2>2, <2>4, <3>1 DEF r
  <2> DEFINE i == size - size
             j == size + cur
  <2>7. /\ i \in Nat /\ j \in Nat /\ i <= j /\ j <= s /\ i = 0
    BY <2>1, <2>4
  <2>8. c = Spanning(Renewed(b, s, m), i, j)
    BY <2>6
  <2>9. j - i = cur + size
    BY <2>1
  <2> HIDE DEF c, i, j
  <2>10. Sound(c) /\ Renews(b, c) /\ c.begin = i /\ c.end = j
    BY <1>1, <2>7, <2>8, RenewSound
  <2>11. Mem(c) = m
    BY <1>1, <2>7, <2>8, RenewMem
  <2>12. ASSUME NEW k \in 1..Cur(b)
         PROVE  Octet(c, size + k) = Octet(b, k)
    <3>1. k <= cur /\ i + (size + k) - 1 = size + k - 1
      BY <2>1, <2>7
    <3>2. QED
      BY <2>4, <2>10, <2>11, <3>1 DEF Octet, Holds
  <2>13. QED
    BY <1>2, <1>3, <2>9, <2>10, <2>12 DEF Grows, Cur, c
<1>4. CASE b.maxbuffer - cur >= size /\ b.begin < size
  <2> DEFINE m == Move(b, size, b.begin, cur)
             j == b.end + size
  <2>1. size \in Int /\ b.begin \in Int /\ cur \in Int
    BY <1>2
  <2>2. m \in Bufs /\ m.begin = b.begin /\ m.end = b.end
    BY <1>1, <2>1, MovedFields
  <2>3. c = [[m EXCEPT !.begin = size, !.end = @ + size] EXCEPT !.begin = @ - size]
    <3>1. ~(b.maxbuffer - Cur(b) < size) /\ b.begin < size
      BY <1>2, <1>4
    <3>2. QED
      BY <3>1 DEF FromBegin
  <2>4. c = Spanning(m, 0, j)
    <3> HIDE DEF m, c
    <3>1. size - size = 0
      OBVIOUS
    <3>2. c = Spanning(m, size - size, m.end + size)
      BY <2>2, <2>3 DEF Spanning, Bufs
    <3>3. QED
      BY <2>2, <3>1, <3>2
  <2>5. j \in Nat /\ 0 \in Nat /\ 0 <= j /\ j <= b.maxbuffer /\ j - 0 = cur + size
    BY <1>2, <1>4
  <2> HIDE DEF c, j
  <2>6. Sound(c) /\ Writes(b, c) /\ c.begin = 0 /\ c.end = j
    BY <1>1, <2>1, <2>4, <2>5, MoveSound
  <2>7. ASSUME NEW k \in 1..Cur(b)
        PROVE  Octet(c, size + k) = Octet(b, k)
    <3> DEFINE o == size + k - 1
    <3>1. /\ o \in 0..(b.maxbuffer - 1) /\ size <= o /\ o < size + cur
          /\ 0 <= o - size + b.begin /\ o - size + b.begin < b.maxbuffer
          /\ o - size + b.begin = b.begin + k - 1 /\ o = 0 + (size + k) - 1
      BY <1>2, <1>4
    <3> HIDE DEF o
    <3>2. Mem(c)[o] = Mem(b)[o - size + b.begin]
      BY <1>1, <2>1, <2>4, <3>1, MoveMem
    <3>3. QED
      BY <2>6, <3>1, <3>2 DEF Octet
  <2>8. QED
    BY <1>2, <1>4, <2>5, <2>6, <2>7 DEF Grows, Cur, c
<1>5. CASE b.maxbuffer - cur >= size /\ b.begin >= size
  <2> DEFINE i == b.begin - size
             j == b.end
  <2>1. c = [b EXCEPT !.begin = b.begin - size]
    BY <1>2, <1>5 DEF FromBegin
  <2>2. c = Spanning(b, i, j)
    BY <1>1, <2>1, OneEnd
  <2>3. i \in Nat /\ j \in Nat /\ i <= j /\ j <= b.maxbuffer /\ j - i = cur + size
    BY <1>2, <1>5
  <2> HIDE DEF c, i, j
  <2>4. Sound(c) /\ Writes(b, c) /\ c.begin = i /\ c.end = j /\ Mem(c) = Mem(b)
    BY <1>1, <2>2, <2>3, SpanningSound, SpanningMem
  <2>5. \A k \in 1..Cur(b) : i + (size + k) - 1 = b.begin + k - 1
    BY <1>2 DEF i
  <2>6. \A k \in 1..Cur(b) : Octet(c, size + k) = Octet(b, k)
    BY <2>4, <2>5 DEF Octet
  <2>7. QED
    BY <1>2, <1>5, <2>3, <2>4, <2>6 DEF Grows, Cur, c
<1>6. QED
  BY <1>2, <1>3, <1>4, <1>5

\* Where byte k is when size bytes are put behind byte start.
Past(k, start, size) == IF k <= start THEN k ELSE k + size

\* fromMiddle; with room in the block all of it must be behind the data, or
\* none and the tail no longer than what is inserted.
LEMMA FromMiddleGrows ==
    ASSUME NEW b, Sound(b), UnusedBlocks(b.heap) # {}, NEW start \in Nat, NEW size \in Nat,
           \/ b.maxbuffer - Cur(b) < size \/ start >= Cur(b)
           \/ b.maxbuffer - b.end >= size
           \/ b.maxbuffer = b.end /\ start + size >= Cur(b)
    PROVE  /\ Grows(b, FromMiddle(b, start, size), b.maxbuffer - Cur(b) >= size)
           /\ Cur(FromMiddle(b, start, size)) = Cur(b) + size
           /\ \A k \in 1..Cur(b) :
                 Octet(FromMiddle(b, start, size), Past(k, start, size)) = Octet(b, k)
<1> DEFINE cur   == Cur(b)
           c     == FromMiddle(b, start, size)
           tail  == cur - start
           after == b.maxbuffer - b.end
<1>1. Backed(b) /\ b \in Bufs
  BY SoundFields
<1>2. /\ b.begin \in Nat /\ b.end \in Nat /\ b.maxbuffer \in Nat
      /\ b.begin <= b.end /\ b.end <= b.maxbuffer
      /\ cur \in Nat /\ cur = b.end - b.begin
  BY SoundFields
<1>3. CASE size < 1
  <2>1. c = b /\ size = 0
    BY <1>3 DEF FromMiddle
  <2>2. Keeps(b, b)
    BY KeepsItself
  <2>3. b.maxbuffer - cur >= size /\ cur = cur + size
    BY <1>2, <2>1
  <2>4. \A k \in 1..Cur(b) : Past(k, start, size) = k
    BY <2>1 DEF Past
  <2> HIDE DEF c, cur
  <2>5. QED
    BY <2>1, <2>2, <2>3, <2>4 DEF Grows, Keeps, c, cur
<1>4. CASE size >= 1 /\ start >= cur
  <2>1. c = FromEnd(b, size)
    <3>1. ~(size < 1) /\ start >= Cur(b)
      BY <1>4
    <3>2. QED
      BY <3>1 DEF FromMiddle
  <2>2. \A k \in 1..Cur(b) : Past(k, start, size) = k
    BY <1>2, <1>4 DEF Past
  <2>3. QED
    BY <2>1, <2>2, FromEndGrows
<1>5. CASE size >= 1 /\ start < cur /\ cur + size > b.maxbuffer
  <2> DEFINE big  == 2 * (Cur(b) + size)
             head == Copied(Fresh(big), 0, Mem(b), b.begin, start)
             m    == Copied(head, start + size, Mem(b), b.begin + start, Cur(b) - start)
             j    == cur + size
  <2>1. c = [Renewed(b, big, m) EXCEPT !.begin = 0, !.end = j]
    <3>1. ~(size < 1) /\ ~(start >= Cur(b)) /\ Cur(b) + size > b.maxbuffer
      BY <1>2, <1>5
    <3>2. QED
      BY <3>1 DEF FromMiddle
  <2>2. c = Spanning(Renewed(b, big, m), 0, j)
    BY <2>1 DEF Spanning
  <2>3. big \in Nat \ {0} /\ big \in Nat /\ j \in Nat /\ 0 \in Nat /\ 0 <= j /\ j <= big
        /\ j - 0 = cur + size
    BY <1>2, <1>5
  <2>4. /\ 0 \in Int /\ b.begin \in Int /\ start \in Int /\ start + size \in Int
        /\ b.begin + start \in Int /\ Cur(b) - start \in Int
    BY <1>2
  <2>5. m \in MemOf(big)
    <3> HIDE DEF big
    <3>1. head \in MemOf(big)
      BY <1>1, <2>3, <2>4, NewMem
    <3>2. Mem(b) \in Mems
      BY <1>1, MemIsMem
    <3> HIDE DEF head
    <3>3. QED
      BY <2>3, <2>4, <3>1, <3>2, CopiedMem
  <2>6. ASSUME NEW k \in 1..Cur(b)
        PROVE  m[Past(k, start, size) - 1] = Octet(b, k)
    <3> DEFINE o == Past(k, start, size) - 1
    <3>1. /\ Mem(b) \in MemOf(b.maxbuffer) /\ Fresh(big) \in MemOf(big)
      <4> HIDE DEF big
      <4>1. QED
        BY <1>1, <2>3, MemOfBlock, FreshMem
    <3>2. head \in MemOf(big)
      <4> HIDE DEF big
      <4>1. QED
        BY <1>1, <2>3, <2>4, NewMem
    <3>3. o \in 0..(big - 1) /\ k \in Nat
      BY <1>2, <1>5 DEF Past
    <3>4. CASE k <= start
      <4>1. /\ o = k - 1 /\ 0 <= o /\ o < 0 + start /\ ~(start + size <= o)
            /\ 0 <= o - 0 + b.begin /\ o - 0 + b.begin < b.maxbuffer
            /\ o - 0 + b.begin = b.begin + k - 1
        BY <1>2, <3>4 DEF Past
      <4> HIDE DEF o, big, head
      <4>2. m[o] = head[o]
        BY <1>2, <2>3, <2>4, <3>1, <3>2, <3>3, <4>1, CopiedAt
      <4>3. head[o] = Mem(b)[o - 0 + b.begin]
        BY <1>2, <2>3, <2>4, <3>1, <3>3, <4>1, CopiedAt DEF head
      <4>4. QED
        BY <4>1, <4>2, <4>3 DEF Octet, o
    <3>5. CASE ~(k <= start)
      <4> DEFINE dst == start + size
                 src == b.begin + start
                 n   == Cur(b) - start
      <4>1. /\ dst <= o /\ o < dst + n
            /\ 0 <= o - dst + src /\ o - dst + src < b.maxbuffer
            /\ o - dst + src = b.begin + k - 1
        BY <1>2, <3>3, <3>5 DEF Past
      <4>2. dst \in Int /\ src \in Int /\ n \in Int
        BY <2>4
      <4>3. m = Copied(head, dst, Mem(b), src, n)
        OBVIOUS
      <4> HIDE DEF o, big, head, dst, src, n, m
      <4>4. m[o] = Mem(b)[o - dst + src]
        BY <1>2, <2>3, <3>1, <3>2, <3>3, <4>1, <4>2, <4>3, CopiedAt
      <4>5. QED
        BY <4>1, <4>4 DEF Octet, o
    <3>6. QED
      BY <3>4, <3>5
  <2> HIDE DEF c, big, m, j
  <2>7. Sound(c) /\ Renews(b, c) /\ c.begin = 0 /\ c.end = j
    BY <1>1, <2>2, <2>3, <2>5, RenewSound
  <2>8. Mem(c) = m
    BY <1>1, <2>2, <2>3, <2>5, RenewMem
  <2>9. ASSUME NEW k \in 1..Cur(b)
        PROVE  Octet(c, Past(k, start, size)) = Octet(b, k)
    <3>1. 0 + Past(k, start, size) - 1 = Past(k, start, size) - 1
      BY DEF Past
    <3>2. QED
      BY <2>6, <2>7, <2>8, <3>1 DEF Octet
  <2>10. QED
    BY <1>2, <1>5, <2>3, <2>7, <2>9 DEF Grows, Cur, c
<1>6. CASE size >= 1 /\ start < cur /\ cur + size <= b.maxbuffer /\ after < size
  <2> DEFINE front == size - after
             i     == b.begin - front
             j     == b.end
             m     == Move(b, b.begin - front, b.begin, cur)
  <2>1. after = 0 /\ after < size /\ ~(Cur(b) + size > b.maxbuffer)
    BY <1>2, <1>6
  <2>2. c = [m EXCEPT !.begin = @ - front]
    <3>1. ~(size < 1) /\ ~(start >= Cur(b))
      BY <1>2, <1>6
    <3>2. QED
      BY <2>1, <3>1 DEF FromMiddle
  <2>3. b.begin - front \in Int /\ b.begin \in Int /\ cur \in Int
    BY <1>2
  <2>4. m \in Bufs /\ m.begin = b.begin /\ m.end = b.end
    <3> HIDE DEF front, cur
    <3>1. QED
      BY <1>1, <2>3, MovedFields
  <2>5. c = Spanning(m, i, j)
    <3> HIDE DEF m, c
    <3>1. QED
      BY <2>2, <2>4 DEF Spanning, Bufs
  <2>6. i \in Nat /\ j \in Nat /\ i <= j /\ j <= b.maxbuffer /\ j - i = cur + size
    BY <1>2, <1>6, <2>1
  <2>7. c = Spanning(Move(b, b.begin - front, b.begin, cur), i, j)
    BY <2>5
  <2>8. ASSUME NEW k \in 1..Cur(b)
        PROVE  Mem(c)[i + Past(k, start, size) - 1] = Octet(b, k)
    <3> DEFINE o == i + Past(k, start, size) - 1
    <3>1. front = size /\ start + size >= cur
      BY <1>2, <1>6, <2>1
    <3>2. o \in 0..(b.maxbuffer - 1) /\ k \in Nat
      <4> HIDE DEF front
      <4>1. QED
        BY <1>2, <1>6, <2>1, <3>1 DEF Past
    <3>3. CASE k <= start
      <4>1. /\ i <= o /\ o < i + cur
            /\ 0 <= o - i + b.begin /\ o - i + b.begin < b.maxbuffer
            /\ o - i + b.begin = b.begin + k - 1
        <5> HIDE DEF front
        <5>1. QED
          BY <1>2, <1>6, <2>1, <3>1, <3>2, <3>3 DEF Past
      <4> HIDE DEF o, front, cur, c
      <4>2. Mem(c)[o] = Mem(b)[o - (b.begin - front) + b.begin]
        BY <1>1, <2>3, <2>7, <3>2, <4>1, MoveMem
      <4>3. QED
        BY <4>1, <4>2 DEF Octet, o
    <3>4. CASE ~(k <= start)
      <4>1. ~(o < i + cur) /\ o = b.begin + k - 1
        <5> HIDE DEF front
        <5>1. QED
          BY <1>2, <1>6, <2>1, <3>1, <3>2, <3>4 DEF Past
      <4> HIDE DEF o, front, cur, c
      <4>2. Mem(c)[o] = Mem(b)[o]
        BY <1>1, <2>3, <2>7, <3>2, <4>1, MoveMem
      <4>3. QED
        BY <4>1, <4>2 DEF Octet, o
    <3>5. QED
      BY <3>3, <3>4
  <2> HIDE DEF c, i, j, front, cur
  <2>9. Sound(c) /\ Writes(b, c) /\ c.begin = i /\ c.end = j
    BY <1>1, <2>3, <2>6, <2>7, MoveSound
  <2>10. \A k \in 1..Cur(b) : Octet(c, Past(k, start, size)) = Octet(b, k)
    BY <2>8, <2>9 DEF Octet
  <2>11. QED
    BY <1>2, <1>6, <2>6, <2>9, <2>10 DEF Grows, Cur, c, cur
<1>7. CASE size >= 1 /\ start < cur /\ cur + size <= b.maxbuffer /\ after >= size
  <2> DEFINE i == b.begin
             j == b.end + size
             m == Move(b, b.begin + start + size, b.begin + start, cur - start)
  <2>1. c = [m EXCEPT !.end = @ + size]
    <3>1. /\ ~(size < 1) /\ ~(start >= Cur(b)) /\ ~(Cur(b) + size > b.maxbuffer)
          /\ ~(b.maxbuffer - b.end < size) /\ ~(b.maxbuffer - b.end = 0)
      BY <1>2, <1>7
    <3>2. Min({b.maxbuffer - b.end, size}) = size
      <4>1. b.maxbuffer - b.end \in Int /\ size \in Int /\ b.maxbuffer - b.end >= size
        BY <1>2, <1>7
      <4> HIDE DEF after
      <4>2. Min({b.maxbuffer - b.end, size}) \in {b.maxbuffer - b.end, size}
            /\ Min({b.maxbuffer - b.end, size}) <= size
        BY <4>1, MinOfTwo
      <4>3. QED
        BY <4>1, <4>2
    <3>3. QED
      BY <3>1, <3>2 DEF FromMiddle
  <2>2. b.begin + start + size \in Int /\ b.begin + start \in Int /\ cur - start \in Int
    BY <1>2
  <2>3. m \in Bufs /\ m.begin = b.begin /\ m.end = b.end
    <3> HIDE DEF cur
    <3>1. QED
      BY <1>1, <2>2, MovedFields
  <2>4. c = Spanning(m, i, j)
    <3> HIDE DEF m, c
    <3>1. QED
      BY <2>1, <2>3 DEF Spanning, Bufs
  <2>5. i \in Nat /\ j \in Nat /\ i <= j /\ j <= b.maxbuffer /\ j - i = cur + size
    BY <1>2, <1>7
  <2>6. c = Spanning(Move(b, b.begin + start + size, b.begin + start, cur - start), i, j)
    BY <2>4
  <2>7. ASSUME NEW k \in 1..Cur(b)
        PROVE  Mem(c)[i + Past(k, start, size) - 1] = Octet(b, k)
    <3> DEFINE o   == i + Past(k, start, size) - 1
               dst == b.begin + start + size
               src == b.begin + start
               n   == cur - start
    <3>1. o \in 0..(b.maxbuffer - 1) /\ k \in Nat
      BY <1>2, <1>7 DEF Past
    <3>2. dst \in Int /\ src \in Int /\ n \in Int
      BY <2>2
    <3>3. c = Spanning(Move(b, dst, src, n), i, j)
      BY <2>6
    <3>4. CASE k <= start
      <4>1. ~(dst <= o) /\ o = b.begin + k - 1
        BY <1>2, <1>7, <3>1, <3>4 DEF Past
      <4> HIDE DEF o, dst, src, n, c, i, j
      <4>2. Mem(c)[o] = Mem(b)[o]
        BY <1>1, <3>1, <3>2, <3>3, <4>1, MoveMem
      <4>3. QED
        BY <4>1, <4>2 DEF Octet, o
    <3>5. CASE ~(k <= start)
      <4>1. /\ dst <= o /\ o < dst + n
            /\ 0 <= o - dst + src /\ o - dst + src < b.maxbuffer
            /\ o - dst + src = b.begin + k - 1
        BY <1>2, <1>7, <3>1, <3>5 DEF Past
      <4> HIDE DEF o, dst, src, n, c, i, j
      <4>2. Mem(c)[o] = Mem(b)[o - dst + src]
        BY <1>1, <3>1, <3>2, <3>3, <4>1, MoveMem
      <4>3. QED
        BY <4>1, <4>2 DEF Octet, o
    <3>6. QED
      BY <3>4, <3>5
  <2> HIDE DEF c, i, j, cur
  <2>8. Sound(c) /\ Writes(b, c) /\ c.begin = i /\ c.end = j
    BY <1>1, <2>2, <2>5, <2>6, MoveSound
  <2>9. \A k \in 1..Cur(b) : Octet(c, Past(k, start, size)) = Octet(b, k)
    BY <2>7, <2>8 DEF Octet
  <2>10. QED
    BY <1>2, <1>7, <2>5, <2>8, <2>9 DEF Grows, Cur, c, cur
<1>8. QED
  <2>1. size >= 1 \/ size < 1
    OBVIOUS
  <2>2. start >= cur \/ start < cur
    BY <1>2
  <2>3. cur + size > b.maxbuffer \/ cur + size <= b.maxbuffer
    BY <1>2
  <2>4. after < size \/ after >= size
    BY <1>2
  <2> HIDE DEF cur, after, c
  <2>5. QED
    BY <1>3, <1>4, <1>5, <1>6, <1>7, <2>1, <2>2, <2>3, <2>4 DEF c, cur

\* resize; bytes are lost if they are copied to a new block and were not at the
\* start of the old one.
LEMMA ResizeGrows ==
    ASSUME NEW b, Sound(b), UnusedBlocks(b.heap) # {}, NEW size \in Nat, NEW reserved \in Nat
    PROVE  /\ size <= Cur(b) => Keeps(b, ResizeTo(b, size, reserved))
           /\ size > Cur(b) => Grows(b, ResizeTo(b, size, reserved), b.maxbuffer >= size)
           /\ Cur(ResizeTo(b, size, reserved)) = size
           /\ b.maxbuffer >= size \/ Cur(b) = 0 \/ b.begin = 0 =>
                 \A k \in 1..Cur(b) :
                    k <= size => Octet(ResizeTo(b, size, reserved), k) = Octet(b, k)
<1> DEFINE cur   == Cur(b)
           c     == ResizeTo(b, size, reserved)
           inc   == size - Cur(b)
<1>1. Backed(b) /\ b \in Bufs
  BY SoundFields
<1>2. /\ b.begin \in Nat /\ b.end \in Nat /\ b.maxbuffer \in Nat
      /\ b.begin <= b.end /\ b.end <= b.maxbuffer
      /\ cur \in Nat /\ cur = b.end - b.begin
  BY SoundFields
<1>3. CASE size <= cur
  <2> DEFINE j == b.end + inc
  <2>1. c = [b EXCEPT !.end = j]
    BY <1>2, <1>3 DEF ResizeTo
  <2>2. c = Spanning(b, b.begin, j)
    BY <1>1, <2>1, OneEnd
  <2>3. b.begin \in Nat /\ j \in Nat /\ b.begin <= j /\ j <= b.maxbuffer
    BY <1>2, <1>3
  <2> HIDE DEF c
  <2>4. Keeps(b, c)
    <3> HIDE DEF j
    <3>1. QED
      BY <2>2, <2>3, SpanningKeeps
  <2>5. Mem(c) = Mem(b) /\ c.begin = b.begin /\ c.end = j
    BY <1>1, <2>2, SpanningMem
  <2>6. Cur(c) = size
    BY <1>2, <2>5 DEF Cur
  <2>7. \A k \in 1..Cur(b) : Octet(c, k) = Octet(b, k)
    BY <2>5 DEF Octet
  <2>8. QED
    BY <1>2, <1>3, <2>4, <2>6, <2>7 DEF c
<1>4. CASE size > cur /\ b.maxbuffer >= size
  <2> DEFINE room  == b.maxbuffer - b.end
             offer == Min({room, inc})
             back  == inc - offer
             dst   == b.begin - back
             n     == cur + offer
             m     == Move(b, dst, b.begin, n)
             j     == b.end + offer
  <2>1. c = [m EXCEPT !.begin = @ - back, !.end = @ + offer]
    <3>1. ~(inc <= 0) /\ b.maxbuffer >= size
      BY <1>2, <1>4
    <3>2. QED
      BY <3>1 DEF ResizeTo
  <2>2. offer \in {room, inc} /\ offer <= room /\ offer <= inc
    <3>1. room \in Int /\ inc \in Int
      BY <1>2
    <3> HIDE DEF room, inc
    <3>2. QED
      BY <3>1, MinOfTwo
  <2>3. /\ dst \in Nat /\ j \in Nat /\ dst <= j /\ j <= b.maxbuffer
        /\ dst \in Int /\ n \in Int /\ b.begin \in Int
    <3> HIDE DEF offer
    <3>1. QED
      BY <1>2, <1>4, <2>2
  <2>4. m \in Bufs /\ m.begin = b.begin /\ m.end = b.end
    <3> HIDE DEF dst, n
    <3>1. QED
      BY <1>1, <2>3, MovedFields
  <2>5. c = Spanning(m, dst, j)
    <3> HIDE DEF m, c, offer, back
    <3>1. QED
      BY <2>1, <2>4 DEF Spanning, Bufs
  <2>6. c = Spanning(Move(b, dst, b.begin, n), dst, j)
    BY <2>5
  <2>7. Sound(c) /\ Writes(b, c) /\ c.begin = dst /\ c.end = j
    <3> HIDE DEF c, dst, j, n
    <3>1. QED
      BY <1>1, <2>3, <2>6, MoveSound
  <2>8. Cur(c) = size
    <3>1. j - dst = size
      <4> HIDE DEF offer
      <4>1. QED
        BY <1>2, <2>2
    <3> HIDE DEF c, j, dst
    <3>2. QED
      BY <2>7, <3>1 DEF Cur
  <2>9. ASSUME NEW k \in 1..Cur(b)
        PROVE  Octet(c, k) = Octet(b, k)
    <3> DEFINE o == dst + k - 1
    <3>1. /\ o \in 0..(b.maxbuffer - 1) /\ dst <= o /\ o < dst + n
          /\ 0 <= o - dst + b.begin /\ o - dst + b.begin < b.maxbuffer
          /\ o - dst + b.begin = b.begin + k - 1
      <4>1. offer \in Nat /\ b.maxbuffer \in Nat
        <5> HIDE DEF offer
        <5>1. QED
          BY <1>2, <1>4, <2>2
      <4> HIDE DEF offer
      <4>2. QED
        BY <1>2, <1>4, <2>2, <4>1
    <3> HIDE DEF o, dst, n, j, c
    <3>2. Mem(c)[o] = Mem(b)[o - dst + b.begin]
      BY <1>1, <2>3, <2>6, <3>1, MoveMem
    <3>3. QED
      BY <2>7, <3>1, <3>2 DEF Octet, o
  <2>10. Grows(b, c, b.maxbuffer >= size)
    BY <1>4, <2>7 DEF Grows
  <2> HIDE DEF c
  <2>11. QED
    BY <1>2, <1>4, <2>8, <2>9, <2>10 DEF c
<1>5. CASE size > cur /\ ~(b.maxbuffer >= size)
  <2> DEFINE max == Max({size, reserved})
             m   == Copied(Fresh(max), 0, Mem(b), 0, Cur(b))
  <2>1. c = [[Renewed(b, max, m) EXCEPT !.begin = 0, !.end = Cur(b)] EXCEPT !.end = size]
    <3>1. ~(inc <= 0)
      BY <1>2, <1>5
    <3>2. QED
      BY <1>5, <3>1 DEF ResizeTo, ReallocAndCopy
  <2>2. /\ max \in Nat \ {0} /\ max \in Nat /\ size <= max
        /\ 0 \in Nat /\ 0 \in Int /\ 0 <= size
    <3>1. size \in Int /\ reserved \in Int
      OBVIOUS
    <3>2. max \in {size, reserved} /\ max >= size
      BY <3>1, MaxOfTwo
    <3>3. size > 0
      BY <1>2, <1>5
    <3> HIDE DEF max
    <3>4. QED
      BY <3>2, <3>3
  <2>3. m \in MemOf(max)
    <3>1. Cur(b) \in Int
      BY <1>2
    <3> HIDE DEF max
    <3>2. QED
      BY <1>1, <2>2, <3>1, NewMem
  <2> DEFINE r == Renewed(b, max, m)
  <2>4. r \in Bufs
    <3> HIDE DEF max, m
    <3>1. QED
      BY <1>1, <2>2, <2>3, RenewedFields DEF r
  <2>5. c = Spanning(r, 0, size)
    <3> HIDE DEF r, c
    <3>1. c = [Spanning(r, 0, Cur(b)) EXCEPT !.end = size]
      BY <2>1 DEF Spanning, r
    <3>2. QED
      BY <2>4, <3>1, SpanningTwice
  <2>6. c = Spanning(Renewed(b, max, m), 0, size)
    BY <2>5
  <2>7. Sound(c) /\ Renews(b, c) /\ c.begin = 0 /\ c.end = size
    <3> HIDE DEF c, max, m
    <3>1. QED
      BY <1>1, <2>2, <2>3, <2>6, RenewSound
  <2>8. Mem(c) = m
    <3> HIDE DEF c, max, m
    <3>1. QED
      BY <1>1, <2>2, <2>3, <2>6, RenewMem
  <2>9. Cur(c) = size
    <3> HIDE DEF c
    <3>1. QED
      BY <2>7 DEF Cur
  <2>10. ASSUME b.begin = 0, NEW k \in 1..Cur(b)
         PROVE  Octet(c, k) = Octet(b, k)
    <3> DEFINE o == k - 1
    <3>1. /\ o \in 0..(max - 1) /\ 0 <= o /\ o < 0 + Cur(b)
          /\ 0 <= o - 0 + 0 /\ o - 0 + 0 < b.maxbuffer
          /\ o - 0 + 0 = b.begin + k - 1 /\ 0 + k - 1 = o
      <4> HIDE DEF max
      <4>1. QED
        BY <1>2, <1>5, <2>2, <2>10
    <3>2. /\ Mem(b) \in MemOf(b.maxbuffer) /\ Fresh(max) \in MemOf(max)
          /\ Cur(b) \in Int
      <4> HIDE DEF max
      <4>1. QED
        BY <1>1, <1>2, <2>2, MemOfBlock, FreshMem
    <3> HIDE DEF o, c, max
    <3>3. m[o] = Mem(b)[o - 0 + 0]
      BY <1>2, <2>2, <3>1, <3>2, CopiedAt
    <3> HIDE DEF m
    <3>4. QED
      BY <2>7, <2>8, <3>1, <3>3 DEF Octet
  <2>11. Grows(b, c, b.maxbuffer >= size)
    BY <1>5, <2>7 DEF Grows
  <2> HIDE DEF c
  <2>12. QED
    BY <1>2, <1>5, <2>9, <2>10, <2>11 DEF c
<1>6. QED
  <2>1. size <= cur \/ size > cur
    BY <1>2
  <2>2. QED
    BY <1>3, <1>4, <1>5, <2>1

\* reserve.
LEMMA ReserveGrows ==
    ASSUME NEW b, Sound(b), UnusedBlocks(b.heap) # {}, NEW size \in Nat
    PROVE  /\ b.maxbuffer >= size => Keeps(b, Reserve(b, size))
           /\ ~(b.maxbuffer >= size) => Grows(b, Reserve(b, size), FALSE)
           /\ Cur(Reserve(b, size)) = Cur(b)
           /\ \A k \in 1..Cur(b) : Octet(Reserve(b, size), k) = Octet(b, k)
<1>1. Backed(b) /\ b \in Bufs
  BY SoundFields
<1>2. /\ b.begin \in Nat /\ b.end \in Nat /\ b.maxbuffer \in Nat
      /\ b.begin <= b.end /\ b.end <= b.maxbuffer /\ Cur(b) \in Nat
  BY SoundFields
<1>3. CASE b.maxbuffer >= size
  BY <1>3, KeepsItself DEF Reserve
<1>4. CASE ~(b.maxbuffer >= size)
  <2> DEFINE m == Copied(Fresh(size), b.begin, Mem(b), b.begin, Cur(b))
             c == Reserve(b, size)
  <2>1. c = Renewed(b, size, m)
    BY <1>4 DEF Reserve
  <2>2. size \in Nat \ {0} /\ b.end <= size
    BY <1>2, <1>4
  <2>3. m \in MemOf(size)
    <3>1. b.begin \in Int /\ Cur(b) \in Int
      BY <1>2
    <3>2. QED
      BY <1>1, <3>1, NewMem
  <2> HIDE DEF c, m
  <2>4. /\ Backed(c) /\ Renews(b, c) /\ c.maxbuffer = size
        /\ c.begin = b.begin /\ c.end = b.end
    BY <1>1, <2>1, <2>2, <2>3, RenewedRenews
  <2>5. Sound(c)
    BY <1>2, <2>2, <2>4 DEF Sound
  <2>6. Mem(c) = m
    <3>1. c = Spanning(Renewed(b, size, m), b.begin, b.end)
      BY <2>1, <2>4 DEF Spanning, Backed, Bufs
    <3>2. QED
      BY <1>1, <2>2, <2>3, <3>1, RenewMem
  <2>7. ASSUME NEW k \in 1..Cur(b)
        PROVE  m[b.begin + k - 1] = Octet(b, k)
    <3> DEFINE o == b.begin + k - 1
    <3>1. /\ o \in 0..(size - 1) /\ b.begin <= o /\ o < b.begin + Cur(b)
          /\ 0 <= o - b.begin + b.begin /\ o - b.begin + b.begin < b.maxbuffer
          /\ o - b.begin + b.begin = o
      BY <1>2, <2>2, SoundFields
    <3>2. /\ Mem(b) \in MemOf(b.maxbuffer) /\ Fresh(size) \in MemOf(size)
          /\ b.begin \in Int /\ Cur(b) \in Int
      BY <1>1, <1>2, MemOfBlock, FreshMem
    <3> HIDE DEF o
    <3>3. m[o] = Mem(b)[o - b.begin + b.begin]
      BY <1>2, <3>1, <3>2, CopiedAt DEF m
    <3>4. QED
      BY <3>1, <3>3 DEF Octet, o
  <2>8. Cur(c) = Cur(b) /\ \A k \in 1..Cur(b) : Octet(c, k) = Octet(b, k)
    BY <2>4, <2>6, <2>7 DEF Cur, Octet
  <2>9. QED
    BY <1>4, <2>4, <2>5, <2>8 DEF Grows, c
<1>5. QED
  BY <1>3, <1>4

-----------------------------------------------------------------------------
(* Shrinking and moving. *)

\* What removes bytes never allocates: a buffer with data has a block.
LEMMA AllocatedItself ==
    ASSUME NEW b, Sound(b), Cur(b) # 0
    PROVE  Allocated(b) = b
<1>1. /\ b.begin \in Nat /\ b.end \in Nat /\ b.maxbuffer \in Nat
      /\ b.begin <= b.end /\ b.end <= b.maxbuffer /\ Cur(b) = b.end - b.begin
  BY SoundFields
<1>2. ~(b.maxbuffer = 0)
  BY <1>1
<1>3. QED
  BY <1>2 DEF Allocated

\* removeBegin.
LEMMA RemoveBeginKeeps ==
    ASSUME NEW b, Sound(b), NEW size \in Nat
    PROVE  /\ Keeps(b, RemoveBegin(b, size))
           /\ Cur(RemoveBegin(b, size)) = IF size >= Cur(b) THEN 0 ELSE Cur(b) - size
           /\ \A k \in 1..Cur(b) :
                 k > size => Octet(RemoveBegin(b, size), k - size) = Octet(b, k)
<1>1. b \in Bufs
  BY SoundFields
<1>2. /\ b.begin \in Nat /\ b.end \in Nat /\ b.maxbuffer \in Nat
      /\ b.begin <= b.end /\ b.end <= b.maxbuffer
      /\ Cur(b) \in Nat /\ Cur(b) = b.end - b.begin
  BY SoundFields
<1>3. CASE size >= Cur(b)
  <2>1. RemoveBegin(b, size) = Spanning(b, 0, 0)
    BY <1>3 DEF RemoveBegin, Spanning
  <2>2. 0 \in Nat /\ 0 <= 0 /\ 0 <= b.maxbuffer
    BY <1>2
  <2>3. Cur(RemoveBegin(b, size)) = 0
    BY <1>1, <2>1, SpanningMem DEF Cur
  <2>4. QED
    BY <1>2, <1>3, <2>1, <2>2, <2>3, SpanningKeeps
<1>4. CASE size > 0 /\ size < Cur(b)
  <2> DEFINE i == b.begin + size
             j == b.end
  <2>1. ~(size >= Cur(b)) /\ Cur(b) # 0
    BY <1>2, <1>4
  <2>2. RemoveBegin(b, size) = [b EXCEPT !.begin = i]
    BY <1>4, <2>1, AllocatedItself DEF RemoveBegin
  <2>3. RemoveBegin(b, size) = Spanning(b, i, j)
    BY <1>1, <2>2, OneEnd
  <2>4. i \in Nat /\ j \in Nat /\ i <= j /\ j <= b.maxbuffer /\ j - i = Cur(b) - size
    BY <1>2, <1>4
  <2>5. \A k \in 1..Cur(b) : i + (k - size) - 1 = b.begin + k - 1
    BY <1>2
  <2> DEFINE c == RemoveBegin(b, size)
  <2> HIDE DEF i, j, c
  <2>6. c = Spanning(b, i, j)
    BY <2>3 DEF c
  <2>7. Mem(c) = Mem(b) /\ c.begin = i /\ c.end = j
    BY <1>1, <2>6, SpanningMem
  <2>8. Cur(c) = Cur(b) - size
    BY <2>4, <2>7 DEF Cur
  <2>9. \A k \in 1..Cur(b) : Octet(c, k - size) = Octet(b, k)
    BY <2>5, <2>7 DEF Octet
  <2>10. Keeps(b, c)
    BY <2>4, <2>6, SpanningKeeps
  <2>11. QED
    BY <1>2, <2>1, <2>8, <2>9, <2>10 DEF c
<1>5. CASE size = 0 /\ size < Cur(b)
  <2>1. RemoveBegin(b, size) = b
    BY <1>2, <1>5 DEF RemoveBegin
  <2>2. \A k \in 1..Cur(b) : k - size = k
    BY <1>2, <1>5
  <2>3. QED
    BY <1>2, <1>5, <2>1, <2>2, KeepsItself
<1>6. QED
  BY <1>2, <1>3, <1>4, <1>5

\* removeEnd.
LEMMA RemoveEndKeeps ==
    ASSUME NEW b, Sound(b), NEW size \in Nat
    PROVE  /\ Keeps(b, RemoveEnd(b, size))
           /\ Cur(RemoveEnd(b, size)) = IF size >= Cur(b) THEN 0 ELSE Cur(b) - size
           /\ \A k : Octet(RemoveEnd(b, size), k) = Octet(b, k)
<1>1. b \in Bufs
  BY SoundFields
<1>2. /\ b.begin \in Nat /\ b.end \in Nat /\ b.maxbuffer \in Nat
      /\ b.begin <= b.end /\ b.end <= b.maxbuffer
      /\ Cur(b) \in Nat /\ Cur(b) = b.end - b.begin
  BY SoundFields
<1>3. CASE size >= Cur(b)
  <2> DEFINE i == b.begin
  <2>1. RemoveEnd(b, size) = Spanning(b, i, i)
    BY <1>1, <1>3, OneEnd DEF RemoveEnd
  <2>2. i \in Nat /\ i <= i /\ i <= b.maxbuffer /\ i - i = 0
    BY <1>2
  <2>3. /\ Mem(Spanning(b, i, i)) = Mem(b)
        /\ Spanning(b, i, i).begin = i /\ Spanning(b, i, i).end = i
    BY <1>1, SpanningMem
  <2>4. \A k : Octet(RemoveEnd(b, size), k) = Octet(b, k)
    BY <2>1, <2>3 DEF Octet
  <2> HIDE DEF i
  <2>5. Cur(RemoveEnd(b, size)) = 0
    BY <2>1, <2>2, <2>3 DEF Cur
  <2>6. QED
    BY <1>2, <1>3, <2>1, <2>2, <2>4, <2>5, SpanningKeeps
<1>4. CASE size > 0 /\ size < Cur(b)
  <2> DEFINE i == b.begin
             j == b.end - size
  <2>1. ~(size >= Cur(b)) /\ Cur(b) # 0
    BY <1>2, <1>4
  <2>2. RemoveEnd(b, size) = [b EXCEPT !.end = j]
    BY <1>4, <2>1, AllocatedItself DEF RemoveEnd
  <2>3. RemoveEnd(b, size) = Spanning(b, i, j)
    BY <1>1, <2>2, OneEnd
  <2>4. i \in Nat /\ j \in Nat /\ i <= j /\ j <= b.maxbuffer /\ j - i = Cur(b) - size
    BY <1>2, <1>4
  <2>5. /\ Mem(Spanning(b, i, j)) = Mem(b)
        /\ Spanning(b, i, j).begin = i /\ Spanning(b, i, j).end = j
    BY <1>1, SpanningMem
  <2>6. \A k : Octet(RemoveEnd(b, size), k) = Octet(b, k)
    BY <2>3, <2>5 DEF Octet
  <2> HIDE DEF i, j
  <2>7. Cur(RemoveEnd(b, size)) = Cur(b) - size
    BY <2>3, <2>4, <2>5 DEF Cur
  <2>8. QED
    BY <1>2, <2>1, <2>3, <2>4, <2>6, <2>7, SpanningKeeps
<1>5. CASE size = 0 /\ size < Cur(b)
  <2>1. RemoveEnd(b, size) = b
    BY <1>2, <1>5 DEF RemoveEnd
  <2>2. QED
    BY <1>2, <1>5, <2>1, KeepsItself
<1>6. QED
  BY <1>2, <1>3, <1>4, <1>5

\* removeMiddle.
LEMMA RemoveMiddleGrows ==
    ASSUME NEW b, Sound(b), NEW start \in Nat, NEW size \in Nat
    PROVE  LET c == RemoveMiddle(b, start, size) IN
           /\ start + size <= Cur(b) =>
                 /\ Grows(b, c, TRUE) /\ Cur(c) = Cur(b) - size
                 /\ \A k \in 1..Cur(b) :
                       /\ k <= start => Octet(c, k) = Octet(b, k)
                       /\ k > start + size => Octet(c, k - size) = Octet(b, k)
           /\ ~(start + size <= Cur(b)) => c = b /\ Keeps(b, c)
<1> DEFINE cur  == Cur(b)
           tail == Cur(b) - start - size
           c    == RemoveMiddle(b, start, size)
<1>1. Backed(b) /\ b \in Bufs
  BY SoundFields
<1>2. /\ b.begin \in Nat /\ b.end \in Nat /\ b.maxbuffer \in Nat
      /\ b.begin <= b.end /\ b.end <= b.maxbuffer
      /\ cur \in Nat /\ cur = b.end - b.begin
  BY SoundFields
<1>3. CASE size = 0 \/ ~(start + size <= cur)
  <2>1. c = b
    BY <1>2, <1>3 DEF RemoveMiddle
  <2>2. Keeps(b, c)
    BY <2>1, KeepsItself
  <2>3. start + size <= cur => Cur(c) = cur - size /\ \A k \in 1..cur : k - size = k
    BY <1>2, <1>3, <2>1
  <2>4. QED
    BY <2>1, <2>2, <2>3 DEF Keeps, Grows
<1>4. CASE size # 0 /\ start + size <= cur
  <2>1. ~(size = 0 \/ tail < 0) /\ Cur(b) # 0
    BY <1>2, <1>4
  <2>2. Allocated(b) = b
    BY <2>1, AllocatedItself
  <2>3. /\ Sound(c) /\ Writes(b, c) /\ Cur(c) = cur - size
        /\ \A k \in 1..cur :
              /\ k <= start => Octet(c, k) = Octet(b, k)
              /\ k > start + size => Octet(c, k - size) = Octet(b, k)
    <3>1. CASE start < tail
      <4> DEFINE dst == b.begin + size
                 m   == Move(b, dst, b.begin, start)
                 j   == b.end
      <4>1. c = [m EXCEPT !.begin = @ + size]
        BY <2>1, <2>2, <3>1 DEF RemoveMiddle
      <4>2. /\ dst \in Int /\ b.begin \in Int /\ start \in Int
            /\ dst \in Nat /\ j \in Nat /\ dst <= j /\ j <= b.maxbuffer
            /\ j - dst = cur - size
        BY <1>2, <1>4
      <4>3. m \in Bufs /\ m.begin = b.begin /\ m.end = b.end
        <5> HIDE DEF dst
        <5>1. QED
          BY <1>1, <4>2, MovedFields
      <4>4. c = Spanning(m, dst, j)
        <5> HIDE DEF m, c
        <5>1. QED
          BY <4>1, <4>3 DEF Spanning, Bufs
      <4>5. c = Spanning(Move(b, dst, b.begin, start), dst, j)
        BY <4>4
      <4>6. ASSUME NEW k \in 1..cur, k <= start
            PROVE  LET o == dst + k - 1 IN
                   /\ o \in 0..(b.maxbuffer - 1) /\ dst <= o /\ o < dst + start
                   /\ 0 <= o - dst + b.begin /\ o - dst + b.begin < b.maxbuffer
                   /\ o - dst + b.begin = b.begin + k - 1
        BY <1>2, <1>4, <2>1, <4>6
      <4>7. ASSUME NEW k \in 1..cur, k > start + size
            PROVE  LET o == dst + (k - size) - 1 IN
                   /\ o \in 0..(b.maxbuffer - 1) /\ ~(dst <= o /\ o < dst + start)
                   /\ o = b.begin + k - 1
        BY <1>2, <1>4, <2>1, <4>7
      <4> HIDE DEF c, dst, j, cur, tail
      <4>8. Sound(c) /\ Writes(b, c) /\ c.begin = dst /\ c.end = j
        BY <1>1, <4>2, <4>5, MoveSound
      <4>9. ASSUME NEW k \in 1..cur, k <= start
            PROVE  Octet(c, k) = Octet(b, k)
        <5> DEFINE o == dst + k - 1
        <5>1. /\ o \in 0..(b.maxbuffer - 1) /\ dst <= o /\ o < dst + start
              /\ 0 <= o - dst + b.begin /\ o - dst + b.begin < b.maxbuffer
              /\ o - dst + b.begin = b.begin + k - 1
          BY <4>6, <4>9
        <5>2. Octet(c, k) = Mem(c)[o]
          BY <4>8 DEF Octet
        <5> HIDE DEF o
        <5>3. Mem(c)[o] = Mem(b)[o - dst + b.begin]
          BY <1>1, <4>2, <4>5, <5>1, MoveMem
        <5>4. QED
          BY <5>1, <5>2, <5>3 DEF Octet
      <4>10. ASSUME NEW k \in 1..cur, k > start + size
             PROVE  Octet(c, k - size) = Octet(b, k)
        <5> DEFINE o == dst + (k - size) - 1
        <5>1. /\ o \in 0..(b.maxbuffer - 1) /\ ~(dst <= o /\ o < dst + start)
              /\ o = b.begin + k - 1
          BY <4>7, <4>10
        <5>2. Octet(c, k - size) = Mem(c)[o]
          BY <4>8 DEF Octet
        <5> HIDE DEF o
        <5>3. Mem(c)[o] = Mem(b)[o]
          BY <1>1, <4>2, <4>5, <5>1, MoveMem
        <5>4. QED
          BY <5>1, <5>2, <5>3 DEF Octet
      <4>11. Cur(c) = cur - size
        BY <4>2, <4>8 DEF Cur
      <4>12. QED
        BY <4>8, <4>9, <4>10, <4>11
    <3>2. CASE ~(start < tail)
      <4> DEFINE dst == b.begin + start
                 src == b.begin + start + size
                 m   == Move(b, dst, src, tail)
                 i   == b.begin
                 j   == b.end - size
      <4>1. c = [m EXCEPT !.end = @ - size]
        BY <2>1, <2>2, <3>2 DEF RemoveMiddle
      <4>2. /\ dst \in Int /\ src \in Int /\ tail \in Int
            /\ i \in Nat /\ j \in Nat /\ i <= j /\ j <= b.maxbuffer
            /\ j - i = cur - size
        BY <1>2, <1>4
      <4>3. m \in Bufs /\ m.begin = b.begin /\ m.end = b.end
        <5> HIDE DEF dst, src, tail
        <5>1. QED
          BY <1>1, <4>2, MovedFields
      <4>4. c = Spanning(m, i, j)
        <5> HIDE DEF m, c
        <5>1. QED
          BY <4>1, <4>3 DEF Spanning, Bufs
      <4>5. c = Spanning(Move(b, dst, src, tail), i, j)
        BY <4>4
      <4>6. ASSUME NEW k \in 1..cur, k <= start
            PROVE  LET o == i + k - 1 IN
                   /\ o \in 0..(b.maxbuffer - 1) /\ ~(dst <= o /\ o < dst + tail)
                   /\ o = b.begin + k - 1
        BY <1>2, <1>4, <2>1, <4>6
      <4>7. ASSUME NEW k \in 1..cur, k > start + size
            PROVE  LET o == i + (k - size) - 1 IN
                   /\ o \in 0..(b.maxbuffer - 1) /\ dst <= o /\ o < dst + tail
                   /\ 0 <= o - dst + src /\ o - dst + src < b.maxbuffer
                   /\ o - dst + src = b.begin + k - 1
        BY <1>2, <1>4, <2>1, <4>7
      <4> HIDE DEF c, dst, src, tail, i, j, cur
      <4>8. Sound(c) /\ Writes(b, c) /\ c.begin = i /\ c.end = j
        BY <1>1, <4>2, <4>5, MoveSound
      <4>9. ASSUME NEW k \in 1..cur, k <= start
            PROVE  Octet(c, k) = Octet(b, k)
        <5> DEFINE o == i + k - 1
        <5>1. /\ o \in 0..(b.maxbuffer - 1) /\ ~(dst <= o /\ o < dst + tail)
              /\ o = b.begin + k - 1
          BY <4>6, <4>9
        <5>2. Octet(c, k) = Mem(c)[o]
          BY <4>8 DEF Octet
        <5> HIDE DEF o
        <5>3. Mem(c)[o] = Mem(b)[o]
          BY <1>1, <4>2, <4>5, <5>1, MoveMem
        <5>4. QED
          BY <5>1, <5>2, <5>3 DEF Octet
      <4>10. ASSUME NEW k \in 1..cur, k > start + size
             PROVE  Octet(c, k - size) = Octet(b, k)
        <5> DEFINE o == i + (k - size) - 1
        <5>1. /\ o \in 0..(b.maxbuffer - 1) /\ dst <= o /\ o < dst + tail
              /\ 0 <= o - dst + src /\ o - dst + src < b.maxbuffer
              /\ o - dst + src = b.begin + k - 1
          BY <4>7, <4>10
        <5>2. Octet(c, k - size) = Mem(c)[o]
          BY <4>8 DEF Octet
        <5> HIDE DEF o
        <5>3. Mem(c)[o] = Mem(b)[o - dst + src]
          BY <1>1, <4>2, <4>5, <5>1, MoveMem
        <5>4. QED
          BY <5>1, <5>2, <5>3 DEF Octet
      <4>11. Cur(c) = cur - size
        BY <4>2, <4>8 DEF Cur
      <4>12. QED
        BY <4>8, <4>9, <4>10, <4>11
    <3>3. QED
      BY <3>1, <3>2
  <2>4. QED
    BY <1>4, <2>3 DEF Grows
<1>5. QED
  BY <1>3, <1>4

\* A move inside the block and nothing else.
LEMMA MoveKeepsSound ==
    ASSUME NEW b, Sound(b), NEW dst \in Int, NEW src \in Int, NEW n \in Int
    PROVE  Sound(Move(b, dst, src, n)) /\ Writes(b, Move(b, dst, src, n))
<1> DEFINE m == Move(b, dst, src, n)
<1>1. Backed(b)
  BY SoundFields
<1>2. b.begin <= b.end /\ b.end <= b.maxbuffer
  BY SoundFields
<1>3. Backed(m) /\ Writes(b, m) /\ m.begin = b.begin /\ m.end = b.end
  BY <1>1, MoveWrites
<1> HIDE DEF m
<1>4. m.maxbuffer = b.maxbuffer
  BY <1>3 DEF Writes
<1>5. m.begin <= m.end /\ m.end <= m.maxbuffer
  BY <1>2, <1>3, <1>4
<1>6. QED
  BY <1>3, <1>5 DEF Sound, m

\* Three of them, as in moveData.
LEMMA ThreeMovesSound ==
    ASSUME NEW b, Sound(b),
           NEW dst1 \in Int, NEW src1 \in Int, NEW n1 \in Int,
           NEW dst2 \in Int, NEW src2 \in Int, NEW n2 \in Int,
           NEW dst3 \in Int, NEW src3 \in Int, NEW n3 \in Int
    PROVE  LET e == Move(Move(Move(b, dst1, src1, n1), dst2, src2, n2), dst3, src3, n3)
           IN  Sound(e) /\ Writes(b, e)
<1> DEFINE c == Move(b, dst1, src1, n1)
           d == Move(c, dst2, src2, n2)
           e == Move(d, dst3, src3, n3)
<1>1. Sound(c) /\ Writes(b, c)
  BY MoveKeepsSound
<1>2. Sound(d) /\ Writes(c, d)
  BY <1>1, MoveKeepsSound
<1>3. Sound(e) /\ Writes(d, e)
  BY <1>2, MoveKeepsSound
<1>4. Writes(b, d)
  BY <1>1, <1>2, WritesTwice
<1>5. QED
  BY <1>3, <1>4, WritesTwice

\* moveData, with room for a copy behind the data.
LEMMA MoveDataWrites ==
    ASSUME NEW b, Sound(b), UnusedBlocks(b.heap) # {},
           NEW start \in Nat, NEW size \in Nat, NEW to \in Nat,
           Moves(b, start, size, to) =>
               /\ start + size <= Cur(b)
               /\ b.maxbuffer - b.end >= IF to < start THEN start - to ELSE size
    PROVE  /\ Grows(b, MoveData(b, start, size, to), TRUE)
           /\ ~Moves(b, start, size, to) => MoveData(b, start, size, to) = b
<1>1. CASE ~Moves(b, start, size, to)
  <2>1. MoveData(b, start, size, to) = b
    BY <1>1 DEF MoveData
  <2>2. QED
    BY <2>1, KeepsItself DEF Keeps, Grows
<1>2. CASE Moves(b, start, size, to)
  <2> DEFINE topos  == MoveTarget(b, to)
             endpos == start + size
             n      == IF topos < start THEN start - topos ELSE size
             c      == FromEnd(b, n)
             tmp    == c.end - n
             p      == b.begin
             d1     == Move(c, tmp, p + topos, n)
             d2     == Move(d1, p + topos, p + start, size)
             d3     == Move(d2, p + topos + size, tmp, n)
             e1     == Move(c, tmp, p + start, n)
             e2     == Move(e1, p + start, p + endpos, topos - endpos)
             e3     == Move(e2, p + start + topos - endpos, tmp, n)
             r      == IF topos < start THEN d3 ELSE e3
  <2>1. MoveData(b, start, size, to) = RemoveEnd(r, n)
    BY <1>2 DEF MoveData
  <2>2. /\ b.begin \in Nat /\ b.end \in Nat /\ b.maxbuffer \in Nat
        /\ b.begin <= b.end /\ b.end <= b.maxbuffer
        /\ Cur(b) \in Nat /\ Cur(b) = b.end - b.begin
    BY SoundFields
  <2>3. topos \in Nat /\ topos <= to /\ (topos = to \/ topos = b.end)
    <3>1. to \in Int /\ b.end \in Int
      BY <2>2
    <3>2. topos \in {to, b.end} /\ topos <= to
      BY <3>1, MinOfTwo DEF MoveTarget
    <3> HIDE DEF topos
    <3>3. QED
      BY <2>2, <3>2
  <2>4. n \in Nat /\ n <= b.maxbuffer - b.end
    <3>1. /\ start + size <= Cur(b)
          /\ b.maxbuffer - b.end >= IF to < start THEN start - to ELSE size
      BY <1>2
    <3> HIDE DEF topos
    <3>2. QED
      BY <2>2, <2>3, <3>1
  <2>5. b.maxbuffer - Cur(b) >= n
    <3> HIDE DEF n
    <3>1. QED
      BY <2>2, <2>4
  <2>6. Sound(c) /\ Writes(b, c)
    <3>1. Grows(b, c, b.maxbuffer - Cur(b) >= n)
      <4> HIDE DEF n
      <4>1. QED
        BY <2>4, FromEndGrows
    <3> HIDE DEF c, n
    <3>2. QED
      BY <2>5, <3>1 DEF Grows
  <2>7. c.end \in Nat
    <3> HIDE DEF c
    <3>1. QED
      BY <2>6, SoundFields
  <2>8. /\ tmp \in Int /\ p + topos \in Int /\ n \in Int /\ size \in Int
        /\ p + start \in Int /\ p + topos + size \in Int
        /\ p + endpos \in Int /\ topos - endpos \in Int
        /\ p + start + topos - endpos \in Int
    <3> HIDE DEF c, n, topos
    <3>1. QED
      BY <2>2, <2>3, <2>4, <2>7
  <2>9. Sound(d3) /\ Writes(c, d3)
    <3> DEFINE o1 == p + topos
               o2 == p + start
               o3 == p + topos + size
    <3>1. /\ o1 \in Int /\ o2 \in Int /\ o3 \in Int
          /\ tmp \in Int /\ n \in Int /\ size \in Int
      BY <2>8
    <3>2. d3 = Move(Move(Move(c, tmp, o1, n), o1, o2, size), o3, tmp, n)
      OBVIOUS
    <3> HIDE DEF c, n, topos, tmp, p, o1, o2, o3, d1, d2, d3
    <3>3. QED
      BY <2>6, <3>1, <3>2, ThreeMovesSound
  <2>10. Sound(e3) /\ Writes(c, e3)
    <3> DEFINE o1 == p + start
               o2 == p + endpos
               o3 == p + start + topos - endpos
               l2 == topos - endpos
    <3>1. /\ o1 \in Int /\ o2 \in Int /\ o3 \in Int
          /\ l2 \in Int /\ tmp \in Int /\ n \in Int
      BY <2>8
    <3>2. e3 = Move(Move(Move(c, tmp, o1, n), o1, o2, l2), o3, tmp, n)
      OBVIOUS
    <3> HIDE DEF c, n, topos, tmp, p, o1, o2, o3, l2, e1, e2, e3
    <3>3. QED
      BY <2>6, <3>1, <3>2, ThreeMovesSound
  <2>11. Sound(r) /\ Writes(b, r)
    <3> HIDE DEF c, d3, e3, topos
    <3>1. QED
      BY <2>6, <2>9, <2>10, WritesTwice
  <2>12. Keeps(r, RemoveEnd(r, n))
    <3> HIDE DEF r, n
    <3>1. QED
      BY <2>4, <2>11, RemoveEndKeeps
  <2> HIDE DEF r, n
  <2>13. Writes(b, RemoveEnd(r, n))
    BY <2>11, <2>12, WritesTwice DEF Keeps
  <2>14. QED
    BY <1>2, <2>1, <2>12, <2>13 DEF Keeps, Grows
<1>3. QED
  BY <1>1, <1>2

\* e is b with n1 bytes moved from s1 to d3, and n2 from s2 to d2.
Swaps(b, e, tmp, s1, n1, d2, s2, n2, d3) ==
    /\ Sound(e) /\ Writes(b, e) /\ e.begin = b.begin /\ e.end = b.end
    /\ \A k \in 0..(tmp - 1) :
          /\ d3 <= k /\ k < d3 + n1 => Mem(e)[k] = Mem(b)[k - d3 + s1]
          /\ d2 <= k /\ k < d2 + n2 => Mem(e)[k] = Mem(b)[k - d2 + s2]
          /\ ~(d3 <= k /\ k < d3 + n1) /\ ~(d2 <= k /\ k < d2 + n2) => Mem(e)[k] = Mem(b)[k]

\* n1 bytes are kept behind tmp while n2 others move, and put back elsewhere.
LEMMA ThreeMovesMem ==
    ASSUME NEW b, Sound(b), NEW tmp \in Nat,
           NEW s1 \in Nat, NEW n1 \in Nat, NEW d2 \in Nat, NEW s2 \in Nat, NEW n2 \in Nat,
           NEW d3 \in Nat, tmp + n1 <= b.maxbuffer,
           s1 + n1 <= tmp, d2 + n2 <= tmp, s2 + n2 <= tmp, d3 + n1 <= tmp,
           d2 + n2 <= d3
    PROVE  Swaps(b, Move(Move(Move(b, tmp, s1, n1), d2, s2, n2), d3, tmp, n1),
                 tmp, s1, n1, d2, s2, n2, d3)
<1> DEFINE c == Move(b, tmp, s1, n1)
           d == Move(c, d2, s2, n2)
           e == Move(d, d3, tmp, n1)
<1>1. Sound(c) /\ Writes(b, c) /\ Backed(b) /\ b.maxbuffer \in Nat
  BY MoveKeepsSound, SoundFields
<1>2. Sound(d) /\ Writes(c, d) /\ Backed(c)
  BY <1>1, MoveKeepsSound, SoundFields
<1>3. Sound(e) /\ Writes(d, e) /\ Backed(d)
  BY <1>2, MoveKeepsSound, SoundFields
<1>4. Writes(b, d)
  BY <1>1, <1>2, WritesTwice
<1>5. Writes(b, e)
  BY <1>3, <1>4, WritesTwice
<1>6. c.maxbuffer = b.maxbuffer /\ d.maxbuffer = b.maxbuffer
  BY <1>1, <1>4 DEF Writes
<1>7. c.begin = b.begin /\ c.end = b.end
  BY <1>1, MovedFields
<1>8. d.begin = b.begin /\ d.end = b.end
  BY <1>2, <1>7, MovedFields
<1>9. e.begin = b.begin /\ e.end = b.end
  BY <1>3, <1>8, MovedFields
<1>10. ASSUME NEW k \in 0..(b.maxbuffer - 1)
       PROVE  /\ tmp <= k /\ k < tmp + n1 => Mem(c)[k] = Mem(b)[k - tmp + s1]
              /\ ~(tmp <= k /\ k < tmp + n1) => Mem(c)[k] = Mem(b)[k]
  <2>1. tmp <= k /\ k < tmp + n1 => 0 <= k - tmp + s1 /\ k - tmp + s1 < b.maxbuffer
    BY <1>1
  <2>2. QED
    BY <1>1, <2>1, MovedMem
<1>11. ASSUME NEW k \in 0..(b.maxbuffer - 1)
       PROVE  /\ d2 <= k /\ k < d2 + n2 => Mem(d)[k] = Mem(c)[k - d2 + s2]
              /\ ~(d2 <= k /\ k < d2 + n2) => Mem(d)[k] = Mem(c)[k]
  <2>1. d2 <= k /\ k < d2 + n2 => 0 <= k - d2 + s2 /\ k - d2 + s2 < b.maxbuffer
    BY <1>1
  <2> HIDE DEF c
  <2>2. QED
    BY <1>2, <1>6, <2>1, MovedMem
<1>12. ASSUME NEW k \in 0..(b.maxbuffer - 1)
       PROVE  /\ d3 <= k /\ k < d3 + n1 => Mem(e)[k] = Mem(d)[k - d3 + tmp]
              /\ ~(d3 <= k /\ k < d3 + n1) => Mem(e)[k] = Mem(d)[k]
  <2>1. d3 <= k /\ k < d3 + n1 => 0 <= k - d3 + tmp /\ k - d3 + tmp < b.maxbuffer
    BY <1>1
  <2> HIDE DEF d
  <2>2. QED
    BY <1>3, <1>6, <2>1, MovedMem
<1> HIDE DEF c, d, e
<1>13. ASSUME NEW k \in 0..(tmp - 1)
       PROVE  /\ d3 <= k /\ k < d3 + n1 => Mem(e)[k] = Mem(b)[k - d3 + s1]
              /\ d2 <= k /\ k < d2 + n2 => Mem(e)[k] = Mem(b)[k - d2 + s2]
              /\ ~(d3 <= k /\ k < d3 + n1) /\ ~(d2 <= k /\ k < d2 + n2) =>
                    Mem(e)[k] = Mem(b)[k]
  <2>1. k \in 0..(b.maxbuffer - 1) /\ ~(tmp <= k /\ k < tmp + n1)
    BY <1>1
  <2>2. CASE d3 <= k /\ k < d3 + n1
    <3> DEFINE o == k - d3 + tmp
    <3>1. /\ o \in 0..(b.maxbuffer - 1) /\ tmp <= o /\ o < tmp + n1
          /\ ~(d2 <= o /\ o < d2 + n2) /\ o - tmp + s1 = k - d3 + s1
          /\ ~(d2 <= k /\ k < d2 + n2)
      BY <1>1, <2>2
    <3>2. Mem(e)[k] = Mem(d)[o]
      BY <1>12, <2>1, <2>2
    <3> HIDE DEF o
    <3>3. Mem(d)[o] = Mem(c)[o]
      BY <1>11, <3>1
    <3>4. Mem(c)[o] = Mem(b)[o - tmp + s1]
      BY <1>10, <3>1
    <3>5. QED
      BY <2>2, <3>1, <3>2, <3>3, <3>4
  <2>3. CASE d2 <= k /\ k < d2 + n2
    <3> DEFINE o == k - d2 + s2
    <3>1. /\ o \in 0..(b.maxbuffer - 1) /\ ~(tmp <= o /\ o < tmp + n1)
          /\ ~(d3 <= k /\ k < d3 + n1)
      BY <1>1, <2>3
    <3>2. Mem(e)[k] = Mem(d)[k]
      BY <1>12, <2>1, <3>1
    <3>3. Mem(d)[k] = Mem(c)[o]
      BY <1>11, <2>1, <2>3
    <3> HIDE DEF o
    <3>4. Mem(c)[o] = Mem(b)[o]
      BY <1>10, <3>1
    <3>5. QED
      BY <2>3, <3>1, <3>2, <3>3, <3>4 DEF o
  <2>4. CASE ~(d3 <= k /\ k < d3 + n1) /\ ~(d2 <= k /\ k < d2 + n2)
    BY <1>10, <1>11, <1>12, <2>1, <2>4
  <2>5. QED
    BY <2>2, <2>3, <2>4
<1>14. QED
  BY <1>3, <1>5, <1>9, <1>13 DEF Swaps, c, d, e

\* fromEnd when there is room behind the data.
LEMMA FromEndBehind ==
    ASSUME NEW b, Sound(b), NEW n \in Nat, b.maxbuffer - b.end >= n,
           NEW c, c = FromEnd(b, n)
    PROVE  /\ Sound(c) /\ Writes(b, c) /\ Mem(c) = Mem(b)
           /\ c.begin = b.begin /\ c.end = b.end + n /\ c.maxbuffer = b.maxbuffer
<1>1. /\ b.begin \in Nat /\ b.end \in Nat /\ b.maxbuffer \in Nat
      /\ b.begin <= b.end /\ b.end <= b.maxbuffer
      /\ Cur(b) \in Nat /\ Cur(b) = b.end - b.begin /\ Backed(b) /\ b \in Bufs
  BY SoundFields
<1>2. ~(b.maxbuffer - Cur(b) < n) /\ ~(b.maxbuffer - b.end < n)
  BY <1>1
<1>3. c = [b EXCEPT !.end = b.end + n]
  BY <1>2 DEF FromEnd
<1> DEFINE i == b.begin
           j == b.end + n
<1>4. i \in Nat /\ j \in Nat /\ i <= j /\ j <= b.maxbuffer
  BY <1>1
<1>5. c = Spanning(b, i, j)
  BY <1>1, <1>3, OneEnd
<1> HIDE DEF i, j
<1>6. Keeps(b, c)
  BY <1>4, <1>5, SpanningKeeps
<1>7. Mem(c) = Mem(b) /\ c.begin = i /\ c.end = j
  BY <1>1, <1>5, SpanningMem
<1>8. QED
  BY <1>6, <1>7 DEF Keeps, Writes, i, j

\* Where the byte that is at j behind moveData was before, t being the target.
Origin(j, start, size, t) ==
    IF t < start
    THEN IF t < j /\ j <= t + size THEN j + start - t
         ELSE IF t + size < j /\ j <= start + size THEN j - size
         ELSE j
    ELSE IF start < j /\ j <= t - size THEN j + size
         ELSE IF t - size < j /\ j <= t THEN j - (t - size) + start
         ELSE j

\* What moveData aims at, if it moves anything.
LEMMA MoveDataTarget ==
    ASSUME NEW b, Sound(b), NEW start \in Nat, NEW size \in Nat, NEW to \in Nat,
           start + size <= Cur(b), Moves(b, start, size, to), b.begin = 0 \/ to <= Cur(b),
           NEW t, t = Min({to, Cur(b)})
    PROVE  /\ MoveTarget(b, to) = t /\ t \in Nat /\ t <= Cur(b) /\ Cur(b) # 0
           /\ t < start \/ t > start + size
           /\ t < start <=> to < start
           /\ t \in {to, Cur(b)}
<1>1. /\ b.begin \in Nat /\ b.end \in Nat /\ b.begin <= b.end
      /\ Cur(b) \in Nat /\ Cur(b) = b.end - b.begin
  BY SoundFields
<1> DEFINE cur == Cur(b)
           end == b.end
<1>2. t \in {to, cur} /\ t <= to /\ t <= cur
  <2>1. to \in Int /\ cur \in Int
    BY <1>1
  <2> HIDE DEF cur
  <2>2. QED
    BY <2>1, MinOfTwo DEF cur
<1>3. MoveTarget(b, to) \in {to, end} /\ MoveTarget(b, to) <= to /\ MoveTarget(b, to) <= end
  <2>1. to \in Int /\ end \in Int
    BY <1>1
  <2>2. MoveTarget(b, to) = Min({to, end})
    BY DEF MoveTarget
  <2> HIDE DEF end
  <2>3. QED
    BY <2>1, <2>2, MinOfTwo
<1>4. MoveTarget(b, to) = t
  BY <1>1, <1>2, <1>3
<1>5. t < start \/ t > start + size
  BY <1>4 DEF Moves
<1>6. QED
  BY <1>1, <1>2, <1>4, <1>5

\* moveData moves the bytes it is told to, and no other.
LEMMA MoveDataMoves ==
    ASSUME NEW b, Sound(b), UnusedBlocks(b.heap) # {},
           NEW start \in Nat, NEW size \in Nat, NEW to \in Nat,
           start + size <= Cur(b), Moves(b, start, size, to), b.begin = 0 \/ to <= Cur(b),
           b.maxbuffer - b.end >= IF to < start THEN start - to ELSE size,
           NEW t, t = Min({to, Cur(b)})
    PROVE  LET c == MoveData(b, start, size, to) IN
           /\ Cur(c) = Cur(b)
           /\ \A j \in 1..Cur(b) : Octet(c, j) = Octet(b, Origin(j, start, size, t))
<1> DEFINE endpos == start + size
           n      == IF t < start THEN start - t ELSE size
           c      == FromEnd(b, n)
           tmp    == c.end - n
           p      == b.begin
           d1     == Move(c, tmp, p + t, n)
           d2     == Move(d1, p + t, p + start, size)
           d3     == Move(d2, p + t + size, tmp, n)
           e1     == Move(c, tmp, p + start, n)
           e2     == Move(e1, p + start, p + endpos, t - endpos)
           e3     == Move(e2, p + start + t - endpos, tmp, n)
           r      == IF t < start THEN d3 ELSE e3
<1>1. /\ b.begin \in Nat /\ b.end \in Nat /\ b.maxbuffer \in Nat
      /\ b.begin <= b.end /\ b.end <= b.maxbuffer
      /\ Cur(b) \in Nat /\ Cur(b) = b.end - b.begin
  BY SoundFields
<1>2. /\ MoveTarget(b, to) = t /\ t \in Nat /\ t <= Cur(b) /\ Cur(b) # 0
      /\ t < start \/ t > start + size
      /\ t < start <=> to < start
      /\ t \in {to, Cur(b)}
  <2>1. /\ Sound(b) /\ start \in Nat /\ size \in Nat /\ to \in Nat
        /\ start + size <= Cur(b) /\ Moves(b, start, size, to)
        /\ b.begin = 0 \/ to <= Cur(b)
        /\ t = Min({to, Cur(b)})
    OBVIOUS
  <2>2. QED
    BY ONLY <2>1, MoveDataTarget
<1>3. MoveData(b, start, size, to) = RemoveEnd(r, n)
  BY <1>2 DEF MoveData
<1>4. n \in Nat /\ b.maxbuffer - b.end >= n
  BY <1>1, <1>2
<1>5. /\ Sound(c) /\ Writes(b, c) /\ Mem(c) = Mem(b)
      /\ c.begin = b.begin /\ c.end = b.end + n /\ c.maxbuffer = b.maxbuffer
  <2> HIDE DEF n
  <2>1. QED
    BY <1>4, FromEndBehind
<1>6. tmp = b.end
  <2> HIDE DEF c, n
  <2>1. QED
    BY <1>1, <1>4, <1>5
<1> DEFINE Rearranged(q) ==
             /\ Sound(q) /\ q.begin = b.begin /\ q.end = b.end + n
             /\ \A j \in 1..Cur(b) : Mem(q)[p + j - 1] = Octet(b, Origin(j, start, size, t))
<1>7. ASSUME t < start
      PROVE  Rearranged(d3)
  <2> DEFINE s1 == p + t
             s2 == p + start
             s3 == p + t + size
  <2>1. n = start - t
    BY <1>7
  <2>2. /\ tmp \in Nat /\ s1 \in Nat /\ s2 \in Nat /\ s3 \in Nat /\ tmp + n <= c.maxbuffer
        /\ s1 + n <= tmp /\ s1 + size <= tmp /\ s2 + size <= tmp /\ s3 + n <= tmp
        /\ s1 + size <= s3
    <3> HIDE DEF c, n, tmp
    <3>1. QED
      BY <1>1, <1>2, <1>4, <1>5, <1>6, <1>7, <2>1
  <2>3. d3 = Move(Move(Move(c, tmp, s1, n), s1, s2, size), s3, tmp, n)
    OBVIOUS
  <2>4. ASSUME NEW j \in 1..Cur(b)
        PROVE  LET k == p + j - 1
                   o == Origin(j, start, size, t)
               IN  /\ k \in 0..(tmp - 1)
                   /\ s3 <= k /\ k < s3 + n => k - s3 + s1 = p + o - 1
                   /\ s1 <= k /\ k < s1 + size => k - s1 + s2 = p + o - 1
                   /\ ~(s3 <= k /\ k < s3 + n) /\ ~(s1 <= k /\ k < s1 + size) => o = j
    <3> HIDE DEF c, n, tmp
    <3>1. QED
      BY <1>1, <1>2, <1>6, <1>7, <2>1 DEF Origin
  <2> HIDE DEF c, n, tmp, p, s1, s2, s3, d1, d2, d3
  <2>5. Swaps(c, d3, tmp, s1, n, s1, s2, size, s3)
    <3>1. Sound(c)
      BY <1>5
    <3>2. n \in Nat
      BY <1>4
    <3>3. QED
      BY <2>2, <2>3, <3>1, <3>2, ThreeMovesMem
  <2>6. ASSUME NEW j \in 1..Cur(b)
        PROVE  Mem(d3)[p + j - 1] = Octet(b, Origin(j, start, size, t))
    <3> DEFINE k == p + j - 1
               o == Origin(j, start, size, t)
    <3>1. /\ k \in 0..(tmp - 1)
          /\ s3 <= k /\ k < s3 + n => k - s3 + s1 = p + o - 1
          /\ s1 <= k /\ k < s1 + size => k - s1 + s2 = p + o - 1
          /\ ~(s3 <= k /\ k < s3 + n) /\ ~(s1 <= k /\ k < s1 + size) => k = p + o - 1
      BY <2>4
    <3>2. Octet(b, o) = Mem(b)[p + o - 1]
      BY DEF Octet, p
    <3> HIDE DEF k, o
    <3>3. Mem(d3)[k] = Mem(c)[p + o - 1]
      BY <2>5, <3>1 DEF Swaps
    <3>4. QED
      BY <1>5, <3>2, <3>3 DEF k, o
  <2>7. QED
    BY <1>5, <2>5, <2>6 DEF Swaps
<1>8. ASSUME ~(t < start)
      PROVE  Rearranged(e3)
  <2> DEFINE s1 == p + start
             s2 == p + endpos
             s3 == p + start + t - endpos
             l2 == t - endpos
  <2>1. n = size
    BY <1>8
  <2>2. /\ tmp \in Nat /\ s1 \in Nat /\ s2 \in Nat /\ s3 \in Nat /\ tmp + n <= c.maxbuffer
        /\ s1 + n <= tmp /\ s1 + l2 <= tmp /\ s2 + l2 <= tmp /\ s3 + n <= tmp
        /\ s1 + l2 <= s3 /\ l2 \in Nat
    <3> HIDE DEF c, n, tmp
    <3>1. QED
      BY <1>1, <1>2, <1>4, <1>5, <1>6, <1>8, <2>1
  <2>3. e3 = Move(Move(Move(c, tmp, s1, n), s1, s2, l2), s3, tmp, n)
    OBVIOUS
  <2>4. ASSUME NEW j \in 1..Cur(b)
        PROVE  LET k == p + j - 1
                   o == Origin(j, start, size, t)
               IN  /\ k \in 0..(tmp - 1)
                   /\ s3 <= k /\ k < s3 + n => k - s3 + s1 = p + o - 1
                   /\ s1 <= k /\ k < s1 + l2 => k - s1 + s2 = p + o - 1
                   /\ ~(s3 <= k /\ k < s3 + n) /\ ~(s1 <= k /\ k < s1 + l2) => o = j
    <3> HIDE DEF c, n, tmp
    <3>1. QED
      BY <1>1, <1>2, <1>6, <1>8, <2>1 DEF Origin
  <2> HIDE DEF c, n, tmp, p, s1, s2, s3, l2, e1, e2, e3
  <2>5. Swaps(c, e3, tmp, s1, n, s1, s2, l2, s3)
    <3>1. Sound(c)
      BY <1>5
    <3>2. n \in Nat
      BY <1>4
    <3>3. QED
      BY <2>2, <2>3, <3>1, <3>2, ThreeMovesMem
  <2>6. ASSUME NEW j \in 1..Cur(b)
        PROVE  Mem(e3)[p + j - 1] = Octet(b, Origin(j, start, size, t))
    <3> DEFINE k == p + j - 1
               o == Origin(j, start, size, t)
    <3>1. /\ k \in 0..(tmp - 1)
          /\ s3 <= k /\ k < s3 + n => k - s3 + s1 = p + o - 1
          /\ s1 <= k /\ k < s1 + l2 => k - s1 + s2 = p + o - 1
          /\ ~(s3 <= k /\ k < s3 + n) /\ ~(s1 <= k /\ k < s1 + l2) => k = p + o - 1
      BY <2>4
    <3>2. Octet(b, o) = Mem(b)[p + o - 1]
      BY DEF Octet, p
    <3> HIDE DEF k, o
    <3>3. Mem(e3)[k] = Mem(c)[p + o - 1]
      BY <2>5, <3>1 DEF Swaps
    <3>4. QED
      BY <1>5, <3>2, <3>3 DEF k, o
  <2>7. QED
    BY <1>5, <2>5, <2>6 DEF Swaps
<1>9. Rearranged(r)
  <2> HIDE DEF d3, e3, Rearranged
  <2>1. QED
    BY <1>7, <1>8
<1>10. /\ Sound(r) /\ r.begin = b.begin /\ r.end = b.end + n
       /\ \A j \in 1..Cur(b) : Mem(r)[p + j - 1] = Octet(b, Origin(j, start, size, t))
  <2> HIDE DEF r, n
  <2>1. QED
    BY <1>9
<1> HIDE DEF r, n, Rearranged
<1>11. Cur(r) = Cur(b) + n
  BY <1>1, <1>4, <1>10 DEF Cur
<1>12. /\ Cur(RemoveEnd(r, n)) = IF n >= Cur(r) THEN 0 ELSE Cur(r) - n
       /\ \A j : Octet(RemoveEnd(r, n), j) = Octet(r, j)
  BY <1>4, <1>10, RemoveEndKeeps
<1>13. Cur(RemoveEnd(r, n)) = Cur(b)
  BY <1>1, <1>2, <1>4, <1>11, <1>12
<1>14. \A j \in 1..Cur(b) : Octet(r, j) = Octet(b, Origin(j, start, size, t))
  BY <1>10 DEF Octet
<1>15. QED
  BY <1>3, <1>12, <1>13, <1>14

-----------------------------------------------------------------------------
(* The caller writes. *)

\* The bytes of the block are others.
LEMMA HeapWrites ==
    ASSUME NEW b, Sound(b), b.buffer # Null, NEW m \in MemOf(b.maxbuffer),
           NEW c, c = [b EXCEPT !.heap = [b.heap EXCEPT ![b.buffer] = m]]
    PROVE  Sound(c) /\ Writes(b, c)
<1>1. Backed(b)
  BY SoundFields
<1>2. b.begin <= b.end /\ b.end <= b.maxbuffer
  BY SoundFields
<1>3. /\ b \in Bufs /\ b.maxbuffer \in Nat /\ b.buffer \in Blocks
      /\ b.heap \in [Blocks -> Mems]
  BY <1>1 DEF Backed, Bufs
<1>4. m \in Mems
  BY <1>3 DEF Mems
<1>5. Backed(c) /\ Writes(b, c) /\ c.begin = b.begin /\ c.end = b.end
  BY <1>1, <1>3, <1>4 DEF Backed, Bufs, Writes
<1>6. c.maxbuffer = b.maxbuffer
  BY <1>5 DEF Writes
<1>7. c.begin <= c.end /\ c.end <= c.maxbuffer
  BY <1>2, <1>5, <1>6
<1>8. QED
  BY <1>5, <1>7 DEF Sound

\* Some bytes of a block are overwritten.
LEMMA OverwrittenMem ==
    ASSUME NEW size \in Nat, NEW m \in MemOf(size), NEW S, NEW v \in Bytes
    PROVE  [i \in DOMAIN m |-> IF i \in S THEN v ELSE m[i]] \in MemOf(size)
  BY DEF MemOf

\* The caller fills bytes of the data.
LEMMA FilledWrites ==
    ASSUME NEW b, Sound(b), NEW off \in Nat, NEW size \in Nat, off + size <= Cur(b),
           NEW v \in Bytes
    PROVE  Sound(Filled(b, off, size, v)) /\ Writes(b, Filled(b, off, size, v))
<1>1. CASE size = 0
  <2>1. Filled(b, off, size, v) = b
    BY <1>1 DEF Filled
  <2>2. QED
    BY <2>1, KeepsItself DEF Keeps
<1>2. CASE size # 0
  <2>1. b.buffer # Null
    BY <1>2, SoundFields
  <2> DEFINE m == [i \in DOMAIN b.heap[b.buffer] |->
                      IF i \in Zone(b.heap[b.buffer], b.begin + off, size) THEN v
                      ELSE b.heap[b.buffer][i]]
             c == Filled(b, off, size, v)
  <2>2. b.maxbuffer \in Nat /\ b.heap[b.buffer] \in MemOf(b.maxbuffer)
    BY <2>1, SoundFields DEF Sound, Backed
  <2>3. m \in MemOf(b.maxbuffer)
    BY <2>2, OverwrittenMem
  <2>4. c = [b EXCEPT !.heap[b.buffer] = m]
    BY <1>2 DEF Filled
  <2>5. c = [b EXCEPT !.heap = [b.heap EXCEPT ![b.buffer] = m]]
    <3> HIDE DEF m, c
    <3>1. QED
      BY <2>4
  <2> HIDE DEF m, c
  <2>6. QED
    BY <2>1, <2>3, <2>5, HeapWrites DEF c
<1>3. QED
  BY <1>1, <1>2

\* Filled after a member function that made room.
LEMMA FilledGrows ==
    ASSUME NEW b, NEW c, NEW room \in BOOLEAN, Grows(b, c, room),
           NEW off \in Nat, NEW size \in Nat, off + size <= Cur(c), NEW v \in Bytes
    PROVE  Grows(b, Filled(c, off, size, v), room)
<1> DEFINE d == Filled(c, off, size, v)
<1>1. Sound(d) /\ Writes(c, d)
  BY FilledWrites DEF Grows
<1> HIDE DEF d
<1>2. QED
  BY <1>1, WritesTwice, RenewsThenWrites DEF Grows, d

\* c_str writes one byte behind the data.
LEMMA CStrWrites ==
    ASSUME NEW b, Sound(b), b.buffer # Null, b.end < b.maxbuffer, NEW v \in Bytes
    PROVE  Grows(b, [b EXCEPT !.heap[b.buffer][b.end] = v], TRUE)
<1> DEFINE m == [b.heap[b.buffer] EXCEPT ![b.end] = v]
           c == [b EXCEPT !.heap[b.buffer][b.end] = v]
<1>1. b.heap[b.buffer] \in MemOf(b.maxbuffer)
  BY SoundFields DEF Sound, Backed
<1>2. m \in MemOf(b.maxbuffer)
  BY <1>1 DEF MemOf
<1>3. c = [b EXCEPT !.heap = [b.heap EXCEPT ![b.buffer] = m]]
  OBVIOUS
<1> HIDE DEF m, c
<1>4. QED
  BY <1>2, <1>3, HeapWrites DEF Grows, c
-----------------------------------------------------------------------------
(* The state: the fields o of the buffers, the heap h, the blocks cs that no *)
(* buffer must free.  The changes the calls make to it, one lemma for each.  *)

\* The fields f fit a block of the heap h.
Fits(f, h) ==
    /\ f.begin <= f.end /\ f.end <= f.maxbuffer
    /\ f.buffer = Null <=> f.maxbuffer = 0
    /\ f.buffer # Null => h[f.buffer] \in MemOf(f.maxbuffer)

\* f has block k and must free it.
Owns(f, k) == f.buffer = k /\ ~f.borrowed

\* Block k, which is m in the heap, has one buffer to free it, unless none must.
Owned(o, m, k, lent) ==
    /\ m # Unallocated =>
         IF lent THEN \A x \in Buffers : ~Owns(o[x], k)
         ELSE \E x \in Buffers : Owns(o[x], k) /\ \A y \in Buffers : Owns(o[y], k) => y = x
    /\ m = Unallocated => ~lent /\ \A x \in Buffers : o[x].buffer # k

\* The buffers fit the heap, and each block but those of cs has one owner.
Good(o, h, cs) ==
    /\ o \in [Buffers -> FieldSet] /\ h \in [Blocks -> Mems] /\ cs \subseteq Blocks
    /\ \A x \in Buffers : Fits(o[x], h)
    /\ \A k \in Blocks : Owned(o, h[k], k, k \in cs)

\* No other buffer has the block of x.
Alone(o, x) == \A y \in Buffers \ {x} : o[x].buffer # Null => o[y].buffer # o[x].buffer

\* x gets the fields f, which fit it in the heap g.
Changed(f, g) == f \in FieldSet /\ g \in [Blocks -> Mems] /\ Fits(f, g)

\* Only the block of x is written, and that only if x alone has it.
Written(o, h, x, f, g) ==
    /\ f.buffer = o[x].buffer /\ (f.borrowed <=> o[x].borrowed)
    /\ \A k \in Blocks : k # f.buffer => g[k] = h[k]
    /\ ~Alone(o, x) => g = h

\* A call that works in the block.
LEMMA GoodWrite ==
    ASSUME NEW o, NEW h, NEW cs, Good(o, h, cs), NEW x \in Buffers,
           NEW f, NEW g, Changed(f, g), Written(o, h, x, f, g)
    PROVE  Good([o EXCEPT ![x] = f], g, cs)
<1> DEFINE p == [o EXCEPT ![x] = f]
<1>1. /\ f \in FieldSet /\ g \in [Blocks -> Mems] /\ Fits(f, g)
      /\ f.buffer = o[x].buffer /\ (f.borrowed <=> o[x].borrowed)
      /\ \A k \in Blocks : k # f.buffer => g[k] = h[k]
      /\ ~Alone(o, x) => g = h
  BY DEF Changed, Written
<1> USE <1>1
<1>2. /\ o \in [Buffers -> FieldSet] /\ cs \subseteq Blocks
      /\ \A y \in Buffers : Fits(o[y], h)
      /\ \A k \in Blocks : Owned(o, h[k], k, k \in cs)
  BY DEF Good
<1>3. /\ p \in [Buffers -> FieldSet] /\ p[x] = f
      /\ \A y \in Buffers : y # x => p[y] = o[y]
  BY <1>2
<1> HIDE DEF p
<1>4. \A y \in Buffers : p[y].buffer = o[y].buffer /\ (p[y].borrowed <=> o[y].borrowed)
  BY <1>3
<1>5. ASSUME NEW y \in Buffers
      PROVE  Fits(p[y], g)
  <2>1. CASE y = x
    BY <1>3, <2>1
  <2>2. CASE y # x
    <3>1. p[y] = o[y] /\ Fits(o[y], h) /\ o[y].buffer \in Blocks \cup {Null}
      BY <1>2, <1>3, <2>2 DEF FieldSet
    <3>2. o[y].buffer # Null => g[o[y].buffer] = h[o[y].buffer]
      BY <2>2, <3>1 DEF Alone
    <3>3. QED
      BY <3>1, <3>2 DEF Fits
  <2>3. QED
    BY <2>1, <2>2
<1>6. ASSUME NEW k \in Blocks
      PROVE  g[k] = Unallocated <=> h[k] = Unallocated
  <2>1. CASE k # f.buffer
    BY <2>1
  <2>2. CASE k = f.buffer
    <3>1. k # Null /\ f.maxbuffer \in Nat \ {0} /\ g[k] \in MemOf(f.maxbuffer)
      BY <2>2, DBufferAssumption DEF Fits, FieldSet, DBufferAssumption, Null
    <3>2. g[k] # Unallocated
      BY <3>1, SomeMem
    <3>3. h[k] # Unallocated
      BY <1>2, <2>2 DEF Owned
    <3>4. QED
      BY <3>2, <3>3
  <2>3. QED
    BY <2>1, <2>2
<1>7. ASSUME NEW k \in Blocks
      PROVE  Owned(p, g[k], k, k \in cs)
  <2>1. \A y \in Buffers : (p[y].buffer = k <=> o[y].buffer = k) /\ (Owns(p[y], k) <=> Owns(o[y], k))
    BY <1>4 DEF Owns
  <2>2. Owned(o, h[k], k, k \in cs)
    BY <1>2
  <2>3. QED
    BY <1>6, <2>1, <2>2 DEF Owned
<1>8. QED
  BY <1>2, <1>3, <1>5, <1>7 DEF Good, p

\* x gives up its block, which is freed unless it is lent.
LEMMA GoodRelease ==
    ASSUME NEW o, NEW h, NEW cs, Good(o, h, cs), NEW x \in Buffers,
           o[x].borrowed \/ Alone(o, x),
           NEW g, g = [k \in Blocks |-> IF k = o[x].buffer /\ ~o[x].borrowed
                                        THEN Unallocated ELSE h[k]],
           NEW p, p = [o EXCEPT ![x] = Empty]
    PROVE  Good(p, g, cs)
<1>1. /\ o \in [Buffers -> FieldSet] /\ h \in [Blocks -> Mems] /\ cs \subseteq Blocks
      /\ \A y \in Buffers : Fits(o[y], h)
      /\ \A k \in Blocks : Owned(o, h[k], k, k \in cs)
  BY DEF Good
<1>2. Empty \in FieldSet /\ Empty.buffer = Null /\ Fits(Empty, g)
  BY DEF Empty, FieldSet, Fits, Null
<1>3. /\ p \in [Buffers -> FieldSet] /\ p[x] = Empty
      /\ \A y \in Buffers : y # x => p[y] = o[y]
  BY <1>1, <1>2
<1>4. g \in [Blocks -> Mems]
  BY <1>1, NoMem
<1>5. \A y \in Buffers : o[y].buffer \in Blocks \cup {Null}
  BY <1>1 DEF FieldSet
<1>6. Null \notin Blocks
  BY DBufferAssumption DEF DBufferAssumption, Null
<1>7. ASSUME NEW y \in Buffers
      PROVE  Fits(p[y], g)
  <2>1. CASE y # x
    <3>1. p[y] = o[y] /\ Fits(o[y], h)
      BY <1>1, <1>3, <2>1
    <3>2. o[y].buffer # Null => g[o[y].buffer] = h[o[y].buffer]
      BY <1>5, <2>1 DEF Alone
    <3>3. QED
      BY <3>1, <3>2 DEF Fits
  <2>2. QED
    BY <1>2, <1>3, <2>1
<1>8. ASSUME NEW k \in Blocks
      PROVE  Owned(p, g[k], k, k \in cs)
  <2>1. Owned(o, h[k], k, k \in cs)
    BY <1>1
  <2>2. ~Owns(p[x], k) /\ p[x].buffer # k
    BY <1>2, <1>3, <1>6 DEF Owns
  <2>3. CASE k = o[x].buffer /\ ~o[x].borrowed
    <3>1. g[k] = Unallocated /\ k # Null
      BY <1>6, <2>3
    <3>2. k \notin cs
      BY <2>1, <2>3 DEF Owned, Owns
    <3>3. \A y \in Buffers : p[y].buffer # k
      BY <1>3, <2>2, <2>3, <3>1 DEF Alone
    <3>4. QED
      BY <3>1, <3>2, <3>3 DEF Owned
  <2>4. CASE ~(k = o[x].buffer /\ ~o[x].borrowed)
    <3>1. g[k] = h[k] /\ ~Owns(o[x], k)
      BY <2>4 DEF Owns
    <3>2. \A y \in Buffers : Owns(p[y], k) <=> Owns(o[y], k)
      BY <1>3, <2>2, <3>1
    <3>3. \A y \in Buffers : p[y].buffer = k => o[y].buffer = k
      BY <1>3, <2>2
    <3>4. QED
      BY <2>1, <3>1, <3>2, <3>3 DEF Owned
  <2>5. QED
    BY <2>3, <2>4
<1>9. QED
  BY <1>1, <1>3, <1>4, <1>7, <1>8 DEF Good

\* The block of f was free.
Taken(h, f, g) ==
    /\ f.buffer \in Blocks /\ h[f.buffer] = Unallocated
    /\ \A k \in Blocks : k # f.buffer => g[k] = h[k]

\* The blocks cs with that of f, if it is lent.
LentTo(f, cs) == IF f.borrowed THEN cs \cup {f.buffer} ELSE cs

\* A buffer without a block gets one that was free, as its own or lent.
LEMMA GoodTake ==
    ASSUME NEW o, NEW h, NEW cs, Good(o, h, cs), NEW x \in Buffers, o[x] = Empty,
           NEW f, NEW g, Changed(f, g), Taken(h, f, g)
    PROVE  Good([o EXCEPT ![x] = f], g, LentTo(f, cs))
<1> DEFINE p  == [o EXCEPT ![x] = f]
           ds == IF f.borrowed THEN cs \cup {f.buffer} ELSE cs
<1>1. /\ f \in FieldSet /\ g \in [Blocks -> Mems] /\ Fits(f, g)
      /\ f.buffer \in Blocks /\ h[f.buffer] = Unallocated
      /\ \A k \in Blocks : k # f.buffer => g[k] = h[k]
  BY DEF Changed, Taken
<1> USE <1>1
<1>2. /\ o \in [Buffers -> FieldSet] /\ h \in [Blocks -> Mems] /\ cs \subseteq Blocks
      /\ \A y \in Buffers : Fits(o[y], h)
      /\ \A k \in Blocks : Owned(o, h[k], k, k \in cs)
  BY DEF Good
<1>3. Empty.buffer = Null
  BY DEF Empty
<1>4. /\ p \in [Buffers -> FieldSet] /\ p[x] = f
      /\ \A y \in Buffers : y # x => p[y] = o[y]
  BY <1>2
<1> HIDE DEF p
<1>5. \A y \in Buffers : o[y].buffer \in Blocks \cup {Null}
  BY <1>2 DEF FieldSet
<1>6. Null \notin Blocks
  BY DBufferAssumption DEF DBufferAssumption, Null
<1>7. f.buffer \notin cs /\ \A y \in Buffers : o[y].buffer # f.buffer
  BY <1>2 DEF Owned
<1>8. ASSUME NEW y \in Buffers
      PROVE  Fits(p[y], g)
  <2>1. CASE y # x
    <3>1. p[y] = o[y] /\ Fits(o[y], h)
      BY <1>2, <1>4, <2>1
    <3>2. o[y].buffer # Null => g[o[y].buffer] = h[o[y].buffer]
      BY <1>5, <1>7
    <3>3. QED
      BY <3>1, <3>2 DEF Fits
  <2>2. QED
    BY <1>4, <2>1
<1>9. g[f.buffer] # Unallocated
  <2>1. f.maxbuffer \in Nat \ {0} /\ g[f.buffer] \in MemOf(f.maxbuffer)
    BY <1>6 DEF Fits, FieldSet
  <2>2. QED
    BY <2>1, SomeMem
<1>10. ASSUME NEW k \in Blocks
      PROVE  Owned(p, g[k], k, k \in ds)
  <2>1. Owned(o, h[k], k, k \in cs)
    BY <1>2
  <2>2. CASE k = f.buffer
    <3>1. g[k] # Unallocated /\ (k \in ds <=> f.borrowed)
      BY <1>7, <1>9, <2>2
    <3>2. Owns(p[x], k) <=> ~f.borrowed
      BY <1>4, <2>2 DEF Owns
    <3>3. \A y \in Buffers : y # x => ~Owns(p[y], k)
      BY <1>4, <1>7, <2>2 DEF Owns
    <3>4. QED
      BY <3>1, <3>2, <3>3 DEF Owned
  <2>3. CASE k # f.buffer
    <3>1. g[k] = h[k] /\ (k \in ds <=> k \in cs)
      BY <2>3
    <3>2. p[x].buffer # k /\ ~Owns(p[x], k) /\ ~Owns(o[x], k)
      BY <1>3, <1>4, <1>6, <2>3 DEF Owns
    <3>3. \A y \in Buffers : Owns(p[y], k) <=> Owns(o[y], k)
      BY <1>4, <3>2
    <3>4. \A y \in Buffers : p[y].buffer = k => o[y].buffer = k
      BY <1>4, <3>2
    <3>5. QED
      BY <2>1, <3>1, <3>3, <3>4 DEF Owned
  <2>4. QED
    BY <2>2, <2>3
<1>11. ds \subseteq Blocks
  BY <1>2
<1>12. QED
  BY <1>2, <1>4, <1>7, <1>8, <1>10, <1>11 DEF Good, p, LentTo

\* The block that y must free.
Own(o, y) == IF o[y].borrowed THEN {} ELSE {o[y].buffer} \ {Null}

\* y becomes the owner of the block of x, which keeps showing it, and no buffer
\* that of what y owned.
LEMMA GoodAssign ==
    ASSUME NEW o, NEW h, NEW cs, Good(o, h, cs), NEW x \in Buffers, NEW y \in Buffers,
           NEW p, p = [o EXCEPT ![y] = o[x], ![x].borrowed = TRUE]
    PROVE  Good(p, h, cs \cup Own(o, y))
<1>1. /\ o \in [Buffers -> FieldSet] /\ h \in [Blocks -> Mems] /\ cs \subseteq Blocks
      /\ \A z \in Buffers : Fits(o[z], h)
      /\ \A k \in Blocks : Owned(o, h[k], k, k \in cs)
  BY DEF Good
<1> DEFINE f == [o[x] EXCEPT !.borrowed = TRUE]
<1>2. /\ f \in FieldSet /\ f.buffer = o[x].buffer /\ f.borrowed
      /\ f.begin = o[x].begin /\ f.end = o[x].end /\ f.maxbuffer = o[x].maxbuffer
  BY <1>1 DEF FieldSet
<1> HIDE DEF f
<1>3. p = [[o EXCEPT ![y] = o[x]] EXCEPT ![x] = f]
  BY <1>1 DEF f
<1>4. /\ p \in [Buffers -> FieldSet] /\ p[x] = f /\ (y # x => p[y] = o[x])
      /\ \A z \in Buffers : z # x /\ z # y => p[z] = o[z]
  BY <1>1, <1>2, <1>3
<1>5. ASSUME NEW z \in Buffers
      PROVE  Fits(p[z], h)
  <2>1. Fits(o[x], h) /\ Fits(o[z], h) /\ Fits(f, h)
    BY <1>1, <1>2 DEF Fits
  <2>2. QED
    BY <1>4, <2>1
<1>6. Null \notin Blocks
  BY DBufferAssumption DEF DBufferAssumption, Null
<1>7. ASSUME NEW k \in Blocks
      PROVE  Owned(p, h[k], k, k \in cs \cup Own(o, y))
  <2>1. Owned(o, h[k], k, k \in cs)
    BY <1>1
  <2>2. ~Owns(p[x], k) /\ (k \in Own(o, y) <=> Owns(o[y], k))
    BY <1>1, <1>2, <1>4, <1>6 DEF Owns, Own, FieldSet
  <2>3. y # x => (Owns(p[y], k) <=> Owns(o[x], k))
    BY <1>4
  <2>4. \A z \in Buffers : z # x /\ z # y => (Owns(p[z], k) <=> Owns(o[z], k))
    BY <1>4
  <2>5. (\A z \in Buffers : o[z].buffer # k) => \A z \in Buffers : p[z].buffer # k
    BY <1>2, <1>4
  <2>6. CASE h[k] = Unallocated
    <3>1. k \notin cs /\ (\A z \in Buffers : o[z].buffer # k)
      BY <2>1, <2>6 DEF Owned
    <3>2. k \notin Own(o, y)
      BY <2>2, <3>1 DEF Owns
    <3>3. QED
      BY <2>5, <2>6, <3>1, <3>2 DEF Owned
  <2>7. CASE h[k] # Unallocated /\ k \in cs
    <3>1. \A z \in Buffers : ~Owns(o[z], k)
      BY <2>1, <2>7 DEF Owned
    <3>2. \A z \in Buffers : ~Owns(p[z], k)
      BY <2>2, <2>3, <2>4, <3>1
    <3>3. QED
      BY <2>7, <3>2 DEF Owned
  <2>8. CASE h[k] # Unallocated /\ k \notin cs
    <3>1. PICK w \in Buffers : Owns(o[w], k) /\ \A z \in Buffers : Owns(o[z], k) => z = w
      BY <2>1, <2>8 DEF Owned
    <3>2. CASE w = y
      <4>1. \A z \in Buffers : ~Owns(p[z], k)
        BY <2>2, <2>3, <2>4, <3>1, <3>2
      <4>2. k \in Own(o, y)
        BY <2>2, <3>1, <3>2
      <4>3. QED
        BY <2>8, <4>1, <4>2 DEF Owned
    <3>3. CASE w = x /\ x # y
      <4>1. Owns(p[y], k) /\ \A z \in Buffers : Owns(p[z], k) => z = y
        BY <2>2, <2>3, <2>4, <3>1, <3>3
      <4>2. k \notin Own(o, y)
        BY <2>2, <3>1, <3>3
      <4>3. QED
        BY <2>8, <4>1, <4>2 DEF Owned
    <3>4. CASE w # x /\ w # y
      <4>1. Owns(p[w], k) /\ \A z \in Buffers : Owns(p[z], k) => z = w
        BY <2>2, <2>3, <2>4, <3>1, <3>4
      <4>2. k \notin Own(o, y)
        BY <2>2, <3>1, <3>4
      <4>3. QED
        BY <2>8, <4>1, <4>2 DEF Owned
    <3>5. QED
      BY <3>2, <3>3, <3>4
  <2>9. QED
    BY <2>6, <2>7, <2>8
<1>8. cs \cup Own(o, y) \subseteq Blocks
  BY <1>1 DEF Own, FieldSet
<1>9. QED
  BY <1>1, <1>4, <1>5, <1>7, <1>8 DEF Good

\* x, which has no block, takes that of y.
LEMMA GoodPass ==
    ASSUME NEW o, NEW h, NEW cs, Good(o, h, cs), NEW x \in Buffers, NEW y \in Buffers,
           x # y, o[x] = Empty,
           NEW p, p = [o EXCEPT ![x] = o[y], ![y] = Empty]
    PROVE  Good(p, h, cs)
<1>1. /\ o \in [Buffers -> FieldSet] /\ h \in [Blocks -> Mems] /\ cs \subseteq Blocks
      /\ \A z \in Buffers : Fits(o[z], h)
      /\ \A k \in Blocks : Owned(o, h[k], k, k \in cs)
  BY DEF Good
<1>2. Empty \in FieldSet /\ Empty.buffer = Null
  BY DEF Empty, FieldSet, Null
<1>3. /\ p \in [Buffers -> FieldSet] /\ p[x] = o[y] /\ p[y] = o[x]
      /\ \A z \in Buffers : z # x /\ z # y => p[z] = o[z]
  BY <1>1, <1>2
<1>4. ASSUME NEW z \in Buffers
      PROVE  Fits(p[z], h)
  BY <1>1, <1>3
<1>5. ASSUME NEW k \in Blocks
      PROVE  Owned(p, h[k], k, k \in cs)
  <2>1. Owned(o, h[k], k, k \in cs)
    BY <1>1
  <2>2. (\A z \in Buffers : o[z].buffer # k) => \A z \in Buffers : p[z].buffer # k
    BY <1>3
  <2>3. (\A z \in Buffers : ~Owns(o[z], k)) => \A z \in Buffers : ~Owns(p[z], k)
    BY <1>3
  <2>4. ASSUME NEW w \in Buffers, Owns(o[w], k), \A z \in Buffers : Owns(o[z], k) => z = w
        PROVE  \E v \in Buffers : Owns(p[v], k) /\ \A z \in Buffers : Owns(p[z], k) => z = v
    <3>1. w # x
      <4>1. Null \notin Blocks
        BY DBufferAssumption DEF DBufferAssumption, Null
      <4>2. QED
        BY <1>2, <2>4, <4>1 DEF Owns
    <3>2. CASE w = y
      <4>1. Owns(p[x], k) /\ \A z \in Buffers : Owns(p[z], k) => z = x
        BY <1>3, <2>4, <3>1, <3>2
      <4>2. QED
        BY <4>1
    <3>3. CASE w # y
      <4>1. Owns(p[w], k) /\ \A z \in Buffers : Owns(p[z], k) => z = w
        BY <1>3, <2>4, <3>1, <3>3
      <4>2. QED
        BY <4>1
    <3>4. QED
      BY <3>2, <3>3
  <2>5. QED
    BY <2>1, <2>2, <2>3, <2>4 DEF Owned
<1>6. QED
  BY <1>1, <1>3, <1>4, <1>5 DEF Good

\* A caller frees a block of its own that no buffer shows.
LEMMA GoodFree ==
    ASSUME NEW o, NEW h, NEW cs, Good(o, h, cs), NEW k \in cs,
           \A x \in Buffers : o[x].buffer # k,
           NEW g, g = [h EXCEPT ![k] = Unallocated]
    PROVE  Good(o, g, cs \ {k})
<1>1. /\ o \in [Buffers -> FieldSet] /\ h \in [Blocks -> Mems] /\ cs \subseteq Blocks
      /\ \A z \in Buffers : Fits(o[z], h)
      /\ \A j \in Blocks : Owned(o, h[j], j, j \in cs)
  BY DEF Good
<1>2. /\ g \in [Blocks -> Mems] /\ g[k] = Unallocated /\ k \in Blocks
      /\ \A j \in Blocks : j # k => g[j] = h[j]
  BY <1>1, NoMem
<1>3. ASSUME NEW x \in Buffers
      PROVE  Fits(o[x], g)
  <2>1. Fits(o[x], h) /\ o[x].buffer \in Blocks \cup {Null}
    BY <1>1 DEF FieldSet
  <2>2. o[x].buffer # Null => g[o[x].buffer] = h[o[x].buffer]
    BY <1>2, <2>1
  <2>3. QED
    BY <2>1, <2>2 DEF Fits
<1>4. ASSUME NEW j \in Blocks
      PROVE  Owned(o, g[j], j, j \in cs \ {k})
  <2>1. CASE j = k
    BY <1>2, <2>1 DEF Owned
  <2>2. CASE j # k
    <3>1. g[j] = h[j] /\ (j \in cs \ {k} <=> j \in cs) /\ Owned(o, h[j], j, j \in cs)
      BY <1>1, <1>2, <2>2
    <3>2. QED
      BY <3>1 DEF Owned
  <2>3. QED
    BY <2>1, <2>2
<1>5. QED
  BY <1>1, <1>2, <1>3, <1>4 DEF Good

GivenAway(o, h, x) ==
    [k \in Blocks |-> IF k = o[x].buffer THEN Fresh(o[x].maxbuffer) ELSE h[k]]

\* The block of x becomes a caller's, with whatever is in it.
LEMMA GoodDetach ==
    ASSUME NEW o, NEW h, NEW cs, Good(o, h, cs), NEW x \in Buffers,
           ~o[x].borrowed, Alone(o, x)
    PROVE  Good([o EXCEPT ![x] = Empty], GivenAway(o, h, x), cs \cup ({o[x].buffer} \ {Null}))
<1> DEFINE g  == GivenAway(o, h, x)
           p  == [o EXCEPT ![x] = Empty]
           ds == cs \cup ({o[x].buffer} \ {Null})
<1> USE DEF GivenAway
<1>1. /\ o \in [Buffers -> FieldSet] /\ h \in [Blocks -> Mems] /\ cs \subseteq Blocks
      /\ \A z \in Buffers : Fits(o[z], h)
      /\ \A k \in Blocks : Owned(o, h[k], k, k \in cs)
  BY DEF Good
<1>2. Empty \in FieldSet /\ Empty.buffer = Null /\ Fits(Empty, g)
  BY DEF Empty, FieldSet, Fits, Null
<1>3. /\ p \in [Buffers -> FieldSet] /\ p[x] = Empty
      /\ \A y \in Buffers : y # x => p[y] = o[y]
  BY <1>1, <1>2
<1>4. /\ o[x].maxbuffer \in Nat
      /\ \A y \in Buffers : o[y].buffer \in Blocks \cup {Null}
  BY <1>1 DEF FieldSet
<1>5. Null \notin Blocks
  BY DBufferAssumption DEF DBufferAssumption, Null
<1>6. Fresh(o[x].maxbuffer) \in MemOf(o[x].maxbuffer) /\ Fresh(o[x].maxbuffer) \in Mems
  BY <1>4, FreshMem
<1>7. g \in [Blocks -> Mems] /\ ds \subseteq Blocks
  BY <1>1, <1>4, <1>6
<1>8. ASSUME NEW y \in Buffers
      PROVE  Fits(p[y], g)
  <2>1. CASE y # x
    <3>1. p[y] = o[y] /\ Fits(o[y], h)
      BY <1>1, <1>3, <2>1
    <3>2. o[y].buffer # Null => g[o[y].buffer] = h[o[y].buffer]
      BY <1>4, <2>1 DEF Alone
    <3>3. QED
      BY <3>1, <3>2 DEF Fits
  <2>2. QED
    BY <1>2, <1>3, <2>1
<1>9. ASSUME NEW k \in Blocks
      PROVE  Owned(p, g[k], k, k \in ds)
  <2>1. Owned(o, h[k], k, k \in cs)
    BY <1>1
  <2>2. ~Owns(p[x], k) /\ p[x].buffer # k
    BY <1>2, <1>3, <1>5 DEF Owns
  <2>3. CASE k = o[x].buffer
    <3>1. o[x].maxbuffer \in Nat \ {0} /\ k \in ds
      BY <1>1, <1>4, <1>5, <2>3 DEF Fits
    <3>2. g[k] = Fresh(o[x].maxbuffer)
      BY <2>3
    <3>3. g[k] # Unallocated
      BY <1>6, <3>1, <3>2, SomeMem
    <3>4. \A y \in Buffers : ~Owns(p[y], k)
      BY <1>3, <1>5, <2>2, <2>3 DEF Alone, Owns
    <3>5. k \notin cs
      BY <2>1, <2>3 DEF Owned, Owns
    <3>6. QED
      BY <3>1, <3>3, <3>4, <3>5 DEF Owned
  <2>4. CASE k # o[x].buffer
    <3>1. g[k] = h[k] /\ ~Owns(o[x], k) /\ (k \in ds <=> k \in cs)
      BY <2>4 DEF Owns
    <3>2. \A y \in Buffers : Owns(p[y], k) <=> Owns(o[y], k)
      BY <1>3, <2>2, <3>1
    <3>3. \A y \in Buffers : p[y].buffer = k => o[y].buffer = k
      BY <1>3, <2>2
    <3>4. QED
      BY <2>1, <3>1, <3>2, <3>3 DEF Owned
  <2>5. QED
    BY <2>3, <2>4
<1>10. QED
  BY <1>1, <1>3, <1>7, <1>8, <1>9 DEF Good

\* A block that was free is taken, and no buffer has it.
LEMMA GoodForgotten ==
    ASSUME NEW o, NEW h, NEW cs, Good(o, h, cs), NEW k \in Blocks, h[k] = Unallocated,
           NEW n \in Nat \ {0}, NEW m \in MemOf(n), NEW g, g = [h EXCEPT ![k] = m]
    PROVE  Good(o, g, cs \cup {k})
<1>1. /\ o \in [Buffers -> FieldSet] /\ h \in [Blocks -> Mems] /\ cs \subseteq Blocks
      /\ \A z \in Buffers : Fits(o[z], h)
      /\ \A j \in Blocks : Owned(o, h[j], j, j \in cs)
  BY DEF Good
<1>2. m # Unallocated /\ m \in Mems
  BY SomeMem
<1>3. /\ g \in [Blocks -> Mems] /\ g[k] = m
      /\ \A j \in Blocks : j # k => g[j] = h[j]
  BY <1>1, <1>2
<1>4. k \notin cs /\ \A z \in Buffers : o[z].buffer # k
  BY <1>1 DEF Owned
<1>5. ASSUME NEW z \in Buffers
      PROVE  Fits(o[z], g)
  <2>1. Fits(o[z], h) /\ o[z].buffer \in Blocks \cup {Null}
    BY <1>1 DEF FieldSet
  <2>2. o[z].buffer # Null => g[o[z].buffer] = h[o[z].buffer]
    BY <1>3, <1>4, <2>1
  <2>3. QED
    BY <2>1, <2>2 DEF Fits
<1>6. ASSUME NEW j \in Blocks
      PROVE  Owned(o, g[j], j, j \in cs \cup {k})
  <2>1. CASE j = k
    BY <1>2, <1>3, <1>4, <2>1 DEF Owned, Owns
  <2>2. CASE j # k
    <3>1. g[j] = h[j] /\ (j \in cs \cup {k} <=> j \in cs) /\ Owned(o, h[j], j, j \in cs)
      BY <1>1, <1>3, <2>2
    <3>2. QED
      BY <3>1 DEF Owned
  <2>3. QED
    BY <2>1, <2>2
<1>7. QED
  BY <1>1, <1>3, <1>5, <1>6 DEF Good

-----------------------------------------------------------------------------
(* A call on one buffer. *)

\* The blocks that no buffer must free.
Held == callers \cup Lost

IndInv == Good(obj, heap, Held) /\ UnusedBlocks(heap) # {}

\* The step makes Held, and nothing else, of the blocks E.
Leaves(E) == Good(obj', heap', E)

\* It loses no block.
StepGood == Leaves(Held)

\* The record a call works on.
LEMMA AtSound ==
    ASSUME Good(obj, heap, Held), NEW x \in Buffers
    PROVE  /\ Sound(At(x)) /\ At(x).heap = heap /\ Cur(At(x)) = Cur(obj[x])
           /\ At(x).buffer = obj[x].buffer /\ At(x).maxbuffer = obj[x].maxbuffer
           /\ At(x).begin = obj[x].begin /\ At(x).end = obj[x].end
           /\ At(x).borrowed = obj[x].borrowed
<1>1. obj[x] \in FieldSet /\ heap \in [Blocks -> Mems] /\ Fits(obj[x], heap)
  BY DEF Good
<1>2. /\ At(x) \in Bufs /\ At(x).heap = heap
      /\ At(x).buffer = obj[x].buffer /\ At(x).maxbuffer = obj[x].maxbuffer
      /\ At(x).begin = obj[x].begin /\ At(x).end = obj[x].end
      /\ At(x).borrowed = obj[x].borrowed
  BY <1>1 DEF At, FieldSet, Bufs
<1>3. Sound(At(x))
  BY <1>1, <1>2 DEF Fits, Sound, Backed
<1>4. QED
  BY <1>2, <1>3 DEF Cur

\* And the fields it leaves.
LEMMA FieldsFit ==
    ASSUME NEW b, Sound(b), NEW g \in [Blocks -> Mems],
           b.buffer # Null => g[b.buffer] \in MemOf(b.maxbuffer)
    PROVE  /\ Fields(b) \in FieldSet /\ Fits(Fields(b), g)
           /\ Fields(b).buffer = b.buffer /\ Fields(b).borrowed = b.borrowed
<1>1. b \in Bufs
  BY SoundFields
<1>2. /\ Fields(b) \in FieldSet
      /\ Fields(b).buffer = b.buffer /\ Fields(b).borrowed = b.borrowed
      /\ Fields(b).begin = b.begin /\ Fields(b).end = b.end
      /\ Fields(b).maxbuffer = b.maxbuffer
  BY <1>1 DEF Fields, FieldSet, Bufs
<1>3. /\ b.begin <= b.end /\ b.end <= b.maxbuffer
      /\ b.buffer = Null <=> b.maxbuffer = 0
  BY DEF Sound, Backed
<1>4. QED
  BY <1>2, <1>3 DEF Fits

\* Forgetting the bytes around the data leaves the block its size.
LEMMA TidiedHeap ==
    ASSUME NEW b, Sound(b), b.buffer # Null
    PROVE  /\ Tidied(b).heap \in [Blocks -> Mems]
           /\ Tidied(b).heap[b.buffer] \in MemOf(b.maxbuffer)
           /\ \A k \in Blocks : k # b.buffer => Tidied(b).heap[k] = b.heap[k]
<1> DEFINE old == b.heap[b.buffer]
           m == [i \in DOMAIN old |-> IF i \in Zone(old, b.begin, Cur(b)) THEN old[i] ELSE Junk]
<1>1. /\ b \in Bufs /\ b.maxbuffer \in Nat /\ b.buffer \in Blocks
      /\ b.heap \in [Blocks -> Mems] /\ old \in MemOf(b.maxbuffer)
  BY DEF Sound, Backed, Bufs
<1>2. m \in MemOf(b.maxbuffer)
  <2> HIDE DEF old
  <2>1. Junk \in Bytes
    BY DBufferAssumption DEF DBufferAssumption
  <2>2. QED
    BY <1>1, <2>1 DEF MemOf
<1>3. Tidied(b) = [b EXCEPT !.heap[b.buffer] = m]
  BY DEF Tidied
<1> HIDE DEF m
<1>4. m \in Mems
  BY <1>1, <1>2 DEF Mems
<1>5. Tidied(b).heap = [b.heap EXCEPT ![b.buffer] = m]
  BY <1>1, <1>3 DEF Bufs
<1>6. QED
  BY <1>1, <1>2, <1>4, <1>5

\* What a call leaves behind.
LEMMA DoneHeap ==
    ASSUME NEW x \in Buffers, NEW b, Sound(b), NEW c, Done(x, b, c)
    PROVE  /\ obj' = [obj EXCEPT ![x] = Fields(b)]
           /\ heap' \in [Blocks -> Mems]
           /\ b.buffer # Null => heap'[b.buffer] \in MemOf(b.maxbuffer)
           /\ \A k \in Blocks : k # b.buffer => heap'[k] = b.heap[k]
           /\ b.borrowed \/ Others(x, b.buffer) # {} => heap' = b.heap
<1>1. obj' = [obj EXCEPT ![x] = Fields(b)]
  BY DEF Done
<1>2. CASE b.buffer = Null \/ b.borrowed \/ Others(x, b.buffer) # {}
  <2>1. heap' = b.heap
    BY <1>2 DEF Done
  <2>2. b.heap \in [Blocks -> Mems] /\ (b.buffer # Null => b.heap[b.buffer] \in MemOf(b.maxbuffer))
    BY DEF Sound, Backed, Bufs
  <2>3. QED
    BY <1>1, <2>1, <2>2
<1>3. CASE ~(b.buffer = Null \/ b.borrowed \/ Others(x, b.buffer) # {})
  <2>1. heap' = Tidied(b).heap
    BY <1>3 DEF Done
  <2>2. QED
    BY <1>1, <1>3, <2>1, TidiedHeap
<1>4. QED
  BY <1>2, <1>3

\* Both say that no other buffer has the block of x.
LEMMA AloneShares ==
    ASSUME NEW x \in Buffers
    PROVE  Alone(obj, x) <=> Sharing(x) = {}
  BY DEF Alone, Sharing, Others

\* The call works in the block of the buffer.
LEMMA WriteStep ==
    ASSUME IndInv, NEW x \in Buffers, NEW b, Sound(b), Writes(At(x), b),
           Sharing(x) = {} \/ b.heap = heap,
           NEW c, Done(x, b, c)
    PROVE  StepGood
<1> DEFINE f == Fields(b)
<1>1. Good(obj, heap, Held)
  BY DEF IndInv
<1>2. /\ At(x).heap = heap /\ At(x).buffer = obj[x].buffer /\ At(x).borrowed = obj[x].borrowed
  BY <1>1, AtSound
<1>3. /\ obj' = [obj EXCEPT ![x] = f] /\ heap' \in [Blocks -> Mems]
      /\ b.buffer # Null => heap'[b.buffer] \in MemOf(b.maxbuffer)
      /\ \A k \in Blocks : k # b.buffer => heap'[k] = b.heap[k]
      /\ b.borrowed \/ Others(x, b.buffer) # {} => heap' = b.heap
  BY DoneHeap
<1>4. f \in FieldSet /\ Fits(f, heap') /\ f.buffer = b.buffer /\ f.borrowed = b.borrowed
  BY <1>3, FieldsFit
<1> HIDE DEF f
<1>5. Changed(f, heap')
  BY <1>3, <1>4 DEF Changed
<1>6. Written(obj, heap, x, f, heap')
  <2>1. f.buffer = obj[x].buffer /\ (f.borrowed <=> obj[x].borrowed)
    BY <1>2, <1>4 DEF Writes
  <2>2. \A k \in Blocks : k # f.buffer => heap'[k] = heap[k]
    BY <1>2, <1>3, <1>4 DEF Writes
  <2>3. ASSUME ~Alone(obj, x)
        PROVE  heap' = heap
    <3>1. Sharing(x) # {}
      BY <2>3, AloneShares
    <3>2. Others(x, b.buffer) # {}
      BY <1>4, <2>1, <3>1 DEF Sharing
    <3>3. b.heap = heap
      BY <3>1
    <3>4. QED
      BY <1>3, <3>2, <3>3
  <2>4. QED
    BY <2>1, <2>2, <2>3 DEF Written
<1>7. Good([obj EXCEPT ![x] = f], heap', Held)
  BY ONLY <1>1, <1>5, <1>6, GoodWrite, x \in Buffers
<1>8. QED
  BY <1>3, <1>7 DEF StepGood, Leaves

\* The buffer takes a new block.
LEMMA RenewStep ==
    ASSUME IndInv, NEW x \in Buffers, NEW b, Sound(b), Renews(At(x), b),
           obj[x].borrowed \/ Sharing(x) = {},
           NEW c, Done(x, b, c)
    PROVE  StepGood
<1> DEFINE f == Fields(b)
           g == Freed(At(x))
           p == [obj EXCEPT ![x] = Empty]
<1>1. Good(obj, heap, Held)
  BY DEF IndInv
<1>2. /\ At(x).heap = heap /\ At(x).buffer = obj[x].buffer /\ At(x).borrowed = obj[x].borrowed
  BY <1>1, AtSound
<1>3. /\ obj' = [obj EXCEPT ![x] = f] /\ heap' \in [Blocks -> Mems]
      /\ b.buffer # Null => heap'[b.buffer] \in MemOf(b.maxbuffer)
      /\ \A k \in Blocks : k # b.buffer => heap'[k] = b.heap[k]
  BY DoneHeap
<1>4. f \in FieldSet /\ Fits(f, heap') /\ f.buffer = b.buffer /\ f.borrowed = b.borrowed
  BY <1>3, FieldsFit
<1> HIDE DEF f
<1>5. g = [k \in Blocks |-> IF k = obj[x].buffer /\ ~obj[x].borrowed THEN Unallocated ELSE heap[k]]
  BY <1>2 DEF Freed
<1>6. obj[x].borrowed \/ Alone(obj, x)
  BY AloneShares
<1>7. Good(p, g, Held)
  <2> HIDE DEF g, p
  <2>1. QED
    BY <1>1, <1>5, <1>6, GoodRelease DEF p
<1>8. /\ f.buffer \in Blocks /\ heap[f.buffer] = Unallocated /\ ~f.borrowed
      /\ \A k \in Blocks : k # f.buffer => heap'[k] = g[k]
  BY <1>2, <1>3, <1>4 DEF Renews, UnusedBlocks
<1>9. g[f.buffer] = Unallocated
  BY <1>5, <1>8
<1>10. p[x] = Empty /\ [p EXCEPT ![x] = f] = [obj EXCEPT ![x] = f]
  BY <1>1 DEF Good
<1> HIDE DEF p, g
<1>11. Changed(f, heap') /\ Taken(g, f, heap')
  BY <1>3, <1>4, <1>8, <1>9 DEF Changed, Taken
<1>12. Good([p EXCEPT ![x] = f], heap', LentTo(f, Held))
  <2>1. Good(p, g, Held) /\ p[x] = Empty
    BY <1>7, <1>10
  <2>2. QED
    BY ONLY <1>11, <2>1, GoodTake, x \in Buffers
<1>13. QED
  BY <1>3, <1>8, <1>10, <1>12 DEF LentTo, StepGood, Leaves

\* A call that needed room, whose caller kept what it owes.
LEMMA GrowsStep ==
    ASSUME IndInv, Careful, NEW x \in Buffers, NEW b, NEW room \in BOOLEAN,
           Grows(At(x), b, room), MayChange(x, room),
           NEW c, Done(x, b, c)
    PROVE  StepGood
<1>1. CASE room
  <2>1. Sharing(x) = {}
    BY <1>1 DEF MayChange
  <2>2. Sound(b) /\ Writes(At(x), b)
    BY <1>1 DEF Grows
  <2>3. QED
    BY <2>1, <2>2, WriteStep
<1>2. CASE ~room
  <2>1. obj[x].borrowed \/ Sharing(x) = {}
    BY <1>2 DEF MayChange
  <2>2. Sound(b) /\ Renews(At(x), b)
    BY <1>2 DEF Grows
  <2>3. QED
    BY <2>1, <2>2, RenewStep
<1>3. QED
  BY <1>1, <1>2

\* A call that writes nothing.
LEMMA KeepsStep ==
    ASSUME IndInv, NEW x \in Buffers, NEW b, Keeps(At(x), b),
           NEW c, Done(x, b, c)
    PROVE  StepGood
<1>1. At(x).heap = heap
  BY AtSound DEF IndInv
<1>2. Sound(b) /\ Writes(At(x), b) /\ b.heap = heap
  BY <1>1 DEF Keeps
<1>3. QED
  BY <1>2, WriteStep

-----------------------------------------------------------------------------
(* The calls. *)

\* Before a call the buffer is sound and there is memory.
LEMMA AtReady ==
    ASSUME IndInv, NEW x \in Buffers
    PROVE  Sound(At(x)) /\ UnusedBlocks(At(x).heap) # {}
  BY AtSound DEF IndInv

\* The record of a call has the fields of the buffer.
LEMMA AtFields ==
    ASSUME IndInv, NEW x \in Buffers
    PROVE  /\ Cur(At(x)) = Cur(obj[x]) /\ Cur(obj[x]) \in Nat
           /\ At(x).buffer = obj[x].buffer /\ At(x).maxbuffer = obj[x].maxbuffer
           /\ At(x).begin = obj[x].begin /\ At(x).end = obj[x].end
           /\ At(x).borrowed = obj[x].borrowed
<1>1. Sound(At(x)) /\ Cur(At(x)) = Cur(obj[x])
  BY AtSound DEF IndInv
<1>2. Cur(At(x)) \in Nat
  BY <1>1, SoundFields
<1>3. QED
  BY <1>1, <1>2, AtSound DEF IndInv

\* A member function that makes room for size bytes, which are then filled.
LEMMA FilledStep ==
    ASSUME IndInv, Careful, NEW x \in Buffers, NEW size \in Nat, NEW v \in Bytes,
           NEW b, Grows(At(x), b, At(x).maxbuffer - Cur(At(x)) >= size),
           Cur(b) = Cur(At(x)) + size, NEW off \in Nat, off <= Cur(At(x)),
           MayChange(x, InPlace(x, size)),
           NEW c, Done(x, Filled(b, off, size, v), c)
    PROVE  StepGood
<1> DEFINE room == InPlace(x, size)
           d    == Filled(b, off, size, v)
<1>1. room \in BOOLEAN /\ Grows(At(x), b, room)
  BY AtFields DEF InPlace
<1>2. off + size <= Cur(b)
  BY AtFields
<1> HIDE DEF room, d
<1>3. Grows(At(x), d, room)
  BY <1>1, <1>2, FilledGrows DEF d
<1>4. MayChange(x, room) /\ Done(x, d, c)
  BY DEF room, d
<1>5. QED
  BY <1>1, <1>3, <1>4, GrowsStep

\* Each call in turn: fromBegin and the bytes of the caller,
LEMMA PrependStep ==
    ASSUME IndInv, Careful, NEW x \in Buffers, NEW size \in Nat, NEW v \in Bytes,
           CallPrepend(x, size, v)
    PROVE  StepGood
<1> DEFINE b == FromBegin(At(x), size)
<1>1. At(x).maxbuffer - Cur(At(x)) >= size => At(x).begin = 0 \/ At(x).begin >= size
  BY AtFields DEF CallPrepend, OwedFromBegin, InPlace
<1>2. Grows(At(x), b, At(x).maxbuffer - Cur(At(x)) >= size) /\ Cur(b) = Cur(At(x)) + size
  BY <1>1, AtReady, FromBeginGrows
<1>3. /\ MayChange(x, InPlace(x, size))
      /\ Done(x, Filled(b, 0, size, v), Inserted(x, 0, size, v))
  BY DEF CallPrepend, OwedFromBegin
<1> HIDE DEF b
<1>4. 0 \in Nat /\ 0 <= Cur(At(x))
  BY AtFields
<1>5. QED
  BY <1>2, <1>3, <1>4, FilledStep

\* fromEnd and the bytes of the caller,
LEMMA AppendStep ==
    ASSUME IndInv, Careful, NEW x \in Buffers, NEW size \in Nat, NEW v \in Bytes,
           CallAppend(x, size, v)
    PROVE  StepGood
<1> DEFINE b   == FromEnd(At(x), size)
           cur == Cur(obj[x])
<1>1. Grows(At(x), b, At(x).maxbuffer - Cur(At(x)) >= size) /\ Cur(b) = Cur(At(x)) + size
  BY AtReady, FromEndGrows
<1>2. /\ MayChange(x, InPlace(x, size))
      /\ Done(x, Filled(b, cur, size, v), Inserted(x, cur, size, v))
  BY DEF CallAppend
<1>3. cur \in Nat /\ cur <= Cur(At(x))
  BY AtFields
<1> HIDE DEF b, cur
<1>4. QED
  BY <1>1, <1>2, <1>3, FilledStep

\* fromMiddle and the bytes of the caller,
LEMMA MiddleStep ==
    ASSUME IndInv, Careful, NEW x \in Buffers, NEW start \in Nat, NEW size \in Nat,
           NEW v \in Bytes, InsertMiddle(x, start, size, v)
    PROVE  StepGood
<1> DEFINE b  == FromMiddle(At(x), start, size)
           at == Min({start, Cur(obj[x])})
<1>1. \/ At(x).maxbuffer - Cur(At(x)) < size \/ start >= Cur(At(x))
      \/ At(x).maxbuffer - At(x).end >= size
      \/ At(x).maxbuffer = At(x).end /\ start + size >= Cur(At(x))
  <2>1. LET o == obj[x] IN
        \/ ~InPlace(x, size) \/ start >= Cur(o)
        \/ o.maxbuffer - o.end >= size
        \/ o.maxbuffer = o.end /\ start + size >= Cur(o)
    BY DEF InsertMiddle, OwedFromMiddle
  <2>2. /\ Cur(At(x)) = Cur(obj[x]) /\ At(x).maxbuffer = obj[x].maxbuffer
        /\ At(x).end = obj[x].end
    BY AtFields
  <2>3. obj[x].maxbuffer \in Nat /\ Cur(obj[x]) \in Nat
    BY <2>2, AtReady, AtFields, SoundFields
  <2>4. InPlace(x, size) <=> obj[x].maxbuffer - Cur(obj[x]) >= size
    BY DEF InPlace
  <2>5. QED
    BY <2>1, <2>2, <2>3, <2>4
<1>2. Grows(At(x), b, At(x).maxbuffer - Cur(At(x)) >= size) /\ Cur(b) = Cur(At(x)) + size
  BY <1>1, AtReady, FromMiddleGrows
<1>3. /\ MayChange(x, InPlace(x, size))
      /\ Done(x, Filled(b, at, size, v), Inserted(x, at, size, v))
  BY DEF InsertMiddle, OwedFromMiddle
<1>4. at \in Nat /\ at <= Cur(At(x))
  <2>1. start \in Int /\ Cur(obj[x]) \in Int /\ Cur(obj[x]) \in Nat /\ Cur(At(x)) = Cur(obj[x])
    BY AtFields
  <2>2. at \in {start, Cur(obj[x])} /\ at <= Cur(obj[x])
    BY <2>1, MinOfTwo
  <2> HIDE DEF at
  <2>3. QED
    BY <2>1, <2>2
<1> HIDE DEF b, at
<1>5. QED
  BY <1>2, <1>3, <1>4, FilledStep

\* removeMiddle,
LEMMA RemoveMiddleStep ==
    ASSUME IndInv, Careful, NEW x \in Buffers, NEW start \in Nat, NEW size \in Nat,
           CallRemoveMiddle(x, start, size)
    PROVE  StepGood
<1> DEFINE b == RemoveMiddle(At(x), start, size)
<1>1. /\ start + size <= Cur(At(x)) => Grows(At(x), b, TRUE)
      /\ ~(start + size <= Cur(At(x))) => Keeps(At(x), b)
  BY AtReady, RemoveMiddleGrows
<1>2. /\ start + size <= Cur(At(x)) => MayChange(x, TRUE)
      /\ \E c : Done(x, b, c)
  BY AtFields DEF CallRemoveMiddle
<1> HIDE DEF b
<1>3. CASE start + size <= Cur(At(x))
  BY <1>1, <1>2, <1>3, GrowsStep
<1>4. CASE ~(start + size <= Cur(At(x)))
  BY <1>1, <1>2, <1>4, KeepsStep
<1>5. QED
  BY <1>3, <1>4

\* moveData,
LEMMA MoveDataStep ==
    ASSUME IndInv, Careful, NEW x \in Buffers,
           NEW start \in Nat, NEW size \in Nat, NEW to \in Nat,
           CallMoveData(x, start, size, to)
    PROVE  StepGood
<1> DEFINE b == MoveData(At(x), start, size, to)
           m == Moves(At(x), start, size, to)
<1>1. \E c : Done(x, b, c)
  BY DEF CallMoveData
<1>2. m => /\ MayChange(x, TRUE) /\ start + size <= Cur(At(x))
           /\ At(x).maxbuffer - At(x).end >= IF to < start THEN start - to ELSE size
  <2>1. m => /\ MayChange(x, TRUE) /\ start + size <= Cur(obj[x])
             /\ obj[x].maxbuffer - obj[x].end >= IF to < start THEN start - to ELSE size
    BY DEF CallMoveData, OwedMoveData
  <2>2. /\ At(x).maxbuffer = obj[x].maxbuffer /\ At(x).end = obj[x].end
        /\ Cur(At(x)) = Cur(obj[x])
    BY AtFields
  <2> HIDE DEF m
  <2>3. QED
    BY <2>1, <2>2
<1>3. Grows(At(x), b, TRUE) /\ (~m => b = At(x))
  BY <1>1, <1>2, AtReady, MoveDataWrites
<1> HIDE DEF b, m
<1>4. CASE m
  BY <1>1, <1>2, <1>3, <1>4, GrowsStep
<1>5. CASE ~m
  <2>1. Keeps(At(x), b)
    BY <1>3, <1>5, AtReady, KeepsItself
  <2>2. QED
    BY <1>1, <2>1, KeepsStep
<1>6. QED
  BY <1>4, <1>5

\* resize,
LEMMA ResizeStep ==
    ASSUME IndInv, Careful, NEW x \in Buffers, NEW size \in Nat, NEW reserved \in Nat,
           CallResize(x, size, reserved)
    PROVE  StepGood
<1> DEFINE b    == ResizeTo(At(x), size, reserved)
           room == obj[x].maxbuffer >= size
<1>1. /\ size <= Cur(At(x)) => Keeps(At(x), b)
      /\ size > Cur(At(x)) => Grows(At(x), b, At(x).maxbuffer >= size)
  BY AtReady, ResizeGrows
<1>2. \E c : Done(x, b, c)
  BY DEF CallResize
<1> HIDE DEF b
<1>3. Cur(At(x)) = Cur(obj[x]) /\ Cur(obj[x]) \in Nat /\ At(x).maxbuffer = obj[x].maxbuffer
  BY AtFields
<1>4. CASE size <= Cur(obj[x])
  BY <1>1, <1>2, <1>3, <1>4, KeepsStep
<1>5. CASE size > Cur(obj[x])
  <2>1. MayChange(x, room) /\ room \in BOOLEAN
    BY <1>5 DEF CallResize, OwedResize
  <2>2. Grows(At(x), b, room)
    BY <1>1, <1>3, <1>5
  <2> HIDE DEF room
  <2>3. QED
    BY <1>2, <2>1, <2>2, GrowsStep
<1>6. QED
  BY <1>3, <1>4, <1>5

\* reserve and the constructor with a size,
LEMMA ReserveStep ==
    ASSUME IndInv, Careful, NEW x \in Buffers, NEW size \in Nat,
           CallReserve(x, size)
    PROVE  StepGood
<1> DEFINE b == Reserve(At(x), size)
<1>1. /\ At(x).maxbuffer >= size => Keeps(At(x), b)
      /\ ~(At(x).maxbuffer >= size) => Grows(At(x), b, FALSE)
  BY AtReady, ReserveGrows
<1>2. MayChange(x, FALSE) /\ \E c : Done(x, b, c)
  BY DEF CallReserve
<1> HIDE DEF b
<1>3. QED
  BY <1>1, <1>2, KeepsStep, GrowsStep

\* reallocate,
LEMMA ReallocateStep ==
    ASSUME IndInv, Careful, NEW x \in Buffers,
           NEW newsize \in Nat, NEW before \in Nat, NEW after \in Nat,
           CallReallocate(x, newsize, before, after)
    PROVE  StepGood
<1> DEFINE b    == Reallocate(At(x), newsize, before, after)
           room == obj[x].buffer # Null /\ obj[x].maxbuffer >= newsize + before + after
<1>1. Grows(At(x), b, At(x).buffer # Null /\ At(x).maxbuffer >= newsize + before + after)
  BY AtReady, ReallocateGrows
<1>2. MayChange(x, room) /\ room \in BOOLEAN /\ \E c : Done(x, b, c)
  BY DEF CallReallocate, OwedReallocate
<1> HIDE DEF b
<1>3. At(x).buffer = obj[x].buffer /\ At(x).maxbuffer = obj[x].maxbuffer
  BY AtFields
<1>4. Grows(At(x), b, room)
  BY <1>1, <1>3
<1> HIDE DEF room
<1>5. QED
  BY <1>2, <1>4, GrowsStep

\* c_str,
LEMMA CStrStep ==
    ASSUME IndInv, Careful, NEW x \in Buffers, NEW v \in Bytes, CStr(x, v)
    PROVE  StepGood
<1> DEFINE b == At(x)
           d == [b EXCEPT !.heap[b.buffer][b.end] = v]
<1>1. Sound(b)
  BY AtReady
<1>2. CASE b.buffer = Null
  <2>1. \E c : Done(x, b, c)
    BY <1>2 DEF CStr
  <2>2. Keeps(At(x), b)
    BY <1>1, KeepsItself
  <2>3. QED
    BY <2>1, <2>2, KeepsStep
<1>3. CASE b.buffer # Null
  <2>1. b.end < b.maxbuffer /\ MayChange(x, TRUE) /\ \E c : Done(x, d, c)
    BY <1>3, AtFields DEF CStr, OwedCStr
  <2>2. Grows(At(x), d, TRUE)
    BY <1>1, <1>3, <2>1, CStrWrites
  <2> HIDE DEF d
  <2>3. QED
    BY <2>1, <2>2, GrowsStep
<1>4. QED
  BY <1>2, <1>3

\* clear, setUnusedUpper, removeBegin and removeEnd.
LEMMA SmallSteps ==
    ASSUME IndInv, Careful, NEW x \in Buffers
    PROVE  /\ Clear(x) => StepGood
           /\ SetUnusedUpper(x) => StepGood
           /\ \A n \in Nat : CallRemoveBegin(x, n) \/ CallRemoveEnd(x, n) => StepGood
<1>1. Sound(At(x)) /\ At(x) \in Bufs
  BY AtReady, SoundFields
<1>2. ASSUME Clear(x)
      PROVE  StepGood
  <2> DEFINE b == [At(x) EXCEPT !.begin = 0, !.end = 0]
  <2>1. \E c : Done(x, b, c)
    BY <1>2 DEF Clear
  <2>2. b = Spanning(At(x), 0, 0)
    BY DEF Spanning
  <2>3. 0 \in Nat /\ 0 <= 0 /\ 0 <= At(x).maxbuffer
    BY <1>1, SoundFields
  <2> HIDE DEF b
  <2>4. Keeps(At(x), b)
    BY <1>1, <2>2, <2>3, SpanningKeeps
  <2>5. QED
    BY <2>1, <2>4, KeepsStep
<1>3. ASSUME SetUnusedUpper(x)
      PROVE  StepGood
  <2> DEFINE b == [At(x) EXCEPT !.borrowed = FALSE]
  <2>1. ~obj[x].borrowed /\ \E c : Done(x, b, c)
    BY <1>3 DEF SetUnusedUpper
  <2>2. At(x).borrowed = FALSE
    BY <1>1, <2>1, AtFields DEF Bufs
  <2>3. b = At(x)
    BY <1>1, <2>2 DEF Bufs
  <2> HIDE DEF b
  <2>4. Keeps(At(x), b)
    BY <1>1, <2>3, KeepsItself
  <2>5. QED
    BY <2>1, <2>4, KeepsStep
<1>4. ASSUME NEW n \in Nat, CallRemoveBegin(x, n)
      PROVE  StepGood
  <2> DEFINE b == RemoveBegin(At(x), n)
  <2>1. Keeps(At(x), b) /\ \E c : Done(x, b, c)
    BY <1>1, <1>4, RemoveBeginKeeps DEF CallRemoveBegin
  <2> HIDE DEF b
  <2>2. QED
    BY <2>1, KeepsStep
<1>5. ASSUME NEW n \in Nat, CallRemoveEnd(x, n)
      PROVE  StepGood
  <2> DEFINE b == RemoveEnd(At(x), n)
  <2>1. Keeps(At(x), b) /\ \E c : Done(x, b, c)
    BY <1>1, <1>5, RemoveEndKeeps DEF CallRemoveEnd
  <2> HIDE DEF b
  <2>2. QED
    BY <2>1, KeepsStep
<1>6. QED
  BY <1>2, <1>3, <1>4, <1>5

-----------------------------------------------------------------------------
(* Handing over. *)

\* A released buffer is an empty one.
LEMMA ReleasedFields ==
    ASSUME NEW b \in Bufs
    PROVE  /\ Fields(Released(b)) = Empty /\ Released(b).buffer = Null
           /\ Released(b).heap = Freed(b)
<1>1. /\ Released(b).buffer = Null /\ Released(b).maxbuffer = 0
      /\ Released(b).begin = 0 /\ Released(b).end = 0 /\ Released(b).borrowed = FALSE
      /\ Released(b).heap = Freed(b)
  BY DEF Released, Bufs
<1>2. QED
  BY <1>1 DEF Fields, Empty

\* And a buffer still.
LEMMA ReleasedIsBuf ==
    ASSUME NEW b \in Bufs, Freed(b) \in [Blocks -> Mems]
    PROVE  Released(b) \in Bufs
<1> DEFINE g == Freed(b)
           r == Released(b)
<1>1. r = [b EXCEPT !.buffer = Null, !.maxbuffer = 0, !.begin = 0, !.end = 0,
                    !.borrowed = FALSE, !.heap = g]
  BY DEF Released
<1>2. g \in [Blocks -> Mems]
  OBVIOUS
<1> HIDE DEF g, r
<1>3. r \in Bufs
  BY <1>1, <1>2 DEF Bufs
<1>4. QED
  BY <1>3 DEF r

\* The state behind the release of x, as a step or as the first half of one.
LEMMA ReleaseGood ==
    ASSUME IndInv, Careful, NEW x \in Buffers, MayChange(x, FALSE)
    PROVE  /\ Good([obj EXCEPT ![x] = Empty], Freed(At(x)), Held)
           /\ UnusedBlocks(Freed(At(x))) # {}
<1> DEFINE g == [k \in Blocks |-> IF k = obj[x].buffer /\ ~obj[x].borrowed
                                  THEN Unallocated ELSE heap[k]]
           p == [obj EXCEPT ![x] = Empty]
<1>1. Good(obj, heap, Held)
  BY DEF IndInv
<1>2. At(x).heap = heap /\ At(x).buffer = obj[x].buffer /\ At(x).borrowed = obj[x].borrowed
  BY <1>1, AtSound
<1>3. Freed(At(x)) = g
  BY <1>2 DEF Freed
<1>4. obj[x].borrowed \/ Alone(obj, x)
  BY AloneShares DEF MayChange
<1>5. Good(p, g, Held)
  <2> HIDE DEF g, p
  <2>1. QED
    BY <1>1, <1>4, GoodRelease DEF g, p
<1>6. UnusedBlocks(g) # {}
  <2>1. UnusedBlocks(heap) \subseteq UnusedBlocks(g)
    BY DEF UnusedBlocks
  <2> HIDE DEF g
  <2>2. QED
    BY <2>1 DEF IndInv
<1> HIDE DEF g, p
<1>7. QED
  BY <1>3, <1>5, <1>6 DEF p

\* deallocate and the destructor.
LEMMA DeallocateStep ==
    ASSUME IndInv, Careful, NEW x \in Buffers, Deallocate(x)
    PROVE  StepGood /\ callers' = callers
<1> DEFINE b == Released(At(x))
<1>1. At(x) \in Bufs
  BY AtReady, SoundFields
<1>2. Fields(b) = Empty /\ b.buffer = Null /\ b.heap = Freed(At(x))
  BY <1>1, ReleasedFields
<1>3. /\ MayChange(x, FALSE) /\ callers' = callers
      /\ obj' = [obj EXCEPT ![x] = Fields(b)]
      /\ heap' = IF b.buffer = Null \/ b.borrowed \/ Others(x, b.buffer) # {}
                 THEN b.heap ELSE Tidied(b).heap
  BY DEF Deallocate, Done
<1> HIDE DEF b
<1>4. obj' = [obj EXCEPT ![x] = Empty] /\ heap' = Freed(At(x))
  BY <1>2, <1>3
<1>5. QED
  BY <1>3, <1>4, ReleaseGood DEF StepGood, Leaves

\* Memory of a caller is a block that was free.
LEMMA LendTakes ==
    ASSUME NEW b \in Bufs, UnusedBlocks(b.heap) # {}, NEW size \in Nat \ {0}, NEW v \in Bytes,
           NEW end \in Nat, end <= size, NEW c, c = Lend(b, size, v, end)
    PROVE  /\ Changed(Fields(c), c.heap) /\ Taken(b.heap, Fields(c), c.heap)
           /\ Fields(c).borrowed /\ c.borrowed /\ Fields(c).buffer = c.buffer
<1> DEFINE new == NewBlock(b.heap)
           m   == [i \in 0..(size - 1) |-> v]
           h   == [b.heap EXCEPT ![new] = m]
<1>1. new \in UnusedBlocks(b.heap) /\ new \in Blocks /\ new # Null /\ b.heap[new] = Unallocated
  BY DBufferAssumption DEF NewBlock, UnusedBlocks, DBufferAssumption, Null
<1>2. m \in MemOf(size) /\ m \in Mems
  BY DEF MemOf, Mems
<1>3. b.heap \in [Blocks -> Mems]
  BY DEF Bufs
<1>4. c = [b EXCEPT !.buffer = new, !.maxbuffer = size, !.begin = 0, !.end = end,
                    !.borrowed = TRUE, !.heap = h]
  BY DEF Lend
<1> HIDE DEF new, m
<1>5. h \in [Blocks -> Mems] /\ h[new] = m /\ \A k \in Blocks : k # new => h[k] = b.heap[k]
  BY <1>1, <1>2, <1>3
<1> HIDE DEF h
<1>6. /\ c.buffer = new /\ c.maxbuffer = size /\ c.begin = 0 /\ c.end = end
      /\ c.borrowed = TRUE /\ c.heap = h
  BY <1>4 DEF Bufs
<1>7. Fields(c) = [buffer |-> new, maxbuffer |-> size, begin |-> 0, end |-> end, borrowed |-> TRUE]
  BY <1>6 DEF Fields
<1>8. /\ Fields(c) \in FieldSet
      /\ Fields(c).buffer = new /\ Fields(c).maxbuffer = size
      /\ Fields(c).begin = 0 /\ Fields(c).end = end /\ Fields(c).borrowed = TRUE
  BY <1>1, <1>7 DEF FieldSet
<1>9. Fits(Fields(c), h)
  BY <1>1, <1>2, <1>5, <1>8 DEF Fits
<1>10. QED
  BY <1>1, <1>5, <1>6, <1>8, <1>9 DEF Changed, Taken

\* attachMem: a release, then memory of the caller.
LEMMA AttachMemStep ==
    ASSUME IndInv, Careful, NEW x \in Buffers, NEW size \in Nat \ {0}, NEW v \in Bytes,
           AttachMem(x, size, v)
    PROVE  \E k \in Blocks : Leaves(Held \cup {k}) /\ callers' = callers \cup {k}
<1> DEFINE r == Released(At(x))
           b == Lend(r, size, v, size)
           p == [obj EXCEPT ![x] = Empty]
           g == Freed(At(x))
           f == Fields(b)
           h == b.heap
<1>1. At(x) \in Bufs
  BY AtReady, SoundFields
<1>2. r.buffer = Null /\ r.heap = g
  BY <1>1, ReleasedFields
<1>3. /\ MayChange(x, FALSE) /\ callers' = callers \cup {b.buffer}
      /\ obj' = [obj EXCEPT ![x] = f]
      /\ heap' = IF b.buffer = Null \/ b.borrowed \/ Others(x, b.buffer) # {}
                 THEN b.heap ELSE Tidied(b).heap
  BY DEF AttachMem, Done
<1>4. Good(p, g, Held) /\ UnusedBlocks(g) # {}
  <2> HIDE DEF g
  <2>1. QED
    BY <1>3, ReleaseGood DEF g
<1>5. r \in Bufs
  <2>1. g \in [Blocks -> Mems]
    BY <1>4 DEF Good
  <2>2. QED
    BY <1>1, <2>1, ReleasedIsBuf
<1>6. /\ Changed(f, h) /\ Taken(g, f, h)
      /\ f.borrowed /\ b.borrowed /\ f.buffer = b.buffer
  <2>1. size \in Nat /\ size <= size
    OBVIOUS
  <2> HIDE DEF r
  <2>2. QED
    BY <1>2, <1>4, <1>5, <2>1, LendTakes
<1>7. p[x] = Empty /\ [p EXCEPT ![x] = f] = [obj EXCEPT ![x] = f]
  BY DEF IndInv, Good
<1> HIDE DEF p, g, f, b, h
<1>8. heap' = h
  BY <1>3, <1>6 DEF h
<1>9. Good([p EXCEPT ![x] = f], h, LentTo(f, Held))
  <2>1. Good(p, g, Held) /\ p[x] = Empty /\ Changed(f, h) /\ Taken(g, f, h)
    BY <1>4, <1>6, <1>7
  <2>2. QED
    BY ONLY <2>1, GoodTake, x \in Buffers
<1>10. Leaves(Held \cup {b.buffer}) /\ b.buffer \in Blocks
  BY <1>3, <1>6, <1>7, <1>8, <1>9 DEF LentTo, Leaves, Taken
<1>11. QED
  BY <1>3, <1>10

\* The constructor with memory of the caller.
LEMMA ConstructStep ==
    ASSUME IndInv, Careful, NEW x \in Buffers, NEW size \in Nat \ {0}, NEW v \in Bytes,
           Construct(x, size, v)
    PROVE  \E k \in Blocks : Leaves(Held \cup {k}) /\ callers' = callers \cup {k}
<1> DEFINE b == Lend(At(x), size, v, 0)
           f == Fields(b)
           h == b.heap
<1>1. At(x) \in Bufs /\ At(x).heap = heap /\ UnusedBlocks(At(x).heap) # {}
  BY AtReady, SoundFields, AtSound DEF IndInv
<1>2. /\ obj[x] = Empty /\ callers' = callers \cup {b.buffer}
      /\ obj' = [obj EXCEPT ![x] = f]
      /\ heap' = IF b.buffer = Null \/ b.borrowed \/ Others(x, b.buffer) # {}
                 THEN b.heap ELSE Tidied(b).heap
  BY DEF Construct, Done
<1>3. /\ Changed(f, h) /\ Taken(heap, f, h)
      /\ f.borrowed /\ b.borrowed /\ f.buffer = b.buffer
  <2>1. 0 \in Nat /\ 0 <= size
    OBVIOUS
  <2>2. QED
    BY <1>1, <2>1, LendTakes
<1> HIDE DEF f, b, h
<1>4. heap' = h
  BY <1>2, <1>3 DEF h
<1>5. Good([obj EXCEPT ![x] = f], h, LentTo(f, Held))
  <2>1. /\ Good(obj, heap, Held) /\ obj[x] = Empty
        /\ Changed(f, h) /\ Taken(heap, f, h)
    BY <1>2, <1>3 DEF IndInv
  <2>2. QED
    BY ONLY <2>1, GoodTake, x \in Buffers
<1>6. Leaves(Held \cup {b.buffer}) /\ b.buffer \in Blocks
  BY <1>2, <1>3, <1>4, <1>5 DEF LentTo, Leaves, Taken
<1>7. QED
  BY <1>2, <1>6

\* detachMem of a block that x owns.
LEMMA DetachOwnedStep ==
    ASSUME IndInv, Careful, NEW x \in Buffers, DetachMem(x), ~obj[x].borrowed
    PROVE  LET given == {obj[x].buffer} \ {Null} IN
           Leaves(Held \cup given) /\ callers' = callers \cup given
<1> DEFINE g     == [k \in Blocks |-> IF k = obj[x].buffer THEN Fresh(obj[x].maxbuffer) ELSE heap[k]]
           p     == [obj EXCEPT ![x] = Empty]
           given == {obj[x].buffer} \ {Null}
<1>1. Good(obj, heap, Held)
  BY DEF IndInv
<1>2. /\ At(x).buffer = obj[x].buffer /\ At(x).borrowed = obj[x].borrowed
      /\ At(x).maxbuffer = obj[x].maxbuffer
  BY AtFields
<1>3. Alone(obj, x)
  BY AloneShares DEF DetachMem, OwedDetachMem
<1>4. obj' = p /\ heap' = g /\ callers' = callers \cup given
  <2>1. obj' = p /\ callers' = callers \cup given
    BY <1>2 DEF DetachMem
  <2>2. heap' = [k \in Blocks |-> IF k = At(x).buffer THEN Fresh(At(x).maxbuffer) ELSE heap[k]]
    <3>1. ~At(x).borrowed
      BY <1>2
    <3>2. QED
      BY <3>1 DEF DetachMem
  <2>3. QED
    BY <1>2, <2>1, <2>2
<1>5. Good(p, g, Held \cup given)
  <2>1. g = GivenAway(obj, heap, x)
    BY DEF GivenAway
  <2> HIDE DEF g
  <2>2. QED
    BY <1>1, <1>3, <2>1, GoodDetach
<1>6. QED
  BY <1>4, <1>5 DEF Leaves

\* detachMem of a block that x has borrowed: the copy is nobody's.
LEMMA DetachLentStep ==
    ASSUME IndInv, Careful, NEW x \in Buffers, DetachMem(x), obj[x].borrowed
    PROVE  /\ Leaves(Held) \/ \E k \in Blocks : Leaves(Held \cup {k})
           /\ callers' = callers \cup ({obj[x].buffer} \ {Null})
           /\ {obj[x].buffer} \ {Null} \subseteq Held
<1> DEFINE b    == At(x)
           copy == NewBlock(heap)
           m    == Copied(Fresh(Cur(b)), 0, Mem(b), b.begin, Cur(b))
           p    == [obj EXCEPT ![x] = Empty]
<1>1. Good(obj, heap, Held)
  BY DEF IndInv
<1>2. /\ b.buffer = obj[x].buffer /\ b.borrowed = obj[x].borrowed /\ b \in Bufs
      /\ Cur(b) \in Nat /\ b.begin \in Int
  <2>1. Sound(b) /\ b.buffer = obj[x].buffer /\ b.borrowed = obj[x].borrowed
    BY AtFields, AtReady
  <2> HIDE DEF b
  <2>2. b.begin \in Nat /\ Cur(b) \in Nat /\ b \in Bufs
    BY <2>1, SoundFields
  <2>3. QED
    BY <2>1, <2>2
<1>3. Alone(obj, x)
  BY AloneShares DEF DetachMem, OwedDetachMem
<1>4. copy \in Blocks /\ heap[copy] = Unallocated
  BY DEF NewBlock, IndInv, UnusedBlocks
<1>5. m \in MemOf(Cur(b))
  <2>1. 0 \in Int /\ Cur(b) \in Int
    BY <1>2
  <2>2. QED
    BY <1>2, <2>1, NewMem
<1>6. /\ obj' = p /\ heap' = [heap EXCEPT ![copy] = m]
      /\ callers' = callers \cup ({obj[x].buffer} \ {Null})
  BY <1>2 DEF DetachMem
<1> HIDE DEF copy, m, p, b
<1>7. Good(p, heap, Held)
  <2>1. heap = [k \in Blocks |-> IF k = obj[x].buffer /\ ~obj[x].borrowed
                                 THEN Unallocated ELSE heap[k]]
    BY <1>1 DEF Good
  <2>2. QED
    BY <1>1, <2>1, GoodRelease DEF p
<1>8. Leaves(Held) \/ \E k \in Blocks : Leaves(Held \cup {k})
  <2>1. CASE Cur(b) = 0
    <3>1. m = Unallocated
      BY <1>5, <2>1 DEF MemOf, Unallocated
    <3>2. heap' = heap
      BY <1>1, <1>4, <1>6, <3>1 DEF Good
    <3>3. QED
      BY <1>6, <1>7, <3>2 DEF Leaves
  <2>2. CASE Cur(b) # 0
    <3>1. Cur(b) \in Nat \ {0}
      BY <1>2, <2>2
    <3>2. Good(p, heap', Held \cup {copy})
      BY <1>4, <1>5, <1>6, <1>7, <3>1, GoodForgotten
    <3>3. QED
      BY <1>4, <1>6, <3>2 DEF Leaves
  <2>3. QED
    BY <2>1, <2>2
<1>9. {obj[x].buffer} \ {Null} \subseteq Held
  <2> SUFFICES ASSUME obj[x].buffer # Null PROVE obj[x].buffer \in Held
    OBVIOUS
  <2>1. obj[x].buffer \in Blocks
    BY <1>1 DEF Good, FieldSet
  <2>2. \A y \in Buffers : ~Owns(obj[y], obj[x].buffer)
    BY <1>3 DEF Alone, Owns
  <2>3. Owned(obj, heap[obj[x].buffer], obj[x].buffer, obj[x].buffer \in Held)
    BY <1>1, <2>1 DEF Good
  <2>4. QED
    BY <2>2, <2>3 DEF Owned
<1>10. QED
  BY <1>6, <1>8, <1>9

\* assignTo.
LEMMA AssignToStep ==
    ASSUME IndInv, NEW x \in Buffers, NEW y \in Buffers, AssignTo(x, y)
    PROVE  Leaves(Held \cup Own(obj, y)) /\ callers' = callers
<1>1. /\ Good(obj, heap, Held)
      /\ obj' = [obj EXCEPT ![y] = obj[x], ![x].borrowed = TRUE]
      /\ heap' = heap /\ callers' = callers
  BY DEF IndInv, AssignTo
<1>2. Good(obj', heap, Held \cup Own(obj, y))
  BY <1>1, GoodAssign
<1>3. QED
  BY <1>1, <1>2 DEF Leaves

\* attach: a release, then the block of the other.
LEMMA AttachStep ==
    ASSUME IndInv, Careful, NEW x \in Buffers, NEW y \in Buffers, Attach(x, y)
    PROVE  StepGood /\ callers' = callers
<1> DEFINE p == [obj EXCEPT ![x] = Empty]
<1>1. /\ x # y /\ MayChange(x, FALSE)
      /\ obj' = [obj EXCEPT ![x] = obj[y], ![y] = Empty]
      /\ heap' = Freed(At(x)) /\ callers' = callers
  BY DEF Attach, OwedAttach
<1>2. Good(p, Freed(At(x)), Held)
  BY <1>1, ReleaseGood
<1>3. /\ p[x] = Empty
      /\ [p EXCEPT ![x] = p[y], ![y] = Empty] = [obj EXCEPT ![x] = obj[y], ![y] = Empty]
  BY <1>1 DEF IndInv, Good
<1> HIDE DEF p
<1>4. Good([p EXCEPT ![x] = p[y], ![y] = Empty], Freed(At(x)), Held)
  BY <1>1, <1>2, <1>3, GoodPass
<1>5. QED
  BY <1>1, <1>3, <1>4 DEF StepGood, Leaves

\* A caller frees its own memory.
LEMMA FreeMemStep ==
    ASSUME IndInv, NEW k \in callers, FreeMem(k)
    PROVE  Leaves(Held \ {k}) /\ callers' = callers \ {k}
<1>1. /\ Good(obj, heap, Held) /\ (\A x \in Buffers : obj[x].buffer # k)
      /\ heap' = [heap EXCEPT ![k] = Unallocated] /\ callers' = callers \ {k} /\ obj' = obj
  BY DEF IndInv, FreeMem
<1>2. k \in Held
  BY DEF Held
<1>3. Good(obj, heap', Held \ {k})
  BY <1>1, <1>2, GoodFree
<1>4. QED
  BY <1>1, <1>3 DEF Leaves

-----------------------------------------------------------------------------
(* The theorems. *)

\* Every call on one buffer.
LEMMA EditStep ==
    ASSUME IndInv, Careful, NEW x \in Buffers, Edit(x)
    PROVE  StepGood
<1>1. Sizes \subseteq Nat /\ MaxMemory \in Nat
  BY DBufferAssumption DEF Sizes, DBufferAssumption
<1>2. CASE Clear(x) \/ SetUnusedUpper(x)
  BY <1>2, SmallSteps
<1>3. CASE \E v \in Bytes \ {Junk} : CStr(x, v)
  BY <1>3, CStrStep
<1>4. ASSUME NEW n \in Sizes, CallRemoveBegin(x, n) \/ CallRemoveEnd(x, n)
      PROVE  StepGood
  BY <1>1, <1>4, SmallSteps
<1>5. ASSUME NEW n \in Sizes, CallReserve(x, n)
      PROVE  StepGood
  BY <1>1, <1>5, ReserveStep
<1>6. ASSUME NEW n \in Sizes, NEW m \in Sizes, CallRemoveMiddle(x, m, n) \/ CallResize(x, n, m)
      PROVE  StepGood
  BY <1>1, <1>6, RemoveMiddleStep, ResizeStep
<1>7. ASSUME NEW n \in Sizes, NEW k \in Sizes, NEW to \in Sizes \cup {MaxMemory},
             CallMoveData(x, k, n, to)
      PROVE  StepGood
  BY <1>1, <1>7, MoveDataStep
<1>8. ASSUME NEW n \in Sizes, NEW k \in Sizes, NEW m \in Sizes, CallReallocate(x, n, k, m)
      PROVE  StepGood
  BY <1>1, <1>8, ReallocateStep
<1>9. ASSUME NEW n \in Sizes, NEW v \in Bytes \ {Junk},
             CallPrepend(x, n, v) \/ CallAppend(x, n, v)
      PROVE  StepGood
  BY <1>1, <1>9, PrependStep, AppendStep
<1>10. ASSUME NEW n \in Sizes, NEW v \in Bytes \ {Junk}, NEW k \in Sizes,
              InsertMiddle(x, k, n, v)
       PROVE  StepGood
  BY <1>1, <1>10, MiddleStep
<1>11. QED
  BY <1>2, <1>3, <1>4, <1>5, <1>6, <1>7, <1>8, <1>9, <1>10 DEF Edit

\* A block is lost in two ways.
LeakOf(k) ==
    \/ call'.op = "assign" /\ obj[call'.args].buffer = k
    \/ call'.op = "detach" /\ obj[call'.on].borrowed

\* What a step makes Held, and what it may lose of that.
Lawful ==
    \E E : /\ Leaves(E) /\ callers' \subseteq E
           /\ \A k \in E : k \in Lost \cup callers' \/ LeakOf(k)

\* A step that loses no block is lawful.
LEMMA LawfulGood ==
    ASSUME NEW S, Leaves(Held \cup S), callers' = callers \cup S
    PROVE  Lawful
<1>1. callers' \subseteq Held \cup S
  BY DEF Held
<1>2. \A k \in Held \cup S : k \in Lost \cup callers'
  BY DEF Held
<1>3. QED
  BY <1>1, <1>2 DEF Lawful

\* The same, if it adds nothing to what callers hold.
LEMMA LawfulSame ==
    ASSUME StepGood, callers' = callers
    PROVE  Lawful
<1>1. Leaves(Held \cup {}) /\ callers' = callers \cup {}
  <2>1. Held \cup {} = Held /\ callers \cup {} = callers
    OBVIOUS
  <2>2. QED
    BY <2>1 DEF StepGood
<1>2. QED
  BY <1>1, LawfulGood

\* detachMem and assignTo are lawful, too.
LEMMA DetachMemStep ==
    ASSUME IndInv, Careful, NEW x \in Buffers, DetachMem(x)
    PROVE  Lawful
<1>1. CASE ~obj[x].borrowed
  BY <1>1, DetachOwnedStep, LawfulGood
<1>2. CASE obj[x].borrowed
  <2>1. /\ Leaves(Held) \/ \E k \in Blocks : Leaves(Held \cup {k})
        /\ callers' \subseteq Held
    BY <1>2, DetachLentStep DEF Held
  <2>2. call'.op = "detach" /\ call'.on = x
    BY DEF DetachMem, Called
  <2>3. PICK S \in SUBSET Blocks : Leaves(Held \cup S)
    <3>1. CASE Leaves(Held)
      <4>1. Held \cup {} = Held /\ {} \in SUBSET Blocks
        OBVIOUS
      <4>2. QED
        BY <3>1, <4>1
    <3>2. CASE \E k \in Blocks : Leaves(Held \cup {k})
      <4>1. PICK k \in Blocks : Leaves(Held \cup {k})
        BY <3>2
      <4>2. {k} \in SUBSET Blocks
        OBVIOUS
      <4>3. QED
        BY <4>1, <4>2
    <3>3. QED
      BY <2>1, <3>1, <3>2
  <2>4. \A k \in Held \cup S : LeakOf(k)
    BY <1>2, <2>2 DEF LeakOf
  <2>5. QED
    BY <2>1, <2>3, <2>4 DEF Lawful
<1>3. QED
  BY <1>1, <1>2

LEMMA AssignToLawful ==
    ASSUME IndInv, NEW x \in Buffers, NEW y \in Buffers, AssignTo(x, y)
    PROVE  Lawful
<1>1. Leaves(Held \cup Own(obj, y)) /\ callers' = callers
  BY AssignToStep
<1>2. call'.op = "assign" /\ call'.args = y
  BY DEF AssignTo, Called
<1>3. \A k \in Own(obj, y) : LeakOf(k)
  BY <1>2 DEF LeakOf, Own
<1>4. callers' \subseteq Held \cup Own(obj, y)
  BY <1>1 DEF Held
<1>5. \A k \in Held \cup Own(obj, y) : k \in Lost \cup callers' \/ LeakOf(k)
  BY <1>1, <1>3 DEF Held
<1>6. QED
  BY <1>1, <1>4, <1>5 DEF Lawful

\* Every call that hands memory over.
LEMMA HandOverStep ==
    ASSUME IndInv, Careful, NEW x \in Buffers, HandOver(x)
    PROVE  Lawful
<1>1. Sizes \subseteq Nat
  BY DBufferAssumption DEF Sizes, DBufferAssumption
<1>2. CASE Deallocate(x)
  BY <1>2, DeallocateStep, LawfulSame
<1>3. CASE DetachMem(x)
  BY <1>3, DetachMemStep
<1>4. ASSUME NEW n \in Sizes \ {0}, NEW v \in Bytes \ {Junk},
             AttachMem(x, n, v) \/ Construct(x, n, v)
      PROVE  Lawful
  <2>1. n \in Nat \ {0} /\ v \in Bytes
    BY <1>1
  <2>2. PICK k \in Blocks : Leaves(Held \cup {k}) /\ callers' = callers \cup {k}
    BY <1>4, <2>1, AttachMemStep, ConstructStep
  <2>3. QED
    BY <2>2, LawfulGood
<1>5. ASSUME NEW y \in Buffers, AssignTo(x, y) \/ Attach(x, y)
      PROVE  Lawful
  BY <1>5, AssignToLawful, AttachStep, LawfulSame
<1>6. QED
  BY <1>2, <1>3, <1>4, <1>5 DEF HandOver

\* And a caller that frees what is its own.
LEMMA FreeMemLawful ==
    ASSUME IndInv, NEW k \in callers, FreeMem(k)
    PROVE  Lawful
<1>1. Leaves(Held \ {k}) /\ callers' = callers \ {k}
  BY FreeMemStep
<1>2. callers' \subseteq Held \ {k}
  BY <1>1 DEF Held
<1>3. \A j \in Held \ {k} : j \in Lost \cup callers'
  BY <1>1 DEF Held
<1>4. QED
  BY <1>1, <1>2, <1>3 DEF Lawful

\* Nothing is allocated at first.
LEMMA InitInd == Init => IndInv
<1> SUFFICES ASSUME Init PROVE IndInv
  OBVIOUS
<1>1. /\ obj = [x \in Buffers |-> Empty] /\ heap = [k \in Blocks |-> Unallocated]
      /\ callers = {}
  BY DEF Init
<1>2. Empty \in FieldSet /\ Empty.buffer = Null
  BY DEF Empty, FieldSet, Null
<1>3. /\ obj \in [Buffers -> FieldSet] /\ heap \in [Blocks -> Mems]
      /\ \A x \in Buffers : obj[x] = Empty
      /\ \A k \in Blocks : heap[k] = Unallocated
  BY <1>1, <1>2, NoMem
<1>4. \A x \in Buffers : Fits(obj[x], heap)
  BY <1>3 DEF Fits, Empty, Null
<1>5. Held = {}
  BY <1>1, <1>3 DEF Held, Lost
<1>6. \A k \in Blocks : Owned(obj, heap[k], k, k \in Held)
  <2>1. Null \notin Blocks
    BY DBufferAssumption DEF DBufferAssumption, Null
  <2>2. QED
    BY <1>2, <1>3, <1>5, <2>1 DEF Owned
<1>7. UnusedBlocks(heap) # {}
  BY <1>3, DBufferAssumption DEF UnusedBlocks, DBufferAssumption
<1>8. QED
  BY <1>3, <1>4, <1>5, <1>6, <1>7 DEF IndInv, Good

\* Good determines what is lost.
LEMMA HeldIs ==
    ASSUME NEW E, Leaves(E), callers' \subseteq E
    PROVE  callers' \cup Lost' = E
<1>1. E \subseteq Blocks /\ \A k \in Blocks : Owned(obj', heap'[k], k, k \in E)
  BY DEF Leaves, Good
<1>2. \A k \in Blocks : k \in Lost' <=>
         heap'[k] # Unallocated /\ k \notin callers' /\ \A x \in Buffers : ~Owns(obj'[x], k)
  BY DEF Lost, Owners, Owns
<1>3. Lost' \subseteq Blocks
  BY DEF Lost
<1>4. ASSUME NEW k \in Blocks
      PROVE  k \in callers' \cup Lost' <=> k \in E
  <2>1. CASE k \in E
    BY <1>1, <1>2, <2>1 DEF Owned
  <2>2. CASE k \notin E
    BY <1>1, <1>2, <2>2 DEF Owned
  <2>3. QED
    BY <2>1, <2>2
<1>5. QED
  BY <1>1, <1>3, <1>4

LeakStep == \A k \in Lost' \ Lost : LeakOf(k)

\* A lawful step leads to such a state again, and leaks as told.
LEMMA LawfulStep ==
    ASSUME Lawful, UnusedBlocks(heap)' # {}
    PROVE  IndInv' /\ LeakStep
<1>1. PICK E : /\ Leaves(E) /\ callers' \subseteq E
               /\ \A k \in E : k \in Lost \cup callers' \/ LeakOf(k)
  BY DEF Lawful
<1>2. callers' \cup Lost' = E
  BY <1>1, HeldIs
<1>3. IndInv'
  BY <1>1, <1>2 DEF IndInv, Held, Leaves
<1>4. ASSUME NEW k \in Lost' \ Lost
      PROVE  LeakOf(k)
  <2>1. k \in E /\ k \notin callers'
    BY <1>2 DEF Lost
  <2>2. QED
    BY <1>1, <2>1
<1>5. QED
  BY <1>3, <1>4 DEF LeakStep

\* No step breaks the invariant, or loses a block in another way.
LEMMA NextInd ==
    ASSUME IndInv, Careful, [DBNext]_dbVars
    PROVE  IndInv' /\ (UNCHANGED dbVars \/ LeakStep)
<1>1. CASE UNCHANGED dbVars
  BY <1>1 DEF dbVars, IndInv, Good, Owned, Fits, UnusedBlocks, Held, Lost, Owners
<1>2. CASE DBNext
  <2>1. UnusedBlocks(heap)' # {}
    BY <1>2 DEF DBNext, Bounded
  <2>2. ASSUME NEW x \in Buffers, Edit(x), UNCHANGED callers
        PROVE  Lawful
    BY <2>2, EditStep, LawfulSame
  <2>3. ASSUME NEW x \in Buffers, HandOver(x)
        PROVE  Lawful
    BY <2>3, HandOverStep
  <2>4. ASSUME NEW k \in callers, FreeMem(k)
        PROVE  Lawful
    BY <2>4, FreeMemLawful
  <2>5. Lawful
    BY <1>2, <2>2, <2>3, <2>4 DEF DBNext
  <2>6. QED
    BY <2>1, <2>5, LawfulStep
<1>3. QED
  BY <1>1, <1>2

\* What the invariant says of each buffer.
LEMMA IndData == IndInv => DataInBlock
<1> SUFFICES ASSUME IndInv PROVE DataInBlock
  OBVIOUS
<1>1. /\ obj \in [Buffers -> FieldSet] /\ heap \in [Blocks -> Mems] /\ callers \subseteq Blocks
      /\ \A x \in Buffers : Fits(obj[x], heap)
  BY DEF IndInv, Good, Held
<1>2. ASSUME NEW x \in Buffers
      PROVE  LET o == obj[x] IN
             /\ Fitting(o)
             /\ o.buffer = Null => o.maxbuffer = 0
             /\ o.buffer # Null => DOMAIN heap[o.buffer] = 0..(o.maxbuffer - 1)
  <2>1. obj[x] \in FieldSet /\ Fits(obj[x], heap)
    BY <1>1
  <2>2. Fitting(obj[x])
    BY <2>1 DEF FieldSet, Fits, Fitting
  <2>3. obj[x].buffer # Null => DOMAIN heap[obj[x].buffer] = 0..(obj[x].maxbuffer - 1)
    BY <2>1 DEF Fits, MemOf
  <2>4. QED
    BY <2>1, <2>2, <2>3 DEF Fits
<1>3. \A k \in Blocks : \A i \in DOMAIN heap[k] : heap[k][i] \in Bytes
  <2>1. ASSUME NEW k \in Blocks
        PROVE  \A i \in DOMAIN heap[k] : heap[k][i] \in Bytes
    <3>1. PICK n \in Nat : heap[k] \in MemOf(n)
      BY <1>1 DEF Mems
    <3>2. QED
      BY <3>1 DEF MemOf
  <2>2. QED
    BY <2>1
<1>4. QED
  BY <1>1, <1>2, <1>3 DEF DataInBlock

\* What the invariant says of each block.
LEMMA IndOwner == IndInv => OneOwner
<1> SUFFICES ASSUME IndInv, NEW k \in Blocks
             PROVE  /\ \A x, y \in Owners(k) : x = y
                    /\ k \in callers => Owners(k) = {}
                    /\ heap[k] = Unallocated =>
                         k \notin callers /\ \A x \in Buffers : obj[x].buffer # k
  BY DEF OneOwner
<1>1. Owned(obj, heap[k], k, k \in Held)
  BY DEF IndInv, Good
<1>2. Owners(k) \subseteq Buffers /\ \A x \in Buffers : x \in Owners(k) <=> Owns(obj[x], k)
  BY DEF Owners, Owns
<1>3. k \in callers => k \in Held
  BY DEF Held
<1>4. CASE heap[k] = Unallocated
  <2>1. k \notin Held /\ \A x \in Buffers : obj[x].buffer # k
    BY <1>1, <1>4 DEF Owned
  <2>2. Owners(k) = {}
    BY <2>1 DEF Owners
  <2>3. QED
    BY <1>3, <2>1, <2>2
<1>5. CASE heap[k] # Unallocated /\ k \in Held
  <2>1. Owners(k) = {}
    BY <1>1, <1>2, <1>5 DEF Owned
  <2>2. QED
    BY <1>5, <2>1
<1>6. CASE heap[k] # Unallocated /\ k \notin Held
  <2>1. PICK w \in Buffers : Owns(obj[w], k) /\ \A z \in Buffers : Owns(obj[z], k) => z = w
    BY <1>1, <1>6 DEF Owned
  <2>2. \A z \in Owners(k) : z = w
    BY <1>2, <2>1
  <2>3. QED
    BY <1>3, <1>6, <2>2
<1>7. QED
  BY <1>4, <1>5, <1>6

\* If its callers keep what they owe, the data of every buffer lies in its
\* block, whichever of the calls of dbuffer.cpp are made, in which order, with
\* which sizes.
THEOREM DataStaysInBlock == ASSUME Careful PROVE DBSpec => []DataInBlock
<1>1. IndInv /\ [DBNext]_dbVars => IndInv'
  BY NextInd
<1>2. QED
  BY <1>1, InitInd, IndData, PTL DEF DBSpec

\* If the callers write, free, detach or declare owned no block that another
\* buffer shows, then no block has two owners, and none is shown when freed,
\* so none is freed twice.  That none is leaked is not said: see below.
THEOREM OneOwnerAlways == ASSUME Careful PROVE DBSpec => []OneOwner
<1>1. IndInv /\ [DBNext]_dbVars => IndInv'
  BY NextInd
<1>2. QED
  BY <1>1, InitInd, IndOwner, PTL DEF DBSpec

\* For the same callers, a block is lost only by an assignTo to a buffer that
\* owned it or by a detachMem of borrowed memory: all other calls of
\* dbuffer.cpp free what they give up, or hand it on.
THEOREM LeaksAlwaysTwo == ASSUME Careful PROVE DBSpec => LeaksAreTwo
<1>1. IndInv /\ [DBNext]_dbVars => IndInv'
  BY NextInd
<1>2. IndInv /\ [DBNext]_dbVars => [LeakStep]_dbVars
  BY NextInd
<1>3. DBSpec => [][LeakStep]_dbVars
  BY <1>1, <1>2, InitInd, PTL DEF DBSpec
<1>4. QED
  BY <1>3 DEF LeaksAreTwo, LeakStep, LeakOf
=============================================================================
