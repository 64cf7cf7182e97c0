------------------------------ MODULE DBuffer -------------------------------
(***************************************************************************)
(* The growing buffers of dslogger (dslog/dbuffer.cpp, dbuffer.h): bytes   *)
(* begin to end of a block of maxbuffer bytes, which grows at both ends    *)
(* and in the middle, is lent by a caller or given to one, and may be      *)
(* handed from one buffer to another.                                      *)
(*                                                                         *)
(* A member function is an operator on a record b, the buffer's fields     *)
(* with the heap, and yields the record behind the call; so functions that *)
(* call each other do so here.  Numbers are integers: no size comes near   *)
(* the width of size_t.  memcpy of overlapping bytes only ever moves them  *)
(* downwards, which the memcpy of the project's compiler does right.       *)
(* pAlloc is NULL, as everywhere in the program.                           *)
(*                                                                         *)
(* Most functions do what ByteSeq says only if the caller keeps to more    *)
(* than dbuffer.h asks for.  What that is, is written down in "What the    *)
(* callers owe", and holds of the callers if Careful.                      *)
(***************************************************************************)
EXTENDS Integers, SequencesExt, FiniteSetsExt

CONSTANTS
    Buffers,        \* the DBuffer objects
    Blocks,         \* what malloc may return
    Bytes,          \* the values of a byte
    Junk,           \* the byte that nobody has written
    MINALLOC,       \* 256
    Careful,        \* the callers keep what they owe
    MaxSize,        \* bound: the bytes in all the buffers together
    MaxMemory       \* bound: the bytes in all the blocks together

ASSUME DBufferAssumption ==
    /\ Blocks # {} /\ 0 \notin Blocks
    /\ Junk \in Bytes
    /\ MINALLOC \in Nat \ {0}
    /\ Careful \in BOOLEAN
    /\ MaxSize \in Nat /\ MaxMemory \in Nat

VARIABLES
    obj,            \* the fields of each buffer
    heap,           \* each block: its bytes, from 0
    callers,        \* the blocks that belong to the callers
    call            \* the call made last (see ByteSeq)

dbVars == <<obj, heap, callers, call>>

Null == 0
Unallocated == <<>>
Empty == [buffer |-> Null, maxbuffer |-> 0, begin |-> 0, end |-> 0, borrowed |-> FALSE]

-----------------------------------------------------------------------------
(* Memory. *)

Zone(m, off, n) == {i \in DOMAIN m : off <= i /\ i < off + n}

\* n bytes at src of block from, copied to dst of block to.
Copied(to, dst, from, src, n) ==
    [i \in DOMAIN to |->
        LET j == i - dst + src IN
        IF i \notin Zone(to, dst, n) THEN to[i]
        ELSE IF j \in DOMAIN from THEN from[j] ELSE Junk]

Fresh(n) == [i \in 0..(n - 1) |-> Junk]
Mem(b) == IF b.buffer = Null THEN Unallocated ELSE b.heap[b.buffer]
Cur(b) == b.end - b.begin

\* memmove and memcpy inside the block of b.
Move(b, dst, src, n) ==
    IF b.buffer = Null THEN b
    ELSE [b EXCEPT !.heap[b.buffer] = Copied(@, dst, @, src, n)]

FreedNever(b) == b.heap     \* mutant: nothing goes back

\* The block of b goes back to the heap unless it is lent.
Freed(b) == [k \in Blocks |-> IF k = b.buffer /\ ~b.borrowed THEN Unallocated ELSE b.heap[k]]

UnusedBlocks(h) == {k \in Blocks : h[k] = Unallocated}

NewBlock(h) == CHOOSE k \in UnusedBlocks(h) : TRUE

\* A block of size bytes, m, takes the place of the block of b: malloc, copy, free.
Renewed(b, size, m) ==
    LET new == NewBlock(b.heap) IN
    [b EXCEPT !.buffer = new, !.borrowed = FALSE, !.maxbuffer = size,
              !.heap = [Freed(b) EXCEPT ![new] = m]]

-----------------------------------------------------------------------------
(* Growing. *)

Reallocate(b, newsize, before, after) ==
    LET need == newsize + before + after
        size == Max({MINALLOC, 2 * need})
        new  == Renewed(b, size, Copied(Fresh(size), before, Mem(b), b.begin, Cur(b)))
    IN  [(IF b.buffer = Null \/ b.maxbuffer < need THEN new ELSE b)
            EXCEPT !.begin = before, !.end = before + newsize]

\* The new bytes are the size bytes from begin on.
FromBegin(b, size) ==
    LET c == IF b.maxbuffer - Cur(b) < size
             THEN Reallocate(b, Cur(b), size, b.maxbuffer - b.end)
             ELSE IF b.begin < size
             THEN [Move(b, size, b.begin, Cur(b)) EXCEPT !.begin = size, !.end = @ + size]
             ELSE b
    IN  [c EXCEPT !.begin = @ - size]

FromEndInPlace(b, size) == \* mutant: the data is not moved to the front
    [(IF b.maxbuffer - Cur(b) < size THEN Reallocate(b, Cur(b), 0, size) ELSE b)
        EXCEPT !.end = @ + size]

\* The new bytes are the last size bytes.
FromEnd(b, size) ==
    LET c == IF b.maxbuffer - Cur(b) < size
             THEN Reallocate(b, Cur(b), 0, size)
             ELSE IF b.maxbuffer - b.end < size
             THEN [Move(b, 0, b.begin, Cur(b)) EXCEPT !.begin = 0, !.end = Cur(b)]
             ELSE b
    IN  [c EXCEPT !.end = @ + size]

\* The new bytes are the size bytes from begin + start on.
FromMiddle(b, start, size) ==
    LET tail  == Cur(b) - start
        after == b.maxbuffer - b.end
        front == size - after
        big   == 2 * (Cur(b) + size)
        head  == Copied(Fresh(big), 0, Mem(b), b.begin, start)
        c     == IF after = 0 THEN b
                 ELSE [Move(b, b.begin + start + size, b.begin + start, tail)
                          EXCEPT !.end = @ + Min({after, size})]
    IN  IF size < 1 THEN b
        ELSE IF start >= Cur(b) THEN FromEnd(b, size)
        ELSE IF Cur(b) + size > b.maxbuffer
        THEN [Renewed(b, big, Copied(head, start + size, Mem(b), b.begin + start, tail))
                 EXCEPT !.begin = 0, !.end = Cur(b) + size]
        ELSE IF after < size
        THEN [Move(c, c.begin - front, c.begin, Cur(c)) EXCEPT !.begin = @ - front]
        ELSE c

\* _reallocAndCopy copies from the start of the block and not from begin.
ReallocAndCopy(b, max, copysize) ==
    [Renewed(b, max, Copied(Fresh(max), 0, Mem(b), 0, copysize))
        EXCEPT !.begin = 0, !.end = copysize]

ResizeTo(b, size, reserved) ==
    LET inc   == size - Cur(b)
        offer == Min({b.maxbuffer - b.end, inc})
        back  == inc - offer
    IN  IF inc <= 0 THEN [b EXCEPT !.end = @ + inc]
        ELSE IF b.maxbuffer >= size
        THEN [Move(b, b.begin - back, b.begin, Cur(b) + offer)
                 EXCEPT !.begin = @ - back, !.end = @ + offer]
        ELSE [ReallocAndCopy(b, Max({size, reserved}), Cur(b)) EXCEPT !.end = size]

Reserve(b, size) ==
    IF b.maxbuffer >= size THEN b
    ELSE Renewed(b, size, Copied(Fresh(size), b.begin, Mem(b), b.begin, Cur(b)))

-----------------------------------------------------------------------------
(* Shrinking and moving. *)

\* "if (maxbuffer == 0) resize(...)", before bytes of b are removed.
Allocated(b) == IF b.maxbuffer = 0 THEN ResizeTo(b, Cur(b) + 16, 0) ELSE b

RemoveBegin(b, size) ==
    IF size >= Cur(b) THEN [b EXCEPT !.begin = 0, !.end = 0]
    ELSE IF size > 0 THEN [Allocated(b) EXCEPT !.begin = @ + size]
    ELSE b

RemoveEnd(b, size) ==
    IF size >= Cur(b) THEN [b EXCEPT !.end = b.begin]
    ELSE IF size > 0 THEN [Allocated(b) EXCEPT !.end = @ - size]
    ELSE b

RemoveMiddleSwapped(b, start, size) == \* mutant: begin moves although the tail was copied
    LET tail == Cur(b) - start - size IN
    IF size = 0 \/ tail < 0 THEN b
    ELSE [Move(b, b.begin + start, b.begin + start + size, tail) EXCEPT !.begin = @ + size]

\* The shorter one of what is before and what is behind is moved.
RemoveMiddle(b, start, size) ==
    LET c    == Allocated(b)
        tail == Cur(b) - start - size
    IN  IF size = 0 \/ tail < 0 THEN b
        ELSE IF start < tail
        THEN [Move(c, c.begin + size, c.begin, start) EXCEPT !.begin = @ + size]
        ELSE [Move(c, c.begin + start, c.begin + start + size, tail) EXCEPT !.end = @ - size]

\* to is compared with end and not with the size; p is taken before fromEnd.
MoveTarget(b, to) == Min({to, b.end})

Moves(b, start, size, to) ==
    LET topos == MoveTarget(b, to) IN
    \/ topos < start
    \/ topos > start + size /\ start + size < Cur(b)

\* Copies of bytes from fromEnd on; p is an offset into the block old.
MoveData(b, start, size, to) ==
    LET topos  == MoveTarget(b, to)
        endpos == start + size
        n      == IF topos < start THEN start - topos ELSE size
        c      == FromEnd(b, n)
        tmp    == c.end - n
        p      == b.begin
        d1     == Move(c, tmp, p + topos, n)
        d2     == Move(d1, p + topos, p + start, size)
        d3     == Move(d2, p + topos + size, tmp, n)
        e1     == Move(c, tmp, p + start, n)
        e2     == Move(e1, p + start, p + endpos, topos - endpos)
        e3     == Move(e2, p + start + topos - endpos, tmp, n)
    IN  IF ~Moves(b, start, size, to) THEN b
        ELSE RemoveEnd(IF topos < start THEN d3 ELSE e3, n)

-----------------------------------------------------------------------------
(* The buffers and their callers. *)

At(x) ==
    LET o == obj[x] IN
    [buffer |-> o.buffer, maxbuffer |-> o.maxbuffer, begin |-> o.begin, end |-> o.end,
     borrowed |-> o.borrowed, heap |-> heap]
Fields(b) ==
    [buffer |-> b.buffer, maxbuffer |-> b.maxbuffer, begin |-> b.begin, end |-> b.end,
     borrowed |-> b.borrowed]

\* The other buffers that have block k, and those that have the block of x.
Others(x, k) == {y \in Buffers \ {x} : k # Null /\ obj[y].buffer = k}
Sharing(x) == Others(x, obj[x].buffer)

\* What is in the block of one buffer alone, before and behind its data, is
\* not told apart.
Tidied(b) ==
    [b EXCEPT !.heap[b.buffer] =
        [i \in DOMAIN @ |-> IF i \in Zone(@, b.begin, Cur(b)) THEN @[i] ELSE Junk]]

\* The call c on x leaves b behind.
Done(x, b, c) ==
    /\ obj' = [obj EXCEPT ![x] = Fields(b)]
    /\ heap' = IF b.buffer = Null \/ b.borrowed \/ Others(x, b.buffer) # {}
               THEN b.heap ELSE Tidied(b).heap
    /\ call' = c

Called(op, x, args) == [op |-> op, on |-> x, args |-> args]

Content(b) == [i \in 1..Cur(b) |-> b.heap[b.buffer][b.begin + i - 1]]
Data(x) == Content(At(x))

-----------------------------------------------------------------------------
(* What the callers owe, beyond dbuffer.h. *)

\* A block that another buffer shows is not written, and not freed by its owner.
\* Memory that a caller has lent may be written: nothing keeps it.
MayChange(x, inPlace) ==
    Careful => Sharing(x) = {} \/ (obj[x].borrowed /\ ~inPlace)

InPlace(x, size) == obj[x].maxbuffer - Cur(obj[x]) >= size

OwedFromBegin(x, size) ==
    /\ MayChange(x, InPlace(x, size))
    /\ Careful /\ InPlace(x, size) => obj[x].begin = 0 \/ obj[x].begin >= size

OwedFromMiddle(x, start, size) ==
    /\ MayChange(x, InPlace(x, size))
    /\ Careful => LET o == obj[x] IN
                  \/ ~InPlace(x, size) \/ start >= Cur(o)
                  \/ o.maxbuffer - o.end >= size
                  \/ o.maxbuffer = o.end /\ start + size >= Cur(o)

OwedReallocate(x, newsize, before, after) ==
    LET inPlace == obj[x].buffer # Null /\ obj[x].maxbuffer >= newsize + before + after IN
    /\ MayChange(x, inPlace)
    /\ Careful /\ inPlace => before = obj[x].begin

OwedResize(x, size) ==
    size > Cur(obj[x]) =>
        /\ MayChange(x, obj[x].maxbuffer >= size)
        /\ Careful => obj[x].maxbuffer >= size \/ Cur(obj[x]) = 0 \/ obj[x].begin = 0

OwedMoveData(x, start, size, to) ==
    Moves(At(x), start, size, to) =>
        /\ MayChange(x, TRUE)
        /\ Careful => LET o == obj[x] IN
                      /\ start + size <= Cur(o)
                      /\ o.begin = 0 \/ to <= Cur(o)
                      /\ o.maxbuffer - o.end >= IF to < start THEN start - to ELSE size

OwedCStr(x) ==
    obj[x].buffer # Null =>
        /\ MayChange(x, TRUE)
        /\ Careful => obj[x].end < obj[x].maxbuffer

OwedDetachMem(x) == Careful => Sharing(x) = {} /\ obj[x].begin = 0

\* A buffer attached to itself loses its bytes.
OwedAttach(x, y) == MayChange(x, FALSE) /\ (Careful => x # y)

-----------------------------------------------------------------------------
(* The calls. *)

\* The size bytes at off of the data are written by the caller.
Filled(b, off, size, v) ==
    IF size = 0 THEN b
    ELSE [b EXCEPT !.heap[b.buffer] =
            [i \in DOMAIN @ |-> IF i \in Zone(@, b.begin + off, size) THEN v ELSE @[i]]]

Inserted(x, at, size, v) == Called("insert", x, [at |-> at, bytes |-> [i \in 1..size |-> v]])
Removed(x, at, size) == Called("remove", x, [at |-> at, size |-> size])

CallPrepend(x, size, v) ==
    /\ OwedFromBegin(x, size)
    /\ Done(x, Filled(FromBegin(At(x), size), 0, size, v), Inserted(x, 0, size, v))

CallAppend(x, size, v) ==
    /\ MayChange(x, InPlace(x, size))
    /\ LET cur == Cur(obj[x]) IN
       Done(x, Filled(FromEnd(At(x), size), cur, size, v), Inserted(x, cur, size, v))

InsertMiddle(x, start, size, v) ==
    /\ OwedFromMiddle(x, start, size)
    /\ LET at == Min({start, Cur(obj[x])}) IN
       Done(x, Filled(FromMiddle(At(x), start, size), at, size, v), Inserted(x, at, size, v))

CallRemoveBegin(x, size) == Done(x, RemoveBegin(At(x), size), Removed(x, 0, size))

CallRemoveEnd(x, size) ==
    LET n == Min({size, Cur(obj[x])}) IN
    Done(x, RemoveEnd(At(x), size), Removed(x, Cur(obj[x]) - n, n))

CallRemoveMiddle(x, start, size) ==
    /\ start + size <= Cur(obj[x]) => MayChange(x, TRUE)
    /\ Done(x, RemoveMiddle(At(x), start, size),
            IF start + size <= Cur(obj[x]) THEN Removed(x, start, size)
            ELSE Called("keep", x, <<>>))

Clear(x) == Done(x, [At(x) EXCEPT !.begin = 0, !.end = 0], Removed(x, 0, Cur(obj[x])))

CallMoveData(x, start, size, to) ==
    /\ OwedMoveData(x, start, size, to)
    /\ Done(x, MoveData(At(x), start, size, to),
            IF Moves(At(x), start, size, to)
            THEN Called("move", x, [start |-> start, size |-> size,
                                    to |-> Min({to, Cur(obj[x])})])
            ELSE Called("keep", x, <<>>))

CallResize(x, size, reserved) ==
    /\ OwedResize(x, size)
    /\ Done(x, ResizeTo(At(x), size, reserved), Called("resize", x, [size |-> size]))

\* Also the constructor DBuffer(size), on a buffer that has no block.
CallReserve(x, size) ==
    /\ MayChange(x, FALSE)
    /\ Done(x, Reserve(At(x), size), Called("keep", x, <<>>))

CallReallocate(x, newsize, before, after) ==
    /\ OwedReallocate(x, newsize, before, after)
    /\ Done(x, Reallocate(At(x), newsize, before, after),
            Called("resize", x, [size |-> newsize]))

\* v, which is 0, is written behind the data.  If the block is full that is
\* behind its end, where EXCEPT writes nothing.
CStr(x, v) ==
    LET b == At(x) IN
    /\ OwedCStr(x)
    /\ Done(x, IF b.buffer = Null THEN b ELSE [b EXCEPT !.heap[b.buffer][b.end] = v],
            Called("keep", x, <<>>))

\* flags & 1 is cleared with the rest.
SetUnusedUpper(x) ==
    /\ Careful => ~obj[x].borrowed
    /\ Done(x, [At(x) EXCEPT !.borrowed = FALSE], Called("keep", x, <<>>))

Released(b) ==
    [b EXCEPT !.buffer = Null, !.maxbuffer = 0, !.begin = 0, !.end = 0,
              !.borrowed = FALSE, !.heap = Freed(b)]

\* Also the destructor.
Deallocate(x) ==
    /\ MayChange(x, FALSE)
    /\ Done(x, Released(At(x)), Called("drop", x, <<>>))
    /\ UNCHANGED callers

\* Memory of a caller with bytes v.
Lend(b, size, v, end) ==
    LET k == NewBlock(b.heap) IN
    [b EXCEPT !.buffer = k, !.maxbuffer = size, !.begin = 0, !.end = end, !.borrowed = TRUE,
              !.heap[k] = [i \in 0..(size - 1) |-> v]]

AttachMem(x, size, v) ==
    /\ MayChange(x, FALSE)
    /\ LET b == Lend(Released(At(x)), size, v, size) IN
       /\ Done(x, b, Called("wrap", x, [i \in 1..size |-> v]))
       /\ callers' = callers \cup {b.buffer}

\* The constructor DBuffer(mem, size): end is 0 and not size.
Construct(x, size, v) ==
    /\ obj[x] = Empty
    /\ LET b == Lend(At(x), size, v, 0) IN
       /\ Done(x, b, Called("keep", x, <<>>))
       /\ callers' = callers \cup {b.buffer}

\* The address returned is that of the block, whose bytes are the caller's from
\* then on.  Of borrowed memory a copy is made, and forgotten.  The block itself
\* is returned, as any other.
DetachMem(x) ==
    /\ OwedDetachMem(x)
    /\ LET b    == At(x)
           copy == NewBlock(heap)
           ret  == [i \in 1..Cur(b) |-> Mem(b)[i - 1]]
       IN  /\ obj' = [obj EXCEPT ![x] = Empty]
           /\ heap' = IF b.borrowed
                      THEN [heap EXCEPT ![copy] = Copied(Fresh(Cur(b)), 0, Mem(b), b.begin, Cur(b))]
                      ELSE [k \in Blocks |-> IF k = b.buffer THEN Fresh(b.maxbuffer) ELSE heap[k]]
           /\ callers' = callers \cup ({b.buffer} \ {Null})
           /\ call' = Called("detach", x, ret)

\* The block that y has is not freed.
AssignTo(x, y) ==
    /\ obj' = [obj EXCEPT ![y] = obj[x], ![x].borrowed = TRUE]
    /\ call' = Called("assign", x, y)
    /\ UNCHANGED <<heap, callers>>

AttachShared(x, y) ==   \* mutant: the other buffer is not reset
    /\ OwedAttach(x, y)
    /\ obj' = [obj EXCEPT ![x] = obj[y]]
    /\ heap' = Freed(At(x))
    /\ call' = Called("take", x, y)
    /\ UNCHANGED callers

Attach(x, y) ==
    /\ OwedAttach(x, y)
    /\ obj' = [obj EXCEPT ![x] = obj[y], ![y] = Empty]
    /\ heap' = Freed(At(x))
    /\ call' = Called("take", x, y)
    /\ UNCHANGED callers

\* A caller frees its own memory: freeDetachMem, or what was lent.
FreeMem(k) ==
    /\ \A x \in Buffers : obj[x].buffer # k
    /\ heap' = [heap EXCEPT ![k] = Unallocated]
    /\ callers' = callers \ {k}
    /\ call' = [op |-> "free"]
    /\ UNCHANGED obj

-----------------------------------------------------------------------------
Total(S, f(_)) == MapThenSumSet(f, S)

Bounded ==
    /\ UnusedBlocks(heap) # {} /\ Cardinality(callers) <= 1
    /\ Total(Buffers, LAMBDA x : Cur(obj[x])) <= MaxSize
    /\ Total(Blocks, LAMBDA k : Cardinality(DOMAIN heap[k])) <= MaxMemory

Sizes == 0..MaxSize

Edit(x) ==
    \/ Clear(x) \/ SetUnusedUpper(x) \/ \E v \in Bytes \ {Junk} : CStr(x, v)
    \/ \E n \in Sizes :
        \/ CallRemoveBegin(x, n) \/ CallRemoveEnd(x, n)
        \/ CallReserve(x, n)
        \/ \E m \in Sizes : CallRemoveMiddle(x, m, n) \/ CallResize(x, n, m)
        \/ \E k \in Sizes, to \in Sizes \cup {MaxMemory} : CallMoveData(x, k, n, to)
        \/ \E k, m \in Sizes : k + n + m <= MaxSize /\ CallReallocate(x, n, k, m)
        \/ \E v \in Bytes \ {Junk} :
            \/ CallPrepend(x, n, v) \/ CallAppend(x, n, v)
            \/ \E k \in Sizes : InsertMiddle(x, k, n, v)

HandOver(x) ==
    \/ Deallocate(x) \/ DetachMem(x)
    \/ \E n \in Sizes \ {0}, v \in Bytes \ {Junk} : AttachMem(x, n, v) \/ Construct(x, n, v)
    \/ \E y \in Buffers : AssignTo(x, y) \/ Attach(x, y)

Init ==
    /\ obj = [x \in Buffers |-> Empty]
    /\ heap = [k \in Blocks |-> Unallocated]
    /\ callers = {}
    /\ call = [op |-> "none"]

DBNext ==
    /\ \/ \E x \in Buffers : (Edit(x) /\ UNCHANGED callers) \/ HandOver(x)
       \/ \E k \in callers : FreeMem(k)
    /\ Bounded'

DBSpec == Init /\ [][DBNext]_dbVars

-----------------------------------------------------------------------------
(* Properties. *)

Fitting(o) ==
    /\ o.begin \in Nat /\ o.end \in Nat /\ o.maxbuffer \in Nat
    /\ o.begin <= o.end /\ o.end <= o.maxbuffer
    /\ o.borrowed \in BOOLEAN
    /\ o.buffer \in Blocks \cup {Null}

\* If the callers keep what they owe, the data of a buffer lies within its block,
\* which is allocated and has the size in maxbuffer (every member function of
\* dbuffer.cpp).
DataInBlock ==
    /\ \A x \in Buffers :
          LET o == obj[x] IN
          /\ Fitting(o)
          /\ o.buffer = Null => o.maxbuffer = 0
          /\ o.buffer # Null => DOMAIN heap[o.buffer] = 0..(o.maxbuffer - 1)
    /\ \A k \in Blocks : \A i \in DOMAIN heap[k] : heap[k][i] \in Bytes
    /\ callers \subseteq Blocks

\* The buffers that must free block k, and the allocated blocks that nobody will.
Owners(k) == {x \in Buffers : obj[x].buffer = k /\ ~obj[x].borrowed}
Lost == {k \in Blocks : heap[k] # Unallocated /\ k \notin callers /\ Owners(k) = {}}

\* No block has two owners, buffers that have not borrowed it or a caller, and no
\* buffer shows one that was freed: none is freed twice or used behind that, if
\* no shared block is freed by its owner, detached or declared owned (deallocate,
\* attach, assignTo, detachMem and every function that takes a new block).
OneOwner ==
    \A k \in Blocks :
        /\ \A x, y \in Owners(k) : x = y
        /\ k \in callers => Owners(k) = {}
        /\ heap[k] = Unallocated => k \notin callers /\ \A x \in Buffers : obj[x].buffer # k

\* A block gets lost in two ways only: assignTo does not free what the other
\* buffer owned, and detachMem forgets the copy of borrowed memory.
LeaksAreTwo ==
    [][\A k \in Lost' \ Lost :
          \/ call'.op = "assign" /\ obj[call'.args].buffer = k
          \/ call'.op = "detach" /\ obj[call'.on].borrowed]_dbVars

\* Each call whose caller keeps what it owes does to the bytes of the buffers what
\* ByteSeq says: growing at either end and in the middle, moving bytes, handing
\* blocks over.  What is owed excludes resize to a new block with bytes before
\* begin, moveData without room behind the data or from bytes that are not there,
\* and changes of a block that another buffer shows.
Abstract == INSTANCE ByteSeq WITH data <- [x \in Buffers |-> Data(x)]
ImplementsByteSeq == Abstract!Spec

-----------------------------------------------------------------------------
(* What dbuffer.h says of calls. *)

\* Memory used in place is only read: "when the first write operation is made,
\* the memory is copied, so that the memory given is not destroyed".
LentKept ==
    [][\A k \in callers : call'.op = "free" \/ (k \in callers' /\ heap'[k] = heap[k])]_dbVars
=============================================================================
