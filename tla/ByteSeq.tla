------------------------------ MODULE ByteSeq -------------------------------
(***************************************************************************)
(* What the buffers of dbuffer.h promise their callers, without memory:    *)
(* each buffer is a sequence of bytes, and a call changes the sequence of  *)
(* the buffer it is made on, and of no other unless it hands one over.     *)
(* The call a step makes is the value call has behind it.                  *)
(***************************************************************************)
EXTENDS Naturals, Sequences, SequencesExt

CONSTANTS
    Buffers,        \* the DBuffer objects
    Bytes           \* the values of a byte, one of which stands for "any"

VARIABLES
    data,           \* data[x]: the bytes of buffer x, in order
    call            \* the call made last

Calls(op, args) == [op : {op}, on : Buffers, args : args]

-----------------------------------------------------------------------------
Init ==
    /\ data = [x \in Buffers |-> <<>>]
    /\ call = [op |-> "none"]

\* fromBegin, fromEnd and fromMiddle, and the caller has filled the bytes:
\* append, prepend, the operators +.
Insert ==
    /\ call' \in Calls("insert", [at : Nat, bytes : Seq(Bytes)])
    /\ LET at == call'.args.at IN
       /\ at <= Len(data[call'.on])
       /\ data' = [data EXCEPT ![call'.on] =
                      SubSeq(@, 1, at) \o call'.args.bytes \o SubSeq(@, at + 1, Len(@))]

\* removeBegin, removeEnd, removeMiddle, clear.
Erase ==
    /\ call' \in Calls("remove", [at : Nat, size : Nat])
    /\ LET a == call'.args IN
       data' = [data EXCEPT ![call'.on] =
                   SubSeq(@, 1, a.at) \o SubSeq(@, a.at + a.size + 1, Len(@))]

\* moveData: so many bytes go where another byte begins.
Move ==
    /\ call' \in Calls("move", [start : Nat, size : Nat, to : Nat])
    /\ LET a     == call'.args
           d     == data[call'.on]
           chunk == SubSeq(d, a.start + 1, a.start + a.size)
       IN  data' = [data EXCEPT ![call'.on] =
               IF a.to <= a.start
               THEN SubSeq(d, 1, a.to) \o chunk \o SubSeq(d, a.to + 1, a.start)
                        \o SubSeq(d, a.start + a.size + 1, Len(d))
               ELSE SubSeq(d, 1, a.start) \o SubSeq(d, a.start + a.size + 1, a.to)
                        \o chunk \o SubSeq(d, a.to + 1, Len(d))]

\* resize and reallocate: what was there is kept as far as there is room for
\* it.  Behind it there may be any bytes.
Resize ==
    /\ call' \in Calls("resize", [size : Nat])
    /\ LET x == call'.on IN
       /\ data' = [data EXCEPT ![x] = data'[x]]
       /\ Len(data'[x]) = call'.args.size
       /\ IsPrefix(data'[x], data[x]) \/ IsPrefix(data[x], data'[x])

\* reserve, setUnusedUpper, c_str and the constructors: there is room, nothing
\* else.
Keep ==
    /\ call' \in Calls("keep", {<<>>})
    /\ UNCHANGED data

\* deallocate and the destructor.
Drop ==
    /\ call' \in Calls("drop", {<<>>})
    /\ data' = [data EXCEPT ![call'.on] = <<>>]

\* detachMem: the bytes are at the address it returns.
Detach ==
    /\ call' \in Calls("detach", Seq(Bytes))
    /\ call'.args = data[call'.on]
    /\ data' = [data EXCEPT ![call'.on] = <<>>]

\* attachMem: the bytes of the caller.
Wrap ==
    /\ call' \in Calls("wrap", Seq(Bytes))
    /\ data' = [data EXCEPT ![call'.on] = call'.args]

\* assignTo: the other buffer has the bytes now; this one still shows them.
Assign ==
    /\ call' \in Calls("assign", Buffers)
    /\ data' = [data EXCEPT ![call'.args] = data[call'.on]]

\* attach: this buffer takes the bytes of the other.
Take ==
    /\ call' \in Calls("take", Buffers)
    /\ call'.args # call'.on
    /\ data' = [data EXCEPT ![call'.on] = data[call'.args], ![call'.args] = <<>>]

\* The caller frees memory of its own.
Free ==
    /\ call' = [op |-> "free"]
    /\ UNCHANGED data

Next == Insert \/ Erase \/ Move \/ Resize \/ Keep \/ Drop \/ Detach \/ Wrap \/ Assign \/ Take \/ Free

Spec == Init /\ [][Next]_<<data, call>>
=============================================================================
