----------------------------- MODULE MCDBuffer ------------------------------
(* DBuffer on small instances.  ByteSeq asks of a step only for the call that  *)
(* it made, so states that differ in the call made last are taken as one; and  *)
(* so are those that differ in bytes that are in no buffer's data: they are as *)
(* good as not written.                                                        *)
EXTENDS DBuffer

InData(k, i) ==
    \E x \in Buffers : obj[x].buffer = k /\ i \in obj[x].begin..(obj[x].end - 1)
Seen == [k \in Blocks |-> [i \in DOMAIN heap[k] |-> IF InData(k, i) THEN heap[k][i] ELSE Junk]]

MCView == <<obj, Seen, callers>>
MCSymmetry == Permutations(Buffers) \cup Permutations(Bytes \ {Junk})
=============================================================================
