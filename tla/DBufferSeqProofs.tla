-------------------------- MODULE DBufferSeqProofs --------------------------
(***************************************************************************)
(* Proof that DBuffer implements ByteSeq, for every set of buffers, blocks *)
(* and bytes and every bound, with callers that keep what they owe.        *)
(*                                                                         *)
(* DBufferProofs says at which place of the data each member function      *)
(* leaves each byte.  Here that becomes an equation between sequences (the *)
(* first section), nothing changes for any other buffer (the second), and  *)
(* so each call is a step of ByteSeq.                                      *)
(***************************************************************************)
EXTENDS DBufferProofs, SequenceTheorems

-----------------------------------------------------------------------------
(* Sequences, piece by piece. *)

\* A function on 1..n is a sequence of n.
LEMMA FunctionSeq ==
    ASSUME NEW S, NEW n \in Nat, NEW f \in [1..n -> S]
    PROVE  f \in Seq(S) /\ Len(f) = n
  OBVIOUS

\* r begins with a and then b.
LEMMA BeginsWith ==
    ASSUME NEW S, NEW a \in Seq(S), NEW b \in Seq(S), NEW r,
           \A i \in 1..Len(a) : r[i] = a[i],
           \A i \in 1..Len(b) : r[Len(a) + i] = b[i]
    PROVE  /\ a \o b \in Seq(S) /\ Len(a \o b) = Len(a) + Len(b)
           /\ \A i \in 1..Len(a \o b) : r[i] = (a \o b)[i]
<1> DEFINE c == a \o b
<1>1. Len(a) \in Nat /\ Len(b) \in Nat
  BY LenProperties
<1>2. /\ c \in Seq(S) /\ Len(c) = Len(a) + Len(b)
      /\ \A i \in 1..(Len(a) + Len(b)) : c[i] = IF i <= Len(a) THEN a[i] ELSE b[i - Len(a)]
  BY ConcatProperties
<1> HIDE DEF c
<1>3. ASSUME NEW i \in 1..Len(c)
      PROVE  r[i] = c[i]
  <2>1. CASE i <= Len(a)
    <3>1. i \in 1..Len(a)
      BY <1>1, <1>2, <2>1
    <3>2. QED
      BY <1>2, <2>1, <3>1
  <2>2. CASE ~(i <= Len(a))
    <3>1. i - Len(a) \in 1..Len(b) /\ Len(a) + (i - Len(a)) = i
      BY <1>1, <1>2, <2>2
    <3>2. r[i] = b[i - Len(a)]
      BY <3>1
    <3>3. c[i] = b[i - Len(a)]
      BY <1>1, <1>2, <2>2
    <3>4. QED
      BY <3>2, <3>3
  <2>3. QED
    BY <2>1, <2>2
<1>4. QED
  BY <1>2, <1>3 DEF c

\* r is a and then b.
LEMMA TwoPieces ==
    ASSUME NEW S, NEW a \in Seq(S), NEW b \in Seq(S), NEW r \in Seq(S),
           Len(r) = Len(a) + Len(b),
           \A i \in 1..Len(a) : r[i] = a[i],
           \A i \in 1..Len(b) : r[Len(a) + i] = b[i]
    PROVE  r = a \o b
<1> DEFINE c == a \o b
<1>1. c \in Seq(S) /\ Len(c) = Len(r) /\ \A i \in 1..Len(c) : r[i] = c[i]
  BY BeginsWith
<1> HIDE DEF c
<1>2. QED
  BY <1>1, SeqEqual DEF c

\* r is a, then b, then c.
LEMMA ThreePieces ==
    ASSUME NEW S, NEW a \in Seq(S), NEW b \in Seq(S), NEW c \in Seq(S), NEW r \in Seq(S),
           Len(r) = Len(a) + Len(b) + Len(c),
           \A i \in 1..Len(a) : r[i] = a[i],
           \A i \in 1..Len(b) : r[Len(a) + i] = b[i],
           \A i \in 1..Len(c) : r[Len(a) + Len(b) + i] = c[i]
    PROVE  r = a \o b \o c
<1> DEFINE d == a \o b
<1>1. d \in Seq(S) /\ Len(d) = Len(a) + Len(b) /\ \A i \in 1..Len(d) : r[i] = d[i]
  <2>1. /\ \A i \in 1..Len(a) : r[i] = a[i]
        /\ \A i \in 1..Len(b) : r[Len(a) + i] = b[i]
    OBVIOUS
  <2>2. QED
    BY ONLY <2>1, BeginsWith, a \in Seq(S), b \in Seq(S)
<1> HIDE DEF d
<1>2. Len(r) = Len(d) + Len(c) /\ \A i \in 1..Len(c) : r[Len(d) + i] = c[i]
  BY <1>1
<1>3. QED
  BY <1>1, <1>2, TwoPieces DEF d

\* Element by element, r is a, then b, then c, then d.
Joined(r, a, b, c, d) ==
    /\ Len(r) = Len(a) + Len(b) + Len(c) + Len(d)
    /\ \A i \in 1..Len(a) : r[i] = a[i]
    /\ \A i \in 1..Len(b) : r[Len(a) + i] = b[i]
    /\ \A i \in 1..Len(c) : r[Len(a) + Len(b) + i] = c[i]
    /\ \A i \in 1..Len(d) : r[Len(a) + Len(b) + Len(c) + i] = d[i]

\* So it is the four of them in a row.
LEMMA FourPieces ==
    ASSUME NEW S, NEW a \in Seq(S), NEW b \in Seq(S), NEW c \in Seq(S), NEW d \in Seq(S),
           NEW r \in Seq(S), Joined(r, a, b, c, d)
    PROVE  r = a \o b \o c \o d
<1> DEFINE e == a \o b
<1>1. e \in Seq(S) /\ Len(e) = Len(a) + Len(b) /\ \A i \in 1..Len(e) : r[i] = e[i]
  <2>1. /\ \A i \in 1..Len(a) : r[i] = a[i]
        /\ \A i \in 1..Len(b) : r[Len(a) + i] = b[i]
    BY DEF Joined
  <2>2. QED
    BY ONLY <2>1, BeginsWith, a \in Seq(S), b \in Seq(S)
<1> HIDE DEF e
<1>2. /\ Len(r) = Len(e) + Len(c) + Len(d)
      /\ \A i \in 1..Len(c) : r[Len(e) + i] = c[i]
      /\ \A i \in 1..Len(d) : r[Len(e) + Len(c) + i] = d[i]
  BY <1>1 DEF Joined
<1>3. e \in Seq(S) /\ c \in Seq(S) /\ d \in Seq(S) /\ r \in Seq(S)
  BY <1>1
<1>4. r = e \o c \o d
  <2>1. /\ Len(r) = Len(e) + Len(c) + Len(d)
        /\ \A i \in 1..Len(e) : r[i] = e[i]
        /\ \A i \in 1..Len(c) : r[Len(e) + i] = c[i]
        /\ \A i \in 1..Len(d) : r[Len(e) + Len(c) + i] = d[i]
    BY ONLY <1>1, <1>2
  <2>2. QED
    BY ONLY <1>3, <2>1, ThreePieces
<1>5. QED
  BY <1>4 DEF e

\* Part of a sequence, from behind the first lo elements to hi.
LEMMA PartOf ==
    ASSUME NEW S, NEW s \in Seq(S), NEW lo \in Nat, NEW hi \in Nat, hi <= Len(s)
    PROVE  /\ SubSeq(s, lo + 1, hi) \in Seq(S)
           /\ Len(SubSeq(s, lo + 1, hi)) = IF lo <= hi THEN hi - lo ELSE 0
           /\ \A i \in 1..Len(SubSeq(s, lo + 1, hi)) : SubSeq(s, lo + 1, hi)[i] = s[lo + i]
<1>1. lo + 1 \in Int /\ hi \in Int /\ Len(s) \in Nat
  BY LenProperties
<1>2. \A i \in (lo + 1)..hi : s[i] \in S
  <2>1. \A i \in (lo + 1)..hi : i \in 1..Len(s)
    BY <1>1
  <2>2. QED
    BY <2>1, ElementOfSeq
<1>3. /\ SubSeq(s, lo + 1, hi) \in Seq(S)
      /\ Len(SubSeq(s, lo + 1, hi)) = IF lo + 1 <= hi THEN hi - (lo + 1) + 1 ELSE 0
      /\ \A i \in 1..(hi - (lo + 1) + 1) : SubSeq(s, lo + 1, hi)[i] = s[(lo + 1) + i - 1]
  BY <1>1, <1>2, SubSeqProperties
<1>4. QED
  BY <1>3

\* Its first hi elements.
LEMMA FirstOf ==
    ASSUME NEW S, NEW s \in Seq(S), NEW hi \in Nat, hi <= Len(s)
    PROVE  /\ SubSeq(s, 1, hi) \in Seq(S) /\ Len(SubSeq(s, 1, hi)) = hi
           /\ \A i \in 1..hi : SubSeq(s, 1, hi)[i] = s[i]
<1> DEFINE lo == 0
           a  == SubSeq(s, lo + 1, hi)
<1>1. lo \in Nat /\ lo + 1 = 1 /\ lo <= hi /\ hi - lo = hi /\ \A i \in 1..hi : lo + i = i
  OBVIOUS
<1> HIDE DEF lo
<1>2. a \in Seq(S) /\ Len(a) = hi /\ \A i \in 1..hi : a[i] = s[lo + i]
  BY <1>1, PartOf
<1>3. QED
  BY <1>1, <1>2

\* In r, t stands between the first at bytes of s and the others.
Between(r, s, t, at) ==
    /\ at <= Len(s) /\ Len(r) = Len(s) + Len(t)
    /\ \A i \in 1..Len(s) : r[Past(i, at, Len(t))] = s[i]
    /\ \A i \in 1..Len(t) : r[at + i] = t[i]

\* So r is s with t in it.
LEMMA InsertedSeq ==
    ASSUME NEW S, NEW s \in Seq(S), NEW t \in Seq(S), NEW r \in Seq(S), NEW at \in Nat,
           Between(r, s, t, at)
    PROVE  r = SubSeq(s, 1, at) \o t \o SubSeq(s, at + 1, Len(s))
<1> DEFINE a == SubSeq(s, 1, at)
           b == SubSeq(s, at + 1, Len(s))
<1>1. Len(s) \in Nat /\ Len(t) \in Nat /\ at <= Len(s)
  BY LenProperties DEF Between
<1>2. a \in Seq(S) /\ Len(a) = at /\ \A i \in 1..at : a[i] = s[i]
  BY <1>1, FirstOf
<1>3. /\ b \in Seq(S) /\ Len(b) = Len(s) - at
      /\ \A i \in 1..(Len(s) - at) : b[i] = s[at + i]
  BY <1>1, PartOf
<1> HIDE DEF a, b
<1>4. Len(r) = Len(a) + Len(t) + Len(b)
  BY <1>1, <1>2, <1>3 DEF Between
<1>5. ASSUME NEW i \in 1..Len(a)
      PROVE  r[i] = a[i]
  <2>1. i \in 1..Len(s) /\ i \in 1..at /\ Past(i, at, Len(t)) = i
    BY <1>1, <1>2 DEF Past
  <2>2. r[Past(i, at, Len(t))] = s[i]
    BY <2>1 DEF Between
  <2>3. QED
    BY <1>2, <2>1, <2>2
<1>6. \A i \in 1..Len(t) : r[Len(a) + i] = t[i]
  BY <1>2 DEF Between
<1>7. ASSUME NEW i \in 1..Len(b)
      PROVE  r[Len(a) + Len(t) + i] = b[i]
  <2>1. at + i \in 1..Len(s) /\ ~(at + i <= at)
    BY <1>1, <1>3
  <2>2. r[(at + i) + Len(t)] = s[at + i]
    BY <2>1 DEF Past, Between
  <2>3. (at + i) + Len(t) = Len(a) + Len(t) + i
    BY <1>1, <1>2, <1>3
  <2>4. QED
    BY <1>3, <2>2, <2>3
<1>8. r = a \o t \o b
  BY <1>2, <1>3, <1>4, <1>5, <1>6, <1>7, ThreePieces
<1>9. QED
  BY <1>8 DEF a, b

\* In r, the size bytes of s behind the first at are gone.
Without(r, s, at, size) ==
    /\ at <= Len(s)
    /\ Len(r) = IF at + size <= Len(s) THEN Len(s) - size ELSE at
    /\ \A i \in 1..Len(s) : i <= at => r[i] = s[i]
    /\ \A i \in 1..Len(s) : i > at + size => r[i - size] = s[i]

\* So r is what stood before them and what stood behind.
LEMMA ErasedSeq ==
    ASSUME NEW S, NEW s \in Seq(S), NEW r \in Seq(S), NEW at \in Nat, NEW size \in Nat,
           Without(r, s, at, size)
    PROVE  r = SubSeq(s, 1, at) \o SubSeq(s, at + size + 1, Len(s))
<1> DEFINE lo == at + size
           a  == SubSeq(s, 1, at)
           b  == SubSeq(s, lo + 1, Len(s))
<1>1. Len(s) \in Nat /\ lo \in Nat /\ at <= Len(s)
  BY LenProperties DEF Without
<1>2. a \in Seq(S) /\ Len(a) = at /\ \A i \in 1..at : a[i] = s[i]
  BY <1>1, FirstOf
<1> HIDE DEF lo
<1>3. /\ b \in Seq(S) /\ Len(b) = IF lo <= Len(s) THEN Len(s) - lo ELSE 0
      /\ \A i \in 1..Len(b) : b[i] = s[lo + i]
  BY <1>1, PartOf
<1> HIDE DEF a, b
<1>4. Len(r) = Len(a) + Len(b)
  BY <1>1, <1>2, <1>3 DEF Without, lo
<1>5. \A i \in 1..Len(a) : r[i] = a[i]
  BY <1>1, <1>2 DEF Without
<1>6. ASSUME NEW i \in 1..Len(b)
      PROVE  r[Len(a) + i] = b[i]
  <2> DEFINE j == lo + i
  <2>1. j \in 1..Len(s) /\ j > at + size /\ j - size = Len(a) + i
    BY <1>1, <1>2, <1>3 DEF lo
  <2>2. b[i] = s[j]
    BY <1>3
  <2> HIDE DEF j
  <2>3. r[j - size] = s[j]
    BY <2>1 DEF Without
  <2>4. QED
    BY <2>1, <2>2, <2>3
<1>7. r = a \o b
  BY <1>2, <1>3, <1>4, <1>5, <1>6, TwoPieces
<1>8. QED
  BY <1>7 DEF a, b, lo

\* s is the beginning of t.
LEMMA PrefixSeq ==
    ASSUME NEW S, NEW s \in Seq(S), NEW t \in Seq(S), Len(s) <= Len(t),
           \A i \in 1..Len(s) : s[i] = t[i]
    PROVE  IsPrefix(s, t)
<1> DEFINE a == SubSeq(t, 1, Len(s))
<1>1. Len(s) \in Nat /\ 0 \in Nat
  BY LenProperties
<1>2. a \in Seq(S) /\ Len(a) = Len(s) /\ \A i \in 1..Len(s) : a[i] = t[i]
  BY <1>1, FirstOf
<1> HIDE DEF a
<1>3. s = a
  BY <1>2, SeqEqual
<1>4. SubSeq(s, 1, Len(s)) = s
  BY SubSeqFull
<1>5. QED
  BY <1>3, <1>4 DEF IsPrefix, a

\* The size bytes of s behind the first start now begin where byte t was.
Rearranged(r, s, start, size, t) ==
    /\ start + size <= Len(s) /\ t <= Len(s) /\ (t < start \/ t > start + size)
    /\ Len(r) = Len(s) /\ \A i \in 1..Len(s) : r[i] = s[Origin(i, start, size, t)]

\* They are what ByteSeq moves.
MovedTo(s, start, size, t) ==
    LET chunk == SubSeq(s, start + 1, start + size) IN
    IF t <= start
    THEN SubSeq(s, 1, t) \o chunk \o SubSeq(s, t + 1, start)
            \o SubSeq(s, start + size + 1, Len(s))
    ELSE SubSeq(s, 1, start) \o SubSeq(s, start + size + 1, t)
            \o chunk \o SubSeq(s, t + 1, Len(s))

\* And nothing else comes of it.
LEMMA MovedSeq ==
    ASSUME NEW S, NEW s \in Seq(S), NEW r \in Seq(S),
           NEW start \in Nat, NEW size \in Nat, NEW t \in Nat, Rearranged(r, s, start, size, t)
    PROVE  r = MovedTo(s, start, size, t)
<1> DEFINE end   == start + size
           chunk == SubSeq(s, start + 1, end)
<1>1. /\ Len(s) \in Nat /\ end \in Nat /\ end <= Len(s) /\ start <= end /\ end - start = size
      /\ t <= Len(s) /\ (t < start \/ t > start + size)
      /\ Len(r) = Len(s) /\ \A i \in 1..Len(s) : r[i] = s[Origin(i, start, size, t)]
  BY LenProperties DEF Rearranged
<1> HIDE DEF end
<1>2. /\ chunk \in Seq(S) /\ Len(chunk) = size
      /\ \A i \in 1..size : chunk[i] = s[start + i]
  BY <1>1, PartOf
<1> HIDE DEF chunk
<1>3. CASE t < start
  <2> DEFINE a == SubSeq(s, 1, t)
             c == SubSeq(s, t + 1, start)
             d == SubSeq(s, end + 1, Len(s))
  <2>1. a \in Seq(S) /\ Len(a) = t /\ \A i \in 1..t : a[i] = s[i]
    BY <1>1, FirstOf
  <2>2. c \in Seq(S) /\ Len(c) = start - t /\ \A i \in 1..(start - t) : c[i] = s[t + i]
    BY <1>1, <1>3, PartOf
  <2>3. /\ d \in Seq(S) /\ Len(d) = Len(s) - end
        /\ \A i \in 1..(Len(s) - end) : d[i] = s[end + i]
    BY <1>1, PartOf
  <2> HIDE DEF a, c, d
  <2>4. Len(r) = Len(a) + Len(chunk) + Len(c) + Len(d)
    BY <1>1, <1>2, <2>1, <2>2, <2>3
  <2>5. ASSUME NEW i \in 1..Len(a)
        PROVE  r[i] = a[i]
    <3>1. i \in 1..Len(s) /\ i \in 1..t /\ Origin(i, start, size, t) = i
      BY <1>1, <1>3, <2>1 DEF Origin
    <3>2. QED
      BY <1>1, <2>1, <3>1
  <2>6. ASSUME NEW i \in 1..Len(chunk)
        PROVE  r[Len(a) + i] = chunk[i]
    <3>1. t + i \in 1..Len(s) /\ i \in 1..size /\ Origin(t + i, start, size, t) = start + i
      BY <1>1, <1>2, <1>3 DEF Origin
    <3>2. QED
      BY <1>1, <1>2, <2>1, <3>1
  <2>7. ASSUME NEW i \in 1..Len(c)
        PROVE  r[Len(a) + Len(chunk) + i] = c[i]
    <3>1. /\ t + size + i \in 1..Len(s) /\ i \in 1..(start - t)
          /\ Origin(t + size + i, start, size, t) = t + i
      BY <1>1, <1>3, <2>2 DEF Origin
    <3>2. QED
      BY <1>1, <1>2, <2>1, <2>2, <3>1
  <2>8. ASSUME NEW i \in 1..Len(d)
        PROVE  r[Len(a) + Len(chunk) + Len(c) + i] = d[i]
    <3> DEFINE p == end + i
    <3>1. p \in 1..Len(s) /\ i \in 1..(Len(s) - end) /\ Origin(p, start, size, t) = p
      BY <1>1, <1>3, <2>3 DEF Origin, end
    <3>2. Len(a) + Len(chunk) + Len(c) + i = p
      BY <1>1, <1>2, <2>1, <2>2, <3>1 DEF end
    <3>3. d[i] = s[p]
      BY <2>3, <3>1
    <3> HIDE DEF p
    <3>4. r[p] = s[p]
      BY <1>1, <3>1
    <3>5. QED
      BY <3>2, <3>3, <3>4
  <2>9. r = a \o chunk \o c \o d
    <3>1. a \in Seq(S) /\ chunk \in Seq(S) /\ c \in Seq(S) /\ d \in Seq(S)
      BY <1>2, <2>1, <2>2, <2>3
    <3>2. Joined(r, a, chunk, c, d)
      BY <2>4, <2>5, <2>6, <2>7, <2>8 DEF Joined
    <3>3. QED
      BY ONLY <3>1, <3>2, FourPieces, r \in Seq(S)
  <2>10. t <= start
    BY <1>3
  <2>11. QED
    BY ONLY <2>9, <2>10 DEF a, c, d, chunk, end, MovedTo
<1>4. CASE t > start + size
  <2> DEFINE a == SubSeq(s, 1, start)
             b == SubSeq(s, end + 1, t)
             d == SubSeq(s, t + 1, Len(s))
  <2>1. a \in Seq(S) /\ Len(a) = start /\ \A i \in 1..start : a[i] = s[i]
    BY <1>1, FirstOf
  <2>2. b \in Seq(S) /\ Len(b) = t - end /\ \A i \in 1..(t - end) : b[i] = s[end + i]
    BY <1>1, <1>4, PartOf DEF end
  <2>3. /\ d \in Seq(S) /\ Len(d) = Len(s) - t
        /\ \A i \in 1..(Len(s) - t) : d[i] = s[t + i]
    <3> DEFINE n == Len(s)
    <3>1. n \in Nat /\ n <= Len(s) /\ t <= n
      BY <1>1
    <3> HIDE DEF n
    <3>2. QED
      BY <3>1, PartOf DEF n
  <2> HIDE DEF a, b, d
  <2>4. Len(r) = Len(a) + Len(b) + Len(chunk) + Len(d)
    BY <1>1, <1>2, <2>1, <2>2, <2>3
  <2>5. ASSUME NEW i \in 1..Len(a)
        PROVE  r[i] = a[i]
    <3>1. i \in 1..Len(s) /\ i \in 1..start /\ Origin(i, start, size, t) = i
      BY <1>1, <1>4, <2>1 DEF Origin
    <3>2. QED
      BY <1>1, <2>1, <3>1
  <2>6. ASSUME NEW i \in 1..Len(b)
        PROVE  r[Len(a) + i] = b[i]
    <3>1. /\ start + i \in 1..Len(s) /\ i \in 1..(t - end)
          /\ Origin(start + i, start, size, t) = end + i
      BY <1>1, <1>4, <2>2 DEF Origin, end
    <3>2. QED
      BY <1>1, <2>1, <2>2, <3>1
  <2>7. ASSUME NEW i \in 1..Len(chunk)
        PROVE  r[Len(a) + Len(b) + i] = chunk[i]
    <3>1. /\ start + (t - end) + i \in 1..Len(s) /\ i \in 1..size
          /\ Origin(start + (t - end) + i, start, size, t) = start + i
      BY <1>1, <1>2, <1>4 DEF Origin, end
    <3>2. QED
      BY <1>1, <1>2, <2>1, <2>2, <3>1
  <2>8. ASSUME NEW i \in 1..Len(d)
        PROVE  r[Len(a) + Len(b) + Len(chunk) + i] = d[i]
    <3> DEFINE p == t + i
    <3>1. p \in 1..Len(s) /\ i \in 1..(Len(s) - t) /\ Origin(p, start, size, t) = p
      BY <1>1, <1>4, <2>3 DEF Origin, end
    <3>2. Len(a) + Len(b) + Len(chunk) + i = p
      BY <1>1, <1>2, <2>1, <2>2, <3>1 DEF end
    <3>3. d[i] = s[p]
      BY <2>3, <3>1
    <3> HIDE DEF p
    <3>4. r[p] = s[p]
      BY <1>1, <3>1
    <3>5. QED
      BY <3>2, <3>3, <3>4
  <2>9. r = a \o b \o chunk \o d
    <3>1. a \in Seq(S) /\ b \in Seq(S) /\ chunk \in Seq(S) /\ d \in Seq(S)
      BY <1>2, <2>1, <2>2, <2>3
    <3>2. Joined(r, a, b, chunk, d)
      BY <2>4, <2>5, <2>6, <2>7, <2>8 DEF Joined
    <3>3. QED
      BY ONLY <3>1, <3>2, FourPieces, r \in Seq(S)
  <2>10. ~(t <= start)
    BY <1>4
  <2>11. QED
    BY ONLY <2>9, <2>10 DEF a, b, d, chunk, end, MovedTo
<1>5. QED
  BY <1>1, <1>3, <1>4

-----------------------------------------------------------------------------
(* What the buffers show. *)

\* The data is a sequence of its bytes.
LEMMA ContentSeq ==
    ASSUME NEW b, Sound(b)
    PROVE  /\ Content(b) \in Seq(Bytes) /\ Len(Content(b)) = Cur(b) /\ Cur(b) \in Nat
           /\ \A i \in 1..Cur(b) : Content(b)[i] = Octet(b, i)
<1>1. /\ b.begin \in Nat /\ b.end \in Nat /\ b.maxbuffer \in Nat
      /\ b.begin <= b.end /\ b.end <= b.maxbuffer
      /\ Cur(b) \in Nat /\ Cur(b) = b.end - b.begin
      /\ b.buffer = Null <=> b.maxbuffer = 0
      /\ Backed(b)
  BY SoundFields
<1>2. ASSUME NEW i \in 1..Cur(b)
      PROVE  b.heap[b.buffer][b.begin + i - 1] = Octet(b, i) /\ Octet(b, i) \in Bytes
  <2>1. b.buffer # Null /\ b.begin + i - 1 \in 0..(b.maxbuffer - 1)
    BY <1>1
  <2>2. Mem(b) = b.heap[b.buffer] /\ Mem(b) \in MemOf(b.maxbuffer)
    BY <1>1, <2>1, MemOfBlock DEF Mem
  <2>3. Mem(b)[b.begin + i - 1] \in Bytes
    BY <2>1, <2>2 DEF MemOf
  <2>4. QED
    BY <2>2, <2>3 DEF Octet
<1>3. Content(b) = [i \in 1..Cur(b) |-> b.heap[b.buffer][b.begin + i - 1]]
  BY DEF Content
<1>4. Content(b) \in [1..Cur(b) -> Bytes]
  BY <1>2, <1>3
<1>5. \A i \in 1..Cur(b) : Content(b)[i] = Octet(b, i)
  BY <1>2, <1>3
<1>6. QED
  BY <1>1, <1>4, <1>5, FunctionSeq

\* What a buffer with the fields f shows of its block m.
Shown(f, m) == [i \in 1..(f.end - f.begin) |-> m[f.begin + i - 1]]

\* It is its data, before and behind a step.
LEMMA ShownData ==
    ASSUME NEW x \in Buffers
    PROVE  /\ Data(x) = Shown(obj[x], heap[obj[x].buffer])
           /\ Data(x)' = Shown(obj'[x], heap'[obj'[x].buffer])
  BY DEF Data, Content, At, Cur, Shown

\* A buffer without data.
LEMMA NothingShown ==
    ASSUME NEW f \in FieldSet, f.end = f.begin, NEW m
    PROVE  Shown(f, m) = <<>>
<1>1. 1..(f.end - f.begin) = {}
  BY DEF FieldSet
<1>2. DOMAIN Shown(f, m) = {}
  BY <1>1 DEF Shown
<1>3. Shown(f, m) = [i \in {} |-> m[f.begin + i - 1]]
  BY <1>1 DEF Shown
<1>4. QED
  BY <1>3

\* A buffer without a block has no data.
LEMMA NoBlock ==
    ASSUME IndInv, NEW x \in Buffers
    PROVE  /\ obj[x] \in FieldSet
           /\ obj[x].buffer = Null => obj[x].end = obj[x].begin
<1>1. obj[x] \in FieldSet /\ Fits(obj[x], heap)
  BY DEF IndInv, Good
<1>2. QED
  BY <1>1 DEF Fits, FieldSet

\* A buffer whose fields and block are left alone shows what it did.
LEMMA KeptData ==
    ASSUME IndInv, NEW x \in Buffers, obj'[x] = obj[x],
           obj[x].buffer # Null => heap'[obj[x].buffer] = heap[obj[x].buffer]
    PROVE  Data(x)' = Data(x)
<1>1. CASE obj[x].buffer = Null
  <2>1. obj[x] \in FieldSet /\ obj[x].end = obj[x].begin
    BY <1>1, NoBlock
  <2>2. Data(x) = <<>>
    BY <2>1, ShownData, NothingShown
  <2>3. Data(x)' = <<>>
    BY <2>1, ShownData, NothingShown
  <2>4. QED
    BY <2>2, <2>3
<1>2. CASE obj[x].buffer # Null
  BY <1>2, ShownData
<1>3. QED
  BY <1>1, <1>2

\* Behind the step x shows s, and every other buffer what it did.
OnlyShows(x, s) == Data(x)' = s /\ \A y \in Buffers \ {x} : Data(y)' = Data(y)

\* No buffer has a free block.
LEMMA FreeOfAll ==
    ASSUME IndInv, NEW k \in UnusedBlocks(heap), NEW y \in Buffers
    PROVE  obj[y].buffer # k
  BY DEF IndInv, Good, Owned, UnusedBlocks

\* Nor has one the block of x, if x shares it with none.
LEMMA FreeOfShares ==
    ASSUME NEW x \in Buffers, Sharing(x) = {}, NEW y \in Buffers \ {x}, obj[y].buffer # Null
    PROVE  obj[y].buffer # obj[x].buffer
  BY DEF Sharing, Others

\* The buffer of a call shows what the member function left.
LEMMA DoneShows ==
    ASSUME IndInv, NEW x \in Buffers, NEW b, Sound(b), NEW c, Done(x, b, c)
    PROVE  Data(x)' = Content(b)
<1> DEFINE f   == Fields(b)
           old == b.heap[b.buffer]
<1>1. /\ b \in Bufs /\ b.begin \in Nat /\ b.end \in Nat /\ b.maxbuffer \in Nat
      /\ b.begin <= b.end /\ b.end <= b.maxbuffer
      /\ Cur(b) \in Nat /\ Cur(b) = b.end - b.begin
  BY SoundFields
<1>2. f.begin = b.begin /\ f.end = b.end /\ f.buffer = b.buffer
  BY DEF Fields
<1>3. obj'[x] = f
  BY DEF Done, IndInv, Good
<1> HIDE DEF f
<1>4. Data(x)' = [i \in 1..Cur(b) |-> heap'[b.buffer][b.begin + i - 1]]
  BY <1>1, <1>2, <1>3, ShownData DEF Shown
<1>5. \A i \in 1..Cur(b) : heap'[b.buffer][b.begin + i - 1] = old[b.begin + i - 1]
  <2>1. CASE heap' = b.heap
    BY <2>1
  <2>2. CASE heap' # b.heap
    <3> DEFINE m == [i \in DOMAIN old |-> IF i \in Zone(old, b.begin, Cur(b)) THEN old[i] ELSE Junk]
    <3>1. heap' = Tidied(b).heap /\ b.buffer # Null
      BY <2>2 DEF Done
    <3>2. old \in MemOf(b.maxbuffer) /\ b.buffer \in Blocks /\ b.heap \in [Blocks -> Mems]
      BY <3>1 DEF Sound, Backed, Bufs
    <3>3. Tidied(b) = [b EXCEPT !.heap[b.buffer] = m]
      BY DEF Tidied
    <3>4. DOMAIN old = 0..(b.maxbuffer - 1)
      BY <3>2 DEF MemOf
    <3>5. \A i \in 1..Cur(b) : m[b.begin + i - 1] = old[b.begin + i - 1]
      <4>1. \A i \in 1..Cur(b) : /\ b.begin + i - 1 \in 0..(b.maxbuffer - 1)
                                 /\ b.begin <= b.begin + i - 1
                                 /\ b.begin + i - 1 < b.begin + Cur(b)
        BY <1>1
      <4> HIDE DEF old
      <4>2. QED
        BY <3>4, <4>1 DEF Zone
    <3> HIDE DEF m
    <3>6. heap'[b.buffer] = m
      BY <1>1, <3>1, <3>2, <3>3 DEF Bufs
    <3>7. QED
      BY <3>5, <3>6
  <2>3. QED
    BY <2>1, <2>2
<1>6. QED
  BY <1>4, <1>5 DEF Content

\* And the others what they did: of a call that works in the block,
LEMMA WriteShows ==
    ASSUME IndInv, NEW x \in Buffers, NEW b, Sound(b), Writes(At(x), b),
           Sharing(x) = {} \/ b.heap = heap,
           NEW c, Done(x, b, c)
    PROVE  OnlyShows(x, Content(b))
<1>1. /\ obj' = [obj EXCEPT ![x] = Fields(b)]
      /\ \A k \in Blocks : k # b.buffer => heap'[k] = b.heap[k]
      /\ b.borrowed \/ Others(x, b.buffer) # {} => heap' = b.heap
  BY DoneHeap
<1>2. At(x).heap = heap /\ At(x).buffer = obj[x].buffer
  BY AtSound DEF IndInv
<1>3. b.buffer = obj[x].buffer /\ \A k \in Blocks : k # b.buffer => b.heap[k] = heap[k]
  BY <1>2 DEF Writes
<1>4. ASSUME NEW y \in Buffers \ {x}
      PROVE  Data(y)' = Data(y)
  <2>1. obj[y] \in FieldSet /\ obj'[y] = obj[y]
    BY <1>1, <1>4 DEF IndInv, Good
  <2>2. ASSUME obj[y].buffer # Null
        PROVE  heap'[obj[y].buffer] = heap[obj[y].buffer]
    <3>1. obj[y].buffer \in Blocks
      BY <2>1, <2>2 DEF FieldSet
    <3>2. CASE obj[y].buffer # b.buffer
      BY <1>1, <1>3, <3>1, <3>2
    <3>3. CASE obj[y].buffer = b.buffer
      <4>1. Sharing(x) # {} /\ Others(x, b.buffer) # {}
        BY <1>3, <2>2, <3>3 DEF Sharing, Others
      <4>2. QED
        BY <1>1, <4>1
    <3>4. QED
      BY <3>2, <3>3
  <2>3. QED
    BY <2>1, <2>2, KeptData
<1>5. QED
  BY <1>4, DoneShows DEF OnlyShows

\* of one that takes a new block,
LEMMA RenewShows ==
    ASSUME IndInv, NEW x \in Buffers, NEW b, Sound(b), Renews(At(x), b),
           obj[x].borrowed \/ Sharing(x) = {},
           NEW c, Done(x, b, c)
    PROVE  OnlyShows(x, Content(b))
<1>1. /\ obj' = [obj EXCEPT ![x] = Fields(b)]
      /\ \A k \in Blocks : k # b.buffer => heap'[k] = b.heap[k]
  BY DoneHeap
<1>2. At(x).heap = heap /\ At(x).buffer = obj[x].buffer /\ At(x).borrowed = obj[x].borrowed
  BY AtSound DEF IndInv
<1>3. /\ b.buffer \in UnusedBlocks(heap)
      /\ \A k \in Blocks : k # b.buffer => b.heap[k] = Freed(At(x))[k]
  BY <1>2 DEF Renews
<1>4. ASSUME NEW y \in Buffers \ {x}
      PROVE  Data(y)' = Data(y)
  <2>1. obj[y] \in FieldSet /\ obj'[y] = obj[y]
    BY <1>1, <1>4 DEF IndInv, Good
  <2>2. ASSUME obj[y].buffer # Null
        PROVE  heap'[obj[y].buffer] = heap[obj[y].buffer]
    <3>1. obj[y].buffer \in Blocks /\ obj[y].buffer # b.buffer
      BY <1>3, <2>1, <2>2, FreeOfAll DEF FieldSet
    <3>2. obj[x].borrowed \/ obj[y].buffer # obj[x].buffer
      BY <2>2, FreeOfShares
    <3>3. Freed(At(x))[obj[y].buffer] = heap[obj[y].buffer]
      BY <1>2, <3>1, <3>2 DEF Freed
    <3>4. QED
      BY <1>1, <1>3, <3>1, <3>3
  <2>3. QED
    BY <2>1, <2>2, KeptData
<1>5. QED
  BY <1>4, DoneShows DEF OnlyShows

\* of one that needs room,
LEMMA GrowsShows ==
    ASSUME IndInv, Careful, NEW x \in Buffers, NEW b, NEW room \in BOOLEAN,
           Grows(At(x), b, room), MayChange(x, room),
           NEW c, Done(x, b, c)
    PROVE  OnlyShows(x, Content(b))
<1>1. CASE room
  <2>1. Sharing(x) = {} /\ Sound(b) /\ Writes(At(x), b)
    BY <1>1 DEF MayChange, Grows
  <2>2. QED
    BY <2>1, WriteShows
<1>2. CASE ~room
  <2>1. (obj[x].borrowed \/ Sharing(x) = {}) /\ Sound(b) /\ Renews(At(x), b)
    BY <1>2 DEF MayChange, Grows
  <2>2. QED
    BY <2>1, RenewShows
<1>3. QED
  BY <1>1, <1>2

\* and of one that writes nothing.
LEMMA KeepsShows ==
    ASSUME IndInv, NEW x \in Buffers, NEW b, Keeps(At(x), b), NEW c, Done(x, b, c)
    PROVE  OnlyShows(x, Content(b))
<1>1. At(x).heap = heap
  BY AtSound DEF IndInv
<1>2. Sound(b) /\ Writes(At(x), b) /\ b.heap = heap
  BY <1>1 DEF Keeps
<1>3. QED
  BY <1>2, WriteShows

-----------------------------------------------------------------------------
(* The steps of ByteSeq. *)

\* A call as ByteSeq sees it.
LEMMA CalledIs ==
    ASSUME NEW op, NEW x \in Buffers, NEW S, NEW a \in S, call' = Called(op, x, a)
    PROVE  /\ call' \in Abstract!Calls(op, S)
           /\ call'.on = x /\ call'.args = a
  BY DEF Called, Abstract!Calls

\* The buffers before and behind a step that changes what x shows.
LEMMA ShowsUpdate ==
    ASSUME NEW x \in Buffers, NEW s, OnlyShows(x, s)
    PROVE  /\ [y \in Buffers |-> Data(y)][x] = Data(x)
           /\ [y \in Buffers |-> Data(y)]' = [[y \in Buffers |-> Data(y)] EXCEPT ![x] = s]
  BY DEF OnlyShows

\* Bytes are inserted.
LEMMA InsertsBytes ==
    ASSUME NEW x \in Buffers, NEW at \in Nat, NEW t \in Seq(Bytes), at <= Len(Data(x)),
           call' = Called("insert", x, [at |-> at, bytes |-> t]),
           OnlyShows(x, SubSeq(Data(x), 1, at) \o t \o SubSeq(Data(x), at + 1, Len(Data(x))))
    PROVE  Abstract!Next
<1> DEFINE a == [at |-> at, bytes |-> t]
           s == SubSeq(Data(x), 1, at) \o t \o SubSeq(Data(x), at + 1, Len(Data(x)))
           d == [y \in Buffers |-> Data(y)]
<1>1. a \in [at : Nat, bytes : Seq(Bytes)] /\ a.at = at /\ a.bytes = t
  OBVIOUS
<1>2. d[x] = Data(x) /\ d' = [d EXCEPT ![x] = s]
  BY ShowsUpdate
<1> HIDE DEF a
<1>3. /\ call' \in Abstract!Calls("insert", [at : Nat, bytes : Seq(Bytes)])
      /\ call'.on = x /\ call'.args = a
  BY <1>1, CalledIs DEF a
<1>4. d' = [d EXCEPT ![x] = SubSeq(d[x], 1, at) \o t \o SubSeq(d[x], at + 1, Len(d[x]))]
  BY <1>2
<1>5. Abstract!Insert
  BY <1>1, <1>2, <1>3, <1>4 DEF Abstract!Insert
<1>6. QED
  BY <1>5 DEF Abstract!Next

\* Bytes are removed.
LEMMA ErasesBytes ==
    ASSUME NEW x \in Buffers, NEW at \in Nat, NEW size \in Nat,
           call' = Removed(x, at, size),
           OnlyShows(x, SubSeq(Data(x), 1, at) \o SubSeq(Data(x), at + size + 1, Len(Data(x))))
    PROVE  Abstract!Next
<1> DEFINE a == [at |-> at, size |-> size]
           s == SubSeq(Data(x), 1, at) \o SubSeq(Data(x), at + size + 1, Len(Data(x)))
           d == [y \in Buffers |-> Data(y)]
<1>1. a \in [at : Nat, size : Nat] /\ a.at = at /\ a.size = size
  OBVIOUS
<1>2. d[x] = Data(x) /\ d' = [d EXCEPT ![x] = s]
  BY ShowsUpdate
<1> HIDE DEF a
<1>3. /\ call' \in Abstract!Calls("remove", [at : Nat, size : Nat])
      /\ call'.on = x /\ call'.args = a
  BY <1>1, CalledIs DEF a, Removed
<1>4. d' = [d EXCEPT ![x] = SubSeq(d[x], 1, at) \o SubSeq(d[x], at + size + 1, Len(d[x]))]
  BY <1>2
<1>5. Abstract!Erase
  BY <1>1, <1>3, <1>4 DEF Abstract!Erase
<1>6. QED
  BY <1>5 DEF Abstract!Next

\* Bytes are moved.
LEMMA MovesBytes ==
    ASSUME NEW x \in Buffers, NEW start \in Nat, NEW size \in Nat, NEW t \in Nat,
           call' = Called("move", x, [start |-> start, size |-> size, to |-> t]),
           OnlyShows(x, MovedTo(Data(x), start, size, t))
    PROVE  Abstract!Next
<1> DEFINE a == [start |-> start, size |-> size, to |-> t]
           d == [y \in Buffers |-> Data(y)]
<1>1. /\ a \in [start : Nat, size : Nat, to : Nat]
      /\ a.start = start /\ a.size = size /\ a.to = t
  OBVIOUS
<1>2. d[x] = Data(x) /\ d' = [d EXCEPT ![x] = MovedTo(Data(x), start, size, t)]
  BY ShowsUpdate
<1> HIDE DEF a
<1>3. /\ call' \in Abstract!Calls("move", [start : Nat, size : Nat, to : Nat])
      /\ call'.on = x /\ call'.args = a
  BY <1>1, CalledIs DEF a
<1>4. d' = [d EXCEPT ![x] = MovedTo(d[x], start, size, t)]
  BY <1>2
<1>5. Abstract!Move
  BY <1>1, <1>3, <1>4 DEF Abstract!Move, MovedTo
<1>6. QED
  BY <1>5 DEF Abstract!Next

\* The size changes.
LEMMA ResizesBytes ==
    ASSUME NEW x \in Buffers, NEW size \in Nat, NEW s,
           call' = Called("resize", x, [size |-> size]), OnlyShows(x, s),
           Len(s) = size, IsPrefix(s, Data(x)) \/ IsPrefix(Data(x), s)
    PROVE  Abstract!Next
<1> DEFINE a == [size |-> size]
           d == [y \in Buffers |-> Data(y)]
<1>1. a \in [size : Nat] /\ a.size = size
  OBVIOUS
<1>2. d[x] = Data(x) /\ d' = [d EXCEPT ![x] = s]
  BY ShowsUpdate
<1> HIDE DEF a
<1>3. /\ call' \in Abstract!Calls("resize", [size : Nat])
      /\ call'.on = x /\ call'.args = a
  BY <1>1, CalledIs DEF a
<1>4. d'[x] = s
  BY DEF OnlyShows
<1>5. Abstract!IsPrefix(s, Data(x)) \/ Abstract!IsPrefix(Data(x), s)
  BY DEF Abstract!IsPrefix, IsPrefix
<1>6. Abstract!Resize
  BY <1>1, <1>2, <1>3, <1>4, <1>5 DEF Abstract!Resize
<1>7. QED
  BY <1>6 DEF Abstract!Next

\* Nothing changes.
LEMMA KeepsBytes ==
    ASSUME NEW x \in Buffers, call' = Called("keep", x, <<>>), OnlyShows(x, Data(x))
    PROVE  Abstract!Next
<1> DEFINE d == [y \in Buffers |-> Data(y)]
<1>1. call' \in Abstract!Calls("keep", {<<>>})
  BY CalledIs
<1>2. d' = d
  BY DEF OnlyShows
<1>3. Abstract!Keep
  BY <1>1, <1>2 DEF Abstract!Keep
<1>4. QED
  BY <1>3 DEF Abstract!Next

\* A buffer is emptied.
LEMMA DropsBytes ==
    ASSUME NEW x \in Buffers, call' = Called("drop", x, <<>>), OnlyShows(x, <<>>)
    PROVE  Abstract!Next
<1> DEFINE d == [y \in Buffers |-> Data(y)]
<1>1. call' \in Abstract!Calls("drop", {<<>>}) /\ call'.on = x
  BY CalledIs
<1>2. d' = [d EXCEPT ![x] = <<>>]
  BY ShowsUpdate
<1>3. Abstract!Drop
  BY <1>1, <1>2 DEF Abstract!Drop
<1>4. QED
  BY <1>3 DEF Abstract!Next

\* The bytes of a buffer are given away.
LEMMA DetachesBytes ==
    ASSUME NEW x \in Buffers, Data(x) \in Seq(Bytes), call' = Called("detach", x, Data(x)),
           OnlyShows(x, <<>>)
    PROVE  Abstract!Next
<1> DEFINE d == [y \in Buffers |-> Data(y)]
<1>1. call' \in Abstract!Calls("detach", Seq(Bytes)) /\ call'.on = x /\ call'.args = Data(x)
  BY CalledIs
<1>2. d[x] = Data(x) /\ d' = [d EXCEPT ![x] = <<>>]
  BY ShowsUpdate
<1>3. Abstract!Detach
  BY <1>1, <1>2 DEF Abstract!Detach
<1>4. QED
  BY <1>3 DEF Abstract!Next

\* A buffer has the bytes of a caller.
LEMMA WrapsBytes ==
    ASSUME NEW x \in Buffers, NEW s \in Seq(Bytes), call' = Called("wrap", x, s),
           OnlyShows(x, s)
    PROVE  Abstract!Next
<1> DEFINE d == [y \in Buffers |-> Data(y)]
<1>1. call' \in Abstract!Calls("wrap", Seq(Bytes)) /\ call'.on = x /\ call'.args = s
  BY CalledIs
<1>2. d' = [d EXCEPT ![x] = s]
  BY ShowsUpdate
<1>3. Abstract!Wrap
  BY <1>1, <1>2 DEF Abstract!Wrap
<1>4. QED
  BY <1>3 DEF Abstract!Next

\* One buffer shows the bytes of another, which keeps them.
LEMMA AssignsBytes ==
    ASSUME NEW x \in Buffers, NEW y \in Buffers, call' = Called("assign", x, y),
           OnlyShows(y, Data(x))
    PROVE  Abstract!Next
<1> DEFINE d == [z \in Buffers |-> Data(z)]
<1>1. call' \in Abstract!Calls("assign", Buffers) /\ call'.on = x /\ call'.args = y
  BY CalledIs
<1>2. d[x] = Data(x) /\ d' = [d EXCEPT ![y] = Data(x)]
  BY DEF OnlyShows
<1>3. Abstract!Assign
  BY <1>1, <1>2 DEF Abstract!Assign
<1>4. QED
  BY <1>3 DEF Abstract!Next

\* A buffer takes the bytes of another.
LEMMA TakesBytes ==
    ASSUME NEW x \in Buffers, NEW y \in Buffers, x # y, call' = Called("take", x, y),
           Data(x)' = Data(y), Data(y)' = <<>>,
           \A z \in Buffers \ {x, y} : Data(z)' = Data(z)
    PROVE  Abstract!Next
<1> DEFINE d == [z \in Buffers |-> Data(z)]
<1>1. call' \in Abstract!Calls("take", Buffers) /\ call'.on = x /\ call'.args = y
  BY CalledIs
<1>2. d[y] = Data(y) /\ d' = [d EXCEPT ![x] = Data(y), ![y] = <<>>]
  OBVIOUS
<1>3. Abstract!Take
  BY <1>1, <1>2 DEF Abstract!Take
<1>4. QED
  BY <1>3 DEF Abstract!Next

-----------------------------------------------------------------------------
(* The calls, one by one. *)

\* What a buffer shows before a call on it.
LEMMA DataSeq ==
    ASSUME IndInv, NEW x \in Buffers
    PROVE  /\ Data(x) \in Seq(Bytes) /\ Len(Data(x)) = Cur(At(x))
           /\ Cur(At(x)) = Cur(obj[x]) /\ Cur(At(x)) \in Nat
           /\ \A i \in 1..Cur(At(x)) : Data(x)[i] = Octet(At(x), i)
           /\ Sound(At(x))
  BY AtReady, AtFields, ContentSeq DEF Data

\* The caller fills size bytes behind the first off, and no other.
LEMMA FilledOctets ==
    ASSUME NEW b, Sound(b), NEW off \in Nat, NEW size \in Nat, off + size <= Cur(b),
           NEW v \in Bytes, NEW c, c = Filled(b, off, size, v)
    PROVE  /\ Cur(c) = Cur(b)
           /\ \A i \in 1..Cur(b) :
                 Octet(c, i) = IF off < i /\ i <= off + size THEN v ELSE Octet(b, i)
<1>1. CASE size = 0
  <2>1. c = b
    BY <1>1 DEF Filled
  <2>2. Cur(b) \in Nat
    BY SoundFields
  <2>3. QED
    BY <1>1, <2>1, <2>2
<1>2. CASE size # 0
  <2> DEFINE old == b.heap[b.buffer]
             m   == [i \in DOMAIN old |-> IF i \in Zone(old, b.begin + off, size) THEN v ELSE old[i]]
  <2>1. /\ b \in Bufs /\ b.begin \in Nat /\ b.end \in Nat /\ b.maxbuffer \in Nat
        /\ b.begin <= b.end /\ b.end <= b.maxbuffer
        /\ Cur(b) \in Nat /\ Cur(b) = b.end - b.begin
        /\ b.buffer = Null <=> b.maxbuffer = 0
    BY SoundFields
  <2>2. b.buffer # Null
    BY <1>2, <2>1
  <2>3. old \in MemOf(b.maxbuffer) /\ b.buffer \in Blocks /\ Mem(b) = old
    BY <2>1, <2>2 DEF Sound, Backed, Bufs, Mem
  <2>4. c = [b EXCEPT !.heap[b.buffer] = m]
    BY <1>2 DEF Filled
  <2>5. DOMAIN old = 0..(b.maxbuffer - 1)
    BY <2>3 DEF MemOf
  <2>6. \A i \in 1..Cur(b) :
           m[b.begin + i - 1] = IF off < i /\ i <= off + size THEN v ELSE old[b.begin + i - 1]
    <3>1. \A i \in 1..Cur(b) :
             /\ b.begin + i - 1 \in 0..(b.maxbuffer - 1)
             /\ off < i /\ i <= off + size <=>
                   b.begin + off <= b.begin + i - 1 /\ b.begin + i - 1 < b.begin + off + size
      BY <2>1
    <3> HIDE DEF old
    <3>2. QED
      BY <2>5, <3>1 DEF Zone
  <2> HIDE DEF m, old
  <2>7. /\ c.buffer = b.buffer /\ c.begin = b.begin /\ c.end = b.end
        /\ c.heap[b.buffer] = m
    BY <2>1, <2>3, <2>4 DEF Bufs
  <2>8. Mem(c) = m
    BY <2>2, <2>7 DEF Mem
  <2>9. QED
    BY <2>3, <2>6, <2>7, <2>8 DEF Octet, Cur
<1>3. QED
  BY <1>1, <1>2

\* A member function makes room for size bytes behind the first off, and the
\* caller fills them.
LEMMA FilledInserts ==
    ASSUME IndInv, Careful, NEW x \in Buffers, NEW size \in Nat, NEW v \in Bytes,
           NEW off \in Nat, off <= Cur(At(x)),
           NEW b, Grows(At(x), b, At(x).maxbuffer - Cur(At(x)) >= size),
           Cur(b) = Cur(At(x)) + size,
           \A i \in 1..Cur(At(x)) : Octet(b, Past(i, off, size)) = Octet(At(x), i),
           MayChange(x, InPlace(x, size)),
           Done(x, Filled(b, off, size, v), Inserted(x, off, size, v))
    PROVE  Abstract!Next
<1> DEFINE room == InPlace(x, size)
           c    == Filled(b, off, size, v)
           s    == Data(x)
           r    == Content(c)
           t    == [i \in 1..size |-> v]
           n    == Cur(At(x))
<1>1. room \in BOOLEAN /\ Grows(At(x), b, room) /\ MayChange(x, room)
  BY AtFields DEF InPlace
<1>2. off + size <= Cur(b) /\ Sound(b)
  BY DataSeq DEF Grows
<1>3. Grows(At(x), c, room) /\ Sound(c)
  <2>1. Grows(At(x), c, room)
    <3> HIDE DEF room
    <3>1. QED
      BY <1>1, <1>2, FilledGrows
  <2>2. QED
    BY <2>1 DEF Grows
<1>4. OnlyShows(x, r)
  <2>1. Done(x, c, Inserted(x, off, size, v))
    OBVIOUS
  <2> HIDE DEF room, c
  <2>2. QED
    BY <1>1, <1>3, <2>1, GrowsShows
<1>5. /\ Cur(c) = Cur(b)
      /\ \A i \in 1..Cur(b) :
            Octet(c, i) = IF off < i /\ i <= off + size THEN v ELSE Octet(b, i)
  BY <1>2, FilledOctets
<1>6. /\ s \in Seq(Bytes) /\ Len(s) = n /\ n \in Nat
      /\ \A i \in 1..n : s[i] = Octet(At(x), i)
  BY DataSeq
<1> HIDE DEF c
<1>7. /\ r \in Seq(Bytes) /\ Len(r) = n + size
      /\ \A i \in 1..(n + size) : r[i] = Octet(c, i)
  BY <1>3, <1>5, ContentSeq
<1>8. t \in Seq(Bytes) /\ Len(t) = size /\ \A i \in 1..size : t[i] = v
  <2>1. t \in [1..size -> Bytes]
    OBVIOUS
  <2>2. \A i \in 1..size : t[i] = v
    OBVIOUS
  <2> HIDE DEF t
  <2>3. QED
    BY <2>1, <2>2, FunctionSeq
<1> HIDE DEF r, s, t, n
<1>9. ASSUME NEW i \in 1..Len(s)
      PROVE  r[Past(i, off, Len(t))] = s[i]
  <2> DEFINE p == Past(i, off, size)
  <2>1. i \in 1..n /\ p \in 1..(n + size) /\ ~(off < p /\ p <= off + size) /\ i \in 1..Cur(At(x))
    BY <1>6 DEF Past, n
  <2>2. Octet(b, p) = Octet(At(x), i)
    BY <2>1
  <2> HIDE DEF p
  <2>3. Octet(c, p) = Octet(b, p)
    BY <1>5, <2>1 DEF n
  <2>4. r[p] = s[i]
    BY <1>6, <1>7, <2>1, <2>2, <2>3
  <2>5. QED
    BY <1>8, <2>4 DEF p
<1>10. ASSUME NEW i \in 1..Len(t)
       PROVE  r[off + i] = t[i]
  <2> DEFINE p == off + i
  <2>1. i \in 1..size /\ p \in 1..(n + size) /\ off < p /\ p <= off + size
    BY <1>6, <1>8 DEF n
  <2> HIDE DEF p
  <2>2. Octet(c, p) = v
    BY <1>5, <2>1 DEF n
  <2>3. r[p] = t[i]
    BY <1>7, <1>8, <2>1, <2>2
  <2>4. QED
    BY <2>3 DEF p
<1>11. off <= Len(s) /\ Len(r) = Len(s) + Len(t)
  BY <1>6, <1>7, <1>8 DEF n
<1>12. r = SubSeq(s, 1, off) \o t \o SubSeq(s, off + 1, Len(s))
  <2>1. s \in Seq(Bytes) /\ t \in Seq(Bytes) /\ r \in Seq(Bytes) /\ Between(r, s, t, off)
    BY <1>6, <1>7, <1>8, <1>9, <1>10, <1>11 DEF Between
  <2>2. QED
    BY ONLY <2>1, InsertedSeq, off \in Nat
<1>13. call' = Called("insert", x, [at |-> off, bytes |-> t])
  BY DEF Done, Inserted, t
<1>14. OnlyShows(x, SubSeq(s, 1, off) \o t \o SubSeq(s, off + 1, Len(s)))
  BY <1>4, <1>12
<1>15. QED
  BY <1>8, <1>11, <1>13, <1>14, InsertsBytes DEF s

\* fromBegin and the bytes of the caller,
LEMMA PrependInserts ==
    ASSUME IndInv, Careful, NEW x \in Buffers, NEW size \in Nat, NEW v \in Bytes,
           CallPrepend(x, size, v)
    PROVE  Abstract!Next
<1> DEFINE b == FromBegin(At(x), size)
<1>1. At(x).maxbuffer - Cur(At(x)) >= size => At(x).begin = 0 \/ At(x).begin >= size
  BY AtFields DEF CallPrepend, OwedFromBegin, InPlace
<1>2. /\ Grows(At(x), b, At(x).maxbuffer - Cur(At(x)) >= size) /\ Cur(b) = Cur(At(x)) + size
      /\ \A i \in 1..Cur(At(x)) : Octet(b, size + i) = Octet(At(x), i)
  BY <1>1, AtReady, FromBeginGrows
<1>3. /\ MayChange(x, InPlace(x, size))
      /\ Done(x, Filled(b, 0, size, v), Inserted(x, 0, size, v))
  BY DEF CallPrepend, OwedFromBegin
<1> HIDE DEF b
<1>4. 0 \in Nat /\ 0 <= Cur(At(x)) /\ \A i \in 1..Cur(At(x)) : Past(i, 0, size) = size + i
  BY DataSeq DEF Past
<1>5. \A i \in 1..Cur(At(x)) : Octet(b, Past(i, 0, size)) = Octet(At(x), i)
  BY <1>2, <1>4
<1>6. QED
  BY <1>2, <1>3, <1>4, <1>5, FilledInserts

\* fromEnd and the bytes of the caller,
LEMMA AppendInserts ==
    ASSUME IndInv, Careful, NEW x \in Buffers, NEW size \in Nat, NEW v \in Bytes,
           CallAppend(x, size, v)
    PROVE  Abstract!Next
<1> DEFINE b   == FromEnd(At(x), size)
           cur == Cur(obj[x])
<1>1. /\ Grows(At(x), b, At(x).maxbuffer - Cur(At(x)) >= size) /\ Cur(b) = Cur(At(x)) + size
      /\ \A i \in 1..Cur(At(x)) : Octet(b, i) = Octet(At(x), i)
  BY AtReady, FromEndGrows
<1>2. /\ MayChange(x, InPlace(x, size))
      /\ Done(x, Filled(b, cur, size, v), Inserted(x, cur, size, v))
  BY DEF CallAppend
<1>3. /\ cur \in Nat /\ cur <= Cur(At(x))
      /\ \A i \in 1..Cur(At(x)) : Past(i, cur, size) = i
  BY AtFields DEF Past
<1> HIDE DEF b, cur
<1>4. \A i \in 1..Cur(At(x)) : Octet(b, Past(i, cur, size)) = Octet(At(x), i)
  BY <1>1, <1>3
<1>5. QED
  BY <1>1, <1>2, <1>3, <1>4, FilledInserts

\* fromMiddle and the bytes of the caller.
LEMMA MiddleInserts ==
    ASSUME IndInv, Careful, NEW x \in Buffers, NEW start \in Nat, NEW size \in Nat,
           NEW v \in Bytes, InsertMiddle(x, start, size, v)
    PROVE  Abstract!Next
<1> DEFINE b  == FromMiddle(At(x), start, size)
           at == Min({start, Cur(obj[x])})
<1>1. \/ At(x).maxbuffer - Cur(At(x)) < size \/ start >= Cur(At(x))
      \/ At(x).maxbuffer - At(x).end >= size
      \/ At(x).maxbuffer = At(x).end /\ start + size >= Cur(At(x))
  <2>1. LET o == obj[x] IN
        \/ ~InPlace(x, size) \/ start >= Cur(o)
        \/ o.maxbuffer - o.end >= size
        \/ o.maxbuffer = o.end /\ start + size >= Cur(o)
    BY DEF InsertMiddle, OwedFromMiddle
  <2>2. /\ Cur(At(x)) = Cur(obj[x]) /\ At(x).maxbuffer = obj[x].maxbuffer
        /\ At(x).end = obj[x].end
    BY AtFields
  <2>3. obj[x].maxbuffer \in Nat /\ Cur(obj[x]) \in Nat
    BY <2>2, AtReady, AtFields, SoundFields
  <2>4. InPlace(x, size) <=> obj[x].maxbuffer - Cur(obj[x]) >= size
    BY DEF InPlace
  <2>5. QED
    BY <2>1, <2>2, <2>3, <2>4
<1>2. /\ Grows(At(x), b, At(x).maxbuffer - Cur(At(x)) >= size) /\ Cur(b) = Cur(At(x)) + size
      /\ \A i \in 1..Cur(At(x)) : Octet(b, Past(i, start, size)) = Octet(At(x), i)
  BY <1>1, AtReady, FromMiddleGrows
<1>3. /\ MayChange(x, InPlace(x, size))
      /\ Done(x, Filled(b, at, size, v), Inserted(x, at, size, v))
  BY DEF InsertMiddle, OwedFromMiddle
<1>4. /\ at \in Nat /\ at <= Cur(At(x))
      /\ \A i \in 1..Cur(At(x)) : Past(i, at, size) = Past(i, start, size)
  <2> DEFINE cur == Cur(obj[x])
  <2>1. start \in Int /\ cur \in Int /\ cur \in Nat /\ Cur(At(x)) = cur
    BY AtFields
  <2> HIDE DEF cur
  <2>2. at \in {start, cur} /\ at <= cur /\ at <= start
    BY <2>1, MinOfTwo DEF cur
  <2> HIDE DEF at
  <2>3. QED
    BY <2>1, <2>2 DEF Past
<1> HIDE DEF b, at
<1>5. \A i \in 1..Cur(At(x)) : Octet(b, Past(i, at, size)) = Octet(At(x), i)
  BY <1>2, <1>4
<1>6. QED
  BY <1>2, <1>3, <1>4, <1>5, FilledInserts

\* removeBegin.
LEMMA BeginErases ==
    ASSUME IndInv, NEW x \in Buffers, NEW size \in Nat, CallRemoveBegin(x, size)
    PROVE  Abstract!Next
<1> DEFINE b == RemoveBegin(At(x), size)
           s == Data(x)
           r == Content(b)
           n == Cur(At(x))
<1>1. /\ s \in Seq(Bytes) /\ Len(s) = n /\ n \in Nat /\ Sound(At(x))
      /\ \A i \in 1..n : s[i] = Octet(At(x), i)
  BY DataSeq
<1>2. /\ Keeps(At(x), b) /\ Cur(b) = IF size >= n THEN 0 ELSE n - size
      /\ \A k \in 1..n : k > size => Octet(b, k - size) = Octet(At(x), k)
  BY <1>1, RemoveBeginKeeps
<1>3. Done(x, b, Removed(x, 0, size)) /\ call' = Removed(x, 0, size)
  BY DEF CallRemoveBegin, Done
<1> HIDE DEF b
<1>4. OnlyShows(x, r)
  BY <1>2, <1>3, KeepsShows
<1>5. /\ r \in Seq(Bytes) /\ Len(r) = Cur(b)
      /\ \A i \in 1..Cur(b) : r[i] = Octet(b, i)
  BY <1>2, ContentSeq DEF Keeps
<1> HIDE DEF r, s, n
<1>6. /\ Len(r) = IF 0 + size <= Len(s) THEN Len(s) - size ELSE 0
      /\ 0 <= Len(s) /\ \A i \in 1..Len(s) : ~(i <= 0)
  BY <1>1, <1>2, <1>5
<1>7. ASSUME NEW i \in 1..Len(s), i > 0 + size
      PROVE  r[i - size] = s[i]
  <2>1. i \in 1..n /\ i > size /\ i - size \in 1..Cur(b)
    BY <1>1, <1>2, <1>7
  <2>2. QED
    BY <1>1, <1>2, <1>5, <2>1
<1>8. Without(r, s, 0, size)
  BY <1>6, <1>7 DEF Without
<1>9. r = SubSeq(s, 1, 0) \o SubSeq(s, 0 + size + 1, Len(s))
  <2> DEFINE z == 0
  <2>1. z \in Nat /\ Without(r, s, z, size) /\ r \in Seq(Bytes) /\ s \in Seq(Bytes)
    BY <1>1, <1>5, <1>8
  <2> HIDE DEF z
  <2>2. r = SubSeq(s, 1, z) \o SubSeq(s, z + size + 1, Len(s))
    BY <2>1, ErasedSeq
  <2>3. QED
    BY <2>2 DEF z
<1>10. OnlyShows(x, SubSeq(Data(x), 1, 0) \o SubSeq(Data(x), 0 + size + 1, Len(Data(x))))
  BY <1>4, <1>9 DEF s
<1>11. QED
  BY <1>3, <1>10, ErasesBytes

\* removeEnd.
LEMMA EndErases ==
    ASSUME IndInv, NEW x \in Buffers, NEW size \in Nat, CallRemoveEnd(x, size)
    PROVE  Abstract!Next
<1> DEFINE b   == RemoveEnd(At(x), size)
           s   == Data(x)
           r   == Content(b)
           cur == Cur(obj[x])
           n   == Min({size, cur})
           at  == cur - n
<1>1. /\ s \in Seq(Bytes) /\ Len(s) = cur /\ cur \in Nat /\ Sound(At(x)) /\ Cur(At(x)) = cur
      /\ \A i \in 1..cur : s[i] = Octet(At(x), i)
  BY DataSeq
<1>2. /\ Keeps(At(x), b) /\ Cur(b) = IF size >= cur THEN 0 ELSE cur - size
      /\ \A k : Octet(b, k) = Octet(At(x), k)
  BY <1>1, RemoveEndKeeps
<1>3. Done(x, b, Removed(x, at, n)) /\ call' = Removed(x, at, n)
  BY DEF CallRemoveEnd, Done
<1> HIDE DEF b
<1>4. OnlyShows(x, r)
  BY <1>2, <1>3, KeepsShows
<1>5. /\ r \in Seq(Bytes) /\ Len(r) = Cur(b)
      /\ \A i \in 1..Cur(b) : r[i] = Octet(b, i)
  BY <1>2, ContentSeq DEF Keeps
<1> HIDE DEF r, s, cur
<1>6. n \in {size, cur} /\ n <= size /\ n <= cur
  <2>1. size \in Int /\ cur \in Int
    BY <1>1
  <2>2. QED
    BY <2>1, MinOfTwo
<1> HIDE DEF n
<1>7. at \in Nat /\ n \in Nat /\ at + n = cur /\ at <= cur /\ Cur(b) = at
  BY <1>1, <1>2, <1>6
<1> HIDE DEF at
<1>8. Without(r, s, at, n)
  <2>1. at <= Len(s) /\ Len(r) = IF at + n <= Len(s) THEN Len(s) - n ELSE at
    BY <1>1, <1>5, <1>7
  <2>2. \A i \in 1..Len(s) : i <= at => r[i] = s[i]
    BY <1>1, <1>2, <1>5, <1>7
  <2>3. \A i \in 1..Len(s) : ~(i > at + n)
    BY <1>1, <1>7
  <2>4. QED
    BY <2>1, <2>2, <2>3 DEF Without
<1>9. r = SubSeq(s, 1, at) \o SubSeq(s, at + n + 1, Len(s))
  BY <1>1, <1>5, <1>7, <1>8, ErasedSeq
<1>10. OnlyShows(x, SubSeq(Data(x), 1, at) \o SubSeq(Data(x), at + n + 1, Len(Data(x))))
  BY <1>4, <1>9 DEF s
<1>11. QED
  BY <1>3, <1>7, <1>10, ErasesBytes

\* removeMiddle, of bytes that are all there and of others.
LEMMA MiddleErases ==
    ASSUME IndInv, Careful, NEW x \in Buffers, NEW start \in Nat, NEW size \in Nat,
           CallRemoveMiddle(x, start, size)
    PROVE  Abstract!Next
<1> DEFINE b == RemoveMiddle(At(x), start, size)
           s == Data(x)
           r == Content(b)
           n == Cur(At(x))
<1>1. /\ s \in Seq(Bytes) /\ Len(s) = n /\ n \in Nat /\ Sound(At(x)) /\ Cur(obj[x]) = n
      /\ \A i \in 1..n : s[i] = Octet(At(x), i)
  BY DataSeq
<1>2. /\ start + size <= n =>
            /\ Grows(At(x), b, TRUE) /\ Cur(b) = n - size
            /\ \A k \in 1..n :
                  /\ k <= start => Octet(b, k) = Octet(At(x), k)
                  /\ k > start + size => Octet(b, k - size) = Octet(At(x), k)
      /\ ~(start + size <= n) => b = At(x) /\ Keeps(At(x), b)
  BY <1>1, RemoveMiddleGrows
<1>3. /\ start + size <= n => MayChange(x, TRUE)
      /\ Done(x, b, IF start + size <= n THEN Removed(x, start, size)
                    ELSE Called("keep", x, <<>>))
  BY <1>1 DEF CallRemoveMiddle
<1> HIDE DEF b
<1>4. CASE start + size <= n
  <2>1. Done(x, b, Removed(x, start, size)) /\ call' = Removed(x, start, size)
    BY <1>3, <1>4 DEF Done
  <2>2. OnlyShows(x, r)
    BY <1>2, <1>3, <1>4, <2>1, GrowsShows
  <2>3. /\ r \in Seq(Bytes) /\ Len(r) = n - size
        /\ \A i \in 1..(n - size) : r[i] = Octet(b, i)
    BY <1>2, <1>4, ContentSeq DEF Grows
  <2> HIDE DEF r, s, n
  <2>4. Without(r, s, start, size)
    <3>1. start <= Len(s) /\ Len(r) = IF start + size <= Len(s) THEN Len(s) - size ELSE start
      BY <1>1, <1>4, <2>3
    <3>2. ASSUME NEW i \in 1..Len(s), i <= start
          PROVE  r[i] = s[i]
      <4>1. i \in 1..n /\ i \in 1..(n - size)
        BY <1>1, <1>4, <3>2
      <4>2. QED
        BY <1>1, <1>2, <1>4, <2>3, <3>2, <4>1
    <3>3. ASSUME NEW i \in 1..Len(s), i > start + size
          PROVE  r[i - size] = s[i]
      <4>1. i \in 1..n /\ i - size \in 1..(n - size)
        BY <1>1, <1>4, <3>3
      <4>2. QED
        BY <1>1, <1>2, <1>4, <2>3, <3>3, <4>1
    <3>4. QED
      BY <3>1, <3>2, <3>3 DEF Without
  <2>5. r = SubSeq(s, 1, start) \o SubSeq(s, start + size + 1, Len(s))
    BY <1>1, <2>3, <2>4, ErasedSeq
  <2>6. OnlyShows(x, SubSeq(Data(x), 1, start) \o SubSeq(Data(x), start + size + 1, Len(Data(x))))
    BY <2>2, <2>5 DEF s
  <2>7. QED
    BY <2>1, <2>6, ErasesBytes
<1>5. CASE ~(start + size <= n)
  <2>1. Done(x, b, Called("keep", x, <<>>)) /\ call' = Called("keep", x, <<>>)
    BY <1>3, <1>5 DEF Done
  <2>2. OnlyShows(x, r)
    BY <1>2, <1>5, <2>1, KeepsShows
  <2>3. r = Data(x)
    BY <1>2, <1>5 DEF Data
  <2>4. QED
    BY <2>1, <2>2, <2>3, KeepsBytes
<1>6. QED
  BY <1>4, <1>5

\* clear.
LEMMA ClearErases ==
    ASSUME IndInv, NEW x \in Buffers, Clear(x)
    PROVE  Abstract!Next
<1> DEFINE b == [At(x) EXCEPT !.begin = 0, !.end = 0]
           s == Data(x)
           r == Content(b)
           n == Cur(obj[x])
<1>1. /\ s \in Seq(Bytes) /\ Len(s) = n /\ n \in Nat /\ Sound(At(x))
  BY DataSeq
<1>2. b = Spanning(At(x), 0, 0)
  BY DEF Spanning
<1>3. Keeps(At(x), b) /\ Sound(b) /\ b.begin = 0 /\ b.end = 0
  <2>1. /\ At(x).maxbuffer \in Nat /\ Backed(At(x)) /\ At(x) \in Bufs
        /\ 0 \in Nat /\ 0 <= 0 /\ 0 <= At(x).maxbuffer
    BY <1>1, SoundFields
  <2>2. Keeps(At(x), b)
    BY <1>1, <1>2, <2>1, SpanningKeeps
  <2>3. b.begin = 0 /\ b.end = 0
    BY <1>2, <2>1, SpanningMem
  <2>4. QED
    BY <2>2, <2>3 DEF Keeps
<1>4. Done(x, b, Removed(x, 0, n)) /\ call' = Removed(x, 0, n)
  BY DEF Clear, Done
<1> HIDE DEF b
<1>5. OnlyShows(x, r)
  BY <1>3, <1>4, KeepsShows
<1>6. r \in Seq(Bytes) /\ Len(r) = 0
  BY <1>3, ContentSeq DEF Cur
<1> HIDE DEF r, s, n
<1>7. Without(r, s, 0, n)
  BY <1>1, <1>6 DEF Without
<1>8. r = SubSeq(s, 1, 0) \o SubSeq(s, 0 + n + 1, Len(s))
  <2> DEFINE z == 0
  <2>1. z \in Nat /\ Without(r, s, z, n) /\ r \in Seq(Bytes) /\ s \in Seq(Bytes)
    BY <1>1, <1>6, <1>7
  <2> HIDE DEF z
  <2>2. r = SubSeq(s, 1, z) \o SubSeq(s, z + n + 1, Len(s))
    BY <1>1, <2>1, ErasedSeq
  <2>3. QED
    BY <2>2 DEF z
<1>9. OnlyShows(x, SubSeq(Data(x), 1, 0) \o SubSeq(Data(x), 0 + n + 1, Len(Data(x))))
  BY <1>5, <1>8 DEF s
<1>10. QED
  BY <1>1, <1>4, <1>9, ErasesBytes

\* moveData.
LEMMA MoveDataRearranges ==
    ASSUME IndInv, Careful, NEW x \in Buffers,
           NEW start \in Nat, NEW size \in Nat, NEW to \in Nat,
           CallMoveData(x, start, size, to)
    PROVE  Abstract!Next
<1> DEFINE o == At(x)
           b == MoveData(o, start, size, to)
           s == Data(x)
           r == Content(b)
           n == Cur(o)
           t == Min({to, n})
           a == [start |-> start, size |-> size, to |-> t]
           moved == Moves(o, start, size, to)
<1>1. /\ s \in Seq(Bytes) /\ Len(s) = n /\ n \in Nat /\ Sound(o) /\ Cur(obj[x]) = n
      /\ \A i \in 1..n : s[i] = Octet(o, i)
      /\ UnusedBlocks(o.heap) # {}
  BY DataSeq, AtReady
<1>2. /\ moved => /\ MayChange(x, TRUE) /\ start + size <= n
                  /\ o.begin = 0 \/ to <= n
                  /\ o.maxbuffer - o.end >= IF to < start THEN start - to ELSE size
      /\ Done(x, b, IF moved THEN Called("move", x, a) ELSE Called("keep", x, <<>>))
  <2> DEFINE f == obj[x]
  <2>1. /\ moved => /\ MayChange(x, TRUE) /\ start + size <= Cur(f)
                    /\ f.begin = 0 \/ to <= Cur(f)
                    /\ f.maxbuffer - f.end >= IF to < start THEN start - to ELSE size
        /\ Done(x, b, IF moved
                      THEN Called("move", x, [start |-> start, size |-> size,
                                              to |-> Min({to, Cur(f)})])
                      ELSE Called("keep", x, <<>>))
    BY DEF CallMoveData, OwedMoveData
  <2>2. /\ o.maxbuffer = f.maxbuffer /\ o.end = f.end /\ o.begin = f.begin
        /\ Cur(f) = n
    BY AtFields
  <2> HIDE DEF f, o, b, moved
  <2>3. QED
    BY <2>1, <2>2
<1>3. Grows(o, b, TRUE) /\ (~moved => b = o)
  <2> HIDE DEF o
  <2>1. QED
    BY <1>1, <1>2, MoveDataWrites
<1>4. CASE moved
  <2>1. /\ Sound(o) /\ UnusedBlocks(o.heap) # {} /\ start + size <= Cur(o)
        /\ Moves(o, start, size, to) /\ (o.begin = 0 \/ to <= Cur(o))
        /\ o.maxbuffer - o.end >= IF to < start THEN start - to ELSE size
        /\ t = Min({to, Cur(o)})
        /\ start \in Nat /\ size \in Nat /\ to \in Nat
    BY <1>1, <1>2, <1>4
  <2>2. MayChange(x, TRUE) /\ Done(x, b, Called("move", x, a)) /\ call' = Called("move", x, a)
    BY <1>2, <1>4 DEF Done
  <2> HIDE DEF t, o
  <2>3. t \in Nat /\ t <= Cur(o) /\ (t < start \/ t > start + size)
    <3>1. /\ MoveTarget(o, to) = t /\ t \in Nat /\ t <= Cur(o) /\ Cur(o) # 0
          /\ t < start \/ t > start + size
          /\ t < start <=> to < start
          /\ t \in {to, Cur(o)}
      BY ONLY <2>1, MoveDataTarget
    <3>2. QED
      BY ONLY <3>1
  <2>4. /\ Cur(b) = Cur(o)
        /\ \A j \in 1..Cur(o) : Octet(b, j) = Octet(o, Origin(j, start, size, t))
    BY ONLY <2>1, MoveDataMoves
  <2>5. OnlyShows(x, r)
    <3> HIDE DEF b
    <3>1. QED
      BY <1>3, <2>2, GrowsShows DEF o
  <2>6. /\ r \in Seq(Bytes) /\ Len(r) = n
        /\ \A i \in 1..n : r[i] = Octet(b, i)
    <3> HIDE DEF b
    <3>1. QED
      BY <1>3, <2>4, ContentSeq DEF Grows
  <2> HIDE DEF b, r, s
  <2>7. Rearranged(r, s, start, size, t)
    <3>1. ASSUME NEW i \in 1..n
          PROVE  r[i] = s[Origin(i, start, size, t)]
      <4> DEFINE j == Origin(i, start, size, t)
      <4>1. j \in 1..n
        BY <1>1, <2>1, <2>3 DEF Origin
      <4>2. r[i] = Octet(o, j)
        BY <2>4, <2>6
      <4> HIDE DEF j
      <4>3. s[j] = Octet(o, j)
        BY <1>1, <4>1
      <4>4. QED
        BY <4>2, <4>3 DEF j
    <3>2. QED
      BY <1>1, <2>1, <2>3, <2>6, <3>1 DEF Rearranged
  <2>8. r = MovedTo(s, start, size, t)
    BY ONLY <1>1, <2>1, <2>3, <2>6, <2>7, MovedSeq
  <2>9. OnlyShows(x, MovedTo(Data(x), start, size, t))
    BY <2>5, <2>8 DEF s
  <2>10. QED
    BY <2>2, <2>3, <2>9, MovesBytes
<1>5. CASE ~moved
  <2>1. Done(x, b, Called("keep", x, <<>>)) /\ call' = Called("keep", x, <<>>)
    BY <1>2, <1>5 DEF Done
  <2>2. Keeps(o, b) /\ Content(b) = Data(x)
    BY <1>1, <1>3, <1>5, KeepsItself DEF Data
  <2>3. OnlyShows(x, Data(x))
    <3> HIDE DEF b
    <3>1. QED
      BY <2>1, <2>2, KeepsShows
  <2>4. QED
    BY <2>1, <2>3, KeepsBytes
<1>6. QED
  BY <1>4, <1>5

\* A buffer that has the bytes it had, as far as there is room for them, and a
\* new size.
LEMMA SizedShows ==
    ASSUME IndInv, NEW x \in Buffers, NEW size \in Nat, NEW b, Sound(b), Cur(b) = size,
           \A k \in 1..Cur(At(x)) : k <= size => Octet(b, k) = Octet(At(x), k),
           OnlyShows(x, Content(b)), call' = Called("resize", x, [size |-> size])
    PROVE  Abstract!Next
<1> DEFINE s == Data(x)
           r == Content(b)
           n == Cur(At(x))
<1>1. /\ s \in Seq(Bytes) /\ Len(s) = n /\ n \in Nat
      /\ \A i \in 1..n : s[i] = Octet(At(x), i)
  BY DataSeq
<1>2. /\ r \in Seq(Bytes) /\ Len(r) = size
      /\ \A i \in 1..size : r[i] = Octet(b, i)
  BY ContentSeq
<1> HIDE DEF s, r
<1>3. \A i \in 1..n : i <= size => r[i] = s[i]
  BY <1>1, <1>2
<1>4. IsPrefix(r, s) \/ IsPrefix(s, r)
  <2>1. CASE size <= n
    <3>1. Len(r) <= Len(s) /\ \A i \in 1..Len(r) : r[i] = s[i]
      BY <1>1, <1>2, <1>3, <2>1
    <3>2. QED
      BY <1>1, <1>2, <3>1, PrefixSeq
  <2>2. CASE ~(size <= n)
    <3>1. Len(s) <= Len(r) /\ \A i \in 1..Len(s) : s[i] = r[i]
      BY <1>1, <1>2, <1>3, <2>2
    <3>2. QED
      BY <1>1, <1>2, <3>1, PrefixSeq
  <2>3. QED
    BY <2>1, <2>2
<1>5. QED
  BY <1>2, <1>4, ResizesBytes DEF s, r

\* resize,
LEMMA ResizeSizes ==
    ASSUME IndInv, Careful, NEW x \in Buffers, NEW size \in Nat, NEW reserved \in Nat,
           CallResize(x, size, reserved)
    PROVE  Abstract!Next
<1> DEFINE o == At(x)
           b == ResizeTo(o, size, reserved)
<1>1. Sound(o) /\ UnusedBlocks(o.heap) # {}
  BY AtReady
<1>2. /\ size <= Cur(o) => Keeps(o, b)
      /\ size > Cur(o) => Grows(o, b, o.maxbuffer >= size)
      /\ Cur(b) = size
      /\ o.maxbuffer >= size \/ Cur(o) = 0 \/ o.begin = 0 =>
            \A k \in 1..Cur(o) : k <= size => Octet(b, k) = Octet(o, k)
  <2> HIDE DEF o
  <2>1. QED
    BY <1>1, ResizeGrows
<1>3. /\ Done(x, b, Called("resize", x, [size |-> size]))
      /\ call' = Called("resize", x, [size |-> size])
  BY DEF CallResize, Done
<1>4. size > Cur(o) =>
         /\ MayChange(x, o.maxbuffer >= size)
         /\ o.maxbuffer >= size \/ Cur(o) = 0 \/ o.begin = 0
  BY AtFields DEF CallResize, OwedResize
<1>5. size <= Cur(o) => o.maxbuffer >= size
  BY <1>1, SoundFields
<1> HIDE DEF b
<1>6. Sound(b) /\ OnlyShows(x, Content(b))
  <2>1. CASE size <= Cur(o)
    BY <1>2, <1>3, <2>1, KeepsShows DEF Keeps
  <2>2. CASE size > Cur(o)
    <3> DEFINE room == o.maxbuffer >= size
    <3>1. room \in BOOLEAN /\ Grows(o, b, room) /\ MayChange(x, room)
      BY <1>2, <1>4, <2>2
    <3> HIDE DEF room
    <3>2. QED
      BY <1>3, <3>1, GrowsShows DEF Grows
  <2>3. Cur(o) \in Nat
    BY <1>1, SoundFields
  <2>4. QED
    BY <2>1, <2>2, <2>3
<1>7. \A k \in 1..Cur(o) : k <= size => Octet(b, k) = Octet(o, k)
  <2>1. Cur(o) \in Nat
    BY <1>1, SoundFields
  <2>2. o.maxbuffer >= size \/ Cur(o) = 0 \/ o.begin = 0
    BY <1>4, <1>5, <2>1
  <2>3. QED
    BY <1>2, <2>2
<1>8. QED
  BY <1>2, <1>3, <1>6, <1>7, SizedShows

\* reallocate,
LEMMA ReallocateSizes ==
    ASSUME IndInv, Careful, NEW x \in Buffers,
           NEW newsize \in Nat, NEW before \in Nat, NEW after \in Nat,
           CallReallocate(x, newsize, before, after)
    PROVE  Abstract!Next
<1> DEFINE o       == At(x)
           b       == Reallocate(o, newsize, before, after)
           inPlace == o.buffer # Null /\ o.maxbuffer >= newsize + before + after
<1>1. Sound(o) /\ UnusedBlocks(o.heap) # {}
  BY AtReady
<1>2. /\ Grows(o, b, inPlace) /\ Cur(b) = newsize
      /\ \/ inPlace /\ before # o.begin
         \/ \A k \in 1..Cur(o) : k <= newsize => Octet(b, k) = Octet(o, k)
  <2> HIDE DEF o
  <2>1. QED
    BY <1>1, ReallocateGrows
<1>3. /\ Done(x, b, Called("resize", x, [size |-> newsize]))
      /\ call' = Called("resize", x, [size |-> newsize])
  BY DEF CallReallocate, Done
<1>4. inPlace \in BOOLEAN /\ MayChange(x, inPlace) /\ (inPlace => before = o.begin)
  <2>1. o.buffer = obj[x].buffer /\ o.maxbuffer = obj[x].maxbuffer /\ o.begin = obj[x].begin
    BY AtFields
  <2> HIDE DEF o
  <2>2. QED
    BY <2>1 DEF CallReallocate, OwedReallocate
<1> HIDE DEF b, inPlace
<1>5. Sound(b) /\ OnlyShows(x, Content(b))
  BY <1>2, <1>3, <1>4, GrowsShows DEF Grows
<1>6. \A k \in 1..Cur(o) : k <= newsize => Octet(b, k) = Octet(o, k)
  BY <1>2, <1>4
<1>7. QED
  BY <1>2, <1>3, <1>5, <1>6, SizedShows

\* A buffer that has the bytes it had, and shows them in the block it has now.
LEMMA SameShows ==
    ASSUME IndInv, NEW x \in Buffers, NEW b, Sound(b), Cur(b) = Cur(At(x)),
           \A k \in 1..Cur(At(x)) : Octet(b, k) = Octet(At(x), k),
           OnlyShows(x, Content(b)), call' = Called("keep", x, <<>>)
    PROVE  Abstract!Next
<1> DEFINE s == Data(x)
           r == Content(b)
<1>1. /\ s \in Seq(Bytes) /\ Len(s) = Cur(b)
      /\ \A i \in 1..Cur(b) : s[i] = Octet(At(x), i)
  BY DataSeq
<1>2. /\ r \in Seq(Bytes) /\ Len(r) = Cur(b)
      /\ \A i \in 1..Cur(b) : r[i] = Octet(b, i)
  BY ContentSeq
<1> HIDE DEF s, r
<1>3. Len(r) = Len(s) /\ \A i \in 1..Len(r) : r[i] = s[i]
  BY <1>1, <1>2
<1>4. r = s
  BY <1>1, <1>2, <1>3, SeqEqual
<1>5. QED
  BY <1>4, KeepsBytes DEF s, r

\* reserve,
LEMMA ReserveSame ==
    ASSUME IndInv, Careful, NEW x \in Buffers, NEW size \in Nat, CallReserve(x, size)
    PROVE  Abstract!Next
<1> DEFINE o == At(x)
           b == Reserve(o, size)
<1>1. Sound(o) /\ UnusedBlocks(o.heap) # {}
  BY AtReady
<1>2. /\ o.maxbuffer >= size => Keeps(o, b)
      /\ ~(o.maxbuffer >= size) => Grows(o, b, FALSE)
      /\ Cur(b) = Cur(o)
      /\ \A k \in 1..Cur(o) : Octet(b, k) = Octet(o, k)
  <2> HIDE DEF o
  <2>1. QED
    BY <1>1, ReserveGrows
<1>3. /\ MayChange(x, FALSE) /\ Done(x, b, Called("keep", x, <<>>))
      /\ call' = Called("keep", x, <<>>)
  BY DEF CallReserve, Done
<1> HIDE DEF b
<1>4. Sound(b) /\ OnlyShows(x, Content(b))
  <2>1. CASE o.maxbuffer >= size
    BY <1>2, <1>3, <2>1, KeepsShows DEF Keeps
  <2>2. CASE ~(o.maxbuffer >= size)
    BY <1>2, <1>3, <2>2, GrowsShows DEF Grows
  <2>3. QED
    BY <2>1, <2>2
<1>5. QED
  BY <1>2, <1>3, <1>4, SameShows

\* setUnusedUpper,
LEMMA UnusedUpperSame ==
    ASSUME IndInv, Careful, NEW x \in Buffers, SetUnusedUpper(x)
    PROVE  Abstract!Next
<1> DEFINE b == [At(x) EXCEPT !.borrowed = FALSE]
<1>1. Sound(At(x)) /\ At(x) \in Bufs
  BY AtReady, SoundFields
<1>2. ~obj[x].borrowed /\ Done(x, b, Called("keep", x, <<>>)) /\ call' = Called("keep", x, <<>>)
  BY DEF SetUnusedUpper, Done
<1>3. At(x).borrowed = FALSE
  BY <1>1, <1>2, AtFields DEF Bufs
<1>4. b = At(x)
  BY <1>1, <1>3 DEF Bufs
<1> HIDE DEF b
<1>5. Keeps(At(x), b)
  BY <1>1, <1>4, KeepsItself
<1>6. OnlyShows(x, Content(b))
  BY <1>2, <1>5, KeepsShows
<1>7. QED
  BY <1>2, <1>4, <1>6, KeepsBytes DEF Data

\* c_str, which writes behind the data.
LEMMA CStrSame ==
    ASSUME IndInv, Careful, NEW x \in Buffers, NEW v \in Bytes, CStr(x, v)
    PROVE  Abstract!Next
<1> DEFINE b == At(x)
           d == [b EXCEPT !.heap[b.buffer][b.end] = v]
<1>1. /\ Sound(b) /\ b \in Bufs /\ Backed(b)
      /\ b.begin \in Nat /\ b.end \in Nat /\ b.maxbuffer \in Nat /\ b.begin <= b.end
      /\ Cur(b) = b.end - b.begin /\ Cur(b) \in Nat
  BY AtReady, SoundFields
<1>2. call' = Called("keep", x, <<>>)
  BY DEF CStr, Done
<1>3. CASE b.buffer = Null
  <2>1. Done(x, b, Called("keep", x, <<>>))
    BY <1>3 DEF CStr
  <2>2. Keeps(At(x), b)
    BY <1>1, KeepsItself
  <2>3. OnlyShows(x, Data(x))
    BY <2>1, <2>2, KeepsShows DEF Data
  <2>4. QED
    BY <1>2, <2>3, KeepsBytes
<1>4. CASE b.buffer # Null
  <2>1. b.end < b.maxbuffer /\ MayChange(x, TRUE) /\ Done(x, d, Called("keep", x, <<>>))
    BY <1>4, AtFields DEF CStr, OwedCStr
  <2>2. Grows(b, d, TRUE)
    BY <1>1, <1>4, <2>1, CStrWrites
  <2>3. /\ Cur(d) = Cur(b) /\ d.begin = b.begin
        /\ \A i \in 0..(b.maxbuffer - 1) : i # b.end => Mem(d)[i] = Mem(b)[i]
    <3>1. b.buffer \in Blocks /\ b.heap \in [Blocks -> Mems]
      BY <1>1, <1>4 DEF Bufs
    <3>2. Mem(b) = b.heap[b.buffer] /\ DOMAIN Mem(b) = 0..(b.maxbuffer - 1)
      BY <1>1, <1>4, MemOfBlock DEF Mem, MemOf
    <3> DEFINE m == [Mem(b) EXCEPT ![b.end] = v]
    <3>3. \A i \in 0..(b.maxbuffer - 1) : i # b.end => m[i] = Mem(b)[i]
      BY <3>2
    <3>4. d = [b EXCEPT !.heap = [b.heap EXCEPT ![b.buffer] = m]]
      BY <1>1, <3>2
    <3> HIDE DEF m
    <3>5. /\ d.begin = b.begin /\ d.end = b.end /\ d.buffer = b.buffer
          /\ d.heap[b.buffer] = m
      BY <1>1, <3>1, <3>4 DEF Bufs
    <3>6. QED
      BY <1>4, <3>2, <3>3, <3>5 DEF Mem, Cur
  <2>4. \A k \in 1..Cur(b) : Octet(d, k) = Octet(b, k)
    <3>1. \A k \in 1..Cur(b) : /\ b.begin + k - 1 \in 0..(b.maxbuffer - 1)
                               /\ b.begin + k - 1 # b.end
      BY <1>1, <2>1
    <3>2. QED
      BY <2>3, <3>1 DEF Octet
  <2> HIDE DEF d
  <2>5. Sound(d) /\ OnlyShows(x, Content(d))
    BY <2>1, <2>2, GrowsShows DEF Grows
  <2>6. QED
    BY <1>2, <2>3, <2>4, <2>5, SameShows
<1>5. QED
  BY <1>3, <1>4

\* A released buffer shows nothing.
LEMMA EmptyShows ==
    ASSUME NEW x \in Buffers, obj'[x] = Empty
    PROVE  Data(x)' = <<>>
<1>1. Empty \in FieldSet /\ Empty.end = Empty.begin
  BY DEF Empty, FieldSet
<1>2. QED
  BY <1>1, ShownData, NothingShown

\* And leaves the blocks of the others alone.
LEMMA ReleaseLeaves ==
    ASSUME IndInv, Careful, NEW x \in Buffers, MayChange(x, FALSE),
           NEW y \in Buffers \ {x}, obj[y].buffer # Null
    PROVE  /\ obj[y].buffer \in Blocks
           /\ Freed(At(x))[obj[y].buffer] = heap[obj[y].buffer]
           /\ heap[obj[y].buffer] # Unallocated
<1>1. obj[y].buffer \in Blocks
  BY NoBlock DEF FieldSet
<1>2. At(x).heap = heap /\ At(x).buffer = obj[x].buffer /\ At(x).borrowed = obj[x].borrowed
  BY AtSound DEF IndInv
<1>3. obj[x].borrowed \/ obj[y].buffer # obj[x].buffer
  BY FreeOfShares DEF MayChange
<1>4. Freed(At(x))[obj[y].buffer] = heap[obj[y].buffer]
  BY <1>1, <1>2, <1>3 DEF Freed
<1>5. obj[y].buffer \notin UnusedBlocks(heap)
  BY FreeOfAll
<1>6. QED
  BY <1>1, <1>4, <1>5 DEF UnusedBlocks

\* deallocate and the destructor.
LEMMA DeallocateDrops ==
    ASSUME IndInv, Careful, NEW x \in Buffers, Deallocate(x)
    PROVE  Abstract!Next
<1> DEFINE b == Released(At(x))
<1>1. At(x) \in Bufs
  BY AtReady, SoundFields
<1>2. Fields(b) = Empty /\ b.buffer = Null /\ b.heap = Freed(At(x))
  BY <1>1, ReleasedFields
<1>3. /\ MayChange(x, FALSE) /\ call' = Called("drop", x, <<>>)
      /\ obj' = [obj EXCEPT ![x] = Fields(b)]
      /\ heap' = IF b.buffer = Null \/ b.borrowed \/ Others(x, b.buffer) # {}
                 THEN b.heap ELSE Tidied(b).heap
  BY DEF Deallocate, Done
<1> HIDE DEF b
<1>4. obj' = [obj EXCEPT ![x] = Empty] /\ heap' = Freed(At(x))
  BY <1>2, <1>3
<1>5. obj'[x] = Empty /\ \A y \in Buffers \ {x} : obj'[y] = obj[y]
  BY <1>4 DEF IndInv, Good
<1>6. ASSUME NEW y \in Buffers \ {x}
      PROVE  Data(y)' = Data(y)
  <2>1. ASSUME obj[y].buffer # Null
        PROVE  heap'[obj[y].buffer] = heap[obj[y].buffer]
    <3>1. Freed(At(x))[obj[y].buffer] = heap[obj[y].buffer]
      BY <1>3, <2>1, ReleaseLeaves
    <3>2. QED
      BY <1>4, <3>1
  <2>2. QED
    BY <1>5, <2>1, KeptData
<1>7. OnlyShows(x, <<>>)
  BY <1>5, <1>6, EmptyShows DEF OnlyShows
<1>8. QED
  BY <1>3, <1>7, DropsBytes

\* What a buffer shows of lent memory, in a block that was free in h.
ShowsLent(c, h, s) ==
    /\ Shown(Fields(c), c.heap[c.buffer]) = s
    /\ c.borrowed /\ c.buffer \in UnusedBlocks(h)
    /\ \A k \in Blocks : k # c.buffer => c.heap[k] = h[k]

\* That is what Lend does.
LEMMA LendShown ==
    ASSUME NEW b \in Bufs, UnusedBlocks(b.heap) # {}, NEW size \in Nat \ {0}, NEW v \in Bytes,
           NEW end \in Nat, end <= size, NEW c, c = Lend(b, size, v, end)
    PROVE  ShowsLent(c, b.heap, [i \in 1..end |-> v])
<1> DEFINE new == NewBlock(b.heap)
           m   == [i \in 0..(size - 1) |-> v]
           h   == [b.heap EXCEPT ![new] = m]
<1>1. new \in UnusedBlocks(b.heap) /\ new \in Blocks
  BY DEF NewBlock, UnusedBlocks
<1>2. b.heap \in [Blocks -> Mems]
  BY DEF Bufs
<1>3. c = [b EXCEPT !.buffer = new, !.maxbuffer = size, !.begin = 0, !.end = end,
                    !.borrowed = TRUE, !.heap = h]
  BY DEF Lend
<1>4. \A i \in 1..end : m[0 + i - 1] = v
  OBVIOUS
<1> HIDE DEF new, m
<1>5. h[new] = m /\ \A k \in Blocks : k # new => h[k] = b.heap[k]
  BY <1>1, <1>2
<1> HIDE DEF h
<1>6. /\ c.buffer = new /\ c.begin = 0 /\ c.end = end /\ c.borrowed = TRUE /\ c.heap = h
  BY <1>3 DEF Bufs
<1>7. Fields(c).begin = 0 /\ Fields(c).end = end /\ Fields(c).buffer = new
  BY <1>6 DEF Fields
<1>8. Shown(Fields(c), m) = [i \in 1..end |-> v]
  <2>1. 1..(end - 0) = 1..end
    OBVIOUS
  <2>2. QED
    BY <1>4, <1>7, <2>1 DEF Shown
<1>9. QED
  BY <1>1, <1>5, <1>6, <1>8 DEF ShowsLent

\* attachMem.
LEMMA AttachMemWraps ==
    ASSUME IndInv, Careful, NEW x \in Buffers, NEW size \in Nat \ {0}, NEW v \in Bytes,
           AttachMem(x, size, v)
    PROVE  Abstract!Next
<1> DEFINE r == Released(At(x))
           b == Lend(r, size, v, size)
           g == Freed(At(x))
           s == [i \in 1..size |-> v]
<1>1. At(x) \in Bufs
  BY AtReady, SoundFields
<1>2. r.buffer = Null /\ r.heap = g
  BY <1>1, ReleasedFields
<1>3. /\ MayChange(x, FALSE) /\ call' = Called("wrap", x, s)
      /\ obj' = [obj EXCEPT ![x] = Fields(b)]
      /\ heap' = IF b.buffer = Null \/ b.borrowed \/ Others(x, b.buffer) # {}
                 THEN b.heap ELSE Tidied(b).heap
  BY DEF AttachMem, Done
<1>4. g \in [Blocks -> Mems] /\ UnusedBlocks(g) # {}
  <2>1. Good([obj EXCEPT ![x] = Empty], g, Held) /\ UnusedBlocks(g) # {}
    BY <1>3, ReleaseGood
  <2>2. QED
    BY <2>1 DEF Good
<1>5. r \in Bufs
  BY <1>1, <1>4, ReleasedIsBuf
<1> HIDE DEF r, g
<1>6. /\ Shown(Fields(b), b.heap[b.buffer]) = s
      /\ b.borrowed /\ b.buffer \in UnusedBlocks(g)
      /\ \A k \in Blocks : k # b.buffer => b.heap[k] = g[k]
  <2>1. size \in Nat /\ size <= size
    OBVIOUS
  <2>2. ShowsLent(b, r.heap, s)
    BY <1>2, <1>4, <1>5, <2>1, LendShown
  <2>3. QED
    BY <1>2, <2>2 DEF ShowsLent
<1> HIDE DEF b, s
<1>7. /\ heap' = b.heap /\ obj'[x] = Fields(b) /\ Fields(b).buffer = b.buffer
      /\ \A y \in Buffers \ {x} : obj'[y] = obj[y]
  BY <1>3, <1>6 DEF IndInv, Good, Fields
<1>8. Data(x)' = s
  BY <1>6, <1>7, ShownData
<1>9. ASSUME NEW y \in Buffers \ {x}
      PROVE  Data(y)' = Data(y)
  <2>1. ASSUME obj[y].buffer # Null
        PROVE  heap'[obj[y].buffer] = heap[obj[y].buffer]
    <3>1. /\ obj[y].buffer \in Blocks /\ g[obj[y].buffer] = heap[obj[y].buffer]
          /\ heap[obj[y].buffer] # Unallocated
      BY <1>3, <2>1, ReleaseLeaves DEF g
    <3>2. obj[y].buffer # b.buffer
      BY <1>6, <3>1 DEF UnusedBlocks
    <3>3. QED
      BY <1>6, <1>7, <3>1, <3>2
  <2>2. QED
    BY <1>7, <2>1, KeptData
<1>10. OnlyShows(x, s)
  BY <1>8, <1>9 DEF OnlyShows
<1>11. s \in Seq(Bytes)
  <2>1. s \in [1..size -> Bytes] /\ size \in Nat
    BY DEF s
  <2>2. QED
    BY <2>1, FunctionSeq
<1>12. QED
  BY <1>3, <1>10, <1>11, WrapsBytes

\* The constructor with memory of the caller, of which it shows nothing.
LEMMA ConstructKeeps ==
    ASSUME IndInv, Careful, NEW x \in Buffers, NEW size \in Nat \ {0}, NEW v \in Bytes,
           Construct(x, size, v)
    PROVE  Abstract!Next
<1> DEFINE b == Lend(At(x), size, v, 0)
<1>1. At(x) \in Bufs /\ At(x).heap = heap /\ UnusedBlocks(At(x).heap) # {}
  BY AtReady, SoundFields, AtSound DEF IndInv
<1>2. /\ obj[x] = Empty /\ call' = Called("keep", x, <<>>)
      /\ obj' = [obj EXCEPT ![x] = Fields(b)]
      /\ heap' = IF b.buffer = Null \/ b.borrowed \/ Others(x, b.buffer) # {}
                 THEN b.heap ELSE Tidied(b).heap
  BY DEF Construct, Done
<1>3. /\ Shown(Fields(b), b.heap[b.buffer]) = [i \in 1..0 |-> v]
      /\ b.borrowed /\ b.buffer \in UnusedBlocks(heap)
      /\ \A k \in Blocks : k # b.buffer => b.heap[k] = heap[k]
  <2>1. 0 \in Nat /\ 0 <= size
    OBVIOUS
  <2>2. ShowsLent(b, At(x).heap, [i \in 1..0 |-> v])
    BY <1>1, <2>1, LendShown
  <2>3. QED
    BY <1>1, <2>2 DEF ShowsLent
<1> HIDE DEF b
<1>4. /\ heap' = b.heap /\ obj'[x] = Fields(b) /\ Fields(b).buffer = b.buffer
      /\ \A y \in Buffers \ {x} : obj'[y] = obj[y]
  BY <1>2, <1>3 DEF IndInv, Good, Fields
<1>5. Data(x)' = <<>>
  <2>1. [i \in 1..0 |-> v] = <<>>
    OBVIOUS
  <2>2. QED
    BY <1>3, <1>4, <2>1, ShownData
<1>6. Data(x) = <<>>
  <2>1. Empty \in FieldSet /\ Empty.end = Empty.begin
    BY DEF Empty, FieldSet
  <2>2. QED
    BY <1>2, <2>1, ShownData, NothingShown
<1>7. ASSUME NEW y \in Buffers \ {x}
      PROVE  Data(y)' = Data(y)
  <2>1. ASSUME obj[y].buffer # Null
        PROVE  heap'[obj[y].buffer] = heap[obj[y].buffer]
    <3>1. obj[y].buffer \in Blocks /\ obj[y].buffer # b.buffer
      BY <1>3, <2>1, NoBlock, FreeOfAll DEF FieldSet
    <3>2. QED
      BY <1>3, <1>4, <3>1
  <2>2. QED
    BY <1>4, <2>1, KeptData
<1>8. OnlyShows(x, Data(x))
  BY <1>5, <1>6, <1>7 DEF OnlyShows
<1>9. QED
  BY <1>2, <1>8, KeepsBytes

\* detachMem: the caller has the bytes.
LEMMA DetachMemDetaches ==
    ASSUME IndInv, Careful, NEW x \in Buffers, DetachMem(x)
    PROVE  Abstract!Next
<1> DEFINE b   == At(x)
           n   == Cur(b)
           ret == [i \in 1..n |-> Mem(b)[i - 1]]
           f   == obj[x]
<1>1. /\ b.buffer = f.buffer /\ b.borrowed = f.borrowed /\ b.begin = f.begin
  BY AtFields
<1>2. Sharing(x) = {} /\ f.begin = 0
  BY DEF DetachMem, OwedDetachMem
<1>3. obj' = [obj EXCEPT ![x] = Empty] /\ call' = Called("detach", x, ret)
  BY DEF DetachMem
<1>4. ASSUME NEW k \in Blocks, k # f.buffer, heap[k] # Unallocated
      PROVE  heap'[k] = heap[k]
  <2>1. CASE b.borrowed
    <3> DEFINE copy == NewBlock(heap)
               m    == Copied(Fresh(n), 0, Mem(b), b.begin, n)
    <3>1. heap' = [heap EXCEPT ![copy] = m]
      BY <2>1 DEF DetachMem
    <3>2. copy \in UnusedBlocks(heap)
      BY DEF NewBlock, IndInv
    <3>3. k # copy
      BY <1>4, <3>2 DEF UnusedBlocks
    <3> HIDE DEF copy, m
    <3>4. QED
      BY <3>1, <3>3 DEF IndInv, Good
  <2>2. CASE ~b.borrowed
    <3>1. heap' = [j \in Blocks |-> IF j = b.buffer THEN Fresh(b.maxbuffer) ELSE heap[j]]
      BY <2>2 DEF DetachMem
    <3>2. k # b.buffer
      BY <1>1, <1>4
    <3>3. QED
      BY <3>1, <3>2
  <2>3. QED
    BY <2>1, <2>2
<1>5. obj'[x] = Empty /\ \A y \in Buffers \ {x} : obj'[y] = obj[y]
  BY <1>3 DEF IndInv, Good
<1>6. /\ Data(x) \in Seq(Bytes) /\ Sound(b) /\ n \in Nat
      /\ Data(x) = [i \in 1..n |-> b.heap[b.buffer][b.begin + i - 1]]
  BY DataSeq DEF Data, Content
<1>7. Data(x) = ret
  <2>1. \A i \in 1..n : b.heap[b.buffer][b.begin + i - 1] = Mem(b)[i - 1]
    <3>1. ASSUME NEW i \in 1..n
          PROVE  b.buffer # Null /\ b.begin + i - 1 = i - 1
      <4>1. b.begin = 0 /\ b.buffer # Null
        BY <1>1, <1>2, <1>6, SoundFields
      <4> HIDE DEF b
      <4>2. QED
        BY <4>1
    <3> HIDE DEF b, n
    <3>2. QED
      BY <3>1 DEF Mem
  <2> HIDE DEF b
  <2>2. QED
    BY <1>6, <2>1
<1>8. ASSUME NEW y \in Buffers \ {x}
      PROVE  Data(y)' = Data(y)
  <2>1. ASSUME obj[y].buffer # Null
        PROVE  heap'[obj[y].buffer] = heap[obj[y].buffer]
    <3>1. obj[y].buffer \in Blocks /\ obj[y].buffer # f.buffer
      BY <1>2, <2>1, NoBlock, FreeOfShares DEF FieldSet
    <3>2. heap[obj[y].buffer] # Unallocated
      BY <2>1, <3>1, FreeOfAll DEF UnusedBlocks
    <3>3. QED
      BY <1>4, <3>1, <3>2
  <2>2. QED
    BY <1>5, <2>1, KeptData
<1>9. OnlyShows(x, <<>>)
  BY <1>5, <1>8, EmptyShows DEF OnlyShows
<1>10. QED
  BY <1>3, <1>6, <1>7, <1>9, DetachesBytes

\* assignTo: both buffers show the bytes.
LEMMA AssignToAssigns ==
    ASSUME IndInv, NEW x \in Buffers, NEW y \in Buffers, AssignTo(x, y)
    PROVE  Abstract!Next
<1>1. /\ obj' = [obj EXCEPT ![y] = obj[x], ![x].borrowed = TRUE]
      /\ heap' = heap /\ call' = Called("assign", x, y)
  BY DEF AssignTo
<1>2. obj \in [Buffers -> FieldSet]
  BY DEF IndInv, Good
<1>3. /\ obj'[y].buffer = obj[x].buffer /\ obj'[y].begin = obj[x].begin
      /\ obj'[y].end = obj[x].end
  <2>1. obj[x] \in FieldSet /\ obj[y] \in FieldSet
    BY <1>2
  <2>2. CASE x = y
    BY <1>1, <1>2, <2>1, <2>2 DEF FieldSet
  <2>3. CASE x # y
    BY <1>1, <1>2, <2>3
  <2>4. QED
    BY <2>2, <2>3
<1>4. \A z \in Buffers \ {y} : /\ obj'[z].buffer = obj[z].buffer
                               /\ obj'[z].begin = obj[z].begin /\ obj'[z].end = obj[z].end
  <2>1. \A z \in Buffers \ {x, y} : obj'[z] = obj[z]
    BY <1>1, <1>2
  <2>2. x # y => obj'[x] = [obj[x] EXCEPT !.borrowed = TRUE]
    BY <1>1, <1>2
  <2>3. obj[x] \in FieldSet
    BY <1>2
  <2>4. x # y => /\ obj'[x].buffer = obj[x].buffer
                 /\ obj'[x].begin = obj[x].begin /\ obj'[x].end = obj[x].end
    BY <2>2, <2>3 DEF FieldSet
  <2>5. QED
    BY <2>1, <2>4
<1>5. Data(y)' = Data(x)
  BY <1>1, <1>3, ShownData DEF Shown
<1>6. ASSUME NEW z \in Buffers \ {y}
      PROVE  Data(z)' = Data(z)
  <2>1. /\ Data(z) = Shown(obj[z], heap[obj[z].buffer])
        /\ Data(z)' = Shown(obj'[z], heap'[obj'[z].buffer])
    BY ShownData
  <2>2. /\ obj'[z].buffer = obj[z].buffer
        /\ obj'[z].begin = obj[z].begin /\ obj'[z].end = obj[z].end
    BY <1>4
  <2>3. QED
    BY <1>1, <2>1, <2>2 DEF Shown
<1>7. OnlyShows(y, Data(x))
  BY <1>5, <1>6 DEF OnlyShows
<1>8. QED
  BY <1>1, <1>7, AssignsBytes

\* attach: this buffer has the bytes of the other, and the other none.
LEMMA AttachTakes ==
    ASSUME IndInv, Careful, NEW x \in Buffers, NEW y \in Buffers, Attach(x, y)
    PROVE  Abstract!Next
<1>1. /\ x # y /\ MayChange(x, FALSE)
      /\ obj' = [obj EXCEPT ![x] = obj[y], ![y] = Empty]
      /\ heap' = Freed(At(x)) /\ call' = Called("take", x, y)
  BY DEF Attach, OwedAttach
<1>2. /\ obj'[x] = obj[y] /\ obj'[y] = Empty
      /\ \A z \in Buffers \ {x, y} : obj'[z] = obj[z]
  BY <1>1 DEF IndInv, Good
<1>3. ASSUME NEW z \in Buffers \ {x}, obj[z].buffer # Null
      PROVE  heap'[obj[z].buffer] = heap[obj[z].buffer]
  BY <1>1, <1>3, ReleaseLeaves
<1>4. Data(x)' = Data(y)
  <2>1. CASE obj[y].buffer = Null
    <3>1. obj[y] \in FieldSet /\ obj[y].end = obj[y].begin
      BY <2>1, NoBlock
    <3>2. Data(y) = <<>>
      BY <3>1, ShownData, NothingShown
    <3>3. Data(x)' = <<>>
      BY <1>2, <3>1, ShownData, NothingShown
    <3>4. QED
      BY <3>2, <3>3
  <2>2. CASE obj[y].buffer # Null
    <3>1. heap'[obj[y].buffer] = heap[obj[y].buffer]
      BY <1>1, <1>3, <2>2
    <3>2. /\ Data(y) = Shown(obj[y], heap[obj[y].buffer])
          /\ Data(x)' = Shown(obj'[x], heap'[obj'[x].buffer])
      BY ShownData
    <3>3. QED
      BY <1>2, <3>1, <3>2
  <2>3. QED
    BY <2>1, <2>2
<1>5. Data(y)' = <<>>
  BY <1>2, EmptyShows
<1>6. \A z \in Buffers \ {x, y} : Data(z)' = Data(z)
  BY <1>2, <1>3, KeptData
<1>7. QED
  BY <1>1, <1>4, <1>5, <1>6, TakesBytes

\* A caller frees memory that no buffer shows.
LEMMA FreeMemFrees ==
    ASSUME IndInv, NEW k \in callers, FreeMem(k)
    PROVE  Abstract!Next
<1>1. /\ (\A x \in Buffers : obj[x].buffer # k) /\ obj' = obj
      /\ heap' = [heap EXCEPT ![k] = Unallocated] /\ call' = [op |-> "free"]
  BY DEF FreeMem
<1>2. ASSUME NEW x \in Buffers
      PROVE  Data(x)' = Data(x)
  <2>1. ASSUME obj[x].buffer # Null
        PROVE  heap'[obj[x].buffer] = heap[obj[x].buffer]
    <3>1. obj[x].buffer \in Blocks /\ heap \in [Blocks -> Mems]
      BY <2>1, NoBlock DEF FieldSet, IndInv, Good
    <3>2. QED
      BY <1>1, <3>1
  <2>2. QED
    BY <1>1, <2>1, KeptData
<1>3. Abstract!Free
  BY <1>1, <1>2 DEF Abstract!Free
<1>4. QED
  BY <1>3 DEF Abstract!Next

-----------------------------------------------------------------------------
(* The refinement. *)

\* Every call on one buffer does to its bytes what ByteSeq says.
LEMMA EditBytes ==
    ASSUME IndInv, Careful, NEW x \in Buffers, Edit(x)
    PROVE  Abstract!Next
<1>1. Sizes \subseteq Nat /\ MaxMemory \in Nat
  BY DBufferAssumption DEF Sizes, DBufferAssumption
<1>2. CASE Clear(x) \/ SetUnusedUpper(x)
  BY <1>2, ClearErases, UnusedUpperSame
<1>3. CASE \E v \in Bytes \ {Junk} : CStr(x, v)
  BY <1>3, CStrSame
<1>4. ASSUME NEW n \in Sizes, CallRemoveBegin(x, n) \/ CallRemoveEnd(x, n)
      PROVE  Abstract!Next
  BY <1>1, <1>4, BeginErases, EndErases
<1>5. ASSUME NEW n \in Sizes, CallReserve(x, n)
      PROVE  Abstract!Next
  BY <1>1, <1>5, ReserveSame
<1>6. ASSUME NEW n \in Sizes, NEW m \in Sizes, CallRemoveMiddle(x, m, n) \/ CallResize(x, n, m)
      PROVE  Abstract!Next
  BY <1>1, <1>6, MiddleErases, ResizeSizes
<1>7. ASSUME NEW n \in Sizes, NEW k \in Sizes, NEW to \in Sizes \cup {MaxMemory},
             CallMoveData(x, k, n, to)
      PROVE  Abstract!Next
  BY <1>1, <1>7, MoveDataRearranges
<1>8. ASSUME NEW n \in Sizes, NEW k \in Sizes, NEW m \in Sizes, CallReallocate(x, n, k, m)
      PROVE  Abstract!Next
  BY <1>1, <1>8, ReallocateSizes
<1>9. ASSUME NEW n \in Sizes, NEW v \in Bytes \ {Junk},
             CallPrepend(x, n, v) \/ CallAppend(x, n, v)
      PROVE  Abstract!Next
  BY <1>1, <1>9, PrependInserts, AppendInserts
<1>10. ASSUME NEW n \in Sizes, NEW v \in Bytes \ {Junk}, NEW k \in Sizes,
              InsertMiddle(x, k, n, v)
       PROVE  Abstract!Next
  BY <1>1, <1>10, MiddleInserts
<1>11. QED
  BY <1>2, <1>3, <1>4, <1>5, <1>6, <1>7, <1>8, <1>9, <1>10 DEF Edit

\* So does every call that hands memory over.
LEMMA HandOverBytes ==
    ASSUME IndInv, Careful, NEW x \in Buffers, HandOver(x)
    PROVE  Abstract!Next
<1>1. Sizes \subseteq Nat
  BY DBufferAssumption DEF Sizes, DBufferAssumption
<1>2. CASE Deallocate(x)
  BY <1>2, DeallocateDrops
<1>3. CASE DetachMem(x)
  BY <1>3, DetachMemDetaches
<1>4. ASSUME NEW n \in Sizes \ {0}, NEW v \in Bytes \ {Junk},
             AttachMem(x, n, v) \/ Construct(x, n, v)
      PROVE  Abstract!Next
  BY <1>1, <1>4, AttachMemWraps, ConstructKeeps
<1>5. ASSUME NEW y \in Buffers, AssignTo(x, y) \/ Attach(x, y)
      PROVE  Abstract!Next
  BY <1>5, AssignToAssigns, AttachTakes
<1>6. QED
  BY <1>2, <1>3, <1>4, <1>5 DEF HandOver

\* At first no buffer shows a byte.
LEMMA InitBytes == Init => Abstract!Init
<1> SUFFICES ASSUME Init PROVE Abstract!Init
  OBVIOUS
<1>1. Empty \in FieldSet /\ Empty.end = Empty.begin
  BY DEF Empty, FieldSet
<1>2. \A x \in Buffers : obj[x] = Empty
  BY DEF Init
<1>3. \A x \in Buffers : Data(x) = <<>>
  BY <1>1, <1>2, ShownData, NothingShown
<1>4. call = [op |-> "none"]
  BY DEF Init
<1>5. QED
  BY <1>3, <1>4 DEF Abstract!Init

\* Every step is a step of ByteSeq, or changes no buffer and no call.
LEMMA StepBytes ==
    ASSUME IndInv, Careful, [DBNext]_dbVars
    PROVE  [Abstract!Next]_<<[x \in Buffers |-> Data(x)], call>>
<1>1. CASE UNCHANGED dbVars
  <2>1. obj' = obj /\ heap' = heap /\ call' = call
    BY <1>1 DEF dbVars
  <2>2. \A x \in Buffers : Data(x)' = Data(x)
    BY <2>1, ShownData
  <2>3. QED
    BY <2>1, <2>2
<1>2. CASE DBNext
  <2>1. Abstract!Next
    BY <1>2, EditBytes, HandOverBytes, FreeMemFrees DEF DBNext
  <2>2. QED
    BY <2>1
<1>3. QED
  BY <1>1, <1>2

\* If the callers keep what they owe (the Owed operators of DBuffer and
\* MayChange), each call of dbuffer.cpp does to the bytes of the buffers what
\* ByteSeq says of it, for buffers of any size.
THEOREM BytesAsPromised == ASSUME Careful PROVE DBSpec => ImplementsByteSeq
<1>1. IndInv /\ [DBNext]_dbVars => IndInv'
  BY NextInd
<1>2. Init => IndInv /\ Abstract!Init
  BY InitInd, InitBytes
<1>3. IndInv /\ [DBNext]_dbVars => [Abstract!Next]_<<[x \in Buffers |-> Data(x)], call>>
  BY StepBytes
<1>4. QED
  BY <1>1, <1>2, <1>3, PTL DEF DBSpec, ImplementsByteSeq, Abstract!Spec
=============================================================================
