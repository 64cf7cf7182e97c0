-------------------------- MODULE WireFormatProofs --------------------------
(***************************************************************************)
(* Proofs about WireFormat, for every set of frames and records, every     *)
(* radix WireAssumption allows and every way the stream is cut.            *)
(*                                                                         *)
(*   - Number undoes Digits, and a mask applied twice is no mask: what     *)
(*     Parse finds behind the first bytes of a frame is that frame         *)
(*     (ParseIs).                                                          *)
(*   - WireInv: the bytes received and on their way are the frames that    *)
(*     process was not given yet, one behind the other.  FramesReceived    *)
(*     and TextsReadable follow.                                           *)
(*   - MessageInv: the viewer continues a message exactly when one is      *)
(*     begun, nothing is kept between messages, and what was given to      *)
(*     on_message and what is kept are the pieces processed.               *)
(*     MessagesWhole follows.                                              *)
(***************************************************************************)
EXTENDS WireFormat, Induction, SequenceTheorems

-----------------------------------------------------------------------------
(* Numbers. *)

\* The radix is even, its half leaves room for an opcode below the mark of a
\* last frame, and the three forms of a length are different ones.
LEMMA Sizes ==
    /\ Radix \in Nat /\ High \in Nat /\ Radix = 2 * High
    /\ High \in {16, 32, 64, 128}
    /\ Len16 \in Nat /\ Len64 \in Nat /\ Len16 = High - 2 /\ Len64 = High - 1
    /\ Max16 \in Nat /\ Max16 = Radix * Radix - 1 /\ Max16 > High
<1>1. CASE Radix = 32
  BY <1>1 DEF High, Len16, Len64, Max16
<1>2. CASE Radix = 64
  BY <1>2 DEF High, Len16, Len64, Max16
<1>3. CASE Radix = 128
  BY <1>3 DEF High, Len16, Len64, Max16
<1>4. CASE Radix = 256
  BY <1>4 DEF High, Len16, Len64, Max16
<1> QED BY <1>1, <1>2, <1>3, <1>4, WireAssumption

\* The recursion of Number.
LEMMA NumberIs ==
    ASSUME NEW digits \in Seq(Nat)
    PROVE  \E f \in [0..Len(digits) -> Nat] :
              /\ Number(digits) = f[Len(digits)]
              /\ f[0] = 0
              /\ \A i \in 1..Len(digits) : f[i] = f[i - 1] * Radix + digits[i]
<1> DEFINE n == Len(digits)
           step == [i \in 1..n |-> [v \in Nat |-> v * Radix + digits[i]]]
           g == CHOOSE f : f = [i \in 0..n |-> IF i = 0 THEN 0 ELSE f[i - 1] * Radix + digits[i]]
<1>1. n \in Nat /\ \A i \in 1..n : digits[i] \in Nat
  BY LenProperties, ElementOfSeq
<1>2. \A v, d \in Nat : v * Radix + d \in Nat
  BY Sizes
<1>3. step \in [1..n -> [Nat -> Nat]]
  BY <1>1, <1>2
<1>4. Number(digits) = g[n]
  BY DEF Number
<1>5. \A i \in 1..n : \A v \in Nat : step[i][v] = v * Radix + digits[i]
  OBVIOUS
<1> HIDE DEF step, n, g
<1>6. \E f \in [0..n -> Nat] : f[0] = 0 /\ \A i \in 1..n : f[i] = step[i][f[i - 1]]
  <2>1. 0 \in Nat
    OBVIOUS
  <2>2. \E f : Follows(f, Nat, 0, n, step)
    BY <1>1, <1>3, <2>1, Recursion
  <2> QED BY <2>2 DEF Follows
<1>7. PICK f \in [0..n -> Nat] : f[0] = 0 /\ \A i \in 1..n : f[i] = step[i][f[i - 1]]
  BY <1>6
<1>8. ASSUME NEW i \in 1..n PROVE f[i] = f[i - 1] * Radix + digits[i]
  <2>1. f[i - 1] \in Nat
    BY <1>1, <1>7
  <2> QED BY <1>5, <1>7, <2>1
<1>9. f = [i \in 0..n |-> IF i = 0 THEN 0 ELSE f[i - 1] * Radix + digits[i]]
  BY <1>1, <1>7, <1>8
<1>10. g = [i \in 0..n |-> IF i = 0 THEN 0 ELSE g[i - 1] * Radix + digits[i]]
  BY <1>9 DEF g
<1>11. g[0] = 0 /\ \A i \in 1..n : g[i] = g[i - 1] * Radix + digits[i]
  <2>1. \A i \in 0..n : g[i] = IF i = 0 THEN 0 ELSE g[i - 1] * Radix + digits[i]
    BY <1>10
  <2> QED BY <1>1, <2>1
<1>12. g \in [0..n -> Nat]
  <2> DEFINE S == {k \in Nat : k <= n => g[k] \in Nat}
  <2>1. 0 \in S
    BY <1>11
  <2>2. ASSUME NEW k \in Nat, k \in S PROVE k + 1 \in S
    <3> SUFFICES ASSUME k + 1 <= n PROVE g[k + 1] \in Nat
      OBVIOUS
    <3>1. k + 1 \in 1..n /\ (k + 1) - 1 = k /\ g[k] \in Nat
      BY <1>1, <2>2
    <3>2. g[k + 1] = g[k] * Radix + digits[k + 1] /\ digits[k + 1] \in Nat
      BY <1>1, <1>11, <3>1
    <3> QED BY <1>2, <3>1, <3>2
  <2>3. \A k \in Nat : k \in S
    <3> HIDE DEF S
    <3> QED BY <2>1, <2>2, NatInduct
  <2>4. \A k \in 0..n : g[k] \in Nat
    BY <2>3
  <2> QED BY <1>10, <2>4
<1> QED BY <1>4, <1>11, <1>12 DEF n

\* Quotients and remainders of the four radices.
LEMMA Quotients ==
    ASSUME NEW k \in Nat
    PROVE  /\ k \div Radix \in Nat /\ k % Radix \in Byte /\ Byte \subseteq Nat
           /\ k = (k \div Radix) * Radix + (k % Radix)
           /\ k \div (Radix * Radix) = (k \div Radix) \div Radix
           /\ k \div (Radix * Radix * Radix) = (k \div (Radix * Radix)) \div Radix
           /\ k < Radix => k % Radix = k
<1>1. CASE Radix = 32
  BY <1>1 DEF Byte
<1>2. CASE Radix = 64
  BY <1>2 DEF Byte
<1>3. CASE Radix = 128
  BY <1>3 DEF Byte
<1>4. CASE Radix = 256
  BY <1>4 DEF Byte
<1> QED BY <1>1, <1>2, <1>3, <1>4, WireAssumption

\* The first digit of two, and of four.
LEMMA Bounds ==
    ASSUME NEW k \in Nat
    PROVE  /\ k < Radix * Radix => k \div Radix < Radix
           /\ k < Radix * Radix * Radix * Radix => k \div (Radix * Radix * Radix) < Radix
<1>1. CASE Radix = 32
  BY <1>1
<1>2. CASE Radix = 64
  BY <1>2
<1>3. CASE Radix = 128
  BY <1>3
<1>4. CASE Radix = 256
  BY <1>4
<1> QED BY <1>1, <1>2, <1>3, <1>4, WireAssumption

\* Two digits, and eight of which four are used, give the number back.
LEMMA Digits2 ==
    ASSUME NEW k \in Nat, k <= Max16
    PROVE  /\ Digits(k, 2) \in Seq(Byte) /\ Len(Digits(k, 2)) = 2
           /\ Number(Digits(k, 2)) = k
<1> DEFINE q == k \div Radix
           a == q % Radix
           b == k % Radix
           d == Digits(k, 2)
<1>1. k \div 1 = k
  OBVIOUS
<1>2. d = <<a, b>>
  BY <1>1 DEF Digits, Place
<1>3. q \in Nat /\ a \in Byte /\ b \in Byte /\ k = q * Radix + b /\ Byte \subseteq Nat
  BY Quotients
<1>4. q < Radix
  BY Bounds, Sizes
<1>5. a = q
  BY <1>3, <1>4, Quotients
<1> HIDE DEF q, a, b, d
<1>6. d \in Seq(Byte) /\ Len(d) = 2 /\ d \in Seq(Nat) /\ d[1] = a /\ d[2] = b
  BY <1>2, <1>3
<1>7. PICK f \in [0..2 -> Nat] :
          /\ Number(d) = f[2] /\ f[0] = 0
          /\ \A i \in 1..2 : f[i] = f[i - 1] * Radix + d[i]
  BY <1>6, NumberIs
<1>8. f[1] = 0 * Radix + d[1] /\ f[2] = f[1] * Radix + d[2]
  BY <1>7
<1>9. f[1] = a
  BY <1>3, <1>6, <1>8, Sizes
<1> QED BY <1>3, <1>5, <1>6, <1>7, <1>8, <1>9 DEF d

\* The same of the eight digits of the longest form.
LEMMA Digits8 ==
    ASSUME NEW k \in Nat, k < Radix * Radix * Radix * Radix
    PROVE  /\ Digits(k, 8) \in Seq(Byte) /\ Len(Digits(k, 8)) = 8
           /\ Number(Digits(k, 8)) = k
<1> DEFINE q1 == k \div Radix
           q2 == k \div (Radix * Radix)
           q3 == k \div (Radix * Radix * Radix)
           a == q3 % Radix
           b == q2 % Radix
           c == q1 % Radix
           e == k % Radix
           d == Digits(k, 8)
<1>1. k \div 1 = k
  OBVIOUS
<1>2. d = <<0, 0, 0, 0, a, b, c, e>>
  BY <1>1 DEF Digits, Place
<1>3. /\ q1 \in Nat /\ k = q1 * Radix + e /\ e \in Byte /\ Byte \subseteq Nat
      /\ q2 = q1 \div Radix /\ q3 = q2 \div Radix /\ q3 < Radix
  BY Quotients, Bounds
<1> HIDE DEF q2, q3
<1>4. q2 \in Nat /\ q1 = q2 * Radix + c /\ c \in Byte
  BY <1>3, Quotients
<1>5. q3 \in Nat /\ q2 = q3 * Radix + b /\ b \in Byte
  BY <1>3, <1>4, Quotients
<1>6. a = q3 /\ a \in Byte
  BY <1>3, <1>5, Quotients
<1> HIDE DEF q1, a, b, c, e, d
<1>7. /\ d \in Seq(Byte) /\ Len(d) = 8 /\ d \in Seq(Nat)
      /\ d[1] = 0 /\ d[2] = 0 /\ d[3] = 0 /\ d[4] = 0
      /\ d[5] = a /\ d[6] = b /\ d[7] = c /\ d[8] = e
  <2>1. 0 \in Byte
    BY Sizes DEF Byte
  <2>2. d \in Seq(Byte) /\ Len(d) = 8
    BY <1>2, <1>3, <1>4, <1>5, <1>6, <2>1
  <2>3. d \in Seq(Nat)
    BY <1>3, <2>2, SeqMonotonic
  <2> QED BY <1>2, <2>2, <2>3
<1>8. PICK f \in [0..8 -> Nat] :
          /\ Number(d) = f[8] /\ f[0] = 0
          /\ \A i \in 1..8 : f[i] = f[i - 1] * Radix + d[i]
  BY <1>7, NumberIs
<1>9. /\ f[1] = f[0] * Radix + d[1] /\ f[2] = f[1] * Radix + d[2]
      /\ f[3] = f[2] * Radix + d[3] /\ f[4] = f[3] * Radix + d[4]
      /\ f[5] = f[4] * Radix + d[5] /\ f[6] = f[5] * Radix + d[6]
      /\ f[7] = f[6] * Radix + d[7] /\ f[8] = f[7] * Radix + d[8]
  BY <1>8
<1>10. \A v \in Nat : 0 * Radix + v = v
  BY Sizes
<1>11. f[4] = 0
  BY <1>7, <1>8, <1>9, <1>10
<1>12. f[5] = a
  BY <1>3, <1>6, <1>7, <1>9, <1>10, <1>11
<1>13. f[6] = q2 /\ f[7] = q1 /\ f[8] = k
  BY <1>3, <1>4, <1>5, <1>6, <1>7, <1>9, <1>12
<1> QED BY <1>7, <1>8, <1>13 DEF d

-----------------------------------------------------------------------------
(* Exclusive or. *)

\* The number with these eight bits.
Value(v) == v[0] + 2 * v[1] + 4 * v[2] + 8 * v[3] + 16 * v[4] + 32 * v[5] + 64 * v[6] + 128 * v[7]
BitVectors == [0..7 -> {0, 1}]

\* Division by one of their places leaves what is above it.
LEMMA DivideAt ==
    ASSUME NEW p \in {2, 4, 8, 16, 32, 64, 128}, NEW low \in 0..(p - 1), NEW q \in Nat
    PROVE  (low + p * q) \div p = q
<1>1. CASE p = 2
  BY <1>1
<1>2. CASE p = 4
  BY <1>2
<1>3. CASE p = 8
  BY <1>3
<1>4. CASE p = 16
  BY <1>4
<1>5. CASE p = 32
  BY <1>5
<1>6. CASE p = 64
  BY <1>6
<1>7. CASE p = 128
  BY <1>7
<1> QED BY <1>1, <1>2, <1>3, <1>4, <1>5, <1>6, <1>7

\* The bits of such a number.
LEMMA BitsOf ==
    ASSUME NEW v \in BitVectors
    PROVE  /\ Value(v) \in 0..255
           /\ (Value(v) \div 1) % 2 = v[0] /\ (Value(v) \div 2) % 2 = v[1]
           /\ (Value(v) \div 4) % 2 = v[2] /\ (Value(v) \div 8) % 2 = v[3]
           /\ (Value(v) \div 16) % 2 = v[4] /\ (Value(v) \div 32) % 2 = v[5]
           /\ (Value(v) \div 64) % 2 = v[6] /\ (Value(v) \div 128) % 2 = v[7]
<1>1. \A k \in 0..7 : v[k] \in {0, 1}
  BY DEF BitVectors
<1>2. /\ v[0] \in {0, 1} /\ v[1] \in {0, 1} /\ v[2] \in {0, 1} /\ v[3] \in {0, 1}
      /\ v[4] \in {0, 1} /\ v[5] \in {0, 1} /\ v[6] \in {0, 1} /\ v[7] \in {0, 1}
  BY <1>1
<1> DEFINE l1 == v[0]
           l2 == l1 + 2 * v[1]
           l3 == l2 + 4 * v[2]
           l4 == l3 + 8 * v[3]
           l5 == l4 + 16 * v[4]
           l6 == l5 + 32 * v[5]
           l7 == l6 + 64 * v[6]
           q6 == v[6] + 2 * v[7]
           q5 == v[5] + 2 * q6
           q4 == v[4] + 2 * q5
           q3 == v[3] + 2 * q4
           q2 == v[2] + 2 * q3
           q1 == v[1] + 2 * q2
           x == Value(v)
<1>3. /\ l1 \in 0..1 /\ l2 \in 0..3 /\ l3 \in 0..7 /\ l4 \in 0..15
      /\ l5 \in 0..31 /\ l6 \in 0..63 /\ l7 \in 0..127
  BY <1>2
<1>4. q1 \in Nat /\ q2 \in Nat /\ q3 \in Nat /\ q4 \in Nat /\ q5 \in Nat /\ q6 \in Nat
  <2>1. q6 \in Nat
    BY <1>2
  <2> HIDE DEF q6
  <2>2. q5 \in Nat
    BY <1>2, <2>1
  <2> HIDE DEF q5
  <2>3. q4 \in Nat
    BY <1>2, <2>2
  <2> HIDE DEF q4
  <2>4. q3 \in Nat
    BY <1>2, <2>3
  <2> HIDE DEF q3
  <2>5. q2 \in Nat
    BY <1>2, <2>4
  <2> HIDE DEF q2
  <2>6. q1 \in Nat
    BY <1>2, <2>5
  <2> QED BY <2>1, <2>2, <2>3, <2>4, <2>5, <2>6
<1>5. /\ x = l1 + 2 * q1 /\ x = l2 + 4 * q2 /\ x = l3 + 8 * q3 /\ x = l4 + 16 * q4
      /\ x = l5 + 32 * q5 /\ x = l6 + 64 * q6 /\ x = l7 + 128 * v[7]
      /\ x \in 0..255
  BY <1>2 DEF Value
<1> HIDE DEF l1, l2, l3, l4, l5, l6, l7, x
<1>6. /\ q6 % 2 = v[6] /\ q5 % 2 = v[5] /\ q4 % 2 = v[4] /\ q3 % 2 = v[3]
      /\ q2 % 2 = v[2] /\ q1 % 2 = v[1] /\ x % 2 = v[0]
  <2>1. \A b \in {0, 1} : \A q \in Nat : (b + 2 * q) % 2 = b
    OBVIOUS
  <2>2. v[7] \in Nat
    BY <1>2
  <2> HIDE DEF q1, q2, q3, q4, q5, q6
  <2>3. q6 % 2 = v[6]
    BY <1>2, <2>1, <2>2 DEF q6
  <2>4. q5 % 2 = v[5]
    BY <1>2, <1>4, <2>1 DEF q5
  <2>5. q4 % 2 = v[4]
    BY <1>2, <1>4, <2>1 DEF q4
  <2>6. q3 % 2 = v[3]
    BY <1>2, <1>4, <2>1 DEF q3
  <2>7. q2 % 2 = v[2]
    BY <1>2, <1>4, <2>1 DEF q2
  <2>8. q1 % 2 = v[1]
    BY <1>2, <1>4, <2>1 DEF q1
  <2>9. x % 2 = v[0]
    BY <1>2, <1>4, <1>5, <2>1 DEF l1
  <2> QED BY <2>3, <2>4, <2>5, <2>6, <2>7, <2>8, <2>9
<1> HIDE DEF q1, q2, q3, q4, q5, q6
<1>7. x \div 1 = x
  BY <1>5
<1>8. x \div 2 = q1 /\ x \div 4 = q2 /\ x \div 8 = q3
  BY <1>3, <1>4, <1>5, DivideAt
<1>9. x \div 16 = q4 /\ x \div 32 = q5 /\ x \div 64 = q6
  BY <1>3, <1>4, <1>5, DivideAt
<1>10. x \div 128 = v[7] /\ v[7] % 2 = v[7]
  BY <1>2, <1>3, <1>5, DivideAt
<1> QED BY <1>5, <1>6, <1>7, <1>8, <1>9, <1>10 DEF x

\* Every byte is the number with its bits.
LEMMA HasBits ==
    ASSUME NEW a \in 0..255
    PROVE  \E v \in BitVectors : a = Value(v)
<1> DEFINE q1 == a \div 2
           q2 == q1 \div 2
           q3 == q2 \div 2
           q4 == q3 \div 2
           q5 == q4 \div 2
           q6 == q5 \div 2
           q7 == q6 \div 2
<1>1. /\ q1 \in 0..127 /\ a = (a % 2) + 2 * q1 /\ a % 2 \in {0, 1}
  OBVIOUS
<1> HIDE DEF q1
<1>2. /\ q2 \in 0..63 /\ q1 = (q1 % 2) + 2 * q2 /\ q1 % 2 \in {0, 1}
  BY <1>1
<1> HIDE DEF q2
<1>3. /\ q3 \in 0..31 /\ q2 = (q2 % 2) + 2 * q3 /\ q2 % 2 \in {0, 1}
  BY <1>2
<1> HIDE DEF q3
<1>4. /\ q4 \in 0..15 /\ q3 = (q3 % 2) + 2 * q4 /\ q3 % 2 \in {0, 1}
  BY <1>3
<1> HIDE DEF q4
<1>5. /\ q5 \in 0..7 /\ q4 = (q4 % 2) + 2 * q5 /\ q4 % 2 \in {0, 1}
  BY <1>4
<1> HIDE DEF q5
<1>6. /\ q6 \in 0..3 /\ q5 = (q5 % 2) + 2 * q6 /\ q5 % 2 \in {0, 1}
  BY <1>5
<1> HIDE DEF q6
<1>7. /\ q7 \in {0, 1} /\ q6 = (q6 % 2) + 2 * q7 /\ q6 % 2 \in {0, 1}
  BY <1>6
<1> HIDE DEF q7
<1> DEFINE v == [k \in 0..7 |-> CASE k = 0 -> a % 2 [] k = 1 -> q1 % 2 [] k = 2 -> q2 % 2
                                  [] k = 3 -> q3 % 2 [] k = 4 -> q4 % 2 [] k = 5 -> q5 % 2
                                  [] k = 6 -> q6 % 2 [] k = 7 -> q7]
<1>8. /\ v[0] = a % 2 /\ v[1] = q1 % 2 /\ v[2] = q2 % 2 /\ v[3] = q3 % 2
      /\ v[4] = q4 % 2 /\ v[5] = q5 % 2 /\ v[6] = q6 % 2 /\ v[7] = q7
  OBVIOUS
<1>9. v \in BitVectors
  <2>1. ASSUME NEW k \in 0..7 PROVE v[k] \in {0, 1}
    <3>1. k = 0 \/ k = 1 \/ k = 2 \/ k = 3 \/ k = 4 \/ k = 5 \/ k = 6 \/ k = 7
      OBVIOUS
    <3> HIDE DEF v
    <3> QED BY <1>1, <1>2, <1>3, <1>4, <1>5, <1>6, <1>7, <1>8, <3>1
  <2> QED BY <2>1 DEF BitVectors
<1> HIDE DEF v
<1>10. Value(v) = a
  BY <1>1, <1>2, <1>3, <1>4, <1>5, <1>6, <1>7, <1>8 DEF Value
<1> QED BY <1>9, <1>10

\* Exclusive or, bit by bit.
LEMMA XorBits ==
    ASSUME NEW v \in BitVectors, NEW w \in BitVectors,
           Value(v) \in Byte, Value(w) \in Byte
    PROVE  /\ [k \in 0..7 |-> (v[k] + w[k]) % 2] \in BitVectors
           /\ Xor[Value(v)][Value(w)] = Value([k \in 0..7 |-> (v[k] + w[k]) % 2])
<1> DEFINE u == [k \in 0..7 |-> (v[k] + w[k]) % 2]
           a == Value(v)
           b == Value(w)
<1>1. \A k \in 0..7 : v[k] \in {0, 1} /\ w[k] \in {0, 1}
  BY DEF BitVectors
<1>2. u \in BitVectors
  BY <1>1 DEF BitVectors
<1>3. /\ u[0] = (v[0] + w[0]) % 2 /\ u[1] = (v[1] + w[1]) % 2
      /\ u[2] = (v[2] + w[2]) % 2 /\ u[3] = (v[3] + w[3]) % 2
      /\ u[4] = (v[4] + w[4]) % 2 /\ u[5] = (v[5] + w[5]) % 2
      /\ u[6] = (v[6] + w[6]) % 2 /\ u[7] = (v[7] + w[7]) % 2
  OBVIOUS
<1>4. \A x, y \in Nat : (x + y) % 2 = ((x % 2) + (y % 2)) % 2
  OBVIOUS
<1>5. \A p \in {1, 2, 4, 8, 16, 32, 64, 128} : a \div p \in Nat /\ b \div p \in Nat
  <2>1. a \in Nat /\ b \in Nat
    BY BitsOf
  <2> HIDE DEF a, b
  <2>2. \A x \in Nat : /\ x \div 1 \in Nat /\ x \div 2 \in Nat /\ x \div 4 \in Nat
                       /\ x \div 8 \in Nat /\ x \div 16 \in Nat /\ x \div 32 \in Nat
                       /\ x \div 64 \in Nat /\ x \div 128 \in Nat
    OBVIOUS
  <2> QED BY <2>1, <2>2
<1>6. Xor[a][b] =
        LET bit(p) == p * (((a \div p) + (b \div p)) % 2)
        IN  bit(1) + bit(2) + bit(4) + bit(8) + bit(16) + bit(32) + bit(64) + bit(128)
  BY DEF Xor
<1> HIDE DEF a, b, u
<1>7. /\ ((a \div 1) + (b \div 1)) % 2 = u[0] /\ ((a \div 2) + (b \div 2)) % 2 = u[1]
      /\ ((a \div 4) + (b \div 4)) % 2 = u[2] /\ ((a \div 8) + (b \div 8)) % 2 = u[3]
      /\ ((a \div 16) + (b \div 16)) % 2 = u[4] /\ ((a \div 32) + (b \div 32)) % 2 = u[5]
      /\ ((a \div 64) + (b \div 64)) % 2 = u[6] /\ ((a \div 128) + (b \div 128)) % 2 = u[7]
  <2>1. /\ (a \div 1) % 2 = v[0] /\ (a \div 2) % 2 = v[1] /\ (a \div 4) % 2 = v[2]
        /\ (a \div 8) % 2 = v[3] /\ (a \div 16) % 2 = v[4] /\ (a \div 32) % 2 = v[5]
        /\ (a \div 64) % 2 = v[6] /\ (a \div 128) % 2 = v[7]
    BY BitsOf DEF a
  <2>2. /\ (b \div 1) % 2 = w[0] /\ (b \div 2) % 2 = w[1] /\ (b \div 4) % 2 = w[2]
        /\ (b \div 8) % 2 = w[3] /\ (b \div 16) % 2 = w[4] /\ (b \div 32) % 2 = w[5]
        /\ (b \div 64) % 2 = w[6] /\ (b \div 128) % 2 = w[7]
    BY BitsOf DEF b
  <2>3. \A p \in {1, 2, 4, 8, 16, 32, 64, 128} :
          ((a \div p) + (b \div p)) % 2 = (((a \div p) % 2) + ((b \div p) % 2)) % 2
    BY ONLY <1>4, <1>5
  <2> QED BY ONLY <1>3, <2>1, <2>2, <2>3
<1>8. \A k \in 0..7 : u[k] \in {0, 1}
  BY <1>2 DEF BitVectors
<1>9. Xor[a][b] = 1 * u[0] + 2 * u[1] + 4 * u[2] + 8 * u[3]
                    + 16 * u[4] + 32 * u[5] + 64 * u[6] + 128 * u[7]
  BY ONLY <1>6, <1>7
<1>10. Xor[a][b] = Value(u)
  BY <1>8, <1>9 DEF Value
<1> QED BY <1>2, <1>10 DEF a, b, u

\* A number below the place of a bit does not have the bit.
LEMMA NoHighBits ==
    ASSUME NEW v \in BitVectors
    PROVE  /\ Value(v) < 32 => v[5] = 0 /\ v[6] = 0 /\ v[7] = 0
           /\ Value(v) < 64 => v[6] = 0 /\ v[7] = 0
           /\ Value(v) < 128 => v[7] = 0
<1>1. \A k \in 0..7 : v[k] \in Nat /\ v[k] <= 1
  BY DEF BitVectors
<1>2. /\ v[0] \in Nat /\ v[1] \in Nat /\ v[2] \in Nat /\ v[3] \in Nat
      /\ v[4] \in Nat /\ v[5] \in Nat /\ v[6] \in Nat /\ v[7] \in Nat
  BY <1>1
<1>3. /\ v[5] <= 1 /\ v[6] <= 1 /\ v[7] <= 1
  BY <1>1
<1>4. v[5] = 0 \/ v[5] >= 1
  BY <1>2
<1>5. v[6] = 0 \/ v[6] >= 1
  BY <1>2
<1>6. v[7] = 0 \/ v[7] >= 1
  BY <1>2
<1>7. v[5] >= 1 => Value(v) >= 32
  BY <1>2 DEF Value
<1>8. v[6] >= 1 => Value(v) >= 64
  BY <1>2 DEF Value
<1>9. v[7] >= 1 => Value(v) >= 128
  BY <1>2 DEF Value
<1>10. Value(v) \in Nat
  BY BitsOf
<1> QED BY <1>4, <1>5, <1>6, <1>7, <1>8, <1>9, <1>10

\* Bytes are closed under exclusive or, and doing it twice gives the byte back.
LEMMA XorTwice ==
    ASSUME NEW a \in Byte, NEW b \in Byte
    PROVE  Xor[a][b] \in Byte /\ Xor[Xor[a][b]][b] = a
<1>1. Byte \subseteq 0..255
  BY WireAssumption DEF Byte
<1>2. PICK v \in BitVectors : a = Value(v)
  BY <1>1, HasBits
<1>3. PICK w \in BitVectors : b = Value(w)
  BY <1>1, HasBits
<1> DEFINE u == [k \in 0..7 |-> (v[k] + w[k]) % 2]
           z == [k \in 0..7 |-> (u[k] + w[k]) % 2]
<1>4. u \in BitVectors /\ Xor[a][b] = Value(u)
  BY <1>2, <1>3, XorBits
<1>5. \A k \in 0..7 : v[k] \in {0, 1} /\ w[k] \in {0, 1}
  BY DEF BitVectors
<1>6. \A k \in 0..7 : /\ u[k] \in {0, 1} /\ z[k] = v[k]
                      /\ v[k] = 0 /\ w[k] = 0 => u[k] = 0
  BY <1>5
<1>7. z = v
  BY <1>6 DEF BitVectors
<1> HIDE DEF u
<1>8. Value(u) \in Byte
  <2>3. /\ u[0] \in {0, 1} /\ u[1] \in {0, 1} /\ u[2] \in {0, 1} /\ u[3] \in {0, 1}
        /\ u[4] \in {0, 1} /\ u[5] \in {0, 1} /\ u[6] \in {0, 1} /\ u[7] \in {0, 1}
    BY <1>6
  <2>4. /\ v[5] = 0 /\ w[5] = 0 => u[5] = 0
        /\ v[6] = 0 /\ w[6] = 0 => u[6] = 0
        /\ v[7] = 0 /\ w[7] = 0 => u[7] = 0
    BY <1>6
  <2>5. CASE Radix = 32
    <3>1. Value(v) < 32 /\ Value(w) < 32
      BY <1>2, <1>3, <2>5 DEF Byte
    <3>2. u[5] = 0 /\ u[6] = 0 /\ u[7] = 0
      BY <2>4, <3>1, NoHighBits
    <3> QED BY <2>3, <2>5, <3>2 DEF Value, Byte
  <2>6. CASE Radix = 64
    <3>1. Value(v) < 64 /\ Value(w) < 64
      BY <1>2, <1>3, <2>6 DEF Byte
    <3>2. u[6] = 0 /\ u[7] = 0
      BY <2>4, <3>1, NoHighBits
    <3> QED BY <2>3, <2>6, <3>2 DEF Value, Byte
  <2>7. CASE Radix = 128
    <3>1. Value(v) < 128 /\ Value(w) < 128
      BY <1>2, <1>3, <2>7 DEF Byte
    <3>2. u[7] = 0
      BY <2>4, <3>1, NoHighBits
    <3> QED BY <2>3, <2>7, <3>2 DEF Value, Byte
  <2>8. CASE Radix = 256
    BY <2>3, <2>8 DEF Value, Byte
  <2> QED BY <2>5, <2>6, <2>7, <2>8, WireAssumption
<1>9. Xor[Value(u)][Value(w)] = Value(z)
  BY <1>3, <1>4, <1>8, XorBits
<1> HIDE DEF z
<1> QED BY <1>2, <1>3, <1>4, <1>7, <1>8, <1>9

-----------------------------------------------------------------------------
(* Frames. *)

\* Masking keys, the payloads a length can stand for, and frames.
Keys == {key \in Seq(Byte) : Len(key) \in {0, 4}}
Payloads == {p \in Seq(Byte) : Len(p) < Radix * Radix * Radix * Radix}
FrameSet == [fin : BOOLEAN, opcode : {0, 1, 2, 9, 10}, payload_data : Payloads]

\* A frame and what stands for it on the wire.
Coded(f, key) == Rfc(f.fin, f.opcode, key, f.payload_data)

\* A mask is undone by the same mask.
LEMMA MaskedIs ==
    ASSUME NEW p \in Payloads, NEW key \in Keys
    PROVE  /\ Masked(p, key) \in Seq(Byte) /\ Len(Masked(p, key)) = Len(p)
           /\ key = <<>> => Masked(p, key) = p
           /\ key # <<>> => \A i \in 1..Len(p) :
                 /\ ((i - 1) % 4) + 1 \in 1..4
                 /\ Xor[Masked(p, key)[i]][key[((i - 1) % 4) + 1]] = p[i]
<1>1. p \in Seq(Byte) /\ Len(p) \in Nat /\ DOMAIN p = 1..Len(p)
  BY LenProperties DEF Payloads
<1>2. CASE key = <<>>
  BY <1>1, <1>2 DEF Masked
<1>3. CASE key # <<>>
  <2>1. key \in Seq(Byte) /\ Len(key) = 4
    BY <1>3, EmptySeq DEF Keys
  <2> DEFINE k(i) == ((i - 1) % 4) + 1
             m == [i \in 1..Len(p) |-> Xor[p[i]][key[k(i)]]]
  <2>2. \A i \in 1..Len(p) : k(i) \in 1..4
    BY <1>1
  <2>3. Masked(p, key) = m
    BY <1>1, <1>3 DEF Masked
  <2>4. \A i \in 1..Len(p) : p[i] \in Byte /\ key[k(i)] \in Byte
    <3> HIDE DEF k
    <3> QED BY <1>1, <2>1, <2>2, ElementOfSeq
  <2> HIDE DEF k
  <2>5. \A i \in 1..Len(p) : m[i] \in Byte /\ Xor[m[i]][key[k(i)]] = p[i]
    BY <2>4, XorTwice
  <2>6. m \in Seq(Byte) /\ Len(m) = Len(p)
    BY <1>1, <2>5
  <2> HIDE DEF m
  <2> QED BY <1>3, <2>2, <2>3, <2>5, <2>6 DEF k
<1> QED BY <1>2, <1>3

\* The first byte of a frame.
FirstByte(f) == (IF f.fin THEN High ELSE 0) + f.opcode

\* fin and the opcode can be read from the first byte.
LEMMA FirstByteIs ==
    ASSUME NEW f \in FrameSet
    PROVE  /\ FirstByte(f) \in Byte
           /\ FirstByte(f) >= High <=> f.fin
           /\ FirstByte(f) % 16 = f.opcode
<1> DEFINE op == f.opcode
<1>1. f.fin \in BOOLEAN /\ op \in 0..10
  BY DEF FrameSet
<1> HIDE DEF op
<1>2. FirstByte(f) = (IF f.fin THEN High ELSE 0) + op
  BY DEF FirstByte, op
<1>3. op % 16 = op
  BY <1>1
<1>4. \A h \in {16, 32, 64, 128} : (h + op) % 16 = op
  BY <1>1
<1>5. CASE f.fin
  <2>1. FirstByte(f) = High + op
    BY <1>2, <1>5
  <2> QED BY <1>1, <1>4, <1>5, <2>1, Sizes DEF Byte, op
<1>6. CASE ~f.fin
  <2>1. FirstByte(f) = op
    BY <1>1, <1>2, <1>6
  <2> QED BY <1>1, <1>3, <1>6, <2>1, Sizes DEF Byte, op
<1> QED BY <1>1, <1>5, <1>6

\* One byte before others.
LEMMA OneBefore ==
    ASSUME NEW h \in Seq(Byte), Len(h) = 1, NEW d \in Seq(Byte)
    PROVE  /\ h \o d \in Seq(Byte) /\ Len(h \o d) = 1 + Len(d) /\ (h \o d)[1] = h[1]
           /\ \A i \in 1..Len(d) : (h \o d)[i + 1] = d[i]
<1>1. Len(d) \in Nat
  BY LenProperties
<1>2. /\ h \o d \in Seq(Byte) /\ Len(h \o d) = Len(h) + Len(d)
      /\ \A i \in 1..(Len(h) + Len(d)) :
            (h \o d)[i] = IF i <= Len(h) THEN h[i] ELSE d[i - Len(h)]
  BY ConcatProperties
<1> QED BY <1>1, <1>2

\* The bytes of a length n, with the mark of a mask or without.
LengthOf(n, mark) ==
    IF n < Len16 THEN <<mark + n>>
    ELSE IF n <= Max16 THEN <<mark + Len16>> \o Digits(n, 2)
    ELSE <<mark + Len64>> \o Digits(n, 8)

\* The second byte tells the mark and the form of the length, and the digits
\* behind it are the length.
LEMMA LengthOfIs ==
    ASSUME NEW n \in Nat, n < Radix * Radix * Radix * Radix, NEW mark \in {0, High}
    PROVE  /\ LengthOf(n, mark) \in Seq(Byte) /\ Len(LengthOf(n, mark)) \in {1, 3, 9}
           /\ LengthOf(n, mark)[1] >= High <=> mark = High
           /\ Len(LengthOf(n, mark)) = 1 =>
                 /\ LengthOf(n, mark)[1] % High = n
                 /\ n # Len16 /\ n # Len64
           /\ Len(LengthOf(n, mark)) = 3 =>
                 /\ LengthOf(n, mark)[1] % High = Len16
                 /\ Len(Digits(n, 2)) = 2 /\ Number(Digits(n, 2)) = n
                 /\ \A i \in 1..2 : LengthOf(n, mark)[i + 1] = Digits(n, 2)[i]
           /\ Len(LengthOf(n, mark)) = 9 =>
                 /\ LengthOf(n, mark)[1] % High = Len64
                 /\ Len(Digits(n, 8)) = 8 /\ Number(Digits(n, 8)) = n
                 /\ \A i \in 1..8 : LengthOf(n, mark)[i + 1] = Digits(n, 8)[i]
<1> DEFINE l == LengthOf(n, mark)
<1>1. ASSUME NEW x \in 0..(High - 1)
      PROVE  /\ mark + x \in Byte /\ (mark + x) % High = x
             /\ mark + x >= High <=> mark = High
  <2>1. \A h \in {16, 32, 64, 128} : \A y \in 0..(h - 1) : y % h = y /\ (h + y) % h = y
    OBVIOUS
  <2>2. x % High = x /\ (High + x) % High = x
    BY <2>1, Sizes
  <2>3. CASE mark = 0
    BY <2>2, <2>3, Sizes DEF Byte
  <2>4. CASE mark = High
    BY <2>2, <2>4, Sizes DEF Byte
  <2> QED BY <2>3, <2>4
<1>2. Len16 \in 0..(High - 1) /\ Len64 \in 0..(High - 1) /\ Len16 # Len64
  BY Sizes
<1>3. CASE n < Len16
  <2>1. n \in 0..(High - 1) /\ n # Len16 /\ n # Len64
    BY <1>3, Sizes
  <2>2. l = <<mark + n>>
    BY <1>3 DEF LengthOf
  <2>3. l \in Seq(Byte) /\ Len(l) = 1 /\ l[1] = mark + n
    BY <1>1, <2>1, <2>2
  <2> HIDE DEF l
  <2> QED BY <1>1, <2>1, <2>3 DEF l
<1>4. CASE n >= Len16 /\ n <= Max16
  <2> DEFINE d == Digits(n, 2)
             h == <<mark + Len16>>
  <2>1. l = h \o d
    BY <1>4, Sizes DEF LengthOf
  <2>2. d \in Seq(Byte) /\ Len(d) = 2 /\ Number(d) = n
    BY <1>4, Digits2
  <2>3. h \in Seq(Byte) /\ Len(h) = 1 /\ h[1] = mark + Len16
    BY <1>1, <1>2
  <2> HIDE DEF d, h, l
  <2>4. /\ l \in Seq(Byte) /\ Len(l) = 1 + Len(d) /\ l[1] = h[1]
        /\ \A i \in 1..Len(d) : l[i + 1] = d[i]
    <3>1. /\ h \o d \in Seq(Byte) /\ Len(h \o d) = 1 + Len(d) /\ (h \o d)[1] = h[1]
          /\ \A i \in 1..Len(d) : (h \o d)[i + 1] = d[i]
      BY ONLY <2>2, <2>3, OneBefore
    <3> QED BY ONLY <2>1, <3>1
  <2>5. /\ l \in Seq(Byte) /\ Len(l) = 3 /\ l[1] = mark + Len16
        /\ \A i \in 1..2 : l[i + 1] = d[i]
    BY <2>2, <2>3, <2>4
  <2> QED BY <1>1, <1>2, <2>2, <2>5 DEF l, d
<1>5. CASE n > Max16
  <2> DEFINE d == Digits(n, 8)
             h == <<mark + Len64>>
  <2>1. l = h \o d
    BY <1>5, Sizes DEF LengthOf
  <2>2. d \in Seq(Byte) /\ Len(d) = 8 /\ Number(d) = n
    BY Digits8
  <2>3. h \in Seq(Byte) /\ Len(h) = 1 /\ h[1] = mark + Len64
    BY <1>1, <1>2
  <2> HIDE DEF d, h, l
  <2>4. /\ l \in Seq(Byte) /\ Len(l) = 1 + Len(d) /\ l[1] = h[1]
        /\ \A i \in 1..Len(d) : l[i + 1] = d[i]
    <3>1. /\ h \o d \in Seq(Byte) /\ Len(h \o d) = 1 + Len(d) /\ (h \o d)[1] = h[1]
          /\ \A i \in 1..Len(d) : (h \o d)[i + 1] = d[i]
      BY ONLY <2>2, <2>3, OneBefore
    <3> QED BY ONLY <2>1, <3>1
  <2>5. /\ l \in Seq(Byte) /\ Len(l) = 9 /\ l[1] = mark + Len64
        /\ \A i \in 1..8 : l[i + 1] = d[i]
    BY <2>2, <2>3, <2>4
  <2> QED BY <1>1, <1>2, <2>2, <2>5 DEF l, d
<1> QED BY <1>3, <1>4, <1>5, Sizes

\* The RFC's frame is its first byte, its length, the key and the payload.
MarkOf(key) == IF key = <<>> THEN 0 ELSE High

\* Its four parts.
LEMMA CodedIs ==
    ASSUME NEW f \in FrameSet, NEW key \in Keys
    PROVE  Coded(f, key) = <<FirstByte(f)>> \o LengthOf(Len(f.payload_data), MarkOf(key))
                              \o key \o Masked(f.payload_data, key)
<1> DEFINE n == Len(f.payload_data)
           mark == MarkOf(key)
           length == CASE n < Len16 -> <<mark + n>>
                       [] n \in Len16..Max16 -> <<mark + Len16>> \o Digits(n, 2)
                       [] n > Max16 -> <<mark + Len64>> \o Digits(n, 8)
<1>1. f.payload_data \in Seq(Byte) /\ n \in Nat
  BY LenProperties DEF FrameSet, Payloads
<1>2. length = LengthOf(n, mark)
  <2> DEFINE A == <<mark + n>>
             B == <<mark + Len16>> \o Digits(n, 2)
             C == <<mark + Len64>> \o Digits(n, 8)
  <2>1. length = CASE n < Len16 -> A [] n \in Len16..Max16 -> B [] n > Max16 -> C
    OBVIOUS
  <2>2. LengthOf(n, mark) = IF n < Len16 THEN A ELSE IF n <= Max16 THEN B ELSE C
    BY DEF LengthOf
  <2> HIDE DEF n, mark, length, A, B, C
  <2>3. /\ n < Len16 => ~(n \in Len16..Max16) /\ ~(n > Max16)
        /\ n \in Len16..Max16 => ~(n < Len16) /\ ~(n > Max16) /\ n <= Max16
        /\ n > Max16 => ~(n < Len16) /\ ~(n \in Len16..Max16) /\ ~(n <= Max16)
        /\ n < Len16 \/ n \in Len16..Max16 \/ n > Max16
    BY <1>1, Sizes
  <2>4. CASE n < Len16
    BY <2>1, <2>2, <2>3, <2>4
  <2>5. CASE n \in Len16..Max16
    BY <2>1, <2>2, <2>3, <2>5
  <2>6. CASE n > Max16
    BY <2>1, <2>2, <2>3, <2>6
  <2> QED BY <2>3, <2>4, <2>5, <2>6
<1>3. Coded(f, key) = <<FirstByte(f)>> \o length \o key \o Masked(f.payload_data, key)
  BY DEF Coded, Rfc, FirstByte, MarkOf
<1> QED BY <1>2, <1>3

-----------------------------------------------------------------------------
(* Parsing a stream that begins with a frame. *)

\* s is one string and behind it another one.
Joins(s, a, b) ==
    /\ s \in Seq(Byte) /\ Len(s) = Len(a) + Len(b)
    /\ \A i \in 1..Len(a) : s[i] = a[i]
    /\ \A i \in 1..Len(b) : s[Len(a) + i] = b[i]

LEMMA ConcatJoins ==
    ASSUME NEW a \in Seq(Byte), NEW b \in Seq(Byte)
    PROVE  Joins(a \o b, a, b)
<1>1. Len(a) \in Nat /\ Len(b) \in Nat
  BY LenProperties
<1>2. /\ a \o b \in Seq(Byte) /\ Len(a \o b) = Len(a) + Len(b)
      /\ \A i \in 1..(Len(a) + Len(b)) :
            (a \o b)[i] = IF i <= Len(a) THEN a[i] ELSE b[i - Len(a)]
  BY ConcatProperties
<1>3. ASSUME NEW i \in 1..Len(b) PROVE (a \o b)[Len(a) + i] = b[i]
  <2> DEFINE k == Len(a) + i
  <2>1. k \in 1..(Len(a) + Len(b)) /\ ~(k <= Len(a)) /\ k - Len(a) = i
    BY <1>1
  <2> HIDE DEF k
  <2>2. (a \o b)[k] = b[i]
    BY <1>2, <2>1
  <2> QED BY <2>2 DEF k
<1> QED BY <1>1, <1>2, <1>3 DEF Joins

\* Bytes behind one another may be grouped either way.
Groups(a, b, c) == (a \o b) \o c = a \o (b \o c)

LEMMA ConcatGroups ==
    ASSUME NEW a \in Seq(Byte), NEW b \in Seq(Byte), NEW c \in Seq(Byte)
    PROVE  Groups(a, b, c)
BY ConcatAssociative DEF Groups

\* What SubSeq cuts out.
LEMMA Cut ==
    ASSUME NEW s \in Seq(Byte), NEW i \in Nat, NEW j \in Nat, i <= j, j <= Len(s)
    PROVE  /\ SubSeq(s, i + 1, j) \in Seq(Byte) /\ Len(SubSeq(s, i + 1, j)) = j - i
           /\ \A k \in 1..(j - i) : SubSeq(s, i + 1, j)[k] = s[i + k]
<1>1. Len(s) \in Nat
  BY LenProperties
<1>2. \A k \in (i + 1)..j : s[k] \in Byte
  BY <1>1, ElementOfSeq
<1> DEFINE m == i + 1
           c == SubSeq(s, m, j)
<1>3. m \in Nat /\ j \in Int /\ \A k \in m..j : s[k] \in Byte
  BY <1>2
<1> HIDE DEF m
<1>4. /\ c \in Seq(Byte)
      /\ Len(c) = IF m <= j THEN j - m + 1 ELSE 0
      /\ \A k \in 1..(j - m + 1) : c[k] = s[m + k - 1]
  BY <1>3, SubSeqProperties
<1> HIDE DEF c
<1>5. /\ j - m + 1 = j - i /\ (m <= j <=> j > i)
      /\ \A k \in 1..(j - i) : m + k - 1 = i + k
  BY DEF m
<1>6. Len(c) = j - i
  BY <1>4, <1>5
<1> QED BY <1>4, <1>5, <1>6 DEF c, m

\* Five strings, one behind the other.
Five(a, b, c, d, e) == a \o b \o c \o d \o e

\* s consists of them.
Splits(s, a, b, c, d, e) ==
    /\ s \in Seq(Byte)
    /\ Len(s) = 1 + Len(b) + Len(c) + Len(d) + Len(e)
    /\ s[1] = a[1]
    /\ \A i \in 1..Len(b) : s[1 + i] = b[i]
    /\ \A i \in 1..Len(c) : s[1 + Len(b) + i] = c[i]
    /\ \A i \in 1..Len(d) : s[1 + Len(b) + Len(c) + i] = d[i]
    /\ \A i \in 1..Len(e) : s[1 + Len(b) + Len(c) + Len(d) + i] = e[i]

LEMMA FiveSplits ==
    ASSUME NEW a \in Seq(Byte), Len(a) = 1, NEW b \in Seq(Byte), NEW c \in Seq(Byte),
           NEW d \in Seq(Byte), NEW e \in Seq(Byte)
    PROVE  Splits(Five(a, b, c, d, e), a, b, c, d, e)
<1> DEFINE ab == a \o b
           abc == ab \o c
           abcd == abc \o d
           s == abcd \o e
<1>1. Len(b) \in Nat /\ Len(c) \in Nat /\ Len(d) \in Nat /\ Len(e) \in Nat
  BY LenProperties
<1>2. Joins(ab, a, b)
  BY ConcatJoins
<1> HIDE DEF ab
<1>3. Joins(abc, ab, c)
  BY <1>2, ConcatJoins DEF Joins
<1> HIDE DEF abc
<1>4. Joins(abcd, abc, d)
  BY <1>3, ConcatJoins DEF Joins
<1> HIDE DEF abcd
<1>5. Joins(s, abcd, e)
  BY <1>4, ConcatJoins DEF Joins
<1>6. s = Five(a, b, c, d, e)
  BY DEF Five, ab, abc, abcd
<1> HIDE DEF s
<1>7. /\ Len(ab) = 1 + Len(b) /\ ab[1] = a[1]
      /\ \A i \in 1..Len(b) : ab[1 + i] = b[i]
  BY <1>1, <1>2 DEF Joins
<1>8. /\ Len(abc) = 1 + Len(b) + Len(c)
      /\ \A i \in 1..(1 + Len(b)) : abc[i] = ab[i]
      /\ \A i \in 1..Len(c) : abc[1 + Len(b) + i] = c[i]
  BY <1>1, <1>3, <1>7 DEF Joins
<1>9. /\ Len(abcd) = 1 + Len(b) + Len(c) + Len(d)
      /\ \A i \in 1..(1 + Len(b) + Len(c)) : abcd[i] = abc[i]
      /\ \A i \in 1..Len(d) : abcd[1 + Len(b) + Len(c) + i] = d[i]
  BY <1>1, <1>4, <1>8 DEF Joins
<1>10. /\ s \in Seq(Byte) /\ Len(s) = 1 + Len(b) + Len(c) + Len(d) + Len(e)
       /\ \A i \in 1..(1 + Len(b) + Len(c) + Len(d)) : s[i] = abcd[i]
       /\ \A i \in 1..Len(e) : s[1 + Len(b) + Len(c) + Len(d) + i] = e[i]
  BY <1>1, <1>5, <1>9 DEF Joins
<1>11. s[1] = a[1]
  BY <1>1, <1>7, <1>8, <1>9, <1>10
<1>12. ASSUME NEW i \in 1..Len(b) PROVE s[1 + i] = b[i]
  <2> DEFINE k == 1 + i
  <2>1. /\ k \in 1..(1 + Len(b)) /\ k \in 1..(1 + Len(b) + Len(c))
        /\ k \in 1..(1 + Len(b) + Len(c) + Len(d))
    BY <1>1
  <2>2. ab[k] = b[i]
    BY <1>7
  <2> HIDE DEF k
  <2>3. s[k] = b[i]
    BY <1>8, <1>9, <1>10, <2>1, <2>2
  <2> QED BY <2>3 DEF k
<1>13. ASSUME NEW i \in 1..Len(c) PROVE s[1 + Len(b) + i] = c[i]
  <2> DEFINE k == 1 + Len(b) + i
  <2>1. /\ k \in 1..(1 + Len(b) + Len(c)) /\ k \in 1..(1 + Len(b) + Len(c) + Len(d))
    BY <1>1
  <2>2. abc[k] = c[i]
    BY <1>8
  <2> HIDE DEF k
  <2>3. s[k] = c[i]
    BY <1>9, <1>10, <2>1, <2>2
  <2> QED BY <2>3 DEF k
<1>14. ASSUME NEW i \in 1..Len(d) PROVE s[1 + Len(b) + Len(c) + i] = d[i]
  <2> DEFINE k == 1 + Len(b) + Len(c) + i
  <2>1. k \in 1..(1 + Len(b) + Len(c) + Len(d))
    BY <1>1
  <2>2. abcd[k] = d[i]
    BY <1>9
  <2> HIDE DEF k
  <2>3. s[k] = d[i]
    BY <1>10, <2>1, <2>2
  <2> QED BY <2>3 DEF k
<1> QED BY <1>6, <1>10, <1>11, <1>12, <1>13, <1>14 DEF Splits

\* What parse takes from the first two bytes on, when they stand for a frame.
LEMMA HeadIs ==
    ASSUME NEW n \in Nat, n < Radix * Radix * Radix * Radix, NEW key \in Keys,
           NEW data \in Seq(Byte), Len(data) >= 2,
           data[2] = LengthOf(n, MarkOf(key))[1]
    PROVE  /\ HaveMask(data) <=> key # <<>>
           /\ 2 + LengthBytes(data) = 1 + Len(LengthOf(n, MarkOf(key)))
           /\ HeadSize(data) = 1 + Len(LengthOf(n, MarkOf(key))) + Len(key)
           /\ LengthBytes(data) = 0 => PayloadLength(data) = n
           /\ LengthBytes(data) # 0 =>
                 /\ LengthBytes(data) \in {2, 8}
                 /\ Len(Digits(n, LengthBytes(data))) = LengthBytes(data)
                 /\ Number(Digits(n, LengthBytes(data))) = n
                 /\ \A i \in 1..LengthBytes(data) :
                       LengthOf(n, MarkOf(key))[i + 1] = Digits(n, LengthBytes(data))[i]
<1> DEFINE mark == MarkOf(key)
           l == LengthOf(n, mark)
<1>1. mark \in {0, High} /\ (mark = High <=> key # <<>>)
  BY Sizes DEF MarkOf
<1>2. key \in Seq(Byte) /\ Len(key) = IF key = <<>> THEN 0 ELSE 4
  BY EmptySeq DEF Keys
<1> HIDE DEF mark
<1>3. HaveMask(data) <=> key # <<>>
  BY <1>1, LengthOfIs DEF HaveMask, mark
<1>4. Len16 # Len64 /\ Len16 \in Nat /\ Len64 \in Nat
  BY Sizes
<1>5. SizeByte(data) = l[1] % High
  BY DEF SizeByte, mark
<1>6. Len(l) \in {1, 3, 9}
  BY <1>1, LengthOfIs
<1>7. CASE Len(l) = 1
  <2>1. l[1] % High = n /\ n # Len16 /\ n # Len64
    BY <1>1, <1>7, LengthOfIs
  <2>2. LengthBytes(data) = 0
    BY <1>5, <2>1 DEF LengthBytes
  <2>3. PayloadLength(data) = n
    BY <1>5, <2>1, <2>2 DEF PayloadLength
  <2>4. HeadSize(data) = 2 + Len(key)
    BY <1>2, <1>3, <2>2 DEF HeadSize
  <2> QED BY <1>2, <1>3, <1>7, <2>2, <2>3, <2>4 DEF mark
<1>8. CASE Len(l) = 3
  <2>1. /\ l[1] % High = Len16
        /\ Len(Digits(n, 2)) = 2 /\ Number(Digits(n, 2)) = n
        /\ \A i \in 1..2 : l[i + 1] = Digits(n, 2)[i]
    BY <1>1, <1>8, LengthOfIs
  <2>2. LengthBytes(data) = 2
    BY <1>4, <1>5, <2>1 DEF LengthBytes
  <2>3. HeadSize(data) = 4 + Len(key)
    BY <1>2, <1>3, <2>2 DEF HeadSize
  <2> QED BY <1>2, <1>3, <1>8, <2>1, <2>2, <2>3 DEF mark
<1>9. CASE Len(l) = 9
  <2>1. /\ l[1] % High = Len64
        /\ Len(Digits(n, 8)) = 8 /\ Number(Digits(n, 8)) = n
        /\ \A i \in 1..8 : l[i + 1] = Digits(n, 8)[i]
    BY <1>1, <1>9, LengthOfIs
  <2>2. LengthBytes(data) = 8
    BY <1>4, <1>5, <2>1 DEF LengthBytes
  <2>3. HeadSize(data) = 10 + Len(key)
    BY <1>2, <1>3, <2>2 DEF HeadSize
  <2> QED BY <1>2, <1>3, <1>9, <2>1, <2>2, <2>3 DEF mark
<1> QED BY <1>6, <1>7, <1>8, <1>9

\* What was received begins with the bytes of a frame; the stream goes on with
\* rest behind them.
FrameFirst(data, more, f, key, rest) == data \o more = Coded(f, key) \o rest

\* parse finds that frame.
Parsed(data, more, f, rest) ==
    /\ Parse(data).fin = f.fin
    /\ Parse(data).opcode = f.opcode
    /\ Parse(data).payload_data = f.payload_data
    /\ Parse(data).counter \in 0..Len(data)
    /\ Parse(data).counter <= Len(f.payload_data) + 14
    /\ SubSeq(data, Parse(data).counter + 1, Len(data)) \o more = rest

\* A complete frame at the beginning of what was received is the one that was
\* sent, and the stream behind it is what follows that frame.
LEMMA ParseIs ==
    ASSUME NEW f \in FrameSet, NEW key \in Keys, NEW rest \in Seq(Byte),
           NEW data \in Seq(Byte), NEW more \in Seq(Byte),
           FrameFirst(data, more, f, key, rest),
           Complete(data)
    PROVE  Parsed(data, more, f, rest)
<1> DEFINE p == f.payload_data
           n == Len(p)
           l == LengthOf(n, MarkOf(key))
           m == Masked(p, key)
           first == <<FirstByte(f)>>
           s == Five(first, l, key, m, rest)
           h == 1 + Len(l) + Len(key)
<1>1. /\ p \in Payloads /\ p \in Seq(Byte) /\ n \in Nat /\ n < Radix * Radix * Radix * Radix
      /\ p = [i \in 1..n |-> p[i]]
  BY LenProperties DEF FrameSet, Payloads
<1>2. /\ key \in Seq(Byte) /\ Len(key) \in Nat /\ (key # <<>> => Len(key) = 4)
  BY EmptySeq DEF Keys
<1>3. s = data \o more
  BY CodedIs DEF FrameFirst, Five
<1>4. /\ first \in Seq(Byte) /\ Len(first) = 1 /\ first[1] = FirstByte(f)
  BY FirstByteIs
<1>5. l \in Seq(Byte) /\ Len(l) \in Nat /\ Len(l) >= 1
  <2> DEFINE mark == MarkOf(key)
  <2>1. mark \in {0, High}
    BY DEF MarkOf
  <2> HIDE DEF n, mark
  <2>2. LengthOf(n, mark) \in Seq(Byte) /\ Len(LengthOf(n, mark)) \in {1, 3, 9}
    BY <1>1, <2>1, LengthOfIs
  <2>3. \A k \in {1, 3, 9} : k \in Nat /\ k >= 1
    OBVIOUS
  <2>4. l = LengthOf(n, mark)
    BY DEF mark
  <2> HIDE DEF l
  <2> QED BY ONLY <2>2, <2>3, <2>4
<1>6. m \in Seq(Byte) /\ Len(m) = n
  BY <1>1, MaskedIs
<1> HIDE DEF p, n, l, m, first
<1>7. Splits(s, first, l, key, m, rest)
  BY ONLY <1>2, <1>4, <1>5, <1>6, rest \in Seq(Byte), FiveSplits
<1>8. Joins(s, data, more)
  BY <1>3, ConcatJoins
<1> HIDE DEF s
<1>9. /\ s \in Seq(Byte) /\ Len(s) = h + n + Len(rest)
      /\ s[1] = FirstByte(f)
      /\ \A i \in 1..Len(l) : s[1 + i] = l[i]
      /\ \A i \in 1..Len(key) : s[1 + Len(l) + i] = key[i]
      /\ \A i \in 1..n : s[h + i] = m[i]
      /\ \A i \in 1..Len(rest) : s[h + n + i] = rest[i]
  BY ONLY <1>7, <1>4, <1>6 DEF Splits, h
<1>10. h \in Nat /\ h >= 2 /\ Len(data) \in Nat /\ Len(more) \in Nat /\ Len(rest) \in Nat
  <2>1. Len(data) \in Nat /\ Len(more) \in Nat /\ Len(rest) \in Nat
    BY LenProperties
  <2>3. h \in Nat /\ h >= 2
    BY ONLY <1>2, <1>5 DEF h
  <2> QED BY <2>1, <2>3
<1>11. \A i \in 1..Len(data) : data[i] = s[i]
  BY <1>8 DEF Joins
<1>12. /\ Len(data) >= 2 /\ Len(data) >= HeadSize(data)
       /\ Len(data) >= HeadSize(data) + PayloadLength(data)
  BY DEF Complete
<1>13. data[2] = l[1] /\ data[1] = FirstByte(f)
  <2>1. 1 \in 1..Len(data) /\ 2 \in 1..Len(data) /\ 1 \in 1..Len(l)
    BY ONLY <1>5, <1>10, <1>12
  <2>2. s[1 + 1] = l[1]
    BY <1>9, <2>1
  <2> QED BY <1>9, <1>11, <2>1, <2>2
<1>14. /\ HaveMask(data) <=> key # <<>>
       /\ 2 + LengthBytes(data) = 1 + Len(l)
       /\ HeadSize(data) = h
       /\ LengthBytes(data) = 0 => PayloadLength(data) = n
       /\ LengthBytes(data) # 0 =>
             /\ LengthBytes(data) \in {2, 8}
             /\ Len(Digits(n, LengthBytes(data))) = LengthBytes(data)
             /\ Number(Digits(n, LengthBytes(data))) = n
             /\ \A i \in 1..LengthBytes(data) : l[i + 1] = Digits(n, LengthBytes(data))[i]
  BY <1>1, <1>12, <1>13, HeadIs DEF l
<1> HIDE DEF h
<1>15. PayloadLength(data) = n
  <2> DEFINE k == LengthBytes(data)
             d == Digits(n, k)
             t == SubSeq(data, 3, 2 + k)
  <2>1. CASE k = 0
    BY <1>14, <2>1
  <2>2. CASE k # 0
    <3>1. /\ k \in {2, 8} /\ Len(d) = k /\ Number(d) = n /\ Len(l) = 1 + k
          /\ \A i \in 1..k : l[i + 1] = d[i]
      <4>1. /\ k \in {2, 8} /\ Len(d) = k /\ Number(d) = n
            /\ \A i \in 1..k : l[i + 1] = d[i]
        BY ONLY <1>14, <2>2
      <4>2. Len(l) = 1 + k
        <5>1. 2 + k = 1 + Len(l) /\ k \in Nat
          BY ONLY <1>14, <4>1
        <5> HIDE DEF k
        <5> QED BY ONLY <1>5, <5>1
      <4> QED BY ONLY <4>1, <4>2
    <3>2. d \in Seq(Byte)
      <4>1. d = [i \in 1..k |-> IF k - i > 3 THEN 0 ELSE (n \div Place[k - i + 1]) % Radix]
        BY DEF Digits
      <4>2. \A i \in 1..k : d[i] \in Byte
        <5>1. \A i \in 1..k : l[i + 1] \in Byte
          BY <1>5, <3>1, ElementOfSeq
        <5> QED BY <3>1, <5>1
      <4> HIDE DEF d
      <4>3. k \in Nat
        BY ONLY <3>1
      <4> HIDE DEF k
      <4> QED BY ONLY <4>1, <4>2, <4>3
    <3> HIDE DEF k, d
    <3>3. 2 + k <= Len(data)
      BY <1>2, <1>10, <1>12, <1>14, <3>1 DEF h
    <3>4. \A i \in 1..k : data[2 + i] = d[i]
      <4>1. ASSUME NEW i \in 1..k PROVE data[2 + i] = d[i]
        <5>1. 2 + i \in 1..Len(data) /\ i + 1 \in 1..Len(l) /\ 2 + i = 1 + (i + 1)
          BY <1>10, <3>1, <3>3
        <5>2. s[1 + (i + 1)] = l[i + 1]
          BY <1>9, <5>1
        <5>3. data[2 + i] = s[2 + i]
          BY <1>11, <5>1
        <5> QED BY <3>1, <5>1, <5>2, <5>3
      <4> QED BY <4>1
    <3>5. /\ t \in Seq(Byte) /\ Len(t) = k
          /\ \A i \in 1..k : t[i] = data[2 + i]
      <4> DEFINE e == 2 + k
      <4>1. 2 \in Nat /\ e \in Nat /\ 2 <= e /\ e <= Len(data) /\ e - 2 = k /\ 2 + 1 = 3
        BY <1>10, <3>1, <3>3
      <4> HIDE DEF e
      <4>2. /\ SubSeq(data, 2 + 1, e) \in Seq(Byte) /\ Len(SubSeq(data, 2 + 1, e)) = e - 2
            /\ \A i \in 1..(e - 2) : SubSeq(data, 2 + 1, e)[i] = data[2 + i]
        BY ONLY <4>1, data \in Seq(Byte), Cut
      <4> QED BY ONLY <4>1, <4>2 DEF t, e
    <3> HIDE DEF t
    <3>6. t = d
      BY <3>1, <3>2, <3>4, <3>5, SeqEqual
    <3>7. PayloadLength(data) = Number(t)
      BY <2>2 DEF PayloadLength, t, k
    <3> QED BY <3>1, <3>6, <3>7
  <2> QED BY <2>1, <2>2
<1>16. Len(data) >= h + n
  BY <1>12, <1>14, <1>15
<1> DEFINE body == SubSeq(data, h + 1, h + n)
           masking_key == SubSeq(data, h - 3, h)
<1>17. /\ DOMAIN body = 1..n
       /\ \A i \in 1..n : body[i] = m[i]
  <2>1. h \in Nat /\ h + n \in Nat /\ h <= h + n /\ h + n <= Len(data) /\ (h + n) - h = n
    BY <1>1, <1>10, <1>16
  <2>2. /\ body \in Seq(Byte) /\ Len(body) = n
        /\ \A i \in 1..n : body[i] = data[h + i]
    <3> HIDE DEF h, n
    <3> DEFINE e == h + n
    <3>1. e \in Nat /\ h \in Nat /\ h <= e /\ e <= Len(data) /\ e - h = n
      BY <2>1
    <3> HIDE DEF e
    <3>2. /\ SubSeq(data, h + 1, e) \in Seq(Byte) /\ Len(SubSeq(data, h + 1, e)) = e - h
          /\ \A k \in 1..(e - h) : SubSeq(data, h + 1, e)[k] = data[h + k]
      BY ONLY <3>1, data \in Seq(Byte), Cut
    <3> QED BY <3>1, <3>2 DEF body, e
  <2> HIDE DEF body
  <2>3. ASSUME NEW i \in 1..n PROVE data[h + i] = m[i]
    <3>1. h + i \in 1..Len(data)
      BY <1>1, <1>10, <1>16
    <3> QED BY <1>9, <1>11, <3>1 DEF h
  <2> QED BY <2>2, <2>3, LenProperties
<1>18. key # <<>> => \A j \in 1..4 : masking_key[j] = key[j]
  <2> SUFFICES ASSUME key # <<>> PROVE \A j \in 1..4 : masking_key[j] = key[j]
    OBVIOUS
  <2>1. Len(key) = 4 /\ h = 5 + Len(l) /\ Len(l) \in Nat
    <3>1. Len(key) = 4 /\ Len(l) \in Nat
      BY <1>2, <1>5
    <3> QED BY ONLY <3>1 DEF h
  <2>2. \A i \in (h - 3)..h : data[i] \in Byte
    BY <1>1, <1>10, <1>16, <2>1, ElementOfSeq
  <2>3. \A i \in 1..4 : masking_key[i] = data[h - 4 + i]
    <3>1. \A i \in 1..(h - (h - 3) + 1) : SubSeq(data, h - 3, h)[i] = data[(h - 3) + i - 1]
      BY <1>10, <2>2, SubSeqProperties
    <3> QED BY <1>10, <3>1
  <2>4. ASSUME NEW j \in 1..4 PROVE data[h - 4 + j] = key[j]
    <3>1. h - 4 + j \in 1..Len(data) /\ h - 4 + j = 1 + Len(l) + j
      BY <1>1, <1>10, <1>16, <2>1
    <3> QED BY <1>9, <1>11, <2>1, <3>1
  <2> QED BY <2>3, <2>4
<1> HIDE DEF body, masking_key
<1>19. Unmasked(data) = p
  <2>1. Unmasked(data) =
          [i \in DOMAIN body |->
             IF HaveMask(data) THEN Xor[body[i]][masking_key[((i - 1) % 4) + 1]] ELSE body[i]]
    BY <1>14, <1>15 DEF Unmasked, body, masking_key
  <2>2. ASSUME NEW i \in 1..n
        PROVE  (IF HaveMask(data) THEN Xor[body[i]][masking_key[((i - 1) % 4) + 1]] ELSE body[i])
                 = p[i]
    <3> DEFINE j == ((i - 1) % 4) + 1
    <3>1. CASE key = <<>>
      <4>1. m = p
        BY <1>1, <3>1, MaskedIs DEF m
      <4> QED BY <1>14, <1>17, <3>1, <4>1
    <3>2. CASE key # <<>>
      <4>1. j \in 1..4 /\ Xor[m[i]][key[j]] = p[i]
        BY <1>1, <3>2, MaskedIs DEF m, n
      <4> HIDE DEF j
      <4>2. Xor[body[i]][masking_key[j]] = p[i]
        BY <1>17, <1>18, <3>2, <4>1
      <4> QED BY <1>14, <3>2, <4>2 DEF j
    <3> QED BY <3>1, <3>2
  <2>3. Unmasked(data) = [i \in 1..n |-> p[i]]
    BY <1>17, <2>1, <2>2
  <2> QED BY <1>1, <2>3
<1>20. Parse(data).counter = h + n
  BY <1>14, <1>15 DEF Parse
<1>21. /\ Parse(data).fin = f.fin
       /\ Parse(data).opcode = f.opcode
       /\ Parse(data).payload_data = f.payload_data
  <2>1. (FirstByte(f) >= High) = f.fin
    BY FirstByteIs DEF FrameSet
  <2> QED BY <1>13, <1>19, <2>1, FirstByteIs DEF Parse, p
<1>22. SubSeq(data, h + n + 1, Len(data)) \o more = rest
  <2> DEFINE c == h + n
             t == SubSeq(data, c + 1, Len(data))
             r == t \o more
  <2>1. c \in Nat /\ c <= Len(data)
    BY <1>1, <1>10, <1>16
  <2>2. /\ Len(s) = c + Len(rest) /\ \A i \in 1..Len(rest) : s[c + i] = rest[i]
    BY <1>9 DEF h
  <2> HIDE DEF c
  <2>3. /\ t \in Seq(Byte) /\ Len(t) = Len(data) - c
        /\ \A i \in 1..(Len(data) - c) : t[i] = data[c + i]
    <3>1. Len(data) \in Nat /\ Len(data) <= Len(data)
      BY <1>10
    <3> QED BY <2>1, <3>1, Cut
  <2> HIDE DEF t
  <2>4. Joins(r, t, more)
    BY <2>3, ConcatJoins
  <2> HIDE DEF r
  <2>5. Len(r) = Len(rest)
    <3>1. Len(s) = Len(data) + Len(more) /\ Len(r) = Len(t) + Len(more)
      BY ONLY <1>8, <2>4 DEF Joins
    <3>2. Len(s) = c + Len(rest) /\ Len(t) = Len(data) - c
      BY ONLY <2>2, <2>3
    <3> QED BY ONLY <1>10, <2>1, <3>1, <3>2
  <2>6. ASSUME NEW i \in 1..Len(rest) PROVE r[i] = rest[i]
    <3>1. i \in Nat /\ c + i \in 1..Len(s) /\ s[c + i] = rest[i]
      BY ONLY <1>10, <2>1, <2>2, i \in 1..Len(rest)
    <3>2. CASE i <= Len(data) - c
      <4>1. i \in 1..Len(t) /\ c + i \in 1..Len(data)
        BY <1>10, <2>1, <2>3, <3>2
      <4>2. r[i] = t[i] /\ t[i] = data[c + i]
        BY <2>3, <2>4, <4>1 DEF Joins
      <4> QED BY <1>11, <3>1, <4>1, <4>2
    <3>3. CASE i > Len(data) - c
      <4> DEFINE j == i - (Len(data) - c)
      <4>1. /\ j \in 1..Len(more) /\ Len(t) + j = i /\ Len(data) + j = c + i
        BY <1>8, <1>10, <2>1, <2>2, <2>3, <3>1, <3>3 DEF Joins
      <4> HIDE DEF j
      <4>2. r[i] = more[j]
        BY <2>4, <4>1 DEF Joins
      <4>3. s[c + i] = more[j]
        BY <1>8, <4>1 DEF Joins
      <4> QED BY <3>1, <4>2, <4>3
    <3> QED BY <1>10, <2>1, <3>1, <3>2, <3>3
  <2>7. r \in Seq(Byte)
    BY <2>4 DEF Joins
  <2>8. r = rest
    BY <2>5, <2>6, <2>7, SeqEqual
  <2> QED BY <2>8 DEF r, t, c
<1>23. h + n \in 0..Len(data)
  BY <1>1, <1>10, <1>16
<1>24. SubSeq(data, Parse(data).counter + 1, Len(data)) \o more = rest
  BY ONLY <1>20, <1>22
<1>25. h + n <= n + 14
  <2>2. Len(l) <= 9 /\ Len(key) <= 4 /\ Len(l) \in Nat /\ Len(key) \in Nat
    <3> DEFINE mark == MarkOf(key)
    <3>1. mark \in {0, High}
      BY DEF MarkOf
    <3> HIDE DEF n, mark
    <3>2. Len(LengthOf(n, mark)) \in {1, 3, 9}
      BY <1>1, <3>1, LengthOfIs
    <3>3. Len(l) \in {1, 3, 9}
      BY <3>2 DEF l, mark
    <3>4. Len(key) \in {0, 4}
      BY DEF Keys
    <3>5. \A k \in {0, 1, 3, 4, 9} : k \in Nat /\ k <= 9 /\ (k \in {0, 4} => k <= 4)
      OBVIOUS
    <3> DEFINE a == Len(l)
               b == Len(key)
    <3> HIDE DEF a, b
    <3>6. a \in {1, 3, 9} /\ b \in {0, 4}
      BY <3>3, <3>4 DEF a, b
    <3> QED BY ONLY <3>5, <3>6 DEF a, b
  <2>3. h = 1 + Len(l) + Len(key)
    BY DEF h
  <2> QED BY ONLY <1>1, <2>2, <2>3
<1> QED BY <1>20, <1>21, <1>23, <1>24, <1>25 DEF Parsed, n, p

-----------------------------------------------------------------------------
(* The stream between the viewer and process. *)

\* b is the bytes of the frames of s behind the first k: t gives what is left
\* of it behind each of them.
Stream(s, k, b) ==
    \E t \in [k..Len(s) -> Seq(Byte)] :
        /\ t[k] = b
        /\ t[Len(s)] = <<>>
        /\ \A i \in (k + 1)..Len(s) : \E key \in Keys : t[i - 1] = Coded(s[i], key) \o t[i]

\* The frames given to process are the first ones of those that were sent.
Begins(s, r) == Len(r) <= Len(s) /\ \A i \in 1..Len(r) : r[i] = s[i]

\* What was written, each text in the form of the RFC.
Written ==
    {w \in [kind : {"text", "pong"}, payload : Payloads, bytes : Seq(Byte)] :
        w.kind = "text" => w.bytes = Rfc(TRUE, 1, <<>>, w.payload)}

TypeInv ==
    /\ sent \in Seq(FrameSet) /\ processed \in Seq(FrameSet)
    /\ inWire \in Seq(Byte) /\ buffer_ \in Seq(Byte)
    /\ fragment_ \in Seq(Byte) /\ messages \in Seq(Seq(Byte))
    /\ out \in Seq(Written)

StreamInv == Begins(sent, processed) /\ Stream(sent, Len(processed), buffer_ \o inWire)

\* The number of bytes of each frame is below 2^32.
Bounded(s) == \A i \in 1..Len(s) : Len(s[i].payload_data) + 14 < 2 * (MaxInt + 1)

\* The invariant of what is received and written.
WireInv == TypeInv /\ StreamInv /\ Bounded(sent)

\* The payload of a frame or record.
LEMMA ContentIs ==
    ASSUME NEW size \in Nat, size < Radix * Radix * Radix * Radix, NEW seed \in Nat
    PROVE  Content(size, seed) \in Payloads /\ Len(Content(size, seed)) = size
<1> DEFINE c == Content(size, seed)
<1>1. \A i \in 1..size : (i * 3 + seed) \in Nat
  OBVIOUS
<1>2. \A i \in 1..size : (i * 3 + seed) % Radix \in Byte
  BY <1>1, Quotients
<1>3. c = [i \in 1..size |-> (i * 3 + seed) % Radix]
  BY DEF Content
<1> HIDE DEF c
<1>4. c \in Seq(Byte) /\ Len(c) = size
  BY <1>2, <1>3
<1> QED BY <1>4 DEF c, Payloads

\* The bytes of a frame.
LEMMA CodedType ==
    ASSUME NEW f \in FrameSet, NEW key \in Keys
    PROVE  Coded(f, key) \in Seq(Byte)
<1> DEFINE n == Len(f.payload_data)
           mark == MarkOf(key)
           l == LengthOf(n, mark)
           first == <<FirstByte(f)>>
           m == Masked(f.payload_data, key)
<1>1. f.payload_data \in Payloads /\ n \in Nat /\ n < Radix * Radix * Radix * Radix
  BY LenProperties DEF FrameSet, Payloads
<1>2. mark \in {0, High}
  BY DEF MarkOf
<1>3. m \in Seq(Byte)
  BY <1>1, MaskedIs
<1>4. first \in Seq(Byte) /\ key \in Seq(Byte)
  BY FirstByteIs DEF Keys
<1>5. Coded(f, key) = first \o l \o key \o m
  BY CodedIs
<1> HIDE DEF n, mark, first, m
<1>6. l \in Seq(Byte)
  BY <1>1, <1>2, LengthOfIs
<1> HIDE DEF l
<1>7. first \o l \in Seq(Byte)
  BY <1>4, <1>6, ConcatProperties
<1>8. first \o l \o key \in Seq(Byte)
  BY <1>4, <1>7, ConcatProperties
<1>9. first \o l \o key \o m \in Seq(Byte)
  BY <1>3, <1>8, ConcatProperties
<1> QED BY <1>5, <1>9

\* The header of write has the RFC's form without a key, up to its last four
\* bits of the opcode.
LEMMA HeaderIs ==
    ASSUME NEW fin \in BOOLEAN, NEW op \in Nat, NEW p \in Payloads
    PROVE  LET f == [fin |-> fin, opcode |-> op, payload_data |-> p] IN
           /\ WriteHeader(f) \in Seq(Byte)
           /\ op = 1 => WriteHeader(f) \o p = Rfc(fin, 1, <<>>, p)
<1> DEFINE f == [fin |-> fin, opcode |-> op, payload_data |-> p]
           n == Len(p)
           b == (IF fin THEN High ELSE 0) + (op % 16)
           l == LengthOf(n, 0)
           g == [fin |-> fin, opcode |-> 1, payload_data |-> p]
<1>1. p \in Seq(Byte) /\ n \in Nat /\ n < Radix * Radix * Radix * Radix
  BY LenProperties DEF Payloads
<1>2. b \in Byte
  <2>1. op % 16 \in 0..15
    OBVIOUS
  <2> QED BY <2>1, Sizes DEF Byte
<1>3. l \in Seq(Byte)
  <2> HIDE DEF n
  <2> QED BY <1>1, LengthOfIs
<1>4. WriteHeader(f) = <<b>> \o l
  <2>1. 0 + n = n /\ 0 + Len16 = Len16 /\ 0 + Len64 = Len64
    BY <1>1, Sizes
  <2>2. WriteHeader(f) = <<b>> \o (IF n < Len16 THEN <<n>>
                                   ELSE IF n <= Max16 THEN <<Len16>> \o Digits(n, 2)
                                   ELSE <<Len64>> \o Digits(n, 8))
    BY DEF WriteHeader
  <2> HIDE DEF b, n, f
  <2> QED BY <2>1, <2>2 DEF LengthOf
<1>5. WriteHeader(f) \in Seq(Byte)
  <2>1. <<b>> \in Seq(Byte)
    BY <1>2
  <2> HIDE DEF b, l, f
  <2>2. <<b>> \o l \in Seq(Byte)
    BY ONLY <1>3, <2>1, ConcatProperties
  <2> QED BY <1>4, <2>2
<1>6. ASSUME op = 1 PROVE WriteHeader(f) \o p = Rfc(fin, 1, <<>>, p)
  <2>1. g \in FrameSet /\ <<>> \in Keys
    BY DEF FrameSet, Keys
  <2>2. Coded(g, <<>>) = <<FirstByte(g)>> \o LengthOf(n, MarkOf(<<>>)) \o <<>> \o Masked(p, <<>>)
    <3>1. g.payload_data = p
      OBVIOUS
    <3> HIDE DEF g
    <3> QED BY <2>1, <3>1, CodedIs
  <2>3. Masked(p, <<>>) = p /\ MarkOf(<<>>) = 0
    BY DEF Masked, MarkOf
  <2>4. FirstByte(g) = b
    <3>1. 1 % 16 = 1
      OBVIOUS
    <3> QED BY <1>6, <3>1 DEF FirstByte
  <2>5. <<b>> \o l \o <<>> = <<b>> \o l
    <3>1. WriteHeader(f) \o <<>> = WriteHeader(f)
      <4> HIDE DEF f
      <4> QED BY <1>5, ConcatEmptySeq
    <3> QED BY <1>4, <3>1
  <2>6. Coded(g, <<>>) = Rfc(fin, 1, <<>>, p)
    BY DEF Coded
  <2> HIDE DEF f, g, b
  <2> QED BY <1>4, <2>2, <2>3, <2>4, <2>5, <2>6
<1> QED BY <1>5, <1>6

\* What ViewerSends appends.
LEMMA SentFrame ==
    ASSUME NEW f \in Frames, sent \in Seq(FrameSet)
    PROVE  LET p == Content(f.size, Len(sent))
               g == [fin |-> f.fin, opcode |-> f.opcode, payload_data |-> p]
           IN  /\ g \in FrameSet /\ f.key \in Keys
               /\ Len(g.payload_data) + 14 < 2 * (MaxInt + 1)
               /\ Rfc(f.fin, f.opcode, f.key, p) = Coded(g, f.key)
<1> DEFINE p == Content(f.size, Len(sent))
           g == [fin |-> f.fin, opcode |-> f.opcode, payload_data |-> p]
<1>1. /\ f.fin \in BOOLEAN /\ f.opcode \in {0, 1, 2, 9, 10}
      /\ f.key \in Seq(0..(Radix - 1)) /\ Len(f.key) \in {0, 4}
      /\ f.size \in Nat /\ f.size < Radix * Radix * Radix * Radix
      /\ f.size + 14 < 2 * (MaxInt + 1)
  BY WireAssumption
<1>2. p \in Payloads /\ Len(p) = f.size
  <2>1. Len(sent) \in Nat
    BY LenProperties
  <2> QED BY <1>1, <2>1, ContentIs
<1> HIDE DEF p
<1>3. g \in FrameSet
  BY <1>1, <1>2 DEF FrameSet
<1>4. f.key \in Keys
  BY <1>1 DEF Keys, Byte
<1>5. Rfc(f.fin, f.opcode, f.key, p) = Coded(g, f.key)
  BY DEF Coded
<1>6. Len(g.payload_data) + 14 < 2 * (MaxInt + 1)
  <2>1. g.payload_data = p
    OBVIOUS
  <2> HIDE DEF g
  <2> QED BY <1>1, <1>2, <2>1
<1> QED BY <1>3, <1>4, <1>5, <1>6 DEF p

-----------------------------------------------------------------------------
(* The invariant of the stream. *)

\* Init: nothing was sent, and nothing is left of it.
LEMMA WireInit ==
    Init => WireInv
<1> SUFFICES ASSUME Init PROVE WireInv
  OBVIOUS
<1>1. /\ sent = <<>> /\ inWire = <<>> /\ buffer_ = <<>> /\ processed = <<>>
      /\ fragment_ = <<>> /\ messages = <<>> /\ out = <<>>
  BY DEF Init
<1>2. TypeInv
  BY <1>1 DEF TypeInv
<1>3. Stream(<<>>, 0, <<>>)
  <2> DEFINE t == [i \in 0..0 |-> <<>>]
  <2>1. t \in [0..Len(<<>>) -> Seq(Byte)] /\ t[0] = <<>> /\ t[Len(<<>>)] = <<>>
    OBVIOUS
  <2>2. \A i \in (0 + 1)..Len(<<>>) : FALSE
    OBVIOUS
  <2> HIDE DEF t
  <2> QED BY <2>1, <2>2 DEF Stream
<1>4. Begins(<<>>, <<>>) /\ Len(<<>>) = 0
  BY DEF Begins
<1>5. <<>> \o <<>> = <<>>
  OBVIOUS
<1>6. Bounded(<<>>)
  BY DEF Bounded
<1> QED BY <1>1, <1>2, <1>3, <1>4, <1>5, <1>6 DEF WireInv, StreamInv

\* A frame more at the end of the stream.
LEMMA StreamAppend ==
    ASSUME NEW s \in Seq(FrameSet), NEW k \in Nat, k <= Len(s), NEW b \in Seq(Byte),
           Stream(s, k, b), NEW g \in FrameSet, NEW key \in Keys
    PROVE  Stream(Append(s, g), k, b \o Coded(g, key))
<1> DEFINE n == Len(s)
           r == Append(s, g)
           c == Coded(g, key)
<1>1. n \in Nat /\ r \in Seq(FrameSet) /\ Len(r) = n + 1 /\ r[n + 1] = g
      /\ \A i \in 1..n : r[i] = s[i]
  BY LenProperties, AppendProperties
<1>2. c \in Seq(Byte)
  BY CodedType
<1>3. PICK t \in [k..n -> Seq(Byte)] :
          /\ t[k] = b
          /\ t[n] = <<>>
          /\ \A i \in (k + 1)..n : \E key1 \in Keys : t[i - 1] = Coded(s[i], key1) \o t[i]
  BY DEF Stream
<1> DEFINE u == [i \in k..(n + 1) |-> IF i = n + 1 THEN <<>> ELSE t[i] \o c]
<1>4. /\ u[n + 1] = <<>>
      /\ \A i \in k..n : u[i] = t[i] \o c
  <2> HIDE DEF c, n
  <2> QED BY <1>1
<1> HIDE DEF n, r, c
<1>5. \A i \in k..n : t[i] \o c \in Seq(Byte)
  BY <1>2, <1>3, ConcatProperties
<1>6. u \in [k..(n + 1) -> Seq(Byte)]
  <2>1. <<>> \in Seq(Byte)
    OBVIOUS
  <2> QED BY <1>1, <1>5, <2>1
<1> HIDE DEF u
<1>7. u[k] = b \o c
  <2>1. k \in k..n
    BY <1>1 DEF n
  <2> QED BY <1>3, <1>4, <2>1
<1>8. ASSUME NEW i \in (k + 1)..(n + 1)
      PROVE  \E key1 \in Keys : u[i - 1] = Coded(r[i], key1) \o u[i]
  <2>1. CASE i = n + 1
    <3>1. u[n] = t[n] \o c /\ i - 1 = n
      BY <1>1, <1>4, <2>1 DEF n
    <3>2. <<>> \o c = c /\ c \o <<>> = c
      BY <1>2, ConcatEmptySeq
    <3>3. u[i - 1] = c \o u[i]
      BY <1>3, <1>4, <2>1, <3>1, <3>2
    <3> QED BY <1>1, <2>1, <3>3 DEF c
  <2>2. CASE i # n + 1
    <3>1. i \in (k + 1)..n /\ i \in 1..n /\ i \in k..n /\ i - 1 \in k..n
      BY <1>1, <2>2
    <3>2. PICK key1 \in Keys : t[i - 1] = Coded(s[i], key1) \o t[i]
      BY <1>3, <3>1
    <3> DEFINE d == Coded(s[i], key1)
    <3>3. d \in Seq(Byte) /\ t[i] \in Seq(Byte)
      <4>1. s[i] \in FrameSet
        BY <3>1, ElementOfSeq DEF n
      <4> QED BY <1>3, <3>1, <4>1, CodedType
    <3>4. u[i - 1] = (d \o t[i]) \o c
      BY <1>4, <3>1, <3>2
    <3> HIDE DEF d
    <3>5. (d \o t[i]) \o c = d \o (t[i] \o c)
      <4>1. Groups(d, t[i], c)
        BY <1>2, <3>3, ConcatGroups
      <4> QED BY ONLY <4>1 DEF Groups
    <3>6. u[i - 1] = d \o u[i]
      BY <1>4, <3>1, <3>4, <3>5
    <3> QED BY <1>1, <3>1, <3>6 DEF d
  <2> QED BY <2>1, <2>2
<1> QED BY <1>1, <1>4, <1>6, <1>7, <1>8 DEF Stream, r, c, n

\* ViewerSends: the stream grows by the frame.
LEMMA StepViewerSends ==
    ASSUME WireInv, NEW f \in Frames, ViewerSends(f)
    PROVE  WireInv'
<1> USE DEF WireInv, TypeInv, StreamInv
<1> DEFINE p == Content(f.size, Len(sent))
           g == [fin |-> f.fin, opcode |-> f.opcode, payload_data |-> p]
           c == Coded(g, f.key)
           k == Len(processed)
<1>1. /\ g \in FrameSet /\ f.key \in Keys /\ Rfc(f.fin, f.opcode, f.key, p) = c
      /\ Len(g.payload_data) + 14 < 2 * (MaxInt + 1)
  BY SentFrame
<1>2. /\ sent' = Append(sent, g) /\ inWire' = inWire \o Rfc(f.fin, f.opcode, f.key, p)
      /\ UNCHANGED <<buffer_, processed, fragment_, messages, out>>
  BY DEF ViewerSends, inVars
<1>3. inWire' = inWire \o c
  BY <1>1, <1>2
<1> HIDE DEF g, p
<1>4. c \in Seq(Byte)
  BY <1>1, CodedType
<1>5. sent' \in Seq(FrameSet) /\ Len(sent') = Len(sent) + 1 /\ sent'[Len(sent) + 1] = g
      /\ \A i \in 1..Len(sent) : sent'[i] = sent[i]
  BY <1>1, <1>2, AppendProperties
<1>6. inWire' \in Seq(Byte)
  <2> HIDE DEF c
  <2> QED BY <1>3, <1>4, ConcatProperties
<1>7. k \in Nat /\ k <= Len(sent) /\ Len(sent) \in Nat
  BY LenProperties DEF Begins
<1>8. Begins(sent', processed')
  BY <1>2, <1>5, <1>7 DEF Begins
<1>9. buffer_ \o inWire \in Seq(Byte)
  BY ConcatProperties
<1>10. (buffer_ \o inWire) \o c = buffer_ \o (inWire \o c)
  <2> HIDE DEF c
  <2>1. Groups(buffer_, inWire, c)
    BY <1>4, ConcatGroups
  <2> QED BY ONLY <2>1 DEF Groups
<1> DEFINE b == buffer_ \o inWire
<1>11. Stream(sent, k, b) /\ b \in Seq(Byte)
  BY <1>9
<1> HIDE DEF k, b
<1>12. Stream(Append(sent, g), k, b \o c)
  BY <1>1, <1>7, <1>11, StreamAppend
<1>13. b \o c = buffer_' \o inWire'
  BY <1>2, <1>3, <1>10 DEF b
<1> HIDE DEF c
<1>14. Stream(sent', Len(processed'), buffer_' \o inWire')
  BY <1>2, <1>12, <1>13 DEF k
<1>15. TypeInv'
  BY <1>2, <1>5, <1>6
<1>16. Bounded(sent')
  <2>1. ASSUME NEW i \in 1..Len(sent')
        PROVE  Len(sent'[i].payload_data) + 14 < 2 * (MaxInt + 1)
    <3>1. CASE i = Len(sent) + 1
      BY <1>1, <1>5, <3>1
    <3>2. CASE i # Len(sent) + 1
      <4>1. i \in 1..Len(sent)
        BY <1>5, <1>7, <3>2
      <4> QED BY <1>5, <4>1 DEF Bounded
    <3> QED BY <3>1, <3>2
  <2> QED BY <2>1 DEF Bounded
<1> QED BY <1>8, <1>14, <1>15, <1>16

\* Receive: bytes go from the wire to the buffer, and the stream is the same.
LEMMA StepReceive ==
    ASSUME WireInv, NEW n \in 1..Len(inWire), Receive(n)
    PROVE  WireInv'
<1> USE DEF WireInv, TypeInv, StreamInv
<1> DEFINE a == SubSeq(inWire, 1, n)
           b == SubSeq(inWire, n + 1, Len(inWire))
<1>1. /\ buffer_' = buffer_ \o a /\ inWire' = b
      /\ UNCHANGED <<sent, processed, fragment_, messages, out>>
  BY DEF Receive
<1>2. Len(inWire) \in Nat /\ n \in Nat /\ 1 <= n /\ n <= Len(inWire)
  BY LenProperties
<1>3. a \in Seq(Byte) /\ b \in Seq(Byte)
  <2>1. /\ 0 \in Nat /\ 0 <= n /\ 0 + 1 = 1
        /\ Len(inWire) <= Len(inWire)
    BY <1>2
  <2>2. SubSeq(inWire, 0 + 1, n) \in Seq(Byte)
    BY <1>2, <2>1, Cut
  <2>3. SubSeq(inWire, n + 1, Len(inWire)) \in Seq(Byte)
    BY <1>2, <2>1, Cut
  <2> QED BY <2>1, <2>2, <2>3
<1>4. a \o b = inWire
  <2>1. /\ 1 \in 1..(Len(inWire) + 1) /\ n \in (1 - 1)..Len(inWire)
        /\ Len(inWire) \in n..Len(inWire)
    BY <1>2
  <2>2. SubSeq(inWire, 1, n) \o SubSeq(inWire, n + 1, Len(inWire)) = SubSeq(inWire, 1, Len(inWire))
    BY <2>1, ConcatAdjacentSubSeq
  <2> QED BY <2>2, SubSeqFull
<1> HIDE DEF a, b
<1>5. (buffer_ \o a) \o b = buffer_ \o inWire
  <2>1. Groups(buffer_, a, b)
    BY <1>3, ConcatGroups
  <2>2. (buffer_ \o a) \o b = buffer_ \o (a \o b)
    BY ONLY <2>1 DEF Groups
  <2> QED BY <1>4, <2>2
<1>6. buffer_ \o a \in Seq(Byte)
  BY <1>3, ConcatProperties
<1>7. buffer_' \o inWire' = buffer_ \o inWire
  BY <1>1, <1>5
<1>8. TypeInv'
  BY <1>1, <1>3, <1>6
<1>9. StreamInv'
  BY <1>1, <1>7
<1> QED BY <1>1, <1>8, <1>9

\* What HandleRead takes from the buffer is the next frame, and the stream goes
\* on behind it.
LEMMA NextFrame ==
    ASSUME WireInv, Complete(buffer_)
    PROVE  LET k == Len(processed)
               f == Parse(buffer_)
               frame == [fin |-> f.fin, opcode |-> f.opcode, payload_data |-> f.payload_data]
               left == SubSeq(buffer_, f.counter + 1, Len(buffer_))
           IN  /\ f.counter \in Nat /\ f.counter < 2 * (MaxInt + 1)
               /\ k \in Nat /\ k + 1 \in 1..Len(sent) /\ frame = sent[k + 1]
               /\ left \in Seq(Byte) /\ Stream(sent, k + 1, left \o inWire)
<1> USE DEF WireInv, TypeInv, StreamInv
<1> DEFINE k == Len(processed)
           n == Len(sent)
           f == Parse(buffer_)
           frame == [fin |-> f.fin, opcode |-> f.opcode, payload_data |-> f.payload_data]
           left == SubSeq(buffer_, f.counter + 1, Len(buffer_))
<1>1. k \in Nat /\ n \in Nat /\ k <= n
  BY LenProperties DEF Begins
<1>2. PICK t \in [k..n -> Seq(Byte)] :
          /\ t[k] = buffer_ \o inWire
          /\ t[n] = <<>>
          /\ \A i \in (k + 1)..n : \E key \in Keys : t[i - 1] = Coded(sent[i], key) \o t[i]
  BY DEF Stream
<1>3. k < n
  <2> SUFFICES ASSUME k = n PROVE FALSE
    BY <1>1
  <2>1. buffer_ \o inWire = <<>>
    BY <1>2
  <2>2. buffer_ = <<>>
    BY <2>1, ConcatEmptySeq, ConcatSimplifications
  <2>3. Len(buffer_) >= 2
    BY DEF Complete
  <2> QED BY <2>2, <2>3
<1>4. k + 1 \in (k + 1)..n /\ k + 1 \in k..n /\ k + 1 \in 1..n /\ (k + 1) - 1 = k
  BY <1>1, <1>3
<1>5. PICK key \in Keys : t[k] = Coded(sent[k + 1], key) \o t[k + 1]
  <2> HIDE DEF k
  <2> QED BY <1>2, <1>4
<1>6. sent[k + 1] \in FrameSet /\ t[k + 1] \in Seq(Byte)
  BY <1>2, <1>4, ElementOfSeq
<1> DEFINE g == sent[k + 1]
           rest == t[k + 1]
<1>7. buffer_ \o inWire = Coded(g, key) \o rest /\ g \in FrameSet /\ rest \in Seq(Byte)
  BY <1>2, <1>5, <1>6
<1> HIDE DEF g, rest, k, n
<1>8. /\ f.fin = g.fin /\ f.opcode = g.opcode /\ f.payload_data = g.payload_data
      /\ f.counter \in 0..Len(buffer_) /\ f.counter <= Len(g.payload_data) + 14
      /\ left \o inWire = rest
  <2>1. FrameFirst(buffer_, inWire, g, key, rest)
    BY ONLY <1>7 DEF FrameFirst
  <2>2. Parsed(buffer_, inWire, g, rest)
    BY <1>7, <2>1, ParseIs
  <2> QED BY ONLY <2>2 DEF Parsed, f, left
<1>9. frame = g
  <2>1. g = [fin |-> g.fin, opcode |-> g.opcode, payload_data |-> g.payload_data]
    BY <1>7 DEF FrameSet
  <2> HIDE DEF f
  <2> QED BY <1>8, <2>1
<1>10. left \in Seq(Byte)
  <2> DEFINE c == f.counter
  <2>1. /\ Len(buffer_) \in Nat /\ Len(buffer_) <= Len(buffer_)
        /\ c \in Nat /\ c <= Len(buffer_)
    BY <1>8, LenProperties
  <2> HIDE DEF c
  <2>2. SubSeq(buffer_, c + 1, Len(buffer_)) \in Seq(Byte)
    BY <2>1, Cut
  <2> QED BY <2>2 DEF c
<1>11. Stream(sent, k + 1, rest)
  <2> DEFINE u == [i \in (k + 1)..n |-> t[i]]
  <2>1. /\ u \in [(k + 1)..n -> Seq(Byte)] /\ \A i \in (k + 1)..n : u[i] = t[i]
    BY <1>1, <1>2
  <2> HIDE DEF u
  <2>2. u[k + 1] = rest /\ u[n] = <<>>
    <3>1. n \in (k + 1)..n
      BY <1>1, <1>3
    <3> QED BY <1>2, <1>4, <2>1, <3>1 DEF rest
  <2>3. ASSUME NEW i \in ((k + 1) + 1)..n
        PROVE  \E key1 \in Keys : u[i - 1] = Coded(sent[i], key1) \o u[i]
    <3>1. i \in (k + 1)..n /\ i - 1 \in (k + 1)..n
      BY <1>1
    <3> QED BY <1>2, <2>1, <3>1
  <2> QED BY <2>1, <2>2, <2>3 DEF Stream, n
<1>12. Stream(sent, k + 1, left \o inWire)
  BY <1>8, <1>11
<1> DEFINE c == f.counter
<1> HIDE DEF frame, left, f, c
<1>14. c \in Nat /\ c < 2 * (MaxInt + 1)
  <2>1. Len(buffer_) \in Nat
    BY LenProperties
  <2>2. Len(g.payload_data) + 14 < 2 * (MaxInt + 1)
    BY <1>4 DEF Bounded, g, n
  <2>3. c \in Nat /\ c <= Len(g.payload_data) + 14
    BY <1>8, <2>1 DEF c
  <2>4. Len(g.payload_data) \in Nat /\ MaxInt \in Nat
    BY <1>7, LenProperties, WireAssumption DEF FrameSet, Payloads
  <2> QED BY <2>2, <2>3, <2>4
<1>13. k \in Nat /\ k + 1 \in 1..Len(sent) /\ frame = sent[k + 1]
  BY <1>1, <1>4, <1>9 DEF g, n
<1> QED BY <1>10, <1>12, <1>13, <1>14 DEF k, frame, left, f, c

\* The int that handle_read makes of the number of bytes is that number, or it is
\* negative: a frame is taken whole or not at all.
LEMMA TakenWhole ==
    ASSUME HandleRead, Parse(buffer_).counter \in Nat,
           Parse(buffer_).counter < 2 * (MaxInt + 1)
    PROVE  \/ UNCHANGED wireVars
           \/ LET f == Parse(buffer_)
                  frame == [fin |-> f.fin, opcode |-> f.opcode, payload_data |-> f.payload_data]
              IN  /\ buffer_' = SubSeq(buffer_, f.counter + 1, Len(buffer_))
                  /\ processed' = Append(processed, frame)
                  /\ ProcessPing(frame) \/ ProcessPong(frame) \/ ProcessPiece(frame) \/ ProcessText(frame)
                  /\ UNCHANGED <<sent, inWire>>
<1> DEFINE c == Parse(buffer_).counter
<1>1. ToInt(c) = c \/ ~(ToInt(c) > 0)
  <2> HIDE DEF c
  <2>1. MaxInt \in Nat
    BY WireAssumption
  <2>2. c \in Nat /\ c < 2 * (MaxInt + 1)
    BY DEF c
  <2> QED BY <2>1, <2>2 DEF ToInt
<1>2. CASE ToInt(c) > 0
  BY <1>1, <1>2 DEF HandleRead
<1>3. CASE ~(ToInt(c) > 0)
  BY <1>3 DEF HandleRead, wireVars, inVars
<1> QED BY <1>2, <1>3

\* The ways process has with a frame keep the types.
LEMMA ProcessTypes ==
    ASSUME TypeInv, NEW f \in FrameSet,
           ProcessPing(f) \/ ProcessPong(f) \/ ProcessPiece(f) \/ ProcessText(f)
    PROVE  /\ fragment_' \in Seq(Byte) /\ messages' \in Seq(Seq(Byte))
           /\ out' \in Seq(Written)
<1> USE DEF TypeInv
<1> DEFINE p == f.payload_data
<1>1. p \in Seq(Byte) /\ p \in Payloads /\ f.fin \in BOOLEAN
  BY DEF FrameSet, Payloads
<1>2. CASE ProcessPing(f)
  <2> DEFINE g == [f EXCEPT !.opcode = 16]
             w == [kind |-> "pong", payload |-> p, bytes |-> WriteHeader(g)]
  <2>1. g = [fin |-> f.fin, opcode |-> 16, payload_data |-> p]
    BY DEF FrameSet
  <2>2. WriteHeader(g) \in Seq(Byte)
    <3> HIDE DEF p, g
    <3>1. 16 \in Nat
      OBVIOUS
    <3> QED BY <1>1, <2>1, <3>1, HeaderIs
  <2>3. w \in Written
    <3> DEFINE b == WriteHeader(g)
    <3> HIDE DEF b, p
    <3> QED BY <1>1, <2>2 DEF Written, b
  <2>4. out' = Append(out, w) /\ UNCHANGED <<fragment_, messages>>
    BY <1>2 DEF ProcessPing, Writes
  <2> HIDE DEF w
  <2> QED BY <2>3, <2>4, AppendProperties
<1>3. CASE ProcessPong(f)
  BY <1>3 DEF ProcessPong
<1> HIDE DEF p
<1>4. fragment_ \o p \in Seq(Byte)
  BY <1>1, ConcatProperties
<1>5. \A s \in Seq(Byte) : Append(messages, s) \in Seq(Seq(Byte))
  BY AppendProperties
<1>6. <<>> \in Seq(Byte)
  OBVIOUS
<1>7. CASE ProcessPiece(f)
  BY <1>4, <1>5, <1>6, <1>7 DEF ProcessPiece, p
<1>8. CASE ProcessText(f)
  BY <1>1, <1>4, <1>5, <1>8 DEF ProcessText, p
<1> QED BY <1>2, <1>3, <1>7, <1>8

\* HandleRead: the next frame is taken from the stream.
LEMMA StepHandleRead ==
    ASSUME WireInv, HandleRead
    PROVE  WireInv'
<1> USE DEF WireInv, TypeInv, StreamInv
<1> DEFINE k == Len(processed)
           f == Parse(buffer_)
           frame == [fin |-> f.fin, opcode |-> f.opcode, payload_data |-> f.payload_data]
           left == SubSeq(buffer_, f.counter + 1, Len(buffer_))
<1>2. /\ f.counter \in Nat /\ f.counter < 2 * (MaxInt + 1)
      /\ k \in Nat /\ k + 1 \in 1..Len(sent) /\ frame = sent[k + 1]
      /\ left \in Seq(Byte) /\ Stream(sent, k + 1, left \o inWire)
  BY NextFrame DEF HandleRead
<1> SUFFICES ASSUME ~UNCHANGED wireVars PROVE WireInv'
  BY DEF wireVars, inVars
<1>1. /\ buffer_' = left /\ processed' = Append(processed, frame)
      /\ ProcessPing(frame) \/ ProcessPong(frame) \/ ProcessPiece(frame) \/ ProcessText(frame)
      /\ UNCHANGED <<sent, inWire>>
  BY <1>2, TakenWhole
<1> HIDE DEF frame, left, f
<1>3. frame \in FrameSet
  BY <1>2, ElementOfSeq
<1>4. /\ processed' \in Seq(FrameSet) /\ Len(processed') = k + 1 /\ processed'[k + 1] = frame
      /\ \A i \in 1..k : processed'[i] = processed[i]
  BY <1>1, <1>3, AppendProperties
<1>5. Begins(sent', processed')
  <2>1. k + 1 <= Len(sent) /\ Len(sent) \in Nat
    BY <1>2, LenProperties
  <2>2. ASSUME NEW i \in 1..(k + 1) PROVE processed'[i] = sent[i]
    <3>1. CASE i = k + 1
      BY <1>2, <1>4, <3>1
    <3>2. CASE i # k + 1
      <4>1. i \in 1..k
        BY <1>2, <3>2
      <4> QED BY <1>4, <4>1 DEF Begins
    <3> QED BY <3>1, <3>2
  <2> QED BY <1>1, <1>4, <2>1, <2>2 DEF Begins
<1>6. Stream(sent', Len(processed'), buffer_' \o inWire')
  BY <1>1, <1>2, <1>4
<1>7. TypeInv'
  BY <1>1, <1>2, <1>3, <1>4, ProcessTypes
<1> QED BY <1>1, <1>5, <1>6, <1>7

\* WriteText: one text more, in the form of the RFC.
LEMMA StepWriteText ==
    ASSUME WireInv, NEW size \in Texts, WriteText(size)
    PROVE  WireInv'
<1> USE DEF WireInv, TypeInv, StreamInv
<1> DEFINE p == Content(size, 0)
           g == [fin |-> TRUE, opcode |-> 1, payload_data |-> p]
           w == [kind |-> "text", payload |-> p, bytes |-> WriteHeader(g) \o p]
<1>1. out' = Append(out, w) /\ UNCHANGED <<sent, inWire, buffer_, processed, fragment_, messages>>
  BY DEF WriteText, Writes, inVars
<1>2. p \in Payloads /\ p \in Seq(Byte)
  <2>1. size \in Nat /\ size < Radix * Radix * Radix * Radix
    BY WireAssumption
  <2> QED BY <2>1, ContentIs DEF Payloads
<1> HIDE DEF p
<1>3. WriteHeader(g) \in Seq(Byte) /\ WriteHeader(g) \o p = Rfc(TRUE, 1, <<>>, p)
  BY <1>2, HeaderIs
<1>4. w \in Written
  <2> DEFINE b == WriteHeader(g) \o p
  <2>1. b \in Seq(Byte)
    <3> HIDE DEF g
    <3> QED BY <1>2, <1>3, ConcatProperties
  <2>2. b = Rfc(TRUE, 1, <<>>, p)
    BY <1>3
  <2> HIDE DEF b
  <2> QED BY <1>2, <2>1, <2>2 DEF Written, b
<1> HIDE DEF w
<1>5. out' \in Seq(Written)
  BY <1>1, <1>4, AppendProperties
<1> QED BY <1>1, <1>5

\* The stream and what is read from and written to it fit in every reachable
\* state.
THEOREM WireInductive == WireSpec => []WireInv
<1>1. Init => WireInv
  BY WireInit
<1>2. WireInv /\ [Next]_wireVars => WireInv'
  <2> SUFFICES ASSUME WireInv, [Next]_wireVars PROVE WireInv'
    OBVIOUS
  <2>1. ASSUME NEW f \in Frames, ViewerSends(f) PROVE WireInv'
    BY <2>1, StepViewerSends
  <2>2. ASSUME NEW n \in 1..Len(inWire), Receive(n) PROVE WireInv'
    BY <2>2, StepReceive
  <2>3. CASE HandleRead
    BY <2>3, StepHandleRead
  <2>4. ASSUME NEW size \in Texts, WriteText(size) PROVE WireInv'
    BY <2>4, StepWriteText
  <2>5. CASE UNCHANGED wireVars
    BY <2>5 DEF wireVars, inVars, WireInv, TypeInv, StreamInv
  <2> QED BY <2>1, <2>2, <2>3, <2>4, <2>5 DEF Next
<1> QED BY <1>1, <1>2, PTL DEF WireSpec

\* However the stream is cut, process is given the frames that were sent, in
\* order and unmasked, and no byte is left over (frame.cpp, parse; connection.cpp,
\* handle_read).
THEOREM FramesAlwaysReceived == WireSpec => []FramesReceived
<1>1. WireInv => FramesReceived
  <2> SUFFICES ASSUME WireInv PROVE FramesReceived
    OBVIOUS
  <2> USE DEF WireInv, TypeInv, StreamInv
  <2> DEFINE k == Len(processed)
  <2>1. k \in Nat /\ Len(sent) \in Nat /\ k <= Len(sent) /\ \A i \in 1..k : processed[i] = sent[i]
    BY LenProperties DEF Begins
  <2>2. SubSeq(processed, 1, k) = SubSeq(sent, 1, k)
    <3>1. /\ \A i \in 1..k : processed[i] \in FrameSet /\ sent[i] \in FrameSet
      BY <2>1, ElementOfSeq
    <3> DEFINE a == SubSeq(processed, 1, k)
               b == SubSeq(sent, 1, k)
    <3>2. /\ SubSeq(processed, 1, k) \in Seq(FrameSet)
          /\ Len(SubSeq(processed, 1, k)) = IF 1 <= k THEN k - 1 + 1 ELSE 0
          /\ \A i \in 1..(k - 1 + 1) : SubSeq(processed, 1, k)[i] = processed[1 + i - 1]
      BY <2>1, <3>1, SubSeqProperties
    <3>3. /\ SubSeq(sent, 1, k) \in Seq(FrameSet)
          /\ Len(SubSeq(sent, 1, k)) = IF 1 <= k THEN k - 1 + 1 ELSE 0
          /\ \A i \in 1..(k - 1 + 1) : SubSeq(sent, 1, k)[i] = sent[1 + i - 1]
      BY <2>1, <3>1, SubSeqProperties
    <3> HIDE DEF a, b, k
    <3>4. /\ a \in Seq(FrameSet) /\ Len(a) = k /\ \A i \in 1..k : a[i] = processed[i]
      BY <2>1, <3>2 DEF a
    <3>5. /\ b \in Seq(FrameSet) /\ Len(b) = k /\ \A i \in 1..k : b[i] = sent[i]
      BY <2>1, <3>3 DEF b
    <3>6. a = b
      BY <2>1, <3>4, <3>5, SeqEqual
    <3> QED BY <3>6 DEF a, b
  <2>3. IsPrefix(processed, sent)
    BY <2>1, <2>2 DEF IsPrefix
  <2>4. ASSUME processed = sent PROVE buffer_ = <<>> /\ inWire = <<>>
    <3>1. k = Len(sent)
      BY <2>4
    <3>2. buffer_ \o inWire = <<>>
      <4>1. PICK t \in [k..Len(sent) -> Seq(Byte)] :
                t[k] = buffer_ \o inWire /\ t[Len(sent)] = <<>>
        BY DEF Stream
      <4> QED BY <3>1, <4>1
    <3> QED BY <3>2, ConcatSimplifications
  <2> QED BY <2>3, <2>4 DEF FramesReceived
<1> QED BY <1>1, WireInductive, PTL

\* A record is written as one text frame of the RFC, for every length it may
\* have (connection.cpp, write_text; frame.cpp, write).
THEOREM TextsAlwaysReadable == WireSpec => []TextsReadable
<1>1. WireInv => TextsReadable
  <2> SUFFICES ASSUME WireInv, NEW i \in DOMAIN out, out[i].kind = "text"
               PROVE  out[i].bytes = Rfc(TRUE, 1, <<>>, out[i].payload)
    BY DEF TextsReadable
  <2>1. out \in Seq(Written) /\ i \in 1..Len(out)
    BY LenProperties DEF WireInv, TypeInv
  <2>2. out[i] \in Written
    BY <2>1, ElementOfSeq
  <2> QED BY <2>2 DEF Written
<1> QED BY <1>1, WireInductive, PTL

-----------------------------------------------------------------------------
(* Strings behind one another. *)

Strings == Seq(Byte)

\* Two of them.
Then(a, b) == a \o b

\* What holds of them.
LEMMA ThenIs ==
    ASSUME NEW a \in Strings, NEW b \in Strings, NEW c \in Strings
    PROVE  /\ Then(a, b) \in Strings
           /\ Then(Then(a, b), c) = Then(a, Then(b, c))
           /\ Then(a, <<>>) = a /\ Then(<<>>, a) = a
           /\ <<>> \in Strings
<1> USE DEF Strings
<1>1. Then(a, b) \in Seq(Byte)
  BY ConcatProperties DEF Then
<1>2. Then(a, <<>>) = a /\ Then(<<>>, a) = a
  BY ConcatEmptySeq DEF Then
<1>3. Groups(a, b, c)
  BY ConcatGroups
<1>4. Then(Then(a, b), c) = Then(a, Then(b, c))
  BY ONLY <1>3 DEF Groups, Then
<1>5. <<>> \in Seq(Byte)
  OBVIOUS
<1> QED BY <1>1, <1>2, <1>4, <1>5

\* The first i strings of a sequence are those before the i-th, and it.
LEMMA JoinedIs ==
    ASSUME NEW ss \in Seq(Strings)
    PROVE  /\ Joined(ss) \in [0..Len(ss) -> Strings]
           /\ Joined(ss)[0] = <<>>
           /\ \A i \in 1..Len(ss) : Joined(ss)[i] = Then(Joined(ss)[i - 1], ss[i])
<1> DEFINE n == Len(ss)
           step == [i \in 1..n |-> [v \in Strings |-> Then(v, ss[i])]]
           g == CHOOSE f : f = [i \in 0..n |-> IF i = 0 THEN <<>> ELSE f[i - 1] \o ss[i]]
<1>1. n \in Nat /\ \A i \in 1..n : ss[i] \in Strings
  BY LenProperties, ElementOfSeq
<1>2. \A a, b \in Strings : Then(a, b) \in Strings
  BY ThenIs
<1>3. <<>> \in Strings
  BY DEF Strings
<1>4. step \in [1..n -> [Strings -> Strings]]
  BY <1>1, <1>2
<1>5. \A i \in 1..n : \A v \in Strings : step[i][v] = Then(v, ss[i])
  OBVIOUS
<1>6. Joined(ss) = g
  BY DEF Joined
<1> DEFINE h == CHOOSE f : f = [i \in 0..n |-> IF i = 0 THEN <<>> ELSE Then(f[i - 1], ss[i])]
<1>7. g = h
  BY DEF Then
<1> HIDE DEF step, n, g
<1>8. PICK f : Follows(f, Strings, <<>>, n, step)
  BY <1>1, <1>3, <1>4, Recursion
<1>9. f \in [0..n -> Strings] /\ f[0] = <<>> /\ \A i \in 1..n : f[i] = step[i][f[i - 1]]
  BY ONLY <1>8 DEF Follows
<1>10. ASSUME NEW i \in 1..n PROVE f[i] = Then(f[i - 1], ss[i])
  <2>1. f[i - 1] \in Strings
    <3>1. i - 1 \in 0..n
      BY <1>1
    <3> QED BY <1>9, <3>1
  <2> QED BY <1>5, <1>9, <2>1
<1>11. f = [i \in 0..n |-> IF i = 0 THEN <<>> ELSE Then(f[i - 1], ss[i])]
  <2>1. ASSUME NEW i \in 0..n PROVE f[i] = IF i = 0 THEN <<>> ELSE Then(f[i - 1], ss[i])
    <3>1. i # 0 => i \in 1..n
      BY <1>1
    <3> QED BY <1>9, <1>10, <3>1
  <2> QED BY <1>9, <2>1
<1>12. h = [i \in 0..n |-> IF i = 0 THEN <<>> ELSE Then(h[i - 1], ss[i])]
  BY <1>11
<1> HIDE DEF h
<1>13. h[0] = <<>> /\ \A i \in 1..n : h[i] = Then(h[i - 1], ss[i])
  <2>1. \A i \in 0..n : h[i] = IF i = 0 THEN <<>> ELSE Then(h[i - 1], ss[i])
    BY <1>12
  <2>2. 0 \in 0..n /\ \A i \in 1..n : i \in 0..n /\ i # 0
    BY <1>1
  <2> QED BY <2>1, <2>2
<1>14. h \in [0..n -> Strings]
  <2> DEFINE S == {k \in Nat : k <= n => h[k] \in Strings}
  <2>1. 0 \in S
    BY <1>3, <1>13
  <2>2. ASSUME NEW k \in Nat, k \in S PROVE k + 1 \in S
    <3> SUFFICES ASSUME k + 1 <= n PROVE h[k + 1] \in Strings
      OBVIOUS
    <3>1. k + 1 \in 1..n /\ (k + 1) - 1 = k /\ h[k] \in Strings
      BY <1>1, <2>2
    <3>2. h[k + 1] = Then(h[k], ss[k + 1]) /\ ss[k + 1] \in Strings
      BY <1>1, <1>13, <3>1
    <3> QED BY <1>2, <3>1, <3>2
  <2>3. \A k \in Nat : k \in S
    <3> HIDE DEF S
    <3> QED BY <2>1, <2>2, NatInduct
  <2>4. \A k \in 0..n : h[k] \in Strings
    BY <2>3
  <2> QED BY <1>12, <2>4
<1> QED BY <1>6, <1>7, <1>13, <1>14 DEF n

\* Sequences that begin with the same strings.
LEMMA JoinedAgree ==
    ASSUME NEW ss \in Seq(Strings), NEW tt \in Seq(Strings), Len(ss) <= Len(tt),
           \A i \in 1..Len(ss) : tt[i] = ss[i]
    PROVE  \A k \in 0..Len(ss) : Joined(tt)[k] = Joined(ss)[k]
<1> DEFINE n == Len(ss)
           a == Joined(ss)
           b == Joined(tt)
           S == {k \in Nat : k <= n => b[k] = a[k]}
<1>1. n \in Nat /\ Len(tt) \in Nat /\ n <= Len(tt)
  BY LenProperties
<1>2. /\ a[0] = <<>> /\ \A i \in 1..n : a[i] = Then(a[i - 1], ss[i])
      /\ b[0] = <<>> /\ \A i \in 1..Len(tt) : b[i] = Then(b[i - 1], tt[i])
  BY JoinedIs
<1> HIDE DEF a, b
<1>3. 0 \in S
  BY <1>2
<1>4. ASSUME NEW k \in Nat, k \in S PROVE k + 1 \in S
  <2> SUFFICES ASSUME k + 1 <= n PROVE b[k + 1] = a[k + 1]
    OBVIOUS
  <2>1. /\ k + 1 \in 1..n /\ k + 1 \in 1..Len(tt) /\ (k + 1) - 1 = k /\ b[k] = a[k]
        /\ k + 1 \in 1..Len(ss)
    BY <1>1, <1>4
  <2>2. a[k + 1] = Then(a[k], ss[k + 1])
    BY <1>2, <2>1
  <2>3. b[k + 1] = Then(b[k], tt[k + 1]) /\ tt[k + 1] = ss[k + 1]
    BY <1>2, <2>1
  <2> QED BY <2>1, <2>2, <2>3
<1>5. \A k \in Nat : k \in S
  <2> HIDE DEF S
  <2> QED BY <1>3, <1>4, NatInduct
<1>6. \A k \in 0..n : b[k] = a[k]
  BY <1>1, <1>5
<1> QED BY <1>6 DEF a, b, n

\* One string more.
LEMMA JoinedAppend ==
    ASSUME NEW ss \in Seq(Strings), NEW p \in Strings
    PROVE  /\ Append(ss, p) \in Seq(Strings) /\ Len(Append(ss, p)) = Len(ss) + 1
           /\ Len(ss) \in Nat
           /\ \A k \in 0..Len(ss) : Joined(Append(ss, p))[k] = Joined(ss)[k]
           /\ Joined(Append(ss, p))[Len(ss) + 1] = Then(Joined(ss)[Len(ss)], p)
<1> DEFINE n == Len(ss)
           tt == Append(ss, p)
<1>1. n \in Nat
  BY LenProperties
<1>2. /\ tt \in Seq(Strings) /\ Len(tt) = n + 1 /\ tt[n + 1] = p
      /\ \A i \in 1..n : tt[i] = ss[i]
  BY AppendProperties
<1> HIDE DEF tt
<1>3. \A k \in 0..n : Joined(tt)[k] = Joined(ss)[k]
  BY <1>1, <1>2, JoinedAgree
<1>4. Joined(tt)[n + 1] = Then(Joined(tt)[(n + 1) - 1], tt[n + 1])
  <2>1. n + 1 \in 1..Len(tt)
    BY <1>1, <1>2
  <2> QED BY <1>2, <2>1, JoinedIs
<1>5. (n + 1) - 1 = n /\ n \in 0..n
  BY <1>1
<1> QED BY <1>1, <1>2, <1>3, <1>4, <1>5 DEF tt

-----------------------------------------------------------------------------
(* Messages. *)

\* What MessagesWhole says, for any frames s of which k were processed.
PiecesOf(s) == [i \in DOMAIN s |-> IF IsData(s[i]) THEN s[i].payload_data ELSE <<>>]
EndsOf(s, n) == {i \in 1..n : IsData(s[i]) /\ s[i].fin}

Whole(s, k, ms, fr) ==
    /\ Len(ms) = Cardinality(EndsOf(s, k))
    /\ \A i \in EndsOf(s, k) :
          Joined(ms)[Cardinality(EndsOf(s, i))] = Joined(PiecesOf(s))[i]
    /\ Then(Joined(ms)[Len(ms)], fr) = Joined(PiecesOf(s))[k]

\* Behind n frames, a message in pieces is begun and not ended.
Begun(s, n) ==
    \E i \in 1..n : IsData(s[i]) /\ ~s[i].fin /\ \A j \in (i + 1)..n : ~IsData(s[j])

\* A piece continues a message exactly when one is begun.
Proper(s) == \A i \in 1..Len(s) : IsData(s[i]) => (s[i].opcode = 0 <=> Begun(s, i - 1))

\* The invariant of the messages.
MessageInv ==
    /\ Proper(sent)
    /\ ~Begun(sent, Len(processed)) => fragment_ = <<>>
    /\ Whole(sent, Len(processed), messages, fragment_)

\* The pieces are strings, and the ends of messages can be counted.
LEMMA PiecesType ==
    ASSUME NEW s \in Seq(FrameSet)
    PROVE  /\ PiecesOf(s) \in Seq(Strings) /\ Len(PiecesOf(s)) = Len(s)
           /\ \A i \in 1..Len(s) :
                 /\ s[i].payload_data \in Strings
                 /\ PiecesOf(s)[i] = IF IsData(s[i]) THEN s[i].payload_data ELSE <<>>
<1>1. Len(s) \in Nat /\ DOMAIN s = 1..Len(s) /\ \A i \in 1..Len(s) : s[i] \in FrameSet
  BY LenProperties, ElementOfSeq
<1>2. \A i \in 1..Len(s) : s[i].payload_data \in Strings
  BY <1>1 DEF FrameSet, Payloads, Strings
<1>3. <<>> \in Strings
  BY DEF Strings
<1>4. PiecesOf(s) = [i \in 1..Len(s) |-> IF IsData(s[i]) THEN s[i].payload_data ELSE <<>>]
  BY <1>1 DEF PiecesOf
<1>5. PiecesOf(s) \in [1..Len(s) -> Strings]
  BY <1>2, <1>3, <1>4
<1>6. PiecesOf(s) \in Seq(Strings) /\ Len(PiecesOf(s)) = Len(s)
  BY <1>1, <1>5
<1> QED BY <1>2, <1>4, <1>6

\* A frame more adds at most one end.
LEMMA EndsCount ==
    ASSUME NEW s, NEW n \in Nat
    PROVE  /\ IsFiniteSet(EndsOf(s, n)) /\ Cardinality(EndsOf(s, n)) \in Nat
           /\ \A i \in 0..n : Cardinality(EndsOf(s, i)) <= Cardinality(EndsOf(s, n))
           /\ IsData(s[n + 1]) /\ s[n + 1].fin =>
                 /\ EndsOf(s, n + 1) = EndsOf(s, n) \cup {n + 1}
                 /\ Cardinality(EndsOf(s, n + 1)) = Cardinality(EndsOf(s, n)) + 1
           /\ ~(IsData(s[n + 1]) /\ s[n + 1].fin) => EndsOf(s, n + 1) = EndsOf(s, n)
<1>1. EndsOf(s, n) \in SUBSET Nat /\ \A x \in EndsOf(s, n) : x <= n
  BY DEF EndsOf
<1>2. IsFiniteSet(EndsOf(s, n))
  BY <1>1, FS_BoundedSetOfNaturals
<1>3. \A i \in 0..n : EndsOf(s, i) \subseteq EndsOf(s, n)
  BY DEF EndsOf
<1>4. \A i \in 0..n : Cardinality(EndsOf(s, i)) <= Cardinality(EndsOf(s, n))
  BY <1>2, <1>3, FS_Subset
<1>5. ASSUME IsData(s[n + 1]), s[n + 1].fin PROVE EndsOf(s, n + 1) = EndsOf(s, n) \cup {n + 1}
  BY <1>5 DEF EndsOf
<1>6. ASSUME ~(IsData(s[n + 1]) /\ s[n + 1].fin) PROVE EndsOf(s, n + 1) = EndsOf(s, n)
  BY <1>6 DEF EndsOf
<1>7. n + 1 \notin EndsOf(s, n)
  BY <1>1
<1> QED BY <1>2, <1>4, <1>5, <1>6, <1>7, FS_CardinalityType, FS_AddElement

\* Of one frame more that is sent, nothing processed is changed.
LEMMA MoreFrames ==
    ASSUME NEW s \in Seq(FrameSet), NEW g \in FrameSet, NEW k \in 0..Len(s)
    PROVE  LET t == Append(s, g) IN
           /\ Begun(t, k) <=> Begun(s, k)
           /\ \A ms, fr : Whole(s, k, ms, fr) => Whole(t, k, ms, fr)
<1> DEFINE t == Append(s, g)
           n == Len(s)
<1>1. n \in Nat /\ k \in Nat /\ k <= n
  BY LenProperties
<1>2. t \in Seq(FrameSet) /\ Len(t) = n + 1 /\ t[n + 1] = g /\ \A i \in 1..n : t[i] = s[i]
  BY AppendProperties
<1> HIDE DEF t
<1>3. Begun(t, k) <=> Begun(s, k)
  <2>1. \A i \in 1..k : t[i] = s[i]
    BY <1>1, <1>2
  <2>2. ASSUME NEW i \in 1..k
        PROVE  (\A j \in (i + 1)..k : ~IsData(t[j])) <=> (\A j \in (i + 1)..k : ~IsData(s[j]))
    <3>1. \A j \in (i + 1)..k : t[j] = s[j]
      BY <1>1, <2>1
    <3> QED BY <3>1
  <2> QED BY <2>1, <2>2 DEF Begun
<1>4. \A i \in 0..k : EndsOf(t, i) = EndsOf(s, i)
  BY <1>1, <1>2 DEF EndsOf
<1>5. \A i \in 0..k : Joined(PiecesOf(t))[i] = Joined(PiecesOf(s))[i]
  <2>1. /\ PiecesOf(s) \in Seq(Strings) /\ Len(PiecesOf(s)) = n
        /\ PiecesOf(t) \in Seq(Strings) /\ Len(PiecesOf(t)) = n + 1
    BY <1>2, PiecesType
  <2>2. \A i \in 1..n : PiecesOf(t)[i] = PiecesOf(s)[i]
    <3>1. ASSUME NEW i \in 1..n PROVE PiecesOf(t)[i] = PiecesOf(s)[i]
      <4>1. i \in 1..Len(t) /\ t[i] = s[i]
        BY <1>1, <1>2
      <4> QED BY <1>2, <4>1, PiecesType
    <3> QED BY <3>1
  <2>3. \A i \in 0..n : Joined(PiecesOf(t))[i] = Joined(PiecesOf(s))[i]
    BY <1>1, <2>1, <2>2, JoinedAgree
  <2> QED BY <1>1, <2>3
<1>6. ASSUME NEW ms, NEW fr, Whole(s, k, ms, fr) PROVE Whole(t, k, ms, fr)
  <2>1. k \in 0..k /\ \A i \in EndsOf(s, k) : i \in 0..k
    BY <1>1 DEF EndsOf
  <2>2. EndsOf(t, k) = EndsOf(s, k) /\ Joined(PiecesOf(t))[k] = Joined(PiecesOf(s))[k]
    BY <1>4, <1>5, <2>1
  <2>3. \A i \in EndsOf(s, k) :
           EndsOf(t, i) = EndsOf(s, i) /\ Joined(PiecesOf(t))[i] = Joined(PiecesOf(s))[i]
    BY <1>4, <1>5, <2>1
  <2> QED BY <1>6, <2>2, <2>3 DEF Whole
<1> QED BY <1>3, <1>6 DEF t

\* The next frame is a ping or pong, a piece, or the last piece of a message.
LEMMA NextPiece ==
    ASSUME NEW s \in Seq(FrameSet), NEW k \in Nat, k + 1 \in 1..Len(s),
           NEW ms \in Seq(Strings), NEW fr \in Strings, Whole(s, k, ms, fr)
    PROVE  LET f == s[k + 1]
               p == f.payload_data
           IN  /\ ~IsData(f) => Whole(s, k + 1, ms, fr)
               /\ IsData(f) /\ ~f.fin => Whole(s, k + 1, ms, Then(fr, p))
               /\ IsData(f) /\ f.fin => Whole(s, k + 1, Append(ms, Then(fr, p)), <<>>)
<1> DEFINE f == s[k + 1]
           p == f.payload_data
           J == Joined(PiecesOf(s))
           M == Joined(ms)
           n == Len(ms)
           card(i) == Cardinality(EndsOf(s, i))
<1>1. p \in Strings /\ J[k + 1] = Then(J[k], IF IsData(f) THEN p ELSE <<>>)
  <2>1. /\ PiecesOf(s) \in Seq(Strings) /\ Len(PiecesOf(s)) = Len(s) /\ p \in Strings
        /\ PiecesOf(s)[k + 1] = IF IsData(f) THEN p ELSE <<>>
    BY PiecesType
  <2>2. (k + 1) - 1 = k
    OBVIOUS
  <2>3. J[k + 1] = Then(J[(k + 1) - 1], PiecesOf(s)[k + 1])
    <3> HIDE DEF p, f
    <3> QED BY <2>1, JoinedIs
  <2> QED BY <2>1, <2>2, <2>3
<1>2. n \in Nat /\ M[n] \in Strings
  <2>1. n \in Nat /\ n \in 0..n
    BY LenProperties
  <2> QED BY <2>1, JoinedIs
<1>3. /\ n = card(k) /\ \A i \in EndsOf(s, k) : M[card(i)] = J[i]
      /\ Then(M[n], fr) = J[k]
  BY DEF Whole
<1>4. \A a, b \in Strings : Then(a, b) \in Strings /\ Then(a, <<>>) = a
  BY ThenIs
<1>5. /\ \A i \in EndsOf(s, k) : card(i) \in 0..n
      /\ IsData(f) /\ f.fin =>
           EndsOf(s, k + 1) = EndsOf(s, k) \cup {k + 1} /\ card(k + 1) = n + 1
      /\ ~(IsData(f) /\ f.fin) => EndsOf(s, k + 1) = EndsOf(s, k)
  <2>1. ASSUME NEW i \in EndsOf(s, k) PROVE card(i) \in 0..n
    <3>1. i \in 0..k /\ i \in Nat
      BY DEF EndsOf
    <3>2. card(i) \in Nat /\ card(i) <= card(k)
      BY <3>1, EndsCount
    <3> QED BY <1>2, <1>3, <3>2
  <2>2. IsData(f) /\ f.fin =>
           EndsOf(s, k + 1) = EndsOf(s, k) \cup {k + 1} /\ card(k + 1) = card(k) + 1
    BY EndsCount
  <2>3. ~(IsData(f) /\ f.fin) => EndsOf(s, k + 1) = EndsOf(s, k)
    BY EndsCount
  <2> QED BY <1>3, <2>1, <2>2, <2>3
<1>6. Then(M[n], Then(fr, p)) = Then(J[k], p)
  <2>1. \A a, b, c \in Strings : Then(Then(a, b), c) = Then(a, Then(b, c))
    BY ThenIs
  <2> HIDE DEF M, J, n, p
  <2>2. Then(Then(M[n], fr), p) = Then(M[n], Then(fr, p))
    BY <1>1, <1>2, <2>1
  <2> QED BY <1>3, <2>2
<1>7. ASSUME ~IsData(f) PROVE Whole(s, k + 1, ms, fr)
  <2>1. J[k + 1] = J[k]
    BY <1>1, <1>2, <1>3, <1>4, <1>7
  <2>2. EndsOf(s, k + 1) = EndsOf(s, k)
    BY <1>5, <1>7
  <2> HIDE DEF f, p
  <2> QED BY <1>3, <2>1, <2>2 DEF Whole
<1>8. ASSUME IsData(f), ~f.fin PROVE Whole(s, k + 1, ms, Then(fr, p))
  <2>1. J[k + 1] = Then(J[k], p)
    BY <1>1, <1>8
  <2>2. EndsOf(s, k + 1) = EndsOf(s, k)
    BY <1>5, <1>8
  <2> HIDE DEF f, p
  <2> QED BY <1>3, <1>6, <2>1, <2>2 DEF Whole
<1>9. ASSUME IsData(f), f.fin PROVE Whole(s, k + 1, Append(ms, Then(fr, p)), <<>>)
  <2> DEFINE ns == Append(ms, Then(fr, p))
             N == Joined(ns)
  <2>1. Then(fr, p) \in Strings
    BY <1>1, <1>4
  <2>2. /\ Len(ns) = n + 1 /\ \A i \in 0..n : N[i] = M[i]
        /\ N[n + 1] = Then(M[n], Then(fr, p))
    BY <2>1, JoinedAppend
  <2>3. J[k + 1] = Then(J[k], p)
    BY <1>1, <1>9
  <2>4. /\ EndsOf(s, k + 1) = EndsOf(s, k) \cup {k + 1} /\ card(k + 1) = n + 1
    BY <1>5, <1>9
  <2>5. N[n + 1] = J[k + 1]
    BY <1>2, <1>6, <2>2, <2>3
  <2> HIDE DEF ns, N, J, M, n, f, p
  <2>6. ASSUME NEW i \in EndsOf(s, k + 1) PROVE N[card(i)] = J[i]
    <3>1. CASE i = k + 1
      BY <2>4, <2>5, <3>1
    <3>2. CASE i \in EndsOf(s, k)
      <4>1. card(i) \in 0..n /\ M[card(i)] = J[i]
        BY <1>3, <1>5, <3>2
      <4> QED BY <2>2, <4>1
    <3> QED BY <2>4, <3>1, <3>2
  <2>7. Then(N[Len(ns)], <<>>) = J[k + 1]
    <3>1. N[n + 1] \in Strings
      BY <1>2, <1>4, <2>1, <2>2 DEF n, M
    <3> QED BY <1>4, <2>2, <2>5, <3>1
  <2>8. Len(ns) = card(k + 1)
    BY <2>2, <2>4
  <2> QED BY <2>6, <2>7, <2>8 DEF Whole, ns, N, J
<1> QED BY <1>7, <1>8, <1>9

-----------------------------------------------------------------------------
(* The invariant of the messages. *)

\* A frame opens, continues or ends a message in pieces.
LEMMA BegunNext ==
    ASSUME NEW s, NEW k \in Nat
    PROVE  /\ ~IsData(s[k + 1]) => (Begun(s, k) => Begun(s, k + 1))
           /\ IsData(s[k + 1]) /\ ~s[k + 1].fin => Begun(s, k + 1)
<1>1. ASSUME ~IsData(s[k + 1]), Begun(s, k) PROVE Begun(s, k + 1)
  <2>1. PICK i \in 1..k : IsData(s[i]) /\ ~s[i].fin /\ \A j \in (i + 1)..k : ~IsData(s[j])
    BY <1>1 DEF Begun
  <2>2. i \in 1..(k + 1) /\ \A j \in (i + 1)..(k + 1) : j \in (i + 1)..k \/ j = k + 1
    OBVIOUS
  <2> QED BY <1>1, <2>1, <2>2 DEF Begun
<1>2. ASSUME IsData(s[k + 1]), ~s[k + 1].fin PROVE Begun(s, k + 1)
  <2>1. k + 1 \in 1..(k + 1) /\ \A j \in ((k + 1) + 1)..(k + 1) : FALSE
    OBVIOUS
  <2> QED BY <1>2, <2>1 DEF Begun
<1> QED BY <1>1, <1>2

\* Init: no message was begun.
LEMMA MessageInit ==
    Init => MessageInv
<1> SUFFICES ASSUME Init PROVE MessageInv
  OBVIOUS
<1>1. sent = <<>> /\ processed = <<>> /\ fragment_ = <<>> /\ messages = <<>>
  BY DEF Init
<1>2. Proper(<<>>)
  BY DEF Proper
<1>3. EndsOf(<<>>, 0) = {}
  BY DEF EndsOf
<1>4. Joined(<<>>)[0] = <<>> /\ Joined(PiecesOf(<<>>))[0] = <<>>
  <2>1. <<>> \in Seq(Strings) /\ <<>> \in Seq(FrameSet)
    OBVIOUS
  <2>2. PiecesOf(<<>>) \in Seq(Strings)
    BY <2>1, PiecesType
  <2> QED BY <2>1, <2>2, JoinedIs
<1>5. Then(<<>>, <<>>) = <<>>
  <2>1. <<>> \in Strings
    BY DEF Strings
  <2> QED BY <2>1, ThenIs
<1>6. Len(<<>>) = 0
  OBVIOUS
<1>7. Whole(<<>>, 0, <<>>, <<>>)
  BY <1>3, <1>4, <1>5, <1>6, FS_EmptySet DEF Whole
<1> QED BY <1>1, <1>2, <1>6, <1>7 DEF MessageInv

\* ViewerSends: the frame continues a message exactly when one is begun.
LEMMA MessageSent ==
    ASSUME WireInv, MessageInv, NEW f \in Frames, ViewerSends(f)
    PROVE  MessageInv'
<1> DEFINE p == Content(f.size, Len(sent))
           g == [fin |-> f.fin, opcode |-> f.opcode, payload_data |-> p]
           n == Len(sent)
           k == Len(processed)
<1>1. sent \in Seq(FrameSet) /\ n \in Nat /\ k \in 0..n
  <2>1. /\ sent \in Seq(FrameSet) /\ processed \in Seq(FrameSet) /\ Len(processed) <= Len(sent)
    BY DEF WireInv, TypeInv, StreamInv, Begins
  <2> QED BY <2>1, LenProperties
<1>2. g \in FrameSet
  BY <1>1, SentFrame
<1>3. /\ sent' = Append(sent, g) /\ UNCHANGED <<processed, fragment_, messages>>
      /\ IsData(f) => (f.opcode = 0 <=> InPieces(n))
  BY DEF ViewerSends, inVars
<1>4. /\ IsData(g) <=> IsData(f)
      /\ InPieces(n) <=> Begun(sent, n)
      /\ g.opcode = f.opcode
  BY DEF IsData, InPieces, Begun
<1> HIDE DEF g, p
<1>5. \A i \in 0..n : Begun(Append(sent, g), i) <=> Begun(sent, i)
  BY <1>1, <1>2, MoreFrames
<1>6. /\ Len(sent') = n + 1 /\ sent'[n + 1] = g /\ \A i \in 1..n : sent'[i] = sent[i]
  BY <1>1, <1>2, <1>3, AppendProperties
<1>7. Proper(sent')
  <2>1. ASSUME NEW i \in 1..(n + 1), IsData(sent'[i])
        PROVE  sent'[i].opcode = 0 <=> Begun(sent', i - 1)
    <3>1. Begun(sent', i - 1) <=> Begun(sent, i - 1)
      <4>1. i - 1 \in 0..n
        BY <1>1
      <4> QED BY <1>3, <1>5, <4>1
    <3>2. CASE i = n + 1
      <4>1. i - 1 = n
        BY <1>1, <3>2
      <4> QED BY <1>3, <1>4, <1>6, <2>1, <3>1, <3>2, <4>1
    <3>3. CASE i # n + 1
      <4>1. i \in 1..n
        BY <1>1, <3>3
      <4> QED BY <1>6, <2>1, <3>1, <4>1 DEF MessageInv, Proper
    <3> QED BY <3>2, <3>3
  <2> QED BY <1>6, <2>1 DEF Proper
<1>8. Begun(sent', k) <=> Begun(sent, k)
  BY <1>1, <1>3, <1>5
<1>9. Whole(sent', k, messages, fragment_)
  BY <1>1, <1>2, <1>3, MoreFrames DEF MessageInv
<1> QED BY <1>3, <1>7, <1>8, <1>9 DEF MessageInv

\* HandleRead: process completes, continues or leaves alone the message.
LEMMA MessageRead ==
    ASSUME WireInv, MessageInv, HandleRead
    PROVE  MessageInv'
<1> DEFINE k == Len(processed)
           h == Parse(buffer_)
           f == [fin |-> h.fin, opcode |-> h.opcode, payload_data |-> h.payload_data]
           p == f.payload_data
<1>2. /\ h.counter \in Nat /\ h.counter < 2 * (MaxInt + 1)
      /\ k \in Nat /\ k + 1 \in 1..Len(sent) /\ f = sent[k + 1]
  BY NextFrame DEF HandleRead
<1> SUFFICES ASSUME ~UNCHANGED wireVars PROVE MessageInv'
  BY DEF wireVars, inVars, MessageInv
<1>1. /\ processed' = Append(processed, f) /\ UNCHANGED sent
      /\ ProcessPing(f) \/ ProcessPong(f) \/ ProcessPiece(f) \/ ProcessText(f)
  BY <1>2, TakenWhole
<1>3. /\ sent \in Seq(FrameSet) /\ processed \in Seq(FrameSet)
      /\ messages \in Seq(Strings) /\ fragment_ \in Strings
  BY DEF WireInv, TypeInv, Strings
<1> HIDE DEF f, h
<1>4. f \in FrameSet
  BY <1>2, <1>3, ElementOfSeq
<1>5. p \in Strings /\ f.fin \in BOOLEAN
  BY <1>4 DEF FrameSet, Payloads, Strings
<1>6. Len(processed') = k + 1
  BY <1>1, <1>3, <1>4, AppendProperties
<1>7. /\ Whole(sent, k, messages, fragment_)
      /\ ~Begun(sent, k) => fragment_ = <<>>
      /\ Proper(sent)
  BY DEF MessageInv
<1>8. /\ ~IsData(f) => Whole(sent, k + 1, messages, fragment_)
      /\ IsData(f) /\ ~f.fin => Whole(sent, k + 1, messages, Then(fragment_, p))
      /\ IsData(f) /\ f.fin => Whole(sent, k + 1, Append(messages, Then(fragment_, p)), <<>>)
  <2> HIDE DEF k
  <2> QED BY <1>2, <1>3, <1>7, NextPiece
<1>9. /\ ~IsData(f) => (Begun(sent, k) => Begun(sent, k + 1))
      /\ IsData(f) /\ ~f.fin => Begun(sent, k + 1)
  BY <1>2, BegunNext
<1>10. IsData(f) => (f.opcode = 0 <=> Begun(sent, k))
  <2>1. (k + 1) - 1 = k
    BY <1>2
  <2> QED BY <1>2, <1>7, <2>1 DEF Proper
<1>11. fragment_ \o p = Then(fragment_, p)
  BY DEF Then
<1>12. ASSUME NEW ms, NEW fr, messages' = ms, fragment_' = fr, Whole(sent, k + 1, ms, fr),
              ~Begun(sent, k + 1) => fr = <<>>
       PROVE  MessageInv'
  BY <1>1, <1>6, <1>7, <1>12 DEF MessageInv
<1>13. CASE ProcessPing(f) \/ ProcessPong(f)
  <2>1. ~IsData(f) /\ messages' = messages /\ fragment_' = fragment_
    BY <1>13 DEF ProcessPing, ProcessPong, IsData
  <2> QED BY <1>7, <1>8, <1>9, <1>12, <2>1
<1>14. CASE ProcessPiece(f) /\ f.fin
  <2>1. IsData(f) /\ messages' = Append(messages, Then(fragment_, p)) /\ fragment_' = <<>>
    BY <1>11, <1>14 DEF ProcessPiece, IsData
  <2> QED BY <1>8, <1>12, <1>14, <2>1
<1>15. CASE ProcessPiece(f) /\ ~f.fin
  <2>1. IsData(f) /\ messages' = messages /\ fragment_' = Then(fragment_, p)
    BY <1>11, <1>15 DEF ProcessPiece, IsData
  <2> QED BY <1>8, <1>9, <1>12, <1>15, <2>1
<1>16. CASE ProcessText(f) /\ f.fin
  <2>1. /\ IsData(f) /\ f.opcode # 0 /\ messages' = Append(messages, p)
        /\ fragment_' = fragment_
    BY <1>16 DEF ProcessText, IsData
  <2>2. fragment_ = <<>>
    BY <1>7, <1>10, <2>1
  <2>3. Then(fragment_, p) = p
    BY <1>5, <2>2, ThenIs
  <2> QED BY <1>8, <1>12, <1>16, <2>1, <2>2, <2>3
<1>17. CASE ProcessText(f) /\ ~f.fin
  <2>1. IsData(f) /\ messages' = messages /\ fragment_' = Then(fragment_, p)
    BY <1>11, <1>17 DEF ProcessText, IsData
  <2> QED BY <1>8, <1>9, <1>12, <1>17, <2>1
<1> QED BY <1>1, <1>5, <1>13, <1>14, <1>15, <1>16, <1>17

\* Messages are put together as they were sent in every reachable state
\* (connection.cpp, process).
THEOREM MessageInductive == WireSpec => []MessageInv
<1>1. Init => MessageInv
  BY MessageInit
<1>2. WireInv /\ MessageInv /\ [Next]_wireVars => MessageInv'
  <2> SUFFICES ASSUME WireInv, MessageInv, [Next]_wireVars PROVE MessageInv'
    OBVIOUS
  <2>1. ASSUME NEW f \in Frames, ViewerSends(f) PROVE MessageInv'
    BY <2>1, MessageSent
  <2>2. ASSUME NEW n \in 1..Len(inWire), Receive(n) PROVE MessageInv'
    BY <2>2 DEF Receive, MessageInv
  <2>3. CASE HandleRead
    BY <2>3, MessageRead
  <2>4. ASSUME NEW size \in Texts, WriteText(size) PROVE MessageInv'
    BY <2>4 DEF WriteText, inVars, MessageInv
  <2>5. CASE UNCHANGED wireVars
    BY <2>5 DEF wireVars, inVars, MessageInv
  <2> QED BY <2>1, <2>2, <2>3, <2>4, <2>5 DEF Next
<1> QED BY <1>1, <1>2, WireInductive, PTL DEF WireSpec

\* on_message is called with what the viewer sent as one message, in however
\* many pieces and with whatever pings between them (connection.cpp, process).
THEOREM MessagesAlwaysWhole == WireSpec => []MessagesWhole
<1>1. MessageInv => MessagesWhole
  <2> SUFFICES ASSUME MessageInv PROVE MessagesWhole
    OBVIOUS
  <2>1. PiecesOf(sent) = Pieces
    BY DEF PiecesOf, Pieces
  <2>2. \A i : EndsOf(sent, i) = Ends(i)
    BY DEF EndsOf, Ends
  <2>3. Whole(sent, Len(processed), messages, fragment_)
    BY DEF MessageInv
  <2>4. /\ Len(messages) = Cardinality(Ends(Len(processed)))
        /\ \A i \in Ends(Len(processed)) :
              Joined(messages)[Cardinality(Ends(i))] = Joined(Pieces)[i]
        /\ Then(Joined(messages)[Len(messages)], fragment_) = Joined(Pieces)[Len(processed)]
    BY <2>1, <2>2, <2>3 DEF Whole
  <2> QED BY ONLY <2>4 DEF MessagesWhole, Then
<1> QED BY <1>1, MessageInductive, PTL
=============================================================================
