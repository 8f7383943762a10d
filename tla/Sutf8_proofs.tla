---------------------------- MODULE Sutf8_proofs ----------------------------
(***************************************************************************)
(* Proofs about the codec.  A codepoint is the sum of its digits, lead byte *)
(* first, six bits to each byte behind it; so the encoder's bytes make it   *)
(* up again (EncodedValue), and no other bytes of the same frame do         *)
(* (SameBytes).  The frames' ranges are disjoint, of codepoints and of lead *)
(* bytes.  From these, encoding and decoding are inverse to each other.     *)
(*                                                                         *)
(* The numbers of a frame are expanded frame by frame: the solvers have     *)
(* constants to multiply and divide by, never variables.                    *)
(***************************************************************************)
EXTENDS Sutf8, SequenceTheorems, WellFoundedInduction, TLAPS

-----------------------------------------------------------------------------
(* The recursive functions of the models are loops of a known number of     *)
(* steps.  What holds at first and is kept by every step holds to the end:  *)
(* the property is the set of the steps after which it holds.               *)
LEMMA LeastIn ==
  ASSUME NEW S, S \subseteq Nat, S # {}
  PROVE  \E x \in S : \A y \in S : x <= y
  <1>1. \E x \in S : \A y \in S : ~(<<y, x>> \in OpToRel(<, Nat))
    BY WFMin, NatLessThanWellFounded
  <1>2. \A x, y \in S : x < y => <<x, y>> \in OpToRel(<, Nat)
    BY DEF OpToRel
  <1>3. \E x \in S : \A y \in S : ~(y < x)
    BY <1>1, <1>2, Zenon
  <1> QED
    BY <1>3

LEMMA Upwards ==
  ASSUME NEW n \in Nat, NEW Good, 0 \in Good,
         \A k \in 1 .. n : k - 1 \in Good => k \in Good
  PROVE  \A k \in 0 .. n : k \in Good
  <1> DEFINE Bad == {k \in 0 .. n : k \notin Good}
  <1>1. ASSUME Bad # {} PROVE FALSE
    <2>1. Bad \subseteq Nat
      OBVIOUS
    <2>2. PICK m \in Bad : \A j \in Bad : m <= j
      <3> HIDE DEF Bad
      <3> QED
        BY <1>1, <2>1, LeastIn
    <2>3. m \in 1 .. n /\ m \notin Good
      BY <2>2
    <2>4. m - 1 \in 0 .. n /\ ~(m <= m - 1)
      BY <2>3
    <2>5. m - 1 \in Good
      BY <2>2, <2>4
    <2> QED
      BY <2>3, <2>5
  <1> QED
    BY <1>1

(* And what the loop computes exists. *)
Steps(f, n, a, S, step) ==
  /\ f \in [0 .. n -> S] /\ f[0] = a
  /\ \A k \in 1 .. n : f[k] = step[k][f[k - 1]]

LEMMA Iterated ==
  ASSUME NEW n \in Nat, NEW S, NEW a \in S, NEW step \in [1 .. n -> [S -> S]]
  PROVE  \E f : Steps(f, n, a, S, step)
  <1> DEFINE Good == {m \in 0 .. n : \E f : Steps(f, m, a, S, step)}
  <1>1. 0 \in Good
    <2> DEFINE h == [k \in 0 .. 0 |-> a]
    <2>1. Steps(h, 0, a, S, step)
      BY DEF Steps
    <2> QED
      BY <2>1
  <1>2. ASSUME NEW m \in 1 .. n, m - 1 \in Good PROVE m \in Good
    <2>1. PICK f : Steps(f, m - 1, a, S, step)
      BY <1>2
    <2> DEFINE g == [k \in 0 .. m |-> IF k = m THEN step[m][f[m - 1]] ELSE f[k]]
    <2>2. m - 1 \in 0 .. m - 1 /\ step[m] \in [S -> S] /\ m # 0
      OBVIOUS
    <2>3. f[m - 1] \in S
      BY <2>1, <2>2 DEF Steps
    <2>4. \A k \in 0 .. m - 1 : f[k] \in S
      BY <2>1 DEF Steps
    <2>5. g \in [0 .. m -> S] /\ g[0] = a
      BY <2>1, <2>2, <2>3, <2>4 DEF Steps
    <2>6. ASSUME NEW k \in 1 .. m PROVE g[k] = step[k][g[k - 1]]
      BY <2>1 DEF Steps
    <2>7. Steps(g, m, a, S, step)
      <3> HIDE DEF g
      <3> QED
        BY <2>5, <2>6 DEF Steps
    <2> QED
      BY <2>7
  <1>3. n \in Good
    <2> HIDE DEF Good
    <2>1. \A k \in 0 .. n : k \in Good
      BY <1>1, <1>2, Upwards
    <2> QED
      BY <2>1
  <1> QED
    BY <1>3

-----------------------------------------------------------------------------
(* The frames. *)
LEMMA Tables ==
  ASSUME NEW n \in Frames
  PROVE  /\ Lead[n] \in Nat /\ Capacity[n] \in Nat \ {0} /\ Pow64[n] \in Nat \ {0}
         /\ Least[n] \in Nat /\ Greatest[n] \in Nat
         /\ Lead[n] + Capacity[n] <= 256
  BY SMT DEF Frames, Lead, Capacity, Pow64, Least, Greatest

LEMMA FramesDisjoint ==
  ASSUME NEW m \in Frames, NEW n \in Frames, NEW x \in Int,
         \/ Opens(x, m) /\ Opens(x, n)
         \/ x \in Least[m] .. Greatest[m] /\ x \in Least[n] .. Greatest[n]
  PROVE  m = n
  BY SMT DEF Frames, Opens, Lead, Capacity, Least, Greatest

LEMMA FrameExists ==
  ASSUME NEW cp \in Nat, IsValid(cp)
  PROVE  \E n \in Frames : cp \in Least[n] .. Greatest[n]
  BY SMT DEF Frames, IsValid, Least, Greatest

LEMMA Remainder ==
  ASSUME NEW x \in Nat, NEW p \in Nat \ {0}, NEW c \in Nat \ {0}
  PROVE  ((x \div p) % c) \in 0 .. c - 1
  BY SMT

LEMMA SixBits ==
  ASSUME NEW x \in Nat, NEW p \in Nat \ {0}
  PROVE  ((x \div p) % 64) \in 0 .. 63
  BY SMT

LEMMA ByteSum ==
  ASSUME NEW lead \in Nat, NEW c \in Nat, NEW digit \in 0 .. c - 1, lead + c <= 256
  PROVE  lead + digit \in 0 .. 255
  BY SMT

LEMMA SequenceOf ==
  ASSUME NEW n \in Nat, NEW S, NEW f \in [1 .. n -> S]
  PROVE  f \in Seq(S) /\ Len(f) = n
  BY SMT

LEMMA EncodedIsChar ==
  ASSUME NEW n \in Frames, NEW cp \in Nat
  PROVE  /\ Encoded(cp, n) \in Seq(0 .. 255) /\ Len(Encoded(cp, n)) = n
         /\ Encoded(cp, n) \in [1 .. n -> 0 .. 255]
         /\ Opens(Encoded(cp, n)[1], n)
         /\ \A k \in 2 .. n : IsContinuation(Encoded(cp, n)[k])
  <1>1. n \in 1 .. 6
    BY SMT DEF Frames
  <1>2. Encoded(cp, n)[1] = Lead[n] + ((cp \div Pow64[n]) % Capacity[n])
    BY <1>1, SMT DEF Encoded
  <1>3. ((cp \div Pow64[n]) % Capacity[n]) \in 0 .. Capacity[n] - 1
    BY Tables, Remainder, SMT
  <1>4. Opens(Encoded(cp, n)[1], n)
    BY <1>2, <1>3, Tables, SMT DEF Opens
  <1>5. \A k \in 2 .. n : n - k + 1 \in Frames
    BY <1>1, SMT DEF Frames
  <1>6. ASSUME NEW k \in 2 .. n PROVE IsContinuation(Encoded(cp, n)[k])
    <2>1. Encoded(cp, n)[k] = 128 + ((cp \div Pow64[n - k + 1]) % 64)
      BY <1>1, SMT DEF Encoded
    <2>2. ((cp \div Pow64[n - k + 1]) % 64) \in 0 .. 63
      <3>1. Pow64[n - k + 1] \in Nat \ {0}
        BY <1>5, Tables
      <3> QED
        BY <3>1, SixBits
    <2> QED
      BY <2>1, <2>2, SMT DEF IsContinuation
  <1>7. \A k \in 1 .. n : Encoded(cp, n)[k] \in 0 .. 255
    <2>1. Encoded(cp, n)[1] \in 0 .. 255
      <3>1. Lead[n] \in Nat /\ Capacity[n] \in Nat /\ Lead[n] + Capacity[n] <= 256
        BY Tables
      <3> QED
        BY <1>2, <1>3, <3>1, ByteSum
    <2>2. \A k \in 2 .. n : Encoded(cp, n)[k] \in 0 .. 255
      BY <1>6, SMT DEF IsContinuation
    <2> QED
      BY <1>1, <2>1, <2>2, SMT
  <1>8. Encoded(cp, n) \in [1 .. n -> 0 .. 255]
    BY <1>7, SMT DEF Encoded
  <1>9. Encoded(cp, n) \in Seq(0 .. 255) /\ Len(Encoded(cp, n)) = n
    BY <1>1, <1>8, SequenceOf, SMT
  <1> QED
    BY <1>4, <1>6, <1>8, <1>9

(* The digit of x that has the weight p, in base c. *)
Digit(x, p, c) == (x \div p) % c

(* The digits of a codepoint, in each frame, make it up again. *)
LEMMA Digits1 ==
  ASSUME NEW x \in Nat, x <= 127
  PROVE  /\ x = Digit(x, 1, 128) * 1
         /\ Digit(x, 1, 128) \in Int
  BY SMTT(60) DEF Digit

LEMMA Digits2 ==
  ASSUME NEW x \in Nat, x <= 2047
  PROVE  /\ x = Digit(x, 64, 32) * 64 + Digit(x, 1, 64) * 1
         /\ Digit(x, 64, 32) \in Int
         /\ Digit(x, 1, 64) \in Int
  BY SMTT(60) DEF Digit

LEMMA Digits3 ==
  ASSUME NEW x \in Nat, x <= 65535
  PROVE  /\ x = Digit(x, 4096, 16) * 4096 + Digit(x, 64, 64) * 64
               + Digit(x, 1, 64) * 1
         /\ Digit(x, 4096, 16) \in Int
         /\ Digit(x, 64, 64) \in Int
         /\ Digit(x, 1, 64) \in Int
  BY SMTT(60) DEF Digit

LEMMA Digits4 ==
  ASSUME NEW x \in Nat, x <= 1114111
  PROVE  /\ x = Digit(x, 262144, 8) * 262144 + Digit(x, 4096, 64) * 4096
               + Digit(x, 64, 64) * 64 + Digit(x, 1, 64) * 1
         /\ Digit(x, 262144, 8) \in Int
         /\ Digit(x, 4096, 64) \in Int
         /\ Digit(x, 64, 64) \in Int
         /\ Digit(x, 1, 64) \in Int
  BY SMTT(60) DEF Digit

LEMMA Digits5 ==
  ASSUME NEW x \in Nat, x <= 67108863
  PROVE  /\ x = Digit(x, 16777216, 4) * 16777216
               + Digit(x, 262144, 64) * 262144 + Digit(x, 4096, 64) * 4096
               + Digit(x, 64, 64) * 64 + Digit(x, 1, 64) * 1
         /\ Digit(x, 16777216, 4) \in Int
         /\ Digit(x, 262144, 64) \in Int
         /\ Digit(x, 4096, 64) \in Int
         /\ Digit(x, 64, 64) \in Int
         /\ Digit(x, 1, 64) \in Int
  BY SMTT(60) DEF Digit

LEMMA Digits6 ==
  ASSUME NEW x \in Nat, x <= 2147483647
  PROVE  /\ x = Digit(x, 1073741824, 2) * 1073741824
               + Digit(x, 16777216, 64) * 16777216
               + Digit(x, 262144, 64) * 262144 + Digit(x, 4096, 64) * 4096
               + Digit(x, 64, 64) * 64 + Digit(x, 1, 64) * 1
         /\ Digit(x, 1073741824, 2) \in Int
         /\ Digit(x, 16777216, 64) \in Int
         /\ Digit(x, 262144, 64) \in Int
         /\ Digit(x, 4096, 64) \in Int
         /\ Digit(x, 64, 64) \in Int
         /\ Digit(x, 1, 64) \in Int
  BY SMTT(60) DEF Digit

(* What the bytes of each frame make up: six bits after six bits. *)
Shifted(x, byte) == x * 64 + (byte - 128)
Value1(b1) == b1 - 0
Value2(b1, b2) == Shifted(b1 - 192, b2)
Value3(b1, b2, b3) == Shifted(Shifted(b1 - 224, b2), b3)
Value4(b1, b2, b3, b4) == Shifted(Shifted(Shifted(b1 - 240, b2), b3), b4)
Value5(b1, b2, b3, b4, b5) == Shifted(Shifted(Shifted(Shifted(b1 - 248, b2), b3), b4), b5)
Value6(b1, b2, b3, b4, b5, b6) == Shifted(Shifted(Shifted(Shifted(Shifted(b1 - 252, b2), b3), b4), b5), b6)

LEMMA Values ==
  ASSUME NEW b
  PROVE  /\ (\A k \in 1 .. 1 : b[k] \in Int) => Codepoint(b, 1) = Value1(b[1])
         /\ (\A k \in 1 .. 2 : b[k] \in Int) => Codepoint(b, 2) = Value2(b[1], b[2])
         /\ (\A k \in 1 .. 3 : b[k] \in Int) => Codepoint(b, 3) = Value3(b[1], b[2], b[3])
         /\ (\A k \in 1 .. 4 : b[k] \in Int) => Codepoint(b, 4) = Value4(b[1], b[2], b[3], b[4])
         /\ (\A k \in 1 .. 5 : b[k] \in Int) => Codepoint(b, 5) = Value5(b[1], b[2], b[3], b[4], b[5])
         /\ (\A k \in 1 .. 6 : b[k] \in Int) => Codepoint(b, 6) = Value6(b[1], b[2], b[3], b[4], b[5], b[6])
  <1>1. (\A k \in 1 .. 1 : b[k] \in Int) => Codepoint(b, 1) = Value1(b[1])
    BY SMT DEF Codepoint, Carried, Lead, Pow64, Value1, Shifted
  <1>2. (\A k \in 1 .. 2 : b[k] \in Int) => Codepoint(b, 2) = Value2(b[1], b[2])
    BY SMT DEF Codepoint, Carried, Lead, Pow64, Value2, Shifted
  <1>3. (\A k \in 1 .. 3 : b[k] \in Int) => Codepoint(b, 3) = Value3(b[1], b[2], b[3])
    BY SMT DEF Codepoint, Carried, Lead, Pow64, Value3, Shifted
  <1>4. (\A k \in 1 .. 4 : b[k] \in Int) => Codepoint(b, 4) = Value4(b[1], b[2], b[3], b[4])
    BY SMT DEF Codepoint, Carried, Lead, Pow64, Value4, Shifted
  <1>5. (\A k \in 1 .. 5 : b[k] \in Int) => Codepoint(b, 5) = Value5(b[1], b[2], b[3], b[4], b[5])
    BY SMT DEF Codepoint, Carried, Lead, Pow64, Value5, Shifted
  <1>6. (\A k \in 1 .. 6 : b[k] \in Int) => Codepoint(b, 6) = Value6(b[1], b[2], b[3], b[4], b[5], b[6])
    BY SMT DEF Codepoint, Carried, Lead, Pow64, Value6, Shifted
  <1> QED
    BY <1>1, <1>2, <1>3, <1>4, <1>5, <1>6

LEMMA EncodedValue ==
  ASSUME NEW n \in Frames, NEW cp \in Least[n] .. Greatest[n]
  PROVE  Codepoint(Encoded(cp, n), n) = cp
  <1>1. cp \in Nat
    BY Tables, SMT
  <1> DEFINE b == Encoded(cp, n)
  <1>2. CASE n = 1
    <2>1. cp <= 127
      BY <1>2, <1>1, SMT DEF Greatest
    <2>2. b[1] = 0 + Digit(cp, 1, 128)
      BY <1>2, SMT DEF Encoded, Lead, Capacity, Pow64, Digit
    <2> HIDE DEF b
    <2>3. /\ cp = Digit(cp, 1, 128) * 1
          /\ Digit(cp, 1, 128) \in Int
      BY <1>1, <2>1, Digits1
    <2>4. \A k \in 1 .. 1 : b[k] \in Int
      BY <2>2, <2>3, SMT
    <2>5. Value1(b[1]) = cp
      BY <1>1, <2>2, <2>3, SMT DEF Value1, Shifted
    <2> QED
      BY <1>2, <2>4, <2>5, Values DEF b
  <1>3. CASE n = 2
    <2>1. cp <= 2047
      BY <1>3, <1>1, SMT DEF Greatest
    <2>2. /\ b[1] = 192 + Digit(cp, 64, 32)
          /\ b[2] = 128 + Digit(cp, 1, 64)
      BY <1>3, SMT DEF Encoded, Lead, Capacity, Pow64, Digit
    <2> HIDE DEF b
    <2>3. /\ cp = Digit(cp, 64, 32) * 64 + Digit(cp, 1, 64) * 1
          /\ Digit(cp, 64, 32) \in Int
          /\ Digit(cp, 1, 64) \in Int
      BY <1>1, <2>1, Digits2
    <2>4. \A k \in 1 .. 2 : b[k] \in Int
      BY <2>2, <2>3, SMT
    <2>5. Value2(b[1], b[2]) = cp
      BY <1>1, <2>2, <2>3, SMT DEF Value2, Shifted
    <2> QED
      BY <1>3, <2>4, <2>5, Values DEF b
  <1>4. CASE n = 3
    <2>1. cp <= 65535
      BY <1>4, <1>1, SMT DEF Greatest
    <2>2. /\ b[1] = 224 + Digit(cp, 4096, 16)
          /\ b[2] = 128 + Digit(cp, 64, 64)
          /\ b[3] = 128 + Digit(cp, 1, 64)
      BY <1>4, SMT DEF Encoded, Lead, Capacity, Pow64, Digit
    <2> HIDE DEF b
    <2>3. /\ cp = Digit(cp, 4096, 16) * 4096 + Digit(cp, 64, 64) * 64
                + Digit(cp, 1, 64) * 1
          /\ Digit(cp, 4096, 16) \in Int
          /\ Digit(cp, 64, 64) \in Int
          /\ Digit(cp, 1, 64) \in Int
      BY <1>1, <2>1, Digits3
    <2>4. \A k \in 1 .. 3 : b[k] \in Int
      BY <2>2, <2>3, SMT
    <2>5. Value3(b[1], b[2], b[3]) = cp
      BY <1>1, <2>2, <2>3, SMT DEF Value3, Shifted
    <2> QED
      BY <1>4, <2>4, <2>5, Values DEF b
  <1>5. CASE n = 4
    <2>1. cp <= 1114111
      BY <1>5, <1>1, SMT DEF Greatest
    <2>2. /\ b[1] = 240 + Digit(cp, 262144, 8)
          /\ b[2] = 128 + Digit(cp, 4096, 64)
          /\ b[3] = 128 + Digit(cp, 64, 64)
          /\ b[4] = 128 + Digit(cp, 1, 64)
      BY <1>5, SMT DEF Encoded, Lead, Capacity, Pow64, Digit
    <2> HIDE DEF b
    <2>3. /\ cp = Digit(cp, 262144, 8) * 262144 + Digit(cp, 4096, 64) * 4096
                + Digit(cp, 64, 64) * 64 + Digit(cp, 1, 64) * 1
          /\ Digit(cp, 262144, 8) \in Int
          /\ Digit(cp, 4096, 64) \in Int
          /\ Digit(cp, 64, 64) \in Int
          /\ Digit(cp, 1, 64) \in Int
      BY <1>1, <2>1, Digits4
    <2>4. \A k \in 1 .. 4 : b[k] \in Int
      BY <2>2, <2>3, SMT
    <2>5. Value4(b[1], b[2], b[3], b[4]) = cp
      BY <1>1, <2>2, <2>3, SMT DEF Value4, Shifted
    <2> QED
      BY <1>5, <2>4, <2>5, Values DEF b
  <1>6. CASE n = 5
    <2>1. cp <= 67108863
      BY <1>6, <1>1, SMT DEF Greatest
    <2>2. /\ b[1] = 248 + Digit(cp, 16777216, 4)
          /\ b[2] = 128 + Digit(cp, 262144, 64)
          /\ b[3] = 128 + Digit(cp, 4096, 64)
          /\ b[4] = 128 + Digit(cp, 64, 64)
          /\ b[5] = 128 + Digit(cp, 1, 64)
      BY <1>6, SMT DEF Encoded, Lead, Capacity, Pow64, Digit
    <2> HIDE DEF b
    <2>3. /\ cp = Digit(cp, 16777216, 4) * 16777216
                + Digit(cp, 262144, 64) * 262144 + Digit(cp, 4096, 64) * 4096
                + Digit(cp, 64, 64) * 64 + Digit(cp, 1, 64) * 1
          /\ Digit(cp, 16777216, 4) \in Int
          /\ Digit(cp, 262144, 64) \in Int
          /\ Digit(cp, 4096, 64) \in Int
          /\ Digit(cp, 64, 64) \in Int
          /\ Digit(cp, 1, 64) \in Int
      BY <1>1, <2>1, Digits5
    <2>4. \A k \in 1 .. 5 : b[k] \in Int
      BY <2>2, <2>3, SMT
    <2>5. Value5(b[1], b[2], b[3], b[4], b[5]) = cp
      BY <1>1, <2>2, <2>3, SMT DEF Value5, Shifted
    <2> QED
      BY <1>6, <2>4, <2>5, Values DEF b
  <1>7. CASE n = 6
    <2>1. cp <= 2147483647
      BY <1>7, <1>1, SMT DEF Greatest
    <2>2. /\ b[1] = 252 + Digit(cp, 1073741824, 2)
          /\ b[2] = 128 + Digit(cp, 16777216, 64)
          /\ b[3] = 128 + Digit(cp, 262144, 64)
          /\ b[4] = 128 + Digit(cp, 4096, 64)
          /\ b[5] = 128 + Digit(cp, 64, 64)
          /\ b[6] = 128 + Digit(cp, 1, 64)
      BY <1>7, SMT DEF Encoded, Lead, Capacity, Pow64, Digit
    <2> HIDE DEF b
    <2>3. /\ cp = Digit(cp, 1073741824, 2) * 1073741824
                + Digit(cp, 16777216, 64) * 16777216
                + Digit(cp, 262144, 64) * 262144 + Digit(cp, 4096, 64) * 4096
                + Digit(cp, 64, 64) * 64 + Digit(cp, 1, 64) * 1
          /\ Digit(cp, 1073741824, 2) \in Int
          /\ Digit(cp, 16777216, 64) \in Int
          /\ Digit(cp, 262144, 64) \in Int
          /\ Digit(cp, 4096, 64) \in Int
          /\ Digit(cp, 64, 64) \in Int
          /\ Digit(cp, 1, 64) \in Int
      BY <1>1, <2>1, Digits6
    <2>4. \A k \in 1 .. 6 : b[k] \in Int
      BY <2>2, <2>3, SMT
    <2>5. Value6(b[1], b[2], b[3], b[4], b[5], b[6]) = cp
      BY <1>1, <2>2, <2>3, SMT DEF Value6, Shifted
    <2> QED
      BY <1>7, <2>4, <2>5, Values DEF b
  <1> QED
    BY <1>2, <1>3, <1>4, <1>5, <1>6, <1>7, SMT DEF Frames

Trail == 128 .. 191   \* continuation bytes

LEMMA SameShifted ==
  ASSUME NEW x \in Int, NEW y \in Int, NEW b \in Trail, NEW c \in Trail,
         Shifted(x, b) = Shifted(y, c)
  PROVE  x = y /\ b = c
  BY SMT DEF Shifted, Trail

LEMMA ShiftedInt ==
  ASSUME NEW x \in Int, NEW b \in Trail
  PROVE  Shifted(x, b) \in Int
  BY SMT DEF Shifted, Trail

(* Two characters of one frame that carry the same codepoint are the same. *)
LEMMA SameBytes ==
  ASSUME NEW n \in Frames, NEW b \in [1 .. n -> Int], NEW c \in [1 .. n -> Int],
         \A k \in 2 .. n : IsContinuation(b[k]) /\ IsContinuation(c[k]),
         Codepoint(b, n) = Codepoint(c, n)
  PROVE  \A k \in 1 .. n : b[k] = c[k]
  <1>1. CASE n = 1
    <2>1. (\A k \in 1 .. 1 : b[k] \in Int) /\ (\A k \in 1 .. 1 : c[k] \in Int)
      BY <1>1
    <2>2. Value1(b[1]) = Value1(c[1])
      BY <1>1, <2>1, Values
    <2>3. b[1] - 0 \in Int /\ c[1] - 0 \in Int
      BY <2>1, SMTT(30)
    <2>5. b[1] - 0 = c[1] - 0
      BY <2>2 DEF Value1
    <2>6. b[1] = c[1]
      BY <2>1, <2>5, SMT
    <2> QED
      BY <1>1, <2>5, <2>6, SMT
  <1>2. CASE n = 2
    <2>1. (\A k \in 1 .. 2 : b[k] \in Int) /\ (\A k \in 1 .. 2 : c[k] \in Int)
      BY <1>2
    <2>2. Value2(b[1], b[2]) = Value2(c[1], c[2])
      BY <1>2, <2>1, Values
    <2>3. b[1] - 192 \in Int /\ c[1] - 192 \in Int
      BY <2>1, SMTT(30)
    <2>4. b[2] \in Trail /\ c[2] \in Trail
      BY <1>2, SMT DEF Trail, IsContinuation
    <2>5. b[1] - 192 = c[1] - 192 /\ b[2] = c[2]
      BY <2>2, <2>3, <2>4, ShiftedInt, SameShifted, SMT DEF Value2
    <2>6. b[1] = c[1]
      BY <2>1, <2>5, SMT
    <2> QED
      BY <1>2, <2>5, <2>6, SMT
  <1>3. CASE n = 3
    <2>1. (\A k \in 1 .. 3 : b[k] \in Int) /\ (\A k \in 1 .. 3 : c[k] \in Int)
      BY <1>3
    <2>2. Value3(b[1], b[2], b[3]) = Value3(c[1], c[2], c[3])
      BY <1>3, <2>1, Values
    <2>3. b[1] - 224 \in Int /\ c[1] - 224 \in Int
      BY <2>1, SMTT(30)
    <2>4. /\ b[2] \in Trail /\ c[2] \in Trail
          /\ b[3] \in Trail /\ c[3] \in Trail
      BY <1>3, SMT DEF Trail, IsContinuation
    <2>5. b[1] - 224 = c[1] - 224 /\ b[2] = c[2] /\ b[3] = c[3]
      BY <2>2, <2>3, <2>4, ShiftedInt, SameShifted, SMT DEF Value3
    <2>6. b[1] = c[1]
      BY <2>1, <2>5, SMT
    <2> QED
      BY <1>3, <2>5, <2>6, SMT
  <1>4. CASE n = 4
    <2>1. (\A k \in 1 .. 4 : b[k] \in Int) /\ (\A k \in 1 .. 4 : c[k] \in Int)
      BY <1>4
    <2>2. Value4(b[1], b[2], b[3], b[4]) = Value4(c[1], c[2], c[3], c[4])
      BY <1>4, <2>1, Values
    <2>3. b[1] - 240 \in Int /\ c[1] - 240 \in Int
      BY <2>1, SMTT(30)
    <2>4. /\ b[2] \in Trail /\ c[2] \in Trail
          /\ b[3] \in Trail /\ c[3] \in Trail
          /\ b[4] \in Trail /\ c[4] \in Trail
      BY <1>4, SMT DEF Trail, IsContinuation
    <2>5. b[1] - 240 = c[1] - 240 /\ b[2] = c[2] /\ b[3] = c[3] /\ b[4] = c[4]
      <3>1. /\ Shifted(b[1] - 240, b[2]) \in Int
            /\ Shifted(c[1] - 240, c[2]) \in Int
        BY <2>4, <2>3, ShiftedInt, SMT
      <3>2. /\ Shifted(Shifted(b[1] - 240, b[2]), b[3]) \in Int
            /\ Shifted(Shifted(c[1] - 240, c[2]), c[3]) \in Int
        BY <2>4, <3>1, ShiftedInt, SMT
      <3>3. /\ Shifted(Shifted(b[1] - 240, b[2]), b[3])
              = Shifted(Shifted(c[1] - 240, c[2]), c[3])
            /\ b[4] = c[4]
        BY <2>4, <2>2, <3>2, SameShifted, SMT DEF Value4
      <3>4. /\ Shifted(b[1] - 240, b[2])
              = Shifted(c[1] - 240, c[2])
            /\ b[3] = c[3]
        BY <2>4, <3>3, <3>1, SameShifted, SMT
      <3>5. /\ b[1] - 240
              = c[1] - 240
            /\ b[2] = c[2]
        BY <2>4, <3>4, <2>3, SameShifted, SMT
      <3> QED
        BY <3>3, <3>4, <3>5
    <2>6. b[1] = c[1]
      BY <2>1, <2>5, SMT
    <2> QED
      BY <1>4, <2>5, <2>6, SMT
  <1>5. CASE n = 5
    <2>1. (\A k \in 1 .. 5 : b[k] \in Int) /\ (\A k \in 1 .. 5 : c[k] \in Int)
      BY <1>5
    <2>2. Value5(b[1], b[2], b[3], b[4], b[5]) = Value5(c[1], c[2], c[3], c[4], c[5])
      BY <1>5, <2>1, Values
    <2>3. b[1] - 248 \in Int /\ c[1] - 248 \in Int
      BY <2>1, SMTT(30)
    <2>4. /\ b[2] \in Trail /\ c[2] \in Trail
          /\ b[3] \in Trail /\ c[3] \in Trail
          /\ b[4] \in Trail /\ c[4] \in Trail
          /\ b[5] \in Trail /\ c[5] \in Trail
      BY <1>5, SMT DEF Trail, IsContinuation
    <2>5. b[1] - 248 = c[1] - 248 /\ b[2] = c[2] /\ b[3] = c[3] /\ b[4] = c[4] /\ b[5] = c[5]
      <3>1. /\ Shifted(b[1] - 248, b[2]) \in Int
            /\ Shifted(c[1] - 248, c[2]) \in Int
        BY <2>4, <2>3, ShiftedInt, SMT
      <3>2. /\ Shifted(Shifted(b[1] - 248, b[2]), b[3]) \in Int
            /\ Shifted(Shifted(c[1] - 248, c[2]), c[3]) \in Int
        BY <2>4, <3>1, ShiftedInt, SMT
      <3>3. /\ Shifted(Shifted(Shifted(b[1] - 248, b[2]), b[3]), b[4]) \in Int
            /\ Shifted(Shifted(Shifted(c[1] - 248, c[2]), c[3]), c[4]) \in Int
        BY <2>4, <3>2, ShiftedInt, SMT
      <3>4. /\ Shifted(Shifted(Shifted(b[1] - 248, b[2]), b[3]), b[4])
              = Shifted(Shifted(Shifted(c[1] - 248, c[2]), c[3]), c[4])
            /\ b[5] = c[5]
        BY <2>4, <2>2, <3>3, SameShifted, SMT DEF Value5
      <3>5. /\ Shifted(Shifted(b[1] - 248, b[2]), b[3])
              = Shifted(Shifted(c[1] - 248, c[2]), c[3])
            /\ b[4] = c[4]
        BY <2>4, <3>4, <3>2, SameShifted, SMT
      <3>6. /\ Shifted(b[1] - 248, b[2])
              = Shifted(c[1] - 248, c[2])
            /\ b[3] = c[3]
        BY <2>4, <3>5, <3>1, SameShifted, SMT
      <3>7. /\ b[1] - 248
              = c[1] - 248
            /\ b[2] = c[2]
        BY <2>4, <3>6, <2>3, SameShifted, SMT
      <3> QED
        BY <3>4, <3>5, <3>6, <3>7
    <2>6. b[1] = c[1]
      BY <2>1, <2>5, SMT
    <2> QED
      BY <1>5, <2>5, <2>6, SMT
  <1>6. CASE n = 6
    <2>1. (\A k \in 1 .. 6 : b[k] \in Int) /\ (\A k \in 1 .. 6 : c[k] \in Int)
      BY <1>6
    <2>2. Value6(b[1], b[2], b[3], b[4], b[5], b[6]) = Value6(c[1], c[2], c[3], c[4], c[5], c[6])
      BY <1>6, <2>1, Values
    <2>3. b[1] - 252 \in Int /\ c[1] - 252 \in Int
      BY <2>1, SMTT(30)
    <2>4. /\ b[2] \in Trail /\ c[2] \in Trail
          /\ b[3] \in Trail /\ c[3] \in Trail
          /\ b[4] \in Trail /\ c[4] \in Trail
          /\ b[5] \in Trail /\ c[5] \in Trail
          /\ b[6] \in Trail /\ c[6] \in Trail
      BY <1>6, SMT DEF Trail, IsContinuation
    <2>5. b[1] - 252 = c[1] - 252 /\ b[2] = c[2] /\ b[3] = c[3] /\ b[4] = c[4] /\ b[5] = c[5] /\ b[6] = c[6]
      <3>1. /\ Shifted(b[1] - 252, b[2]) \in Int
            /\ Shifted(c[1] - 252, c[2]) \in Int
        BY <2>4, <2>3, ShiftedInt, SMT
      <3>2. /\ Shifted(Shifted(b[1] - 252, b[2]), b[3]) \in Int
            /\ Shifted(Shifted(c[1] - 252, c[2]), c[3]) \in Int
        BY <2>4, <3>1, ShiftedInt, SMT
      <3>3. /\ Shifted(Shifted(Shifted(b[1] - 252, b[2]), b[3]), b[4]) \in Int
            /\ Shifted(Shifted(Shifted(c[1] - 252, c[2]), c[3]), c[4]) \in Int
        BY <2>4, <3>2, ShiftedInt, SMT
      <3>4. /\ Shifted(Shifted(Shifted(Shifted(b[1] - 252, b[2]), b[3]), b[4]), b[5]) \in Int
            /\ Shifted(Shifted(Shifted(Shifted(c[1] - 252, c[2]), c[3]), c[4]), c[5]) \in Int
        BY <2>4, <3>3, ShiftedInt, SMT
      <3>5. /\ Shifted(Shifted(Shifted(Shifted(b[1] - 252, b[2]), b[3]), b[4]), b[5])
              = Shifted(Shifted(Shifted(Shifted(c[1] - 252, c[2]), c[3]), c[4]), c[5])
            /\ b[6] = c[6]
        BY <2>4, <2>2, <3>4, SameShifted, SMT DEF Value6
      <3>6. /\ Shifted(Shifted(Shifted(b[1] - 252, b[2]), b[3]), b[4])
              = Shifted(Shifted(Shifted(c[1] - 252, c[2]), c[3]), c[4])
            /\ b[5] = c[5]
        BY <2>4, <3>5, <3>3, SameShifted, SMT
      <3>7. /\ Shifted(Shifted(b[1] - 252, b[2]), b[3])
              = Shifted(Shifted(c[1] - 252, c[2]), c[3])
            /\ b[4] = c[4]
        BY <2>4, <3>6, <3>2, SameShifted, SMT
      <3>8. /\ Shifted(b[1] - 252, b[2])
              = Shifted(c[1] - 252, c[2])
            /\ b[3] = c[3]
        BY <2>4, <3>7, <3>1, SameShifted, SMT
      <3>9. /\ b[1] - 252
              = c[1] - 252
            /\ b[2] = c[2]
        BY <2>4, <3>8, <2>3, SameShifted, SMT
      <3> QED
        BY <3>5, <3>6, <3>7, <3>8, <3>9
    <2>6. b[1] = c[1]
      BY <2>1, <2>5, SMT
    <2> QED
      BY <1>6, <2>5, <2>6, SMT
  <1> QED
    BY <1>1, <1>2, <1>3, <1>4, <1>5, <1>6, SMT DEF Frames

(* A codepoint has one frame, and a character too. *)
LEMMA FrameOfIs ==
  ASSUME NEW n \in Frames, NEW cp \in Least[n] .. Greatest[n]
  PROVE  FrameOf(cp) = n
  <1>1. cp \in Int
    BY Tables, SMT
  <1>2. \A m \in Frames : cp \in Least[m] .. Greatest[m] => m = n
    BY <1>1, FramesDisjoint
  <1> QED
    BY <1>2 DEF FrameOf

LEMMA FirstBytes ==
  ASSUME NEW S, NEW s \in Seq(S), NEW n \in 0 .. Len(s), S \subseteq Int
  PROVE  /\ SubSeq(s, 1, n) = [k \in 1 .. n |-> s[k]]
         /\ SubSeq(s, 1, n) \in [1 .. n -> Int]
  <1>1. /\ SubSeq(s, 1, n) \in Seq(S) /\ Len(SubSeq(s, 1, n)) = n
        /\ \A k \in 1 .. n : SubSeq(s, 1, n)[k] = s[k]
    <2>1. \A k \in 1 .. n : s[k] \in S
      BY SMT
    <2> QED
      BY <2>1, SubSeqProperties, SMT
  <1>2. \A k \in 1 .. n : s[k] \in Int
    <2>1. \A k \in 1 .. n : s[k] \in S
      BY SMT
    <2> QED
      BY <2>1
  <1> DEFINE b == SubSeq(s, 1, n)
  <1>3. b = [k \in 1 .. n |-> b[k]]
    BY <1>1, SMT
  <1>4. \A k \in 1 .. n : b[k] = s[k]
    BY <1>1
  <1> HIDE DEF b
  <1>5. b = [k \in 1 .. n |-> s[k]]
    BY <1>3, <1>4
  <1>6. b \in [1 .. n -> Int]
    BY <1>2, <1>5
  <1> QED
    BY <1>5, <1>6 DEF b

LEMMA EncodedFirst ==
  ASSUME NEW n \in Frames, NEW cp \in Nat
  PROVE  Encoded(cp, n)[1] \in Int
  <1>1. 1 \in 1 .. n /\ 0 .. 255 \subseteq Int
    BY SMT DEF Frames
  <1>2. Encoded(cp, n) \in [1 .. n -> 0 .. 255]
    BY EncodedIsChar
  <1> QED
    BY <1>1, <1>2

(* A decoded character: its frame, and that it is the encoder's. *)
LEMMA DecodedEncoded ==
  ASSUME NEW bytes \in Seq(0 .. 255), NEW n \in Frames, IsChar(bytes, n)
  PROVE  /\ Len(bytes) >= n /\ Codepoint(bytes, n) \in Nat
         /\ Encode(Codepoint(bytes, n), 6) = SubSeq(bytes, 1, n)
  <1> DEFINE cp == Codepoint(bytes, n)
  <1>1. /\ Len(bytes) >= n /\ Opens(bytes[1], n)
        /\ \A k \in 2 .. n : IsContinuation(bytes[k])
        /\ cp \in Least[n] .. Greatest[n] /\ IsValid(cp)
    BY DEF IsChar, IsCanonical
  <1>2. n \in 1 .. 6
    BY SMT DEF Frames
  <1>3. cp \in Nat
    BY <1>1, Tables, SMT
  <1> HIDE DEF cp
  <1>4. FrameOf(cp) = n
    BY <1>1, FrameOfIs
  <1>5. Encode(cp, 6) = Encoded(cp, n)
    BY <1>1, <1>2, <1>4, SMT DEF Encode
  <1> DEFINE b == SubSeq(bytes, 1, n)
             c == Encoded(cp, n)
  <1>6. /\ b = [k \in 1 .. n |-> bytes[k]]
        /\ b \in [1 .. n -> Int]
    <2>1. n \in 0 .. Len(bytes) /\ 0 .. 255 \subseteq Int
      BY <1>1, <1>2, SMT
    <2> QED
      BY <2>1, FirstBytes
  <1>7. /\ c \in [1 .. n -> Int] /\ \A k \in 2 .. n : IsContinuation(c[k])
    <2>1. c \in [1 .. n -> 0 .. 255]
      BY <1>3, EncodedIsChar
    <2>2. \A k \in 2 .. n : IsContinuation(c[k])
      BY <1>3, EncodedIsChar
    <2> HIDE DEF c
    <2>3. c \in [1 .. n -> Int]
      <3>1. 0 .. 255 \subseteq Int
        BY SMT
      <3> QED
        BY <2>1, <3>1
    <2> QED
      BY <2>2, <2>3
  <1>8. \A k \in 2 .. n : IsContinuation(b[k])
    BY <1>1, <1>2, <1>6, SMT
  <1>9. Codepoint(b, n) = cp
    <2>1. \A k \in 1 .. n : b[k] = bytes[k]
      BY <1>6
    <2>2. \A k \in 1 .. 6 : Carried(b, n, k) = Carried(bytes, n, k)
      BY <1>2, <2>1, SMT DEF Carried
    <2> QED
      BY <2>2, SMT DEF Codepoint, cp
  <1>10. Codepoint(c, n) = cp
    BY <1>1, EncodedValue
  <1> HIDE DEF b, c
  <1>11. \A k \in 1 .. n : b[k] = c[k]
    BY <1>6, <1>7, <1>8, <1>9, <1>10, SameBytes
  <1>12. b = c
    BY <1>6, <1>7, <1>11, SMT
  <1> QED
    BY <1>1, <1>3, <1>5, <1>12 DEF b, c, cp

-----------------------------------------------------------------------------
(* The decoder gives back every codepoint that the encoder accepts, from   *)
(* exactly the bytes it made (sutf8.c:3-52, 54-154).                        *)
THEOREM RoundTrip ==
  ASSUME NEW cp \in Nat, IsValid(cp)
  PROVE  Decode(Encode(cp, 6)) = [consumed |-> FrameOf(cp), cp |-> cp]
  <1>1. PICK n \in Frames : cp \in Least[n] .. Greatest[n]
    BY FrameExists
  <1>2. FrameOf(cp) = n
    BY <1>1, FrameOfIs
  <1> DEFINE bytes == Encoded(cp, n)
  <1>3. Encode(cp, 6) = bytes
    BY <1>2, SMT DEF Encode, Frames
  <1>4. IsChar(bytes, n)
    <2>1. /\ Len(bytes) = n /\ Opens(bytes[1], n)
          /\ \A k \in 2 .. n : IsContinuation(bytes[k])
      BY EncodedIsChar
    <2>2. IsCanonical(Codepoint(bytes, n), n)
      BY <1>1, EncodedValue DEF IsCanonical
    <2>3. n >= n
      BY SMT DEF Frames
    <2> QED
      BY <2>1, <2>2, <2>3 DEF IsChar
  <1>5. \A m \in Frames : IsChar(bytes, m) => m = n
    <2>1. bytes[1] \in Int
      BY <1>1, EncodedFirst
    <2> QED
      BY <1>4, <2>1, FramesDisjoint DEF IsChar
  <1>6. (CHOOSE m \in Frames : IsChar(bytes, m)) = n
    BY <1>4, <1>5
  <1>7. Codepoint(bytes, n) = cp
    BY <1>1, EncodedValue
  <1> HIDE DEF bytes
  <1> QED
    BY <1>2, <1>3, <1>4, <1>6, <1>7 DEF Decode

-----------------------------------------------------------------------------
(* Any bytes for a name, the loop about to start: what Init chooses, and    *)
(* whatever else the disk may hold.                                         *)
AnyName == /\ name \in Seq(0 .. 255)
           /\ i = 0 /\ out = <<>> /\ npc = "decode"
NameInv == name \in Seq(0 .. 255) /\ NameTypeOK

(* What is left of the name, and what is decoded there. *)
LEMMA DecodedHere ==
  ASSUME NEW s \in Seq(0 .. 255), NEW j \in Nat, j < Len(s)
  PROVE  LET rest == SubSeq(s, j + 1, Len(s))
             d    == Decode(rest)
         IN  /\ rest \in Seq(0 .. 255) /\ Len(rest) = Len(s) - j
             /\ d.consumed \in 0 .. Len(rest) /\ d.cp \in Nat
             /\ d.consumed > 0 => Encode(d.cp, 6) = SubSeq(rest, 1, d.consumed)
  <1> DEFINE rest == SubSeq(s, j + 1, Len(s))
             d    == Decode(rest)
  <1>1. rest \in Seq(0 .. 255) /\ Len(rest) = Len(s) - j
    <2>1. ASSUME NEW k \in j + 1 .. Len(s) PROVE s[k] \in 0 .. 255
      <3>1. k \in 1 .. Len(s)
        BY SMT
      <3> QED
        BY <3>1, ElementOfSeq
    <2> QED
      BY <2>1, SubSeqProperties, SMT
  <1> HIDE DEF rest
  <1>2. CASE \E n \in Frames : IsChar(rest, n)
    <2> DEFINE n == CHOOSE n \in Frames : IsChar(rest, n)
    <2>1. n \in Frames /\ IsChar(rest, n)
      BY <1>2
    <2>2. d = [consumed |-> n, cp |-> Codepoint(rest, n)]
      BY <1>2 DEF Decode
    <2> HIDE DEF n, d
    <2>3. /\ Len(rest) >= n /\ Codepoint(rest, n) \in Nat
          /\ Encode(Codepoint(rest, n), 6) = SubSeq(rest, 1, n)
      BY <1>1, <2>1, DecodedEncoded
    <2>4. n \in 0 .. Len(rest)
      BY <1>1, <2>1, <2>3, SMT DEF Frames
    <2>5. d.consumed = n /\ d.cp = Codepoint(rest, n)
      BY <2>2
    <2> QED
      BY <1>1, <2>3, <2>4, <2>5 DEF rest, d
  <1>3. CASE ~ \E n \in Frames : IsChar(rest, n)
    <2>1. d.consumed = 0 /\ d.cp = 2147483647
      BY <1>3 DEF Decode, Failed
    <2>2. 2147483647 \in Nat /\ 0 \in 0 .. Len(rest) /\ ~(0 > 0)
      BY <1>1, SMT
    <2> QED
      BY <1>1, <2>1, <2>2 DEF rest
  <1> QED
    BY <1>2, <1>3

LEMMA NameInvInit == AnyName => NameInv
  BY Sutf8Assumption, SMT DEF AnyName, NameInv, NameTypeOK

LEMMA NameInvNext == NameInv /\ [Next]_nameVars => NameInv'
  <1> SUFFICES ASSUME NameInv, [Next]_nameVars PROVE NameInv'
    OBVIOUS
  <1> USE DEF NameInv, NameTypeOK
  <1>1. CASE NameChar
    <2> DEFINE d == Decode(SubSeq(name, i + 1, Len(name)))
    <2>1. i < Len(name) /\ out' = Append(out, Shown(d)) /\ i' = i + Advance(d)
            /\ Len(out) < NAME_MAX - 1 /\ name' = name /\ npc' = npc
      BY <1>1 DEF NameChar, HasRoom
    <2>2. d.consumed \in 0 .. Len(name) - i /\ d.cp \in Nat
      BY <2>1, DecodedHere, SMT
    <2> HIDE DEF d
    <2>3. Shown(d) \in 0 .. 127
      <3>1. CASE d.consumed > 0 /\ d.cp <= 127
        <4>1. Shown(d) = d.cp
          BY <3>1 DEF Shown
        <4>2. \A cp \in Nat : cp <= 127 => cp \in 0 .. 127
          BY SMT
        <4> QED
          BY <2>2, <3>1, <4>1, <4>2
      <3>2. CASE ~(d.consumed > 0 /\ d.cp <= 127)
        <4>1. Shown(d) = 63
          BY <3>2 DEF Shown, Question
        <4> QED
          BY <4>1, SMT
      <3> QED
        BY <3>1, <3>2
    <2>4. i + Advance(d) \in 0 .. Len(name)
      BY <2>1, <2>2, SMT DEF Advance
    <2>5. out' \in Seq(0 .. 127) /\ Len(out') = Len(out) + 1
      BY <2>1, <2>3, SMT
    <2> QED
      BY <2>1, <2>4, <2>5, Sutf8Assumption, SMT
  <1>2. CASE NameEnd
    BY <1>2, SMT DEF NameEnd
  <1>3. CASE UNCHANGED nameVars
    BY <1>3 DEF nameVars
  <1> QED
    BY <1>1, <1>2, <1>3 DEF Next

(* Whatever the bytes of a name are, the loop that shows it reads inside    *)
(* the name and writes printable or control ASCII inside the buffer, with   *)
(* room for the end (owfs.c:90-110).                                        *)
THEOREM NameInBuffer == AnyName /\ [][Next]_nameVars => []NameTypeOK
  <1>1. NameInv => NameTypeOK
    BY DEF NameInv
  <1> QED
    BY <1>1, NameInvInit, NameInvNext, PTL

(* Whatever the bytes of a name are, what is decoded at any place of it is  *)
(* what the encoder makes of that codepoint: nothing overlong, nothing in   *)
(* the trap range (sutf8.c:54-154).                                         *)
THEOREM DecodedIsEncoded == AnyName /\ [][Next]_nameVars => []DecodesEncoded
  <1>1. NameInv => DecodesEncoded
    <2> SUFFICES ASSUME NameInv, i < Len(name) PROVE DecodesEncoded
      BY DEF DecodesEncoded
    <2>1. name \in Seq(0 .. 255) /\ i \in Nat
      BY SMT DEF NameInv, NameTypeOK
    <2> QED
      BY <2>1, DecodedHere DEF DecodesEncoded
  <1> QED
    BY <1>1, NameInvInit, NameInvNext, PTL

(* A text's bytes, character by character. *)
Made(f, cps) ==
  /\ f \in [0 .. Len(cps) -> Seq(0 .. 255)] /\ f[0] = <<>>
  /\ \A k \in 1 .. Len(cps) : f[k] = f[k - 1] \o Encode(cps[k], 6)

LEMMA EncodeIsBytes == ASSUME NEW cp \in Nat PROVE Encode(cp, 6) \in Seq(0 .. 255)
  <1>1. CASE IsValid(cp)
    <2>1. PICK n \in Frames : cp \in Least[n] .. Greatest[n]
      BY <1>1, FrameExists
    <2>2. FrameOf(cp) = n
      BY <2>1, FrameOfIs
    <2>3. Encoded(cp, n) \in Seq(0 .. 255)
      BY EncodedIsChar
    <2> QED
      BY <2>2, <2>3 DEF Encode
  <1>2. CASE ~IsValid(cp)
    BY <1>2 DEF Encode
  <1> QED
    BY <1>1, <1>2

LEMMA BytesMade ==
  ASSUME NEW cps \in Seq(Nat)
  PROVE  \E f : Made(f, cps) /\ BytesOf(cps) = f[Len(cps)]
  <1> DEFINE n == Len(cps)
             S == Seq(0 .. 255)
             step == [k \in 1 .. n |-> [s \in S |-> s \o Encode(cps[k], 6)]]
             IsBytes(f) == f = [k \in 0 .. n |-> IF k = 0 THEN <<>>
                                                 ELSE f[k - 1] \o Encode(cps[k], 6)]
  <1>1. n \in Nat /\ <<>> \in S
    OBVIOUS
  <1>2. ASSUME NEW k \in 1 .. n, NEW s \in S PROVE s \o Encode(cps[k], 6) \in S
    <2>1. cps[k] \in Nat
      OBVIOUS
    <2>2. Encode(cps[k], 6) \in S
      BY <2>1, EncodeIsBytes
    <2> QED
      BY <2>2
  <1>3. step \in [1 .. n -> [S -> S]]
    BY <1>2
  <1>4. \E f : Steps(f, n, <<>>, S, step)
    <2> HIDE DEF n, S, step
    <2> QED
      BY <1>1, <1>3, Iterated
  <1>5. PICK f : Steps(f, n, <<>>, S, step)
    BY <1>4
  <1>6. f \in [0 .. n -> S] /\ f[0] = <<>>
    BY <1>5 DEF Steps
  <1>7. \A k \in 1 .. n : f[k - 1] \in S /\ f[k] = f[k - 1] \o Encode(cps[k], 6)
    <2> TAKE k \in 1 .. n
    <2>1. f[k - 1] \in S
      BY <1>6
    <2>2. f[k] = step[k][f[k - 1]]
      BY <1>5 DEF Steps
    <2> QED
      BY <2>1, <2>2
  <1>8. IsBytes(f)
    BY <1>6, <1>7
  <1> DEFINE g == CHOOSE g : IsBytes(g)
  <1>9. IsBytes(g)
    BY <1>8
  <1>10. BytesOf(cps) = g[n]
    BY DEF BytesOf
  <1> HIDE DEF g
  <1>11. g[0] = <<>> /\ \A k \in 1 .. n : g[k] = g[k - 1] \o Encode(cps[k], 6)
    BY <1>9
  <1>12. \A k \in 0 .. n : g[k] \in S
    <2> DEFINE Good == {k \in 0 .. n : g[k] \in S}
    <2>1. 0 \in Good
      <3>1. g[0] \in S /\ 0 \in 0 .. n
        <4> HIDE DEF S, n
        <4> QED
          BY <1>1, <1>11
      <3> QED
        BY <3>1
    <2>2. ASSUME NEW k \in 1 .. n, k - 1 \in Good PROVE k \in Good
      <3>1. g[k - 1] \in S
        BY <2>2
      <3>2. g[k] \in S
        <4> HIDE DEF S, n
        <4> QED
          BY <1>2, <1>11, <3>1
      <3> QED
        BY <3>2
    <2>3. \A k \in 0 .. n : k \in Good
      <3> HIDE DEF Good, n
      <3> QED
        BY <1>1, <2>1, <2>2, Upwards
    <2> QED
      BY <2>3
  <1>13. g \in [0 .. n -> S]
    BY <1>9, <1>12
  <1> QED
    BY <1>10, <1>11, <1>13 DEF Made

(* The first characters of a text make the first bytes. *)
LEMMA MadeOfFirst ==
  ASSUME NEW cps \in Seq(Nat), NEW c \in 0 .. Len(cps), NEW f, Made(f, cps)
  PROVE  BytesOf(SubSeq(cps, 1, c)) = f[c]
  <1> DEFINE first == SubSeq(cps, 1, c)
  <1>1. first \in Seq(Nat) /\ Len(first) = c /\ \A k \in 1 .. c : first[k] = cps[k]
    OBVIOUS
  <1>2. c \in Nat /\ Len(cps) \in Nat /\ c <= Len(cps)
    OBVIOUS
  <1> HIDE DEF first
  <1>3. PICK g : Made(g, first) /\ BytesOf(first) = g[c]
    BY <1>1, BytesMade
  <1> DEFINE Good == {k \in 0 .. c : g[k] = f[k]}
  <1>4. 0 \in Good
    <2>1. g[0] = f[0]
      BY <1>3 DEF Made
    <2> QED
      BY <1>2, <2>1
  <1>5. ASSUME NEW k \in 1 .. c, k - 1 \in Good PROVE k \in Good
    <2>1. g[k] = g[k - 1] \o Encode(cps[k], 6)
      BY <1>1, <1>3 DEF Made
    <2>2. f[k] = f[k - 1] \o Encode(cps[k], 6)
      <3>1. k \in 1 .. Len(cps)
        BY <1>2
      <3> QED
        BY <3>1, Zenon DEF Made
    <2>3. g[k - 1] = f[k - 1] /\ k \in 0 .. c
      BY <1>5
    <2> QED
      BY <2>1, <2>2, <2>3
  <1>6. c \in Good
    <2> HIDE DEF Good
    <2>1. \A k \in 0 .. c : k \in Good
      BY <1>2, <1>4, <1>5, Upwards
    <2> QED
      BY <1>2, <2>1
  <1> QED
    BY <1>3, <1>6 DEF first

LEMMA Appended ==
  ASSUME NEW s \in Seq(0 .. 255), NEW t \in Seq(0 .. 255)
  PROVE  /\ s \o t \in Seq(0 .. 255) /\ Len(s \o t) = Len(s) + Len(t)
         /\ \A j \in 1 .. Len(s) : (s \o t)[j] = s[j]
         /\ \A j \in 1 .. Len(t) : (s \o t)[Len(s) + j] = t[j]
  OBVIOUS

(* The bytes of a character are where the bytes before it end. *)
LEMMA BytesOfChar ==
  ASSUME NEW cps \in Seq(Nat), NEW f, Made(f, cps), NEW k \in 1 .. Len(cps)
  PROVE  LET bytes == BytesOf(cps)
             char  == Encode(cps[k], 6)
         IN  /\ Len(f[k]) = Len(f[k - 1]) + Len(char) /\ Len(f[k]) <= Len(bytes)
             /\ \A j \in 1 .. Len(char) : bytes[Len(f[k - 1]) + j] = char[j]
  <1> DEFINE n == Len(cps)
             char == Encode(cps[k], 6)
             Good == {m \in 0 .. n : m >= k =>
                        /\ Len(f[k]) <= Len(f[m])
                        /\ \A j \in 1 .. Len(char) : f[m][Len(f[k - 1]) + j] = char[j]}
  <1>1. n \in Nat /\ k \in 1 .. n /\ cps[k] \in Nat /\ k - 1 \in 0 .. n /\ k \in 0 .. n
    OBVIOUS
  <1>2. char \in Seq(0 .. 255) /\ \A m \in 0 .. n : f[m] \in Seq(0 .. 255)
    BY <1>1, EncodeIsBytes DEF Made
  <1>3. /\ Len(f[k - 1]) \in Nat /\ Len(char) \in Nat /\ Len(f[k]) = Len(f[k - 1]) + Len(char)
        /\ \A j \in 1 .. Len(char) : f[k][Len(f[k - 1]) + j] = char[j]
    <2>1. f[k - 1] \in Seq(0 .. 255)
      BY <1>1, <1>2
    <2>2. f[k] = f[k - 1] \o char
      BY DEF Made
    <2> HIDE DEF char
    <2> QED
      BY <1>2, <2>1, <2>2, Appended
  <1> HIDE DEF char, n
  <1>4. 0 \in Good
    BY <1>1
  <1>5. ASSUME NEW m \in 1 .. n, m - 1 \in Good PROVE m \in Good
    <2>1. CASE m < k
      BY <2>1
    <2>2. CASE m = k
      <3>1. Len(f[k]) \in Nat
        BY <1>3
      <3> QED
        BY <1>3, <2>2, <3>1
    <2>3. CASE m > k
      <3>1. m - 1 >= k /\ m - 1 \in 0 .. n /\ m \in 0 .. n
        BY <1>1, <2>3
      <3>2. /\ Len(f[k]) <= Len(f[m - 1])
            /\ \A j \in 1 .. Len(char) : f[m - 1][Len(f[k - 1]) + j] = char[j]
        BY <1>5, <3>1
      <3>3. f[m] = f[m - 1] \o Encode(cps[m], 6)
        BY Zenon DEF Made, n
      <3> DEFINE p == f[m - 1]
                 e == Encode(cps[m], 6)
      <3>4. p \in Seq(0 .. 255) /\ e \in Seq(0 .. 255)
        <4>1. cps[m] \in Nat
          BY DEF n
        <4> QED
          BY <1>2, <3>1, <4>1, EncodeIsBytes
      <3>5. /\ Len(f[m]) = Len(p) + Len(e) /\ Len(p) \in Nat /\ Len(e) \in Nat
            /\ \A j \in 1 .. Len(p) : f[m][j] = p[j]
        <4> HIDE DEF p, e
        <4>1. f[m] = p \o e
          BY <3>3 DEF p, e
        <4> QED
          BY <3>4, <4>1, Appended
      <3>6. /\ Len(f[k]) <= Len(p) /\ Len(f[k]) \in Nat
            /\ \A j \in 1 .. Len(char) : p[Len(f[k - 1]) + j] = char[j]
        BY <1>3, <3>2
      <3> HIDE DEF p, e
      <3>7. Len(f[k]) <= Len(f[m])
        BY <3>5, <3>6, SMT
      <3>8. ASSUME NEW j \in 1 .. Len(char) PROVE f[m][Len(f[k - 1]) + j] = char[j]
        <4>1. Len(f[k - 1]) + j <= Len(f[k]) /\ Len(f[k - 1]) + j >= 1
              /\ Len(f[k - 1]) + j \in Int
          BY <1>3
        <4>2. Len(f[k - 1]) + j \in 1 .. Len(p)
          BY <3>5, <3>6, <4>1
        <4> QED
          BY <3>5, <3>6, <4>2
      <3> QED
        BY <3>1, <3>7, <3>8
    <2> QED
      BY <1>1, <2>1, <2>2, <2>3
  <1>6. n \in Good
    <2> HIDE DEF Good
    <2>1. \A m \in 0 .. n : m \in Good
      BY <1>1, <1>4, <1>5, Upwards
    <2> QED
      BY <1>1, <2>1
  <1>7. BytesOf(cps) = f[n]
    <2>1. SubSeq(cps, 1, n) = cps /\ n \in 0 .. Len(cps)
      BY DEF n
    <2> QED
      BY <2>1, MadeOfFirst
  <1>8. k <= n
    BY <1>1
  <1> QED
    BY <1>1, <1>3, <1>6, <1>7, <1>8, Zenon DEF char

LEMMA SomeFirstBytes ==
  ASSUME NEW s \in Seq(0 .. 255), NEW n \in 0 .. Len(s)
  PROVE  SubSeq(s, 1, n) \in Seq(0 .. 255) /\ Len(SubSeq(s, 1, n)) = n
  <1>1. \A k \in 1 .. n : s[k] \in 0 .. 255
    <2>1. Len(s) \in Nat
      BY LenProperties
    <2>2. \A k \in 1 .. n : k \in 1 .. Len(s)
      BY <2>1
    <2> QED
      BY <2>2, ElementOfSeq
  <1>2. n >= 1 - 1 /\ n \in Int /\ 1 \in 1 .. Len(s) + 1
    BY LenProperties
  <1> QED
    BY <1>1, SubSeqProperties
LEMMA OneByteChanged ==
  ASSUME NEW s \in Seq(0 .. 255), NEW p, NEW byte \in 0 .. 255
  PROVE  [s EXCEPT ![p] = byte] \in Seq(0 .. 255) /\ Len([s EXCEPT ![p] = byte]) = Len(s)
  <1> DEFINE n == Len(s)
             t == [s EXCEPT ![p] = byte]
  <1>1. n \in Nat /\ s \in [1 .. n -> 0 .. 255]
    BY LenProperties
  <1>2. t \in [1 .. n -> 0 .. 255]
    <2> HIDE DEF n
    <2> QED
      BY <1>1
  <1> HIDE DEF n, t
  <1>3. t \in Seq(0 .. 255) /\ Len(t) = n
    BY <1>1, <1>2, SequenceOf
  <1> QED
    BY <1>3 DEF n, t

LEMMA InitAnyName == Init => AnyName
  <1> SUFFICES ASSUME Init PROVE AnyName
    OBVIOUS
  <1> DEFINE bytes == BytesOf(text)
             before(c) == Len(BytesOf(SubSeq(text, 1, c)))
  <1>1. text \in Seq(Nat)
    <2>1. \A s \in Seq({cp \in Nat : IsValid(cp)}) : s \in Seq(Nat)
      OBVIOUS
    <2>2. text \in Texts
      BY DEF Init
    <2> QED
      BY <2>1, <2>2, Sutf8Assumption
  <1>2. PICK f : Made(f, text) /\ bytes = f[Len(text)]
    BY <1>1, BytesMade
  <1>3. bytes \in Seq(0 .. 255)
    <2>1. Len(text) \in 0 .. Len(text)
      BY <1>1
    <2> QED
      BY <1>2, <2>1 DEF Made
  <1>4. \/ name = bytes
        \/ \E c \in 1 .. Len(text) : \E p \in before(c - 1) + 1 .. before(c) :
             \/ name = SubSeq(bytes, 1, p - 1)
             \/ \E byte \in Damage : name = [bytes EXCEPT ![p] = byte]
    BY Zenon DEF Init
  <1>5. ASSUME NEW c \in 1 .. Len(text), NEW p \in before(c - 1) + 1 .. before(c)
        PROVE  p - 1 \in 0 .. Len(bytes)
    <2>1. c - 1 \in 0 .. Len(text) /\ c \in 0 .. Len(text)
      BY <1>1
    <2>2. before(c - 1) = Len(f[c - 1]) /\ before(c) = Len(f[c])
      BY <1>1, <1>2, <2>1, MadeOfFirst
    <2>3. Len(f[c]) <= Len(bytes)
      BY <1>1, <1>2, BytesOfChar
    <2>4. Len(f[c - 1]) \in Nat /\ Len(f[c]) \in Nat /\ Len(bytes) \in Nat
      BY <1>2, <1>3, <2>1 DEF Made
    <2> HIDE DEF bytes, before
    <2> QED
      BY <2>2, <2>3, <2>4
  <1> HIDE DEF bytes, before
  <1>6. name \in Seq(0 .. 255)
    <2>1. ASSUME NEW c \in 1 .. Len(text), NEW p \in before(c - 1) + 1 .. before(c),
                 name = SubSeq(bytes, 1, p - 1)
          PROVE  name \in Seq(0 .. 255)
      BY <1>3, <1>5, <2>1, SomeFirstBytes
    <2>2. ASSUME NEW p, NEW byte \in Damage, name = [bytes EXCEPT ![p] = byte]
          PROVE  name \in Seq(0 .. 255)
      <3>1. byte \in 0 .. 255
        BY Sutf8Assumption
      <3> QED
        BY <1>3, <2>2, <3>1, OneByteChanged
    <2> QED
      BY <1>3, <1>4, <2>1, <2>2
  <1> QED
    BY <1>6, Zenon DEF Init, AnyName

(* On any name the encoder made of a text, whole, cut or damaged, the loop  *)
(* stays in the name and in the buffer, and what it decodes is what the     *)
(* encoder makes of that codepoint (owfs.c:90-110, sutf8.c:54-154).         *)
THEOREM NamesDecoded == Spec => [](NameTypeOK /\ DecodesEncoded)
  BY InitAnyName, NameInBuffer, DecodedIsEncoded, PTL DEF Spec

(* A character's bytes: how many they are, and that the first of them is    *)
(* told from the others.                                                    *)
LEMMA ValidChar ==
  ASSUME NEW cp \in Nat, IsValid(cp)
  PROVE  /\ FrameOf(cp) \in Frames /\ cp \in Least[FrameOf(cp)] .. Greatest[FrameOf(cp)]
         /\ Encode(cp, 6) = Encoded(cp, FrameOf(cp))
         /\ Encode(cp, 6) \in Seq(0 .. 255) /\ Len(Encode(cp, 6)) = FrameOf(cp)
         /\ Opens(Encode(cp, 6)[1], FrameOf(cp))
         /\ \A k \in 2 .. FrameOf(cp) : IsContinuation(Encode(cp, 6)[k])
         /\ Codepoint(Encode(cp, 6), FrameOf(cp)) = cp
  <1>1. PICK n \in Frames : cp \in Least[n] .. Greatest[n]
    BY FrameExists
  <1>2. FrameOf(cp) = n
    BY <1>1, FrameOfIs
  <1>3. n <= 6
    BY SMT DEF Frames
  <1>4. Encode(cp, 6) = Encoded(cp, n)
    BY <1>2, <1>3 DEF Encode
  <1>5. Codepoint(Encoded(cp, n), n) = cp
    BY <1>1, EncodedValue
  <1> QED
    BY <1>1, <1>2, <1>4, <1>5, EncodedIsChar

LEMMA NoContinuationOpens ==
  ASSUME NEW n \in Frames, NEW byte \in Int, Opens(byte, n)
  PROVE  ~IsContinuation(byte)
  BY SMT DEF Frames, Opens, Lead, Capacity, IsContinuation

LEMMA SameCodepoint ==
  ASSUME NEW n \in Frames, NEW b, NEW c, \A k \in 1 .. n : b[k] = c[k]
  PROVE  Codepoint(b, n) = Codepoint(c, n)
  <1>1. ASSUME NEW k \in 1 .. 6 PROVE Carried(b, n, k) = Carried(c, n, k)
    <2>1. k > n \/ k \in 1 .. n
      BY SMT DEF Frames
    <2>2. k \in 1 .. n /\ k = 1 => b[1] = c[1]
      OBVIOUS
    <2> QED
      BY <2>1, <2>2 DEF Carried
  <1>2. 1 \in 1 .. 6 /\ 2 \in 1 .. 6 /\ 3 \in 1 .. 6 /\ 4 \in 1 .. 6 /\ 5 \in 1 .. 6 /\ 6 \in 1 .. 6
    BY SMT
  <1> QED
    BY <1>1, <1>2, Zenon DEF Codepoint

(* A character is decoded whatever is behind it. *)
LEMMA DecodedWhole ==
  ASSUME NEW cp \in Nat, IsValid(cp), NEW bytes \in Seq(0 .. 255),
         Len(bytes) >= FrameOf(cp), \A k \in 1 .. FrameOf(cp) : bytes[k] = Encode(cp, 6)[k]
  PROVE  Decode(bytes) = [consumed |-> FrameOf(cp), cp |-> cp]
  <1> DEFINE n == FrameOf(cp)
             char == Encode(cp, 6)
  <1>1. /\ n \in Frames /\ cp \in Least[n] .. Greatest[n]
        /\ Opens(char[1], n) /\ \A k \in 2 .. n : IsContinuation(char[k])
        /\ Codepoint(char, n) = cp
    BY ValidChar
  <1>2. Len(bytes) >= n /\ \A k \in 1 .. n : bytes[k] = char[k]
    OBVIOUS
  <1> HIDE DEF n, char
  <1>3. 1 \in 1 .. n /\ \A k \in 2 .. n : k \in 1 .. n
    BY <1>1, SMT DEF Frames
  <1>4. Opens(bytes[1], n) /\ \A k \in 2 .. n : IsContinuation(bytes[k])
    BY <1>1, <1>2, <1>3, Zenon
  <1>5. Codepoint(bytes, n) = cp
    BY <1>1, <1>2, SameCodepoint
  <1>6. IsChar(bytes, n)
    BY <1>1, <1>2, <1>4, <1>5 DEF IsChar, IsCanonical
  <1>7. ASSUME NEW m \in Frames, IsChar(bytes, m) PROVE m = n
    <2>1. bytes[1] \in Int
      <3>1. 1 \in 1 .. Len(bytes)
        <4>1. n \in Int /\ n >= 1
          BY <1>1, SMT DEF Frames
        <4>2. Len(bytes) \in Nat
          BY LenProperties
        <4> QED
          BY <1>2, <4>1, <4>2
      <3>2. bytes[1] \in 0 .. 255
        BY <3>1, ElementOfSeq, Zenon
      <3>3. \A b \in 0 .. 255 : b \in Int
        BY SMT
      <3> QED
        BY <3>2, <3>3, Zenon
    <2>2. Opens(bytes[1], m)
      BY <1>7 DEF IsChar
    <2> QED
      BY <1>1, <1>4, <2>1, <2>2, FramesDisjoint
  <1>8. (CHOOSE m \in Frames : IsChar(bytes, m)) = n
    BY <1>1, <1>6, <1>7, Zenon
  <1>9. Decode(bytes) = [consumed |-> n, cp |-> Codepoint(bytes, n)]
    BY <1>1, <1>6, <1>8 DEF Decode
  <1> QED
    BY <1>5, <1>9 DEF n

-----------------------------------------------------------------------------
(* Where the characters of a text start. *)
Start(cps, c) == Len(BytesOf(SubSeq(cps, 1, c)))
Valid == {cp \in Nat : IsValid(cp)}

LEMMA StartIs ==
  ASSUME NEW cps \in Seq(Valid)
  PROVE  /\ Start(cps, 0) = 0 /\ Start(cps, Len(cps)) = Len(BytesOf(cps))
         /\ BytesOf(cps) \in Seq(0 .. 255)
         /\ \A k \in 0 .. Len(cps) : Start(cps, k) \in Nat /\ Start(cps, k) <= Len(BytesOf(cps))
         /\ \A k \in 1 .. Len(cps) :
              /\ Start(cps, k) = Start(cps, k - 1) + FrameOf(cps[k])
              /\ \A j \in 1 .. FrameOf(cps[k]) :
                   BytesOf(cps)[Start(cps, k - 1) + j] = Encode(cps[k], 6)[j]
  <1> DEFINE n == Len(cps)
  <1>1. cps \in Seq(Nat) /\ n \in Nat /\ \A k \in 1 .. n : cps[k] \in Nat /\ IsValid(cps[k])
    BY DEF Valid
  <1>2. PICK f : Made(f, cps) /\ BytesOf(cps) = f[n]
    BY <1>1, BytesMade
  <1>3. \A k \in 0 .. n : BytesOf(SubSeq(cps, 1, k)) = f[k] /\ f[k] \in Seq(0 .. 255)
    BY <1>1, <1>2, MadeOfFirst DEF Made
  <1>4. \A k \in 0 .. n : Start(cps, k) = Len(f[k]) /\ Len(f[k]) \in Nat
    BY <1>3, LenProperties DEF Start
  <1> HIDE DEF n
  <1>5. 0 \in 0 .. n /\ n \in 0 .. n /\ \A k \in 1 .. n : k \in 0 .. n /\ k - 1 \in 0 .. n
    BY <1>1
  <1>6. f[0] = <<>> /\ Len(<<>>) = 0
    BY <1>2 DEF Made
  <1>7. ASSUME NEW k \in 1 .. n
        PROVE  /\ Len(f[k]) = Len(f[k - 1]) + FrameOf(cps[k]) /\ Len(f[k]) <= Len(BytesOf(cps))
               /\ \A j \in 1 .. FrameOf(cps[k]) :
                    BytesOf(cps)[Len(f[k - 1]) + j] = Encode(cps[k], 6)[j]
    <2>1. cps[k] \in Nat /\ IsValid(cps[k]) /\ k \in 1 .. Len(cps)
      BY <1>1 DEF n
    <2>2. Len(Encode(cps[k], 6)) = FrameOf(cps[k])
      BY <2>1, ValidChar
    <2>3. /\ Len(f[k]) = Len(f[k - 1]) + Len(Encode(cps[k], 6))
          /\ Len(f[k]) <= Len(BytesOf(cps))
          /\ \A j \in 1 .. Len(Encode(cps[k], 6)) :
               BytesOf(cps)[Len(f[k - 1]) + j] = Encode(cps[k], 6)[j]
      BY <1>1, <1>2, <2>1, BytesOfChar
    <2> QED
      BY <2>2, <2>3
  <1>8. \A k \in 0 .. n : Len(f[k]) <= Len(BytesOf(cps))
    <2>1. \A k \in 0 .. n : k = 0 \/ k \in 1 .. n
      BY <1>1
    <2>2. Len(f[0]) = 0 /\ Len(BytesOf(cps)) \in Nat
      BY <1>2, <1>4, <1>5, <1>6
    <2>3. Len(f[0]) <= Len(BytesOf(cps))
      BY <2>2
    <2> QED
      BY <1>7, <2>1, <2>3
  <1>9. Start(cps, 0) = 0 /\ Start(cps, n) = Len(BytesOf(cps)) /\ BytesOf(cps) \in Seq(0 .. 255)
    BY <1>2, <1>3, <1>4, <1>5, <1>6
  <1>10. \A k \in 0 .. n : Start(cps, k) \in Nat /\ Start(cps, k) <= Len(BytesOf(cps))
    BY <1>4, <1>8
  <1>11. \A k \in 1 .. n :
           /\ Start(cps, k) = Start(cps, k - 1) + FrameOf(cps[k])
           /\ \A j \in 1 .. FrameOf(cps[k]) :
                BytesOf(cps)[Start(cps, k - 1) + j] = Encode(cps[k], 6)[j]
    <2> TAKE k \in 1 .. n
    <2>1. Start(cps, k) = Len(f[k]) /\ Start(cps, k - 1) = Len(f[k - 1])
      BY <1>4, <1>5
    <2> QED
      BY <1>7, <2>1
  <1> QED
    BY <1>9, <1>10, <1>11 DEF n

LEMMA StartGrows ==
  ASSUME NEW cps \in Seq(Valid), NEW j \in 0 .. Len(cps), NEW k \in 0 .. Len(cps), j < k
  PROVE  Start(cps, j) < Start(cps, k)
  <1> DEFINE n == Len(cps)
             Good == {m \in 0 .. n : j < m => Start(cps, j) < Start(cps, m)}
  <1>1. n \in Nat /\ j \in 0 .. n /\ k \in 0 .. n
    BY LenProperties
  <1>2. \A m \in 0 .. n : Start(cps, m) \in Nat
    BY StartIs
  <1>3. ASSUME NEW m \in 1 .. n PROVE Start(cps, m - 1) < Start(cps, m)
    <2>1. cps[m] \in Nat /\ IsValid(cps[m])
      <3>1. cps[m] \in Valid
        BY ElementOfSeq
      <3> QED
        BY <3>1 DEF Valid
    <2>2. FrameOf(cps[m]) \in Nat \ {0}
      <3>1. FrameOf(cps[m]) \in Frames
        BY <2>1, ValidChar
      <3> QED
        BY <3>1, SMT DEF Frames
    <2>3. Start(cps, m) = Start(cps, m - 1) + FrameOf(cps[m])
      BY StartIs
    <2>4. m - 1 \in 0 .. n
      BY <1>1
    <2> QED
      BY <1>2, <2>2, <2>3, <2>4
  <1> HIDE DEF n
  <1>4. 0 \in Good
    BY <1>1
  <1>5. ASSUME NEW m \in 1 .. n, m - 1 \in Good PROVE m \in Good
    <2>1. m \in 0 .. n /\ m - 1 \in 0 .. n
      BY <1>1
    <2>2. j < m => j < m - 1 \/ j = m - 1
      BY <1>1
    <2>3. Start(cps, m - 1) < Start(cps, m) /\ Start(cps, m - 1) \in Nat /\ Start(cps, m) \in Nat
           /\ Start(cps, j) \in Nat
      BY <1>1, <1>2, <1>3, <2>1
    <2> QED
      BY <1>5, <2>1, <2>2, <2>3
  <1>6. \A m \in 0 .. n : m \in Good
    <2> HIDE DEF Good
    <2> QED
      BY <1>1, <1>4, <1>5, Upwards
  <1> QED
    BY <1>1, <1>6

-----------------------------------------------------------------------------
(* The name that is decoded: the characters in front of the damage are the  *)
(* encoder's, and those behind it when the name is not cut.                 *)
LastIntact == IF hit = 0 THEN Len(text) ELSE hit - 1
IsCut == hit > 0 /\ Len(name) < Len(BytesOf(text))

Whole(k) ==
  /\ Start(text, k) <= Len(name)
  /\ \A j \in 1 .. FrameOf(text[k]) : name[Start(text, k - 1) + j] = Encode(text[k], 6)[j]

NameMade ==
  /\ text \in Seq(Valid) /\ hit \in 0 .. Len(text) /\ name \in Seq(0 .. 255)
  /\ Start(text, LastIntact) <= Len(name)
  /\ \A k \in 1 .. LastIntact : Whole(k)
  /\ ~IsCut => /\ Len(name) = Len(BytesOf(text))
               /\ hit > 0 => \A k \in hit + 1 .. Len(text) : Whole(k)

LEMMA InitNameMade == Init => NameMade
  <1> SUFFICES ASSUME Init PROVE NameMade
    OBVIOUS
  <1> DEFINE bytes == BytesOf(text)
             n == Len(text)
  <1>1. text \in Seq(Valid)
    BY Sutf8Assumption DEF Init, Valid
  <1>2. n \in Nat /\ bytes \in Seq(0 .. 255) /\ Len(bytes) \in Nat
    BY <1>1, StartIs, LenProperties
  <1>3. /\ Start(text, n) = Len(bytes)
        /\ \A k \in 0 .. n : Start(text, k) \in Nat /\ Start(text, k) <= Len(bytes)
        /\ \A k \in 1 .. n :
             /\ Start(text, k) = Start(text, k - 1) + FrameOf(text[k])
             /\ \A j \in 1 .. FrameOf(text[k]) :
                  bytes[Start(text, k - 1) + j] = Encode(text[k], 6)[j]
    BY <1>1, StartIs
  <1>4. name \in Seq(0 .. 255)
    BY InitAnyName DEF AnyName
  <1>5. \/ hit = 0 /\ name = bytes
        \/ \E c \in 1 .. n : \E p \in Start(text, c - 1) + 1 .. Start(text, c) :
             /\ hit = c
             /\ \/ name = SubSeq(bytes, 1, p - 1)
                \/ \E byte \in Damage : name = [bytes EXCEPT ![p] = byte]
    BY Zenon DEF Init, Start
  <1> HIDE DEF bytes, n
  <1>6. CASE hit = 0 /\ name = bytes
    <2>1. LastIntact = n /\ ~IsCut /\ n \in 0 .. n /\ hit \in 0 .. n /\ ~(hit > 0)
      BY <1>2, <1>6 DEF LastIntact, IsCut, bytes, n
    <2>2. \A k \in 1 .. n : k \in 0 .. n
      BY <1>2
    <2>3. \A k \in 1 .. n : Whole(k)
      BY <1>3, <1>6, <2>2, Zenon DEF Whole
    <2>4. Start(text, n) <= Len(name)
      BY <1>2, <1>3, <1>6
    <2> QED
      BY <1>1, <1>4, <1>6, <2>1, <2>3, <2>4 DEF NameMade, bytes, n
  <1>7. ASSUME NEW c \in 1 .. n, NEW p \in Start(text, c - 1) + 1 .. Start(text, c), hit = c,
               NEW m, Len(name) = m, m \in p - 1 .. Len(bytes),
               \A q \in 1 .. m : q # p => name[q] = bytes[q]
        PROVE  /\ LastIntact = c - 1 /\ Start(text, c - 1) <= Len(name)
               /\ \A k \in 1 .. c - 1 : Whole(k)
               /\ m = Len(bytes) => \A k \in c + 1 .. n : Whole(k)
    <2>1. LastIntact = c - 1
      BY <1>2, <1>7 DEF LastIntact
    <2>2. c - 1 \in 0 .. n /\ c \in 0 .. n /\ Start(text, c - 1) \in Nat /\ Start(text, c) \in Nat
      BY <1>2, <1>3
    <2>3. Start(text, c - 1) <= p - 1 /\ p <= Start(text, c) /\ p \in Int /\ m \in Int /\ p - 1 <= m
      BY <1>2, <1>7, <2>2
    <2>4. ASSUME NEW k \in 1 .. n, Start(text, k) <= m,
                 Start(text, k) < p \/ p <= Start(text, k - 1)
          PROVE  Whole(k)
      <3>1. /\ Start(text, k) \in Nat /\ Start(text, k - 1) \in Nat
            /\ Start(text, k) = Start(text, k - 1) + FrameOf(text[k])
        BY <1>2, <1>3
      <3>2. FrameOf(text[k]) \in Int
        BY <1>1, ElementOfSeq, ValidChar, SMT DEF Valid, Frames, n
      <3>3. ASSUME NEW j \in 1 .. FrameOf(text[k])
            PROVE  name[Start(text, k - 1) + j] = Encode(text[k], 6)[j]
        <4>1. Start(text, k - 1) + j \in 1 .. m /\ Start(text, k - 1) + j # p
          BY <2>3, <2>4, <3>1, <3>2
        <4> QED
          BY <1>3, <1>7, <4>1
      <3> QED
        BY <1>7, <2>4, <3>3 DEF Whole
    <2>5. ASSUME NEW k \in 1 .. c - 1 PROVE Whole(k)
      <3>1. k \in 1 .. n /\ k \in 0 .. n
        BY <1>2
      <3>2. Start(text, k) <= Start(text, c - 1)
        <4>1. k = c - 1 \/ k < c - 1
          OBVIOUS
        <4>2. k < c - 1 => Start(text, k) < Start(text, c - 1)
          BY <1>1, <2>2, <3>1, StartGrows DEF n
        <4>3. Start(text, k) \in Nat
          BY <1>3, <3>1
        <4> QED
          BY <2>2, <4>1, <4>2, <4>3
      <3>3. Start(text, k) \in Nat
        BY <1>3, <3>1
      <3>4. Start(text, k) <= m /\ Start(text, k) < p
        BY <2>2, <2>3, <3>2, <3>3
      <3> QED
        BY <2>4, <3>1, <3>4
    <2>6. ASSUME m = Len(bytes), NEW k \in c + 1 .. n PROVE Whole(k)
      <3>1. k \in 1 .. n /\ k \in 0 .. n /\ k - 1 \in 0 .. n
        BY <1>2
      <3>2. Start(text, k) <= m
        BY <1>3, <2>6, <3>1
      <3>3. Start(text, c) <= Start(text, k - 1)
        <4>1. k - 1 = c \/ c < k - 1
          BY <1>2
        <4>2. c < k - 1 => Start(text, c) < Start(text, k - 1)
          BY <1>1, <2>2, <3>1, StartGrows DEF n
        <4>3. Start(text, k - 1) \in Nat
          BY <1>3, <3>1
        <4> QED
          BY <2>2, <4>1, <4>2, <4>3
      <3>4. Start(text, k - 1) \in Nat
        BY <1>3, <3>1
      <3>5. p <= Start(text, k - 1)
        BY <2>2, <2>3, <3>3, <3>4
      <3> QED
        BY <2>4, <3>1, <3>2, <3>5
    <2>7. Start(text, c - 1) <= Len(name)
      BY <1>7, <2>2, <2>3
    <2> QED
      BY <2>1, <2>5, <2>6, <2>7
  <1>8. ASSUME NEW c \in 1 .. n, NEW p \in Start(text, c - 1) + 1 .. Start(text, c), hit = c,
               \/ name = SubSeq(bytes, 1, p - 1)
               \/ \E byte \in Damage : name = [bytes EXCEPT ![p] = byte]
        PROVE  NameMade
    <2>1. c - 1 \in 0 .. n /\ c \in 0 .. n
      BY <1>2
    <2>2. p - 1 \in 0 .. Len(bytes) /\ p \in 1 .. Len(bytes)
      BY <1>2, <1>3, <2>1
    <2>3. hit \in 0 .. n /\ hit > 0
      BY <1>2, <1>8
    <2>4. CASE name = SubSeq(bytes, 1, p - 1)
      <3>1. Len(name) = p - 1 /\ \A q \in 1 .. p - 1 : name[q] = bytes[q]
        <4>1. name = [k \in 1 .. p - 1 |-> bytes[k]]
          <5>1. 0 .. 255 \subseteq Int
            BY SMT
          <5> QED
            BY <1>2, <2>2, <2>4, <5>1, FirstBytes
        <4>2. Len(name) = p - 1
          BY <1>2, <2>2, <2>4, SomeFirstBytes
        <4> QED
          BY <4>1, <4>2
      <3>2. p - 1 \in p - 1 .. Len(bytes) /\ p - 1 < Len(bytes)
        BY <1>2, <2>2
      <3>3. /\ LastIntact = c - 1 /\ Start(text, c - 1) <= Len(name)
            /\ \A k \in 1 .. c - 1 : Whole(k)
        BY <1>7, <1>8, <3>1, <3>2
      <3>4. IsCut
        BY <2>3, <3>1, <3>2 DEF IsCut, bytes
      <3> QED
        BY <1>1, <1>4, <2>3, <3>3, <3>4 DEF NameMade, n
    <2>5. ASSUME NEW byte \in Damage, name = [bytes EXCEPT ![p] = byte] PROVE NameMade
      <3>1. Len(name) = Len(bytes) /\ \A q \in 1 .. Len(bytes) : q # p => name[q] = bytes[q]
        <4>1. byte \in 0 .. 255
          BY Sutf8Assumption
        <4> QED
          BY <1>2, <2>2, <2>5, <4>1, ExceptSeq
      <3>2. Len(bytes) \in p - 1 .. Len(bytes)
        BY <1>2, <2>2
      <3>3. /\ LastIntact = c - 1 /\ Start(text, c - 1) <= Len(name)
            /\ \A k \in 1 .. c - 1 : Whole(k)
            /\ \A k \in c + 1 .. n : Whole(k)
        BY <1>7, <1>8, <3>1, <3>2
      <3> QED
        BY <1>1, <1>4, <1>8, <2>3, <3>1, <3>3 DEF NameMade, n, bytes
    <2> QED
      BY <1>8, <2>4, <2>5
  <1> QED
    BY <1>5, <1>6, <1>8

(* The loop, at the start of a character in front of the damage, in a cut   *)
(* name behind them, inside the damage, or at the start of a character      *)
(* behind it with those between shown last.                                 *)
ShownChar(cp) == IF cp <= 127 THEN cp ELSE Question

BeforeDamage == \E k \in 0 .. LastIntact : i = Start(text, k) /\ Len(out) = k
InCut        == IsCut /\ Len(out) >= LastIntact
InDamage     == /\ hit > 0 /\ ~IsCut /\ Len(out) >= hit
                /\ Start(text, hit - 1) < i /\ i < Start(text, hit)
BehindDamage ==
  /\ hit > 0 /\ ~IsCut
  /\ \E m \in 0 .. Len(text) - hit :
       /\ i = Start(text, hit + m) /\ Len(out) >= hit + m
       /\ \A q \in 1 .. m : out[Len(out) - m + q] = ShownChar(text[hit + q])

LoopInv ==
  /\ NameMade /\ NameInv
  /\ \A q \in 1 .. LastIntact : q <= Len(out) => out[q] = ShownChar(text[q])
  /\ BeforeDamage \/ InCut \/ InDamage \/ BehindDamage
  /\ npc = "decoded" => i >= Len(name) \/ Len(out) = NAME_MAX - 1

LEMMA InitLoopInv == Init => LoopInv
  <1> SUFFICES ASSUME Init PROVE LoopInv
    OBVIOUS
  <1>1. NameMade /\ NameInv
    BY InitNameMade, InitAnyName, NameInvInit
  <1>2. i = 0 /\ out = <<>> /\ npc = "decode"
    BY DEF Init
  <1>3. LastIntact \in Nat /\ Start(text, 0) = 0 /\ Len(out) = 0
    <2>1. Len(text) \in Nat /\ hit \in 0 .. Len(text) /\ Start(text, 0) = 0
      BY <1>1, StartIs, LenProperties DEF NameMade
    <2> QED
      BY <1>2, <2>1 DEF LastIntact
  <1>4. BeforeDamage
    BY <1>2, <1>3 DEF BeforeDamage
  <1>5. \A q \in 1 .. LastIntact : ~(q <= Len(out))
    BY <1>3
  <1> QED
    BY <1>1, <1>2, <1>4, <1>5 DEF LoopInv

(* One pass of the loop. *)
Here == SubSeq(name, i + 1, Len(name))

LEMMA RestIs ==
  ASSUME NameInv, i < Len(name)
  PROVE  /\ Here \in Seq(0 .. 255) /\ Len(Here) = Len(name) - i
         /\ \A j \in 1 .. Len(name) - i : Here[j] = name[i + j]
  <1>1. name \in Seq(0 .. 255) /\ i \in Nat /\ Len(name) \in Nat
    BY LenProperties, SMT DEF NameInv, NameTypeOK
  <1>2. \A j \in i + 1 .. Len(name) : name[j] \in 0 .. 255
    <2>1. \A j \in i + 1 .. Len(name) : j \in 1 .. Len(name)
      BY <1>1
    <2> QED
      BY <1>1, <2>1, ElementOfSeq
  <1> DEFINE a == i + 1
             b == Len(name)
  <1>3. a \in Int /\ b \in Int /\ a <= b /\ \A j \in a .. b : name[j] \in 0 .. 255
    BY <1>1, <1>2
  <1>4. Here = SubSeq(name, a, b)
    BY DEF Here
  <1> HIDE DEF a, b
  <1>5. /\ Here \in Seq(0 .. 255) /\ Len(Here) = b - a + 1
        /\ \A j \in 1 .. b - a + 1 : Here[j] = name[a + j - 1]
    BY <1>3, <1>4, SubSeqProperties
  <1>6. b - a + 1 = Len(name) - i /\ \A j \in Int : a + j - 1 = i + j
    BY <1>1 DEF a, b
  <1> QED
    BY <1>1, <1>5, <1>6

(* At the start of a whole character: that character, and then the next. *)
LEMMA WholeDecoded ==
  ASSUME NameMade, NameInv, NEW k \in 1 .. Len(text), Whole(k), i = Start(text, k - 1),
         i < Len(name)
  PROVE  /\ Shown(Decode(Here)) = ShownChar(text[k])
         /\ i + Advance(Decode(Here)) = Start(text, k)
  <1> DEFINE n == FrameOf(text[k])
             cp == text[k]
  <1>1. cp \in Nat /\ IsValid(cp)
    <2>1. cp \in Valid
      BY ElementOfSeq DEF NameMade
    <2> QED
      BY <2>1 DEF Valid
  <1>2. n \in Nat \ {0}
    <2>1. n \in Frames
      BY <1>1, ValidChar
    <2> QED
      BY <2>1, SMT DEF Frames
  <1>3. Start(text, k) = i + n /\ Start(text, k) <= Len(name)
    <2>1. Start(text, k) = Start(text, k - 1) + FrameOf(text[k])
      BY StartIs DEF NameMade
    <2> QED
      BY <2>1 DEF Whole
  <1>4. \A j \in 1 .. n : name[i + j] = Encode(cp, 6)[j]
    BY DEF Whole
  <1> HIDE DEF n, cp
  <1>5. i \in Nat /\ Len(name) \in Nat
    BY LenProperties, SMT DEF NameInv, NameTypeOK
  <1>6. /\ Here \in Seq(0 .. 255) /\ Len(Here) >= n
        /\ \A j \in 1 .. n : Here[j] = Encode(cp, 6)[j]
    <2>1. /\ Here \in Seq(0 .. 255) /\ Len(Here) = Len(name) - i
          /\ \A j \in 1 .. Len(name) - i : Here[j] = name[i + j]
      BY RestIs
    <2>2. n <= Len(name) - i /\ \A j \in 1 .. n : j \in 1 .. Len(name) - i
      BY <1>2, <1>3, <1>5
    <2> QED
      BY <1>2, <1>4, <1>5, <2>1, <2>2
  <1>7. Decode(Here) = [consumed |-> n, cp |-> cp]
    <2>1. n = FrameOf(cp)
      BY DEF n, cp
    <2> QED
      BY <1>1, <1>6, <2>1, DecodedWhole
  <1> DEFINE d == Decode(Here)
  <1>8. d.consumed = n /\ d.cp = cp
    <2>1. d = [consumed |-> n, cp |-> cp]
      BY <1>7
    <2> HIDE DEF d
    <2> QED
      BY <2>1
  <1> HIDE DEF d
  <1>9. Shown(d) = ShownChar(cp) /\ Advance(d) = n
    BY <1>2, <1>8 DEF Shown, ShownChar, Advance
  <1> QED
    BY <1>3, <1>9 DEF d, cp

(* Inside the damage no character reaches behind it: the next one's first   *)
(* byte is no continuation.                                                  *)
LEMMA DamageKept ==
  ASSUME NameMade, NameInv, hit > 0, ~IsCut, i < Len(name),
         Start(text, hit - 1) <= i, i < Start(text, hit)
  PROVE  i + Advance(Decode(Here)) \in i + 1 .. Start(text, hit)
  <1> DEFINE d == Decode(Here)
  <1>1. /\ text \in Seq(Valid) /\ hit \in 1 .. Len(text) /\ Len(text) \in Nat
        /\ Len(name) = Len(BytesOf(text))
    <2>1. text \in Seq(Valid) /\ hit \in 0 .. Len(text) /\ Len(name) = Len(BytesOf(text))
      BY DEF NameMade
    <2>2. Len(text) \in Nat
      BY <2>1, LenProperties
    <2> QED
      BY <2>1, <2>2
  <1>2. i \in Nat /\ Len(name) \in Nat /\ Start(text, hit) \in Nat
    <2>1. i \in Nat /\ name \in Seq(0 .. 255)
      BY SMT DEF NameInv, NameTypeOK
    <2>2. hit \in 0 .. Len(text)
      BY <1>1
    <2> QED
      BY <1>1, <2>1, <2>2, LenProperties, StartIs
  <1>3. /\ Here \in Seq(0 .. 255) /\ Len(Here) = Len(name) - i
        /\ \A j \in 1 .. Len(name) - i : Here[j] = name[i + j]
    BY RestIs
  <1>4. CASE ~\E n \in Frames : IsChar(Here, n)
    <2>1. d.consumed = 0
      BY <1>4 DEF Decode, Failed
    <2> HIDE DEF d
    <2>2. Advance(d) = 1
      BY <2>1 DEF Advance
    <2> QED
      BY <1>2, <2>2 DEF d
  <1>5. CASE \E n \in Frames : IsChar(Here, n)
    <2> DEFINE n == CHOOSE n \in Frames : IsChar(Here, n)
    <2>1. n \in Frames /\ IsChar(Here, n)
      BY <1>5, Zenon
    <2>2. d = [consumed |-> n, cp |-> Codepoint(Here, n)]
      BY <1>5 DEF Decode
    <2>3. d.consumed = n
      BY <2>2
    <2> HIDE DEF n, d
    <2>4. n \in Nat \ {0} /\ Advance(d) = n
      <3>1. n \in Nat \ {0}
        BY <2>1, SMT DEF Frames
      <3> QED
        BY <2>3, <3>1 DEF Advance
    <2>5. n <= Len(name) - i /\ \A j \in 2 .. n : IsContinuation(Here[j])
      <3>1. Len(Here) >= n /\ \A j \in 2 .. n : IsContinuation(Here[j])
        BY <2>1 DEF IsChar
      <3> QED
        BY <1>2, <1>3, <2>4, <3>1
    <2>6. ASSUME i + n > Start(text, hit) PROVE FALSE
      <3> DEFINE j == Start(text, hit) + 1 - i
                 k == hit + 1
      <3>1. j \in 2 .. n /\ j \in 1 .. Len(name) - i /\ i + j = Start(text, hit) + 1
        BY <1>2, <2>4, <2>5, <2>6
      <3>2. IsContinuation(name[Start(text, hit) + 1])
        BY <1>3, <2>5, <3>1
      <3>3. hit < Len(text)
        <4>1. Start(text, Len(text)) = Len(name)
          BY <1>1, StartIs
        <4>2. Start(text, hit) < Len(name)
          BY <1>2, <2>4, <2>5, <2>6
        <4> QED
          BY <1>1, <1>2, <4>1, <4>2
      <3>4. k \in hit + 1 .. Len(text) /\ k \in 1 .. Len(text) /\ k - 1 = hit
        BY <1>1, <3>3
      <3>5. Whole(k)
        BY <3>4 DEF NameMade
      <3> HIDE DEF j, k
      <3>6. text[k] \in Nat /\ IsValid(text[k])
        <4>1. text[k] \in Valid
          BY <1>1, <3>4, ElementOfSeq
        <4> QED
          BY <4>1 DEF Valid
      <3>7. FrameOf(text[k]) \in Frames /\ 1 \in 1 .. FrameOf(text[k])
        <4>1. FrameOf(text[k]) \in Frames
          BY <3>6, ValidChar
        <4> QED
          BY <4>1, SMT DEF Frames
      <3>8. name[Start(text, hit) + 1] = Encode(text[k], 6)[1]
        BY <3>4, <3>5, <3>7 DEF Whole
      <3>9. Opens(Encode(text[k], 6)[1], FrameOf(text[k])) /\ Encode(text[k], 6)[1] \in Int
        <4>1. /\ Opens(Encode(text[k], 6)[1], FrameOf(text[k]))
              /\ Encode(text[k], 6) = Encoded(text[k], FrameOf(text[k]))
          BY <3>6, ValidChar
        <4> QED
          BY <3>6, <3>7, <4>1, EncodedFirst
      <3> QED
        BY <3>2, <3>7, <3>8, <3>9, NoContinuationOpens
    <2>7. i + n <= Start(text, hit)
      BY <1>2, <2>4, <2>6
    <2> QED
      BY <1>2, <2>4, <2>7 DEF d
  <1> QED
    BY <1>4, <1>5

LEMMA LoopFacts ==
  ASSUME LoopInv
  PROVE  /\ text \in Seq(Valid) /\ Len(text) \in Nat /\ hit \in 0 .. Len(text)
         /\ LastIntact \in 0 .. Len(text) /\ (hit > 0 => LastIntact = hit - 1)
         /\ (hit = 0 => LastIntact = Len(text) /\ ~IsCut)
         /\ name \in Seq(0 .. 255) /\ Len(name) \in Nat /\ i \in 0 .. Len(name)
         /\ out \in Seq(0 .. 127) /\ Len(out) \in Nat /\ Len(out) < NAME_MAX
         /\ NAME_MAX \in Nat /\ npc \in {"decode", "decoded"}
         /\ (~IsCut => Len(name) = Start(text, Len(text)))
  <1>1. /\ text \in Seq(Valid) /\ hit \in 0 .. Len(text) /\ name \in Seq(0 .. 255)
        /\ (~IsCut => Len(name) = Len(BytesOf(text)))
    BY DEF LoopInv, NameMade
  <1>2. Len(text) \in Nat /\ Len(name) \in Nat /\ Start(text, Len(text)) = Len(BytesOf(text))
    BY <1>1, LenProperties, StartIs
  <1>3. /\ i \in 0 .. Len(name) /\ out \in Seq(0 .. 127) /\ Len(out) < NAME_MAX
        /\ npc \in {"decode", "decoded"}
    BY DEF LoopInv, NameInv, NameTypeOK
  <1>4. Len(out) \in Nat /\ NAME_MAX \in Nat
    BY <1>3, LenProperties, Sutf8Assumption
  <1>5. /\ LastIntact \in 0 .. Len(text) /\ (hit > 0 => LastIntact = hit - 1)
        /\ (hit = 0 => LastIntact = Len(text) /\ ~IsCut)
    BY <1>1, <1>2 DEF LastIntact, IsCut
  <1> QED
    BY <1>1, <1>2, <1>3, <1>4, <1>5

LEMMA NameKept == NameMade /\ UNCHANGED <<text, hit, name>> =>
                NameMade' /\ LastIntact' = LastIntact /\ (IsCut <=> IsCut')
  BY DEF NameMade, LastIntact, IsCut, Whole

LEMMA NameCharInv == LoopInv /\ NameChar => LoopInv'
  <1> SUFFICES ASSUME LoopInv, NameChar PROVE LoopInv'
    OBVIOUS
  <1> DEFINE n == Len(text)
             L == LastIntact
             s == Shown(Decode(Here))
             o == Len(out)
  <1>1. /\ i < Len(name) /\ o < NAME_MAX - 1 /\ out' = Append(out, s)
        /\ i' = i + Advance(Decode(Here)) /\ npc = "decode" /\ npc' = "decode"
        /\ UNCHANGED <<text, hit, name>>
    BY DEF NameChar, HasRoom, Here
  <1>2. NameMade' /\ LastIntact' = L /\ (IsCut <=> IsCut')
    BY <1>1, NameKept DEF LoopInv
  <1>3. NameInv'
    BY NameInvNext DEF LoopInv, Next
  <1>4. /\ text \in Seq(Valid) /\ n \in Nat /\ hit \in 0 .. n
        /\ L \in 0 .. n /\ (hit > 0 => L = hit - 1) /\ (hit = 0 => L = n /\ ~IsCut)
        /\ Len(name) \in Nat /\ i \in 0 .. Len(name)
        /\ out \in Seq(0 .. 127) /\ o \in Nat /\ (~IsCut => Len(name) = Start(text, n))
    BY LoopFacts
  <1>5. /\ Len(out') = o + 1 /\ out'[o + 1] = s /\ \A q \in 1 .. o : out'[q] = out[q]
    <2>1. out' \in Seq(0 .. 127)
      BY <1>3 DEF NameInv, NameTypeOK
    <2>2. Len(out') = o + 1 /\ \A q \in 1 .. o : out'[q] = out[q]
      BY <1>1, <1>4
    <2>3. out'[o + 1] = s
      BY <1>1, <1>4
    <2> QED
      BY <2>2, <2>3
  <1>6. \A q \in 1 .. L : q <= o => out[q] = ShownChar(text[q])
    BY DEF LoopInv
  <1> HIDE DEF s, o, n, L
  <1>7. ASSUME \/ o >= L
               \/ s = ShownChar(text[o + 1]),
               BeforeDamage' \/ InCut' \/ InDamage' \/ BehindDamage'
        PROVE  LoopInv'
    <2>1. ASSUME NEW q \in 1 .. L, q <= o + 1 PROVE out'[q] = ShownChar(text[q])
      <3>1. CASE q <= o
        <4>1. q \in 1 .. o
          BY <1>4, <3>1
        <4> QED
          BY <1>5, <1>6, <3>1, <4>1
      <3>2. CASE q > o
        <4>1. q = o + 1 /\ ~(o >= L)
          BY <1>4, <2>1, <3>2
        <4> QED
          BY <1>5, <1>7, <4>1
      <3> QED
        BY <1>4, <3>1, <3>2
    <2>2. \A q \in 1 .. L : q <= Len(out') => out'[q] = ShownChar(text[q])
      BY <1>5, <2>1
    <2>3. \A q \in (1 .. LastIntact)' : q <= Len(out') => out'[q] = ShownChar(text'[q])
      BY <1>1, <1>2, <2>2
    <2> QED
      BY <1>1, <1>2, <1>3, <1>7, <2>3 DEF LoopInv, ShownChar
  <1>8. ASSUME hit > 0, ~IsCut, o >= hit - 1, Start(text, hit - 1) <= i, i < Start(text, hit)
        PROVE  LoopInv'
    <2>1. i' \in i + 1 .. Start(text, hit)
      BY <1>1, <1>8, DamageKept DEF LoopInv
    <2>2. Start(text, hit - 1) \in Nat /\ Start(text, hit) \in Nat
      <3>1. hit - 1 \in 0 .. n /\ hit \in 0 .. n
        BY <1>4, <1>8
      <3> QED
        BY <1>4, <3>1, StartIs DEF n
    <2>3. Len(out') >= hit /\ o >= L
      BY <1>4, <1>5, <1>8
    <2>4. CASE i' < Start(text, hit)
      <3>1. Start(text, hit - 1) < i'
        BY <1>4, <1>8, <2>1, <2>2
      <3>2. InDamage'
        BY <1>1, <1>2, <1>8, <2>3, <2>4, <3>1 DEF InDamage
      <3> QED
        BY <1>7, <2>3, <3>2
    <2>5. CASE ~(i' < Start(text, hit))
      <3>1. i' = Start(text, hit + 0) /\ hit + 0 = hit /\ 0 \in 0 .. n - hit
        BY <1>4, <2>1, <2>2, <2>5
      <3>2. \A q \in 1 .. 0 : out'[Len(out') - 0 + q] = ShownChar(text[hit + q])
        OBVIOUS
      <3>3. \E m \in 0 .. n - hit :
              /\ i' = Start(text, hit + m) /\ Len(out') >= hit + m
              /\ \A q \in 1 .. m : out'[Len(out') - m + q] = ShownChar(text[hit + q])
        BY <2>3, <3>1, <3>2
      <3>4. BehindDamage'
        BY <1>1, <1>2, <1>8, <3>3 DEF BehindDamage, ShownChar, n
      <3> QED
        BY <1>7, <2>3, <3>4
    <2> QED
      BY <2>4, <2>5
  <1>9. CASE BeforeDamage
    <2>1. PICK k \in 0 .. L : i = Start(text, k) /\ o = k
      BY <1>9 DEF BeforeDamage, L, o
    <2>2. CASE k < L
      <3>1. k + 1 \in 1 .. L /\ k + 1 \in 1 .. n /\ (k + 1) - 1 = k /\ k + 1 \in 0 .. L
        BY <1>4, <2>1, <2>2
      <3>2. Whole(k + 1)
        BY <3>1 DEF LoopInv, NameMade, L
      <3>3. s = ShownChar(text[k + 1]) /\ i' = Start(text, k + 1)
        BY <1>1, <2>1, <3>1, <3>2, WholeDecoded DEF LoopInv, n, s
      <3>4. BeforeDamage'
        BY <1>1, <1>2, <1>5, <2>1, <3>1, <3>3 DEF BeforeDamage
      <3> QED
        BY <1>7, <2>1, <3>3, <3>4
    <2>3. CASE ~(k < L)
      <3>1. k = L /\ o >= L
        BY <1>4, <2>1, <2>3
      <3>2. CASE IsCut
        <4>1. InCut'
          BY <1>2, <1>4, <1>5, <3>1, <3>2 DEF InCut
        <4> QED
          BY <1>7, <3>1, <4>1
      <3>3. CASE hit = 0
        BY <1>1, <1>4, <2>1, <3>1, <3>3
      <3>4. CASE ~IsCut /\ hit # 0
        <4>1. hit > 0 /\ L = hit - 1 /\ hit - 1 \in 0 .. n /\ hit \in 0 .. n
          BY <1>4, <3>4
        <4>2. Start(text, hit - 1) < Start(text, hit)
          BY <1>4, <4>1, StartGrows DEF n
        <4>3. Start(text, hit - 1) <= i /\ i < Start(text, hit) /\ o >= hit - 1
          BY <1>4, <2>1, <3>1, <4>1, <4>2
        <4> QED
          BY <1>8, <3>4, <4>1, <4>3
      <3> QED
        BY <3>2, <3>3, <3>4
    <2> QED
      BY <2>2, <2>3
  <1>10. CASE InCut
    <2>1. o >= L /\ Len(out') >= L /\ IsCut
      BY <1>4, <1>5, <1>10 DEF InCut, o, L
    <2>2. InCut'
      BY <1>2, <2>1 DEF InCut
    <2> QED
      BY <1>7, <2>1, <2>2
  <1>11. CASE InDamage
    <2>1. hit > 0 /\ ~IsCut /\ o >= hit /\ Start(text, hit - 1) < i /\ i < Start(text, hit)
      BY <1>11 DEF InDamage, o
    <2>2. hit - 1 \in 0 .. n
      BY <1>4, <2>1
    <2>3. Start(text, hit - 1) \in Nat
      BY <1>4, <2>2, StartIs DEF n
    <2>4. o >= hit - 1 /\ Start(text, hit - 1) <= i
      BY <1>4, <2>1, <2>3
    <2> QED
      BY <1>8, <2>1, <2>4
  <1>12. CASE BehindDamage
    <2>1. hit > 0 /\ ~IsCut
      BY <1>12 DEF BehindDamage
    <2>2. PICK m \in 0 .. n - hit :
            /\ i = Start(text, hit + m) /\ o >= hit + m
            /\ \A q \in 1 .. m : out[o - m + q] = ShownChar(text[hit + q])
      BY <1>12 DEF BehindDamage, n, o
    <2>3. m < n - hit
      <3>1. ASSUME m = n - hit PROVE FALSE
        <4>1. hit + m = n
          BY <1>4, <3>1
        <4> QED
          BY <1>1, <1>4, <2>1, <2>2, <4>1
      <3> QED
        BY <1>4, <2>2, <3>1
    <2> DEFINE k == hit + m + 1
    <2>4. k \in 1 .. n /\ k \in hit + 1 .. n /\ k - 1 = hit + m /\ m + 1 \in 0 .. n - hit
          /\ hit + (m + 1) = k
      BY <1>4, <2>1, <2>2, <2>3
    <2> HIDE DEF k
    <2>5. Whole(k)
      BY <2>1, <2>4 DEF LoopInv, NameMade, n
    <2>6. s = ShownChar(text[k]) /\ i' = Start(text, k)
      BY <1>1, <2>2, <2>4, <2>5, WholeDecoded DEF LoopInv, n, s
    <2>7. ASSUME NEW q \in 1 .. m + 1
          PROVE  out'[o + 1 - (m + 1) + q] = ShownChar(text[hit + q])
      <3>1. CASE q = m + 1
        <4>1. o + 1 - (m + 1) + q = o + 1 /\ hit + q = k
          BY <1>4, <2>4, <3>1
        <4> QED
          BY <1>5, <2>6, <4>1
      <3>2. CASE q # m + 1
        <4>1. q \in 1 .. m /\ o + 1 - (m + 1) + q = o - m + q /\ o - m + q \in 1 .. o
          BY <1>4, <2>2, <3>2
        <4> QED
          BY <1>5, <2>2, <4>1
      <3> QED
        BY <3>1, <3>2
    <2>8. o + 1 >= hit + (m + 1) /\ o >= L
      BY <1>4, <2>1, <2>2
    <2>9. BehindDamage'
      <3>1. \E j \in 0 .. n - hit :
              /\ i' = Start(text, hit + j) /\ Len(out') >= hit + j
              /\ \A q \in 1 .. j : out'[Len(out') - j + q] = ShownChar(text[hit + q])
        <4>1. Len(out') = o + 1 /\ i' = Start(text, hit + (m + 1))
          BY <1>5, <2>4, <2>6
        <4>2. Len(out') >= hit + (m + 1)
          BY <2>8, <4>1
        <4>3. \A q \in 1 .. m + 1 : out'[Len(out') - (m + 1) + q] = ShownChar(text[hit + q])
          <5> SUFFICES ASSUME NEW q \in 1 .. m + 1
                       PROVE  out'[Len(out') - (m + 1) + q] = ShownChar(text[hit + q])
            OBVIOUS
          <5>1. Len(out') - (m + 1) + q = o + 1 - (m + 1) + q
            BY <1>4, <4>1
          <5> QED
            BY <2>7, <5>1
        <4> QED
          BY <2>4, <4>1, <4>2, <4>3
      <3> QED
        BY <1>1, <1>2, <2>1, <3>1 DEF BehindDamage, ShownChar, n
    <2> QED
      BY <1>7, <2>8, <2>9
  <1> QED
    BY <1>9, <1>10, <1>11, <1>12 DEF LoopInv

LEMMA NameEndInv ==
  ASSUME LoopInv, NameEnd \/ UNCHANGED nameVars
  PROVE  LoopInv'
  <1>1. /\ UNCHANGED <<text, hit, name, i, out>>
        /\ npc' = npc \/ (npc' = "decoded" /\ ~(i < Len(name) /\ HasRoom(out)))
    BY DEF NameEnd, nameVars
  <1>2. NameMade' /\ LastIntact' = LastIntact /\ (IsCut <=> IsCut')
    BY <1>1, NameKept DEF LoopInv
  <1>3. NameInv'
    BY NameInvNext DEF LoopInv, Next
  <1>4. npc' = "decoded" => i >= Len(name) \/ Len(out) = NAME_MAX - 1
    <2>1. CASE npc' = npc
      BY <2>1 DEF LoopInv
    <2>2. CASE ~(i < Len(name) /\ HasRoom(out))
      BY <2>2, LoopFacts DEF HasRoom
    <2> QED
      BY <1>1, <2>1, <2>2
  <1>5. BeforeDamage \/ InCut \/ InDamage \/ BehindDamage
    BY DEF LoopInv
  <1>6. BeforeDamage' \/ InCut' \/ InDamage' \/ BehindDamage'
    <2>1. CASE BeforeDamage
      BY <1>1, <1>2, <2>1 DEF BeforeDamage
    <2>2. CASE InCut
      BY <1>1, <1>2, <2>2 DEF InCut
    <2>3. CASE InDamage
      BY <1>1, <1>2, <2>3 DEF InDamage
    <2>4. CASE BehindDamage
      BY <1>1, <1>2, <2>4 DEF BehindDamage
    <2> QED
      BY <1>5, <2>1, <2>2, <2>3, <2>4
  <1>7. \A q \in 1 .. LastIntact : q <= Len(out) => out[q] = ShownChar(text[q])
    BY DEF LoopInv
  <1> QED
    BY <1>1, <1>2, <1>3, <1>4, <1>6, <1>7 DEF LoopInv

LEMMA LoopInvariant == Spec => []LoopInv
  <1>1. LoopInv /\ [Next]_nameVars => LoopInv'
    BY NameCharInv, NameEndInv DEF Next
  <1> QED
    BY InitLoopInv, <1>1, PTL DEF Spec

(* What ShownText is of the characters from one to another. *)
LEMMA ShownPart ==
  ASSUME NEW cps \in Seq(Valid), NEW a \in 1 .. Len(cps) + 1, NEW b \in 0 .. Len(cps),
         a <= b + 1
  PROVE  /\ ShownText(SubSeq(cps, a, b)) \in Seq(0 .. 127)
         /\ Len(ShownText(SubSeq(cps, a, b))) = b - a + 1
         /\ DOMAIN ShownText(SubSeq(cps, a, b)) = 1 .. b - a + 1
         /\ \A q \in 1 .. b - a + 1 :
              ShownText(SubSeq(cps, a, b))[q] = ShownChar(cps[a + q - 1])
  <1> DEFINE part == SubSeq(cps, a, b)
  <1>1. Len(cps) \in Nat
    BY LenProperties
  <1>2. \A q \in a .. b : cps[q] \in Valid
    <2>1. \A q \in a .. b : q \in 1 .. Len(cps)
      BY <1>1
    <2> QED
      BY <2>1, ElementOfSeq
  <1>3. /\ part \in Seq(Valid) /\ Len(part) = b - a + 1
        /\ \A q \in 1 .. b - a + 1 : part[q] = cps[a + q - 1]
    <2>1. CASE a <= b
      BY <1>1, <1>2, <2>1, SubSeqProperties
    <2>2. CASE a = b + 1
      BY <1>1, <1>2, <2>2, SubSeqProperties
    <2> QED
      BY <1>1, <2>1, <2>2
  <1>4. ShownText(part) = [q \in 1 .. Len(part) |-> ShownChar(part[q])]
    BY DEF ShownText, ShownChar
  <1> DEFINE all == ShownText(part)
             w   == b - a + 1
  <1>5. w \in Nat
    BY <1>1
  <1> HIDE DEF part
  <1>6. all = [q \in 1 .. w |-> ShownChar(part[q])]
    BY <1>3, <1>4
  <1> HIDE DEF all, w
  <1>7. Len(all) = w /\ DOMAIN all = 1 .. w /\ \A q \in 1 .. w : all[q] = ShownChar(part[q])
    BY <1>5, <1>6
  <1>8. all \in Seq(0 .. 127)
    <2>1. \A q \in 1 .. w : ShownChar(part[q]) \in 0 .. 127
      <3> TAKE q \in 1 .. w
      <3>1. part[q] \in Valid
        BY <1>3, ElementOfSeq DEF w
      <3>2. part[q] \in Nat
        BY <3>1 DEF Valid
      <3>3. \A c \in Nat : ShownChar(c) \in 0 .. 127
        BY DEF ShownChar, Question
      <3> QED
        BY <3>2, <3>3
    <2> QED
      BY <1>5, <1>6, <2>1
  <1> QED
    BY <1>3, <1>7, <1>8 DEF all, w, part

LEMMA LoopShows == LoopInv => IntactShown
  <1> SUFFICES ASSUME LoopInv, npc = "decoded" PROVE IntactShown
    BY DEF IntactShown
  <1> DEFINE n      == Len(text)
             L      == LastIntact
             o      == Len(out)
             before == ShownText(SubSeq(text, 1, L))
             after  == ShownText(SubSeq(text, hit + 1, n))
             At(k)  == Start(text, k)
  <1>1. /\ text \in Seq(Valid) /\ n \in Nat /\ hit \in 0 .. n /\ L \in 0 .. n
        /\ (hit > 0 => L = hit - 1) /\ (hit = 0 => L = n /\ ~IsCut)
        /\ Len(name) \in Nat /\ i \in 0 .. Len(name)
        /\ out \in Seq(0 .. 127) /\ o \in Nat /\ o < NAME_MAX /\ NAME_MAX \in Nat
        /\ (~IsCut => Len(name) = At(n))
    BY LoopFacts
  <1>2. i = Len(name) \/ o = NAME_MAX - 1
    BY <1>1 DEF LoopInv
  <1>3. /\ Len(before) = L /\ DOMAIN before = 1 .. L
        /\ \A q \in 1 .. L : before[q] = ShownChar(text[q])
    <2>1. /\ Len(before) = L - 1 + 1 /\ DOMAIN before = 1 .. L - 1 + 1
          /\ \A q \in 1 .. L - 1 + 1 : before[q] = ShownChar(text[1 + q - 1])
      <3>1. 1 \in 1 .. n + 1 /\ 1 <= L + 1
        BY <1>1
      <3> QED
        BY <1>1, <3>1, ShownPart
    <2>2. L - 1 + 1 = L /\ \A q \in 1 .. L : 1 + q - 1 = q
      BY <1>1
    <2> QED
      BY <2>1, <2>2
  <1>4. /\ after \in Seq(0 .. 127) /\ Len(after) = n - hit
        /\ \A q \in 1 .. n - hit : after[q] = ShownChar(text[hit + q])
    <2>1. /\ after \in Seq(0 .. 127) /\ Len(after) = n - (hit + 1) + 1
          /\ \A q \in 1 .. n - (hit + 1) + 1 : after[q] = ShownChar(text[hit + 1 + q - 1])
      <3>1. hit + 1 \in 1 .. n + 1 /\ n \in 0 .. n /\ hit + 1 <= n + 1
        BY <1>1
      <3> QED
        BY <1>1, <3>1, ShownPart
    <2>2. n - (hit + 1) + 1 = n - hit /\ \A q \in 1 .. n - hit : hit + 1 + q - 1 = hit + q
      BY <1>1
    <2> QED
      BY <2>1, <2>2
  <1>5. /\ \A k \in 0 .. n : At(k) \in Nat
        /\ \A k \in 0 .. n : \A j \in 0 .. n : j < k => At(j) < At(k)
    BY <1>1, StartIs, StartGrows
  <1>6. \/ \E k \in 0 .. L : i = At(k) /\ o = k
        \/ IsCut /\ o >= L
        \/ hit > 0 /\ ~IsCut /\ o >= hit /\ i < At(hit)
        \/ /\ hit > 0 /\ ~IsCut
           /\ \E m \in 0 .. n - hit :
                /\ i = At(hit + m) /\ o >= hit + m
                /\ \A q \in 1 .. m : out[o - m + q] = ShownChar(text[hit + q])
    BY DEF LoopInv, BeforeDamage, InCut, InDamage, BehindDamage
  <1>7. /\ \A q \in 1 .. L : q <= o => out[q] = ShownChar(text[q])
        /\ \A q \in 1 .. L : At(q) <= Len(name)
    BY DEF LoopInv, NameMade, Whole
  <1> HIDE DEF n, L, o, before, after, At
  <1>8. o = NAME_MAX - 1 \/ o >= L
    <2>1. CASE \E k \in 0 .. L : i = At(k) /\ o = k
      <3>1. PICK k \in 0 .. L : i = At(k) /\ o = k
        BY <2>1
      <3>2. CASE k < L /\ i = Len(name)
        <4>1. k \in 0 .. n /\ k + 1 \in 0 .. n /\ k < k + 1 /\ k + 1 \in 1 .. L
          BY <1>1, <3>2
        <4>2. At(k) < At(k + 1) /\ At(k + 1) <= At(k) /\ At(k) \in Nat /\ At(k + 1) \in Nat
          BY <1>5, <1>7, <3>1, <3>2, <4>1
        <4> QED
          BY <4>2
      <3> QED
        BY <1>1, <1>2, <3>1, <3>2
    <2> QED
      BY <1>1, <1>6, <2>1
  <1>9. \A k \in DOMAIN before : k < NAME_MAX => k <= o /\ out[k] = before[k]
    <2> SUFFICES ASSUME NEW k \in 1 .. L, k < NAME_MAX PROVE k <= o /\ out[k] = before[k]
      BY <1>3
    <2>1. k <= o
      BY <1>1, <1>8
    <2> QED
      BY <1>3, <1>7, <2>1
  <1>10. hit = 0 => o <= Len(before)
    <2>1. hit = 0 => \E k \in 0 .. L : i = At(k) /\ o = k
      BY <1>1, <1>6
    <2> QED
      BY <1>1, <1>3, <2>1
  <1>11. ASSUME hit > 0, ~IsCut, o < NAME_MAX - 1
         PROVE  /\ o >= L + 1 + Len(after)
                /\ SubSeq(out, o - Len(after) + 1, o) = after
    <2>1. i = At(n) /\ hit \in 0 .. n /\ L = hit - 1 /\ n \in 0 .. n
      BY <1>1, <1>2, <1>11
    <2>2. ~\E k \in 0 .. L : i = At(k) /\ o = k
      <3> SUFFICES ASSUME NEW k \in 0 .. L, i = At(k) PROVE FALSE
        OBVIOUS
      <3>1. k \in 0 .. n /\ k < n
        BY <1>1, <2>1
      <3>2. At(k) < At(n) /\ At(k) = At(n) /\ At(n) \in Nat
        BY <1>5, <2>1, <3>1
      <3> QED
        BY <3>2
    <2>3. ~(i < At(hit))
      <3>1. CASE hit = n
        BY <1>5, <2>1, <3>1
      <3>2. CASE hit < n
        <4>1. At(hit) < At(n) /\ At(hit) \in Nat /\ At(n) \in Nat
          BY <1>5, <2>1, <3>2
        <4> QED
          BY <2>1, <4>1
      <3> QED
        BY <1>1, <3>1, <3>2
    <2>4. PICK m \in 0 .. n - hit :
            /\ i = At(hit + m) /\ o >= hit + m
            /\ \A q \in 1 .. m : out[o - m + q] = ShownChar(text[hit + q])
      BY <1>6, <1>11, <2>2, <2>3
    <2>5. m = n - hit
      <3>1. ASSUME hit + m < n PROVE FALSE
        <4>1. hit + m \in 0 .. n
          BY <1>1, <2>1
        <4>2. At(hit + m) < At(n) /\ At(hit + m) = At(n) /\ At(n) \in Nat
          BY <1>5, <2>1, <2>4, <3>1, <4>1
        <4> QED
          BY <4>2
      <3> QED
        BY <1>1, <3>1
    <2>6. m = Len(after) /\ m \in Nat /\ o >= n /\ m <= o
      BY <1>1, <1>4, <2>4, <2>5
    <2>7. SubSeq(out, o - m + 1, o) = after
      <3> DEFINE a    == o - m + 1
                 tail == SubSeq(out, a, o)
      <3>1. a \in Int /\ o \in Int /\ a <= o + 1 /\ o - a + 1 = m /\ a \in 1 .. o + 1
            /\ \A q \in 1 .. m : a + q - 1 = o - m + q
        BY <1>1, <2>6
      <3>2. \A q \in a .. o : out[q] \in 0 .. 127
        <4>1. \A q \in a .. o : q \in 1 .. Len(out)
          BY <1>1, <3>1 DEF o
        <4> QED
          BY <1>1, <4>1, ElementOfSeq
      <3> HIDE DEF a
      <3>3. /\ tail \in Seq(0 .. 127) /\ Len(tail) = IF a <= o THEN o - a + 1 ELSE 0
            /\ \A q \in 1 .. o - a + 1 : tail[q] = out[a + q - 1]
        BY <3>1, <3>2, SubSeqProperties
      <3> HIDE DEF tail
      <3>4. Len(tail) = m /\ \A q \in 1 .. m : tail[q] = after[q]
        <4>1. Len(tail) = m
          BY <2>6, <3>1, <3>3
        <4>2. \A q \in 1 .. m : tail[q] = out[o - m + q]
          BY <3>1, <3>3
        <4> QED
          BY <1>4, <2>4, <2>5, <4>1, <4>2
      <3>5. tail = after
        BY <1>4, <2>6, <3>3, <3>4, SeqEqual
      <3> QED
        BY <3>5 DEF tail, a
    <2>8. o >= L + 1 + Len(after)
      BY <1>1, <2>1, <2>5, <2>6
    <2> QED
      BY <2>6, <2>7, <2>8, Zenon
  <1>12. hit > 0 /\ ~IsCut /\ o < NAME_MAX - 1 =>
           /\ o >= L + 1 + Len(after)
           /\ SubSeq(out, o - Len(after) + 1, o) = after
    BY <1>11
  <1> QED
    BY <1>9, <1>10, <1>12, Zenon
       DEF IntactShown, LastIntact, IsCut, n, L, o, before, after

(* A damaged name is readable on both sides of the damage, for every name   *)
(* and every place of the damage: owfs_name_to_ascii shows all characters   *)
(* in front of it and, when the buffer has room, all behind it               *)
(* (owfs.c:90-110, sutf8.c:54-154).                                          *)
THEOREM DamageStaysLocal == Spec => []IntactShown
  BY LoopInvariant, LoopShows, PTL
=============================================================================
