------------------------- MODULE MonoPoly1305Proofs -------------------------
(***************************************************************************)
(* The bounds in the comments of poly_block, for words and bytes of any    *)
(* size: no sum of products is cut by its type, and the accumulator stays  *)
(* below 5 * W^4, whatever the message, the key and the pieces.  And with  *)
(* them the tag: it is the polynomial of the blocks of the message modulo  *)
(* 4 * W^4 - 5, plus the pad.                                              *)
(***************************************************************************)
EXTENDS MonoPoly1305, WellFoundedInduction, SequenceTheorems, TLAPS

Word == 0 .. W - 1

\* A clamped key, an accumulator between two blocks, a chunk.
ClampedKey(k) ==
    /\ k \in [0 .. 3 -> Word]
    /\ \A i \in 0 .. 3 : k[i] < W \div 16
    /\ \A i \in 1 .. 3 : k[i] % 4 = 0
Accumulator(hh) == hh \in [0 .. 4 -> Word] /\ hh[4] <= 4
Chunk(cc) == cc \in [0 .. 4 -> Word] /\ cc[4] <= 1

\* A product of numbers is at most the product of their bounds.
LEMMA ProductBound ==
    ASSUME NEW a \in Nat, NEW b \in Nat, NEW m \in Nat, NEW n \in Nat, a <= m, b <= n
    PROVE  a * b \in Nat /\ a * b <= m * n
<1>1. PICK x \in Nat : m = a + x
  <2>1. m - a \in Nat /\ m = a + (m - a)
    OBVIOUS
  <2> QED BY <2>1
<1>2. PICK y \in Nat : n = b + y
  <2>1. n - b \in Nat /\ n = b + (n - b)
    OBVIOUS
  <2> QED BY <2>1
<1>3. m * n = a * b + a * y + x * b + x * y
  BY <1>1, <1>2
<1>4. a * b \in Nat /\ a * y \in Nat /\ x * b \in Nat /\ x * y \in Nat
  OBVIOUS
<1> QED BY <1>3, <1>4

\* A word is sixteen times what clamping leaves of one.
LEMMA WordSize ==
    \E q \in Nat \ {0} : W = 16 * q /\ W \div 16 = q
BY PolyAssumption

\* A word of the accumulator plus one of the chunk, times a word of the key.
LEMMA OneProduct ==
    ASSUME NEW q \in Nat \ {0}, W = 16 * q, NEW s \in Nat, s <= 2 * (W - 1),
           NEW k \in Nat, k <= q - 1
    PROVE  /\ s * k \in Nat /\ s * k <= 2 * ((W - 1) * (q - 1))
           /\ s * ((k \div 4) * 5) \in Nat
           /\ 4 * (s * ((k \div 4) * 5)) <= 10 * ((W - 1) * (q - 1))
<1> DEFINE p == (W - 1) * (q - 1)
           d == k \div 4
<1>1. W - 1 \in Nat /\ q - 1 \in Nat /\ 2 * (W - 1) \in Nat
  OBVIOUS
<1>2. (2 * (W - 1)) * (q - 1) = 2 * p
  OBVIOUS
<1>3. s * k \in Nat /\ s * k <= (2 * (W - 1)) * (q - 1)
  BY <1>1, ProductBound
<1>4. d \in Nat /\ 4 * d <= k
  OBVIOUS
<1> HIDE DEF d
<1>5. s * (4 * d) \in Nat /\ s * (4 * d) <= (2 * (W - 1)) * (q - 1)
  <2>1. 4 * d \in Nat /\ 4 * d <= q - 1
    BY <1>4
  <2> QED BY <1>1, <2>1, ProductBound
<1>6. s * (4 * d) = 4 * (s * d) /\ s * (d * 5) = 5 * (s * d) /\ s * d \in Nat
  BY <1>4
<1>7. 4 * (s * (d * 5)) <= 10 * p
  <2> DEFINE v == s * d
  <2>1. p \in Int
    OBVIOUS
  <2> HIDE DEF p
  <2>2. v \in Nat /\ 4 * v <= 2 * p /\ s * (d * 5) = 5 * v
    BY <1>2, <1>5, <1>6
  <2> HIDE DEF v
  <2> QED BY <2>1, <2>2
<1> QED BY <1>2, <1>3, <1>6, <1>7 DEF d, p

\* The top word times a word of the key, which brings back what is above.
LEMMA TopProduct ==
    ASSUME NEW q \in Nat \ {0}, NEW s \in Nat, s <= 5, NEW k \in Nat, k <= q - 1
    PROVE  /\ s * ((k \div 4) * 5) \in Nat
           /\ 4 * (s * ((k \div 4) * 5)) <= 25 * (q - 1)
           /\ s * (k % 4) \in 0 .. 15
<1> DEFINE d == k \div 4
           m == k % 4
<1>1. d \in Nat /\ 4 * d <= k /\ m \in 0 .. 3
  OBVIOUS
<1>2. s \in {0, 1, 2, 3, 4, 5}
  OBVIOUS
<1> HIDE DEF d, m
<1>3. s * (d * 5) \in Nat /\ 4 * (s * (d * 5)) <= 25 * (q - 1)
  BY <1>1, <1>2
<1>4. s * m \in 0 .. 15
  BY <1>1, <1>2
<1> QED BY <1>3, <1>4 DEF d, m

\* The sums of poly_block, whatever the key, the accumulator and the chunk.
SumBounds(hh, cc) ==
    /\ \A k \in 0 .. 4 : Sum(hh, cc, k) \in Nat
    /\ \A k \in 0 .. 2 : Sum(hh, cc, k) < W * W - W
    /\ Sum(hh, cc, 4) <= 15
    /\ Sum(hh, cc, 3) + Sum(hh, cc, 4) * W < W * W

\* "<= 97ffffe007fffff8" and so on, in the comments of poly_block.
LEMMA SumsBounded ==
    ASSUME ClampedKey(r), NEW hh, Accumulator(hh), NEW cc, Chunk(cc)
    PROVE  SumBounds(hh, cc)
<1>1. PICK q \in Nat \ {0} : W = 16 * q /\ W \div 16 = q
  BY WordSize
<1> DEFINE s(i) == hh[i] + cc[i]
           rr(i) == (r[i] \div 4) * 5
           p == (W - 1) * (q - 1)
<1>2. W \in Nat /\ W >= 16 /\ W * W = 16 * (W * q) /\ W * q \in Nat /\ W * q >= W
  <2>1. W * q >= W * 1
    <3>1. W \in Nat /\ 1 \in Nat /\ q \in Nat /\ W <= W /\ 1 <= q
      BY <1>1
    <3> QED BY <3>1, ProductBound
  <2> QED BY <1>1, <2>1
<1>3. p = W * q - W - q + 1 /\ p \in Nat
  <2>1. W - 1 \in Nat /\ q - 1 \in Nat
    BY <1>1
  <2> QED BY <1>1, <2>1
<1>4. \A i \in 0 .. 3 : s(i) \in Nat /\ s(i) <= 2 * (W - 1)
  BY <1>2 DEF Accumulator, Chunk, Word
<1>5. s(4) \in Nat /\ s(4) <= 5
  BY <1>2 DEF Accumulator, Chunk, Word
<1>6. \A i \in 0 .. 3 : r[i] \in Nat /\ r[i] <= q - 1
  BY <1>1, <1>2 DEF ClampedKey, Word
<1> HIDE DEF s
<1>7. \A i, j \in 0 .. 3 : /\ s(i) * r[j] \in Nat /\ s(i) * r[j] <= 2 * p
                           /\ s(i) * rr(j) \in Nat /\ 4 * (s(i) * rr(j)) <= 10 * p
  <2> SUFFICES ASSUME NEW i \in 0 .. 3, NEW j \in 0 .. 3
               PROVE  /\ s(i) * r[j] \in Nat /\ s(i) * r[j] <= 2 * p
                      /\ s(i) * rr(j) \in Nat /\ 4 * (s(i) * rr(j)) <= 10 * p
    OBVIOUS
  <2>1. s(i) \in Nat /\ s(i) <= 2 * (W - 1) /\ r[j] \in Nat /\ r[j] <= q - 1
    BY <1>4, <1>6
  <2> QED BY <1>1, <2>1, OneProduct
<1>8. \A j \in 0 .. 3 : /\ s(4) * rr(j) \in Nat /\ 4 * (s(4) * rr(j)) <= 25 * (q - 1)
                        /\ s(4) * (r[j] % 4) \in 0 .. 15
  BY <1>5, <1>6, TopProduct
<1> DEFINE x(k) == Sum(hh, cc, k)
<1>9. /\ x(0) = s(0)*r[0] + s(1)*rr(3) + s(2)*rr(2) + s(3)*rr(1) + s(4)*rr(0)
      /\ x(1) = s(0)*r[1] + s(1)*r[0] + s(2)*rr(3) + s(3)*rr(2) + s(4)*rr(1)
      /\ x(2) = s(0)*r[2] + s(1)*r[1] + s(2)*r[0] + s(3)*rr(3) + s(4)*rr(2)
      /\ x(3) = s(0)*r[3] + s(1)*r[2] + s(2)*r[1] + s(3)*r[0] + s(4)*rr(3)
      /\ x(4) = s(4) * (r[0] % 4)
  BY DEF Sum, s
<1> DEFINE small(i, j) == s(i) * r[j]
           large(i, j) == s(i) * rr(j)
<1>10. /\ \A i, j \in 0 .. 3 : small(i, j) \in Nat /\ small(i, j) <= 2 * p
       /\ \A i, j \in 0 .. 3 : large(i, j) \in Nat /\ 4 * large(i, j) <= 10 * p
       /\ \A j \in 0 .. 3 : large(4, j) \in Nat /\ 4 * large(4, j) <= 25 * (q - 1)
  BY <1>7, <1>8
<1>11. /\ x(0) = small(0, 0) + large(1, 3) + large(2, 2) + large(3, 1) + large(4, 0)
       /\ x(1) = small(0, 1) + small(1, 0) + large(2, 3) + large(3, 2) + large(4, 1)
       /\ x(2) = small(0, 2) + small(1, 1) + small(2, 0) + large(3, 3) + large(4, 2)
       /\ x(3) = small(0, 3) + small(1, 2) + small(2, 1) + small(3, 0) + large(4, 3)
       /\ x(4) \in 0 .. 15
  BY <1>8, <1>9
<1> HIDE DEF x, small, large, p
<1>12. /\ \A k \in {0, 1, 2} : x(k) \in Nat /\ 4 * x(k) <= 38 * p + 25 * (q - 1)
       /\ x(3) \in Nat /\ 4 * x(3) <= 32 * p + 25 * (q - 1)
  BY <1>1, <1>3, <1>10, <1>11
<1>13. \A k \in {0, 1, 2} : x(k) < W * W - W
  <2>1. 38 * p + 25 * (q - 1) < 4 * (W * W - W)
    BY <1>1, <1>2, <1>3
  <2>2. W * W \in Int /\ p \in Int
    BY <1>2, <1>3
  <2> QED BY <1>1, <1>12, <2>1, <2>2
<1>14. x(3) + x(4) * W < W * W
  <2>1. 32 * p + 25 * (q - 1) + 60 * W < 4 * (W * W)
    BY <1>1, <1>2, <1>3
  <2>2. x(4) * W <= 15 * W /\ x(4) * W \in Nat
    <3>1. x(4) \in Nat /\ W \in Nat /\ 15 \in Nat /\ x(4) <= 15 /\ W <= W
      BY <1>2, <1>11
    <3> QED BY <3>1, ProductBound
  <2>3. W * W \in Int /\ p \in Int
    BY <1>2, <1>3
  <2> QED BY <1>1, <1>12, <2>1, <2>2, <2>3
<1>15. \A k \in 0 .. 4 : x(k) \in Nat
  BY <1>11, <1>12
<1> QED BY <1>11, <1>13, <1>14, <1>15 DEF SumBounds, x

\* What is left of a number when its low word is taken away.
LEMMA QuotientBelow ==
    ASSUME NEW x \in Nat, NEW n \in Nat, x < n * W
    PROVE  x \div W \in Nat /\ x \div W < n
<1> DEFINE d == x \div W
           m == x % W
<1>1. W \in Nat /\ W > 0
  BY PolyAssumption
<1>2. d \in Nat /\ m \in Nat /\ x = d * W + m
  BY <1>1
<1> HIDE DEF d, m
<1>3. ASSUME d >= n PROVE FALSE
  <2>1. n * W <= d * W /\ n * W \in Nat /\ d * W \in Nat
    BY <1>1, <1>2, <1>3, ProductBound
  <2> QED BY <1>2, <2>1
<1>4. d < n
  BY <1>2, <1>3
<1> QED BY <1>2, <1>4 DEF d

\* A number that fits is not cut.
LEMMA NotCut ==
    /\ \A x \in 0 .. W - 1 : U32(x) = x
    /\ \A x \in Nat : U32(x) \in Word
    /\ \A x \in Nat : x < W * W => U64(x) = x
<1>1. W \in Nat /\ W > 0
  BY PolyAssumption
<1>2. W * W \in Nat /\ W * W > 0
  <2>1. W * W >= 1 * 1
    BY <1>1, ProductBound
  <2> QED BY <1>1, <2>1
<1>3. \A x \in 0 .. W - 1 : x % W = x
  BY <1>1
<1>4. \A x \in Nat : x % W \in 0 .. W - 1
  BY <1>1
<1>5. ASSUME NEW x \in Nat, x < W * W PROVE x % (W * W) = x
  <2> DEFINE m == W * W
  <2>1. m \in Nat /\ x < m
    BY <1>2, <1>5
  <2> HIDE DEF m
  <2>2. x % m = x
    BY <2>1
  <2> QED BY <2>2 DEF m
<1> QED BY <1>3, <1>4, <1>5 DEF U32, U64, Word

----------------------------------------------------------------------------
(* Numbers modulo the prime.                                               *)
Modulus == 4 * (W * W) * (W * W) - 5

Same(a, b) == \E q \in Int : a = b + q * Modulus

LEMMA ModulusSize ==
    /\ W \in Nat /\ W >= 16 /\ W * W \in Nat /\ W * W >= 256
    /\ (W * W) * (W * W) \in Nat /\ (W * W) * (W * W) >= 65536
    /\ Modulus \in Nat /\ Modulus > 0
<1>1. W \in Nat /\ W >= 16
  BY WordSize
<1>2. 16 * 16 <= W * W /\ W * W \in Nat
  BY <1>1, ProductBound
<1>3. 256 * 256 <= (W * W) * (W * W) /\ (W * W) * (W * W) \in Nat
  <2> DEFINE b == W * W
  <2>1. b \in Nat /\ 256 <= b
    BY <1>2
  <2> HIDE DEF b
  <2>2. 256 * 256 <= b * b /\ b * b \in Nat
    BY <2>1, ProductBound
  <2> QED BY <2>2 DEF b
<1> DEFINE n == (W * W) * (W * W)
<1>4. n \in Nat /\ n >= 65536
  BY <1>3
<1>5. Modulus = 4 * n - 5
  BY <1>2 DEF Modulus
<1> HIDE DEF n
<1>6. Modulus \in Nat /\ Modulus > 0
  BY <1>4, <1>5
<1> QED BY <1>1, <1>2, <1>4, <1>6 DEF n

LEMMA SameSelf ==
    ASSUME NEW a \in Int PROVE Same(a, a)
<1>1. a = a + 0 * Modulus
  BY ModulusSize
<1> QED BY <1>1 DEF Same

LEMMA SameSym ==
    ASSUME NEW a \in Int, NEW b \in Int, Same(a, b) PROVE Same(b, a)
<1>1. PICK q \in Int : a = b + q * Modulus
  BY DEF Same
<1> DEFINE m == Modulus
<1>2. m \in Int
  BY ModulusSize
<1>3. a = b + q * m
  BY <1>1
<1> HIDE DEF m
<1>4. b = a + (-q) * m /\ -q \in Int
  BY <1>2, <1>3
<1> QED BY <1>4 DEF Same, m

LEMMA SameTrans ==
    ASSUME NEW a \in Int, NEW b \in Int, NEW c1 \in Int, Same(a, b), Same(b, c1)
    PROVE  Same(a, c1)
<1>1. PICK q \in Int : a = b + q * Modulus
  BY DEF Same
<1>2. PICK p \in Int : b = c1 + p * Modulus
  BY DEF Same
<1> DEFINE m == Modulus
<1>3. m \in Int /\ a = b + q * m /\ b = c1 + p * m
  BY <1>1, <1>2, ModulusSize
<1> HIDE DEF m
<1>4. a = c1 + (p + q) * m /\ p + q \in Int
  BY <1>3
<1> QED BY <1>4 DEF Same, m

LEMMA SameSum ==
    ASSUME NEW a \in Int, NEW b \in Int, NEW a2 \in Int, NEW b2 \in Int,
           Same(a, b), Same(a2, b2)
    PROVE  Same(a + a2, b + b2)
<1>1. PICK q \in Int : a = b + q * Modulus
  BY DEF Same
<1>2. PICK p \in Int : a2 = b2 + p * Modulus
  BY DEF Same
<1> DEFINE m == Modulus
<1>3. m \in Int /\ a = b + q * m /\ a2 = b2 + p * m
  BY <1>1, <1>2, ModulusSize
<1> HIDE DEF m
<1>4. a + a2 = (b + b2) + (p + q) * m /\ p + q \in Int
  BY <1>3
<1> QED BY <1>4 DEF Same, m

LEMMA SameProduct ==
    ASSUME NEW a \in Int, NEW b \in Int, NEW n \in Int, Same(a, b)
    PROVE  Same(a * n, b * n)
<1>1. PICK q \in Int : a = b + q * Modulus
  BY DEF Same
<1> DEFINE m == Modulus
<1>2. m \in Int /\ a = b + q * m
  BY <1>1, ModulusSize
<1> HIDE DEF m
<1>3. a * n = b * n + (q * n) * m /\ q * n \in Int
  BY <1>2
<1> QED BY <1>3 DEF Same, m
----------------------------------------------------------------------------
(* What the words of a number stand for.                                   *)
Horner(a, b, d, e, f) == a + W * (b + W * (d + W * (e + W * f)))
Value(w) == Horner(w[0], w[1], w[2], w[3], w[4])
KeyValue(k) == Horner(k[0], k[1], k[2], k[3], 0)

LEMMA HornerSum ==
    ASSUME NEW a \in Int, NEW b \in Int, NEW d \in Int, NEW e \in Int, NEW f \in Int,
           NEW a2 \in Int, NEW b2 \in Int, NEW d2 \in Int, NEW e2 \in Int, NEW f2 \in Int
    PROVE  /\ Horner(a, b, d, e, f) \in Int
           /\ Horner(a + a2, b + b2, d + d2, e + e2, f + f2)
                = Horner(a, b, d, e, f) + Horner(a2, b2, d2, e2, f2)
<1>1. W \in Int
  BY ModulusSize
<1> QED BY <1>1 DEF Horner

LEMMA HornerScaled ==
    ASSUME NEW a \in Int, NEW b \in Int, NEW d \in Int, NEW e \in Int, NEW f \in Int,
           NEW n \in Int
    PROVE  Horner(n * a, n * b, n * d, n * e, n * f) = n * Horner(a, b, d, e, f)
<1>1. W \in Int
  BY ModulusSize
<1> DEFINE x == e + W * f
           y == d + W * x
           z == b + W * y
<1>2. x \in Int /\ n * x = n * e + W * (n * f)
  BY <1>1
<1>3. y \in Int /\ n * y = n * d + W * (n * x)
  <2> HIDE DEF x
  <2> QED BY <1>1, <1>2
<1>4. z \in Int /\ n * z = n * b + W * (n * y)
  <2> HIDE DEF y
  <2> QED BY <1>1, <1>3
<1>5. n * (a + W * z) = n * a + W * (n * z)
  <2> HIDE DEF z
  <2> QED BY <1>1, <1>4
<1>6. Horner(a, b, d, e, f) = a + W * z
  BY DEF Horner
<1>7. Horner(n * a, n * b, n * d, n * e, n * f)
        = n * a + W * (n * b + W * (n * d + W * (n * e + W * (n * f))))
  BY DEF Horner
<1> HIDE DEF x, y, z
<1> QED BY <1>2, <1>3, <1>4, <1>5, <1>6, <1>7

\* One word up: what passes the top comes back five times.
LEMMA HornerShift ==
    ASSUME NEW a \in Int, NEW b \in Int, NEW d \in Int, NEW t \in Int, NEW u \in Int
    PROVE  W * Horner(a, b, d, 4 * t + u, 0) = Horner(5 * t, a, b, d, u) + t * Modulus
<1>1. W \in Int
  BY ModulusSize
<1> DEFINE w2 == W * W
           w4 == w2 * w2
<1>2. w2 \in Int /\ w4 \in Int
  BY <1>1
<1>3. Modulus = 4 * w4 - 5
  BY <1>1, <1>2 DEF Modulus
<1>4. Horner(5 * t, a, b, d, u) = 5 * t + W * (a + W * (b + W * d)) + w4 * u
  <2>1. W * (W * (W * (W * u))) = w4 * u
    BY <1>1
  <2> QED BY <1>1, <2>1 DEF Horner
<1>5. W * Horner(a, b, d, 4 * t + u, 0) = W * (a + W * (b + W * d)) + w4 * (4 * t + u)
  <2>1. W * (W * (W * (W * (4 * t + u)))) = w4 * (4 * t + u)
    BY <1>1
  <2> QED BY <1>1, <2>1 DEF Horner
<1> DEFINE g == W * (a + W * (b + W * d))
<1>6. g \in Int
  BY <1>1
<1> HIDE DEF w4, g
<1>7. g + w4 * (4 * t + u) = 5 * t + g + w4 * u + t * (4 * w4 - 5)
  BY <1>2, <1>6
<1> QED BY <1>3, <1>4, <1>5, <1>7 DEF g

----------------------------------------------------------------------------
(* poly_block is a product modulo the prime.                               *)

\* A word of the key is four times what rr is made of, and the rest.
Quartered(a, d, u) == a = 4 * d + u

\* What the sums of poly_block come to: the product of two numbers, word by word, with
\* what passes the top brought back five times.
LEMMA ProductValue ==
    ASSUME NEW s0 \in Int, NEW s1 \in Int, NEW s2 \in Int, NEW s3 \in Int, NEW s4 \in Int,
           NEW r0 \in Int, NEW r1 \in Int, NEW r2 \in Int, NEW r3 \in Int,
           NEW d0 \in Int, NEW d1 \in Int, NEW d2 \in Int, NEW d3 \in Int, NEW u \in Int,
           Quartered(r0, d0, u), Quartered(r1, d1, 0), Quartered(r2, d2, 0),
           Quartered(r3, d3, 0)
    PROVE  Same(Horner(s0*r0 + s1*(d3*5) + s2*(d2*5) + s3*(d1*5) + s4*(d0*5),
                       s0*r1 + s1*r0 + s2*(d3*5) + s3*(d2*5) + s4*(d1*5),
                       s0*r2 + s1*r1 + s2*r0 + s3*(d3*5) + s4*(d2*5),
                       s0*r3 + s1*r2 + s2*r1 + s3*r0 + s4*(d3*5),
                       s4*u),
                Horner(s0, s1, s2, s3, s4) * Horner(r0, r1, r2, r3, 0))
<1>1. PICK f0 \in Int, f1 \in Int, f2 \in Int, f3 \in Int :
        f0 = 5 * d0 /\ f1 = 5 * d1 /\ f2 = 5 * d2 /\ f3 = 5 * d3
  <2>1. 5 * d0 \in Int /\ 5 * d1 \in Int /\ 5 * d2 \in Int /\ 5 * d3 \in Int
    OBVIOUS
  <2> QED BY <2>1
<1>2. PICK M \in Int : M = Modulus
  BY ModulusSize
<1>3. W \in Int
  BY ModulusSize
<1> DEFINE X == Horner(s0*r0 + s1*(d3*5) + s2*(d2*5) + s3*(d1*5) + s4*(d0*5),
                       s0*r1 + s1*r0 + s2*(d3*5) + s3*(d2*5) + s4*(d1*5),
                       s0*r2 + s1*r1 + s2*r0 + s3*(d3*5) + s4*(d2*5),
                       s0*r3 + s1*r2 + s2*r1 + s3*r0 + s4*(d3*5),
                       s4*u)
           T0 == Horner(r0, r1, r2, r3, 0)
           T1 == Horner(f3, r0, r1, r2, 0)
           T2 == Horner(f2, f3, r0, r1, 0)
           T3 == Horner(f1, f2, f3, r0, 0)
           T4 == Horner(f0, f1, f2, f3, u)
<1>4. W * T0 = T1 + d3 * M
  <2>1. W * Horner(r0, r1, r2, 4 * d3 + 0, 0) = Horner(5 * d3, r0, r1, r2, 0) + d3 * Modulus
    BY HornerShift DEF Quartered
  <2> QED BY <1>1, <1>2, <2>1 DEF Quartered
<1>5. W * T1 = T2 + d2 * M
  <2>1. W * Horner(f3, r0, r1, 4 * d2 + 0, 0) = Horner(5 * d2, f3, r0, r1, 0) + d2 * Modulus
    BY HornerShift DEF Quartered
  <2> QED BY <1>1, <1>2, <2>1 DEF Quartered
<1>6. W * T2 = T3 + d1 * M
  <2>1. W * Horner(f2, f3, r0, 4 * d1 + 0, 0) = Horner(5 * d1, f2, f3, r0, 0) + d1 * Modulus
    BY HornerShift DEF Quartered
  <2> QED BY <1>1, <1>2, <2>1 DEF Quartered
<1>7. W * T3 = T4 + d0 * M
  <2>1. W * Horner(f1, f2, f3, 4 * d0 + u, 0) = Horner(5 * d0, f1, f2, f3, u) + d0 * Modulus
    BY HornerShift DEF Quartered
  <2> QED BY <1>1, <1>2, <2>1 DEF Quartered
<1>8. T0 \in Int /\ T1 \in Int /\ T2 \in Int /\ T3 \in Int /\ T4 \in Int
  <2>1. 0 \in Int
    OBVIOUS
  <2>2. T0 \in Int
    BY <1>3 DEF Horner
  <2>3. T1 \in Int
    BY <1>3 DEF Horner
  <2>4. T2 \in Int
    BY <1>3 DEF Horner
  <2>5. T3 \in Int
    BY <1>3 DEF Horner
  <2>6. T4 \in Int
    BY <1>3 DEF Horner
  <2> QED BY <2>2, <2>3, <2>4, <2>5, <2>6
<1>9. X = s0 * T0 + s1 * T1 + s2 * T2 + s3 * T3 + s4 * T4
  <2>0. 0 \in Int
    OBVIOUS
  <2>1. Horner(s0*r0, s0*r1, s0*r2, s0*r3, s0*0) = s0 * T0
    BY <1>3 DEF Horner
  <2>2. Horner(s1*f3, s1*r0, s1*r1, s1*r2, s1*0) = s1 * T1
    BY <1>3 DEF Horner
  <2>3. Horner(s2*f2, s2*f3, s2*r0, s2*r1, s2*0) = s2 * T2
    BY <1>3 DEF Horner
  <2>4. Horner(s3*f1, s3*f2, s3*f3, s3*r0, s3*0) = s3 * T3
    BY <1>3 DEF Horner
  <2>5. Horner(s4*f0, s4*f1, s4*f2, s4*f3, s4*u) = s4 * T4
    BY <1>3 DEF Horner
  <2>6. PICK a0 \in Int, a1 \in Int, a2 \in Int, a3 \in Int :
          a0 = s0*r0 /\ a1 = s0*r1 /\ a2 = s0*r2 /\ a3 = s0*r3
    <3>1. s0*r0 \in Int /\ s0*r1 \in Int /\ s0*r2 \in Int /\ s0*r3 \in Int
      OBVIOUS
    <3> QED BY <3>1
  <2>7. PICK b0 \in Int, b1 \in Int, b2 \in Int, b3 \in Int :
          b0 = s1*f3 /\ b1 = s1*r0 /\ b2 = s1*r1 /\ b3 = s1*r2
    <3>1. s1*f3 \in Int /\ s1*r0 \in Int /\ s1*r1 \in Int /\ s1*r2 \in Int
      OBVIOUS
    <3> QED BY <3>1
  <2>8. PICK c0 \in Int, c1 \in Int, c2 \in Int, c3 \in Int :
          c0 = s2*f2 /\ c1 = s2*f3 /\ c2 = s2*r0 /\ c3 = s2*r1
    <3>1. s2*f2 \in Int /\ s2*f3 \in Int /\ s2*r0 \in Int /\ s2*r1 \in Int
      OBVIOUS
    <3> QED BY <3>1
  <2>9. PICK e0 \in Int, e1 \in Int, e2 \in Int, e3 \in Int :
          e0 = s3*f1 /\ e1 = s3*f2 /\ e2 = s3*f3 /\ e3 = s3*r0
    <3>1. s3*f1 \in Int /\ s3*f2 \in Int /\ s3*f3 \in Int /\ s3*r0 \in Int
      OBVIOUS
    <3> QED BY <3>1
  <2>10. PICK g0 \in Int, g1 \in Int, g2 \in Int, g3 \in Int, g4 \in Int :
          g0 = s4*f0 /\ g1 = s4*f1 /\ g2 = s4*f2 /\ g3 = s4*f3 /\ g4 = s4*u
    <3>1. s4*f0 \in Int /\ s4*f1 \in Int /\ s4*f2 \in Int /\ s4*f3 \in Int /\ s4*u \in Int
      OBVIOUS
    <3> QED BY <3>1
  <2>11. /\ s1*(d3*5) = b0 /\ s2*(d2*5) = c0 /\ s3*(d1*5) = e0 /\ s4*(d0*5) = g0
         /\ s2*(d3*5) = c1 /\ s3*(d2*5) = e1 /\ s4*(d1*5) = g1
         /\ s3*(d3*5) = e2 /\ s4*(d2*5) = g2 /\ s4*(d3*5) = g3
    BY <1>1, <2>7, <2>8, <2>9, <2>10
  <2>12. X = Horner(a0 + b0 + c0 + e0 + g0, a1 + b1 + c1 + e1 + g1, a2 + b2 + c2 + e2 + g2,
                    a3 + b3 + c3 + e3 + g3, g4)
    BY <2>6, <2>7, <2>8, <2>9, <2>10, <2>11
  <2>13. s0*0 = 0 /\ s1*0 = 0 /\ s2*0 = 0 /\ s3*0 = 0
    OBVIOUS
  <2>14. /\ s0 * T0 = Horner(a0, a1, a2, a3, 0) /\ s1 * T1 = Horner(b0, b1, b2, b3, 0)
         /\ s2 * T2 = Horner(c0, c1, c2, c3, 0) /\ s3 * T3 = Horner(e0, e1, e2, e3, 0)
         /\ s4 * T4 = Horner(g0, g1, g2, g3, g4)
    BY <2>1, <2>2, <2>3, <2>4, <2>5, <2>6, <2>7, <2>8, <2>9, <2>10, <2>13
  <2> HIDE DEF X, T0, T1, T2, T3, T4
  <2>15. Horner(a0 + b0 + c0 + e0 + g0, a1 + b1 + c1 + e1 + g1, a2 + b2 + c2 + e2 + g2,
                    a3 + b3 + c3 + e3 + g3, g4)
           = Horner(a0, a1, a2, a3, 0) + Horner(b0, b1, b2, b3, 0) + Horner(c0, c1, c2, c3, 0)
              + Horner(e0, e1, e2, e3, 0) + Horner(g0, g1, g2, g3, g4)
    BY <1>3 DEF Horner
  <2> QED BY <2>12, <2>14, <2>15
<1>10. PICK p0 \in Int, p1 \in Int, p2 \in Int, p3 \in Int :
         p3 = s3 + W * s4 /\ p2 = s2 + W * p3 /\ p1 = s1 + W * p2 /\ p0 = s0 + W * p1
  <2>1. PICK p3 \in Int : p3 = s3 + W * s4
    <3>1. s3 + W * s4 \in Int
      BY <1>3
    <3> QED BY <3>1
  <2>2. PICK p2 \in Int : p2 = s2 + W * p3
    <3>1. s2 + W * p3 \in Int
      BY <1>3
    <3> QED BY <3>1
  <2>3. PICK p1 \in Int : p1 = s1 + W * p2
    <3>1. s1 + W * p2 \in Int
      BY <1>3
    <3> QED BY <3>1
  <2>4. s0 + W * p1 \in Int
    BY <1>3
  <2> QED BY <2>1, <2>2, <2>3, <2>4
<1>11. Horner(s0, s1, s2, s3, s4) = p0
  BY <1>10 DEF Horner
<1>12. X \in Int
  <2>1. s0 * T0 \in Int /\ s1 * T1 \in Int /\ s2 * T2 \in Int /\ s3 * T3 \in Int /\ s4 * T4 \in Int
    <3> HIDE DEF T0, T1, T2, T3, T4
    <3> QED BY <1>8
  <2> HIDE DEF T0, T1, T2, T3, T4, X
  <2> QED BY <1>9, <2>1
<1> HIDE DEF X, T0, T1, T2, T3, T4
<1>13. p0 * T0 = X + (p1 * d3 + p2 * d2 + p3 * d1 + s4 * d0) * M
  <2>1. p3 * T3 = s3 * T3 + s4 * T4 + (s4 * d0) * M
    <3>1. p3 * T3 = s3 * T3 + s4 * (W * T3)
      BY <1>3, <1>8, <1>10
    <3>2. s4 * (W * T3) = s4 * T4 + (s4 * d0) * M
      BY <1>2, <1>7, <1>8
    <3> QED BY <3>1, <3>2, <1>2, <1>8
  <2>2. p2 * T2 = s2 * T2 + p3 * T3 + (p3 * d1) * M
    <3>1. p2 * T2 = s2 * T2 + p3 * (W * T2)
      BY <1>3, <1>8, <1>10
    <3>2. p3 * (W * T2) = p3 * T3 + (p3 * d1) * M
      BY <1>2, <1>6, <1>8, <1>10
    <3> QED BY <3>1, <3>2, <1>2, <1>8, <1>10
  <2>3. p1 * T1 = s1 * T1 + p2 * T2 + (p2 * d2) * M
    <3>1. p1 * T1 = s1 * T1 + p2 * (W * T1)
      BY <1>3, <1>8, <1>10
    <3>2. p2 * (W * T1) = p2 * T2 + (p2 * d2) * M
      BY <1>2, <1>5, <1>8, <1>10
    <3> QED BY <3>1, <3>2, <1>2, <1>8, <1>10
  <2>4. p0 * T0 = s0 * T0 + p1 * T1 + (p1 * d3) * M
    <3>1. p0 * T0 = s0 * T0 + p1 * (W * T0)
      BY <1>3, <1>8, <1>10
    <3>2. p1 * (W * T0) = p1 * T1 + (p1 * d3) * M
      BY <1>2, <1>4, <1>8, <1>10
    <3> QED BY <3>1, <3>2, <1>2, <1>8, <1>10
  <2>5. (p1 * d3 + p2 * d2 + p3 * d1 + s4 * d0) * M
          = (p1 * d3) * M + (p2 * d2) * M + (p3 * d1) * M + (s4 * d0) * M
    BY <1>2, <1>10
  <2>6. PICK v0 \in Int, v1 \in Int, v2 \in Int, v3 \in Int :
           v0 = (p1 * d3) * M /\ v1 = (p2 * d2) * M /\ v2 = (p3 * d1) * M /\ v3 = (s4 * d0) * M
    <3>1. (p1 * d3) * M \in Int /\ (p2 * d2) * M \in Int /\ (p3 * d1) * M \in Int /\ (s4 * d0) * M \in Int
      BY <1>2, <1>10
    <3> QED BY <3>1
  <2>7. PICK z0 \in Int, z1 \in Int, z2 \in Int, z3 \in Int, z4 \in Int :
           z0 = s0 * T0 /\ z1 = s1 * T1 /\ z2 = s2 * T2 /\ z3 = s3 * T3 /\ z4 = s4 * T4
    <3>1. s0 * T0 \in Int /\ s1 * T1 \in Int /\ s2 * T2 \in Int /\ s3 * T3 \in Int /\ s4 * T4 \in Int
      BY <1>8
    <3> QED BY <3>1
  <2> QED BY <1>9, <2>1, <2>2, <2>3, <2>4, <2>5, <2>6, <2>7
<1>14. PICK D \in Int : D = p1 * d3 + p2 * d2 + p3 * d1 + s4 * d0
  <2>1. p1 * d3 + p2 * d2 + p3 * d1 + s4 * d0 \in Int
    BY <1>10
  <2> QED BY <2>1
<1>15. p0 * T0 \in Int /\ X = p0 * T0 + (-D) * M /\ -D \in Int
  <2>1. p0 * T0 = X + D * M
    BY <1>13, <1>14
  <2> QED BY <1>2, <1>8, <1>10, <1>12, <2>1
<1> QED BY <1>2, <1>11, <1>15 DEF Same, X, T0

\* The sums of poly_block, put together.
LEMMA SumsValue ==
    ASSUME ClampedKey(r), NEW hh, Accumulator(hh), NEW cc, Chunk(cc)
    PROVE  Same(Horner(Sum(hh, cc, 0), Sum(hh, cc, 1), Sum(hh, cc, 2), Sum(hh, cc, 3),
                       Sum(hh, cc, 4)),
                (Value(hh) + Value(cc)) * KeyValue(r))
<1>1. PICK h0 \in Int, h1 \in Int, h2 \in Int, h3 \in Int, h4 \in Int :
        hh[0] = h0 /\ hh[1] = h1 /\ hh[2] = h2 /\ hh[3] = h3 /\ hh[4] = h4
  <2>1. hh[0] \in Int /\ hh[1] \in Int /\ hh[2] \in Int /\ hh[3] \in Int /\ hh[4] \in Int
    BY PolyAssumption DEF Accumulator, Word
  <2> QED BY <2>1, Zenon
<1>2. PICK k0 \in Int, k1 \in Int, k2 \in Int, k3 \in Int, k4 \in Int :
        cc[0] = k0 /\ cc[1] = k1 /\ cc[2] = k2 /\ cc[3] = k3 /\ cc[4] = k4
  <2>1. cc[0] \in Int /\ cc[1] \in Int /\ cc[2] \in Int /\ cc[3] \in Int /\ cc[4] \in Int
    BY PolyAssumption DEF Chunk, Word
  <2> QED BY <2>1, Zenon
<1>3. PICK r0 \in Int, r1 \in Int, r2 \in Int, r3 \in Int :
        /\ r[0] = r0 /\ r[1] = r1 /\ r[2] = r2 /\ r[3] = r3
        /\ r1 % 4 = 0 /\ r2 % 4 = 0 /\ r3 % 4 = 0
  <2>1. \A i \in 0 .. 3 : r[i] \in Int
    BY PolyAssumption DEF ClampedKey, Word
  <2> QED BY <2>1 DEF ClampedKey
<1>4. PICK d0 \in Int, d1 \in Int, d2 \in Int, d3 \in Int, u \in Int :
        /\ d0 = r0 \div 4 /\ d1 = r1 \div 4 /\ d2 = r2 \div 4 /\ d3 = r3 \div 4 /\ u = r0 % 4
        /\ r0 = 4 * d0 + u /\ r1 = 4 * d1 + 0 /\ r2 = 4 * d2 + 0 /\ r3 = 4 * d3 + 0
  <2>1. r0 = 4 * (r0 \div 4) + (r0 % 4) /\ r0 \div 4 \in Int /\ r0 % 4 \in Int
    OBVIOUS
  <2>2. r1 = 4 * (r1 \div 4) + 0 /\ r2 = 4 * (r2 \div 4) + 0 /\ r3 = 4 * (r3 \div 4) + 0
        /\ r1 \div 4 \in Int /\ r2 \div 4 \in Int /\ r3 \div 4 \in Int
    BY <1>3
  <2> QED BY <2>1, <2>2
<1>5. PICK s0 \in Int, s1 \in Int, s2 \in Int, s3 \in Int, s4 \in Int :
        s0 = h0 + k0 /\ s1 = h1 + k1 /\ s2 = h2 + k2 /\ s3 = h3 + k3 /\ s4 = h4 + k4
  <2>1. h0 + k0 \in Int /\ h1 + k1 \in Int /\ h2 + k2 \in Int /\ h3 + k3 \in Int /\ h4 + k4 \in Int
    OBVIOUS
  <2> QED BY <2>1
<1>6. /\ Sum(hh, cc, 0) = s0*r0 + s1*(d3*5) + s2*(d2*5) + s3*(d1*5) + s4*(d0*5)
      /\ Sum(hh, cc, 1) = s0*r1 + s1*r0 + s2*(d3*5) + s3*(d2*5) + s4*(d1*5)
      /\ Sum(hh, cc, 2) = s0*r2 + s1*r1 + s2*r0 + s3*(d3*5) + s4*(d2*5)
      /\ Sum(hh, cc, 3) = s0*r3 + s1*r2 + s2*r1 + s3*r0 + s4*(d3*5)
      /\ Sum(hh, cc, 4) = s4*u
  BY <1>1, <1>2, <1>3, <1>4, <1>5 DEF Sum
<1>7. Horner(s0, s1, s2, s3, s4) = Value(hh) + Value(cc)
  <2>1. Horner(h0 + k0, h1 + k1, h2 + k2, h3 + k3, h4 + k4)
          = Horner(h0, h1, h2, h3, h4) + Horner(k0, k1, k2, k3, k4)
    BY ModulusSize DEF Horner
  <2> QED BY <1>1, <1>2, <1>5, <2>1 DEF Value
<1>8. Same(Horner(s0*r0 + s1*(d3*5) + s2*(d2*5) + s3*(d1*5) + s4*(d0*5),
                  s0*r1 + s1*r0 + s2*(d3*5) + s3*(d2*5) + s4*(d1*5),
                  s0*r2 + s1*r1 + s2*r0 + s3*(d3*5) + s4*(d2*5),
                  s0*r3 + s1*r2 + s2*r1 + s3*r0 + s4*(d3*5), s4*u),
           Horner(s0, s1, s2, s3, s4) * Horner(r0, r1, r2, r3, 0))
  <2>1. /\ Quartered(r0, d0, u) /\ Quartered(r1, d1, 0) /\ Quartered(r2, d2, 0)
        /\ Quartered(r3, d3, 0)
    BY <1>4 DEF Quartered
  <2> QED BY <2>1, ProductValue, Zenon
<1> QED BY <1>3, <1>6, <1>7, <1>8 DEF KeyValue

\* A number, what it carries and what stays of it.
Carry(a, k, d) == a = W * k + d

\* The carries of poly_block move what a word holds, and drop multiples of the prime.
LEMMA CarryValue ==
    ASSUME NEW x0 \in Int, NEW x1 \in Int, NEW x2 \in Int, NEW x3 \in Int, NEW x4 \in Int,
           NEW y0 \in Int, NEW y1 \in Int, NEW y2 \in Int, NEW y3 \in Int,
           NEW l0 \in Int, NEW l1 \in Int, NEW l2 \in Int, NEW l3 \in Int,
           NEW t \in Int, NEW v \in Int,
           NEW k0 \in Int, NEW k1 \in Int, NEW k2 \in Int, NEW k3 \in Int,
           NEW h0 \in Int, NEW h1 \in Int, NEW h2 \in Int, NEW h3 \in Int,
           Carry(x0, y0, l0), Carry(x1, y1, l1), Carry(x2, y2, l2), Carry(x3, y3, l3),
           Quartered(x4 + y3, t, v),
           Carry(5 * t + l0, k0, h0), Carry(k0 + l1 + y0, k1, h1),
           Carry(k1 + l2 + y1, k2, h2), Carry(k2 + l3 + y2, k3, h3)
    PROVE  Same(Horner(h0, h1, h2, h3, k3 + v), Horner(x0, x1, x2, x3, x4))
<1>0. /\ x0 = W * y0 + l0 /\ x1 = W * y1 + l1 /\ x2 = W * y2 + l2 /\ x3 = W * y3 + l3
      /\ x4 + y3 = 4 * t + v
      /\ 5 * t + l0 = W * k0 + h0
      /\ k0 + l1 + y0 = W * k1 + h1
      /\ k1 + l2 + y1 = W * k2 + h2
      /\ k2 + l3 + y2 = W * k3 + h3
  BY DEF Carry, Quartered
<1>1. W \in Int
  BY ModulusSize
<1>2. PICK w4 \in Int : w4 = (W * W) * (W * W)
  BY ModulusSize
<1>3. Modulus = 4 * w4 - 5
  <2>1. 4 * (W * W) * (W * W) = 4 * ((W * W) * (W * W))
    BY <1>0, <1>1
  <2> QED BY <1>2, <2>1 DEF Modulus
<1>4. PICK g \in Int : g = l0 + W * (l1 + y0 + W * (l2 + y1 + W * (l3 + y2)))
  <2>1. l0 + W * (l1 + y0 + W * (l2 + y1 + W * (l3 + y2))) \in Int
    BY <1>0, <1>1
  <2> QED BY <2>1
<1>5. Horner(h0, h1, h2, h3, k3 + v) = 5 * t + g + w4 * v
  <2>1. h3 + W * (k3 + v) = k2 + l3 + y2 + W * v
    BY <1>0, <1>1
  <2>2. h2 + W * (k2 + l3 + y2 + W * v) = k1 + l2 + y1 + W * (l3 + y2 + W * v)
    BY <1>0, <1>1
  <2>3. h1 + W * (k1 + l2 + y1 + W * (l3 + y2 + W * v))
          = k0 + l1 + y0 + W * (l2 + y1 + W * (l3 + y2 + W * v))
    BY <1>0, <1>1
  <2>4. h0 + W * (k0 + l1 + y0 + W * (l2 + y1 + W * (l3 + y2 + W * v)))
          = 5 * t + l0 + W * (l1 + y0 + W * (l2 + y1 + W * (l3 + y2 + W * v)))
    BY <1>0, <1>1
  <2>5. l0 + W * (l1 + y0 + W * (l2 + y1 + W * (l3 + y2 + W * v))) = g + w4 * v
    <3>1. W * (W * (W * (W * v))) = w4 * v
      BY <1>1, <1>2
    <3> QED BY <1>1, <1>4, <3>1
  <2> QED BY <1>1, <1>2, <1>4, <2>1, <2>2, <2>3, <2>4, <2>5 DEF Horner
<1>6. Horner(x0, x1, x2, x3, x4) = g + w4 * (4 * t + v)
  <2>1. Horner(x0, x1, x2, x3, x4)
          = l0 + W * (l1 + y0 + W * (l2 + y1 + W * (l3 + y2 + W * (x4 + y3))))
    BY <1>0, <1>1 DEF Horner
  <2>2. W * (W * (W * (W * (4 * t + v)))) = w4 * (4 * t + v)
    BY <1>1, <1>2
  <2>3. PICK z \in Int : z = 4 * t + v
    OBVIOUS
  <2>4. l0 + W * (l1 + y0 + W * (l2 + y1 + W * (l3 + y2 + W * z))) = g + W * (W * (W * (W * z)))
    BY <1>1, <1>4
  <2> QED BY <1>0, <2>1, <2>2, <2>3, <2>4
<1>7. 5 * t + g + w4 * v + t * (4 * w4 - 5) = g + w4 * (4 * t + v)
  BY <1>2, <1>4
<1>8. PICK m \in Int : m = Modulus
  BY ModulusSize
<1>9. PICK b \in Int : b = Horner(x0, x1, x2, x3, x4)
  <2>1. Horner(x0, x1, x2, x3, x4) \in Int
    BY <1>1 DEF Horner
  <2> QED BY <2>1
<1>10. PICK a \in Int : a = Horner(h0, h1, h2, h3, k3 + v)
  <2>1. Horner(h0, h1, h2, h3, k3 + v) \in Int
    BY <1>1 DEF Horner
  <2> QED BY <2>1
<1>11. a + t * m = b
  BY <1>2, <1>3, <1>4, <1>5, <1>6, <1>7, <1>8, <1>9, <1>10
<1>12. a = b + (-t) * m /\ -t \in Int
  BY <1>11
<1> QED BY <1>8, <1>9, <1>10, <1>12 DEF Same

LEMMA ValueIsInt ==
    /\ \A hh : Accumulator(hh) \/ Chunk(hh) => Value(hh) \in Nat
    /\ \A k : ClampedKey(k) => KeyValue(k) \in Nat
<1>1. W \in Nat
  BY ModulusSize
<1>2. ASSUME NEW a \in Nat, NEW b \in Nat, NEW d \in Nat, NEW e \in Nat, NEW f \in Nat
      PROVE  Horner(a, b, d, e, f) \in Nat
  <2>1. e + W * f \in Nat
    BY <1>1
  <2>2. d + W * (e + W * f) \in Nat
    BY <1>1, <2>1
  <2>3. b + W * (d + W * (e + W * f)) \in Nat
    BY <1>1, <2>2
  <2> QED BY <1>1, <2>3 DEF Horner
<1>3. ASSUME NEW hh, Accumulator(hh) \/ Chunk(hh) PROVE Value(hh) \in Nat
  <2>1. hh[0] \in Nat /\ hh[1] \in Nat /\ hh[2] \in Nat /\ hh[3] \in Nat /\ hh[4] \in Nat
    BY <1>1, <1>3 DEF Accumulator, Chunk, Word
  <2> QED BY <1>2, <2>1 DEF Value
<1>4. ASSUME NEW k, ClampedKey(k) PROVE KeyValue(k) \in Nat
  <2>1. k[0] \in Nat /\ k[1] \in Nat /\ k[2] \in Nat /\ k[3] \in Nat /\ 0 \in Nat
    BY <1>1, <1>4 DEF ClampedKey, Word
  <2> QED BY <1>2, <2>1 DEF KeyValue
<1> QED BY <1>3, <1>4

\* "Postcondition: ctx->h <= 4_ffffffff_...": the accumulator after a block; and
\* poly_block multiplies by the key, modulo the prime.
LEMMA BlockValue ==
    ASSUME ClampedKey(r), NEW hh, Accumulator(hh), NEW cc, Chunk(cc)
    PROVE  /\ Accumulator(BlockStep(hh, cc))
           /\ Same(Value(BlockStep(hh, cc)), (Value(hh) + Value(cc)) * KeyValue(r))
<1> DEFINE x(k) == U64(Sum(hh, cc, k))
           u5 == U32(U32(x(4)) + (x(3) \div W))
           u0 == (u5 \div 4) * 5 + U32(x(0))
           u1 == (u0 \div W) + U32(x(1)) + (x(0) \div W)
           u2 == (u1 \div W) + U32(x(2)) + (x(1) \div W)
           u3 == (u2 \div W) + U32(x(3)) + (x(2) \div W)
           u4 == (u3 \div W) + (u5 % 4)
<1>1. BlockStep(hh, cc) =
        [i \in 0 .. 4 |-> CASE i = 0 -> U32(u0) [] i = 1 -> U32(u1)
                            [] i = 2 -> U32(u2) [] i = 3 -> U32(u3)
                            [] i = 4 -> U32(u4)]
  BY DEF BlockStep
<1>2. W \in Nat /\ W >= 16 /\ (W - 1) * W = W * W - W /\ W * W \in Nat /\ W - 1 \in Nat
  BY WordSize
<1>3. /\ \A k \in 0 .. 2 : x(k) \in Nat /\ x(k) < (W - 1) * W
      /\ x(3) \in Nat /\ x(4) \in 0 .. 15 /\ x(3) + x(4) * W < W * W
      /\ \A k \in 0 .. 4 : x(k) = Sum(hh, cc, k)
  <2>1. SumBounds(hh, cc)
    BY SumsBounded
  <2> DEFINE z(k) == Sum(hh, cc, k)
  <2>2. /\ \A k \in 0 .. 4 : z(k) \in Nat
        /\ \A k \in 0 .. 2 : z(k) < W * W - W
        /\ z(4) <= 15 /\ z(3) + z(4) * W < W * W
    BY <2>1 DEF SumBounds
  <2> HIDE DEF z
  <2>3. z(4) * W \in Nat
    BY <1>2, <2>2, ProductBound
  <2>4. W * W >= 16
    <3>1. W * W >= 16 * 1
      BY <1>2, ProductBound
    <3> QED BY <3>1
  <2>5. \A k \in 0 .. 4 : z(k) < W * W
    BY <1>2, <2>2, <2>3, <2>4
  <2>6. \A k \in 0 .. 4 : x(k) = z(k)
    BY <2>2, <2>5, NotCut DEF z
  <2>7. \A k \in 0 .. 4 : x(k) = Sum(hh, cc, k)
    BY <2>6 DEF z
  <2> HIDE DEF x
  <2> QED BY <1>2, <2>2, <2>6, <2>7
<1> HIDE DEF x
<1>4. \A k \in 0 .. 2 : x(k) \div W \in Nat /\ x(k) \div W <= W - 2
  <2> SUFFICES ASSUME NEW k \in 0 .. 2
               PROVE  x(k) \div W \in Nat /\ x(k) \div W <= W - 2
    OBVIOUS
  <2>1. x(k) \div W \in Nat /\ x(k) \div W < W - 1
    BY <1>2, <1>3, QuotientBelow
  <2> QED BY <1>2, <2>1
<1>5. \A k \in 0 .. 4 : U32(x(k)) \in 0 .. W - 1 /\ x(k) = W * (x(k) \div W) + U32(x(k))
  <2>1. \A k \in 0 .. 4 : x(k) \in Nat
    BY <1>3
  <2>2. \A y \in Nat : y = W * (y \div W) + U32(y)
    BY <1>2 DEF U32
  <2> QED BY <2>1, <2>2, NotCut DEF Word
<1>6. x(3) \div W \in Nat /\ x(4) + (x(3) \div W) <= W - 1
  <2> DEFINE n == W - x(4)
  <2>1. n \in Nat /\ x(3) < n * W
    BY <1>2, <1>3
  <2>2. x(3) \div W \in Nat /\ x(3) \div W < n
    BY <1>3, <2>1, QuotientBelow
  <2> QED BY <1>2, <1>3, <2>2
<1>7. u5 \in 0 .. W - 1 /\ u5 = x(4) + (x(3) \div W)
  <2>1. U32(x(4)) = x(4)
    BY <1>2, <1>3, NotCut
  <2>2. x(4) + (x(3) \div W) \in 0 .. W - 1
    BY <1>2, <1>3, <1>6
  <2> QED BY <2>1, <2>2, NotCut
<1> HIDE DEF u5
<1>8. u0 \in Nat /\ u0 < 3 * W
  BY <1>2, <1>5, <1>7
<1>e0. u0 = (u5 \div 4) * 5 + U32(x(0))
  OBVIOUS
<1> HIDE DEF u0
<1>9. u0 \div W \in Nat /\ u0 \div W <= 2
  <2>1. u0 \div W \in Nat /\ u0 \div W < 3
    BY <1>8, QuotientBelow
  <2> QED BY <2>1
<1>10. u1 \in Nat /\ u1 < 3 * W
  BY <1>2, <1>4, <1>5, <1>9
<1>e1. u1 = (u0 \div W) + U32(x(1)) + (x(0) \div W)
  OBVIOUS
<1> HIDE DEF u1
<1>11. u1 \div W \in Nat /\ u1 \div W <= 2
  <2>1. u1 \div W \in Nat /\ u1 \div W < 3
    BY <1>10, QuotientBelow
  <2> QED BY <2>1
<1>12. u2 \in Nat /\ u2 < 3 * W
  BY <1>2, <1>4, <1>5, <1>11
<1>e2. u2 = (u1 \div W) + U32(x(2)) + (x(1) \div W)
  OBVIOUS
<1> HIDE DEF u2
<1>13. u2 \div W \in Nat /\ u2 \div W <= 2
  <2>1. u2 \div W \in Nat /\ u2 \div W < 3
    BY <1>12, QuotientBelow
  <2> QED BY <2>1
<1>14. u3 \in Nat /\ u3 < 2 * W
  BY <1>2, <1>4, <1>5, <1>13
<1>e3. u3 = (u2 \div W) + U32(x(3)) + (x(2) \div W)
  OBVIOUS
<1> HIDE DEF u3
<1>15. u3 \div W \in Nat /\ u3 \div W <= 1
  <2>1. u3 \div W \in Nat /\ u3 \div W < 2
    BY <1>14, QuotientBelow
  <2> QED BY <2>1
<1>16. u4 \in 0 .. 4
  BY <1>7, <1>15
<1>17. U32(u4) = u4
  BY <1>2, <1>16, NotCut
<1>e4. u4 = (u3 \div W) + (u5 % 4)
  OBVIOUS
<1> HIDE DEF u4
<1>18. BlockStep(hh, cc) \in [0 .. 4 -> Word]
  BY <1>1, <1>8, <1>10, <1>12, <1>14, <1>16, NotCut
<1>19. BlockStep(hh, cc)[4] = u4
  BY <1>1, <1>17
<1>20. Accumulator(BlockStep(hh, cc))
  BY <1>16, <1>18, <1>19 DEF Accumulator
<1>21. PICK x0 \in Int, x1 \in Int, x2 \in Int, x3 \in Int, x4 \in Int :
         x0 = x(0) /\ x1 = x(1) /\ x2 = x(2) /\ x3 = x(3) /\ x4 = x(4)
  <2>1. x(0) \in Int /\ x(1) \in Int /\ x(2) \in Int /\ x(3) \in Int /\ x(4) \in Int
    BY <1>3
  <2> QED BY <2>1, Zenon
<1>22. PICK y0 \in Int, y1 \in Int, y2 \in Int, y3 \in Int :
         y0 = x(0) \div W /\ y1 = x(1) \div W /\ y2 = x(2) \div W /\ y3 = x(3) \div W
  <2>1. x(0) \div W \in Int /\ x(1) \div W \in Int /\ x(2) \div W \in Int /\ x(3) \div W \in Int
    BY <1>4, <1>6
  <2> QED BY <2>1, Zenon
<1>23. PICK l0 \in Int, l1 \in Int, l2 \in Int, l3 \in Int :
         l0 = U32(x(0)) /\ l1 = U32(x(1)) /\ l2 = U32(x(2)) /\ l3 = U32(x(3))
  <2>1. U32(x(0)) \in Int /\ U32(x(1)) \in Int /\ U32(x(2)) \in Int /\ U32(x(3)) \in Int
    BY <1>2, <1>5
  <2> QED BY <2>1, Zenon
<1>24. PICK t \in Int, v \in Int : t = u5 \div 4 /\ v = u5 % 4 /\ u5 = 4 * t + v
  <2>1. u5 \in Int
    BY <1>2, <1>7
  <2>2. u5 \div 4 \in Int /\ u5 % 4 \in Int /\ u5 = 4 * (u5 \div 4) + (u5 % 4)
    BY <2>1
  <2> QED BY <2>2, Zenon
<1>25. PICK k0 \in Int, k1 \in Int, k2 \in Int, k3 \in Int :
         k0 = u0 \div W /\ k1 = u1 \div W /\ k2 = u2 \div W /\ k3 = u3 \div W
  <2>1. u0 \div W \in Int /\ u1 \div W \in Int /\ u2 \div W \in Int /\ u3 \div W \in Int
    BY <1>9, <1>11, <1>13, <1>15
  <2> QED BY <2>1, Zenon
<1>26. PICK h0 \in Int, h1 \in Int, h2 \in Int, h3 \in Int, h4 \in Int :
         /\ h0 = U32(u0) /\ h1 = U32(u1) /\ h2 = U32(u2) /\ h3 = U32(u3) /\ h4 = u4
         /\ u0 = W * k0 + h0 /\ u1 = W * k1 + h1 /\ u2 = W * k2 + h2 /\ u3 = W * k3 + h3
  <2>1. \A y \in Nat : y = W * (y \div W) + U32(y) /\ U32(y) \in Int
    BY <1>2 DEF U32
  <2>2. /\ u0 = W * (u0 \div W) + U32(u0) /\ U32(u0) \in Int
        /\ u1 = W * (u1 \div W) + U32(u1) /\ U32(u1) \in Int
        /\ u2 = W * (u2 \div W) + U32(u2) /\ U32(u2) \in Int
        /\ u3 = W * (u3 \div W) + U32(u3) /\ U32(u3) \in Int
        /\ u4 \in Int
    BY <1>8, <1>10, <1>12, <1>14, <1>16, <2>1
  <2> QED BY <1>25, <2>2
<1>27. /\ Carry(x0, y0, l0) /\ Carry(x1, y1, l1) /\ Carry(x2, y2, l2) /\ Carry(x3, y3, l3)
       /\ Quartered(x4 + y3, t, v)
       /\ Carry(5 * t + l0, k0, h0) /\ Carry(k0 + l1 + y0, k1, h1)
       /\ Carry(k1 + l2 + y1, k2, h2) /\ Carry(k2 + l3 + y2, k3, h3)
       /\ h4 = k3 + v
  <2>1. x(0) = W * (x(0) \div W) + U32(x(0)) /\ x(1) = W * (x(1) \div W) + U32(x(1))
        /\ x(2) = W * (x(2) \div W) + U32(x(2)) /\ x(3) = W * (x(3) \div W) + U32(x(3))
    BY <1>5
  <2>2. Carry(x0, y0, l0) /\ Carry(x1, y1, l1) /\ Carry(x2, y2, l2) /\ Carry(x3, y3, l3)
    BY <1>21, <1>22, <1>23, <2>1 DEF Carry
  <2>3. Quartered(x4 + y3, t, v)
    BY <1>7, <1>21, <1>22, <1>24 DEF Quartered
  <2>4. Carry(5 * t + l0, k0, h0)
    <3>1. u0 = t * 5 + l0
      BY <1>e0, <1>23, <1>24
    <3>2. u0 = 5 * t + l0
      BY <3>1
    <3>3. u0 = W * k0 + h0
      BY <1>26
    <3> QED BY <3>2, <3>3 DEF Carry
  <2>5. Carry(k0 + l1 + y0, k1, h1)
    BY <1>e1, <1>22, <1>23, <1>25, <1>26 DEF Carry
  <2>6. Carry(k1 + l2 + y1, k2, h2)
    BY <1>e2, <1>22, <1>23, <1>25, <1>26 DEF Carry
  <2>7. Carry(k2 + l3 + y2, k3, h3)
    BY <1>e3, <1>22, <1>23, <1>25, <1>26 DEF Carry
  <2> QED BY <2>2, <2>3, <2>4, <2>5, <2>6, <2>7, <1>e4, <1>24, <1>25, <1>26
<1>28. Same(Horner(h0, h1, h2, h3, k3 + v), Horner(x0, x1, x2, x3, x4))
  BY <1>27, CarryValue, Zenon
<1>29. Value(BlockStep(hh, cc)) = Horner(h0, h1, h2, h3, h4)
  BY <1>1, <1>17, <1>26 DEF Value
<1>30. Same(Horner(x0, x1, x2, x3, x4), (Value(hh) + Value(cc)) * KeyValue(r))
  BY <1>3, <1>21, SumsValue
<1>31. Same(Value(BlockStep(hh, cc)), Horner(x0, x1, x2, x3, x4))
  BY <1>27, <1>28, <1>29
<1>32. Horner(x0, x1, x2, x3, x4) \in Int /\ Value(BlockStep(hh, cc)) \in Int
  BY <1>2, <1>29 DEF Horner
<1>33. (Value(hh) + Value(cc)) * KeyValue(r) \in Int
  BY ValueIsInt
<1> QED BY <1>20, <1>30, <1>31, <1>32, <1>33, SameTrans

LEMMA BlockBounded ==
    ASSUME ClampedKey(r), NEW hh, Accumulator(hh), NEW cc, Chunk(cc)
    PROVE  Accumulator(BlockStep(hh, cc))
BY BlockValue

----------------------------------------------------------------------------
Byte == 0 .. ByteSize - 1

\* A digit more: what is below m times the base comes to be below m.
LEMMA DigitBelow ==
    ASSUME NEW m \in Nat, NEW v \in Nat, v < m, NEW b \in Byte
    PROVE  b + ByteSize * v \in Nat /\ b + ByteSize * v < ByteSize * m
<1>1. ByteSize \in Nat /\ ByteSize > 0 /\ b \in Nat /\ b <= ByteSize - 1
  BY PolyAssumption DEF Byte
<1>2. ByteSize * (v + 1) <= ByteSize * m
  <2>1. v + 1 \in Nat /\ v + 1 <= m /\ ByteSize <= ByteSize
    BY <1>1
  <2> QED BY <1>1, <2>1, ProductBound
<1>3. ByteSize * (v + 1) = ByteSize * v + ByteSize /\ ByteSize * v \in Nat
  BY <1>1
<1>4. ByteSize * m \in Nat
  BY <1>1
<1> QED BY <1>1, <1>2, <1>3, <1>4

\* Four bytes are a word.
LEMMA LoadedWord ==
    ASSUME NEW s \in Seq(Byte), NEW n \in Nat, n + 4 <= Len(s)
    PROVE  Load32(s, n) \in Word
<1>1. s[n + 1] \in Byte /\ s[n + 2] \in Byte /\ s[n + 3] \in Byte /\ s[n + 4] \in Byte
  OBVIOUS
<1>2. ByteSize \in Nat /\ ByteSize > 0 /\ W = ByteSize * ByteSize * ByteSize * ByteSize
  BY PolyAssumption
<1> DEFINE v4 == s[n + 4]
           v3 == s[n + 3] + ByteSize * v4
           v2 == s[n + 2] + ByteSize * v3
           v1 == s[n + 1] + ByteSize * v2
<1>3. v4 \in Nat /\ v4 < ByteSize
  BY <1>1, <1>2 DEF Byte
<1> HIDE DEF v4
<1>4. v3 \in Nat /\ v3 < ByteSize * ByteSize
  BY <1>1, <1>2, <1>3, DigitBelow
<1> HIDE DEF v3
<1>5. ByteSize * ByteSize \in Nat
  BY <1>2
<1>6. v2 \in Nat /\ v2 < ByteSize * (ByteSize * ByteSize)
  BY <1>1, <1>4, <1>5, DigitBelow
<1> HIDE DEF v2
<1>7. ByteSize * (ByteSize * ByteSize) \in Nat
  BY <1>2, <1>5
<1>8. v1 \in Nat /\ v1 < ByteSize * (ByteSize * (ByteSize * ByteSize))
  BY <1>1, <1>6, <1>7, DigitBelow
<1>9. ByteSize * (ByteSize * (ByteSize * ByteSize)) = W
  BY <1>2
<1>10. Load32(s, n) = v1
  BY DEF Load32, v1, v2, v3, v4
<1> HIDE DEF v1
<1> QED BY <1>8, <1>9, <1>10, PolyAssumption DEF Word

\* So a block of the message is a chunk.
LEMMA LoadedIsChunk ==
    ASSUME NEW s \in Seq(Byte), NEW n \in Nat, n + PolyBlock <= Len(s), NEW cc, Chunk(cc)
    PROVE  Chunk(LoadedChunk(cc, s, n))
<1>1. \A i \in 0 .. 3 : Load32(s, n + 4 * i) \in Word
  <2> SUFFICES ASSUME NEW i \in 0 .. 3 PROVE Load32(s, n + 4 * i) \in Word
    OBVIOUS
  <2>1. n + 4 * i \in Nat /\ (n + 4 * i) + 4 <= Len(s)
    BY DEF PolyBlock
  <2> QED BY <2>1, LoadedWord
<1>2. LoadedChunk(cc, s, n) \in [0 .. 4 -> Word] /\ LoadedChunk(cc, s, n)[4] = cc[4]
  BY <1>1 DEF LoadedChunk, Chunk
<1> QED BY <1>2 DEF Chunk

\* What word i of a chunk is below when n of its bytes are there.
Limit(n, i) ==
    IF n >= 4 * i + 4 THEN W ELSE IF n <= 4 * i THEN 1 ELSE Place[(n - 4 * i) + 1]

Filled(cc, n) == Chunk(cc) /\ \A i \in 0 .. 3 : cc[i] < Limit(n, i)

\* The places of the bytes of a word, each a byte above the one before.
LEMMA Places ==
    /\ \A k \in 0 .. 3 : Place[k + 1] \in Nat
    /\ \A k \in 0 .. 2 : Place[k + 2] = ByteSize * Place[k + 1]
    /\ Place[1] = 1 /\ W = ByteSize * Place[4]
    /\ \A k \in 0 .. 3 : ByteSize * Place[k + 1] \in Nat /\ ByteSize * Place[k + 1] <= W
<1>1. ByteSize \in Nat /\ W = ByteSize * ByteSize * ByteSize * ByteSize
  BY PolyAssumption
<1>2. /\ Place[1] = 1 /\ Place[2] = ByteSize /\ Place[3] = ByteSize * ByteSize
      /\ Place[4] = ByteSize * ByteSize * ByteSize
  BY DEF Place
<1>3. ByteSize * ByteSize \in Nat /\ ByteSize * ByteSize * ByteSize \in Nat
  BY <1>1
<1>4. /\ ByteSize * (ByteSize * ByteSize) = ByteSize * ByteSize * ByteSize
      /\ ByteSize * (ByteSize * ByteSize * ByteSize) = W
      /\ ByteSize * 1 = ByteSize
  BY <1>1
<1>5. \A k \in 0 .. 3 : Place[k + 1] \in Nat
  BY <1>1, <1>2, <1>3
<1>6. \A k \in 0 .. 2 : Place[k + 2] = ByteSize * Place[k + 1]
  <2> SUFFICES ASSUME NEW k \in 0 .. 2 PROVE Place[k + 2] = ByteSize * Place[k + 1]
    OBVIOUS
  <2>1. CASE k = 0 BY <1>2, <1>4, <2>1
  <2>2. CASE k = 1 BY <1>2, <1>4, <2>2
  <2>3. CASE k = 2 BY <1>2, <1>4, <2>3
  <2> QED BY <2>1, <2>2, <2>3
<1>7. \A m \in Nat : m <= ByteSize * m
  <2> SUFFICES ASSUME NEW m \in Nat PROVE m <= ByteSize * m
    OBVIOUS
  <2>1. 1 * m <= ByteSize * m
    <3>1. 1 \in Nat /\ 1 <= ByteSize /\ m <= m
      BY PolyAssumption
    <3> QED BY <1>1, <3>1, ProductBound
  <2> QED BY <2>1
<1>8. \A k \in 0 .. 3 : ByteSize * Place[k + 1] \in Nat /\ ByteSize * Place[k + 1] <= W
  <2> DEFINE m(k) == ByteSize * Place[k + 1]
  <2>1. /\ m(0) = ByteSize /\ m(1) = ByteSize * m(0) /\ m(2) = ByteSize * m(1)
        /\ m(3) = ByteSize * m(2) /\ m(3) = W
    BY <1>2, <1>4
  <2>2. \A k \in 0 .. 3 : m(k) \in Nat
    BY <1>1, <1>5
  <2> HIDE DEF m
  <2>3. m(0) <= m(1) /\ m(1) <= m(2) /\ m(2) <= m(3)
    BY <1>7, <2>1, <2>2
  <2>4. \A k \in 0 .. 3 : m(k) \in Nat /\ m(k) <= W
    BY <2>1, <2>2, <2>3
  <2> QED BY <2>4 DEF m
<1> QED BY <1>2, <1>4, <1>5, <1>6, <1>8

\* A byte more is taken into its place.
LEMMA TakenByte ==
    ASSUME NEW cc, NEW n \in 0 .. PolyBlock - 1, Filled(cc, n), NEW b \in Byte
    PROVE  Filled(TakeInput(cc, n, b), n + 1)
<1> DEFINE w == n \div 4
           k == n % 4
           next == cc[w] + b * Place[k + 1]
<1>1. w \in 0 .. 3 /\ k \in 0 .. 3 /\ n = 4 * w + k
  BY DEF PolyBlock
<1>2. cc \in [0 .. 4 -> Word] /\ cc[4] <= 1 /\ W \in Nat
  BY PolyAssumption DEF Filled, Chunk
<1>3. TakeInput(cc, n, b) = [cc EXCEPT ![w] = next]
  BY DEF TakeInput
<1> HIDE DEF w, k
<1>4. cc[w] \in Nat /\ cc[w] < Place[k + 1]
  <2>1. cc[w] < Limit(n, w) /\ cc[w] \in Nat
    BY <1>1, <1>2 DEF Filled, Word
  <2>2. CASE k = 0
    <3>1. Limit(n, w) = 1
      BY <1>1, <2>2 DEF Limit
    <3> QED BY <2>1, <2>2, <3>1, Places
  <2>3. CASE k # 0
    <3>1. Limit(n, w) = Place[k + 1]
      BY <1>1, <2>3 DEF Limit
    <3> QED BY <2>1, <3>1
  <2> QED BY <2>2, <2>3
<1>5. Limit(n + 1, w) = ByteSize * Place[k + 1]
  <2>1. CASE k = 3
    <3>1. Limit(n + 1, w) = W
      BY <1>1, <2>1 DEF Limit
    <3> QED BY <2>1, <3>1, Places
  <2>2. CASE k # 3
    <3>1. Limit(n + 1, w) = Place[k + 2]
      BY <1>1, <2>2 DEF Limit
    <3> QED BY <1>1, <2>2, <3>1, Places
  <2> QED BY <2>1, <2>2
<1>6. next \in Nat /\ next < ByteSize * Place[k + 1]
  <2> DEFINE m == Place[k + 1]
             u == cc[w]
  <2>1. u \in Nat /\ u < m /\ m \in Nat
    BY <1>1, <1>4, Places
  <2>5. b \in Nat /\ b <= ByteSize - 1 /\ ByteSize \in Nat
    BY PolyAssumption DEF Byte
  <2> HIDE DEF m, u
  <2>2. b * m \in Nat /\ b * m <= (ByteSize - 1) * m
    <3>1. ByteSize - 1 \in Nat /\ m <= m
      BY <2>1, PolyAssumption
    <3> QED BY <2>1, <2>5, <3>1, ProductBound
  <2>3. (ByteSize - 1) * m = ByteSize * m - m /\ ByteSize * m \in Nat
    BY <2>1, <2>5
  <2>4. u + b * m \in Nat /\ u + b * m < ByteSize * m
    BY <2>1, <2>2, <2>3
  <2> QED BY <2>4 DEF m, u
<1>7. ByteSize * Place[k + 1] <= W
  BY <1>1, Places
<1> HIDE DEF next
<1>8. ASSUME NEW i \in 0 .. 3, i # w PROVE Limit(n + 1, i) = Limit(n, i)
  BY <1>1, <1>8 DEF Limit
<1> DEFINE taken_in == [cc EXCEPT ![w] = next]
<1>9. next \in Word
  <2>1. ByteSize * Place[k + 1] \in Nat
    BY <1>1, Places
  <2> QED BY <1>2, <1>6, <1>7, <2>1 DEF Word
<1>10. taken_in \in [0 .. 4 -> Word] /\ taken_in[4] = cc[4]
  BY <1>1, <1>2, <1>9
<1>11. taken_in[w] < Limit(n + 1, w)
  BY <1>1, <1>2, <1>5, <1>6
<1>12. ASSUME NEW i \in 0 .. 3, i # w PROVE taken_in[i] < Limit(n + 1, i)
  BY <1>1, <1>2, <1>8, <1>12 DEF Filled
<1> QED BY <1>2, <1>3, <1>10, <1>11, <1>12 DEF Filled, Chunk

\* Between two blocks nothing of a chunk is there but its final 1.
LEMMA ClearedIsFilled ==
    ASSUME NEW cc, Chunk(cc)
    PROVE  Filled(Cleared(cc), 0)
<1>1. W \in Nat /\ W > 0 /\ cc[4] \in Word /\ cc[4] <= 1
  BY PolyAssumption DEF Chunk
<1>2. Cleared(cc) \in [0 .. 4 -> Word] /\ Cleared(cc)[4] = cc[4]
  BY <1>1 DEF Cleared, NoWords, Word
<1>3. \A i \in 0 .. 3 : Cleared(cc)[i] < Limit(0, i)
  BY <1>1 DEF Cleared, NoWords, Limit
<1> QED BY <1>1, <1>2, <1>3 DEF Filled, Chunk

\* The masks of crypto_poly1305_init leave a clamped key.
LEMMA ClampedIsClamped ==
    ASSUME NEW words \in [0 .. 3 -> Word]
    PROVE  ClampedKey(Clamped(words))
<1>1. PICK q \in Nat \ {0} : W = 16 * q /\ W \div 16 = q
  BY WordSize
<1>2. \A x \in Nat : x % q \in Nat /\ x % q < q
  BY <1>1
<1>3. \A x \in Nat : x - (x % 4) \in Nat /\ x - (x % 4) <= x
  OBVIOUS
<1>4. \A i \in 0 .. 3 : Clamped(words)[i] \in Nat /\ Clamped(words)[i] < q
  <2> SUFFICES ASSUME NEW i \in 0 .. 3
               PROVE  Clamped(words)[i] \in Nat /\ Clamped(words)[i] < q
    OBVIOUS
  <2> DEFINE low == words[i] % q
  <2>1. low \in Nat /\ low < q
    BY <1>1, <1>2 DEF Word
  <2>2. Clamped(words)[i] = IF i = 0 THEN low ELSE low - (low % 4)
    BY <1>1 DEF Clamped
  <2> HIDE DEF low
  <2>3. low - (low % 4) \in Nat /\ low - (low % 4) <= low
    BY <1>3, <2>1
  <2> QED BY <1>1, <2>1, <2>2, <2>3
<1>5. DOMAIN Clamped(words) = 0 .. 3 /\ Clamped(words) = [i \in 0 .. 3 |-> Clamped(words)[i]]
  BY DEF Clamped
<1>6. Clamped(words) \in [0 .. 3 -> Word]
  BY <1>1, <1>4, <1>5 DEF Word
<1>7. ASSUME NEW i \in 1 .. 3 PROVE Clamped(words)[i] % 4 = 0
  <2> DEFINE low == words[i] % q
  <2>1. low \in Nat
    BY <1>1, <1>2 DEF Word
  <2>2. Clamped(words)[i] = low - (low % 4)
    BY <1>1 DEF Clamped
  <2> HIDE DEF low
  <2>3. (low - (low % 4)) % 4 = 0
    BY <2>1
  <2> QED BY <2>2, <2>3
<1> QED BY <1>1, <1>4, <1>6, <1>7 DEF ClampedKey

----------------------------------------------------------------------------
(* The invariant: what is filled of the chunk is what c_idx says, except   *)
(* between two whole blocks of one call, where c holds the block before.   *)
PolyInv ==
    /\ started \in BOOLEAN
    /\ text \in Seq(Byte)
    /\ ClampedKey(r) /\ pad \in [0 .. 3 -> Word]
    /\ Accumulator(h)
    /\ Chunk(c) /\ c_idx \in 0 .. PolyBlock - 1
    /\ Filled(c, c_idx) \/ (taken = byteEnd /\ callEnd - taken >= PolyBlock)
    /\ taken \in Nat /\ byteEnd \in Nat /\ callEnd \in Nat
    /\ taken <= byteEnd /\ byteEnd <= callEnd /\ callEnd <= Len(text)

\* Nothing is there before the first init, and after a final.
LEMMA Wiped ==
    ASSUME NEW key, key = [i \in 0 .. 3 |-> 0]
    PROVE  ClampedKey(key) /\ key \in [0 .. 3 -> Word] /\ Accumulator(NoWords)
           /\ Filled(NoWords, 0) /\ <<>> \in Seq(Byte) /\ Len(<<>>) = 0
<1>1. W \in Nat /\ W > 0 /\ W \div 16 > 0
  BY WordSize
<1>2. NoWords \in [0 .. 4 -> Word] /\ NoWords[4] = 0
  BY <1>1 DEF NoWords, Word
<1>3. \A i \in 0 .. 3 : NoWords[i] < Limit(0, i)
  BY <1>1 DEF NoWords, Limit
<1>4. key \in [0 .. 3 -> Word] /\ \A i \in 0 .. 3 : key[i] = 0
  BY <1>1 DEF Word
<1> QED BY <1>1, <1>2, <1>3, <1>4 DEF ClampedKey, Accumulator, Filled, Chunk

LEMMA PolyInitOK == PolyInit => PolyInv
<1> SUFFICES ASSUME PolyInit PROVE PolyInv
  OBVIOUS
<1>1. r = [i \in 0 .. 3 |-> 0] /\ pad = r /\ h = NoWords /\ c = NoWords /\ c_idx = 0
      /\ text = <<>> /\ started = FALSE /\ taken = 0 /\ byteEnd = 0 /\ callEnd = 0
  BY DEF PolyInit
<1>2. ClampedKey(r) /\ pad \in [0 .. 3 -> Word] /\ Accumulator(NoWords)
      /\ Filled(NoWords, 0) /\ <<>> \in Seq(Byte) /\ Len(<<>>) = 0
  BY <1>1, Wiped
<1>3. ClampedKey(r) /\ pad \in [0 .. 3 -> Word] /\ Accumulator(h) /\ Filled(c, c_idx)
      /\ Chunk(c) /\ text \in Seq(Byte) /\ Len(text) = 0
  BY <1>1, <1>2 DEF Filled
<1> QED BY <1>1, <1>3 DEF PolyInv, PolyBlock

LEMMA StartKeeps ==
    ASSUME PolyInv, NEW k \in MacKeys, NEW t \in Texts, PolyStart(k, t)
    PROVE  PolyInv'
<1> DEFINE one == [NoWords EXCEPT ![4] = 1]
<1>1. k.r \in [0 .. 3 -> Word] /\ k.pad \in [0 .. 3 -> Word] /\ t \in Seq(Byte)
  BY PolyAssumption DEF Word, Byte
<1>2. ClampedKey(Clamped(k.r))
  BY <1>1, ClampedIsClamped
<1>3. W \in Nat /\ W >= 16
  BY WordSize
<1>4. Accumulator(NoWords)
  BY Wiped
<1>5. one \in [0 .. 4 -> Word] /\ one[4] = 1 /\ \A i \in 0 .. 3 : one[i] = 0
  BY <1>3 DEF NoWords, Word
<1> HIDE DEF one
<1>6. Chunk(one) /\ Filled(one, 0)
  BY <1>3, <1>5 DEF Chunk, Filled, Limit
<1>7. /\ started' = TRUE /\ text' = t /\ r' = Clamped(k.r) /\ pad' = k.pad /\ h' = NoWords
      /\ c' = one /\ c_idx' = 0 /\ taken' = 0 /\ byteEnd' = 0 /\ callEnd' = 0
  BY DEF PolyStart, one
<1>8. ClampedKey(r') /\ Accumulator(h') /\ Chunk(c') /\ Filled(c', c_idx')
  BY <1>2, <1>4, <1>6, <1>7
<1> QED BY <1>1, <1>7, <1>8 DEF PolyInv, PolyBlock, ClampedKey, Accumulator, Chunk, Filled, Limit

LEMMA UpdateKeeps ==
    ASSUME PolyInv, NEW n \in 1 .. Len(text), PolyUpdate(n)
    PROVE  PolyInv'
<1> DEFINE align == (-c_idx) % PolyBlock
<1>1. align \in Nat
  BY DEF PolyInv, PolyBlock
<1> HIDE DEF align
<1>2. byteEnd' = taken + Smaller(align, n) /\ callEnd' = taken + n /\ taken = callEnd
      /\ taken + n <= Len(text)
  BY DEF PolyUpdate, between, align
<1>3. n \in Nat /\ Smaller(align, n) \in Nat /\ Smaller(align, n) <= n
  BY <1>1 DEF Smaller
<1>4. UNCHANGED <<started, text, r, pad, h, c, c_idx, taken>>
  BY DEF PolyUpdate
<1>5. Filled(c, c_idx)
  BY <1>2 DEF PolyInv, PolyBlock
<1>6. /\ taken' \in Nat /\ byteEnd' \in Nat /\ callEnd' \in Nat
      /\ taken' <= byteEnd' /\ byteEnd' <= callEnd' /\ callEnd' <= Len(text')
  BY <1>2, <1>3, <1>4 DEF PolyInv
<1>7. /\ started' \in BOOLEAN /\ text' \in Seq(Byte) /\ pad' \in [0 .. 3 -> Word]
      /\ ClampedKey(r') /\ Accumulator(h') /\ Chunk(c') /\ c_idx' \in 0 .. PolyBlock - 1
      /\ Filled(c', c_idx')
  BY <1>4, <1>5 DEF PolyInv
<1> QED BY <1>6, <1>7 DEF PolyInv, ClampedKey, Accumulator, Chunk, Filled, Limit

LEMMA ByteKeeps == ASSUME PolyInv, PolyByte PROVE PolyInv'
<1> DEFINE cc == TakeInput(c, c_idx, text[taken + 1])
<1>1. Filled(c, c_idx) /\ c_idx \in 0 .. PolyBlock - 1 /\ text[taken + 1] \in Byte
  <2>1. taken < byteEnd /\ taken + 1 \in 1 .. Len(text)
    BY DEF PolyByte, PolyInv
  <2> QED BY <2>1 DEF PolyInv
<1>2. Filled(cc, c_idx + 1) /\ Chunk(cc)
  BY <1>1, TakenByte DEF Filled
<1>3. IF c_idx + 1 = PolyBlock
      THEN h' = BlockStep(h, cc) /\ c' = Cleared(cc) /\ c_idx' = 0
      ELSE c' = cc /\ c_idx' = c_idx + 1 /\ UNCHANGED h
  BY DEF PolyByte
<1> HIDE DEF cc
<1>4. Accumulator(h') /\ Filled(c', c_idx') /\ c_idx' \in 0 .. PolyBlock - 1
  <2>1. Accumulator(h) /\ ClampedKey(r)
    BY DEF PolyInv
  <2>2. CASE c_idx + 1 = PolyBlock
    <3>1. Accumulator(BlockStep(h, cc)) /\ Filled(Cleared(cc), 0)
      BY <1>2, <2>1, BlockBounded, ClearedIsFilled
    <3> QED BY <1>3, <2>2, <3>1 DEF PolyBlock
  <2>3. CASE c_idx + 1 # PolyBlock
    BY <1>1, <1>2, <1>3, <2>1, <2>3 DEF PolyBlock
  <2> QED BY <2>2, <2>3
<1>5. /\ UNCHANGED <<started, text, r, pad, byteEnd, callEnd>>
      /\ taken' = taken + 1 /\ taken < byteEnd
  BY DEF PolyByte
<1>6. /\ taken' \in Nat /\ byteEnd' \in Nat /\ callEnd' \in Nat
      /\ taken' <= byteEnd' /\ byteEnd' <= callEnd' /\ callEnd' <= Len(text')
  BY <1>5 DEF PolyInv
<1>7. /\ started' \in BOOLEAN /\ text' \in Seq(Byte) /\ pad' \in [0 .. 3 -> Word]
      /\ ClampedKey(r') /\ Chunk(c')
  BY <1>4, <1>5 DEF PolyInv, Filled
<1> QED BY <1>4, <1>6, <1>7 DEF PolyInv, ClampedKey, Accumulator, Chunk, Filled, Limit

LEMMA WholeKeeps == ASSUME PolyInv, PolyWhole PROVE PolyInv'
<1> DEFINE cc == LoadedChunk(c, text, taken)
<1>1. taken = byteEnd /\ callEnd - taken >= PolyBlock /\ taken' = taken + PolyBlock
      /\ byteEnd' = taken' /\ UNCHANGED <<started, text, r, pad, callEnd>>
      /\ h' = BlockStep(h, cc)
  BY DEF PolyWhole
<1>2. IF callEnd - taken < 2 * PolyBlock
      THEN c' = Cleared(cc) /\ c_idx' = 0
      ELSE c' = cc /\ UNCHANGED c_idx
  BY DEF PolyWhole
<1>3. Chunk(cc)
  <2>1. taken \in Nat /\ taken + PolyBlock <= Len(text) /\ text \in Seq(Byte) /\ Chunk(c)
    BY <1>1 DEF PolyInv, PolyBlock
  <2> QED BY <2>1, LoadedIsChunk
<1> HIDE DEF cc
<1>4. Accumulator(h')
  <2>1. Accumulator(h) /\ ClampedKey(r)
    BY DEF PolyInv
  <2> QED BY <1>1, <1>3, <2>1, BlockBounded
<1>5. /\ taken' \in Nat /\ byteEnd' \in Nat /\ callEnd' \in Nat
      /\ taken' <= byteEnd' /\ byteEnd' <= callEnd' /\ callEnd' <= Len(text')
  BY <1>1 DEF PolyInv, PolyBlock
<1>6. /\ Chunk(c') /\ c_idx' \in 0 .. PolyBlock - 1
      /\ Filled(c', c_idx') \/ (taken' = byteEnd' /\ callEnd' - taken' >= PolyBlock)
  <2>1. CASE callEnd - taken < 2 * PolyBlock
    <3>1. Filled(Cleared(cc), 0) /\ Chunk(Cleared(cc))
      BY <1>3, ClearedIsFilled DEF Filled
    <3> QED BY <1>2, <2>1, <3>1 DEF PolyBlock
  <2>2. CASE ~(callEnd - taken < 2 * PolyBlock)
    <3>1. c' = cc /\ c_idx' = c_idx
      BY <1>2, <2>2
    <3>2. callEnd' - taken' >= PolyBlock
      BY <1>1, <2>2 DEF PolyInv, PolyBlock
    <3> QED BY <1>1, <1>3, <3>1, <3>2 DEF PolyInv
  <2> QED BY <2>1, <2>2
<1>7. /\ started' \in BOOLEAN /\ text' \in Seq(Byte) /\ pad' \in [0 .. 3 -> Word]
      /\ ClampedKey(r')
  BY <1>1 DEF PolyInv
<1> QED BY <1>4, <1>5, <1>6, <1>7 DEF PolyInv, ClampedKey, Accumulator, Chunk, Filled, Limit

LEMMA RestKeeps == ASSUME PolyInv, PolyRest PROVE PolyInv'
<1>1. taken = byteEnd /\ callEnd - taken < PolyBlock /\ 0 < callEnd - taken
      /\ byteEnd' = callEnd
      /\ UNCHANGED <<started, text, r, pad, h, c, c_idx, taken, callEnd>>
  BY DEF PolyRest
<1>2. Filled(c, c_idx)
  BY <1>1 DEF PolyInv, PolyBlock
<1>3. /\ taken' \in Nat /\ byteEnd' \in Nat /\ callEnd' \in Nat
      /\ taken' <= byteEnd' /\ byteEnd' <= callEnd' /\ callEnd' <= Len(text')
  BY <1>1 DEF PolyInv, PolyBlock
<1>4. /\ started' \in BOOLEAN /\ text' \in Seq(Byte) /\ pad' \in [0 .. 3 -> Word]
      /\ ClampedKey(r') /\ Accumulator(h') /\ Chunk(c') /\ c_idx' \in 0 .. PolyBlock - 1
      /\ Filled(c', c_idx')
  BY <1>1, <1>2 DEF PolyInv
<1> QED BY <1>3, <1>4 DEF PolyInv, ClampedKey, Accumulator, Chunk, Filled, Limit

LEMMA FinalKeeps == ASSUME PolyFinal PROVE PolyInv'
<1>1. started' = FALSE /\ text' = <<>> /\ r' = [i \in 0 .. 3 |-> 0] /\ pad' = r'
      /\ h' = NoWords /\ c' = NoWords /\ c_idx' = 0
      /\ taken' = 0 /\ byteEnd' = 0 /\ callEnd' = 0
  BY DEF PolyFinal
<1> DEFINE key == [i \in 0 .. 3 |-> 0]
<1>2. ClampedKey(key) /\ key \in [0 .. 3 -> Word] /\ Accumulator(NoWords)
      /\ Filled(NoWords, 0) /\ <<>> \in Seq(Byte) /\ Len(<<>>) = 0
  BY Wiped
<1>3. r' = key
  BY <1>1
<1> HIDE DEF key
<1>4. ClampedKey(r') /\ pad' \in [0 .. 3 -> Word] /\ Accumulator(h') /\ Filled(c', c_idx')
      /\ Chunk(c') /\ text' \in Seq(Byte) /\ Len(text') = 0
  BY <1>1, <1>2, <1>3 DEF Filled
<1>5. started' \in BOOLEAN
  BY <1>1
<1>6. /\ c_idx' \in 0 .. PolyBlock - 1
      /\ taken' \in Nat /\ byteEnd' \in Nat /\ callEnd' \in Nat
      /\ taken' <= byteEnd' /\ byteEnd' <= callEnd' /\ callEnd' <= Len(text')
  BY <1>1, <1>4 DEF PolyBlock
<1> QED BY <1>4, <1>5, <1>6 DEF PolyInv, ClampedKey, Accumulator, Chunk, Filled, Limit

LEMMA PolyKeeps == PolyInv /\ [PolyNext]_polyVars => PolyInv'
<1> SUFFICES ASSUME PolyInv, [PolyNext]_polyVars PROVE PolyInv'
  OBVIOUS
<1>1. CASE \E k \in MacKeys, t \in Texts : PolyStart(k, t)
  BY <1>1, StartKeeps
<1>2. CASE \E n \in 1 .. Len(text) : PolyUpdate(n)
  BY <1>2, UpdateKeeps
<1>3. CASE PolyByte
  BY <1>3, ByteKeeps
<1>4. CASE PolyWhole
  BY <1>4, WholeKeeps
<1>5. CASE PolyRest
  BY <1>5, RestKeeps
<1>6. CASE PolyFinal
  BY <1>6, FinalKeeps
<1>7. CASE UNCHANGED polyVars
  BY <1>7 DEF polyVars, PolyInv, ClampedKey, Accumulator, Chunk, Filled, Limit
<1> QED BY <1>1, <1>2, <1>3, <1>4, <1>5, <1>6, <1>7 DEF PolyNext

----------------------------------------------------------------------------
\* The words of the context stay words of 32 bits, and the three ends of an
\* update in order, over any number of calls of any sizes.
THEOREM PolyTyped == PolySpec => []PolyTypeOK
<1>1. PolyInv => PolyTypeOK
  BY DEF PolyInv, PolyTypeOK, ClampedKey, Accumulator, Chunk, Word
<1> QED BY <1>1, PolyInitOK, PolyKeeps, PTL DEF PolySpec

\* The comments of poly_block hold before every block of every message.
THEOREM Poly1305Fits == PolySpec => []SumsFit
<1>1. PolyInv => SumsFit
  <2> SUFFICES ASSUME PolyInv, NEW fill \in {0, W - 1}, NEW top \in {0, 1}
               PROVE  LET cc == [i \in 0 .. 4 |-> IF i = 4 THEN top ELSE fill]
                      IN  /\ h[4] <= 4
                          /\ \A k \in 0 .. 2 : Sum(h, cc, k) < W * W - W
                          /\ Sum(h, cc, 3) + Sum(h, cc, 4) * W < W * W
                          /\ BlockStep(h, cc)[4] <= 4
    BY DEF SumsFit
  <2> DEFINE cc == [i \in 0 .. 4 |-> IF i = 4 THEN top ELSE fill]
  <2>1. W \in Nat /\ W >= 16
    BY WordSize
  <2>2. Chunk(cc)
    BY <2>1 DEF Chunk, Word
  <2>3. ClampedKey(r) /\ Accumulator(h)
    BY DEF PolyInv
  <2> HIDE DEF cc
  <2>4. SumBounds(h, cc) /\ Accumulator(BlockStep(h, cc))
    BY <2>2, <2>3, SumsBounded, BlockBounded
  <2>5. /\ h[4] <= 4
        /\ \A k \in 0 .. 2 : Sum(h, cc, k) < W * W - W
        /\ Sum(h, cc, 3) + Sum(h, cc, 4) * W < W * W
        /\ BlockStep(h, cc)[4] <= 4
    BY <2>3, <2>4 DEF SumBounds, Accumulator
  <2> QED BY <2>5 DEF cc
<1> QED BY <1>1, PolyInitOK, PolyKeeps, PTL DEF PolySpec

----------------------------------------------------------------------------
(* The numbers of the reference, pairs of digits in base W * W.            *)
PairVal(a) == a[1] + Base * a[2]

\* A number below the prime, its lower digit below the base.
Canon(a) ==
    /\ a \in Nat \X Nat /\ a[1] < Base
    /\ PairVal(a) < Modulus

LEMMA BaseSize ==
    /\ Base \in Nat /\ Base >= 256 /\ Base >= 16 * W
    /\ Base * Base \in Nat /\ Base * Base >= 256 * Base
    /\ Modulus = 4 * (Base * Base) - 5
<1>1. Base \in Nat /\ Base >= 256
  BY ModulusSize DEF Base
<1>2. 16 * W <= W * W
  BY ModulusSize, ProductBound
<1>3. 256 * Base <= Base * Base /\ Base * Base \in Nat
  <2>1. PICK b \in Nat : b = Base
    BY <1>1
  <2>2. 256 * b <= b * b /\ b * b \in Nat
    BY <1>1, <2>1, ProductBound
  <2> QED BY <2>1, <2>2
<1>4. Modulus = 4 * (Base * Base) - 5
  <2>1. PICK b \in Nat : b = Base
    BY <1>1
  <2>2. 4 * b * b = 4 * (b * b)
    OBVIOUS
  <2> QED BY <2>1, <2>2 DEF Modulus, Base
<1> QED BY <1>1, <1>2, <1>3, <1>4 DEF Base

\* A division, and what it leaves.
LEMMA Division ==
    ASSUME NEW x \in Nat, NEW m \in Nat, m > 0
    PROVE  /\ x \div m \in Nat /\ x % m \in Nat /\ x % m < m
           /\ x = m * (x \div m) + (x % m)
           /\ \A n \in Nat : x < n * m => x \div m < n
<1> DEFINE d == x \div m
           z == x % m
<1>1. d \in Nat /\ z \in Nat /\ z < m /\ x = m * d + z
  OBVIOUS
<1> HIDE DEF d, z
<1>2. ASSUME NEW n \in Nat, x < n * m, ~(d < n) PROVE FALSE
  <2>1. n * m <= d * m /\ n * m \in Nat /\ d * m \in Nat
    BY <1>1, <1>2, ProductBound
  <2> QED BY <1>1, <1>2, <2>1
<1> QED BY <1>1, <1>2 DEF d, z

LEMMA CarriedValue ==
    ASSUME NEW x \in Nat, NEW y \in Nat
    PROVE  /\ Carried(<<x, y>>) = <<x % Base, y + (x \div Base)>>
           /\ x % Base \in Nat /\ x % Base < Base /\ x \div Base \in Nat
           /\ (x % Base) + Base * (y + (x \div Base)) = x + Base * y
<1>1. PICK b \in Nat : b = Base /\ b > 0
  BY BaseSize
<1>2. PICK d \in Nat, z \in Nat : d = x \div b /\ z = x % b /\ z < b /\ x = b * d + z
  <2>1. x \div b \in Nat /\ x % b \in Nat /\ x % b < b /\ x = b * (x \div b) + (x % b)
    BY <1>1, Division
  <2> QED BY <2>1, Zenon
<1>3. z + b * (y + d) = x + b * y
  BY <1>2
<1> QED BY <1>1, <1>2, <1>3 DEF Carried

\* The remainder of a pair whose digits are at most a word above the base is canonical, and
\* the same number modulo the prime.
LEMMA RemainderRight ==
    ASSUME NEW x \in Nat, NEW y \in Nat, x < 2 * (W * Base), y < 5 * (W * Base)
    PROVE  Canon(Remainder(<<x, y>>)) /\ Same(PairVal(Remainder(<<x, y>>)), x + Base * y)
<1>1. PICK b \in Nat : b = Base /\ b >= 256 /\ b >= 16 * W /\ W \in Nat /\ W >= 16
  <2>1. Base \in Nat /\ Base >= 256 /\ Base >= 16 * W
    BY BaseSize, Zenon
  <2>2. W \in Nat /\ W >= 16
    BY WordSize
  <2> QED BY <2>1, <2>2, Zenon
<1>2. PICK bb \in Nat : bb = b * b /\ bb >= 256 * b /\ Modulus = 4 * bb - 5
  BY <1>1, BaseSize
<1>3. PICK x1 \in Nat, y1 \in Nat :
        /\ Carried(<<x, y>>) = <<x1, y1>> /\ x1 < b /\ x1 + b * y1 = x + b * y
        /\ y1 < 8 * (W * b)
  <2>1. x \div b \in Nat /\ x % b \in Nat /\ x \div b < 2 * W
    <3>1. 2 * W \in Nat /\ 2 * (W * b) = (2 * W) * b
      BY <1>1
    <3> QED BY <1>1, <3>1, Division
  <2>2. /\ Carried(<<x, y>>) = <<x % b, y + (x \div b)>>
        /\ x % b < b /\ (x % b) + b * (y + (x \div b)) = x + b * y
    BY <1>1, CarriedValue
  <2>3. y + (x \div b) \in Nat /\ y + (x \div b) < 8 * (W * b)
    <3>1. W * 1 <= W * b /\ W * b \in Nat
      BY <1>1, ProductBound
    <3> QED BY <1>1, <2>1, <3>1
  <2> QED BY <2>1, <2>2, <2>3
<1>4. PICK q \in Nat, z \in Nat :
        /\ q = y1 \div (4 * Base) /\ z = y1 % (4 * Base)
        /\ z < 4 * b /\ y1 = 4 * (b * q) + z /\ q < 2 * W
  <2>1. 4 * b \in Nat /\ 4 * b > 0 /\ 8 * (W * b) = (2 * W) * (4 * b) /\ 2 * W \in Nat
    BY <1>1
  <2>2. /\ y1 \div (4 * b) \in Nat /\ y1 % (4 * b) \in Nat /\ y1 % (4 * b) < 4 * b
        /\ y1 = (4 * b) * (y1 \div (4 * b)) + (y1 % (4 * b))
        /\ y1 \div (4 * b) < 2 * W
    BY <1>3, <2>1, Division
  <2>3. PICK p \in Nat : p = y1 \div (4 * b)
    BY <2>2
  <2>4. (4 * b) * p = 4 * (b * p)
    OBVIOUS
  <2> QED BY <1>1, <2>2, <2>3, <2>4
<1>5. PICK x2 \in Nat, y2 \in Nat :
        /\ Carried(<<x1 + 5 * q, z>>) = <<x2, y2>> /\ x2 < b
        /\ x2 + b * y2 = x1 + 5 * q + b * z
  <2>1. x1 + 5 * q \in Nat
    OBVIOUS
  <2>2. PICK v \in Nat : v = x1 + 5 * q
    BY <2>1
  <2>3. /\ Carried(<<v, z>>) = <<v % b, z + (v \div b)>>
        /\ v % b \in Nat /\ v % b < b /\ v \div b \in Nat
        /\ (v % b) + b * (z + (v \div b)) = v + b * z
    BY <1>1, CarriedValue
  <2>4. z + (v \div b) \in Nat
    BY <2>3
  <2> QED BY <2>2, <2>3, <2>4
<1>6. Remainder(<<x, y>>) = IF Less(<<x2, y2>>, Prime) THEN <<x2, y2>> ELSE Minus(<<x2, y2>>, Prime)
  BY <1>3, <1>4, <1>5 DEF Remainder
<1>7. PICK v \in Int : v = x2 + b * y2
  <2>1. x2 + b * y2 \in Int
    OBVIOUS
  <2> QED BY <2>1
<1>8. v = x + Base * y + (-q) * Modulus
  <2>1. b * y1 = 4 * (bb * q) + b * z
    BY <1>2, <1>4
  <2>2. (-q) * (4 * bb - 5) = 5 * q - 4 * (bb * q)
    OBVIOUS
  <2> QED BY <1>1, <1>2, <1>3, <1>5, <1>7, <2>1, <2>2
<1>9. Same(v, x + Base * y)
  <2>1. -q \in Int
    OBVIOUS
  <2> QED BY <1>8, <2>1 DEF Same
<1>10. v < 2 * Modulus
  <2>1. b * z <= b * (4 * b - 1)
    BY <1>4, ProductBound
  <2>2. b * (4 * b - 1) = 4 * bb - b
    BY <1>2
  <2>3. b * z \in Int
    OBVIOUS
  <2> QED BY <1>1, <1>2, <1>3, <1>4, <1>5, <1>7, <2>1, <2>2, <2>3
<1>11. Prime = <<b - 5, 4 * b - 1>>
  BY <1>1 DEF Prime
<1>12. CASE Less(<<x2, y2>>, Prime)
  <2>1. y2 < 4 * b - 1 \/ (y2 = 4 * b - 1 /\ x2 < b - 5)
    BY <1>11, <1>12 DEF Less
  <2>2. v < 4 * bb - 5
    <3>1. CASE y2 < 4 * b - 1
      <4>1. b * y2 <= b * (4 * b - 2)
        BY <1>1, <3>1, ProductBound
      <4>2. b * (4 * b - 2) = 4 * bb - 2 * b
        BY <1>2
      <4>3. b * y2 \in Int
        OBVIOUS
      <4> QED BY <1>1, <1>2, <1>5, <1>7, <4>1, <4>2, <4>3
    <3>2. CASE y2 = 4 * b - 1 /\ x2 < b - 5
      <4>1. b * (4 * b - 1) = 4 * bb - b
        BY <1>2
      <4> QED BY <1>2, <1>7, <3>2, <4>1
    <3> QED BY <2>1, <3>1, <3>2
  <2>3. Remainder(<<x, y>>) = <<x2, y2>>
    BY <1>6, <1>12
  <2>4. PairVal(<<x2, y2>>) = v
    BY <1>1, <1>7 DEF PairVal
  <2>5. Canon(<<x2, y2>>)
    BY <1>1, <1>2, <1>5, <2>2, <2>4 DEF Canon
  <2> QED BY <1>9, <2>3, <2>4, <2>5
<1>13. CASE ~Less(<<x2, y2>>, Prime)
  <2>1. y2 > 4 * b - 1 \/ (y2 = 4 * b - 1 /\ x2 >= b - 5)
    BY <1>1, <1>11, <1>13 DEF Less
  <2>2. PICK x3 \in Nat, y3 \in Nat :
          /\ Minus(<<x2, y2>>, Prime) = <<x3, y3>> /\ x3 < b
          /\ x3 + b * y3 = v - Modulus
    <3>0. b * (4 * b - 1) = 4 * bb - b
      BY <1>2
    <3>1. CASE x2 >= b - 5
      <4>1. Minus(<<x2, y2>>, Prime) = <<x2 - (b - 5), y2 - (4 * b - 1)>>
        BY <1>11, <3>1 DEF Minus
      <4>2. x2 - (b - 5) \in Nat /\ y2 - (4 * b - 1) \in Nat /\ x2 - (b - 5) < b
        BY <1>1, <1>5, <2>1, <3>1
      <4>3. x2 - (b - 5) + b * (y2 - (4 * b - 1)) = v - Modulus
        <5>1. b * (y2 - (4 * b - 1)) = b * y2 - b * (4 * b - 1)
          OBVIOUS
        <5> QED BY <1>2, <1>7, <3>0, <5>1
      <4> QED BY <4>1, <4>2, <4>3
    <3>2. CASE x2 < b - 5
      <4>1. Minus(<<x2, y2>>, Prime) = <<x2 + Base - (b - 5), y2 - (4 * b - 1) - 1>>
        BY <1>1, <1>11, <3>2 DEF Minus
      <4>2. x2 + b - (b - 5) \in Nat /\ y2 - (4 * b - 1) - 1 \in Nat /\ x2 + b - (b - 5) < b
        BY <1>1, <1>5, <2>1, <3>2
      <4>3. x2 + b - (b - 5) + b * (y2 - (4 * b - 1) - 1) = v - Modulus
        <5>1. b * (y2 - (4 * b - 1) - 1) = b * y2 - b * (4 * b - 1) - b
          OBVIOUS
        <5> QED BY <1>2, <1>7, <3>0, <5>1
      <4> QED BY <1>1, <4>1, <4>2, <4>3
    <3> QED BY <1>1, <3>1, <3>2
  <2>3. Remainder(<<x, y>>) = <<x3, y3>>
    BY <1>6, <1>13, <2>2
  <2>4. PairVal(<<x3, y3>>) = v - Modulus
    BY <1>1, <2>2 DEF PairVal
  <2>5. PICK n \in Int : n = Modulus
    BY ModulusSize
  <2>6. Canon(<<x3, y3>>)
    BY <1>1, <1>10, <2>2, <2>4, <2>5 DEF Canon
  <2>7. Same(v - n, v)
    <3>1. v - n = v + (-1) * n /\ -1 \in Int
      OBVIOUS
    <3> QED BY <2>5, <3>1 DEF Same
  <2>8. v - n \in Int /\ v \in Int /\ x + Base * y \in Int
    BY <1>1
  <2>9. Same(v - n, x + Base * y)
    BY <1>9, <2>7, <2>8, SameTrans
  <2> QED BY <2>3, <2>4, <2>5, <2>6, <2>9
<1> QED BY <1>12, <1>13

LEMMA CanonDigits ==
    ASSUME NEW a, Canon(a)
    PROVE  /\ a[1] \in Nat /\ a[2] \in Nat /\ a = <<a[1], a[2]>>
           /\ a[1] < Base /\ a[2] < 4 * Base /\ PairVal(a) \in Nat
<1>1. a[1] \in Nat /\ a[2] \in Nat /\ a = <<a[1], a[2]>> /\ a[1] < Base
  BY DEF Canon
<1>2. PICK b \in Nat : b = Base /\ b >= 256
  BY BaseSize
<1>3. PICK x \in Nat, y \in Nat : x = a[1] /\ y = a[2]
  BY <1>1
<1>4. x + b * y < 4 * (b * b) - 5
  BY <1>2, <1>3, BaseSize DEF Canon, PairVal
<1>5. ASSUME y >= 4 * b PROVE FALSE
  <2>1. b * (4 * b) <= b * y /\ b * y \in Nat
    BY <1>5, ProductBound
  <2>2. b * (4 * b) = 4 * (b * b) /\ b * b \in Nat
    OBVIOUS
  <2> QED BY <1>4, <2>1, <2>2
<1>6. y < 4 * b /\ x + b * y \in Nat
  BY <1>2, <1>5
<1> QED BY <1>1, <1>2, <1>3, <1>6 DEF PairVal

\* A word up, and a multiple.
LEMMA ShiftAddRight ==
    ASSUME NEW x, Canon(x), NEW a, Canon(a), NEW k \in Nat, k < W \div 16
    PROVE  /\ Canon(ShiftAdd(x, a, k))
           /\ Same(PairVal(ShiftAdd(x, a, k)), W * PairVal(x) + k * PairVal(a))
<1>1. PICK b \in Nat : b = Base /\ b >= 256
  BY BaseSize
<1>2. PICK x1 \in Nat, x2 \in Nat : x1 = x[1] /\ x2 = x[2] /\ x1 < b /\ x2 < 4 * b
  BY <1>1, CanonDigits
<1>3. PICK a1 \in Nat, a2 \in Nat : a1 = a[1] /\ a2 = a[2] /\ a1 < b /\ a2 < 4 * b
  BY <1>1, CanonDigits
<1>4. PICK q \in Nat : W = 16 * q /\ q > 0 /\ k <= q /\ W \in Nat
  BY WordSize
<1>5. W * x1 + k * a1 \in Nat /\ W * x1 + k * a1 < 2 * (W * b)
  <2>1. W * x1 <= W * (b - 1) /\ W * x1 \in Nat
    BY <1>1, <1>2, <1>4, ProductBound
  <2>2. k * a1 <= W * (b - 1) /\ k * a1 \in Nat
    BY <1>1, <1>3, <1>4, ProductBound
  <2>3. W * (b - 1) = W * b - W /\ W * b \in Nat
    BY <1>4
  <2> QED BY <1>4, <2>1, <2>2, <2>3
<1>6. W * x2 + k * a2 \in Nat /\ W * x2 + k * a2 < 5 * (W * b)
  <2>1. W * x2 <= W * (4 * b) /\ W * x2 \in Nat
    BY <1>1, <1>2, <1>4, ProductBound
  <2>2. k * a2 <= q * (4 * b) /\ k * a2 \in Nat
    BY <1>1, <1>3, <1>4, ProductBound
  <2>3. q * (4 * b) = 4 * (q * b) /\ W * (4 * b) = 64 * (q * b) /\ W * b = 16 * (q * b)
        /\ q * b \in Nat
    BY <1>4
  <2>4. 1 * 1 <= q * b
    BY <1>1, <1>4, ProductBound
  <2> QED BY <2>1, <2>2, <2>3, <2>4
<1>7. PICK u \in Nat, v \in Nat : u = W * x1 + k * a1 /\ v = W * x2 + k * a2
  BY <1>5, <1>6
<1>8. ShiftAdd(x, a, k) = Remainder(<<u, v>>)
  BY <1>2, <1>3, <1>7 DEF ShiftAdd
<1>9. Canon(Remainder(<<u, v>>)) /\ Same(PairVal(Remainder(<<u, v>>)), u + Base * v)
  BY <1>1, <1>5, <1>6, <1>7, RemainderRight
<1>10. u + Base * v = W * PairVal(x) + k * PairVal(a)
  <2>1. W * (x1 + b * x2) + k * (a1 + b * a2) = W * x1 + k * a1 + b * (W * x2 + k * a2)
    BY <1>4
  <2> QED BY <1>1, <1>2, <1>3, <1>7, <2>1 DEF PairVal
<1> QED BY <1>8, <1>9, <1>10

\* A product of the reference.
LEMMA TimesRight ==
    ASSUME NEW a, Canon(a), NEW m, ClampedKey(m)
    PROVE  Canon(Times(a, m)) /\ Same(PairVal(Times(a, m)), PairVal(a) * KeyValue(m))
<1>1. PICK A \in Int : A = PairVal(a)
  BY CanonDigits
<1>2. PICK m0 \in Nat, m1 \in Nat, m2 \in Nat, m3 \in Nat :
        /\ m0 = m[0] /\ m1 = m[1] /\ m2 = m[2] /\ m3 = m[3]
        /\ m0 < W \div 16 /\ m1 < W \div 16 /\ m2 < W \div 16 /\ m3 < W \div 16
  <2>1. m[0] \in Nat /\ m[1] \in Nat /\ m[2] \in Nat /\ m[3] \in Nat
    BY PolyAssumption DEF ClampedKey, Word
  <2>2. m[0] < W \div 16 /\ m[1] < W \div 16 /\ m[2] < W \div 16 /\ m[3] < W \div 16
    BY DEF ClampedKey
  <2> QED BY <2>1, <2>2, Zenon
<1>3. PICK p4 : p4 = <<0, 0>>
  OBVIOUS
<1>4. PICK p3 : p3 = ShiftAdd(p4, a, m3)
  OBVIOUS
<1>5. PICK p2 : p2 = ShiftAdd(p3, a, m2)
  OBVIOUS
<1>6. PICK p1 : p1 = ShiftAdd(p2, a, m1)
  OBVIOUS
<1>7. PICK p0 : p0 = ShiftAdd(p1, a, m0)
  OBVIOUS
<1>8. Times(a, m) = p0
  BY <1>2, <1>3, <1>4, <1>5, <1>6, <1>7 DEF Times
<1>9. Canon(p4) /\ PairVal(p4) = 0
  <2>1. PICK b \in Nat : b = Base /\ b > 0
    BY BaseSize
  <2>2. PairVal(p4) = 0
    BY <1>3, <2>1 DEF PairVal
  <2>3. p4 \in Nat \X Nat /\ p4[1] < Base /\ 0 < Modulus
    BY <1>3, <2>1, ModulusSize
  <2> QED BY <2>2, <2>3 DEF Canon
<1>10. Canon(p3) /\ Same(PairVal(p3), W * PairVal(p4) + m3 * PairVal(a))
  BY <1>2, <1>4, <1>9, ShiftAddRight
<1>11. Canon(p2) /\ Same(PairVal(p2), W * PairVal(p3) + m2 * PairVal(a))
  BY <1>2, <1>5, <1>10, ShiftAddRight
<1>12. Canon(p1) /\ Same(PairVal(p1), W * PairVal(p2) + m1 * PairVal(a))
  BY <1>2, <1>6, <1>11, ShiftAddRight
<1>13. Canon(p0) /\ Same(PairVal(p0), W * PairVal(p1) + m0 * PairVal(a))
  BY <1>2, <1>7, <1>12, ShiftAddRight
<1>14. PICK v0 \in Int, v1 \in Int, v2 \in Int, v3 \in Int :
         v0 = PairVal(p0) /\ v1 = PairVal(p1) /\ v2 = PairVal(p2) /\ v3 = PairVal(p3)
  <2>1. PairVal(p0) \in Int /\ PairVal(p1) \in Int /\ PairVal(p2) \in Int /\ PairVal(p3) \in Int
    BY <1>10, <1>11, <1>12, <1>13, CanonDigits
  <2> QED BY <2>1, Zenon
<1>15. PICK M \in Int, q0 \in Int, q1 \in Int, q2 \in Int, q3 \in Int :
         /\ M = Modulus
         /\ v3 = W * 0 + m3 * A + q3 * M
         /\ v2 = W * v3 + m2 * A + q2 * M
         /\ v1 = W * v2 + m1 * A + q1 * M
         /\ v0 = W * v1 + m0 * A + q0 * M
  <2>1. PICK M \in Int : M = Modulus
    BY ModulusSize
  <2>2. \E q \in Int : v3 = W * 0 + m3 * A + q * M
    BY <1>1, <1>9, <1>10, <1>14, <2>1 DEF Same
  <2>3. \E q \in Int : v2 = W * v3 + m2 * A + q * M
    BY <1>1, <1>11, <1>14, <2>1 DEF Same
  <2>4. \E q \in Int : v1 = W * v2 + m1 * A + q * M
    BY <1>1, <1>12, <1>14, <2>1 DEF Same
  <2>5. \E q \in Int : v0 = W * v1 + m0 * A + q * M
    BY <1>1, <1>13, <1>14, <2>1 DEF Same
  <2> QED BY <2>1, <2>2, <2>3, <2>4, <2>5
<1>16. W \in Int
  BY ModulusSize
<1>17. PICK g \in Int : g = q0 + W * (q1 + W * (q2 + W * q3))
  <2>1. q0 + W * (q1 + W * (q2 + W * q3)) \in Int
    BY <1>16
  <2> QED BY <2>1
<1>18. v0 = A * KeyValue(m) + g * M
  <2>1. v2 = (m2 + W * m3) * A + (q2 + W * q3) * M
    BY <1>15, <1>16
  <2>2. v1 = (m1 + W * (m2 + W * m3)) * A + (q1 + W * (q2 + W * q3)) * M
    BY <1>15, <1>16, <2>1
  <2>3. PICK e \in Int, f \in Int : e = m1 + W * (m2 + W * m3) /\ f = q1 + W * (q2 + W * q3)
    <3>1. m1 + W * (m2 + W * m3) \in Int /\ q1 + W * (q2 + W * q3) \in Int
      BY <1>16
    <3> QED BY <3>1
  <2>4. v1 = e * A + f * M
    BY <2>2, <2>3
  <2>5. v0 = (m0 + W * e) * A + (q0 + W * f) * M
    BY <1>15, <1>16, <2>4
  <2>6. KeyValue(m) = m0 + W * e
    BY <1>2, <1>16, <2>3 DEF KeyValue, Horner
  <2>7. m0 + W * e \in Int
    BY <1>16
  <2> QED BY <1>17, <2>3, <2>5, <2>6, <2>7
<1> QED BY <1>1, <1>8, <1>13, <1>14, <1>15, <1>18 DEF Same

\* Two numbers below the prime that are the same modulo it are the same.
LEMMA SameBelow ==
    ASSUME NEW a \in Nat, NEW b \in Nat, a < Modulus, b < Modulus, Same(a, b)
    PROVE  a = b
<1>1. PICK m \in Nat : m = Modulus /\ m > 0
  BY ModulusSize
<1>2. PICK q \in Int : a = b + q * m
  BY <1>1 DEF Same
<1>3. ASSUME q >= 1 PROVE FALSE
  <2>1. 1 * m <= q * m
    BY <1>3, ProductBound
  <2> QED BY <1>1, <1>2, <2>1
<1>4. ASSUME q <= -1 PROVE FALSE
  <2>1. -q \in Nat /\ 1 <= -q
    BY <1>4
  <2>2. PICK p \in Nat : p = -q /\ 1 <= p
    BY <2>1
  <2>3. 1 * m <= p * m
    BY <2>2, ProductBound
  <2>4. b = a + p * m
    BY <1>2, <2>2
  <2> QED BY <1>1, <2>3, <2>4
<1>5. q = 0
  BY <1>3, <1>4
<1> QED BY <1>2, <1>5

\* The digits of a number are its own.
LEMMA DigitsUnique ==
    ASSUME NEW x \in Nat, NEW y \in Nat, NEW z \in Nat, NEW v \in Nat, NEW m \in Nat,
           x < m, z < m, x + m * y = z + m * v
    PROVE  x = z /\ y = v
<1>1. ASSUME y > v PROVE FALSE
  <2>1. PICK n \in Nat : y = v + n /\ n >= 1
    <3>1. y - v \in Nat /\ y = v + (y - v) /\ y - v >= 1
      BY <1>1
    <3> QED BY <3>1
  <2>2. m * y = m * v + m * n
    BY <2>1
  <2>3. m * 1 <= m * n /\ m * n \in Nat
    BY <2>1, ProductBound
  <2>4. m * v \in Nat
    OBVIOUS
  <2> QED BY <2>2, <2>3, <2>4
<1>2. ASSUME v > y PROVE FALSE
  <2>1. PICK n \in Nat : v = y + n /\ n >= 1
    <3>1. v - y \in Nat /\ v = y + (v - y) /\ v - y >= 1
      BY <1>2
    <3> QED BY <3>1
  <2>2. m * v = m * y + m * n
    BY <2>1
  <2>3. m * 1 <= m * n /\ m * n \in Nat
    BY <2>1, ProductBound
  <2>4. m * y \in Nat
    OBVIOUS
  <2> QED BY <2>2, <2>3, <2>4
<1>3. y = v
  BY <1>1, <1>2
<1> QED BY <1>3

LEMMA NumberValue ==
    ASSUME NEW w, w[0] \in Nat, w[1] \in Nat, w[2] \in Nat, w[3] \in Nat, w[4] \in Nat
    PROVE  /\ NumberOf(w)[1] \in Nat /\ NumberOf(w)[2] \in Nat
           /\ NumberOf(w) = <<NumberOf(w)[1], NumberOf(w)[2]>>
           /\ PairVal(NumberOf(w)) = Value(w)
<1>1. PICK a \in Nat, b \in Nat, d \in Nat, e \in Nat, f \in Nat :
        a = w[0] /\ b = w[1] /\ d = w[2] /\ e = w[3] /\ f = w[4]
  OBVIOUS
<1>2. W \in Nat
  BY ModulusSize
<1>3. NumberOf(w) = <<a + W * b, d + W * e + W * W * f>>
  BY <1>1 DEF NumberOf
<1>4. a + W * b \in Nat /\ d + W * e + W * W * f \in Nat
  BY <1>2
<1>5. PairVal(<<a + W * b, d + W * e + W * W * f>>) = Horner(a, b, d, e, f)
  BY <1>2 DEF PairVal, Horner, Base
<1> QED BY <1>1, <1>3, <1>4, <1>5 DEF Value

----------------------------------------------------------------------------
(* crypto_poly1305_final takes the prime away and adds the pad.            *)

\* Four words are below W^4.
LEMMA FourWords ==
    ASSUME NEW a \in Word, NEW b \in Word, NEW d \in Word, NEW e \in Word
    PROVE  Horner(a, b, d, e, 0) \in Nat /\ Horner(a, b, d, e, 0) < Base * Base
<1>1. W \in Nat /\ W >= 16
  BY WordSize
<1>2. a \in Nat /\ b \in Nat /\ d \in Nat /\ e \in Nat
      /\ a <= W - 1 /\ b <= W - 1 /\ d <= W - 1 /\ e <= W - 1
  BY <1>1 DEF Word
<1>3. W * W \in Nat /\ W * (W * W) \in Nat /\ W * (W * (W * W)) \in Nat
  BY <1>1
<1>4. d + W * e \in Nat /\ d + W * e <= W * W - 1
  <2>1. W * e <= W * (W - 1) /\ W * e \in Nat
    BY <1>1, <1>2, ProductBound
  <2>2. W * (W - 1) = W * W - W
    BY <1>1
  <2> QED BY <1>1, <1>2, <1>3, <2>1, <2>2
<1>5. PICK x \in Nat, w2 \in Nat, w3 \in Nat :
        x = d + W * e /\ w2 = W * W /\ w3 = W * w2 /\ x <= w2 - 1
  BY <1>3, <1>4
<1>6. b + W * x \in Nat /\ b + W * x <= w3 - 1
  <2>0. w2 - 1 \in Nat
    BY <1>5
  <2>1. W * x <= W * (w2 - 1) /\ W * x \in Nat
    BY <1>1, <1>5, <2>0, ProductBound
  <2>2. W * (w2 - 1) = w3 - W
    BY <1>1, <1>5
  <2> QED BY <1>1, <1>2, <1>5, <2>1, <2>2
<1>7. PICK y \in Nat, w4 \in Nat : y = b + W * x /\ w4 = W * w3 /\ y <= w3 - 1
  BY <1>1, <1>3, <1>5, <1>6
<1>8. a + W * y \in Nat /\ a + W * y <= w4 - 1
  <2>0. w3 - 1 \in Nat
    BY <1>7
  <2>1. W * y <= W * (w3 - 1) /\ W * y \in Nat
    BY <1>1, <1>7, <2>0, ProductBound
  <2>2. W * (w3 - 1) = w4 - W
    BY <1>1, <1>7
  <2> QED BY <1>1, <1>2, <1>7, <2>1, <2>2
<1>9. Base * Base = w4
  BY <1>1, <1>5, <1>7 DEF Base
<1>10. Horner(a, b, d, e, 0) = a + W * y
  <2>1. Horner(a, b, d, e, 0) = a + W * (b + W * (d + W * e))
    BY <1>1, <1>2 DEF Horner
  <2> QED BY <1>5, <1>7, <2>1
<1> QED BY <1>7, <1>8, <1>9, <1>10

\* Four steps of a carry keep what the words hold.
LEMMA FourCarries ==
    ASSUME NEW x0 \in Int, NEW x1 \in Int, NEW x2 \in Int, NEW x3 \in Int,
           NEW k0 \in Int, NEW k1 \in Int, NEW k2 \in Int, NEW k3 \in Int,
           NEW g0 \in Int, NEW g1 \in Int, NEW g2 \in Int, NEW g3 \in Int,
           Carry(x0, k0, g0), Carry(k0 + x1, k1, g1), Carry(k1 + x2, k2, g2),
           Carry(k2 + x3, k3, g3)
    PROVE  Horner(x0, x1, x2, x3, 0) = Horner(g0, g1, g2, g3, 0) + (Base * Base) * k3
<1>1. W \in Int
  BY ModulusSize
<1>2. x0 = W * k0 + g0 /\ x1 = W * k1 + g1 - k0 /\ x2 = W * k2 + g2 - k1
      /\ x3 = W * k3 + g3 - k2
  BY <1>1 DEF Carry
<1>3. x2 + W * x3 = g2 + W * g3 + W * (W * k3) - k1
  BY <1>1, <1>2
<1>4. x1 + W * (x2 + W * x3) = g1 + W * (g2 + W * g3) + W * (W * (W * k3)) - k0
  BY <1>1, <1>2, <1>3
<1>5. x0 + W * (x1 + W * (x2 + W * x3))
        = g0 + W * (g1 + W * (g2 + W * g3)) + W * (W * (W * (W * k3)))
  BY <1>1, <1>2, <1>4
<1>6. W * (W * (W * (W * k3))) = (Base * Base) * k3
  BY <1>1 DEF Base
<1> QED BY <1>1, <1>5, <1>6 DEF Horner

\* A division by W is a carry.
LEMMA CarryDivision ==
    ASSUME NEW x \in Nat
    PROVE  x \div W \in Nat /\ U32(x) \in Word /\ Carry(x, x \div W, U32(x))
<1>1. W \in Nat /\ W > 0
  BY WordSize
<1>2. x \div W \in Nat /\ x % W \in Nat /\ x % W < W /\ x = W * (x \div W) + (x % W)
  BY <1>1, Division
<1> QED BY <1>1, <1>2 DEF U32, Carry, Word

\* The first loop: how often the prime is in the accumulator.
Primes(h0, h1, h2, h3, h4) ==
    LET k0 == (5  + h0) \div W
        k1 == (k0 + h1) \div W
        k2 == (k1 + h2) \div W
        k3 == (k2 + h3) \div W
    IN  (k3 + h4) \div 4

\* What is left of a when the prime is taken away q times.
LessPrimes(v, a, q) == v = a - q * Modulus

LEMMA PrimeTaken ==
    ASSUME NEW h0 \in Word, NEW h1 \in Word, NEW h2 \in Word, NEW h3 \in Word,
           NEW h4 \in 0 .. 4, NEW v \in Nat, v < Modulus,
           Same(Horner(h0, h1, h2, h3, h4), v)
    PROVE  /\ Primes(h0, h1, h2, h3, h4) \in Nat
           /\ LessPrimes(v, Horner(h0, h1, h2, h3, h4), Primes(h0, h1, h2, h3, h4))
<1>0. PICK k0, k1, k2, k3 :
        /\ k0 = (5  + h0) \div W /\ k1 = (k0 + h1) \div W
        /\ k2 = (k1 + h2) \div W /\ k3 = (k2 + h3) \div W
        /\ Primes(h0, h1, h2, h3, h4) = (k3 + h4) \div 4
  BY DEF Primes
<1>1. W \in Nat /\ h0 \in Nat /\ h1 \in Nat /\ h2 \in Nat /\ h3 \in Nat /\ h4 \in Nat
  BY WordSize DEF Word
<1>2. k0 \in Nat /\ U32(5 + h0) \in Word /\ Carry(5 + h0, k0, U32(5 + h0))
  BY <1>0, <1>1, CarryDivision
<1>3. k1 \in Nat /\ U32(k0 + h1) \in Word /\ Carry(k0 + h1, k1, U32(k0 + h1))
  <2>1. k0 + h1 \in Nat
    BY <1>1, <1>2
  <2>2. /\ (k0 + h1) \div W \in Nat /\ U32(k0 + h1) \in Word
        /\ Carry(k0 + h1, (k0 + h1) \div W, U32(k0 + h1))
    BY <2>1, CarryDivision, Zenon
  <2> QED BY <1>0, <2>2
<1>4. k2 \in Nat /\ U32(k1 + h2) \in Word /\ Carry(k1 + h2, k2, U32(k1 + h2))
  <2>1. k1 + h2 \in Nat
    BY <1>1, <1>3
  <2>2. /\ (k1 + h2) \div W \in Nat /\ U32(k1 + h2) \in Word
        /\ Carry(k1 + h2, (k1 + h2) \div W, U32(k1 + h2))
    BY <2>1, CarryDivision, Zenon
  <2> QED BY <1>0, <2>2
<1>5. k3 \in Nat /\ U32(k2 + h3) \in Word /\ Carry(k2 + h3, k3, U32(k2 + h3))
  <2>1. k2 + h3 \in Nat
    BY <1>1, <1>4
  <2>2. /\ (k2 + h3) \div W \in Nat /\ U32(k2 + h3) \in Word
        /\ Carry(k2 + h3, (k2 + h3) \div W, U32(k2 + h3))
    BY <2>1, CarryDivision, Zenon
  <2> QED BY <1>0, <2>2
<1>6. PICK q \in Nat, u \in Nat : q = (k3 + h4) \div 4 /\ k3 + h4 = 4 * q + u /\ u < 4
  <2>1. k3 + h4 \in Nat
    BY <1>1, <1>5
  <2>2. (k3 + h4) \div 4 \in Nat /\ (k3 + h4) % 4 \in Nat /\ (k3 + h4) % 4 < 4
        /\ k3 + h4 = 4 * ((k3 + h4) \div 4) + ((k3 + h4) % 4)
    BY <2>1
  <2> QED BY <2>2, Zenon
<1>7. PICK low \in Nat, n \in Nat :
        /\ n = Base * Base /\ low < n
        /\ Horner(5 + h0, h1, h2, h3, 0) = low + n * k3
  <2>1. PICK g0 \in Word, g1 \in Word, g2 \in Word, g3 \in Word :
          /\ Carry(5 + h0, k0, g0) /\ Carry(k0 + h1, k1, g1)
          /\ Carry(k1 + h2, k2, g2) /\ Carry(k2 + h3, k3, g3)
    BY <1>2, <1>3, <1>4, <1>5
  <2>2. 5 + h0 \in Int /\ g0 \in Int /\ g1 \in Int /\ g2 \in Int /\ g3 \in Int
    BY <1>1 DEF Word
  <2>3. PICK z \in Int : z = 5 + h0
    BY <2>2
  <2>4. Horner(z, h1, h2, h3, 0) = Horner(g0, g1, g2, g3, 0) + (Base * Base) * k3
    <3>1. Carry(z, k0, g0) /\ Carry(k0 + h1, k1, g1) /\ Carry(k1 + h2, k2, g2)
          /\ Carry(k2 + h3, k3, g3)
      BY <2>1, <2>3
    <3>2. h1 \in Int /\ h2 \in Int /\ h3 \in Int /\ k0 \in Int /\ k1 \in Int
          /\ k2 \in Int /\ k3 \in Int
      BY <1>1, <1>2, <1>3, <1>4, <1>5
    <3> HIDE <1>1, <1>2, <1>3, <1>4, <1>5
    <3> QED BY <2>2, <3>1, <3>2, FourCarries
  <2>5. Horner(g0, g1, g2, g3, 0) \in Nat /\ Horner(g0, g1, g2, g3, 0) < Base * Base
    BY FourWords
  <2>6. Base * Base \in Nat
    BY BaseSize
  <2> QED BY <2>3, <2>4, <2>5, <2>6
<1>8. PICK V \in Nat, f \in Nat :
        /\ V = Horner(h0, h1, h2, h3, h4) /\ f = Horner(h0, h1, h2, h3, 0)
        /\ f < n /\ V = f + n * h4 /\ Horner(5 + h0, h1, h2, h3, 0) = 5 + f
  <2>1. Horner(h0, h1, h2, h3, 0) \in Nat /\ Horner(h0, h1, h2, h3, 0) < n
    BY <1>7, FourWords
  <2>2. Horner(h0, h1, h2, h3, h4) = Horner(h0, h1, h2, h3, 0) + n * h4
    <3>1. W * (W * (W * (W * h4))) = n * h4
      BY <1>1, <1>7 DEF Base
    <3> QED BY <1>1, <3>1 DEF Horner
  <2>3. Horner(5 + h0, h1, h2, h3, 0) = 5 + Horner(h0, h1, h2, h3, 0)
    BY <1>1 DEF Horner
  <2>4. n * h4 \in Nat
    BY <1>1
  <2> QED BY <2>1, <2>2, <2>3, <2>4
<1>9. PICK M \in Nat : M = Modulus /\ M = 4 * n - 5 /\ n >= 65536
  <2>1. Base * Base >= 65536
    BY BaseSize
  <2> QED BY <1>7, <2>1, BaseSize
<1>10. V + 5 = low + n * u + 4 * (n * q)
  <2>1. n * k3 + n * h4 = n * u + 4 * (n * q)
    <3>1. n * (k3 + h4) = n * (4 * q + u)
      BY <1>6
    <3> QED BY <1>1, <1>5, <3>1
  <2> QED BY <1>1, <1>5, <1>7, <1>8, <2>1
<1>11. V < 5 * n
  <2>1. h4 \in {0, 1, 2, 3, 4}
    OBVIOUS
  <2> QED BY <1>8, <2>1
<1>12. q = 0 \/ q = 1
  <2>1. ASSUME q >= 2 PROVE FALSE
    <3>1. n * 2 <= n * q
      BY <2>1, ProductBound
    <3>2. n * u \in Nat /\ n * q \in Nat
      OBVIOUS
    <3> QED BY <1>9, <1>10, <1>11, <3>1, <3>2
  <2> QED BY <2>1
<1>13. V - q * M \in Nat /\ V - q * M < M
  <2>1. u \in {0, 1, 2, 3}
    BY <1>6
  <2>2. CASE q = 0
    <3>1. n * u <= n * 3 /\ n * u \in Nat
      BY <1>6, ProductBound
    <3>2. n * q = 0 /\ q * M = 0 /\ n * 3 = 3 * n
      BY <2>2
    <3>3. PICK x \in Nat : x = n * u
      BY <3>1
    <3>4. V + 5 = low + x /\ x <= 3 * n
      BY <1>10, <3>1, <3>2, <3>3
    <3>5. V < M
      BY <1>7, <1>9, <3>4
    <3>6. V - q * M = V
      BY <3>2
    <3> QED BY <3>5, <3>6
  <2>3. CASE q = 1
    <3>1. n * u \in Nat /\ n * q = n /\ q * M = M
      BY <2>3
    <3>2. PICK x \in Nat : x = n * u
      BY <3>1
    <3>3. V + 5 = low + x + 4 * n
      BY <1>10, <3>1, <3>2
    <3>4. V - M \in Nat /\ V - M < M
      BY <1>7, <1>9, <1>11, <3>3
    <3> QED BY <3>1, <3>4
  <2> QED BY <1>12, <2>2, <2>3
<1>14. PICK w \in Nat : w = V - q * M
  BY <1>13
<1>15. Same(w, v)
  <2>1. PICK p \in Int : w = V + p * M
    <3>1. w = V + (-q) * M /\ -q \in Int
      BY <1>14
    <3> QED BY <3>1
  <2>2. Same(w, V)
    <3>1. w = V + p * Modulus
      BY <1>9, <2>1
    <3> QED BY <3>1 DEF Same
  <2>3. Same(V, v)
    BY <1>8
  <2> QED BY <2>2, <2>3, SameTrans
<1>16. w = v
  BY <1>9, <1>13, <1>14, <1>15, SameBelow
<1>17. q \in Nat /\ v = V - q * Modulus
  BY <1>9, <1>14, <1>16
<1> QED BY <1>0, <1>6, <1>8, <1>17 DEF LessPrimes

\* The second loop: a sum, less what is above W^4.
LEMMA PadAdded ==
    ASSUME NEW hh, Accumulator(hh), pad \in [0 .. 3 -> Word], NEW n \in Nat
    PROVE  /\ AddPad(hh, n) \in [0 .. 3 -> Word]
           /\ \E j \in Int : KeyValue(AddPad(hh, n))
                               = n + Value(hh) + KeyValue(pad) + (Base * Base) * j
<1>1. W \in Nat
  BY ModulusSize
<1>2. PICK h0 \in Nat, h1 \in Nat, h2 \in Nat, h3 \in Nat, h4 \in Nat :
        h0 = hh[0] /\ h1 = hh[1] /\ h2 = hh[2] /\ h3 = hh[3] /\ h4 = hh[4]
  <2>1. hh[0] \in Nat /\ hh[1] \in Nat /\ hh[2] \in Nat /\ hh[3] \in Nat /\ hh[4] \in Nat
    BY <1>1 DEF Accumulator, Word
  <2> QED BY <2>1, Zenon
<1>3. PICK p0 \in Nat, p1 \in Nat, p2 \in Nat, p3 \in Nat :
        p0 = pad[0] /\ p1 = pad[1] /\ p2 = pad[2] /\ p3 = pad[3]
  <2>1. pad[0] \in Nat /\ pad[1] \in Nat /\ pad[2] \in Nat /\ pad[3] \in Nat
    BY <1>1 DEF Word
  <2> QED BY <2>1, Zenon
<1>4. PICK s0 \in Nat, k0 \in Nat, g0 \in Word :
        s0 = n + h0 + p0 /\ k0 = s0 \div W /\ g0 = U32(s0) /\ Carry(n + h0 + p0, k0, g0)
  <2>1. n + h0 + p0 \in Nat
    OBVIOUS
  <2> QED BY <2>1, CarryDivision
<1>5. PICK s1 \in Nat, k1 \in Nat, g1 \in Word :
        s1 = k0 + h1 + p1 /\ k1 = s1 \div W /\ g1 = U32(s1) /\ Carry(k0 + (h1 + p1), k1, g1)
  <2>1. k0 + h1 + p1 \in Nat /\ k0 + (h1 + p1) = k0 + h1 + p1
    OBVIOUS
  <2> QED BY <2>1, CarryDivision
<1>6. PICK s2 \in Nat, k2 \in Nat, g2 \in Word :
        s2 = k1 + h2 + p2 /\ k2 = s2 \div W /\ g2 = U32(s2) /\ Carry(k1 + (h2 + p2), k2, g2)
  <2>1. k1 + h2 + p2 \in Nat /\ k1 + (h2 + p2) = k1 + h2 + p2
    OBVIOUS
  <2> QED BY <2>1, CarryDivision
<1>7. PICK s3 \in Nat, k3 \in Nat, g3 \in Word :
        s3 = k2 + h3 + p3 /\ k3 = s3 \div W /\ g3 = U32(s3) /\ Carry(k2 + (h3 + p3), k3, g3)
  <2>1. k2 + h3 + p3 \in Nat /\ k2 + (h3 + p3) = k2 + h3 + p3
    OBVIOUS
  <2> QED BY <2>1, CarryDivision
<1>8. AddPad(hh, n) = [i \in 0 .. 3 |-> CASE i = 0 -> g0 [] i = 1 -> g1 [] i = 2 -> g2 [] i = 3 -> g3]
  <2>1. n + hh[0] + pad[0] = s0 /\ g0 = U32(s0)
    BY <1>2, <1>3, <1>4
  <2>2. (s0 \div W) + hh[1] + pad[1] = s1 /\ g1 = U32(s1)
    BY <1>2, <1>3, <1>4, <1>5
  <2>3. (s1 \div W) + hh[2] + pad[2] = s2 /\ g2 = U32(s2)
    BY <1>2, <1>3, <1>5, <1>6
  <2>4. (s2 \div W) + hh[3] + pad[3] = s3 /\ g3 = U32(s3)
    BY <1>2, <1>3, <1>6, <1>7
  <2> QED BY <2>1, <2>2, <2>3, <2>4 DEF AddPad
<1>9. AddPad(hh, n) \in [0 .. 3 -> Word]
  BY <1>8
<1>10. KeyValue(AddPad(hh, n)) = Horner(g0, g1, g2, g3, 0)
  BY <1>8 DEF KeyValue
<1>11. g0 \in Int /\ g1 \in Int /\ g2 \in Int /\ g3 \in Int
  BY <1>1 DEF Word
<1>12. Horner(n + h0 + p0, h1 + p1, h2 + p2, h3 + p3, 0)
         = Horner(g0, g1, g2, g3, 0) + (Base * Base) * k3
  <2>1. PICK x0 \in Int, x1 \in Int, x2 \in Int, x3 \in Int :
          x0 = n + h0 + p0 /\ x1 = h1 + p1 /\ x2 = h2 + p2 /\ x3 = h3 + p3
    <3>1. n + h0 + p0 \in Int /\ h1 + p1 \in Int /\ h2 + p2 \in Int /\ h3 + p3 \in Int
      OBVIOUS
    <3> QED BY <3>1
  <2>2. Carry(x0, k0, g0) /\ Carry(k0 + x1, k1, g1) /\ Carry(k1 + x2, k2, g2)
        /\ Carry(k2 + x3, k3, g3)
    BY <1>4, <1>5, <1>6, <1>7, <2>1
  <2>3. Horner(x0, x1, x2, x3, 0) = Horner(g0, g1, g2, g3, 0) + (Base * Base) * k3
    BY <1>11, <2>2, FourCarries
  <2> QED BY <2>1, <2>3
<1>13. Horner(n + h0 + p0, h1 + p1, h2 + p2, h3 + p3, 0)
         = n + Horner(h0, h1, h2, h3, 0) + Horner(p0, p1, p2, p3, 0)
  BY <1>1 DEF Horner
<1>14. Horner(h0, h1, h2, h3, h4) = Horner(h0, h1, h2, h3, 0) + (Base * Base) * h4
  <2>1. W * (W * (W * (W * h4))) = (Base * Base) * h4
    BY <1>1 DEF Base
  <2> QED BY <1>1, <2>1 DEF Horner
<1>15. Value(hh) = Horner(h0, h1, h2, h3, h4) /\ KeyValue(pad) = Horner(p0, p1, p2, p3, 0)
  BY <1>2, <1>3 DEF Value, KeyValue
<1>16. PICK a \in Int, b \in Int, d \in Int, e \in Int, m \in Int :
         /\ a = Horner(g0, g1, g2, g3, 0) /\ b = Horner(h0, h1, h2, h3, 0)
         /\ d = Horner(p0, p1, p2, p3, 0) /\ e = Horner(h0, h1, h2, h3, h4)
         /\ m = Base * Base
  <2>1. /\ Horner(g0, g1, g2, g3, 0) \in Int /\ Horner(h0, h1, h2, h3, 0) \in Int
        /\ Horner(p0, p1, p2, p3, 0) \in Int /\ Horner(h0, h1, h2, h3, h4) \in Int
    BY <1>1, <1>11 DEF Horner
  <2>2. Base * Base \in Int
    BY BaseSize
  <2> QED BY <2>1, <2>2, Zenon
<1>17. n + b + d = a + m * k3 /\ e = b + m * h4
  BY <1>12, <1>13, <1>14, <1>16
<1>18. a = n + e + d + m * (-k3 - h4) /\ -k3 - h4 \in Int
  BY <1>17
<1> QED BY <1>9, <1>10, <1>15, <1>16, <1>18

LEMMA TwoWords ==
    ASSUME NEW a \in Word, NEW b \in Word
    PROVE  a + W * b \in Nat /\ a + W * b < Base
<1>1. W \in Nat /\ W >= 16
  BY WordSize
<1>2. a \in Nat /\ b \in Nat /\ a <= W - 1 /\ b <= W - 1 /\ W - 1 \in Nat
  BY <1>1 DEF Word
<1>3. W * b <= W * (W - 1) /\ W * b \in Nat
  BY <1>1, <1>2, ProductBound
<1>4. W * (W - 1) = W * W - W /\ W * W \in Nat
  BY <1>1
<1> QED BY <1>1, <1>2, <1>3, <1>4 DEF Base

\* Four words as a number of the reference.
Extended(w) == [i \in 0 .. 4 |-> IF i = 4 THEN 0 ELSE w[i]]

LEMMA ExtendedNumber ==
    ASSUME NEW w \in [0 .. 3 -> Word]
    PROVE  /\ NumberOf(Extended(w)) = <<w[0] + W * w[1], w[2] + W * w[3]>>
           /\ w[0] + W * w[1] \in Nat /\ w[0] + W * w[1] < Base
           /\ w[2] + W * w[3] \in Nat /\ w[2] + W * w[3] < Base
           /\ (w[0] + W * w[1]) + Base * (w[2] + W * w[3]) = KeyValue(w)
<1>1. PICK a \in Word, b \in Word, d \in Word, e \in Word :
        a = w[0] /\ b = w[1] /\ d = w[2] /\ e = w[3]
  <2>1. w[0] \in Word /\ w[1] \in Word /\ w[2] \in Word /\ w[3] \in Word
    OBVIOUS
  <2> QED BY <2>1, Zenon
<1>2. W \in Nat /\ a \in Nat /\ b \in Nat /\ d \in Nat /\ e \in Nat
  BY WordSize DEF Word
<1>3. Extended(w)[0] = a /\ Extended(w)[1] = b /\ Extended(w)[2] = d /\ Extended(w)[3] = e
      /\ Extended(w)[4] = 0
  BY <1>1 DEF Extended
<1>4. d + W * e + W * W * 0 = d + W * e
  BY <1>2
<1>5. NumberOf(Extended(w)) = <<a + W * b, d + W * e>>
  BY <1>3, <1>4 DEF NumberOf
<1>6. (a + W * b) + Base * (d + W * e) = Horner(a, b, d, e, 0)
  BY <1>2 DEF Base, Horner
<1>7. a + W * b \in Nat /\ a + W * b < Base /\ d + W * e \in Nat /\ d + W * e < Base
  BY TwoWords
<1> QED BY <1>1, <1>5, <1>6, <1>7 DEF KeyValue

\* Two numbers below n that differ by a multiple of n.
LEMMA SameResidue ==
    ASSUME NEW a \in Nat, NEW b \in Nat, NEW n \in Nat, a < n, b < n,
           NEW s \in Nat, NEW i \in Int, NEW j \in Int, a = s + n * i, b = s + n * j
    PROVE  a = b
<1>1. ASSUME NEW x \in Nat, NEW y \in Nat, NEW k \in Int, x < n, x = y + n * k, k >= 1
      PROVE  FALSE
  <2>1. n * 1 <= n * k /\ n * k \in Nat
    BY <1>1, ProductBound
  <2> QED BY <1>1, <2>1
<1>2. PICK k \in Int : k = i - j
  OBVIOUS
<1>3. a = b + n * k
  <2>1. n * k = n * i - n * j /\ n * i \in Int /\ n * j \in Int
    BY <1>2
  <2> QED BY <2>1
<1>4. ~(k >= 1)
  BY <1>1, <1>3
<1>5. ~(k <= -1)
  <2>1. PICK p \in Int : p = -k
    OBVIOUS
  <2>2. b = a + n * p
    BY <1>3, <2>1
  <2>3. ~(p >= 1)
    BY <1>1, <2>2
  <2> QED BY <2>1, <2>3
<1>6. k = 0
  BY <1>4, <1>5
<1> QED BY <1>3, <1>6

\* The tag is the canonical number plus the pad, cut to four words.
LEMMA FinalRight ==
    ASSUME NEW hh, Accumulator(hh), pad \in [0 .. 3 -> Word],
           NEW P, Canon(P), Same(Value(hh), PairVal(P))
    PROVE  LET whole == Carried(Plus(P, NumberOf(Extended(pad))))
           IN  NumberOf(Extended(FinalTag(hh))) = <<whole[1], whole[2] % Base>>
<1>1. W \in Nat /\ W >= 16
  BY WordSize
<1>2. PICK n \in Nat, M \in Nat, b \in Nat :
        n = Base * Base /\ M = Modulus /\ b = Base /\ M = 4 * n - 5 /\ n = b * b /\ b >= 256
  BY BaseSize
<1>3. PICK v \in Nat : v = PairVal(P) /\ v < M
  BY <1>2, CanonDigits DEF Canon
<1>4. PICK q \in Nat, t \in [0 .. 3 -> Word] :
        /\ t = FinalTag(hh) /\ t = AddPad(hh, q * 5)
        /\ v = Value(hh) - q * M
  <2>1. PICK h0 \in Word, h1 \in Word, h2 \in Word, h3 \in Word, h4 \in 0 .. 4 :
          h0 = hh[0] /\ h1 = hh[1] /\ h2 = hh[2] /\ h3 = hh[3] /\ h4 = hh[4]
    <3>1. hh[0] \in Word /\ hh[1] \in Word /\ hh[2] \in Word /\ hh[3] \in Word /\ hh[4] \in 0 .. 4
      BY <1>1 DEF Accumulator, Word
    <3> QED BY <3>1, Zenon
  <2>3. Value(hh) = Horner(h0, h1, h2, h3, h4)
    BY <2>1 DEF Value
  <2>4. Same(Horner(h0, h1, h2, h3, h4), v)
    BY <1>3, <2>3
  <2>5. /\ Primes(h0, h1, h2, h3, h4) \in Nat
        /\ v = Horner(h0, h1, h2, h3, h4) - Primes(h0, h1, h2, h3, h4) * Modulus
    <3>1. v < Modulus
      BY <1>2, <1>3
    <3>2. /\ Primes(h0, h1, h2, h3, h4) \in Nat
          /\ LessPrimes(v, Horner(h0, h1, h2, h3, h4), Primes(h0, h1, h2, h3, h4))
      BY <2>4, <3>1, PrimeTaken, Zenon
    <3> QED BY <3>2 DEF LessPrimes
  <2>6. FinalTag(hh) = AddPad(hh, Primes(h0, h1, h2, h3, h4) * 5)
    BY <2>1 DEF FinalTag, Primes
  <2>7. PICK q \in Nat : q = Primes(h0, h1, h2, h3, h4)
    BY <2>5
  <2>8. q * 5 \in Nat /\ FinalTag(hh) = AddPad(hh, q * 5)
    BY <2>6, <2>7
  <2>9. AddPad(hh, q * 5) \in [0 .. 3 -> Word]
    BY <2>8, PadAdded
  <2>10. v = Value(hh) - q * M
    BY <1>2, <2>3, <2>5, <2>7
  <2> QED BY <2>8, <2>9, <2>10
<1>5. PICK p \in Nat : p = KeyValue(pad)
  <2>1. KeyValue(pad) \in Nat
    BY <1>2, ExtendedNumber
  <2> QED BY <2>1
<1>6. PICK T \in Nat, i \in Int : T = KeyValue(t) /\ T < n /\ T = v + p + n * i
  <2>1. PICK j \in Int : KeyValue(AddPad(hh, q * 5)) = q * 5 + Value(hh) + KeyValue(pad) + (Base * Base) * j
    <3>1. q * 5 \in Nat
      OBVIOUS
    <3> QED BY <3>1, PadAdded
  <2>2. PICK V \in Int : V = Value(hh)
    BY ValueIsInt
  <2>3. KeyValue(t) = q * 5 + V + p + n * j
    BY <1>2, <1>4, <1>5, <2>1, <2>2
  <2>4. V = v + q * (4 * n - 5)
    BY <1>2, <1>4, <2>2
  <2>5. q * 5 + (v + q * (4 * n - 5)) + p + n * j = v + p + n * (4 * q + j)
    OBVIOUS
  <2>6. 4 * q + j \in Int
    OBVIOUS
  <2>7. KeyValue(t) \in Nat /\ KeyValue(t) < n
    <3>1. t[0] \in Word /\ t[1] \in Word /\ t[2] \in Word /\ t[3] \in Word
      OBVIOUS
    <3> QED BY <1>2, <3>1, FourWords DEF KeyValue
  <2> QED BY <2>3, <2>4, <2>5, <2>6, <2>7
<1>7. PICK P1 \in Nat, P2 \in Nat : P = <<P1, P2>> /\ v = P1 + b * P2
  BY <1>2, <1>3, CanonDigits DEF PairVal
<1>8. PICK Q1 \in Nat, Q2 \in Nat : NumberOf(Extended(pad)) = <<Q1, Q2>> /\ p = Q1 + b * Q2
  BY <1>2, <1>5, ExtendedNumber
<1>9. PICK x \in Nat, y \in Nat :
        /\ Carried(Plus(P, NumberOf(Extended(pad)))) = <<x, y>>
        /\ x < b /\ x + b * y = v + p
  <2>1. PICK u1 \in Nat, u2 \in Nat : u1 = P1 + Q1 /\ u2 = P2 + Q2
    OBVIOUS
  <2>2. Plus(P, NumberOf(Extended(pad))) = <<u1, u2>>
    BY <1>7, <1>8, <2>1 DEF Plus
  <2>3. /\ Carried(<<u1, u2>>) = <<u1 % b, u2 + (u1 \div b)>>
        /\ u1 % b \in Nat /\ u1 % b < b /\ u1 \div b \in Nat
        /\ (u1 % b) + b * (u2 + (u1 \div b)) = u1 + b * u2
    BY <1>2, CarriedValue
  <2>4. u2 + (u1 \div b) \in Nat
    BY <2>3
  <2>5. u1 + b * u2 = v + p
    BY <1>7, <1>8, <2>1
  <2> QED BY <2>2, <2>3, <2>4, <2>5
<1>10. PICK d \in Nat, z \in Nat : z = y % b /\ z < b /\ y = b * d + z
  <2>1. y \div b \in Nat /\ y % b \in Nat /\ y % b < b /\ y = b * (y \div b) + (y % b)
    BY <1>2, Division
  <2> QED BY <2>1, Zenon
<1>11. PICK S \in Nat : S = x + b * z /\ S < n /\ S = v + p + n * (-d)
  <2>1. b * z <= b * (b - 1) /\ b * z \in Nat
    BY <1>2, <1>10, ProductBound
  <2>2. b * (b - 1) = n - b
    BY <1>2
  <2>3. b * y = n * d + b * z
    BY <1>2, <1>10
  <2>4. n * (-d) = -(n * d) /\ n * d \in Nat
    OBVIOUS
  <2> QED BY <1>2, <1>9, <2>1, <2>2, <2>3, <2>4
<1>12. T = S
  <2>1. v + p \in Nat /\ -d \in Int
    OBVIOUS
  <2> QED BY <1>6, <1>11, <2>1, SameResidue
<1>13. PICK t1 \in Nat, t2 \in Nat :
         NumberOf(Extended(t)) = <<t1, t2>> /\ t1 < b /\ t2 < b /\ T = t1 + b * t2
  BY <1>2, <1>6, ExtendedNumber
<1>14. t1 = x /\ t2 = z
  BY <1>9, <1>11, <1>12, <1>13, DigitsUnique
<1> QED BY <1>2, <1>4, <1>9, <1>10, <1>13, <1>14

----------------------------------------------------------------------------
(* The polynomial of the reference, chunk by chunk.                        *)

\* Induction, for a set: 0 and every successor are in it.
LEMMA SetInduction ==
    ASSUME NEW T, 0 \in T, \A n \in Nat : n \in T => n + 1 \in T
    PROVE  Nat \subseteq T
<1> DEFINE gaps == Nat \ T
<1>1. SUFFICES ASSUME gaps # {} PROVE FALSE
  OBVIOUS
<1>2. PICK g \in gaps : \A x \in gaps : ~ (<<x, g>> \in OpToRel(<, Nat))
  <2>1. IsWellFoundedOn(OpToRel(<, Nat), Nat)
    BY NatLessThanWellFounded
  <2> QED BY <1>1, <2>1, WFMin
<1>3. g \in Nat /\ g # 0
  OBVIOUS
<1>4. g - 1 \in Nat /\ g - 1 < g
  BY <1>3
<1>5. g - 1 \notin gaps
  BY <1>2, <1>3, <1>4 DEF OpToRel
<1>6. (g - 1) + 1 \in T
  BY <1>4, <1>5
<1> QED BY <1>3, <1>6

\* One chunk more of the polynomial.
NextPower(p, s, m, k) == Times(Remainder(Plus(p, ChunkNumber(s, k))), m)

IsPolynomial(f, s, m, n) ==
    f = [k \in 0 .. n |-> IF k = 0 THEN <<0, 0>> ELSE NextPower(f[k - 1], s, m, k)]

LEMMA PolynomialExists ==
    ASSUME NEW s, NEW m, NEW n \in Nat
    PROVE  \E f : IsPolynomial(f, s, m, n)
<1> DEFINE T == {j \in Nat : \E f : IsPolynomial(f, s, m, j)}
<1>1. 0 \in T
  <2> DEFINE f == [k \in 0 .. 0 |-> <<0, 0>>]
  <2>1. f = [k \in 0 .. 0 |-> IF k = 0 THEN <<0, 0>> ELSE NextPower(f[k - 1], s, m, k)]
    OBVIOUS
  <2>2. IsPolynomial(f, s, m, 0)
    BY <2>1 DEF IsPolynomial
  <2> QED BY <2>2
<1>2. ASSUME NEW j \in Nat, j \in T PROVE j + 1 \in T
  <2>1. PICK f : IsPolynomial(f, s, m, j)
    BY <1>2
  <2>2. f = [k \in 0 .. j |-> IF k = 0 THEN <<0, 0>> ELSE NextPower(f[k - 1], s, m, k)]
    BY <2>1 DEF IsPolynomial
  <2> DEFINE g == [k \in 0 .. j + 1 |-> IF k = j + 1 THEN NextPower(f[j], s, m, j + 1) ELSE f[k]]
             step(k) == IF k = 0 THEN <<0, 0>> ELSE NextPower(g[k - 1], s, m, k)
  <2>3. ASSUME NEW k \in 0 .. j + 1 PROVE g[k] = step(k)
    <3>1. CASE k = j + 1
      <4>1. k # 0 /\ k - 1 = j /\ j \in 0 .. j + 1 /\ j # j + 1
        BY <3>1
      <4>2. g[k - 1] = f[j]
        BY <4>1
      <4>3. g[k] = NextPower(f[j], s, m, k)
        BY <3>1
      <4> QED BY <4>1, <4>2, <4>3
    <3>2. CASE k = 0
      <4>1. g[k] = f[k] /\ f[k] = <<0, 0>>
        BY <2>2, <3>2
      <4> QED BY <3>2, <4>1
    <3>3. CASE k # 0 /\ k # j + 1
      <4>1. k \in 0 .. j /\ k - 1 \in 0 .. j /\ k - 1 \in 0 .. j + 1 /\ k - 1 # j + 1
        BY <3>3
      <4>2. g[k] = f[k] /\ g[k - 1] = f[k - 1]
        BY <3>3, <4>1
      <4>3. f[k] = NextPower(f[k - 1], s, m, k)
        BY <2>2, <3>3, <4>1
      <4> QED BY <3>3, <4>2, <4>3
    <3> QED BY <3>1, <3>2, <3>3
  <2>4. g = [k \in 0 .. j + 1 |-> step(k)]
    BY <2>3
  <2>5. IsPolynomial(g, s, m, j + 1)
    BY <2>4 DEF IsPolynomial
  <2> QED BY <2>5
<1>3. Nat \subseteq T
  <2> HIDE DEF T
  <2> QED BY <1>1, <1>2, SetInduction
<1> QED BY <1>3

LEMMA PolynomialIs ==
    ASSUME NEW s, NEW m, Chunks(s) \in Nat
    PROVE  IsPolynomial(Polynomial(s, m), s, m, Chunks(s))
<1>1. Polynomial(s, m) = CHOOSE f : IsPolynomial(f, s, m, Chunks(s))
  BY DEF Polynomial, IsPolynomial, NextPower
<1>2. \E f : IsPolynomial(f, s, m, Chunks(s))
  BY PolynomialExists
<1> QED BY <1>1, <1>2

LEMMA PolynomialSteps ==
    ASSUME NEW s, NEW m, Chunks(s) \in Nat
    PROVE  /\ Polynomial(s, m)[0] = <<0, 0>>
           /\ \A k \in 1 .. Chunks(s) :
                Polynomial(s, m)[k] = NextPower(Polynomial(s, m)[k - 1], s, m, k)
<1>1. PICK p : p = Polynomial(s, m)
  OBVIOUS
<1>2. PICK n \in Nat : n = Chunks(s)
  OBVIOUS
<1>3. p = [k \in 0 .. n |-> IF k = 0 THEN <<0, 0>> ELSE NextPower(p[k - 1], s, m, k)]
  BY <1>1, <1>2, PolynomialIs DEF IsPolynomial
<1> DEFINE step(k) == IF k = 0 THEN <<0, 0>> ELSE NextPower(p[k - 1], s, m, k)
<1>a. \A k \in 0 .. n : p[k] = step(k)
  <2>1. p = [k \in 0 .. n |-> step(k)]
    BY <1>3
  <2> HIDE DEF step
  <2> QED BY <2>1
<1>4. p[0] = <<0, 0>>
  <2>1. 0 \in 0 .. n
    OBVIOUS
  <2> QED BY <1>a, <2>1
<1>5. ASSUME NEW k \in 1 .. n PROVE p[k] = NextPower(p[k - 1], s, m, k)
  <2>1. k \in 0 .. n /\ k # 0
    OBVIOUS
  <2>2. p[k] = step(k)
    BY <1>a, <2>1, Zenon
  <2> QED BY <2>1, <2>2, Zenon
<1> QED BY <1>1, <1>2, <1>4, <1>5

----------------------------------------------------------------------------
(* The bytes of a chunk and its words.                                     *)

\* n bytes of s after the first from, and one behind them.
ChunkBytes(s, from, n, last) ==
    [j \in 0 .. 19 |-> IF j < n THEN s[from + j + 1] ELSE IF j = n THEN last ELSE 0]

WordOf(b, i) ==
    b[4 * i] + ByteSize * (b[4 * i + 1] + ByteSize * (b[4 * i + 2] + ByteSize * b[4 * i + 3]))

LEMMA ByteRange ==
    ByteSize \in Nat /\ ByteSize >= 2 /\ 0 \in Byte /\ 1 \in Byte
<1>1. ByteSize \in Nat \ {0} /\ W = ByteSize * ByteSize * ByteSize * ByteSize
  BY PolyAssumption
<1>2. ByteSize # 1
  BY <1>1, WordSize
<1> QED BY <1>1, <1>2 DEF Byte

LEMMA ChunkBytesTyped ==
    ASSUME NEW s \in Seq(Byte), NEW from \in Nat, NEW n \in 0 .. PolyBlock,
           from + n <= Len(s), NEW last \in {0, 1}
    PROVE  ChunkBytes(s, from, n, last) \in [0 .. 19 -> Byte]
<1>1. ASSUME NEW j \in 0 .. 19, j < n PROVE s[from + j + 1] \in Byte
  <2>1. from + j + 1 \in 1 .. Len(s)
    BY <1>1
  <2> QED BY <2>1
<1> QED BY <1>1, ByteRange DEF ChunkBytes

LEMMA WordOfBytes ==
    ASSUME NEW b \in [0 .. 19 -> Byte], NEW i \in 0 .. 4
    PROVE  WordOf(b, i) \in Word
<1>1. b[4 * i] \in Byte /\ b[4 * i + 1] \in Byte /\ b[4 * i + 2] \in Byte /\ b[4 * i + 3] \in Byte
  OBVIOUS
<1> DEFINE s == <<b[4 * i], b[4 * i + 1], b[4 * i + 2], b[4 * i + 3]>>
<1>2. s \in Seq(Byte) /\ Len(s) = 4
  BY <1>1
<1>3. Load32(s, 0) \in Word
  <2>1. 0 \in Nat /\ 0 + 4 <= Len(s)
    BY <1>2
  <2> HIDE DEF s
  <2> QED BY <1>2, <2>1, LoadedWord
<1>4. Load32(s, 0) = WordOf(b, i)
  BY DEF Load32, WordOf
<1> QED BY <1>3, <1>4

\* A word, and what it was before y was added to it.
Raised(new, old, here, y) == IF here THEN new = old + y ELSE new = old

\* A byte into an empty place counts for its place.
LEMMA ByteAdded ==
    ASSUME NEW b \in [0 .. 19 -> Int], NEW n \in 0 .. PolyBlock - 1, b[n] = 0, NEW x \in Int,
           NEW i \in 0 .. 3, NEW d, d = [b EXCEPT ![n] = x]
    PROVE  Raised(WordOf(d, i), WordOf(b, i), i = n \div 4, x * Place[(n % 4) + 1])
<1>1. ByteSize \in Nat
  BY ByteRange
<1>2. PICK b0 \in Int, b1 \in Int, b2 \in Int, b3 \in Int :
        b0 = b[4 * i] /\ b1 = b[4 * i + 1] /\ b2 = b[4 * i + 2] /\ b3 = b[4 * i + 3]
  <2>1. b[4 * i] \in Int /\ b[4 * i + 1] \in Int /\ b[4 * i + 2] \in Int /\ b[4 * i + 3] \in Int
    OBVIOUS
  <2> QED BY <2>1, Zenon
<1>3. /\ 4 * i \in 0 .. 19 /\ 4 * i + 1 \in 0 .. 19 /\ 4 * i + 2 \in 0 .. 19 /\ 4 * i + 3 \in 0 .. 19
  OBVIOUS
<1>4. \A j \in 0 .. 19 : d[j] = IF j = n THEN x ELSE b[j]
  OBVIOUS
<1>5. WordOf(b, i) = b0 + ByteSize * (b1 + ByteSize * (b2 + ByteSize * b3))
  BY <1>2 DEF WordOf
<1>6. WordOf(d, i) = d[4 * i] + ByteSize * (d[4 * i + 1] + ByteSize * (d[4 * i + 2] + ByteSize * d[4 * i + 3]))
  BY DEF WordOf
<1>7. n = 4 * (n \div 4) + (n % 4) /\ n \div 4 \in 0 .. 3 /\ n % 4 \in 0 .. 3
  BY DEF PolyBlock
<1>8. CASE i # n \div 4
  <2>1. 4 * i # n /\ 4 * i + 1 # n /\ 4 * i + 2 # n /\ 4 * i + 3 # n
    BY <1>7, <1>8
  <2>2. d[4 * i] = b0 /\ d[4 * i + 1] = b1 /\ d[4 * i + 2] = b2 /\ d[4 * i + 3] = b3
    BY <1>2, <1>3, <1>4, <2>1
  <2>3. WordOf(d, i) = WordOf(b, i) /\ WordOf(b, i) \in Int
    <3>1. b0 + ByteSize * (b1 + ByteSize * (b2 + ByteSize * b3)) \in Int
      BY <1>1
    <3> QED BY <1>5, <1>6, <2>2, <3>1
  <2> QED BY <1>8, <2>3 DEF Raised
<1>9. CASE i = n \div 4
  <2>1. CASE n % 4 = 0
    <3>1. d[4 * i] = x /\ d[4 * i + 1] = b1 /\ d[4 * i + 2] = b2 /\ d[4 * i + 3] = b3 /\ b0 = 0
      BY <1>2, <1>3, <1>4, <1>7, <1>9, <2>1
    <3>2. Place[(n % 4) + 1] = 1
      BY <2>1 DEF Place
    <3>3. x + ByteSize * (b1 + ByteSize * (b2 + ByteSize * b3))
            = 0 + ByteSize * (b1 + ByteSize * (b2 + ByteSize * b3)) + x * 1
      BY <1>1
    <3> QED BY <1>5, <1>6, <1>9, <3>1, <3>2, <3>3 DEF Raised
  <2>2. CASE n % 4 = 1
    <3>1. d[4 * i] = b0 /\ d[4 * i + 1] = x /\ d[4 * i + 2] = b2 /\ d[4 * i + 3] = b3 /\ b1 = 0
      BY <1>2, <1>3, <1>4, <1>7, <1>9, <2>2
    <3>2. Place[(n % 4) + 1] = ByteSize
      BY <2>2 DEF Place
    <3>3. b0 + ByteSize * (x + ByteSize * (b2 + ByteSize * b3))
            = b0 + ByteSize * (0 + ByteSize * (b2 + ByteSize * b3)) + x * ByteSize
      BY <1>1
    <3> QED BY <1>5, <1>6, <1>9, <3>1, <3>2, <3>3 DEF Raised
  <2>3. CASE n % 4 = 2
    <3>1. d[4 * i] = b0 /\ d[4 * i + 1] = b1 /\ d[4 * i + 2] = x /\ d[4 * i + 3] = b3 /\ b2 = 0
      BY <1>2, <1>3, <1>4, <1>7, <1>9, <2>3
    <3>2. Place[(n % 4) + 1] = ByteSize * ByteSize
      BY <2>3 DEF Place
    <3>3. b0 + ByteSize * (b1 + ByteSize * (x + ByteSize * b3))
            = b0 + ByteSize * (b1 + ByteSize * (0 + ByteSize * b3)) + x * (ByteSize * ByteSize)
      BY <1>1
    <3> QED BY <1>5, <1>6, <1>9, <3>1, <3>2, <3>3 DEF Raised
  <2>4. CASE n % 4 = 3
    <3>1. d[4 * i] = b0 /\ d[4 * i + 1] = b1 /\ d[4 * i + 2] = b2 /\ d[4 * i + 3] = x /\ b3 = 0
      BY <1>2, <1>3, <1>4, <1>7, <1>9, <2>4
    <3>2. Place[(n % 4) + 1] = ByteSize * ByteSize * ByteSize
      BY <2>4 DEF Place
    <3>3. b0 + ByteSize * (b1 + ByteSize * (b2 + ByteSize * x))
            = b0 + ByteSize * (b1 + ByteSize * (b2 + ByteSize * 0)) + x * (ByteSize * ByteSize * ByteSize)
      BY <1>1
    <3> QED BY <1>5, <1>6, <1>9, <3>1, <3>2, <3>3 DEF Raised
  <2> QED BY <1>7, <2>1, <2>2, <2>3, <2>4
<1> QED BY <1>8, <1>9

\* What c holds when n bytes of the chunk behind from are there.
Holds(cc, s, from, n, last) ==
    \A i \in 0 .. 3 : cc[i] = WordOf(ChunkBytes(s, from, n, last), i)

LEMMA TakenHolds ==
    ASSUME NEW s \in Seq(Byte), NEW from \in Nat, NEW n \in 0 .. PolyBlock - 1,
           from + n <= Len(s), NEW cc \in [0 .. 4 -> Word], Holds(cc, s, from, n, 0)
    PROVE  /\ Holds(TakeInput(cc, n, 1), s, from, n, 1)
           /\ from + n < Len(s) => Holds(TakeInput(cc, n, s[from + n + 1]), s, from, n + 1, 0)
<1>0. n \in 0 .. PolyBlock /\ n \in 0 .. 19 /\ n \in Int /\ 0 \in {0, 1}
  BY DEF PolyBlock
<1>1. PICK b \in [0 .. 19 -> Byte] : b = ChunkBytes(s, from, n, 0)
  BY <1>0, ChunkBytesTyped
<1>a. b = [j \in 0 .. 19 |-> IF j < n THEN s[from + j + 1] ELSE IF j = n THEN 0 ELSE 0]
  BY <1>1 DEF ChunkBytes
<1>2. b \in [0 .. 19 -> Int] /\ b[n] = 0
  <2>1. Byte \subseteq Int
    BY ByteRange DEF Byte
  <2>2. b[n] = 0
    BY <1>0, <1>a
  <2> QED BY <2>1, <2>2
<1>3. \A i \in 0 .. 3 : cc[i] = WordOf(b, i)
  BY <1>1 DEF Holds
<1>4. n \div 4 \in 0 .. 3
  BY DEF PolyBlock
<1>5. ASSUME NEW x \in Int, NEW d, d = [b EXCEPT ![n] = x], NEW i \in 0 .. 3
      PROVE  TakeInput(cc, n, x)[i] = WordOf(d, i)
  <2>1. Raised(TakeInput(cc, n, x)[i], cc[i], i = n \div 4, x * Place[(n % 4) + 1])
    <3>1. PICK k \in 0 .. 3 : k = n \div 4
      BY <1>4
    <3>a. PICK y : y = x * Place[(n % 4) + 1]
      OBVIOUS
    <3>2. TakeInput(cc, n, x) = [cc EXCEPT ![k] = cc[k] + y]
      BY <3>1, <3>a DEF TakeInput
    <3>3. k \in 0 .. 4 /\ i \in 0 .. 4
      OBVIOUS
    <3>4. [cc EXCEPT ![k] = cc[k] + y][i] = IF i = k THEN cc[k] + y ELSE cc[i]
      BY <3>3
    <3> QED BY <3>1, <3>a, <3>2, <3>4 DEF Raised
  <2>2. Raised(WordOf(d, i), WordOf(b, i), i = n \div 4, x * Place[(n % 4) + 1])
    BY <1>2, <1>5, ByteAdded, Zenon
  <2>3. cc[i] = WordOf(b, i)
    BY <1>3
  <2>4. CASE i = n \div 4
    BY <2>1, <2>2, <2>3, <2>4 DEF Raised
  <2>5. CASE i # n \div 4
    BY <2>1, <2>2, <2>3, <2>5 DEF Raised
  <2> QED BY <2>4, <2>5
<1>b. ASSUME NEW x
      PROVE  [b EXCEPT ![n] = x]
               = [j \in 0 .. 19 |-> IF j < n THEN s[from + j + 1] ELSE IF j = n THEN x ELSE 0]
  <2>1. [b EXCEPT ![n] = x] = [j \in 0 .. 19 |-> IF j = n THEN x ELSE b[j]]
    OBVIOUS
  <2>2. ASSUME NEW j \in 0 .. 19
        PROVE  (IF j = n THEN x ELSE b[j]) = IF j < n THEN s[from + j + 1] ELSE IF j = n THEN x ELSE 0
    BY <1>0, <1>a
  <2> QED BY <2>1, <2>2
<1>6. [b EXCEPT ![n] = 1] = ChunkBytes(s, from, n, 1)
  BY <1>b DEF ChunkBytes
<1>7. Holds(TakeInput(cc, n, 1), s, from, n, 1)
  <2>1. 1 \in Int
    OBVIOUS
  <2> QED BY <1>5, <1>6, <2>1 DEF Holds
<1>8. ASSUME from + n < Len(s)
      PROVE  Holds(TakeInput(cc, n, s[from + n + 1]), s, from, n + 1, 0)
  <2>1. s[from + n + 1] \in Int
    <3>1. from + n + 1 \in 1 .. Len(s)
      BY <1>0, <1>8
    <3>2. PICK z \in 1 .. Len(s) : z = from + n + 1
      BY <3>1
    <3>3. s[z] \in Byte
      BY ElementOfSeq, Zenon
    <3>4. Byte \subseteq Int
      BY ByteRange DEF Byte
    <3> QED BY <3>2, <3>3, <3>4
  <2>2. [b EXCEPT ![n] = s[from + n + 1]] = ChunkBytes(s, from, n + 1, 0)
    <3>1. ASSUME NEW j \in 0 .. 19
          PROVE  (IF j < n THEN s[from + j + 1] ELSE IF j = n THEN s[from + n + 1] ELSE 0)
                   = IF j < n + 1 THEN s[from + j + 1] ELSE IF j = n + 1 THEN 0 ELSE 0
      <4>1. CASE j < n
        BY <1>0, <4>1
      <4>2. CASE j = n
        BY <1>0, <4>2
      <4>3. CASE j > n
        BY <1>0, <4>3
      <4> QED BY <1>0, <4>1, <4>2, <4>3
    <3> QED BY <1>b, <3>1 DEF ChunkBytes
  <2> QED BY <1>5, <2>1, <2>2 DEF Holds
<1> QED BY <1>7, <1>8

\* Nothing is there at the start of a chunk; a whole block is there when it is loaded.
LEMMA EmptyHolds ==
    ASSUME NEW s, NEW from, NEW cc, \A i \in 0 .. 3 : cc[i] = 0
    PROVE  Holds(cc, s, from, 0, 0)
<1>1. \A j \in 0 .. 19 : ChunkBytes(s, from, 0, 0)[j] = 0
  BY DEF ChunkBytes
<1>2. ASSUME NEW i \in 0 .. 3 PROVE WordOf(ChunkBytes(s, from, 0, 0), i) = 0
  <2>1. 4 * i \in 0 .. 19 /\ 4 * i + 1 \in 0 .. 19 /\ 4 * i + 2 \in 0 .. 19 /\ 4 * i + 3 \in 0 .. 19
    OBVIOUS
  <2> QED BY <1>1, <2>1, ByteRange DEF WordOf
<1> QED BY <1>2 DEF Holds

LEMMA LoadedHolds ==
    ASSUME NEW s, NEW n \in Nat, NEW cc, NEW last
    PROVE  Holds(LoadedChunk(cc, s, n), s, n, PolyBlock, last)
<1>1. ASSUME NEW i \in 0 .. 3
      PROVE  LoadedChunk(cc, s, n)[i] = WordOf(ChunkBytes(s, n, PolyBlock, last), i)
  <2>1. LoadedChunk(cc, s, n)[i] = Load32(s, n + 4 * i)
    BY DEF LoadedChunk
  <2>2. \A j \in 0 .. 15 : ChunkBytes(s, n, PolyBlock, last)[j] = s[n + j + 1]
    BY DEF ChunkBytes, PolyBlock
  <2>3. /\ 4 * i \in 0 .. 15 /\ 4 * i + 1 \in 0 .. 15 /\ 4 * i + 2 \in 0 .. 15 /\ 4 * i + 3 \in 0 .. 15
        /\ n + (4 * i + 1) + 1 = (n + 4 * i) + 2 /\ n + (4 * i + 2) + 1 = (n + 4 * i) + 3
        /\ n + (4 * i + 3) + 1 = (n + 4 * i) + 4
    OBVIOUS
  <2> QED BY <2>1, <2>2, <2>3 DEF Load32, WordOf
<1> QED BY <1>1 DEF Holds

----------------------------------------------------------------------------
(* The chunks of the reference.                                            *)

SizeOf(s, k) == Smaller(PolyBlock, Len(s) - (k - 1) * PolyBlock)
WordsOf(b) == [i \in 0 .. 4 |-> WordOf(b, i)]

LEMMA ChunkNumberIs ==
    ASSUME NEW s, NEW k
    PROVE  ChunkNumber(s, k)
             = NumberOf(WordsOf(ChunkBytes(s, (k - 1) * PolyBlock, SizeOf(s, k), 1)))
<1> DEFINE from == (k - 1) * PolyBlock
           size == SizeOf(s, k)
           byte(j) == IF j < size THEN s[from + j + 1] ELSE IF j = size THEN 1 ELSE 0
           b == ChunkBytes(s, from, size, 1)
           word(i) == byte(4 * i) + ByteSize * (byte(4 * i + 1)
                        + ByteSize * (byte(4 * i + 2) + ByteSize * byte(4 * i + 3)))
<1>1. ChunkNumber(s, k) = NumberOf([i \in 0 .. 4 |-> word(i)])
  BY DEF ChunkNumber, SizeOf
<1>2. \A j \in 0 .. 19 : b[j] = byte(j)
  BY DEF ChunkBytes
<1> HIDE DEF byte, b
<1>3. ASSUME NEW i \in 0 .. 4 PROVE word(i) = WordOf(b, i)
  <2>1. 4 * i \in 0 .. 19 /\ 4 * i + 1 \in 0 .. 19 /\ 4 * i + 2 \in 0 .. 19 /\ 4 * i + 3 \in 0 .. 19
    OBVIOUS
  <2>2. b[4 * i] = byte(4 * i) /\ b[4 * i + 1] = byte(4 * i + 1) /\ b[4 * i + 2] = byte(4 * i + 2)
        /\ b[4 * i + 3] = byte(4 * i + 3)
    BY <1>2, <2>1
  <2> QED BY <2>2 DEF WordOf
<1>4. [i \in 0 .. 4 |-> word(i)] = WordsOf(b)
  <2> HIDE DEF word
  <2> QED BY <1>3 DEF WordsOf
<1> QED BY <1>1, <1>4 DEF b

\* The top word of a chunk: 1 behind a whole block, 0 behind less.
LEMMA TopWord ==
    ASSUME NEW s, NEW from, NEW n \in 0 .. PolyBlock, NEW last \in {0, 1}
    PROVE  WordOf(ChunkBytes(s, from, n, last), 4) = IF n = PolyBlock THEN last ELSE 0
<1> DEFINE b == ChunkBytes(s, from, n, last)
<1>1. n \in 0 .. 16 /\ PolyBlock = 16
  BY DEF PolyBlock
<1>2. b = [j \in 0 .. 19 |-> IF j < n THEN s[from + j + 1] ELSE IF j = n THEN last ELSE 0]
  BY DEF ChunkBytes
<1>3. b[16] = IF n = 16 THEN last ELSE 0
  BY <1>1, <1>2
<1>4. b[17] = 0 /\ b[18] = 0 /\ b[19] = 0
  BY <1>1, <1>2
<1> HIDE DEF b
<1>5. WordOf(b, 4) = b[16] + ByteSize * (b[17] + ByteSize * (b[18] + ByteSize * b[19]))
  BY DEF WordOf
<1>6. b[16] + ByteSize * (0 + ByteSize * (0 + ByteSize * 0)) = b[16]
  BY <1>3, ByteRange
<1> QED BY <1>1, <1>3, <1>4, <1>5, <1>6 DEF b

\* A chunk of the reference is one of poly_block.
LEMMA BytesAreChunk ==
    ASSUME NEW s \in Seq(Byte), NEW from \in Nat, NEW n \in 0 .. PolyBlock,
           from + n <= Len(s)
    PROVE  Chunk(WordsOf(ChunkBytes(s, from, n, 1)))
<1>1. 1 \in {0, 1}
  OBVIOUS
<1>2. PICK b \in [0 .. 19 -> Byte] : b = ChunkBytes(s, from, n, 1)
  BY <1>1, ChunkBytesTyped
<1>3. \A i \in 0 .. 4 : WordOf(b, i) \in Word
  BY WordOfBytes
<1>4. WordsOf(b) \in [0 .. 4 -> Word]
  BY <1>3 DEF WordsOf
<1>5. WordOf(b, 4) <= 1
  <2>1. WordOf(b, 4) = IF n = PolyBlock THEN 1 ELSE 0
    BY <1>1, <1>2, TopWord
  <2> QED BY <2>1
<1>6. WordsOf(b)[4] = WordOf(b, 4)
  BY DEF WordsOf
<1> QED BY <1>2, <1>4, <1>5, <1>6 DEF Chunk

\* One chunk more, as poly_block takes it.
LEMMA NextPowerRight ==
    ASSUME NEW p, Canon(p), NEW m, ClampedKey(m), NEW s, NEW k, NEW cc, Chunk(cc),
           ChunkNumber(s, k) = NumberOf(cc)
    PROVE  /\ Canon(NextPower(p, s, m, k))
           /\ Same(PairVal(NextPower(p, s, m, k)), (PairVal(p) + Value(cc)) * KeyValue(m))
<1>1. PICK b \in Nat : b = Base /\ b >= 256 /\ b = W * W /\ W \in Nat /\ W >= 16
  <2>1. Base \in Nat /\ Base >= 256 /\ Base = W * W
    BY BaseSize DEF Base
  <2>2. W \in Nat /\ W >= 16
    BY WordSize
  <2> QED BY <2>1, <2>2
<1>2. PICK p1 \in Nat, p2 \in Nat : p = <<p1, p2>> /\ p1 < b /\ p2 < 4 * b /\ PairVal(p) = p1 + b * p2
  BY <1>1, CanonDigits DEF PairVal
<1>3. PICK c0 \in Word, c1 \in Word, c2 \in Word, c3 \in Word, c4 \in {0, 1} :
        cc[0] = c0 /\ cc[1] = c1 /\ cc[2] = c2 /\ cc[3] = c3 /\ cc[4] = c4
  <2>1. cc[0] \in Word /\ cc[1] \in Word /\ cc[2] \in Word /\ cc[3] \in Word /\ cc[4] \in {0, 1}
    BY <1>1 DEF Chunk, Word
  <2> QED BY <2>1, Zenon
<1>4. cc[0] \in Nat /\ cc[1] \in Nat /\ cc[2] \in Nat /\ cc[3] \in Nat /\ cc[4] \in Nat
  BY <1>1, <1>3 DEF Word
<1>5. PICK x \in Nat, y \in Nat :
        NumberOf(cc) = <<x, y>> /\ x < b /\ y < 2 * b /\ x + b * y = Value(cc)
  <2>1. NumberOf(cc) = <<c0 + W * c1, c2 + W * c3 + W * W * c4>>
    BY <1>3 DEF NumberOf
  <2>2. c0 + W * c1 \in Nat /\ c0 + W * c1 < b /\ c2 + W * c3 \in Nat /\ c2 + W * c3 < b
    BY <1>1, TwoWords
  <2>3. W * W * c4 = 0 \/ W * W * c4 = b
    BY <1>1
  <2>4. PICK x \in Nat, z \in Nat, u \in Nat :
           x = c0 + W * c1 /\ z = c2 + W * c3 /\ u = W * W * c4 /\ x < b /\ z < b /\ u <= b
    BY <2>2, <2>3
  <2>5. NumberOf(cc) = <<x, z + u>>
    BY <2>1, <2>4
  <2>6. x + b * (z + u) = Value(cc)
    BY <1>1, <1>4, <2>5, NumberValue DEF PairVal
  <2> QED BY <2>4, <2>5, <2>6
<1>6. PICK u \in Nat, v \in Nat : u = p1 + x /\ v = p2 + y
  OBVIOUS
<1>7. Plus(p, ChunkNumber(s, k)) = <<u, v>>
  BY <1>2, <1>5, <1>6 DEF Plus
<1>8. u < 2 * (W * Base) /\ v < 5 * (W * Base)
  <2>1. 16 * b <= W * b /\ W * b \in Nat
    BY <1>1, ProductBound
  <2> QED BY <1>1, <1>2, <1>5, <1>6, <2>1
<1>9. PICK a : a = Remainder(<<u, v>>)
  OBVIOUS
<1>10. Canon(a) /\ Same(PairVal(a), u + Base * v)
  BY <1>8, <1>9, RemainderRight
<1>11. u + Base * v = PairVal(p) + Value(cc)
  <2>1. u + b * v = (p1 + b * p2) + (x + b * y)
    BY <1>6
  <2> QED BY <1>1, <1>2, <1>5, <2>1
<1>12. NextPower(p, s, m, k) = Times(a, m)
  BY <1>7, <1>9 DEF NextPower
<1>13. Canon(Times(a, m)) /\ Same(PairVal(Times(a, m)), PairVal(a) * KeyValue(m))
  BY <1>10, TimesRight
<1>14. PICK t \in Int, n \in Int, g \in Int, e \in Int :
         t = PairVal(Times(a, m)) /\ n = KeyValue(m) /\ g = PairVal(a) /\ e = PairVal(p) + Value(cc)
  <2>1. PairVal(Times(a, m)) \in Int /\ PairVal(a) \in Int /\ PairVal(p) \in Int
    BY <1>10, <1>13, CanonDigits
  <2>2. KeyValue(m) \in Int /\ Value(cc) \in Int
    BY ValueIsInt
  <2>3. PairVal(p) + Value(cc) \in Int
    BY <2>1, <2>2
  <2> QED BY <2>1, <2>2, <2>3, Zenon
<1>15. Same(g * n, e * n)
  BY <1>10, <1>11, <1>14, SameProduct
<1>16. Same(t, e * n)
  <2>1. PICK gn \in Int, en \in Int : gn = g * n /\ en = e * n
    <3>1. g * n \in Int /\ e * n \in Int
      OBVIOUS
    <3> QED BY <3>1
  <2>2. Same(t, gn) /\ Same(gn, en)
    BY <1>13, <1>14, <1>15, <2>1
  <2>3. Same(t, en)
    BY <2>2, SameTrans
  <2> QED BY <2>1, <2>3
<1> QED BY <1>12, <1>13, <1>14, <1>16

LEMMA ChunkCount ==
    ASSUME NEW s, Len(s) \in Nat
    PROVE  /\ Chunks(s) \in Nat
           /\ \A k \in Nat : k * PolyBlock <= Len(s) => k <= Chunks(s)
           /\ \A k \in 1 .. Chunks(s) : /\ (k - 1) * PolyBlock \in Nat
                                        /\ SizeOf(s, k) \in 0 .. PolyBlock
                                        /\ (k - 1) * PolyBlock + SizeOf(s, k) <= Len(s)
<1>1. PICK n \in Nat : n = Len(s)
  OBVIOUS
<1>2. Chunks(s) = (n + 15) \div 16
  BY <1>1 DEF Chunks, PolyBlock
<1>3. ASSUME NEW k \in 1 .. Chunks(s)
      PROVE  /\ (k - 1) * 16 \in Nat
             /\ SizeOf(s, k) \in 0 .. 16
             /\ (k - 1) * 16 + SizeOf(s, k) <= n
  <2>1. k \in Nat /\ k >= 1 /\ k <= (n + 15) \div 16
    BY <1>2
  <2>2. (k - 1) * 16 <= n /\ (k - 1) * 16 \in Nat
    BY <2>1
  <2>3. SizeOf(s, k) = IF 16 < n - (k - 1) * 16 THEN 16 ELSE n - (k - 1) * 16
    BY <1>1 DEF SizeOf, Smaller, PolyBlock
  <2> QED BY <2>2, <2>3
<1> QED BY <1>1, <1>2, <1>3 DEF PolyBlock

LEMMA PolynomialCanon ==
    ASSUME NEW s \in Seq(Byte), NEW m, ClampedKey(m)
    PROVE  \A k \in 0 .. Chunks(s) : Canon(Polynomial(s, m)[k])
<1>1. PICK p : p = Polynomial(s, m)
  OBVIOUS
<1>2. PICK n \in Nat : n = Chunks(s)
  <2>1. Len(s) \in Nat
    OBVIOUS
  <2> QED BY <2>1, ChunkCount
<1>3. /\ p[0] = <<0, 0>>
      /\ \A k \in 1 .. n : p[k] = NextPower(p[k - 1], s, m, k)
  BY <1>1, <1>2, PolynomialSteps
<1> DEFINE T == {k \in Nat : k <= n => Canon(p[k])}
<1>4. 0 \in T
  <2>1. <<0, 0>> \in Nat \X Nat /\ 0 < Base /\ 0 < Modulus /\ 0 + Base * 0 = 0
    BY BaseSize, ModulusSize
  <2>2. Canon(<<0, 0>>)
    BY <2>1 DEF Canon, PairVal
  <2> QED BY <1>3, <2>2
<1>5. ASSUME NEW j \in Nat, j \in T PROVE j + 1 \in T
  <2> SUFFICES ASSUME j + 1 <= n PROVE Canon(p[j + 1])
    OBVIOUS
  <2>1. PICK k \in 1 .. n : k = j + 1 /\ k - 1 = j
    OBVIOUS
  <2>2. Canon(p[k - 1])
    BY <1>5, <2>1
  <2>3. PICK from \in Nat, size \in 0 .. PolyBlock :
          from = (k - 1) * PolyBlock /\ size = SizeOf(s, k) /\ from + size <= Len(s)
    <3>1. Len(s) \in Nat
      OBVIOUS
    <3> QED BY <1>2, <3>1, ChunkCount
  <2>4. PICK cc : cc = WordsOf(ChunkBytes(s, from, size, 1))
    OBVIOUS
  <2>5. Chunk(cc)
    BY <2>3, <2>4, BytesAreChunk
  <2>6. ChunkNumber(s, k) = NumberOf(cc)
    BY <2>3, <2>4, ChunkNumberIs
  <2>7. Canon(NextPower(p[k - 1], s, m, k))
    BY <2>2, <2>5, <2>6, NextPowerRight
  <2> QED BY <1>3, <2>1, <2>7
<1>6. Nat \subseteq T
  <2> HIDE DEF T
  <2> QED BY <1>4, <1>5, SetInduction
<1> QED BY <1>1, <1>2, <1>6

\* The polynomial of the first n bytes, on the blocks that are whole in them.
LEMMA PolynomialPrefix ==
    ASSUME NEW s \in Seq(Byte), NEW n \in 0 .. Len(s), NEW m
    PROVE  \A k \in Nat : k * PolyBlock <= n
             => Polynomial(SubSeq(s, 1, n), m)[k] = Polynomial(s, m)[k]
<1>0. Len(s) \in Nat /\ n \in Nat /\ n <= Len(s) /\ PolyBlock = 16
  BY DEF PolyBlock
<1>1. PICK t \in Seq(Byte) : t = SubSeq(s, 1, n) /\ Len(t) = n /\ \A i \in 1 .. n : t[i] = s[i]
  <2>1. SubSeq(s, 1, n) \in Seq(Byte) /\ Len(SubSeq(s, 1, n)) = n
        /\ \A i \in 1 .. n : SubSeq(s, 1, n)[i] = s[i]
    BY <1>0
  <2> QED BY <2>1
<1>2. PICK p, o : p = Polynomial(s, m) /\ o = Polynomial(t, m)
  OBVIOUS
<1>3. /\ Chunks(s) \in Nat /\ p[0] = <<0, 0>>
      /\ \A k \in 1 .. Chunks(s) : p[k] = NextPower(p[k - 1], s, m, k)
      /\ Chunks(t) \in Nat /\ o[0] = <<0, 0>>
      /\ \A k \in 1 .. Chunks(t) : o[k] = NextPower(o[k - 1], t, m, k)
  BY <1>0, <1>1, <1>2, PolynomialSteps, ChunkCount
<1> DEFINE T == {k \in Nat : k * PolyBlock <= n => o[k] = p[k]}
<1>4. 0 \in T
  BY <1>3
<1>5. ASSUME NEW j \in Nat, j \in T PROVE j + 1 \in T
  <2> SUFFICES ASSUME (j + 1) * PolyBlock <= n PROVE o[j + 1] = p[j + 1]
    OBVIOUS
  <2>1. PICK k \in Nat : k = j + 1 /\ k - 1 = j /\ k >= 1
    OBVIOUS
  <2>2. j * 16 + 16 <= n /\ k * 16 <= n
    BY <1>0, <2>1
  <2>3. o[j] = p[j]
    BY <1>0, <1>5, <2>2
  <2>4. k \in 1 .. Chunks(s) /\ k \in 1 .. Chunks(t)
    <3>1. k * PolyBlock <= Len(s) /\ k * PolyBlock <= Len(t)
      BY <1>0, <1>1, <2>2
    <3>2. Len(s) \in Nat /\ Len(t) \in Nat
      BY <1>0, <1>1
    <3>3. k <= Chunks(s)
      BY <3>1, <3>2, ChunkCount, Zenon
    <3>4. k <= Chunks(t)
      BY <3>1, <3>2, ChunkCount, Zenon
    <3> QED BY <1>3, <2>1, <3>3, <3>4
  <2>5. SizeOf(s, k) = 16 /\ SizeOf(t, k) = 16
    BY <1>0, <1>1, <2>1, <2>2 DEF SizeOf, Smaller
  <2>6. PICK from \in Nat : from = (k - 1) * PolyBlock /\ from + 16 <= n
    BY <1>0, <2>1, <2>2
  <2>7. ChunkBytes(s, from, 16, 1) = ChunkBytes(t, from, 16, 1)
    <3>1. ASSUME NEW i \in 0 .. 19
          PROVE  (IF i < 16 THEN s[from + i + 1] ELSE IF i = 16 THEN 1 ELSE 0)
                   = IF i < 16 THEN t[from + i + 1] ELSE IF i = 16 THEN 1 ELSE 0
      <4>1. CASE i < 16
        <5>1. from + i + 1 \in 1 .. n
          BY <1>0, <2>6, <4>1
        <5> QED BY <1>1, <5>1
      <4> QED BY <4>1
    <3> QED BY <3>1 DEF ChunkBytes
  <2>8. ChunkNumber(s, k) = ChunkNumber(t, k)
    BY <2>5, <2>6, <2>7, ChunkNumberIs
  <2>9. p[k] = NextPower(p[k - 1], s, m, k) /\ o[k] = NextPower(o[k - 1], t, m, k)
    BY <1>3, <2>4
  <2> QED BY <2>1, <2>3, <2>8, <2>9 DEF NextPower
<1>6. Nat \subseteq T
  <2> HIDE DEF T
  <2> QED BY <1>4, <1>5, SetInduction
<1> QED BY <1>1, <1>2, <1>6

----------------------------------------------------------------------------
(* The accumulator is the polynomial of the blocks taken so far.           *)

\* poly_block, on the next chunk of the message.
LEMMA BlockRight ==
    ASSUME ClampedKey(r), NEW hh, Accumulator(hh), NEW s \in Seq(Byte), NEW k \in 1 .. Chunks(s),
           NEW cc, cc = WordsOf(ChunkBytes(s, (k - 1) * PolyBlock, SizeOf(s, k), 1)),
           Same(Value(hh), PairVal(Polynomial(s, r)[k - 1]))
    PROVE  /\ Accumulator(BlockStep(hh, cc))
           /\ Same(Value(BlockStep(hh, cc)), PairVal(Polynomial(s, r)[k]))
<1>1. PICK n \in Nat : n = Chunks(s) /\ k \in 1 .. n
  <2>1. Len(s) \in Nat
    OBVIOUS
  <2> QED BY <2>1, ChunkCount
<1>2. PICK p, t : p = Polynomial(s, r)[k - 1] /\ t = Polynomial(s, r)[k]
  OBVIOUS
<1>3. t = NextPower(p, s, r, k)
  BY <1>1, <1>2, PolynomialSteps
<1>4. Canon(p)
  <2>1. k - 1 \in 0 .. Chunks(s)
    BY <1>1
  <2> QED BY <1>2, <2>1, PolynomialCanon
<1>5. Chunk(cc)
  <2>1. PICK from \in Nat, size \in 0 .. PolyBlock :
          from = (k - 1) * PolyBlock /\ size = SizeOf(s, k) /\ from + size <= Len(s)
    <3>1. Len(s) \in Nat
      OBVIOUS
    <3> QED BY <3>1, ChunkCount
  <2> QED BY <2>1, BytesAreChunk
<1>6. ChunkNumber(s, k) = NumberOf(cc)
  BY ChunkNumberIs
<1>7. Canon(t) /\ Same(PairVal(t), (PairVal(p) + Value(cc)) * KeyValue(r))
  BY <1>3, <1>4, <1>5, <1>6, NextPowerRight
<1>8. /\ Accumulator(BlockStep(hh, cc))
      /\ Same(Value(BlockStep(hh, cc)), (Value(hh) + Value(cc)) * KeyValue(r))
  BY <1>5, BlockValue
<1>9. PICK b \in Int, a \in Int, v \in Int, d \in Int, g \in Int, e \in Int :
         /\ b = Value(BlockStep(hh, cc)) /\ a = Value(hh) /\ v = Value(cc)
         /\ d = KeyValue(r) /\ g = PairVal(p) /\ e = PairVal(t)
  <2>1. PairVal(p) \in Int /\ PairVal(t) \in Int
    BY <1>4, <1>7, CanonDigits
  <2>2. Value(BlockStep(hh, cc)) \in Int /\ Value(hh) \in Int /\ Value(cc) \in Int
        /\ KeyValue(r) \in Int
    BY <1>5, <1>8, ValueIsInt
  <2> QED BY <2>1, <2>2, Zenon
<1>10. Same(b, (a + v) * d) /\ Same(e, (g + v) * d) /\ Same(a, g)
  BY <1>2, <1>7, <1>8, <1>9
<1>11. PICK av \in Int, gv \in Int, avd \in Int, gvd \in Int :
         av = a + v /\ gv = g + v /\ avd = av * d /\ gvd = gv * d
  <2>1. PICK av \in Int, gv \in Int : av = a + v /\ gv = g + v
    <3>1. a + v \in Int /\ g + v \in Int
      OBVIOUS
    <3> QED BY <3>1
  <2>2. av * d \in Int /\ gv * d \in Int
    OBVIOUS
  <2> QED BY <2>1, <2>2
<1>12. Same(av, gv)
  <2>1. Same(v, v)
    BY SameSelf
  <2> QED BY <1>10, <1>11, <2>1, SameSum
<1>13. Same(avd, gvd)
  BY <1>11, <1>12, SameProduct
<1>14. Same(b, avd) /\ Same(gvd, e)
  <2>1. Same(b, avd) /\ Same(e, gvd)
    BY <1>10, <1>11
  <2> QED BY <2>1, SameSym
<1>15. Same(b, gvd)
  BY <1>13, <1>14, SameTrans, Zenon
<1>16. Same(b, e)
  BY <1>14, <1>15, SameTrans, Zenon
<1> QED BY <1>2, <1>8, <1>9, <1>16

\* A chunk whose four words hold the bytes, and its top word the 1 behind them.
LEMMA HoldsAll ==
    ASSUME NEW cc \in [0 .. 4 -> Word], NEW s, NEW from, NEW n \in 0 .. PolyBlock,
           Holds(cc, s, from, n, 1), cc[4] = IF n = PolyBlock THEN 1 ELSE 0
    PROVE  cc = WordsOf(ChunkBytes(s, from, n, 1))
<1> DEFINE b == ChunkBytes(s, from, n, 1)
<1>1. WordOf(b, 4) = IF n = PolyBlock THEN 1 ELSE 0
  <2>1. 1 \in {0, 1}
    OBVIOUS
  <2> QED BY <2>1, TopWord
<1>2. \A i \in 0 .. 3 : cc[i] = WordOf(b, i)
  BY DEF Holds
<1>3. \A i \in 0 .. 4 : cc[i] = WordOf(b, i)
  <2>1. \A i \in 0 .. 4 : i \in 0 .. 3 \/ i = 4
    OBVIOUS
  <2> QED BY <1>1, <1>2, <2>1
<1> HIDE DEF b
<1>4. cc = WordsOf(b)
  BY <1>3 DEF WordsOf
<1> QED BY <1>4 DEF b

\* A whole block of the message, whatever byte would be behind it.
LEMMA WholeRight ==
    ASSUME ClampedKey(r), NEW hh, Accumulator(hh), NEW s \in Seq(Byte), NEW k \in Nat,
           k * PolyBlock + PolyBlock <= Len(s),
           NEW cc \in [0 .. 4 -> Word], cc[4] = 1, NEW last,
           Holds(cc, s, k * PolyBlock, PolyBlock, last),
           Same(Value(hh), PairVal(Polynomial(s, r)[k]))
    PROVE  /\ Accumulator(BlockStep(hh, cc))
           /\ Same(Value(BlockStep(hh, cc)), PairVal(Polynomial(s, r)[k + 1]))
<1>1. PICK j \in Nat : j = k + 1 /\ j >= 1 /\ j - 1 = k
  OBVIOUS
<1>2. Len(s) \in Nat /\ PolyBlock = 16
  BY DEF PolyBlock
<1>3. j * PolyBlock <= Len(s)
  BY <1>1, <1>2
<1>4. j <= Chunks(s) /\ Chunks(s) \in Nat
  BY <1>2, <1>3, ChunkCount, Zenon
<1>5. j \in 1 .. Chunks(s)
  BY <1>1, <1>4
<1>6. SizeOf(s, j) = PolyBlock
  BY <1>1, <1>2 DEF SizeOf, Smaller
<1>7. Holds(cc, s, k * PolyBlock, PolyBlock, 1)
  <2>1. ASSUME NEW i \in 0 .. 3
        PROVE  WordOf(ChunkBytes(s, k * PolyBlock, PolyBlock, 1), i)
                 = WordOf(ChunkBytes(s, k * PolyBlock, PolyBlock, last), i)
    <3>1. \A x \in 0 .. 15 : ChunkBytes(s, k * PolyBlock, PolyBlock, 1)[x]
                               = ChunkBytes(s, k * PolyBlock, PolyBlock, last)[x]
      <4>1. PICK from \in Nat : from = k * PolyBlock
        BY <1>2
      <4>2. ASSUME NEW x \in 0 .. 15
            PROVE  ChunkBytes(s, from, PolyBlock, 1)[x] = ChunkBytes(s, from, PolyBlock, last)[x]
        <5>1. x \in 0 .. 19 /\ x < PolyBlock
          BY <1>2
        <5>2. ChunkBytes(s, from, PolyBlock, 1)[x] = s[from + x + 1]
          BY <5>1 DEF ChunkBytes
        <5>3. ChunkBytes(s, from, PolyBlock, last)[x] = s[from + x + 1]
          BY <5>1 DEF ChunkBytes
        <5> QED BY <5>2, <5>3
      <4> QED BY <4>1, <4>2
    <3>2. 4 * i \in 0 .. 15 /\ 4 * i + 1 \in 0 .. 15 /\ 4 * i + 2 \in 0 .. 15 /\ 4 * i + 3 \in 0 .. 15
      OBVIOUS
    <3> QED BY <3>1, <3>2 DEF WordOf
  <2> QED BY <2>1 DEF Holds
<1>8. cc = WordsOf(ChunkBytes(s, k * PolyBlock, PolyBlock, 1))
  <2>1. PolyBlock \in 0 .. PolyBlock /\ cc[4] = IF PolyBlock = PolyBlock THEN 1 ELSE 0
    BY <1>2
  <2> QED BY <1>7, <2>1, HoldsAll
<1>9. cc = WordsOf(ChunkBytes(s, (j - 1) * PolyBlock, SizeOf(s, j), 1))
  BY <1>1, <1>6, <1>8
<1>10. Same(Value(hh), PairVal(Polynomial(s, r)[j - 1]))
  BY <1>1
<1> QED BY <1>1, <1>5, <1>9, <1>10, BlockRight

----------------------------------------------------------------------------
\* After k blocks, with c_idx bytes of the next.
Taken(k) ==
    /\ taken = k * PolyBlock + c_idx
    /\ Same(Value(h), PairVal(Polynomial(text, r)[k]))
    /\ Holds(c, text, k * PolyBlock, c_idx, 0) \/ (taken = byteEnd /\ callEnd - taken >= PolyBlock)

TagInv ==
    /\ ~ started => callEnd = 0
    /\ started => /\ c[4] = 1
                  /\ \E k \in Nat : Taken(k)
                  /\ byteEnd < callEnd => c_idx + (byteEnd - taken) \in {0, PolyBlock}
    /\ TagIsReference

LEMMA TagStays ==
    ASSUME TagIsReference, UNCHANGED tag PROVE TagIsReference'
BY DEF TagIsReference

LEMMA TagInitOK == PolyInit => TagInv
BY DEF PolyInit, TagInv, TagIsReference

LEMMA StartTags ==
    ASSUME PolyInv', NEW k \in MacKeys, NEW t \in Texts, PolyStart(k, t)
    PROVE  TagInv'
<1>1. /\ started' = TRUE /\ text' = t /\ h' = NoWords
      /\ c' = [NoWords EXCEPT ![4] = 1] /\ c_idx' = 0
      /\ taken' = 0 /\ byteEnd' = 0 /\ callEnd' = 0 /\ tag' = NoTag
  BY DEF PolyStart
<1>2. c'[4] = 1 /\ \A i \in 0 .. 3 : c'[i] = 0
  BY <1>1 DEF NoWords
<1>3. Holds(c', text', 0 * PolyBlock, c_idx', 0)
  BY <1>1, <1>2, EmptyHolds
<1>4. Value(h') = 0
  BY <1>1, ModulusSize DEF Value, Horner, NoWords
<1>5. PairVal(Polynomial(text', r')[0]) = 0
  <2>1. Polynomial(text', r')[0] = <<0, 0>>
    <3>1. Len(text') \in Nat
      BY DEF PolyInv
    <3>2. Chunks(text') \in Nat
      BY <3>1, ChunkCount
    <3> QED BY <3>2, PolynomialSteps
  <2> QED BY <2>1, BaseSize DEF PairVal
<1>6. Same(Value(h'), PairVal(Polynomial(text', r')[0]))
  <2>1. 0 \in Int
    OBVIOUS
  <2>2. Same(0, 0)
    BY <2>1, SameSelf, Zenon
  <2> QED BY <1>4, <1>5, <2>2
<1>7. Taken(0)'
  BY <1>1, <1>3, <1>6 DEF Taken, PolyBlock
<1>8. TagIsReference'
  BY <1>1 DEF TagIsReference
<1> QED BY <1>1, <1>2, <1>7, <1>8 DEF TagInv

LEMMA UpdateTags ==
    ASSUME PolyInv, TagInv, NEW n \in 1 .. Len(text), PolyUpdate(n)
    PROVE  TagInv'
<1> DEFINE align == (-c_idx) % PolyBlock
<1>1. c_idx \in 0 .. 15 /\ PolyBlock = 16
  BY DEF PolyInv, PolyBlock
<1>2. align \in Nat /\ c_idx + align \in {0, PolyBlock}
  BY <1>1
<1> HIDE DEF align
<1>3. byteEnd' = taken + Smaller(align, n) /\ callEnd' = taken + n /\ taken = callEnd /\ started
      /\ UNCHANGED <<started, text, r, h, c, c_idx, taken, tag>>
  BY DEF PolyUpdate, between, align
<1>4. taken \in Nat /\ n \in Nat
  BY DEF PolyInv
<1>5. byteEnd' < callEnd' => c_idx' + (byteEnd' - taken') \in {0, PolyBlock}
  BY <1>1, <1>2, <1>3, <1>4 DEF Smaller
<1>6. PICK k \in Nat : Taken(k)
  BY <1>3 DEF TagInv
<1>7. Taken(k)'
  <2>1. Holds(c, text, k * PolyBlock, c_idx, 0)
    BY <1>1, <1>3, <1>4, <1>6 DEF Taken
  <2> QED BY <1>3, <1>6, <2>1 DEF Taken
<1>8. TagIsReference'
  BY <1>3, TagStays DEF TagInv
<1> QED BY <1>3, <1>5, <1>7, <1>8 DEF TagInv

LEMMA RestTags == ASSUME PolyInv, TagInv, PolyRest PROVE TagInv'
<1>1. taken = byteEnd /\ callEnd - taken < PolyBlock /\ byteEnd' = callEnd
      /\ UNCHANGED <<started, text, r, h, c, c_idx, taken, callEnd, tag>>
  BY DEF PolyRest
<1>2. callEnd \in Nat /\ taken \in Nat /\ PolyBlock = 16
  BY DEF PolyInv, PolyBlock
<1>3. ASSUME NEW k \in Nat, Taken(k) PROVE Taken(k)'
  <2>1. Holds(c, text, k * PolyBlock, c_idx, 0)
    BY <1>1, <1>2, <1>3 DEF Taken
  <2> QED BY <1>1, <1>3, <2>1 DEF Taken
<1>4. TagIsReference'
  BY <1>1, TagStays DEF TagInv
<1>5. ~ (byteEnd' < callEnd')
  BY <1>1, <1>2
<1> QED BY <1>1, <1>3, <1>4, <1>5 DEF TagInv

\* poly_update, one byte: it joins those of its chunk, or completes the block.
LEMMA ByteTags == ASSUME PolyInv, TagInv, PolyByte PROVE TagInv'
<1>1. /\ taken < byteEnd /\ taken' = taken + 1
      /\ UNCHANGED <<started, text, r, byteEnd, callEnd, tag>>
  BY DEF PolyByte
<1>2. /\ PolyBlock = 16 /\ c_idx \in 0 .. 15 /\ taken \in Nat /\ byteEnd \in Nat /\ callEnd \in Nat
      /\ byteEnd <= callEnd /\ callEnd <= Len(text) /\ text \in Seq(Byte)
      /\ ClampedKey(r) /\ Accumulator(h) /\ Filled(c, c_idx) /\ Len(text) \in Nat
  <2>1. PolyBlock = 16
    BY DEF PolyBlock
  <2> QED BY <1>1, <2>1 DEF PolyInv
<1>3. started /\ c[4] = 1
  BY <1>1, <1>2 DEF TagInv
<1>4. PICK k \in Nat : Taken(k)
  BY <1>3 DEF TagInv
<1>5. PICK from \in Nat : from = k * PolyBlock
  BY <1>2
<1>6. taken = from + c_idx /\ Same(Value(h), PairVal(Polynomial(text, r)[k]))
      /\ Holds(c, text, from, c_idx, 0)
  BY <1>1, <1>2, <1>4, <1>5 DEF Taken
<1>7. PICK cc : cc = TakeInput(c, c_idx, text[taken + 1])
  OBVIOUS
<1>8. cc \in [0 .. 4 -> Word]
  <2>1. text[taken + 1] \in Byte
    <3>1. taken + 1 \in 1 .. Len(text)
      BY <1>1, <1>2
    <3> QED BY <1>2, <3>1
  <2>2. c_idx \in 0 .. PolyBlock - 1
    BY <1>2
  <2> QED BY <1>2, <1>7, <2>1, <2>2, TakenByte DEF Filled, Chunk
<1>9. cc[4] = 1
  <2>1. c_idx \div 4 # 4
    BY <1>2
  <2>2. PICK w, y : w \in Int /\ w = c_idx \div 4 /\ y = text[taken + 1] * Place[(c_idx % 4) + 1]
    BY <1>2
  <2>3. cc = [c EXCEPT ![w] = c[w] + y]
    BY <1>7, <2>2 DEF TakeInput
  <2>4. c \in [0 .. 4 -> Word] /\ 4 \in 0 .. 4
    BY <1>2 DEF Filled, Chunk
  <2> QED BY <1>3, <2>1, <2>2, <2>3, <2>4
<1>10. Holds(cc, text, from, c_idx + 1, 0)
  <2>1. c_idx \in 0 .. PolyBlock - 1 /\ from + c_idx <= Len(text) /\ from + c_idx < Len(text)
    BY <1>1, <1>2, <1>6
  <2>2. c \in [0 .. 4 -> Word]
    BY <1>2 DEF Filled, Chunk
  <2> QED BY <1>2, <1>6, <1>7, <2>1, <2>2, TakenHolds
<1>11. TagIsReference'
  BY <1>1, TagStays DEF TagInv
<1>12. byteEnd < callEnd => c_idx + (byteEnd - taken) \in {0, 16}
  BY <1>2, <1>3 DEF TagInv
<1>13. CASE c_idx + 1 = PolyBlock
  <2>1. h' = BlockStep(h, cc) /\ c' = Cleared(cc) /\ c_idx' = 0
    BY <1>7, <1>13 DEF PolyByte
  <2>2. c'[4] = 1 /\ \A i \in 0 .. 3 : c'[i] = 0
    BY <1>9, <2>1 DEF Cleared, NoWords
  <2>3. Same(Value(h'), PairVal(Polynomial(text, r)[k + 1]))
    <3>1. k * PolyBlock + PolyBlock <= Len(text)
      BY <1>1, <1>2, <1>5, <1>6, <1>13
    <3>2. Holds(cc, text, k * PolyBlock, PolyBlock, 0)
      BY <1>5, <1>10, <1>13
    <3> QED BY <1>2, <1>6, <1>8, <1>9, <2>1, <3>1, <3>2, WholeRight
  <2>4. Taken(k + 1)'
    <3>1. Holds(c', text', (k + 1) * PolyBlock, c_idx', 0)
      BY <2>1, <2>2, EmptyHolds
    <3>2. taken' = (k + 1) * PolyBlock + c_idx'
      BY <1>1, <1>2, <1>5, <1>6, <1>13, <2>1
    <3> QED BY <1>1, <2>3, <3>1, <3>2 DEF Taken
  <2>5. byteEnd' < callEnd' => c_idx' + (byteEnd' - taken') \in {0, PolyBlock}
    BY <1>1, <1>2, <1>12, <1>13, <2>1
  <2>6. k + 1 \in Nat
    OBVIOUS
  <2> QED BY <1>1, <1>3, <1>11, <2>2, <2>4, <2>5, <2>6 DEF TagInv
<1>14. CASE c_idx + 1 # PolyBlock
  <2>1. h' = h /\ c' = cc /\ c_idx' = c_idx + 1
    BY <1>7, <1>14 DEF PolyByte
  <2>2. Taken(k)'
    <3>1. taken' = k * PolyBlock + c_idx'
      BY <1>1, <1>2, <1>5, <1>6, <2>1
    <3>2. Holds(c', text', k * PolyBlock, c_idx', 0)
      BY <1>1, <1>5, <1>10, <2>1
    <3>3. Same(Value(h'), PairVal(Polynomial(text', r')[k]))
      BY <1>1, <1>6, <2>1
    <3> QED BY <3>1, <3>2, <3>3 DEF Taken
  <2>3. byteEnd' < callEnd' => c_idx' + (byteEnd' - taken') \in {0, PolyBlock}
    BY <1>1, <1>2, <1>12, <2>1
  <2> QED BY <1>1, <1>3, <1>9, <1>11, <2>1, <2>2, <2>3 DEF TagInv
<1> QED BY <1>13, <1>14

\* The loop over whole blocks, one block.
LEMMA WholeTags == ASSUME PolyInv, TagInv, PolyWhole PROVE TagInv'
<1>1. /\ taken = byteEnd /\ callEnd - taken >= PolyBlock
      /\ taken' = taken + PolyBlock /\ byteEnd' = taken'
      /\ UNCHANGED <<started, text, r, callEnd, tag>>
  BY DEF PolyWhole
<1>2. /\ PolyBlock = 16 /\ c_idx \in 0 .. 15 /\ taken \in Nat /\ callEnd \in Nat
      /\ callEnd <= Len(text) /\ text \in Seq(Byte)
      /\ ClampedKey(r) /\ Accumulator(h) /\ Chunk(c) /\ Len(text) \in Nat
  <2>1. PolyBlock = 16
    BY DEF PolyBlock
  <2> QED BY <2>1 DEF PolyInv
<1>3. started /\ c[4] = 1
  BY <1>1, <1>2 DEF TagInv
<1>4. c_idx = 0
  <2>1. byteEnd < callEnd => c_idx + (byteEnd - taken) \in {0, 16}
    BY <1>2, <1>3 DEF TagInv
  <2> QED BY <1>1, <1>2, <2>1
<1>5. PICK k \in Nat : Taken(k)
  BY <1>3 DEF TagInv
<1>6. taken = k * PolyBlock /\ Same(Value(h), PairVal(Polynomial(text, r)[k]))
  BY <1>2, <1>4, <1>5 DEF Taken
<1>7. PICK cc : cc = LoadedChunk(c, text, taken)
  OBVIOUS
<1>8. cc \in [0 .. 4 -> Word] /\ cc[4] = 1
  <2>1. taken + PolyBlock <= Len(text)
    BY <1>1, <1>2
  <2>2. Chunk(cc)
    BY <1>2, <1>7, <2>1, LoadedIsChunk
  <2>3. cc[4] = c[4]
    BY <1>7 DEF LoadedChunk
  <2> QED BY <1>3, <2>2, <2>3 DEF Chunk
<1>9. Holds(cc, text, k * PolyBlock, PolyBlock, 0)
  BY <1>2, <1>6, <1>7, LoadedHolds
<1>10. h' = BlockStep(h, cc)
  BY <1>7 DEF PolyWhole
<1>11. Same(Value(h'), PairVal(Polynomial(text, r)[k + 1]))
  <2>1. k * PolyBlock + PolyBlock <= Len(text)
    BY <1>1, <1>2, <1>6
  <2> QED BY <1>2, <1>6, <1>8, <1>9, <1>10, <2>1, WholeRight
<1>12. taken' = (k + 1) * PolyBlock + 0
  BY <1>1, <1>2, <1>6
<1>13. TagIsReference'
  BY <1>1, TagStays DEF TagInv
<1>14. c'[4] = 1 /\ c_idx' = 0
       /\ (Holds(c', text', (k + 1) * PolyBlock, c_idx', 0)
             \/ (taken' = byteEnd' /\ callEnd' - taken' >= PolyBlock))
  <2>1. CASE callEnd - taken < 2 * PolyBlock
    <3>1. c' = Cleared(cc) /\ c_idx' = 0
      BY <1>7, <2>1 DEF PolyWhole
    <3>2. c'[4] = 1 /\ \A i \in 0 .. 3 : c'[i] = 0
      BY <1>8, <3>1 DEF Cleared, NoWords
    <3>3. Holds(c', text', (k + 1) * PolyBlock, c_idx', 0)
      BY <3>1, <3>2, EmptyHolds
    <3> QED BY <3>1, <3>2, <3>3
  <2>2. CASE ~(callEnd - taken < 2 * PolyBlock)
    <3>1. c' = cc /\ c_idx' = c_idx
      BY <1>7, <2>2 DEF PolyWhole
    <3> QED BY <1>1, <1>2, <1>4, <1>8, <2>2, <3>1
  <2> QED BY <2>1, <2>2
<1>15. Taken(k + 1)'
  BY <1>1, <1>11, <1>12, <1>14 DEF Taken
<1>16. c_idx' + (byteEnd' - taken') \in {0, PolyBlock}
  BY <1>1, <1>2, <1>14
<1>17. k + 1 \in Nat
  OBVIOUS
<1> QED BY <1>1, <1>3, <1>13, <1>14, <1>15, <1>16, <1>17 DEF TagInv

\* crypto_poly1305_final: what is left of the message is its last chunk.
LEMMA LastChunk ==
    ASSUME PolyInv, started, taken = callEnd, NEW k \in Nat, Taken(k), c_idx # 0,
           NEW s, s = SubSeq(text, 1, taken), NEW last, last = TakeInput([c EXCEPT ![4] = 0], c_idx, 1)
    PROVE  /\ Chunks(s) = k + 1
           /\ Accumulator(BlockStep(h, last))
           /\ Same(Value(BlockStep(h, last)), PairVal(Polynomial(s, r)[k + 1]))
<1>2. /\ PolyBlock = 16 /\ c_idx \in 1 .. 15 /\ taken \in Nat /\ callEnd \in Nat
      /\ callEnd <= Len(text) /\ text \in Seq(Byte)
      /\ ClampedKey(r) /\ Accumulator(h) /\ Filled(c, c_idx) /\ Len(text) \in Nat
  <2>1. PolyBlock = 16
    BY DEF PolyBlock
  <2> QED BY <2>1 DEF PolyInv
<1>3. PICK from \in Nat : from = k * PolyBlock
  BY <1>2
<1>4. taken = from + c_idx /\ Same(Value(h), PairVal(Polynomial(text, r)[k]))
      /\ Holds(c, text, from, c_idx, 0)
  BY <1>2, <1>3 DEF Taken
<1>5. s \in Seq(Byte) /\ Len(s) = taken /\ \A i \in 1 .. taken : s[i] = text[i]
  BY <1>2
<1>6. Chunks(s) = k + 1
  BY <1>2, <1>3, <1>4, <1>5 DEF Chunks
<1>7. SizeOf(s, k + 1) = c_idx
  <2>1. (k + 1) - 1 = k
    OBVIOUS
  <2> QED BY <1>2, <1>3, <1>4, <1>5, <2>1 DEF SizeOf, Smaller
<1>8. PICK cz \in [0 .. 4 -> Word] : cz = [c EXCEPT ![4] = 0] /\ cz[4] = 0
                                      /\ \A i \in 0 .. 3 : cz[i] = c[i]
  <2>1. c \in [0 .. 4 -> Word] /\ 0 \in Word
    BY <1>2, WordSize DEF Filled, Chunk, Word
  <2>2. [c EXCEPT ![4] = 0] \in [0 .. 4 -> Word] /\ [c EXCEPT ![4] = 0][4] = 0
        /\ \A i \in 0 .. 3 : [c EXCEPT ![4] = 0][i] = c[i]
    BY <2>1
  <2> QED BY <2>2
<1>9. Filled(cz, c_idx)
  BY <1>2, <1>8 DEF Filled, Chunk
<1>10. last \in [0 .. 4 -> Word]
  <2>1. c_idx \in 0 .. PolyBlock - 1 /\ 1 \in Byte
    BY <1>2, ByteRange
  <2> QED BY <1>8, <1>9, <2>1, TakenByte DEF Filled, Chunk
<1>11. last[4] = 0
  <2>1. PICK w, y : w \in Int /\ w = c_idx \div 4 /\ y = 1 * Place[(c_idx % 4) + 1]
    BY <1>2
  <2>2. w # 4
    BY <1>2, <2>1
  <2>3. last = [cz EXCEPT ![w] = cz[w] + y]
    BY <1>8, <2>1 DEF TakeInput
  <2>4. 4 \in 0 .. 4
    OBVIOUS
  <2> QED BY <1>8, <2>2, <2>3, <2>4
<1>12. Holds(last, text, from, c_idx, 1)
  <2>1. c_idx \in 0 .. PolyBlock - 1 /\ from + c_idx <= Len(text)
    BY <1>2, <1>4
  <2>2. Holds(cz, text, from, c_idx, 0)
    BY <1>4, <1>8 DEF Holds
  <2> QED BY <1>2, <1>8, <2>1, <2>2, TakenHolds
<1>13. ChunkBytes(text, from, c_idx, 1) = ChunkBytes(s, from, c_idx, 1)
  <2>1. ASSUME NEW j \in 0 .. 19
        PROVE  (IF j < c_idx THEN text[from + j + 1] ELSE IF j = c_idx THEN 1 ELSE 0)
                 = IF j < c_idx THEN s[from + j + 1] ELSE IF j = c_idx THEN 1 ELSE 0
    <3>1. CASE j < c_idx
      <4>1. from + j + 1 \in 1 .. taken
        BY <1>2, <1>4, <3>1
      <4> QED BY <1>5, <4>1
    <3> QED BY <3>1
  <2> QED BY <2>1 DEF ChunkBytes
<1>14. last = WordsOf(ChunkBytes(s, from, c_idx, 1))
  <2>1. c_idx \in 0 .. PolyBlock /\ last[4] = IF c_idx = PolyBlock THEN 1 ELSE 0
    BY <1>2, <1>11
  <2>2. Holds(last, s, from, c_idx, 1)
    BY <1>12, <1>13 DEF Holds
  <2> QED BY <1>10, <2>1, <2>2, HoldsAll
<1>15. PICK j \in Nat : j = k + 1 /\ j - 1 = k /\ j \in 1 .. Chunks(s)
  BY <1>6
<1>16. last = WordsOf(ChunkBytes(s, (j - 1) * PolyBlock, SizeOf(s, j), 1))
  BY <1>3, <1>7, <1>14, <1>15
<1>17. Same(Value(h), PairVal(Polynomial(s, r)[j - 1]))
  <2>1. taken \in 0 .. Len(text) /\ k * PolyBlock <= taken
    BY <1>2, <1>3, <1>4
  <2>2. Polynomial(s, r)[k] = Polynomial(text, r)[k]
    BY <1>2, <2>1, PolynomialPrefix
  <2> QED BY <1>4, <1>15, <2>2
<1> QED BY <1>2, <1>5, <1>6, <1>15, <1>16, <1>17, BlockRight

\* crypto_poly1305_final after a whole number of blocks.
LEMMA NoLastChunk ==
    ASSUME PolyInv, taken = callEnd, NEW k \in Nat, Taken(k), c_idx = 0,
           NEW s, s = SubSeq(text, 1, taken)
    PROVE  Chunks(s) = k /\ Same(Value(h), PairVal(Polynomial(s, r)[k]))
<1>1. /\ PolyBlock = 16 /\ taken \in Nat /\ taken <= Len(text) /\ text \in Seq(Byte)
      /\ Len(text) \in Nat
  <2>1. PolyBlock = 16
    BY DEF PolyBlock
  <2> QED BY <2>1 DEF PolyInv
<1>2. taken = k * 16 /\ Same(Value(h), PairVal(Polynomial(text, r)[k]))
  BY <1>1 DEF Taken
<1>3. Len(s) = taken
  BY <1>1
<1>4. Chunks(s) = k
  BY <1>1, <1>2, <1>3 DEF Chunks
<1>5. Polynomial(s, r)[k] = Polynomial(text, r)[k]
  <2>1. taken \in 0 .. Len(text) /\ k * PolyBlock <= taken
    BY <1>1, <1>2
  <2> QED BY <1>1, <2>1, PolynomialPrefix
<1> QED BY <1>2, <1>4, <1>5

\* Either way, the tag is the one of the reference.
LEMMA FinalTags == ASSUME PolyInv, TagInv, PolyFinal PROVE TagInv'
<1>1. /\ started /\ taken = callEnd
      /\ started' = FALSE /\ callEnd' = 0
  BY DEF PolyFinal, between
<1>2. PICK k \in Nat : Taken(k)
  BY <1>1 DEF TagInv
<1>3. PICK s, last, hh : /\ s = SubSeq(text, 1, taken)
                         /\ last = TakeInput([c EXCEPT ![4] = 0], c_idx, 1)
                         /\ hh = IF c_idx = 0 THEN h ELSE BlockStep(h, last)
  OBVIOUS
<1>4. tag' = [of |-> s, r |-> r, pad |-> pad, value |-> FinalTag(hh)]
  BY <1>3 DEF PolyFinal
<1>5. Accumulator(h) /\ ClampedKey(r) /\ pad \in [0 .. 3 -> Word]
  BY DEF PolyInv
<1>6. /\ Chunks(s) \in Nat /\ Accumulator(hh)
      /\ Same(Value(hh), PairVal(Polynomial(s, r)[Chunks(s)]))
  <2>1. CASE c_idx = 0
    <3>1. Chunks(s) = k /\ Same(Value(h), PairVal(Polynomial(s, r)[k]))
      BY <1>1, <1>2, <1>3, <2>1, NoLastChunk
    <3> QED BY <1>3, <1>5, <2>1, <3>1
  <2>2. CASE c_idx # 0
    <3>1. /\ Chunks(s) = k + 1 /\ Accumulator(BlockStep(h, last))
          /\ Same(Value(BlockStep(h, last)), PairVal(Polynomial(s, r)[k + 1]))
      BY <1>1, <1>2, <1>3, <2>2, LastChunk
    <3> QED BY <1>3, <2>2, <3>1
  <2> QED BY <2>1, <2>2
<1>7. PICK P : P = Polynomial(s, r)[Chunks(s)]
  OBVIOUS
<1>8. Canon(P)
  <2>1. s \in Seq(Byte)
    BY <1>3 DEF PolyInv
  <2>2. Chunks(s) \in 0 .. Chunks(s)
    BY <1>6
  <2> QED BY <1>5, <1>7, <2>1, <2>2, PolynomialCanon
<1>9. NumberOf(Extended(FinalTag(hh))) = Poly1305(s, r, pad)
  <2>1. LET whole == Carried(Plus(P, NumberOf(Extended(pad))))
        IN  NumberOf(Extended(FinalTag(hh))) = <<whole[1], whole[2] % Base>>
    BY <1>5, <1>6, <1>7, <1>8, FinalRight
  <2> QED BY <1>7, <2>1 DEF Poly1305, Extended
<1>10. TagIsReference'
  <2>1. tag'.value = FinalTag(hh) /\ tag'.of = s /\ tag'.r = r /\ tag'.pad = pad
    BY <1>4
  <2>2. NumberOf(Extended(tag'.value)) = Poly1305(tag'.of, tag'.r, tag'.pad)
    BY <1>9, <2>1
  <2> QED BY <2>2 DEF TagIsReference, Extended
<1> QED BY <1>1, <1>10 DEF TagInv

LEMMA TagKeeps == PolyInv /\ PolyInv' /\ TagInv /\ [PolyNext]_polyVars => TagInv'
<1> SUFFICES ASSUME PolyInv, PolyInv', TagInv, [PolyNext]_polyVars PROVE TagInv'
  OBVIOUS
<1>1. CASE \E k \in MacKeys, t \in Texts : PolyStart(k, t)
  BY <1>1, StartTags
<1>2. CASE \E n \in 1 .. Len(text) : PolyUpdate(n)
  BY <1>2, UpdateTags
<1>3. CASE PolyByte
  BY <1>3, ByteTags
<1>4. CASE PolyWhole
  BY <1>4, WholeTags
<1>5. CASE PolyRest
  BY <1>5, RestTags
<1>6. CASE PolyFinal
  BY <1>6, FinalTags
<1>7. CASE UNCHANGED polyVars
  <2>1. UNCHANGED <<started, text, r, h, c, c_idx, taken, byteEnd, callEnd, tag>>
    BY <1>7 DEF polyVars
  <2>2. ASSUME NEW k \in Nat, Taken(k) PROVE Taken(k)'
    BY <2>1, <2>2 DEF Taken
  <2>3. TagIsReference'
    BY <2>1, TagStays DEF TagInv
  <2> QED BY <2>1, <2>2, <2>3 DEF TagInv
<1> QED BY <1>1, <1>2, <1>3, <1>4, <1>5, <1>6, <1>7 DEF PolyNext

\* The tag of a message is the remainder of the polynomial of its blocks in r
\* by 4 * W^4 - 5, plus the pad, cut to four words: for every key, every message
\* of any length, and whatever the sizes of the calls it comes in.
THEOREM TagCorrect == PolySpec => []TagIsReference
<1>1. TagInv => TagIsReference
  BY DEF TagInv
<1>2. PolyInit => PolyInv /\ TagInv
  BY PolyInitOK, TagInitOK
<1>3. (PolyInv /\ TagInv) /\ [PolyNext]_polyVars => (PolyInv /\ TagInv)'
  BY PolyKeeps, TagKeeps
<1> QED BY <1>1, <1>2, <1>3, PTL DEF PolySpec
=============================================================================
