-------------------------- MODULE MonoArgon2Proofs --------------------------
(* Proofs about MonoArgon2, for work areas, pools and words of any size:   *)
(* the reference block is always one the algorithm allows, and no word of  *)
(* the pseudo-random stream serves twice.                                  *)
EXTENDS MonoArgon2, TLAPS

\* Where the loops are: inside the segment, or past the last pass.
Place ==
    /\ pass = Iterations => segment = 0
    /\ segment * SegmentSize <= current /\ current <= SegmentEnd
    /\ pass = 0 /\ segment = 0 => current >= 2

\* The word that was read last is the one before the position of the stream.
LastWord ==
    gidx_offset > FirstOffset =>
        last.word = <<gidx_ctr, (gidx_offset - 1) % PoolWords>>

ArgonInv ==
    /\ ArgonTypeOK
    /\ Place
    /\ FilledInOrder
    /\ PoolMatchesOffset
    /\ LastWord

----------------------------------------------------------------------------
(* Arithmetic                                                              *)

\* The work area is four segments of at least two blocks.
LEMMA FourSegments ==
    ASSUME ArgonTypeOK
    PROVE  SegmentSize \in Nat /\ nb = 4 * SegmentSize /\ SegmentSize >= 2
BY DEF ArgonTypeOK, SegmentSize

\* A product of a number by a word, divided by the size of words, is smaller
\* than the number: the scaling of gidx_next stays in the area.
LEMMA Scaled ==
    ASSUME NEW a \in Nat, NEW x \in Nat, NEW w \in Nat, a > 0, x < w
    PROVE  (a * x) \div w \in Nat /\ (a * x) \div w < a
<1> DEFINE d == (a * x) \div w
<1>1. a * x \in Nat
  OBVIOUS
<1>2. d \in Nat /\ d * w <= a * x
  BY <1>1
<1>3. a * x <= a * (w - 1)
  OBVIOUS
<1>4. a * (w - 1) = a * w - a /\ a * w \in Nat
  OBVIOUS
<1>5. d * w < a * w
  BY <1>1, <1>2, <1>3, <1>4
<1>6. d < a
  <2>1. SUFFICES ASSUME d >= a PROVE FALSE
    BY <1>2
  <2>2. d * w >= a * w
    BY <1>2, <2>1
  <2> QED
    BY <1>2, <1>4, <1>5, <2>2
<1> QED
  BY <1>2, <1>6

\* The high half of the square of a word is a word.
LEMMA SquareScaled ==
    ASSUME NEW w \in Nat, NEW j \in 0 .. w - 1
    PROVE  (j * j) \div w \in Nat /\ (j * j) \div w < w
<1>1. CASE j = 0
  BY <1>1
<1>2. CASE j > 0
  <2>1. (j * j) \div w \in Nat /\ (j * j) \div w < j
    BY <1>2, Scaled
  <2> QED
    BY <2>1
<1> QED
  BY <1>1, <1>2

\* A number between two multiples, itself a multiple, is the upper one.
LEMMA UpperMultiple ==
    ASSUME NEW p \in Nat, p > 0, NEW c \in Nat, NEW n \in Nat,
           (c - 1) * p < n, n <= c * p, n % p = 0
    PROVE  n = c * p
<1> DEFINE k == n \div p
<1>1. n = k * p /\ k \in Nat
  OBVIOUS
<1>2. k <= c
  <2>1. SUFFICES ASSUME k >= c + 1 PROVE FALSE
    BY <1>1
  <2>2. k * p >= (c + 1) * p
    BY <1>1, <2>1
  <2>3. (c + 1) * p = c * p + p /\ c * p \in Nat
    OBVIOUS
  <2> QED
    BY <1>1, <2>2, <2>3
<1>3. k >= c
  <2>1. SUFFICES ASSUME k <= c - 1 PROVE FALSE
    BY <1>1
  <2>2. k * p <= (c - 1) * p
    BY <1>1, <2>1
  <2> QED
    BY <1>1, <2>2
<1> QED
  BY <1>1, <1>2, <1>3

\* A multiple has no remainder.
LEMMA MultipleMod ==
    ASSUME NEW p \in Nat, p > 0, NEW c \in Nat
    PROVE  (c * p) % p = 0
OBVIOUS

\* Two divisions with remainder of one number agree.
LEMMA DivisionUnique ==
    ASSUME NEW p \in Nat, p > 0, NEW a \in Int, NEW b \in Int,
           NEW r \in 0 .. p - 1, NEW s \in 0 .. p - 1, a * p + r = b * p + s
    PROVE  r = s
<1>1. (a - b) * p = s - r
  OBVIOUS
<1>2. CASE a - b >= 1
  <2>1. (a - b) * p >= p
    BY <1>2
  <2> QED
    BY <1>1, <2>1
<1>3. CASE a - b <= -1
  <2>1. (b - a) * p >= p
    BY <1>3
  <2>2. (b - a) * p = r - s
    OBVIOUS
  <2> QED
    BY <2>1, <2>2
<1>4. CASE a = b
  BY <1>4
<1> QED
  BY <1>2, <1>3, <1>4

\* A number is cut into quotient and remainder in one way.
LEMMA QuotientUnique ==
    ASSUME NEW p \in Nat, p > 0, NEW k \in Nat, NEW b \in Nat,
           p * k <= b, b < p * k + p
    PROVE  b \div p = k /\ b % p = b - p * k
<1>1. b = (b \div p) * p + (b % p) /\ b % p \in 0 .. p - 1 /\ b \div p \in Int
  OBVIOUS
<1>2. p * k = k * p /\ k * p \in Nat
  OBVIOUS
<1> DEFINE q == b \div p
           r == b % p
           t == b - p * k
<1>3. t \in 0 .. p - 1 /\ q * p + r = k * p + t
  BY <1>1, <1>2
<1>4. q \in Int /\ k \in Int /\ r \in 0 .. p - 1
  BY <1>1
<1> HIDE DEF q, r, t
<1>5. r = t
  BY <1>3, <1>4, DivisionUnique
<1>6. (q - k) * p = 0
  BY <1>3, <1>4, <1>5
<1>7. q = k
  BY <1>4, <1>6
<1> QED
  BY <1>5, <1>7 DEF q, r, t

\* The remainder goes up by one, except at a multiple.
LEMMA ModSuccessor ==
    ASSUME NEW p \in Nat, p > 0, NEW n \in Nat, n > 0, n % p # 0
    PROVE  n % p = ((n - 1) % p) + 1
<1> DEFINE m == n - 1
<1>1. n = (n \div p) * p + (n % p) /\ n % p \in 0 .. p - 1 /\ n \div p \in Int
  OBVIOUS
<1>2. m \in Nat
  OBVIOUS
<1>3. m = (m \div p) * p + (m % p) /\ m % p \in 0 .. p - 1 /\ m \div p \in Int
  BY <1>2
<1>4. (n % p) - 1 \in 0 .. p - 1
  BY <1>1
<1>5. (n \div p) * p + ((n % p) - 1) = (m \div p) * p + (m % p)
  BY <1>1, <1>3
<1> HIDE DEF m
<1>6. (n % p) - 1 = m % p
  BY <1>1, <1>3, <1>4, <1>5, DivisionUnique
<1> QED
  BY <1>1, <1>3, <1>6 DEF m

----------------------------------------------------------------------------
(* The reference block                                                     *)

\* The area is not empty, and its size is the value the code means, without
\* wrapping in 32 bits.
LEMMA AreaFits ==
    ASSUME ArgonInv, pass < Iterations, current < SegmentEnd
    PROVE  /\ AreaSize = IF pass = 0 THEN current - 1
                         ELSE 3 * SegmentSize + current - segment * SegmentSize - 1
           /\ AreaSize \in Nat /\ AreaSize > 0
<1> DEFINE q == SegmentSize
<1>1. q \in Nat /\ nb = 4 * q /\ q >= 2 /\ nb < WordSize
  BY FourSegments DEF ArgonInv, ArgonTypeOK
<1>2. /\ current \in Nat /\ pass \in Nat /\ segment \in 0 .. 3 /\ WordSize \in Nat
      /\ gidx_offset \in Nat /\ gidx_offset = current - segment * q
      /\ current < (segment + 1) * q /\ segment * q <= current
      /\ pass = 0 /\ segment = 0 => current >= 2
  BY ArgonAssumption DEF ArgonInv, ArgonTypeOK, PoolMatchesOffset, Place, SegmentEnd
<1>3. ASSUME NEW a \in Nat, a < WordSize PROVE a % WordSize = a
  BY <1>2, <1>3
<1>4. (segment + 1) * q = segment * q + q /\ segment * q \in Nat
  BY <1>1, <1>2
<1>5. CASE pass = 0
  <2>1. AreaSize = (current - 1) % WordSize
    BY <1>1, <1>2, <1>4, <1>5 DEF AreaSize
  <2>2. current - 1 > 0
    <3>1. CASE segment = 0
      BY <1>2, <1>5, <3>1
    <3>2. CASE segment # 0
      <4>1. segment * q >= q
        BY <1>1, <1>2, <3>2
      <4> QED
        BY <1>1, <1>2, <1>4, <4>1
    <3> QED
      BY <3>1, <3>2
  <2>3. current <= nb
    BY DEF ArgonInv, ArgonTypeOK
  <2> QED
    BY <1>1, <1>2, <1>3, <1>5, <2>1, <2>2, <2>3
<1>6. CASE pass # 0
  <2>1. AreaSize = (3 * q + current - segment * q - 1) % WordSize
    BY <1>1, <1>2, <1>4, <1>6 DEF AreaSize
  <2> QED
    BY <1>1, <1>2, <1>3, <1>4, <1>6, <2>1
<1> QED
  BY <1>5, <1>6

\* The reference block lies in the area, for every pseudo-random word.
LEMMA ReferenceSafe == ArgonInv => ReferenceInArea
<1> SUFFICES ASSUME ArgonInv, pass < Iterations, current < SegmentEnd,
                    NEW j1 \in 0 .. WordSize - 1
             PROVE  Reference(j1) \in ReferenceArea /\ filled[Reference(j1)] > 0
  BY DEF ReferenceInArea
<1> DEFINE q == SegmentSize
           y == (AreaSize * ((j1 * j1) \div WordSize)) \div WordSize
           z == AreaSize - 1 - y
<1>1. q \in Nat /\ nb = 4 * q /\ q >= 2
  BY FourSegments DEF ArgonInv
<1>2. /\ current \in Nat /\ pass \in Nat /\ segment \in 0 .. 3
      /\ current < (segment + 1) * q /\ segment * q <= current
      /\ pass = 0 /\ segment = 0 => current >= 2
  BY ArgonAssumption DEF ArgonInv, ArgonTypeOK, Place, SegmentEnd
<1>3. AreaSize \in Nat /\ AreaSize > 0
  BY AreaFits
<1>4. (j1 * j1) \div WordSize \in Nat /\ (j1 * j1) \div WordSize < WordSize
  BY SquareScaled, ArgonAssumption
<1>5. y \in Nat /\ y < AreaSize
  BY <1>3, <1>4, Scaled, ArgonAssumption
<1>6. z \in Nat /\ z < AreaSize
  BY <1>3, <1>5
<1> DEFINE ref == StartPos + z
<1>7. Reference(j1) = IF ref < nb THEN ref ELSE ref - nb
  BY DEF Reference
<1> HIDE DEF q, y, z
<1>8. CASE pass = 0
  <2>1. z < current - 1 /\ ref = z
    BY <1>6, <1>8, <1>2, AreaFits DEF StartPos
  <2>2. current <= nb
    BY DEF ArgonInv, ArgonTypeOK
  <2>3. Reference(j1) = z
    BY <1>1, <1>2, <1>6, <1>7, <2>1, <2>2
  <2>4. Previous = current - 1
    BY <1>2, <1>6, <2>1 DEF Previous
  <2>5. z \in 0 .. nb - 1 /\ z # Previous /\ z < current
    BY <1>1, <1>2, <1>6, <2>1, <2>2, <2>4
  <2>6. filled[z] = 1
    BY <1>8, <2>5 DEF ArgonInv, FilledInOrder
  <2> QED
    BY <1>8, <2>3, <2>5, <2>6 DEF ReferenceArea
<1>9. CASE pass # 0
  <2>1. z < 3 * q + current - segment * q - 1
    BY <1>6, <1>9, AreaFits DEF q
  <2>2. ref = ((segment + 1) % 4) * q + z
    BY <1>9 DEF StartPos, q
  <2>3. Previous = IF current = 0 THEN nb - 1 ELSE current - 1
    BY DEF Previous
  <2>4. /\ Reference(j1) \in 0 .. nb - 1
        /\ Reference(j1) # Previous
        /\ \/ Reference(j1) < segment * q
           \/ Reference(j1) >= (segment + 1) * q
           \/ segment * q <= Reference(j1) /\ Reference(j1) < current
    <3>1. CASE segment = 0
      BY <1>1, <1>2, <1>6, <1>7, <2>1, <2>2, <2>3, <3>1
    <3>2. CASE segment = 1
      BY <1>1, <1>2, <1>6, <1>7, <2>1, <2>2, <2>3, <3>2
    <3>3. CASE segment = 2
      BY <1>1, <1>2, <1>6, <1>7, <2>1, <2>2, <2>3, <3>3
    <3>4. CASE segment = 3
      BY <1>1, <1>2, <1>6, <1>7, <2>1, <2>2, <2>3, <3>4
    <3> QED
      BY <1>2, <3>1, <3>2, <3>3, <3>4
  <2>5. Reference(j1) \in ReferenceArea
    BY <1>9, <2>4 DEF ReferenceArea, SegmentEnd, q
  <2>6. filled[Reference(j1)] >= pass
    BY <1>2, <2>4 DEF ArgonInv, FilledInOrder
  <2>7. filled[Reference(j1)] \in Nat
    BY <2>4 DEF ArgonInv, ArgonTypeOK
  <2> QED
    BY <1>2, <1>9, <2>5, <2>6, <2>7
<1> QED
  BY <1>8, <1>9

----------------------------------------------------------------------------
(* The invariant                                                           *)

\* The state the loops start in.
LEMMA InitArgonInv == ArgonInit => ArgonInv
<1> SUFFICES ASSUME ArgonInit PROVE ArgonInv
  OBVIOUS
<1>1. PICK asked \in Asks : nb = asked - (asked % 4)
  BY DEF ArgonInit
<1>2. asked \in Nat /\ asked >= 8 /\ asked < WordSize /\ WordSize \in Nat
  BY ArgonAssumption
<1>3. nb \in Nat /\ nb >= 8 /\ nb < WordSize /\ nb % 4 = 0
  BY <1>1, <1>2
<1>4. ArgonTypeOK
  BY <1>3, ArgonAssumption DEF ArgonInit, ArgonTypeOK, NoRead
<1>5. SegmentSize \in Nat /\ SegmentSize >= 2
  BY <1>4, FourSegments
<1>6. Place
  BY <1>5, ArgonAssumption DEF ArgonInit, Place, SegmentEnd
<1>7. FilledInOrder
  BY <1>3 DEF ArgonInit, FilledInOrder
<1>8. PoolMatchesOffset
  BY <1>5, ArgonAssumption DEF ArgonInit, PoolMatchesOffset
<1>9. LastWord
  BY DEF ArgonInit, LastWord, FirstOffset
<1> QED
  BY <1>4, <1>6, <1>7, <1>8, <1>9 DEF ArgonInv

\* Filling a block.
LEMMA FillBlockArgonInv == ArgonInv /\ FillBlock => ArgonInv'
<1> SUFFICES ASSUME ArgonInv, FillBlock PROVE ArgonInv'
  OBVIOUS
<1> DEFINE q == SegmentSize
<1>1. q \in Nat /\ nb = 4 * q /\ q >= 2
  BY FourSegments DEF ArgonInv
<1>2. /\ current \in Nat /\ pass \in Nat /\ segment \in 0 .. 3 /\ nb \in Nat
      /\ pass < Iterations /\ Iterations \in Nat /\ pass # Iterations
      /\ current < (segment + 1) * q /\ segment * q <= current
      /\ pass = 0 /\ segment = 0 => current >= 2
      /\ gidx_offset \in Nat /\ gidx_ctr \in Nat
      /\ PoolWords \in Nat /\ PoolWords > 2 /\ PoolWords > 0
  BY ArgonAssumption DEF ArgonInv, ArgonTypeOK, Place, SegmentEnd, FillBlock
<1>3. /\ nb' = nb /\ pass' = pass /\ segment' = segment /\ current' = current + 1
      /\ gidx_offset' = gidx_offset + 1 /\ gidx_ctr' = Refreshed
      /\ filled' = [filled EXCEPT ![current] = @ + 1]
      /\ size' = size /\ made' = made
  BY DEF FillBlock
<1>4. PICK j1 \in 0 .. WordSize - 1 :
        last' = [word |-> <<Refreshed, gidx_offset % PoolWords>>,
                 previous |-> Previous, reference |-> Reference(j1)]
  BY DEF FillBlock
<1>5. SegmentSize' = q /\ SegmentEnd' = (segment + 1) * q
  BY <1>3 DEF SegmentSize, SegmentEnd
<1>6. current \in 0 .. nb - 1
  BY <1>1, <1>2
<1>7. Refreshed \in Nat
  BY <1>2 DEF Refreshed
<1>8. ArgonTypeOK'
  <2>1. Reference(j1) \in 0 .. nb - 1
    BY <1>2, <1>5, ReferenceSafe DEF ReferenceInArea, ReferenceArea, FillBlock
  <2>2. Previous \in 0 .. nb - 1
    BY <1>2, <1>6 DEF Previous
  <2>3. gidx_offset % PoolWords \in Nat
    BY <1>2
  <2>4. last' \in [word : Nat \X Nat, previous : 0 .. nb - 1, reference : 0 .. nb - 1]
    BY <1>4, <1>7, <2>1, <2>2, <2>3
  <2>5. filled' \in [0 .. nb - 1 -> Nat]
    BY <1>3, <1>6 DEF ArgonInv, ArgonTypeOK
  <2> QED
    <3>1. nb' \in Nat /\ nb' >= 8 /\ nb' < WordSize /\ nb' % 4 = 0
      BY <1>3 DEF ArgonInv, ArgonTypeOK
    <3>2. pass' \in 0 .. Iterations /\ segment' \in 0 .. 3
      BY <1>3 DEF ArgonInv, ArgonTypeOK
    <3>3. current' \in 0 .. nb' /\ gidx_ctr' \in Nat /\ gidx_offset' \in Nat
      BY <1>2, <1>3, <1>6, <1>7
    <3>4. size' \in Nat /\ made' \in Nat
      BY <1>3 DEF ArgonInv, ArgonTypeOK
    <3> QED
      BY <1>3, <2>4, <2>5, <3>1, <3>2, <3>3, <3>4 DEF ArgonTypeOK
<1>9. Place'
  BY <1>1, <1>2, <1>3, <1>5 DEF Place
<1>10. FilledInOrder'
  <2>1. SUFFICES ASSUME NEW b \in 0 .. nb - 1
                 PROVE  filled'[b] = IF b < current + 1 THEN pass + 1 ELSE pass
    BY <1>3 DEF FilledInOrder
  <2>2. filled[b] = IF b < current THEN pass + 1 ELSE pass
    BY DEF ArgonInv, FilledInOrder
  <2>3. filled'[b] = IF b = current THEN filled[b] + 1 ELSE filled[b]
    BY <1>3, <1>6 DEF ArgonInv, ArgonTypeOK
  <2> QED
    BY <1>2, <2>2, <2>3
<1>11. PoolMatchesOffset'
  <2>1. gidx_offset' = current' - segment' * SegmentSize'
    BY <1>1, <1>2, <1>3, <1>5 DEF ArgonInv, PoolMatchesOffset
  <2>2. (gidx_ctr - 1) * PoolWords < gidx_offset /\ gidx_offset <= gidx_ctr * PoolWords
    BY DEF ArgonInv, PoolMatchesOffset
  <2>3. CASE gidx_offset % PoolWords = 0
    <3>1. gidx_offset = gidx_ctr * PoolWords
      BY <1>2, <2>2, <2>3, UpperMultiple
    <3>2. gidx_ctr' = gidx_ctr + 1
      BY <1>3, <2>3 DEF Refreshed
    <3>3. /\ (gidx_ctr' - 1) * PoolWords = gidx_ctr * PoolWords
          /\ gidx_ctr' * PoolWords = gidx_ctr * PoolWords + PoolWords
          /\ gidx_ctr * PoolWords \in Nat
      BY <1>2, <3>2
    <3> QED
      BY <1>2, <1>3, <2>1, <3>1, <3>3 DEF PoolMatchesOffset
  <2>4. CASE gidx_offset % PoolWords # 0
    <3>1. gidx_ctr' = gidx_ctr
      BY <1>3, <2>4 DEF Refreshed
    <3>2. gidx_offset # gidx_ctr * PoolWords
      BY <1>2, <2>4, MultipleMod
    <3>3. gidx_ctr * PoolWords \in Nat /\ (gidx_ctr - 1) * PoolWords \in Int
      BY <1>2
    <3>4. (gidx_ctr - 1) * PoolWords < gidx_offset + 1
          /\ gidx_offset + 1 <= gidx_ctr * PoolWords
      BY <1>2, <2>2, <3>2, <3>3
    <3> QED
      BY <1>3, <2>1, <3>1, <3>4 DEF PoolMatchesOffset
  <2> QED
    BY <2>3, <2>4
<1>12. LastWord'
  <2>1. last'.word = <<gidx_ctr', (gidx_offset' - 1) % PoolWords>>
    BY <1>2, <1>3, <1>4
  <2> QED
    BY <2>1 DEF LastWord
<1> QED
  BY <1>8, <1>9, <1>10, <1>11, <1>12 DEF ArgonInv

\* Entering a segment.
LEMMA NextSegmentArgonInv == ArgonInv /\ NextSegment => ArgonInv'
<1> SUFFICES ASSUME ArgonInv, NextSegment PROVE ArgonInv'
  OBVIOUS
<1> DEFINE q == SegmentSize
<1>1. q \in Nat /\ nb = 4 * q /\ q >= 2
  BY FourSegments DEF ArgonInv
<1>2. /\ pass \in Nat /\ segment \in 0 .. 3 /\ nb \in Nat /\ current \in Nat
      /\ pass < Iterations /\ Iterations \in Nat
      /\ current = (segment + 1) * q
      /\ PoolWords \in Nat /\ PoolWords > 2 /\ PoolWords > 0
  BY ArgonAssumption DEF ArgonInv, ArgonTypeOK, SegmentEnd, NextSegment
<1>3. /\ nb' = nb /\ filled' = filled /\ last' = last /\ size' = size /\ made' = made
      /\ segment' = (segment + 1) % 4
      /\ pass' = IF segment = 3 THEN pass + 1 ELSE pass
      /\ current' = SegmentStart(pass', segment')
      /\ GidxInit(pass', segment')
  BY DEF NextSegment
<1>4. segment' = IF segment = 3 THEN 0 ELSE segment + 1
  BY <1>2, <1>3
<1>5. pass' # 0 \/ segment' # 0
  BY <1>2, <1>3, <1>4
<1>6. gidx_offset' = 0 /\ gidx_ctr' = 0 /\ current' = segment' * q
  BY <1>1, <1>2, <1>3, <1>4, <1>5 DEF GidxInit, SegmentStart
<1>7. SegmentSize' = q /\ SegmentEnd' = (segment' + 1) * q
  BY <1>3 DEF SegmentSize, SegmentEnd
<1>8. current' = IF segment = 3 THEN 0 ELSE current
  BY <1>1, <1>2, <1>4, <1>6
<1>9. ArgonTypeOK'
  <2>1. pass' \in 0 .. Iterations /\ segment' \in 0 .. 3
    BY <1>2, <1>3, <1>4
  <2>2. current \in 0 .. nb
    BY DEF ArgonInv, ArgonTypeOK
  <2>3. current' \in 0 .. nb' /\ gidx_ctr' \in Nat /\ gidx_offset' \in Nat
    BY <1>2, <1>3, <1>6, <1>8, <2>2
  <2>4. UNCHANGED <<nb, filled, last, size, made>>
    BY <1>3
  <2> QED
    BY <2>1, <2>3, <2>4 DEF ArgonInv, ArgonTypeOK
<1>10. Place'
  <2>1. pass' = Iterations => segment' = 0
    BY <1>2, <1>3, <1>4
  <2>2. segment' * q <= current' /\ current' <= (segment' + 1) * q
    BY <1>1, <1>2, <1>4, <1>6
  <2> QED
    BY <1>5, <1>7, <2>1, <2>2 DEF Place
<1>11. FilledInOrder'
  <2>1. SUFFICES ASSUME NEW b \in 0 .. nb - 1
                 PROVE  filled[b] = IF b < current' THEN pass' + 1 ELSE pass'
    BY <1>3 DEF FilledInOrder
  <2>2. filled[b] = IF b < current THEN pass + 1 ELSE pass
    BY DEF ArgonInv, FilledInOrder
  <2>3. segment = 3 => current = nb
    BY <1>1, <1>2
  <2> QED
    BY <1>2, <1>3, <1>8, <2>2, <2>3
<1>12. PoolMatchesOffset'
  BY <1>1, <1>2, <1>4, <1>6, <1>7 DEF PoolMatchesOffset
<1>13. LastWord'
  BY <1>6 DEF LastWord, FirstOffset
<1> QED
  BY <1>9, <1>10, <1>11, <1>12, <1>13 DEF ArgonInv

\* The extended hash leaves the work area alone.
LEMMA HashArgonInv ==
    ASSUME ArgonInv,
           UNCHANGED <<nb, filled, pass, segment, current, gidx_ctr, gidx_offset, last>>,
           size' \in Nat, made' \in Nat
    PROVE  ArgonInv'
BY DEF ArgonInv, ArgonTypeOK, Place, FilledInOrder, PoolMatchesOffset, LastWord,
       SegmentSize, SegmentEnd, FirstOffset

\* Every step of the program.
LEMMA StepArgonInv == ArgonInv /\ [ArgonNext]_argonVars => ArgonInv'
<1> SUFFICES ASSUME ArgonInv, [ArgonNext]_argonVars PROVE ArgonInv'
  OBVIOUS
<1>1. size \in Nat /\ made \in Nat
  BY DEF ArgonInv, ArgonTypeOK
<1>2. CASE FillBlock
  BY <1>2, FillBlockArgonInv
<1>3. CASE NextSegment
  BY <1>3, NextSegmentArgonInv
<1>4. ASSUME NEW d \in HashSizes, ExtendedHash(d) PROVE ArgonInv'
  BY <1>1, <1>4, HashArgonInv, ArgonAssumption DEF ExtendedHash
<1>5. CASE HashHalf
  BY <1>1, <1>5, HashArgonInv DEF HashHalf
<1>6. CASE HashRest
  BY <1>1, <1>6, HashArgonInv DEF HashRest
<1>7. CASE UNCHANGED argonVars
  BY <1>1, <1>7, HashArgonInv DEF argonVars
<1> QED
  BY <1>2, <1>3, <1>4, <1>5, <1>6, <1>7 DEF ArgonNext

\* The invariant holds throughout.
THEOREM ArgonInvariant == ArgonSpec => []ArgonInv
BY InitArgonInv, StepArgonInv, PTL DEF ArgonSpec

\* gidx_next returns a block of the area Argon2i defines, one that is filled,
\* for every size of the work area, every pass and every pseudo-random word.
THEOREM ReferencesInArea == ArgonSpec => []ReferenceInArea
BY ArgonInvariant, ReferenceSafe, PTL

\* Every block is filled once in each pass, in order.
THEOREM BlocksFilledInOrder == ArgonSpec => []FilledInOrder
<1>1. ArgonInv => FilledInOrder
  BY DEF ArgonInv
<1> QED
  BY <1>1, ArgonInvariant, PTL

\* The stream of pseudo-random words only goes forward.
THEOREM NoWordReused == ArgonSpec => WordsNotReused
<1> DEFINE Forward ==
      FillBlock /\ gidx_offset > FirstOffset =>
         LET old == last.word
             new == (last').word
         IN  old[1] < new[1] \/ (old[1] = new[1] /\ old[2] < new[2])
<1>1. ArgonInv /\ [ArgonNext]_argonVars => [Forward]_argonVars
  <2>1. SUFFICES ASSUME ArgonInv, FillBlock, gidx_offset > FirstOffset
                 PROVE  \/ last.word[1] < (last').word[1]
                        \/ /\ last.word[1] = (last').word[1]
                           /\ last.word[2] < (last').word[2]
    OBVIOUS
  <2>2. /\ gidx_offset \in Nat /\ gidx_ctr \in Nat /\ gidx_offset > 0
        /\ PoolWords \in Nat /\ PoolWords > 2 /\ PoolWords > 0
    BY <2>1, ArgonAssumption DEF ArgonInv, ArgonTypeOK, FirstOffset
  <2>3. last.word = <<gidx_ctr, (gidx_offset - 1) % PoolWords>>
    BY <2>1 DEF ArgonInv, LastWord
  <2>4. (last').word = <<Refreshed, gidx_offset % PoolWords>>
    BY <2>1 DEF FillBlock
  <2>5. CASE gidx_offset % PoolWords = 0
    BY <2>2, <2>3, <2>4, <2>5 DEF Refreshed
  <2>6. CASE gidx_offset % PoolWords # 0
    <3>1. gidx_offset % PoolWords = ((gidx_offset - 1) % PoolWords) + 1
      BY <2>2, <2>6, ModSuccessor
    <3>2. (gidx_offset - 1) % PoolWords \in Int
      BY <2>2
    <3> QED
      BY <2>2, <2>3, <2>4, <2>6, <3>1, <3>2 DEF Refreshed
  <2> QED
    BY <2>5, <2>6
<1>2. ArgonSpec => [][Forward]_argonVars
  BY <1>1, ArgonInvariant, PTL DEF ArgonSpec
<1> QED
  BY <1>2 DEF WordsNotReused
----------------------------------------------------------------------------
(* The extended hash                                                       *)

\* The bytes of a digest of a chain: the first halves of n - 1 hashes and m
\* bytes of hash n.
ChainBytes(n, m) ==
    [b \in 0 .. Half * (n - 1) + m - 1 |->
        IF b < Half * (n - 1) THEN <<b \div Half + 1, b % Half>>
                              ELSE <<n, b - Half * (n - 1)>>]

\* What is written of the digest: nothing, all of a short one, the hashes of
\* the loop so far with the last of them whole, or everything.
HashProgress ==
    /\ size = 0 => hashed = <<>>
    /\ size > 0 /\ size <= 2 * Half => hashed = [b \in 0 .. size - 1 |-> <<1, b>>]
    /\ size > 2 * Half =>
         \/ made \in 1 .. LastHash /\ hashed = ChainBytes(made, 2 * Half)
         \/ /\ made = LastHash + 1
            /\ hashed = ChainBytes(made, size - Half * LastHash)

HashInv == size \in Nat /\ made \in Nat /\ HashProgress

\* A long digest has at least three halves; the last hash takes more than one
\* of them, and no more than it has.
LEMMA LastHashFits ==
    ASSUME NEW d \in Nat, d > 2 * Half, NEW n, n = ((d + Half - 1) \div Half) - 2
    PROVE  n \in Nat /\ n >= 1 /\ d - Half * n > Half /\ d - Half * n <= 2 * Half
<1> DEFINE k == (d + Half - 1) \div Half
<1>1. Half \in Nat /\ Half > 0
  BY ArgonAssumption
<1>2. k \in Nat /\ k * Half <= d + Half - 1 /\ d + Half - 1 < k * Half + Half
  BY <1>1
<1>3. n = k - 2
  OBVIOUS
<1> HIDE DEF k
<1>4. k >= 3
  <2>1. SUFFICES ASSUME k <= 2 PROVE FALSE
    BY <1>2
  <2>2. k * Half <= 2 * Half
    BY <1>1, <1>2, <2>1
  <2> QED
    BY <1>1, <1>2, <2>2
<1>5. Half * (k - 2) = k * Half - 2 * Half /\ k * Half \in Nat
  BY <1>1, <1>2
<1> QED
  BY <1>1, <1>2, <1>3, <1>4, <1>5

\* The hash the loop takes next is the hash of the last one it wrote.
LEMMA NextOfChain ==
    ASSUME made \in Nat, made >= 1, hashed = ChainBytes(made, 2 * Half)
    PROVE  HashOfOutput(Half * (made - 1)) = made + 1
<1> DEFINE i == Half * (made - 1)
<1>1. Half \in Nat /\ Half > 0 /\ i \in Nat
  BY ArgonAssumption
<1> HIDE DEF i
<1>2. \A j \in 0 .. 2 * Half - 1 : hashed[i + j] = <<made, j>>
  <2> TAKE j \in 0 .. 2 * Half - 1
  <2>1. i + j \in 0 .. i + 2 * Half - 1 /\ ~ (i + j < i) /\ (i + j) - i = j
    BY <1>1
  <2> QED
    BY <2>1 DEF ChainBytes, i
<1>3. made \in 1 .. made
  OBVIOUS
<1>4. hashed[i] = <<made, 0>>
  BY <1>1, <1>2
<1> QED
  BY <1>2, <1>3, <1>4 DEF HashOfOutput, i

\* A byte of the half that stays: it is one of the last hash but one already,
\* or it is a byte of the last hash that the next one does not overwrite.
LEMMA StayingByte ==
    ASSUME NEW i \in Nat, NEW k \in Nat, i = Half * k,
           NEW b \in Nat, b < i + Half
    PROVE  (IF b < i THEN <<b \div Half + 1, b % Half>> ELSE <<k + 1, b - i>>)
             = <<b \div Half + 1, b % Half>>
<1>1. Half \in Nat /\ Half > 0
  BY ArgonAssumption
<1>2. CASE b < i
  BY <1>2
<1>3. CASE i <= b
  <2>1. Half * k <= b /\ b < Half * k + Half
    BY <1>3
  <2>2. b \div Half = k /\ b % Half = b - Half * k
    BY <1>1, <2>1, QuotientUnique
  <2> QED
    BY <1>3, <2>2
<1> QED
  BY <1>2, <1>3

\* Half of the hash before stays, n bytes of the next one follow.
LEMMA WrittenChain ==
    ASSUME made \in Nat, made >= 1, hashed = ChainBytes(made, 2 * Half),
           NEW n \in Nat, n > Half
    PROVE  Written(Half * made, made + 1, n) = ChainBytes(made + 1, n)
<1> DEFINE k == made - 1
           i == Half * k
<1>1. Half \in Nat /\ Half > 0 /\ k \in Nat /\ i \in Nat /\ i = Half * k /\ made = k + 1
  BY ArgonAssumption
<1>2. Half * made = i + Half /\ Half * ((made + 1) - 1) = i + Half
  BY <1>1
<1>3. DOMAIN hashed = 0 .. i + 2 * Half - 1
  BY DEF ChainBytes
<1>4. \A b \in 0 .. i + 2 * Half - 1 :
        hashed[b] = IF b < i THEN <<b \div Half + 1, b % Half>> ELSE <<k + 1, b - i>>
  BY <1>1 DEF ChainBytes
<1> HIDE DEF i, k
<1>5. (0 .. i + 2 * Half - 1) \cup (i + Half .. i + Half + n - 1) = 0 .. i + Half + n - 1
  BY <1>1
<1>6. ASSUME NEW b \in 0 .. i + Half + n - 1
      PROVE  (IF b \in i + Half .. i + Half + n - 1 THEN <<made + 1, b - (i + Half)>> ELSE hashed[b])
               = (IF b < i + Half THEN <<b \div Half + 1, b % Half>>
                  ELSE <<made + 1, b - (i + Half)>>)
  <2>1. b \in Nat /\ b <= i + Half + n - 1
    BY <1>1
  <2>2. CASE b < i + Half
    <3>1. b \in 0 .. i + 2 * Half - 1 /\ ~ (b \in i + Half .. i + Half + n - 1)
      BY <1>1, <2>1, <2>2
    <3>2. hashed[b] = IF b < i THEN <<b \div Half + 1, b % Half>> ELSE <<k + 1, b - i>>
      BY <1>4, <3>1
    <3>3. (IF b < i THEN <<b \div Half + 1, b % Half>> ELSE <<k + 1, b - i>>)
            = <<b \div Half + 1, b % Half>>
      BY <1>1, <2>1, <2>2, StayingByte
    <3> QED
      BY <2>2, <3>1, <3>2, <3>3
  <2>3. CASE ~ (b < i + Half)
    <3>1. b \in i + Half .. i + Half + n - 1
      BY <1>1, <2>1, <2>3
    <3> QED
      BY <2>3, <3>1
  <2> QED
    BY <2>2, <2>3
<1> QED
  BY <1>2, <1>3, <1>5, <1>6 DEF Written, ChainBytes

\* Every step of the program keeps the digest a chain.
LEMMA StepHashInv == HashInv /\ [ArgonNext]_argonVars => HashInv'
<1> SUFFICES ASSUME HashInv, [ArgonNext]_argonVars PROVE HashInv'
  OBVIOUS
<1>1. Half \in Nat /\ Half > 0 /\ HashSizes \subseteq Nat \ {0}
  BY ArgonAssumption
<1>2. ASSUME UNCHANGED <<size, made, hashed>> PROVE HashInv'
  BY <1>2 DEF HashInv, HashProgress, LastHash, ChainBytes
<1>3. CASE FillBlock
  BY <1>2, <1>3 DEF FillBlock
<1>4. CASE NextSegment
  BY <1>2, <1>4 DEF NextSegment
<1>5. ASSUME NEW d \in HashSizes, ExtendedHash(d) PROVE HashInv'
  <2>1. /\ size' = d /\ made' = 1 /\ d \in Nat /\ d > 0
        /\ hashed' = [b \in 0 .. LesserSize(d, 2 * Half) - 1 |-> <<1, b>>]
    BY <1>1, <1>5 DEF ExtendedHash
  <2>2. CASE d <= 2 * Half
    <3>1. LesserSize(d, 2 * Half) = d
      BY <1>1, <2>1, <2>2 DEF LesserSize
    <3> QED
      BY <1>1, <2>1, <2>2, <3>1 DEF HashInv, HashProgress
  <2>3. CASE d > 2 * Half
    <3>1. LesserSize(d, 2 * Half) = 2 * Half
      BY <1>1, <2>1, <2>3 DEF LesserSize
    <3>2. LastHash' \in Nat /\ LastHash' >= 1
      <4>1. LastHash' = ((d + Half - 1) \div Half) - 2
        BY <2>1 DEF LastHash
      <4> QED
        BY <2>1, <2>3, <4>1, LastHashFits
    <3>3. ChainBytes(1, 2 * Half) = [b \in 0 .. 2 * Half - 1 |-> <<1, b>>]
      BY <1>1 DEF ChainBytes
    <3>4. made' \in 1 .. LastHash'
      BY <2>1, <3>2
    <3>5. hashed' = ChainBytes(made', 2 * Half)
      BY <2>1, <3>1, <3>3
    <3>6. ~ (size' = 0) /\ ~ (size' <= 2 * Half) /\ size' \in Nat /\ made' \in Nat
      BY <1>1, <2>1, <2>3
    <3> QED
      BY <3>4, <3>5, <3>6 DEF HashInv, HashProgress
  <2> QED
    BY <1>1, <2>1, <2>2, <2>3
<1>6. CASE HashHalf
  <2>1. /\ size > 2 * Half /\ made < LastHash /\ size' = size /\ made' = made + 1
        /\ hashed' = Written(Half * made, HashOfOutput(Half * (made - 1)), 2 * Half)
    BY <1>6 DEF HashHalf
  <2>2. LastHash \in Nat /\ size \in Nat /\ made \in Nat /\ LastHash' = LastHash
    BY <2>1, LastHashFits DEF HashInv, LastHash
  <2>3. made \in 1 .. LastHash /\ hashed = ChainBytes(made, 2 * Half)
    BY <1>1, <2>1, <2>2 DEF HashInv, HashProgress
  <2>4. hashed' = ChainBytes(made + 1, 2 * Half)
    BY <1>1, <2>1, <2>2, <2>3, NextOfChain, WrittenChain
  <2> QED
    BY <1>1, <2>1, <2>2, <2>3, <2>4 DEF HashInv, HashProgress
<1>7. CASE HashRest
  <2>1. /\ size > 2 * Half /\ made = LastHash /\ size' = size /\ made' = made + 1
        /\ hashed' = Written(Half * made, HashOfOutput(Half * (made - 1)),
                             size - Half * LastHash)
    BY <1>7 DEF HashRest
  <2>2. /\ LastHash \in Nat /\ size \in Nat /\ made \in Nat /\ LastHash' = LastHash
        /\ size - Half * LastHash \in Nat /\ size - Half * LastHash > Half
    BY <1>1, <2>1, LastHashFits DEF HashInv, LastHash
  <2>3. made \in 1 .. LastHash /\ hashed = ChainBytes(made, 2 * Half)
    BY <1>1, <2>1, <2>2 DEF HashInv, HashProgress
  <2>4. hashed' = ChainBytes(made + 1, size - Half * LastHash)
    BY <1>1, <2>1, <2>2, <2>3, NextOfChain, WrittenChain
  <2> QED
    BY <1>1, <2>1, <2>2, <2>3, <2>4 DEF HashInv, HashProgress
<1>8. CASE UNCHANGED argonVars
  BY <1>2, <1>8 DEF argonVars
<1> QED
  BY <1>3, <1>4, <1>5, <1>6, <1>7, <1>8 DEF ArgonNext

\* What the progress means for the digest, while it is written and when it is
\* done.
LEMMA ProgressIsChain == HashInv => ExtendedHashIsChain
<1> SUFFICES ASSUME HashInv PROVE ExtendedHashIsChain
  OBVIOUS
<1>1. Half \in Nat /\ Half > 0 /\ size \in Nat /\ made \in Nat
  BY ArgonAssumption DEF HashInv
<1>2. CASE size = 0
  <2>1. hashed = <<>>
    BY <1>2 DEF HashInv, HashProgress
  <2> QED
    BY <1>2, <2>1 DEF ExtendedHashIsChain, DigestDone
<1>3. CASE size > 0 /\ size <= 2 * Half
  <2>1. hashed = [b \in 0 .. size - 1 |-> <<1, b>>]
    BY <1>3 DEF HashInv, HashProgress
  <2> QED
    BY <1>1, <1>3, <2>1 DEF ExtendedHashIsChain
<1>4. CASE size > 2 * Half
  <2>1. /\ LastHash \in Nat /\ LastHash >= 1
        /\ size - Half * LastHash > Half /\ size - Half * LastHash \in Nat
    BY <1>1, <1>4, LastHashFits DEF LastHash
  <2>2. CASE made \in 1 .. LastHash /\ hashed = ChainBytes(made, 2 * Half)
    <3>1. Half * (made - 1) + 2 * Half = Half * made + Half /\ Half * made <= Half * LastHash
      BY <1>1, <2>1, <2>2
    <3>2. Half * (made - 1) \in Nat /\ Half * made \in Nat /\ Half * LastHash \in Nat
      BY <1>1, <2>1, <2>2
    <3>3. Half * (made - 1) + 2 * Half - 1 <= size - 1
      BY <1>1, <2>1, <3>1, <3>2
    <3>4. DOMAIN hashed = 0 .. Half * (made - 1) + 2 * Half - 1
      BY <2>2 DEF ChainBytes
    <3>5. DOMAIN hashed \subseteq 0 .. size - 1
      BY <1>1, <3>2, <3>3, <3>4
    <3>6. ~ DigestDone
      BY <1>1, <1>4, <2>1, <2>2 DEF DigestDone
    <3> QED
      BY <3>5, <3>6 DEF ExtendedHashIsChain
  <2>3. CASE made = LastHash + 1 /\ hashed = ChainBytes(made, size - Half * LastHash)
    <3>1. made - 1 = LastHash /\ Half * (made - 1) + (size - Half * LastHash) - 1 = size - 1
      BY <1>1, <2>1, <2>3
    <3>2. hashed = [b \in 0 .. size - 1 |->
                      IF b < Half * LastHash THEN <<b \div Half + 1, b % Half>>
                      ELSE <<LastHash + 1, b - Half * LastHash>>]
      BY <2>3, <3>1 DEF ChainBytes
    <3> QED
      BY <1>1, <1>4, <3>2 DEF ExtendedHashIsChain
  <2> QED
    BY <1>4, <2>2, <2>3 DEF HashInv, HashProgress
<1> QED
  BY <1>1, <1>2, <1>3, <1>4

\* The digest of any size is the chain of hashes Argon2 defines, with no gap
\* between its pieces and no byte past its end (monocypher.c, extended_hash).
THEOREM ExtendedHashCorrect == ArgonSpec => []ExtendedHashIsChain
<1>1. ArgonInit => HashInv
  BY ArgonAssumption DEF ArgonInit, HashInv, HashProgress
<1> QED
  BY <1>1, StepHashInv, ProgressIsChain, PTL DEF ArgonSpec
=============================================================================
