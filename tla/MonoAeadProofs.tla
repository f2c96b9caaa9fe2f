--------------------------- MODULE MonoAeadProofs ---------------------------
(***************************************************************************)
(* The key stream of Chacha20 and the authenticated encryption built on    *)
(* it: no byte of the key stream is used twice, a text given in pieces is  *)
(* encrypted as in one piece, and what opens is what was locked, for       *)
(* blocks, counters, keys and texts of any size.                           *)
(***************************************************************************)
EXTENDS MonoAead, SequenceTheorems, TLAPS

Counters == CounterWord * CounterWord

\* The words of the counter b blocks after the counter s.
WordsAt(s, b) ==
    LET v == (s + b) % Counters IN <<v % CounterWord, v \div CounterWord>>

\* A quotient is the only number whose multiples frame what is divided.
LEMMA QuotientUnique ==
    ASSUME NEW p \in Nat \ {0}, NEW q \in Nat, NEW m \in Nat, m < p
    PROVE  (q * p + m) \div p = q /\ (q * p + m) % p = m
<1> DEFINE n == q * p + m
           d == n \div p
           t == n % p
<1>1. n \in Nat
  <2>1. q * p \in Nat
    OBVIOUS
  <2> QED BY <2>1
<1>2. n = d * p + t /\ t \in 0 .. p - 1 /\ d \in Int
  BY <1>1
<1>3. n = q * p + m
  OBVIOUS
<1> HIDE DEF n, d, t
<1>4. (d - q) * p = m - t
  BY <1>2, <1>3
<1> DEFINE e == d - q
<1>5. e \in Int /\ e * p = m - t
  BY <1>2, <1>4
<1> HIDE DEF e
<1>6. ASSUME e > 0 PROVE FALSE
  <2>1. e * p >= p
    BY <1>5, <1>6
  <2> QED BY <1>2, <1>5, <2>1
<1>7. ASSUME e < 0 PROVE FALSE
  <2>1. e * p <= -p
    BY <1>5, <1>7
  <2> QED BY <1>2, <1>5, <2>1
<1>8. e = 0
  BY <1>5, <1>6, <1>7
<1>9. t = m
  BY <1>2, <1>5, <1>8
<1>10. d = q
  BY <1>2, <1>8 DEF e
<1> QED BY <1>9, <1>10 DEF n, d, t

\* One more, within the modulus or past it.
LEMMA RemainderOfNext ==
    ASSUME NEW n \in Nat, n > 1, NEW a \in Nat
    PROVE  (a + 1) % n = ((a % n) + 1) % n
<1> DEFINE q == a \div n
           t == a % n
<1>1. q \in Nat /\ t \in 0 .. n - 1 /\ a = q * n + t
  OBVIOUS
<1> HIDE DEF q, t
<1>2. CASE t < n - 1
  <2>1. a + 1 = q * n + (t + 1) /\ t + 1 \in Nat /\ t + 1 < n
    BY <1>1, <1>2
  <2>2. (a + 1) % n = t + 1
    <3>1. n \in Nat \ {0}
      OBVIOUS
    <3>2. (q * n + (t + 1)) % n = t + 1
      BY <1>1, <2>1, <3>1, QuotientUnique
    <3> QED BY <2>1, <3>2
  <2>3. (t + 1) % n = t + 1
    BY <2>1
  <2> QED BY <2>2, <2>3 DEF t
<1>3. CASE t = n - 1
  <2>1. (q + 1) * n = q * n + n /\ q * n \in Nat
    BY <1>1
  <2>2. a + 1 = (q + 1) * n + 0 /\ q + 1 \in Nat
    BY <1>1, <1>3, <2>1
  <2>3. (a + 1) % n = 0
    <3>1. n \in Nat \ {0} /\ 0 \in Nat /\ 0 < n
      OBVIOUS
    <3>2. ((q + 1) * n + 0) % n = 0
      BY <2>2, <3>1, QuotientUnique
    <3> QED BY <2>2, <3>2
  <2>4. (t + 1) % n = 0
    BY <1>3
  <2> QED BY <2>3, <2>4 DEF t
<1> QED BY <1>1, <1>2, <1>3

\* The sizes of the counter.
LEMMA CounterSizes ==
    /\ CounterWord \in Nat /\ CounterWord > 1
    /\ Counters \in Nat /\ Counters > CounterWord /\ StreamMax \in Nat /\ StreamMax < Counters
    /\ StreamBlock \in Nat /\ StreamBlock > 0
<1>1. CounterWord \in Nat /\ CounterWord > 1 /\ StreamBlock \in Nat /\ StreamBlock > 0
      /\ StreamMax \in Nat /\ StreamMax < Counters
  BY ChachaAssumption DEF Counters
<1>2. Counters \in Nat /\ Counters >= 2 * CounterWord
  BY <1>1 DEF Counters
<1> QED BY <1>1, <1>2

\* A counter is cut into its two words in one way.
LEMMA WordsOfCounter ==
    ASSUME NEW v \in 0 .. Counters - 1
    PROVE  /\ v % CounterWord \in 0 .. CounterWord - 1
           /\ v \div CounterWord \in 0 .. CounterWord - 1
           /\ v = (v \div CounterWord) * CounterWord + (v % CounterWord)
<1>1. CounterWord \in Nat /\ CounterWord > 1 /\ Counters \in Nat
  BY CounterSizes
<1> DEFINE d == v \div CounterWord
           m == v % CounterWord
<1>2. v = d * CounterWord + m /\ m \in 0 .. CounterWord - 1 /\ d \in Nat
  BY <1>1
<1> HIDE DEF d, m
<1>3. ASSUME d >= CounterWord PROVE FALSE
  <2>1. d * CounterWord >= CounterWord * CounterWord
    BY <1>1, <1>2, <1>3
  <2>2. d * CounterWord \in Nat
    BY <1>1, <1>2
  <2> QED BY <1>1, <1>2, <2>1, <2>2 DEF Counters
<1> QED BY <1>1, <1>2, <1>3 DEF d, m

LEMMA WordsAtTyped ==
    ASSUME NEW s \in Nat, NEW b \in Nat
    PROVE  /\ (s + b) % Counters \in 0 .. Counters - 1
           /\ WordsAt(s, b) \in (0 .. CounterWord - 1) \X (0 .. CounterWord - 1)
           /\ ValueOf(WordsAt(s, b)) = (s + b) % Counters
<1> DEFINE v == (s + b) % Counters
<1>1. v \in 0 .. Counters - 1
  <2>1. Counters \in Nat /\ Counters > 0 /\ s + b \in Nat
    BY CounterSizes
  <2> HIDE DEF Counters
  <2> QED BY <2>1
<1>2. WordsAt(s, b) = <<v % CounterWord, v \div CounterWord>>
  BY DEF WordsAt
<1> HIDE DEF v
<1>3. /\ v % CounterWord \in 0 .. CounterWord - 1
      /\ v \div CounterWord \in 0 .. CounterWord - 1
      /\ v = (v \div CounterWord) * CounterWord + (v % CounterWord)
  BY <1>1, WordsOfCounter
<1>4. ValueOf(WordsAt(s, b)) = v
  <2> DEFINE d == v \div CounterWord
             m == v % CounterWord
  <2>1. ValueOf(WordsAt(s, b)) = m + CounterWord * d
    BY <1>2 DEF ValueOf
  <2>2. d \in Nat /\ m \in Nat /\ v = d * CounterWord + m /\ CounterWord \in Nat
    BY <1>3, CounterSizes
  <2> HIDE DEF d, m
  <2> QED BY <2>1, <2>2
<1> QED BY <1>1, <1>2, <1>3, <1>4 DEF v

\* Fewer blocks apart than there are counters, the words differ.
LEMMA WordsDiffer ==
    ASSUME NEW s \in Nat, NEW b \in Nat, NEW e \in Nat, b < e, e < b + Counters
    PROVE  WordsAt(s, b) # WordsAt(s, e)
<1>1. SUFFICES ASSUME (s + b) % Counters = (s + e) % Counters PROVE FALSE
  BY WordsAtTyped
<1> DEFINE n == Counters
           x == (s + b) \div n
           y == (s + e) \div n
           m == (s + b) % n
<1>2. n \in Nat /\ n > 0
  BY CounterSizes
<1> HIDE DEF n
<1>3. s + b = x * n + m /\ s + e = y * n + m /\ x \in Int /\ y \in Int /\ m \in Int
  BY <1>1, <1>2 DEF n
<1> HIDE DEF x, y, m
<1> DEFINE z == y - x
<1>4. z \in Int /\ z * n = e - b
  <2>1. z * n = y * n - x * n
    BY <1>2, <1>3
  <2> QED BY <1>2, <1>3, <2>1
<1> HIDE DEF z
<1>5. e - b > 0 /\ e - b < n
  BY <1>2 DEF n
<1>6. CASE z >= 1
  <2>1. z * n >= n
    BY <1>2, <1>4, <1>6
  <2> QED BY <1>2, <1>4, <1>5, <2>1
<1>7. CASE z <= 0
  <2>1. z * n <= 0
    BY <1>2, <1>4, <1>7
  <2> QED BY <1>2, <1>4, <1>5, <2>1
<1> QED BY <1>4, <1>6, <1>7

\* "ctx->input[12]++; if (!ctx->input[12]) ctx->input[13]++": the next counter.
LEMMA NextIsNext ==
    ASSUME NEW s \in Nat, NEW b \in Nat
    PROVE  NextWords(WordsAt(s, b)) = WordsAt(s, b + 1)
<1> DEFINE n == Counters
           w == CounterWord
           v == (s + b) % n
           d == v \div w
           m == v % w
           u == (s + (b + 1)) % n
<1>1. w \in Nat /\ w > 1 /\ n \in Nat /\ n > w
  BY CounterSizes
<1>2. n = w * w
  BY DEF Counters
<1>3. WordsAt(s, b) = <<m, d>> /\ WordsAt(s, b + 1) = <<u % w, u \div w>>
  BY DEF WordsAt
<1>4. v \in 0 .. n - 1 /\ m \in 0 .. w - 1 /\ d \in 0 .. w - 1 /\ v = d * w + m
  BY WordsAtTyped, WordsOfCounter
<1> HIDE DEF n, w
<1>5. u = (v + 1) % n
  <2>1. s + b \in Nat /\ s + (b + 1) = (s + b) + 1
    OBVIOUS
  <2> DEFINE a == s + b
  <2>2. a \in Nat /\ s + (b + 1) = a + 1
    BY <2>1
  <2> HIDE DEF a
  <2>3. (a + 1) % n = ((a % n) + 1) % n
    <3>1. n \in Nat /\ n > 1
      BY <1>1
    <3> QED BY <2>2, <3>1, RemainderOfNext
  <2> QED BY <2>2, <2>3 DEF a
<1> HIDE DEF v, u
<1> HIDE DEF d, m
<1>6. NextWords(<<m, d>>) =
        <<(m + 1) % w, IF (m + 1) % w = 0 THEN (d + 1) % w ELSE d>>
  BY DEF NextWords, w
<1>7. \A q \in 0 .. w - 1, t \in 0 .. w - 1 :
         (q * w + t) \div w = q /\ (q * w + t) % w = t
  BY <1>1, QuotientUnique
<1>8. CASE m < w - 1
  <2>1. v + 1 = d * w + (m + 1) /\ m + 1 \in 0 .. w - 1
    BY <1>1, <1>4, <1>8
  <2>2. u = v + 1
    <3>1. d * w <= (w - 1) * w
      BY <1>1, <1>4
    <3>2. (w - 1) * w = n - w
      BY <1>1, <1>2
    <3>3. d * w \in Int
      BY <1>1, <1>4
    <3>4. v + 1 \in Nat /\ v + 1 < n
      BY <1>1, <1>4, <2>1, <3>1, <3>2, <3>3
    <3> QED BY <1>1, <1>5, <3>4
  <2>3. u % w = m + 1 /\ u \div w = d
    BY <1>4, <1>7, <2>1, <2>2
  <2>4. (m + 1) % w = m + 1 /\ m + 1 # 0
    BY <1>1, <1>4, <2>1
  <2> QED BY <1>3, <1>6, <2>3, <2>4
<1>9. CASE m = w - 1 /\ d < w - 1
  <2>1. v + 1 = (d + 1) * w + 0 /\ d + 1 \in 0 .. w - 1
    BY <1>1, <1>4, <1>9
  <2>2. u = v + 1
    <3>1. (d + 1) * w <= (w - 1) * w
      BY <1>1, <1>4, <1>9
    <3>2. (w - 1) * w = n - w
      BY <1>1, <1>2
    <3>3. (d + 1) * w \in Int
      BY <1>1, <1>4
    <3>4. v + 1 \in Nat /\ v + 1 < n
      BY <1>1, <1>4, <2>1, <3>1, <3>2, <3>3
    <3> QED BY <1>1, <1>5, <3>4
  <2>3. u % w = 0 /\ u \div w = d + 1
    BY <1>1, <1>4, <1>7, <2>1, <2>2
  <2>4. (m + 1) % w = 0 /\ (d + 1) % w = d + 1
    BY <1>1, <1>4, <1>9, <2>1
  <2> QED BY <1>3, <1>6, <2>3, <2>4
<1>10. CASE m = w - 1 /\ d = w - 1
  <2>1. v + 1 = n
    <3>1. (w - 1) * w = n - w
      BY <1>1, <1>2
    <3> QED BY <1>1, <1>4, <1>10, <3>1
  <2>2. u = 0
    BY <1>1, <1>5, <2>1
  <2>3. u % w = 0 /\ u \div w = 0
    BY <1>1, <2>2
  <2>4. (m + 1) % w = 0 /\ (d + 1) % w = 0
    BY <1>1, <1>10
  <2> QED BY <1>3, <1>6, <2>3, <2>4
<1> QED BY <1>1, <1>4, <1>8, <1>9, <1>10

----------------------------------------------------------------------------
(* Bytes of the key stream, from the counter s on                          *)

\* The key stream byte by byte.
LEMMA KeyStreamBytes ==
    ASSUME NEW s \in Nat, NEW n \in Nat
    PROVE  /\ KeyStream(s, n) \in Seq(StreamBytes) /\ Len(KeyStream(s, n)) = n
           /\ DOMAIN KeyStream(s, n) = 1 .. n
           /\ \A i \in 1 .. n : KeyStream(s, n)[i] =
                 <<WordsAt(s, (i - 1) \div StreamBlock), (i - 1) % StreamBlock>>
<1>1. \A i \in 1 .. n : KeyStream(s, n)[i] =
                 <<WordsAt(s, (i - 1) \div StreamBlock), (i - 1) % StreamBlock>>
  BY DEF KeyStream, WordsAt, Counters
<1>2. DOMAIN KeyStream(s, n) = 1 .. n
  BY DEF KeyStream
<1>3. \A i \in 1 .. n : KeyStream(s, n)[i] \in StreamBytes
  <2> SUFFICES ASSUME NEW i \in 1 .. n PROVE KeyStream(s, n)[i] \in StreamBytes
    OBVIOUS
  <2> DEFINE b == (i - 1) \div StreamBlock
             o == (i - 1) % StreamBlock
  <2>1. b \in Nat /\ o \in 0 .. StreamBlock - 1
    BY CounterSizes
  <2>2. KeyStream(s, n)[i] = <<WordsAt(s, b), o>>
    BY <1>1
  <2> HIDE DEF b, o
  <2>3. WordsAt(s, b) \in (0 .. CounterWord - 1) \X (0 .. CounterWord - 1)
    BY <2>1, WordsAtTyped
  <2> QED BY <2>1, <2>2, <2>3 DEF StreamBytes
<1>4. KeyStream(s, n) \in [1 .. n -> StreamBytes]
  BY <1>3 DEF KeyStream
<1> QED BY <1>1, <1>2, <1>4

\* A block of it.
LEMMA BlockTyped ==
    ASSUME NEW w \in (0 .. CounterWord - 1) \X (0 .. CounterWord - 1),
           NEW n \in Nat, n <= StreamBlock
    PROVE  /\ BlockBytes(w, n) \in Seq(StreamBytes) /\ Len(BlockBytes(w, n)) = n
           /\ \A i \in 1 .. n : BlockBytes(w, n)[i] = <<w, i - 1>>
<1>1. \A i \in 1 .. n : <<w, i - 1>> \in StreamBytes
  BY CounterSizes DEF StreamBytes
<1>2. BlockBytes(w, n) \in [1 .. n -> StreamBytes]
  BY <1>1 DEF BlockBytes
<1>3. \A i \in 1 .. n : BlockBytes(w, n)[i] = <<w, i - 1>>
  BY DEF BlockBytes
<1> QED BY <1>2, <1>3

\* What is used is from the first B blocks, no byte of it twice.
UsedOf(u, s, B) ==
    /\ \A i \in 1 .. Len(u) : \E b \in 0 .. B - 1 : u[i][1] = WordsAt(s, b)
    /\ \A i, j \in 1 .. Len(u) : u[i] = u[j] => i = j

\* The bytes of one more block are new.
LEMMA BlockIsNew ==
    ASSUME NEW s \in Nat, NEW B \in Nat, B < Counters, NEW u \in Seq(StreamBytes),
           UsedOf(u, s, B), NEW n \in Nat, n <= StreamBlock
    PROVE  UsedOf(u \o BlockBytes(WordsAt(s, B), n), s, B + 1)
<1> DEFINE w == WordsAt(s, B)
           t == BlockBytes(w, n)
           v == u \o t
<1>1. t \in Seq(StreamBytes) /\ Len(t) = n /\ \A i \in 1 .. n : t[i] = <<w, i - 1>>
  BY WordsAtTyped, BlockTyped
<1> HIDE DEF w, t
<1>2. /\ Len(v) = Len(u) + n
      /\ \A i \in 1 .. Len(u) + n : v[i] = IF i <= Len(u) THEN u[i] ELSE t[i - Len(u)]
  BY <1>1, ConcatProperties
<1>3. Len(u) \in Nat /\ \A i \in 1 .. Len(u) : v[i] = u[i]
  BY <1>2
<1>4. \A i \in 1 .. Len(v) : i \notin 1 .. Len(u) =>
          v[i] = <<w, i - Len(u) - 1>>
  BY <1>1, <1>2, <1>3
<1> HIDE DEF v
<1>5. \A b \in 0 .. B - 1 : WordsAt(s, b) # w
  <2> SUFFICES ASSUME NEW b \in 0 .. B - 1 PROVE WordsAt(s, b) # w
    OBVIOUS
  <2>1. b \in Nat /\ b < B /\ B < b + Counters /\ Counters \in Nat
    BY CounterSizes
  <2> QED BY <2>1, WordsDiffer DEF w
<1>6. \A i \in 1 .. Len(u) : \E b \in 0 .. B - 1 : v[i][1] = WordsAt(s, b)
  BY <1>3 DEF UsedOf
<1>7. \A i \in 1 .. Len(v) : i \notin 1 .. Len(u) => v[i][1] = w
  BY <1>4
<1>8. ASSUME NEW i \in 1 .. Len(v) PROVE \E b \in 0 .. (B + 1) - 1 : v[i][1] = WordsAt(s, b)
  <2>1. CASE i \in 1 .. Len(u)
    BY <1>6, <2>1
  <2>2. CASE i \notin 1 .. Len(u)
    <3>1. v[i][1] = WordsAt(s, B) /\ B \in 0 .. (B + 1) - 1
      BY <1>7, <2>2 DEF w
    <3> QED BY <3>1
  <2> QED BY <2>1, <2>2
<1>9. ASSUME NEW i \in 1 .. Len(v), NEW j \in 1 .. Len(v), v[i] = v[j] PROVE i = j
  <2>1. CASE i \in 1 .. Len(u) /\ j \in 1 .. Len(u)
    BY <1>3, <1>9, <2>1 DEF UsedOf
  <2>2. CASE i \notin 1 .. Len(u) /\ j \notin 1 .. Len(u)
    <3>1. i - Len(u) - 1 = j - Len(u) - 1
      BY <1>4, <1>9, <2>2
    <3> QED BY <3>1
  <2>3. CASE i \in 1 .. Len(u) /\ j \notin 1 .. Len(u)
    BY <1>5, <1>6, <1>7, <1>9, <2>3
  <2>4. CASE i \notin 1 .. Len(u) /\ j \in 1 .. Len(u)
    BY <1>5, <1>6, <1>7, <1>9, <2>4
  <2> QED BY <2>1, <2>2, <2>3, <2>4
<1> QED BY <1>8, <1>9 DEF UsedOf, v, t, w

\* After B whole blocks the next bytes are those of block B.
LEMMA StreamGoesOn ==
    ASSUME NEW s \in Nat, NEW B \in Nat, NEW n \in Nat, n <= StreamBlock
    PROVE  KeyStream(s, B * StreamBlock) \o BlockBytes(WordsAt(s, B), n)
             = KeyStream(s, B * StreamBlock + n)
<1> DEFINE k == B * StreamBlock
           u == KeyStream(s, k)
           t == BlockBytes(WordsAt(s, B), n)
           v == KeyStream(s, k + n)
<1>1. k \in Nat /\ StreamBlock \in Nat \ {0}
  <2>1. StreamBlock \in Nat \ {0}
    BY CounterSizes
  <2> QED BY <2>1
<1>2. t \in Seq(StreamBytes) /\ Len(t) = n /\ \A i \in 1 .. n : t[i] = <<WordsAt(s, B), i - 1>>
  BY WordsAtTyped, BlockTyped
<1> DEFINE byte(i) == <<WordsAt(s, (i - 1) \div StreamBlock), (i - 1) % StreamBlock>>
<1>3. /\ u \in Seq(StreamBytes) /\ Len(u) = k /\ \A i \in 1 .. k : u[i] = byte(i)
      /\ v \in Seq(StreamBytes) /\ Len(v) = k + n /\ \A i \in 1 .. k + n : v[i] = byte(i)
  <2> HIDE DEF k
  <2>1. k + n \in Nat
    BY <1>1
  <2> QED BY <1>1, <2>1, KeyStreamBytes
<1>4. \A j \in 1 .. n : byte(k + j) = <<WordsAt(s, B), j - 1>>
  <2> SUFFICES ASSUME NEW j \in 1 .. n PROVE byte(k + j) = <<WordsAt(s, B), j - 1>>
    OBVIOUS
  <2>1. (k + j) - 1 = B * StreamBlock + (j - 1) /\ j - 1 \in Nat /\ j - 1 < StreamBlock
    BY <1>1
  <2>2. ((k + j) - 1) \div StreamBlock = B /\ ((k + j) - 1) % StreamBlock = j - 1
    BY <1>1, <2>1, QuotientUnique
  <2> QED BY <2>2
<1> HIDE DEF u, t, v, byte, k
<1>5. /\ u \o t \in Seq(StreamBytes) /\ Len(u \o t) = k + n
      /\ \A i \in 1 .. k + n : (u \o t)[i] = IF i <= k THEN u[i] ELSE t[i - k]
  BY <1>2, <1>3, ConcatProperties
<1>6. \A i \in 1 .. k + n : (u \o t)[i] = v[i]
  <2> SUFFICES ASSUME NEW i \in 1 .. k + n PROVE (u \o t)[i] = v[i]
    OBVIOUS
  <2>1. CASE i \in 1 .. k
    BY <1>3, <1>5, <2>1
  <2>2. CASE i \notin 1 .. k
    <3>1. PICK j \in 1 .. n : i = k + j
      <4>1. i - k \in 1 .. n /\ i = k + (i - k)
        BY <1>1, <2>2
      <4> QED BY <4>1
    <3>2. (u \o t)[i] = t[j]
      BY <1>1, <1>5, <2>2, <3>1
    <3> QED BY <1>1, <1>2, <1>3, <1>4, <3>1, <3>2
  <2> QED BY <2>1, <2>2
<1>7. u \o t = v
  BY <1>3, <1>5, <1>6
<1> QED BY <1>7 DEF u, t, v, k

\* No bytes more are no change.
LEMMA NothingMore ==
    ASSUME NEW u \in Seq(StreamBytes),
           NEW w \in (0 .. CounterWord - 1) \X (0 .. CounterWord - 1)
    PROVE  u \o BlockBytes(w, 0) = u
<1> DEFINE t == BlockBytes(w, 0)
<1>1. t \in Seq(StreamBytes) /\ Len(t) = 0
  BY CounterSizes, BlockTyped
<1> HIDE DEF t
<1>2. /\ u \o t \in Seq(StreamBytes) /\ Len(u \o t) = Len(u) + 0
      /\ \A i \in 1 .. Len(u) + 0 : (u \o t)[i] = IF i <= Len(u) THEN u[i] ELSE t[i - Len(u)]
  BY <1>1, ConcatProperties
<1>3. Len(u \o t) = Len(u) /\ \A i \in 1 .. Len(u) : (u \o t)[i] = u[i]
  BY <1>2
<1>4. u \o t = u
  BY <1>2, <1>3
<1> QED BY <1>4 DEF t

\* What is appended leaves the bytes before it where they are.
LEMMA Appended ==
    ASSUME NEW u \in Seq(StreamBytes),
           NEW w \in (0 .. CounterWord - 1) \X (0 .. CounterWord - 1),
           NEW n \in Nat, n <= StreamBlock
    PROVE  /\ u \o BlockBytes(w, n) \in Seq(StreamBytes)
           /\ Len(u \o BlockBytes(w, n)) = Len(u) + n
           /\ \A i \in 1 .. Len(u) : (u \o BlockBytes(w, n))[i] = u[i]
           /\ n > 0 => (u \o BlockBytes(w, n))[Len(u) + 1] = <<w, 0>>
<1> DEFINE t == BlockBytes(w, n)
           v == u \o t
<1>1. t \in Seq(StreamBytes) /\ Len(t) = n /\ \A i \in 1 .. n : t[i] = <<w, i - 1>>
  BY BlockTyped
<1> HIDE DEF t
<1>3. /\ v \in Seq(StreamBytes) /\ Len(v) = Len(u) + n
      /\ \A i \in 1 .. Len(u) + n : v[i] = IF i <= Len(u) THEN u[i] ELSE t[i - Len(u)]
  <2>1. /\ u \o t \in Seq(StreamBytes) /\ Len(u \o t) = Len(u) + Len(t)
        /\ \A i \in 1 .. Len(u) + Len(t) :
              (u \o t)[i] = IF i <= Len(u) THEN u[i] ELSE t[i - Len(u)]
    BY <1>1, ConcatProperties
  <2> QED BY <1>1, <2>1
<1>4. n > 0 => v[Len(u) + 1] = t[1]
  BY <1>3
<1> HIDE DEF v
<1>5. /\ v \in Seq(StreamBytes) /\ Len(v) = Len(u) + n
      /\ \A i \in 1 .. Len(u) : v[i] = u[i]
      /\ n > 0 => v[Len(u) + 1] = <<w, 0>>
  BY <1>1, <1>3, <1>4
<1> QED BY <1>5 DEF v, t

\* A length that is a multiple of the block, framed by one, is that one.
LEMMA WholeBlocks ==
    ASSUME NEW len \in Nat, NEW B \in Nat, len % StreamBlock = 0,
           len <= B * StreamBlock, B * StreamBlock < len + StreamBlock
    PROVE  len = B * StreamBlock
<1> DEFINE p == StreamBlock
           q == len \div p
<1>1. p \in Nat \ {0}
  BY CounterSizes
<1> HIDE DEF p
<1>2. q \in Int /\ len = q * p
  BY <1>1 DEF p
<1> HIDE DEF q
<1> DEFINE z == B - q
<1>3. z \in Int /\ z * p = B * p - q * p
  BY <1>1, <1>2
<1> HIDE DEF z
<1>4. z * p >= 0 /\ z * p < p
  BY <1>1, <1>2, <1>3 DEF p
<1>5. CASE z >= 1
  <2>1. z * p >= p
    BY <1>1, <1>3, <1>5
  <2> QED BY <1>1, <1>3, <1>4, <2>1
<1>6. CASE z <= -1
  <2>1. z * p <= -p
    BY <1>1, <1>3, <1>6
  <2> QED BY <1>1, <1>3, <1>4, <2>1
<1>7. CASE z = 0
  BY <1>1, <1>2, <1>3, <1>7 DEF p
<1> QED BY <1>3, <1>5, <1>6, <1>7

\* The counter of the IETF variant, as long as its low word does not wrap.
LEMMA IetfWords ==
    ASSUME NEW s \in 0 .. Counters - 1, NEW B \in Nat,
           (s % CounterWord) + B < CounterWord
    PROVE  /\ (s + B) % Counters = s + B
           /\ WordsAt(s, B) = <<(s % CounterWord) + B, s \div CounterWord>>
<1> DEFINE w == CounterWord
           n == Counters
           d == s \div w
           m == s % w
<1>1. w \in Nat \ {0} /\ n \in Nat /\ n = w * w
  BY CounterSizes DEF Counters
<1>2. m \in 0 .. w - 1 /\ d \in 0 .. w - 1 /\ s = d * w + m /\ m + B < w
  BY WordsOfCounter
<1>3. WordsAt(s, B) = <<((s + B) % n) % w, ((s + B) % n) \div w>>
  BY DEF WordsAt
<1> HIDE DEF w, n
<1> HIDE DEF d, m
<1>4. s + B = d * w + (m + B) /\ m + B \in Nat
  BY <1>1, <1>2
<1>5. s + B \in Nat /\ s + B < n
  <2>1. d * w <= (w - 1) * w
    BY <1>1, <1>2
  <2>2. (w - 1) * w = n - w /\ d * w \in Int
    BY <1>1, <1>2
  <2> QED BY <1>1, <1>2, <1>4, <2>1, <2>2
<1>6. (s + B) % n = s + B
  BY <1>1, <1>5
<1>7. (d * w + (m + B)) \div w = d /\ (d * w + (m + B)) % w = m + B
  <2>1. d \in Nat /\ m + B \in Nat /\ m + B < w
    BY <1>1, <1>2
  <2> QED BY <1>1, <2>1, QuotientUnique
<1>8. (s + B) \div w = d /\ (s + B) % w = m + B
  BY <1>4, <1>7
<1> QED BY <1>3, <1>6, <1>8 DEF n, d, m, w

----------------------------------------------------------------------------
(* The invariant of the counter: the calls are B blocks after the first    *)
(* counter, and what was used is of the blocks before.                     *)
Position(B) ==
    /\ ietf => (start % CounterWord) + B < CounterWord
    /\ IF running THEN words = WordsAt(start, B)
       ELSE ctr = IF ietf THEN (start % CounterWord) + B ELSE (start + B) % Counters
    /\ B <= Len(used)
    /\ UsedOf(used, start, B)
    /\ whole => /\ used = KeyStream(start, Len(used))
                /\ Len(used) <= B * StreamBlock
                /\ IF running THEN Len(used) = B * StreamBlock
                   ELSE B * StreamBlock < Len(used) + StreamBlock

ChachaInv ==
    /\ used \in Seq(StreamBytes)
    /\ ChachaTypeOK
    /\ WithinCounter => \E B \in Nat : Position(B)

LEMMA ChachaInitOK == ChachaInit => ChachaInv
<1> SUFFICES ASSUME ChachaInit PROVE ChachaInv
  OBVIOUS
<1>1. words = <<0, 0>> /\ rest = 0 /\ running = FALSE /\ used = <<>> /\ whole = TRUE
  BY DEF ChachaInit
<1>2. CounterWord \in Nat /\ CounterWord > 1 /\ Counters \in Nat /\ Counters > CounterWord
      /\ StreamBlock \in Nat /\ StreamBlock > 0 /\ StreamMax \in Nat
  BY CounterSizes
<1>3. used \in Seq(StreamBytes) /\ Len(used) = 0
  BY <1>1
<1>4. /\ ietf \in BOOLEAN /\ start \in 0 .. Counters - 1
      /\ ctr = IF ietf THEN start % CounterWord ELSE start
  <2>1. CASE ietf = FALSE /\ start \in Starts /\ ctr = start
    BY <2>1, ChachaAssumption DEF Counters
  <2>2. CASE /\ ietf = TRUE
             /\ \E word \in NonceWords, counter \in 0 .. CounterWord - 1 :
                  start = counter + CounterWord * word /\ ctr = counter
    <3>1. PICK word \in NonceWords, counter \in 0 .. CounterWord - 1 :
                  start = counter + CounterWord * word /\ ctr = counter
      BY <2>2
    <3>2. word \in 0 .. CounterWord - 1
      BY ChachaAssumption
    <3>3. start = word * CounterWord + counter /\ word * CounterWord \in Nat
      BY <1>2, <3>1, <3>2
    <3>4. start % CounterWord = counter
      <4>1. CounterWord \in Nat \ {0} /\ word \in Nat /\ counter \in Nat /\ counter < CounterWord
        BY <1>2, <3>2
      <4>2. (word * CounterWord + counter) % CounterWord = counter
        BY <4>1, QuotientUnique
      <4> QED BY <3>3, <4>2
    <3>5. start \in 0 .. Counters - 1
      <4>1. word * CounterWord <= (CounterWord - 1) * CounterWord
        BY <1>2, <3>2
      <4>2. (CounterWord - 1) * CounterWord = Counters - CounterWord
        BY <1>2 DEF Counters
      <4> QED BY <1>2, <3>3, <4>1, <4>2
    <3> QED BY <2>2, <3>1, <3>4, <3>5
  <2> QED BY <2>1, <2>2 DEF ChachaInit
<1>5. start % CounterWord \in 0 .. CounterWord - 1 /\ start % Counters = start
  <2> DEFINE n == Counters
  <2>1. n \in Nat /\ start \in 0 .. n - 1
    BY <1>2, <1>4
  <2> HIDE DEF n
  <2>2. start % n = start
    BY <2>1
  <2>3. start % CounterWord \in 0 .. CounterWord - 1
    BY <1>2, <2>1
  <2> QED BY <2>2, <2>3 DEF n
<1>6. ChachaTypeOK
  <2>1. ctr \in 0 .. (IF ietf THEN CounterWord ELSE Counters) - 1
    BY <1>2, <1>4, <1>5
  <2>2. words \in (0 .. CounterWord - 1) \X (0 .. CounterWord - 1)
    BY <1>1, <1>2
  <2>3. rest \in Nat /\ Len(used) + rest <= StreamMax
    BY <1>1, <1>2, <1>3
  <2>4. running \in BOOLEAN /\ whole \in BOOLEAN
    BY <1>1
  <2> QED BY <1>4, <2>1, <2>2, <2>3, <2>4 DEF ChachaTypeOK, Counters
<1>7. Position(0)
  <2>1. ietf => (start % CounterWord) + 0 < CounterWord
    BY <1>2, <1>5
  <2>2. ctr = IF ietf THEN (start % CounterWord) + 0 ELSE (start + 0) % Counters
    BY <1>2, <1>4, <1>5
  <2>3. UsedOf(used, start, 0)
    BY <1>3 DEF UsedOf
  <2>4. used = KeyStream(start, Len(used))
    <3>1. KeyStream(start, 0) \in Seq(StreamBytes) /\ Len(KeyStream(start, 0)) = 0
      <4>1. start \in Nat /\ 0 \in Nat
        BY <1>2, <1>4
      <4> QED BY <4>1, KeyStreamBytes
    <3>2. KeyStream(start, 0) = <<>>
      BY <3>1
    <3> QED BY <1>1, <1>3, <3>2
  <2>5. 0 * StreamBlock = 0
    BY <1>2
  <2> QED BY <1>1, <1>2, <1>3, <2>1, <2>2, <2>3, <2>4, <2>5 DEF Position
<1> QED BY <1>3, <1>6, <1>7 DEF ChachaInv

\* A call takes up the counter where the one before left it.
LEMMA CallKeeps ==
    ASSUME ChachaInv, NEW n \in 1 .. StreamMax, ChachaCall(n)
    PROVE  ChachaInv'
<1>1. /\ ~running /\ Len(used) + n <= StreamMax /\ words' = FirstWords(ctr) /\ rest' = n
      /\ running' = TRUE /\ whole' = (whole /\ Len(used) % StreamBlock = 0)
      /\ ietf' = ietf /\ start' = start /\ ctr' = ctr /\ used' = used
  BY DEF ChachaCall
<1>2. CounterWord \in Nat /\ CounterWord > 1 /\ Counters \in Nat /\ Counters > CounterWord
      /\ StreamBlock \in Nat /\ StreamBlock > 0 /\ StreamMax \in Nat
  BY CounterSizes
<1>3. /\ used \in Seq(StreamBytes) /\ start \in 0 .. Counters - 1 /\ ietf \in BOOLEAN
      /\ ctr \in 0 .. (IF ietf THEN CounterWord ELSE Counters) - 1 /\ whole \in BOOLEAN
  BY DEF ChachaInv, ChachaTypeOK, Counters
<1>4. words' \in (0 .. CounterWord - 1) \X (0 .. CounterWord - 1)
  <2>1. CASE ietf
    <3>1. start \div CounterWord \in 0 .. CounterWord - 1
      BY <1>3, WordsOfCounter
    <3> QED BY <1>1, <1>3, <2>1, <3>1 DEF FirstWords
  <2>2. CASE ~ietf
    <3>1. ctr % CounterWord \in 0 .. CounterWord - 1 /\ ctr \div CounterWord \in 0 .. CounterWord - 1
      BY <1>3, <2>2, WordsOfCounter
    <3> QED BY <1>1, <2>2, <3>1 DEF FirstWords
  <2> QED BY <2>1, <2>2
<1>5. ChachaTypeOK'
  <2>1. running' \in BOOLEAN /\ whole' \in BOOLEAN /\ ietf' \in BOOLEAN
    BY <1>1, <1>3
  <2>2. start' \in 0 .. Counters - 1 /\ ctr' \in 0 .. (IF ietf' THEN CounterWord ELSE Counters) - 1
    BY <1>1, <1>3
  <2>3. rest' \in Nat /\ Len(used') + rest' <= StreamMax
    BY <1>1, <1>2
  <2> QED BY <1>4, <2>1, <2>2, <2>3 DEF ChachaTypeOK, Counters
<1>6. ASSUME WithinCounter' PROVE \E B \in Nat : Position(B)'
  <2>1. WithinCounter
    BY <1>1, <1>6 DEF WithinCounter
  <2>2. PICK B \in Nat : Position(B)
    BY <2>1 DEF ChachaInv
  <2>3. ietf => (start % CounterWord) + B < CounterWord
    BY <2>2 DEF Position
  <2>4. ctr = IF ietf THEN (start % CounterWord) + B ELSE (start + B) % Counters
    BY <1>1, <2>2 DEF Position
  <2>5. words' = WordsAt(start, B)
    <3>1. CASE ietf
      BY <1>1, <1>3, <2>3, <2>4, <3>1, IetfWords DEF FirstWords
    <3>2. CASE ~ietf
      BY <1>1, <2>4, <3>2 DEF FirstWords, WordsAt
    <3> QED BY <3>1, <3>2
  <2>6. B <= Len(used) /\ UsedOf(used, start, B)
    BY <2>2 DEF Position
  <2>7. ASSUME whole' PROVE used = KeyStream(start, Len(used)) /\ Len(used) = B * StreamBlock
    <3>1. whole /\ Len(used) % StreamBlock = 0
      BY <1>1, <2>7
    <3>2. used = KeyStream(start, Len(used)) /\ Len(used) <= B * StreamBlock
          /\ B * StreamBlock < Len(used) + StreamBlock
      BY <1>1, <2>2, <3>1 DEF Position
    <3>3. Len(used) \in Nat
      BY <1>3
    <3> QED BY <3>1, <3>2, <3>3, WholeBlocks
  <2>8. B * StreamBlock \in Int
    BY <1>2
  <2>9. /\ ietf' => (start' % CounterWord) + B < CounterWord
        /\ words' = WordsAt(start', B) /\ B <= Len(used') /\ UsedOf(used', start', B)
    BY <1>1, <2>3, <2>5, <2>6
  <2>10. whole' => used' = KeyStream(start', Len(used')) /\ Len(used') = B * StreamBlock
    BY <1>1, <2>7
  <2>11. whole' => /\ used' = KeyStream(start', Len(used'))
                   /\ Len(used') <= B * StreamBlock
                   /\ IF running' THEN Len(used') = B * StreamBlock
                      ELSE B * StreamBlock < Len(used') + StreamBlock
    BY <1>1, <2>8, <2>10
  <2>12. Position(B)'
    BY <1>1, <2>9, <2>11 DEF Position
  <2> QED BY <2>12
<1> QED BY <1>1, <1>3, <1>5, <1>6 DEF ChachaInv

\* What was within the counter before a step.
LEMMA StillWithin ==
    ASSUME NEW u \in Seq(StreamBytes), used = u, NEW v \in Seq(StreamBytes), used' = v,
           ietf' = ietf, Len(u) <= Len(v), \A i \in 1 .. Len(u) : v[i] = u[i],
           WithinCounter'
    PROVE  WithinCounter
<1>1. DOMAIN used = 1 .. Len(u) /\ DOMAIN used' = 1 .. Len(v)
  OBVIOUS
<1>2. ietf => \A i \in 1 .. Len(v) : v[i][1][1] # CounterWord - 1
  BY <1>1 DEF WithinCounter
<1>3. ietf => \A i \in 1 .. Len(u) : u[i][1][1] # CounterWord - 1
  BY <1>2
<1> QED BY <1>1, <1>3 DEF WithinCounter

\* The words after a use of the block before: the IETF counter has not come
\* to its last value.
LEMMA OneMoreWithin ==
    ASSUME NEW s \in 0 .. Counters - 1, start = s, ietf' = ietf, NEW B \in Nat,
           ietf => (s % CounterWord) + B < CounterWord,
           NEW v \in Seq(StreamBytes), used' = v, NEW k \in 1 .. Len(v),
           v[k][1] = WordsAt(s, B), WithinCounter'
    PROVE  ietf => (s % CounterWord) + (B + 1) < CounterWord
<1> SUFFICES ASSUME ietf PROVE (s % CounterWord) + (B + 1) < CounterWord
  OBVIOUS
<1>1. WordsAt(s, B)[1] = (s % CounterWord) + B
  BY IetfWords
<1>2. v[k][1][1] # CounterWord - 1
  <2>1. k \in DOMAIN used'
    OBVIOUS
  <2> QED BY <2>1 DEF WithinCounter
<1>3. s % CounterWord \in Nat /\ CounterWord \in Nat
  BY CounterSizes
<1> QED BY <1>1, <1>2, <1>3

\* A whole block is used and the counter goes up.
LEMMA BlockKeeps == ASSUME ChachaInv, ChachaBlock PROVE ChachaInv'
<1>1. /\ running /\ rest >= StreamBlock /\ used' = used \o BlockBytes(words, StreamBlock)
      /\ words' = NextWords(words) /\ rest' = rest - StreamBlock
      /\ ietf' = ietf /\ start' = start /\ ctr' = ctr /\ running' = running /\ whole' = whole
  BY DEF ChachaBlock
<1>2. CounterWord \in Nat /\ CounterWord > 1 /\ Counters \in Nat /\ Counters > CounterWord
      /\ StreamBlock \in Nat /\ StreamBlock > 0 /\ StreamMax \in Nat /\ StreamMax < Counters
  BY CounterSizes
<1>3. /\ used \in Seq(StreamBytes) /\ start \in 0 .. Counters - 1 /\ ietf \in BOOLEAN
      /\ ctr \in 0 .. (IF ietf THEN CounterWord ELSE Counters) - 1 /\ whole \in BOOLEAN
      /\ words \in (0 .. CounterWord - 1) \X (0 .. CounterWord - 1)
      /\ running \in BOOLEAN /\ rest \in Nat /\ Len(used) + rest <= StreamMax
  BY DEF ChachaInv, ChachaTypeOK, Counters
<1>4. PICK v : v = used'
  OBVIOUS
<1>5. /\ v \in Seq(StreamBytes) /\ Len(v) = Len(used) + StreamBlock
      /\ \A i \in 1 .. Len(used) : v[i] = used[i]
      /\ v[Len(used) + 1] = <<words, 0>>
  <2> DEFINE t == used \o BlockBytes(words, StreamBlock)
  <2>1. StreamBlock <= StreamBlock
    BY <1>2
  <2>2. /\ t \in Seq(StreamBytes) /\ Len(t) = Len(used) + StreamBlock
        /\ \A i \in 1 .. Len(used) : t[i] = used[i]
        /\ StreamBlock > 0 => t[Len(used) + 1] = <<words, 0>>
    BY <1>2, <1>3, <2>1, Appended
  <2>3. v = t
    BY <1>1, <1>4
  <2> HIDE DEF t
  <2> QED BY <1>2, <2>2, <2>3
<1>6. ChachaTypeOK'
  <2>1. words' \in (0 .. CounterWord - 1) \X (0 .. CounterWord - 1)
    <3> DEFINE up(x) == (x + 1) % CounterWord
    <3>1. \A x \in 0 .. CounterWord - 1 : up(x) \in 0 .. CounterWord - 1
      BY <1>2
    <3>2. words' = <<up(words[1]), IF up(words[1]) = 0 THEN up(words[2]) ELSE words[2]>>
      BY <1>1 DEF NextWords
    <3> HIDE DEF up
    <3> QED BY <1>3, <3>1, <3>2
  <2>2. rest' \in Nat /\ Len(used') + rest' <= StreamMax
    BY <1>1, <1>2, <1>3, <1>4, <1>5
  <2>3. /\ start' \in 0 .. Counters - 1
        /\ ctr' \in 0 .. (IF ietf' THEN CounterWord ELSE Counters) - 1
        /\ running' \in BOOLEAN /\ whole' \in BOOLEAN /\ ietf' \in BOOLEAN
    BY <1>1, <1>3
  <2> QED BY <2>1, <2>2, <2>3 DEF ChachaTypeOK, Counters
<1>7. ASSUME WithinCounter' PROVE \E B \in Nat : Position(B)'
  <2>1. WithinCounter
    <3>1. Len(used) <= Len(v)
      BY <1>2, <1>3, <1>5
    <3> QED BY <1>1, <1>3, <1>4, <1>5, <1>7, <3>1, StillWithin
  <2>2. PICK B \in Nat : Position(B)
    BY <2>1 DEF ChachaInv
  <2>3. /\ ietf => (start % CounterWord) + B < CounterWord
        /\ words = WordsAt(start, B) /\ B <= Len(used) /\ UsedOf(used, start, B)
        /\ whole => used = KeyStream(start, Len(used)) /\ Len(used) = B * StreamBlock
    BY <1>1, <2>2 DEF Position
  <2>4. B < Counters /\ B + 1 <= Len(v) /\ start \in Nat /\ B + 1 \in Nat
    <3>1. B <= Len(used) /\ Len(used) \in Nat
      BY <1>3, <2>3
    <3> QED BY <1>2, <1>3, <1>5, <3>1
  <2>5. UsedOf(v, start, B + 1)
    <3>1. v = used \o BlockBytes(WordsAt(start, B), StreamBlock)
      BY <1>1, <1>4, <2>3
    <3>2. StreamBlock <= StreamBlock
      BY <1>2
    <3> QED BY <1>2, <1>3, <2>3, <2>4, <3>1, <3>2, BlockIsNew
  <2>6. ietf => (start % CounterWord) + (B + 1) < CounterWord
    <3> DEFINE k == Len(used) + 1
    <3>1. k \in 1 .. Len(v)
      BY <1>2, <1>3, <1>5
    <3>2. v[k][1] = WordsAt(start, B)
      BY <1>5, <2>3
    <3> HIDE DEF k
    <3> QED BY <1>1, <1>3, <1>4, <1>5, <1>7, <2>3, <3>1, <3>2, OneMoreWithin
  <2>7. words' = WordsAt(start, B + 1)
    BY <1>1, <2>3, <2>4, NextIsNext
  <2>8. (B + 1) * StreamBlock = B * StreamBlock + StreamBlock /\ B * StreamBlock \in Nat
    BY <1>2
  <2>9. ASSUME whole PROVE v = KeyStream(start, Len(v)) /\ Len(v) = (B + 1) * StreamBlock
    <3>1. used = KeyStream(start, B * StreamBlock) /\ Len(used) = B * StreamBlock
      BY <2>3, <2>9
    <3>2. KeyStream(start, B * StreamBlock) \o BlockBytes(WordsAt(start, B), StreamBlock)
             = KeyStream(start, B * StreamBlock + StreamBlock)
      <4>1. StreamBlock <= StreamBlock
        BY <1>2
      <4> QED BY <1>2, <2>4, <4>1, StreamGoesOn
    <3>3. Len(v) = B * StreamBlock + StreamBlock
      BY <1>5, <3>1
    <3>4. v = KeyStream(start, B * StreamBlock) \o BlockBytes(WordsAt(start, B), StreamBlock)
      BY <1>1, <1>4, <2>3, <3>1
    <3> QED BY <2>8, <3>2, <3>3, <3>4
  <2>10. /\ ietf' => (start' % CounterWord) + (B + 1) < CounterWord
         /\ words' = WordsAt(start', B + 1) /\ B + 1 <= Len(used')
         /\ UsedOf(used', start', B + 1)
    BY <1>1, <1>4, <2>4, <2>5, <2>6, <2>7
  <2>11. whole' => used' = KeyStream(start', Len(used')) /\ Len(used') = (B + 1) * StreamBlock
    BY <1>1, <1>4, <2>9
  <2>12. (B + 1) * StreamBlock \in Int
    BY <1>2, <2>8
  <2>13. whole' => /\ used' = KeyStream(start', Len(used'))
                   /\ Len(used') <= (B + 1) * StreamBlock
                   /\ IF running' THEN Len(used') = (B + 1) * StreamBlock
                      ELSE (B + 1) * StreamBlock < Len(used') + StreamBlock
    BY <1>1, <2>11, <2>12
  <2>14. Position(B + 1)'
    BY <1>1, <2>10, <2>13 DEF Position
  <2> QED BY <2>4, <2>14
<1> QED BY <1>4, <1>5, <1>6, <1>7 DEF ChachaInv

\* What a call returns, e blocks on: the counter of the block after the last.
LEMMA ReturnedCounter ==
    ASSUME NEW s \in 0 .. Counters - 1, NEW B \in Nat, NEW e \in {0, 1},
           ietf \in BOOLEAN, ietf => (s % CounterWord) + (B + e) < CounterWord
    PROVE  Returned(ValueOf(WordsAt(s, B)) + e)
             = IF ietf THEN (s % CounterWord) + (B + e) ELSE (s + (B + e)) % Counters
<1> DEFINE n == Counters
           w == CounterWord
<1>1. n \in Nat /\ n > 1 /\ w \in Nat \ {0} /\ n = w * w
  BY CounterSizes DEF Counters
<1>2. s \in Nat /\ s + B \in Nat
  BY CounterSizes
<1>3. ValueOf(WordsAt(s, B)) = (s + B) % n
  BY <1>2, WordsAtTyped
<1>4. CASE ~ietf
  <2>1. Returned(ValueOf(WordsAt(s, B)) + e) = (((s + B) % n) + e) % n
    BY <1>3, <1>4 DEF Returned, Counters
  <2> DEFINE a == s + B
  <2>2. a \in Nat /\ s + (B + e) = a + e
    BY <1>2
  <2> HIDE DEF n, a
  <2>3. ((a % n) + e) % n = (a + e) % n
    <3>1. CASE e = 0
      BY <1>1, <2>2, <3>1
    <3>2. CASE e = 1
      <4>1. (a + 1) % n = ((a % n) + 1) % n
        BY <1>1, <2>2, RemainderOfNext
      <4> QED BY <3>2, <4>1
    <3> QED BY <3>1, <3>2
  <2> QED BY <1>4, <2>1, <2>2, <2>3 DEF n, a
<1>5. CASE ietf
  <2>1. Returned(ValueOf(WordsAt(s, B)) + e) = (((s + B) % n) + e) % w
    BY <1>3, <1>5 DEF Returned
  <2>2. (s + B) % n = s + B
    <3>1. (s % CounterWord) + B < CounterWord
      BY <1>2, <1>5, CounterSizes
    <3> QED BY <3>1, IetfWords
  <2> DEFINE d == s \div w
             m == s % w
  <2>3. m \in Nat /\ d \in Nat /\ s = d * w + m
    BY WordsOfCounter
  <2> HIDE DEF n, d, m
  <2>4. m + (B + e) \in Nat /\ m + (B + e) < w /\ (s + B) + e = d * w + (m + (B + e))
    <3>1. m + (B + e) < w
      BY <1>5 DEF m
    <3>2. d * w \in Nat
      BY <1>1, <2>3
    <3> QED BY <1>1, <1>2, <2>3, <3>1, <3>2
  <2>5. (d * w + (m + (B + e))) % w = m + (B + e)
    BY <1>1, <2>3, <2>4, QuotientUnique
  <2> QED BY <1>5, <2>1, <2>2, <2>4, <2>5 DEF m
<1> QED BY <1>4, <1>5

\* The last bytes are used, and an incomplete block counts as one.
LEMMA ReturnsKeeps == ASSUME ChachaInv, ChachaReturns PROVE ChachaInv'
<1> DEFINE e == IF rest > 0 THEN 1 ELSE 0
<1>1. /\ running /\ rest < StreamBlock /\ used' = used \o BlockBytes(words, rest)
      /\ ctr' = Returned(ValueOf(words) + e)
      /\ rest' = 0 /\ words' = <<0, 0>> /\ running' = FALSE
      /\ ietf' = ietf /\ start' = start /\ whole' = whole
  BY DEF ChachaReturns, After
<1>2. CounterWord \in Nat /\ CounterWord > 1 /\ Counters \in Nat /\ Counters > CounterWord
      /\ StreamBlock \in Nat /\ StreamBlock > 0 /\ StreamMax \in Nat /\ StreamMax < Counters
  BY CounterSizes
<1>3. /\ used \in Seq(StreamBytes) /\ start \in 0 .. Counters - 1 /\ ietf \in BOOLEAN
      /\ whole \in BOOLEAN /\ words \in (0 .. CounterWord - 1) \X (0 .. CounterWord - 1)
      /\ rest \in Nat /\ Len(used) + rest <= StreamMax
  BY DEF ChachaInv, ChachaTypeOK, Counters
<1>4. e \in {0, 1} /\ e <= rest
  BY <1>3
<1>5. PICK v : v = used'
  OBVIOUS
<1>6. /\ v \in Seq(StreamBytes) /\ Len(v) = Len(used) + rest
      /\ \A i \in 1 .. Len(used) : v[i] = used[i]
      /\ rest > 0 => v[Len(used) + 1] = <<words, 0>>
  <2> DEFINE t == used \o BlockBytes(words, rest)
  <2>1. rest <= StreamBlock
    BY <1>1, <1>2, <1>3
  <2>2. /\ t \in Seq(StreamBytes) /\ Len(t) = Len(used) + rest
        /\ \A i \in 1 .. Len(used) : t[i] = used[i]
        /\ rest > 0 => t[Len(used) + 1] = <<words, 0>>
    BY <1>3, <2>1, Appended
  <2>3. v = t
    BY <1>1, <1>5
  <2> HIDE DEF t
  <2> QED BY <2>2, <2>3
<1>7. ChachaTypeOK'
  <2>1. ctr' \in 0 .. (IF ietf THEN CounterWord ELSE Counters) - 1
    <3> DEFINE x == ValueOf(words) + e
               n == IF ietf THEN CounterWord ELSE Counters
    <3>1. x \in Nat
      <4>1. words[1] \in Nat /\ words[2] \in Nat
        BY <1>3
      <4>2. CounterWord * words[2] \in Nat
        BY <1>2, <4>1
      <4> QED BY <1>4, <4>1, <4>2 DEF ValueOf
    <3>2. n \in Nat /\ n > 0
      BY <1>2
    <3>3. ctr' = x % n
      BY <1>1 DEF Returned, Counters
    <3> HIDE DEF x, n
    <3>4. ctr' \in 0 .. n - 1
      BY <3>1, <3>2, <3>3
    <3> QED BY <3>4 DEF n
  <2>2. words' \in (0 .. CounterWord - 1) \X (0 .. CounterWord - 1)
    BY <1>1, <1>2
  <2>3. rest' \in Nat /\ Len(used') + rest' <= StreamMax
    BY <1>1, <1>2, <1>3, <1>5, <1>6
  <2>4. running' \in BOOLEAN /\ whole' \in BOOLEAN /\ ietf' \in BOOLEAN
    BY <1>1, <1>3
  <2>5. start' \in 0 .. Counters - 1 /\ ctr' \in 0 .. (IF ietf' THEN CounterWord ELSE Counters) - 1
    BY <1>1, <1>3, <2>1
  <2> QED BY <2>2, <2>3, <2>4, <2>5 DEF ChachaTypeOK, Counters
<1>8. ASSUME WithinCounter' PROVE \E B \in Nat : Position(B)'
  <2>1. WithinCounter
    <3>1. Len(used) <= Len(v)
      BY <1>3, <1>6
    <3> QED BY <1>1, <1>3, <1>5, <1>6, <1>8, <3>1, StillWithin
  <2>2. PICK B \in Nat : Position(B)
    BY <2>1 DEF ChachaInv
  <2>3. /\ ietf => (start % CounterWord) + B < CounterWord
        /\ words = WordsAt(start, B) /\ B <= Len(used) /\ UsedOf(used, start, B)
        /\ whole => used = KeyStream(start, Len(used)) /\ Len(used) = B * StreamBlock
    BY <1>1, <2>2 DEF Position
  <2>4. B < Counters /\ B + e <= Len(v) /\ start \in Nat /\ B + e \in Nat
    <3>1. B <= Len(used) /\ Len(used) \in Nat
      BY <1>3, <2>3
    <3> QED BY <1>2, <1>3, <1>4, <1>6, <3>1
  <2>5. v = used \o BlockBytes(WordsAt(start, B), rest)
    BY <1>1, <1>5, <2>3
  <2>6. rest <= StreamBlock
    BY <1>1, <1>2, <1>3
  <2>7. UsedOf(v, start, B + e)
    <3>1. CASE rest > 0
      <4>1. UsedOf(v, start, B + 1)
        BY <1>3, <2>3, <2>4, <2>5, <2>6, BlockIsNew
      <4> QED BY <3>1, <4>1
    <3>2. CASE rest = 0
      <4>1. v = used
        BY <1>1, <1>3, <1>5, <3>2, NothingMore
      <4>2. B + e = B
        BY <3>2
      <4> QED BY <2>3, <4>1, <4>2
    <3> QED BY <1>3, <3>1, <3>2
  <2>8. ietf => (start % CounterWord) + (B + e) < CounterWord
    <3>1. CASE rest > 0
      <4> DEFINE k == Len(used) + 1
      <4>1. k \in 1 .. Len(v)
        BY <1>3, <1>6, <3>1
      <4>2. v[k][1] = WordsAt(start, B)
        BY <1>6, <2>3, <3>1
      <4> HIDE DEF k
      <4>3. ietf => (start % CounterWord) + (B + 1) < CounterWord
        BY <1>1, <1>3, <1>5, <1>6, <1>8, <2>3, <4>1, <4>2, OneMoreWithin
      <4> QED BY <3>1, <4>3
    <3>2. CASE rest = 0
      BY <2>3, <3>2
    <3> QED BY <1>3, <3>1, <3>2
  <2>9. ctr' = IF ietf THEN (start % CounterWord) + (B + e) ELSE (start + (B + e)) % Counters
    <3> HIDE DEF e
    <3>1. ctr' = Returned(ValueOf(WordsAt(start, B)) + e)
      BY <1>1, <2>3
    <3>2. Returned(ValueOf(WordsAt(start, B)) + e)
             = IF ietf THEN (start % CounterWord) + (B + e) ELSE (start + (B + e)) % Counters
      BY <1>3, <1>4, <2>8, ReturnedCounter
    <3> QED BY <3>1, <3>2
  <2>10. ASSUME whole PROVE /\ v = KeyStream(start, Len(v))
                            /\ Len(v) <= (B + e) * StreamBlock
                            /\ (B + e) * StreamBlock < Len(v) + StreamBlock
    <3>1. used = KeyStream(start, B * StreamBlock) /\ Len(used) = B * StreamBlock
      BY <2>3, <2>10
    <3>2. KeyStream(start, B * StreamBlock) \o BlockBytes(WordsAt(start, B), rest)
             = KeyStream(start, B * StreamBlock + rest)
      BY <1>3, <2>4, <2>6, StreamGoesOn
    <3>3. Len(v) = B * StreamBlock + rest
      BY <1>6, <3>1
    <3>4. v = KeyStream(start, Len(v))
      BY <2>5, <3>1, <3>2, <3>3
    <3>5. (B + e) * StreamBlock = B * StreamBlock + e * StreamBlock /\ B * StreamBlock \in Nat
      BY <1>2, <1>4
    <3>6. rest <= e * StreamBlock /\ e * StreamBlock < rest + StreamBlock
          /\ e * StreamBlock \in Nat
      <4>1. CASE rest > 0
        <5>1. e * StreamBlock = StreamBlock
          BY <1>2, <4>1
        <5> QED BY <1>1, <1>2, <1>3, <4>1, <5>1
      <4>2. CASE rest = 0
        <5>1. e * StreamBlock = 0
          BY <1>2, <4>2
        <5> QED BY <1>2, <4>2, <5>1
      <4> QED BY <1>3, <4>1, <4>2
    <3>7. /\ Len(v) <= (B + e) * StreamBlock
          /\ (B + e) * StreamBlock < Len(v) + StreamBlock
      <4> DEFINE x == B * StreamBlock
                 y == e * StreamBlock
      <4>1. x \in Nat /\ y \in Nat /\ rest <= y /\ y < rest + StreamBlock
            /\ Len(v) = x + rest /\ (B + e) * StreamBlock = x + y
        BY <3>3, <3>5, <3>6
      <4> HIDE DEF x, y
      <4> QED BY <1>2, <1>3, <4>1
    <3> QED BY <3>4, <3>7
  <2> HIDE DEF e
  <2>11. /\ ietf' => (start' % CounterWord) + (B + e) < CounterWord
         /\ ctr' = IF ietf' THEN (start' % CounterWord) + (B + e)
                            ELSE (start' + (B + e)) % Counters
         /\ B + e <= Len(used') /\ UsedOf(used', start', B + e)
    BY <1>1, <1>5, <2>4, <2>7, <2>8, <2>9
  <2>12. whole' => /\ used' = KeyStream(start', Len(used'))
                   /\ Len(used') <= (B + e) * StreamBlock
                   /\ IF running' THEN Len(used') = (B + e) * StreamBlock
                      ELSE (B + e) * StreamBlock < Len(used') + StreamBlock
    BY <1>1, <1>5, <2>10
  <2>13. PICK b \in Nat : b = B + e
    BY <2>4
  <2>14. Position(b)'
    BY <1>1, <2>11, <2>12, <2>13 DEF Position
  <2> QED BY <2>14
<1> QED BY <1>5, <1>6, <1>7, <1>8 DEF ChachaInv

LEMMA ChachaKeeps == ChachaInv /\ [ChachaNext]_chachaVars => ChachaInv'
<1> SUFFICES ASSUME ChachaInv, [ChachaNext]_chachaVars PROVE ChachaInv'
  OBVIOUS
<1>1. CASE \E n \in 1 .. StreamMax : ChachaCall(n)
  BY <1>1, CallKeeps
<1>2. CASE ChachaBlock
  BY <1>2, BlockKeeps
<1>3. CASE ChachaReturns
  BY <1>3, ReturnsKeeps
<1>4. CASE UNCHANGED chachaVars
  <2>1. UNCHANGED <<ietf, start, ctr, words, rest, running, used, whole>>
    BY <1>4 DEF chachaVars
  <2>2. used' \in Seq(StreamBytes) /\ ChachaTypeOK'
    BY <2>1 DEF ChachaInv, ChachaTypeOK
  <2>3. ASSUME WithinCounter' PROVE \E B \in Nat : Position(B)'
    <3>1. WithinCounter
      BY <2>1, <2>3 DEF WithinCounter
    <3>2. PICK B \in Nat : Position(B)
      BY <3>1 DEF ChachaInv
    <3>3. Position(B)'
      BY <2>1, <3>2 DEF Position
    <3> QED BY <3>3
  <2> QED BY <2>2, <2>3 DEF ChachaInv
<1> QED BY <1>1, <1>2, <1>3, <1>4 DEF ChachaNext

----------------------------------------------------------------------------
\* The words of the input block and the counter keep their widths over any
\* number of calls.
THEOREM ChachaTyped == ChachaSpec => []ChachaTypeOK
<1>1. ChachaInv => ChachaTypeOK
  BY DEF ChachaInv
<1> QED BY <1>1, ChachaInitOK, ChachaKeeps, PTL DEF ChachaSpec

\* In whatever pieces a text is given, no byte of the key stream encrypts two
\* of its bytes: a call that ends within a block does not come back to it.
THEOREM UsedOnce == ChachaSpec => []KeystreamUsedOnce
<1>1. ChachaInv => KeystreamUsedOnce
  <2> SUFFICES ASSUME ChachaInv, WithinCounter, NEW i \in DOMAIN used, NEW j \in DOMAIN used,
                      used[i] = used[j]
               PROVE  i = j
    BY DEF KeystreamUsedOnce
  <2>1. PICK B \in Nat : Position(B)
    BY DEF ChachaInv
  <2>2. i \in 1 .. Len(used) /\ j \in 1 .. Len(used)
    BY DEF ChachaInv
  <2> QED BY <2>1, <2>2 DEF Position, UsedOf
<1> QED BY <1>1, ChachaInitOK, ChachaKeeps, PTL DEF ChachaSpec

\* Pieces of whole blocks are encrypted as the text in one call, with the
\* carry from input[12] to input[13] wherever it falls.
THEOREM PiecesAsOne == ChachaSpec => []PiecesAreWhole
<1>1. ChachaInv => PiecesAreWhole
  <2> SUFFICES ASSUME ChachaInv, whole, WithinCounter PROVE used = KeyStream(start, Len(used))
    BY DEF PiecesAreWhole
  <2>1. PICK B \in Nat : Position(B)
    BY DEF ChachaInv
  <2> QED BY <2>1 DEF Position
<1> QED BY <1>1, ChachaInitOK, ChachaKeeps, PTL DEF ChachaSpec

----------------------------------------------------------------------------
(* What the mac covers determines the key, the data and the text.          *)

\* Two strings with ends of one length: both halves are the same.
LEMMA SameHalves ==
    ASSUME NEW a \in Seq(Bit), NEW b \in Seq(Bit), NEW c \in Seq(Bit), NEW d \in Seq(Bit),
           Len(b) = Len(d), a \o b = c \o d
    PROVE  a = c /\ b = d
<1> DEFINE x == a \o b
           y == c \o d
<1>1. /\ Len(x) = Len(a) + Len(b)
      /\ \A i \in 1 .. Len(a) + Len(b) : x[i] = IF i <= Len(a) THEN a[i] ELSE b[i - Len(a)]
  BY ConcatProperties
<1>2. /\ Len(y) = Len(c) + Len(d)
      /\ \A i \in 1 .. Len(c) + Len(d) : y[i] = IF i <= Len(c) THEN c[i] ELSE d[i - Len(c)]
  BY ConcatProperties
<1>3. x = y
  OBVIOUS
<1> HIDE DEF x, y
<1>4. Len(a) \in Nat /\ Len(b) \in Nat /\ Len(c) \in Nat /\ Len(d) \in Nat
  OBVIOUS
<1>5. Len(a) = Len(c)
  BY <1>1, <1>2, <1>3, <1>4
<1>6. \A i \in 1 .. Len(a) : a[i] = c[i]
  BY <1>1, <1>2, <1>3, <1>4, <1>5
<1>7. \A i \in 1 .. Len(b) : b[i] = d[i]
  <2> SUFFICES ASSUME NEW i \in 1 .. Len(b) PROVE b[i] = d[i]
    OBVIOUS
  <2> DEFINE k == Len(a) + i
  <2>1. k \in 1 .. Len(a) + Len(b) /\ ~(k <= Len(a)) /\ k - Len(a) = i
    BY <1>4
  <2> HIDE DEF k
  <2>2. x[k] = b[i] /\ y[k] = d[i]
    BY <1>1, <1>2, <1>5, <2>1
  <2> QED BY <1>3, <2>2
<1>8. a = c
  BY <1>5, <1>6, SeqEqual
<1>9. b = d
  BY <1>7, SeqEqual
<1> QED BY <1>8, <1>9

\* store32_le is undone by reading the bits back.
LEMMA StoredSize ==
    ASSUME NEW n \in 0 .. 15
    PROVE  /\ Store32(n) \in Seq(Bit) /\ Len(Store32(n)) = 4
           /\ n = Store32(n)[1] + 2 * Store32(n)[2] + 4 * Store32(n)[3] + 8 * Store32(n)[4]
<1>1. n % 2 \in Bit /\ (n \div 2) % 2 \in Bit /\ (n \div 4) % 2 \in Bit /\ (n \div 8) % 2 \in Bit
  BY DEF Bit
<1>2. n = (n % 2) + 2 * ((n \div 2) % 2) + 4 * ((n \div 4) % 2) + 8 * ((n \div 8) % 2)
  OBVIOUS
<1> QED BY <1>1, <1>2 DEF Store32

LEMMA SizesDiffer ==
    ASSUME NEW n \in 0 .. 255, NEW m \in 0 .. 255
    PROVE  /\ SizeOf(n) \in Seq(Bit) /\ Len(SizeOf(n)) = 8
           /\ SizeOf(n) = SizeOf(m) => n = m
<1> DEFINE l(x) == Store32(x % 16)
           h(x) == Store32(x \div 16)
<1>1. \A x \in 0 .. 255 : x % 16 \in 0 .. 15 /\ x \div 16 \in 0 .. 15
                          /\ x = (x % 16) + 16 * (x \div 16)
  OBVIOUS
<1>2. \A x \in 0 .. 255 : /\ l(x) \in Seq(Bit) /\ Len(l(x)) = 4
                          /\ h(x) \in Seq(Bit) /\ Len(h(x)) = 4
  BY <1>1, StoredSize
<1>3. \A x \in 0 .. 255 : SizeOf(x) \in Seq(Bit) /\ Len(SizeOf(x)) = 8
  <2> SUFFICES ASSUME NEW x \in 0 .. 255 PROVE SizeOf(x) \in Seq(Bit) /\ Len(SizeOf(x)) = 8
    OBVIOUS
  <2>1. SizeOf(x) = l(x) \o h(x)
    BY DEF SizeOf
  <2>2. l(x) \in Seq(Bit) /\ Len(l(x)) = 4 /\ h(x) \in Seq(Bit) /\ Len(h(x)) = 4
    BY <1>2
  <2> HIDE DEF l, h
  <2>3. l(x) \o h(x) \in Seq(Bit) /\ Len(l(x) \o h(x)) = Len(l(x)) + Len(h(x))
    BY <2>2, ConcatProperties
  <2> QED BY <2>1, <2>2, <2>3
<1>4. ASSUME SizeOf(n) = SizeOf(m) PROVE n = m
  <2>1. l(n) = l(m) /\ h(n) = h(m)
    <3>1. PICK ln, hn, lm, hm : ln = l(n) /\ hn = h(n) /\ lm = l(m) /\ hm = h(m)
      OBVIOUS
    <3>2. /\ ln \in Seq(Bit) /\ hn \in Seq(Bit) /\ lm \in Seq(Bit) /\ hm \in Seq(Bit)
          /\ Len(hn) = Len(hm)
      BY <1>2, <3>1
    <3>3. ln \o hn = lm \o hm
      BY <1>4, <3>1 DEF SizeOf
    <3>4. ln = lm /\ hn = hm
      BY <3>2, <3>3, SameHalves, Zenon
    <3> QED BY <3>1, <3>4
  <2>2. \A x, y \in 0 .. 15 : Store32(x) = Store32(y) => x = y
    <3> SUFFICES ASSUME NEW x \in 0 .. 15, NEW y \in 0 .. 15, Store32(x) = Store32(y)
                 PROVE  x = y
      OBVIOUS
    <3> DEFINE value(q) == q[1] + 2 * q[2] + 4 * q[3] + 8 * q[4]
    <3>1. x = value(Store32(x)) /\ y = value(Store32(y))
      BY StoredSize
    <3> HIDE DEF value
    <3> QED BY <3>1
  <2>3. n % 16 = m % 16 /\ n \div 16 = m \div 16
    BY <1>1, <2>1, <2>2
  <2> QED BY <1>1, <2>3
<1> QED BY <1>3, <1>4

LEMMA StringsTyped ==
    ASSUME NEW s \in Strings
    PROVE  s \in Seq(Bit) /\ Len(s) \in 0 .. TextMax /\ Len(s) \in 0 .. 255
           /\ s \in [1 .. Len(s) -> Bit]
<1>1. PICK n \in 0 .. TextMax : s \in [1 .. n -> Bit]
  BY DEF Strings
<1>2. TextMax \in 0 .. 255
  BY AeadAssumption
<1>3. s \in Seq(Bit) /\ Len(s) = n
  BY <1>1, <1>2
<1> QED BY <1>1, <1>2, <1>3

LEMMA PadTyped ==
    ASSUME NEW n \in Nat
    PROVE  ZeroPad(n) \in Seq(Bit)
<1>1. (-n) % 16 \in Nat
  OBVIOUS
<1>2. ZeroPad(n) \in [1 .. (-n) % 16 -> Bit]
  BY DEF ZeroPad, Bit
<1> QED BY <1>1, <1>2

\* The sizes at the end tell where the additional data and the text are: no
\* two pairs give Poly1305 the same bytes.
LEMMA AuthenticatedInjective ==
    ASSUME NEW a \in Strings, NEW c \in Strings, NEW b \in Strings, NEW d \in Strings,
           Authenticated(a, c) = Authenticated(b, d)
    PROVE  a = b /\ c = d
<1> DEFINE P(s) == ZeroPad(Len(s))
           Z(s) == SizeOf(Len(s))
           X1(s, t) == s \o P(s)
           X2(s, t) == X1(s, t) \o t
           X3(s, t) == X2(s, t) \o P(t)
           X4(s, t) == X3(s, t) \o Z(s)
           X5(s, t) == X4(s, t) \o Z(t)
<1>1. Authenticated(a, c) = X5(a, c) /\ Authenticated(b, d) = X5(b, d)
  BY DEF Authenticated
<1>2. \A s \in Strings : /\ s \in Seq(Bit) /\ Len(s) \in 0 .. 255
                         /\ P(s) \in Seq(Bit) /\ Z(s) \in Seq(Bit) /\ Len(Z(s)) = 8
  <2> SUFFICES ASSUME NEW s \in Strings
               PROVE  /\ s \in Seq(Bit) /\ Len(s) \in 0 .. 255
                      /\ P(s) \in Seq(Bit) /\ Z(s) \in Seq(Bit) /\ Len(Z(s)) = 8
    OBVIOUS
  <2>1. s \in Seq(Bit) /\ Len(s) \in 0 .. 255 /\ Len(s) \in Nat
    BY StringsTyped
  <2> QED BY <2>1, PadTyped, SizesDiffer
<1>3. \A s, t \in Strings : Z(s) = Z(t) => Len(s) = Len(t)
  BY StringsTyped, SizesDiffer
<1>4. \A s, t \in Strings : Len(s) = Len(t) => P(s) = P(t)
  OBVIOUS
<1> HIDE DEF P, Z
<1>5. ASSUME NEW u \in Seq(Bit), NEW v \in Seq(Bit) PROVE u \o v \in Seq(Bit)
  BY ConcatProperties
<1>6. \A s, t \in Strings : X1(s, t) \in Seq(Bit)
  BY <1>2, <1>5
<1> HIDE DEF X1
<1>7. \A s, t \in Strings : X2(s, t) \in Seq(Bit)
  BY <1>2, <1>5, <1>6
<1> HIDE DEF X2
<1>8. \A s, t \in Strings : X3(s, t) \in Seq(Bit)
  BY <1>2, <1>5, <1>7
<1> HIDE DEF X3
<1>9. \A s, t \in Strings : X4(s, t) \in Seq(Bit)
  BY <1>2, <1>5, <1>8
<1> HIDE DEF X4
<1>10. X4(a, c) = X4(b, d) /\ Z(c) = Z(d)
  <2>1. X4(a, c) \o Z(c) = X4(b, d) \o Z(d)
    BY <1>1
  <2>2. /\ X4(a, c) \in Seq(Bit) /\ X4(b, d) \in Seq(Bit)
        /\ Z(c) \in Seq(Bit) /\ Z(d) \in Seq(Bit) /\ Len(Z(c)) = Len(Z(d))
    BY <1>2, <1>9
  <2> QED BY <2>1, <2>2, SameHalves, Zenon
<1>11. X3(a, c) = X3(b, d) /\ Z(a) = Z(b)
  <2>1. X3(a, c) \o Z(a) = X3(b, d) \o Z(b)
    BY <1>10 DEF X4
  <2>2. /\ X3(a, c) \in Seq(Bit) /\ X3(b, d) \in Seq(Bit)
        /\ Z(a) \in Seq(Bit) /\ Z(b) \in Seq(Bit) /\ Len(Z(a)) = Len(Z(b))
    BY <1>2, <1>8
  <2> QED BY <2>1, <2>2, SameHalves, Zenon
<1>12. Len(a) = Len(b) /\ Len(c) = Len(d) /\ P(a) = P(b) /\ P(c) = P(d)
  BY <1>3, <1>4, <1>10, <1>11
<1>13. X2(a, c) = X2(b, d)
  <2>1. X2(a, c) \o P(c) = X2(b, d) \o P(d) /\ Len(P(c)) = Len(P(d))
    BY <1>11, <1>12 DEF X3
  <2>2. /\ X2(a, c) \in Seq(Bit) /\ X2(b, d) \in Seq(Bit)
        /\ P(c) \in Seq(Bit) /\ P(d) \in Seq(Bit)
    BY <1>2, <1>7
  <2> QED BY <2>1, <2>2, SameHalves, Zenon
<1>14. X1(a, c) = X1(b, d) /\ c = d
  <2>1. X1(a, c) \o c = X1(b, d) \o d
    BY <1>13 DEF X2
  <2>2. /\ X1(a, c) \in Seq(Bit) /\ X1(b, d) \in Seq(Bit)
        /\ c \in Seq(Bit) /\ d \in Seq(Bit) /\ Len(c) = Len(d)
    BY <1>2, <1>6, <1>12
  <2> QED BY <2>1, <2>2, SameHalves, Zenon
<1>15. a = b
  <2>1. a \o P(a) = b \o P(b) /\ Len(P(a)) = Len(P(b))
    BY <1>12, <1>14 DEF X1
  <2> QED BY <1>2, <2>1, SameHalves
<1> QED BY <1>14, <1>15

\* One-time keys of two sub keys are never the same bytes.
LEMMA MacOpens ==
    ASSUME NEW k, NEW q, NEW a \in Strings, NEW c \in Strings, NEW b \in Strings,
           NEW d \in Strings, Mac(k, a, c) = Mac(q, b, d)
    PROVE  k = q /\ a = b /\ c = d
<1>1. AuthKey(k) = AuthKey(q) /\ Authenticated(a, c) = Authenticated(b, d)
  BY DEF Mac
<1>2. 1 \in 1 .. MacKeyBytes
  BY AeadAssumption
<1>3. AuthKey(k)[1][1] = k /\ AuthKey(q)[1][1] = q
  BY <1>2 DEF AuthKey
<1> QED BY <1>1, <1>3, AuthenticatedInjective

\* The key stream added twice is gone.
LEMMA CryptTwice ==
    ASSUME NEW k \in SubKeys, NEW s \in Strings
    PROVE  Crypt(k, s) \in Strings /\ Crypt(k, Crypt(k, s)) = s
<1> DEFINE n == Len(s)
           key(i) == KeyByte(k, TextStream(n)[i])
           x == Crypt(k, s)
<1>1. n \in 0 .. TextMax /\ s \in [1 .. n -> Bit] /\ n \in Nat
  BY StringsTyped
<1>2. \A i \in 1 .. n : key(i) \in Bit
  <2> SUFFICES ASSUME NEW i \in 1 .. n PROVE key(i) \in Bit
    OBVIOUS
  <2> HIDE DEF n
  <2>1. KeyStream(1, n) \in Seq(StreamBytes) /\ Len(KeyStream(1, n)) = n
    BY <1>1, KeyStreamBytes
  <2>2. TextStream(n)[i] \in StreamBytes
    BY <1>1, <2>1 DEF TextStream
  <2> QED BY <2>2, AeadAssumption
<1>3. x = [i \in 1 .. n |-> Xor(s[i], key(i))]
  BY DEF Crypt
<1> HIDE DEF n, key
<1>4. \A a, b \in Bit : Xor(a, b) \in Bit /\ Xor(Xor(a, b), b) = a
  BY DEF Bit, Xor
<1>5. x \in [1 .. n -> Bit] /\ \A i \in 1 .. n : x[i] = Xor(s[i], key(i))
  BY <1>1, <1>2, <1>3, <1>4
<1> HIDE DEF x
<1>6. Len(x) = n
  BY <1>1, <1>5
<1>7. Crypt(k, x) = [i \in 1 .. n |-> Xor(x[i], key(i))]
  BY <1>6 DEF Crypt, key
<1>8. \A i \in 1 .. n : Xor(x[i], key(i)) = s[i]
  BY <1>1, <1>2, <1>4, <1>5
<1>9. Crypt(k, x) = s
  BY <1>1, <1>7, <1>8
<1>10. x \in Strings
  BY <1>1, <1>5 DEF Strings
<1> QED BY <1>9, <1>10 DEF x

----------------------------------------------------------------------------
(* The invariant: what was locked was made as crypto_lock_aead makes it,   *)
(* and what is spent belongs to a sub key that is locked.                  *)
AsLocked(m) ==
    /\ m.key \in SubKeys /\ m.ad \in Strings /\ m.text \in Strings
    /\ m.cipher = Crypt(m.key, m.text) /\ m.mac = Mac(m.key, m.ad, m.cipher)

Answer(k, mac, ad, cipher) ==
    IF mac = Mac(k, ad, cipher)
    THEN [key |-> k, mac |-> mac, ad |-> ad, cipher |-> cipher,
          result |-> 0, text |-> Crypt(k, cipher)]
    ELSE [key |-> k, mac |-> mac, ad |-> ad, cipher |-> cipher,
          result |-> -1, text |-> <<>>]

AeadInv ==
    /\ \A m \in locked : AsLocked(m)
    /\ spent \in Seq(SubKeys \X StreamBytes)
    /\ \A i \in 1 .. Len(spent) : \E m \in locked : spent[i][1] = m.key
    /\ \A i, j \in 1 .. Len(spent) : spent[i] = spent[j] => i = j
    /\ opened # NotOpened =>
         \E m \in locked, k \in SubKeys, ad \in Strings, cipher \in Strings :
            opened = Answer(k, m.mac, ad, cipher)

\* A text fits in the blocks after the first, which makes the one-time key.
LEMMA SpentTyped ==
    ASSUME NEW k \in SubKeys, NEW n \in 0 .. TextMax
    PROVE  /\ SpentBytes(k, n) \in Seq(SubKeys \X StreamBytes)
           /\ Len(SpentBytes(k, n)) = MacKeyBytes + n
           /\ \A i \in 1 .. MacKeyBytes + n : SpentBytes(k, n)[i][1] = k
           /\ \A i, j \in 1 .. MacKeyBytes + n :
                SpentBytes(k, n)[i] = SpentBytes(k, n)[j] => i = j
<1> DEFINE x == SpentBytes(k, n)
           M == MacKeyBytes
           a(i) == KeyStream(0, StreamBlock)[i]
           b(i) == KeyStream(1, n)[i]
           q(i) == (i - 1) \div StreamBlock
           o(i) == (i - 1) % StreamBlock
<1>1. /\ M \in Nat /\ M >= 1 /\ M <= StreamBlock /\ StreamBlock \in Nat \ {0}
      /\ n \in Nat /\ n < Counters /\ Counters \in Nat
  BY AeadAssumption, CounterSizes DEF Counters
<1>2. /\ \A i \in 1 .. StreamBlock : a(i) = <<WordsAt(0, q(i)), o(i)>> /\ a(i) \in StreamBytes
      /\ \A i \in 1 .. n : b(i) = <<WordsAt(1, q(i)), o(i)>> /\ b(i) \in StreamBytes
  <2>1. /\ \A i \in 1 .. StreamBlock : a(i) = <<WordsAt(0, q(i)), o(i)>>
        /\ KeyStream(0, StreamBlock) \in Seq(StreamBytes)
        /\ Len(KeyStream(0, StreamBlock)) = StreamBlock
    BY <1>1, KeyStreamBytes
  <2>2. /\ \A i \in 1 .. n : b(i) = <<WordsAt(1, q(i)), o(i)>>
        /\ KeyStream(1, n) \in Seq(StreamBytes) /\ Len(KeyStream(1, n)) = n
    BY <1>1, KeyStreamBytes
  <2>3. \A i \in 1 .. StreamBlock : a(i) \in StreamBytes
    BY <2>1
  <2>4. \A i \in 1 .. n : b(i) \in StreamBytes
    BY <2>2
  <2> QED BY <2>1, <2>2, <2>3, <2>4
<1>3. x = [i \in 1 .. M + n |-> <<k, IF i <= M THEN a(i) ELSE b(i - M)>>]
  BY DEF SpentBytes, TextStream
<1>4. /\ \A i \in Nat \ {0} : q(i) \in Nat /\ o(i) \in 0 .. StreamBlock - 1
                              /\ i = q(i) * StreamBlock + o(i) + 1
      /\ \A i \in 1 .. n : q(i) < n
      /\ \A i \in 1 .. StreamBlock : q(i) = 0 /\ o(i) = i - 1
  <2> DEFINE p == StreamBlock
  <2>1. p \in Nat \ {0}
    BY <1>1
  <2>2. \A i \in Nat \ {0} : q(i) \in Nat /\ o(i) \in 0 .. p - 1 /\ i = q(i) * p + o(i) + 1
    <3> SUFFICES ASSUME NEW i \in Nat \ {0}
                 PROVE  q(i) \in Nat /\ o(i) \in 0 .. p - 1 /\ i = q(i) * p + o(i) + 1
      OBVIOUS
    <3> DEFINE y == i - 1
    <3>1. y \in Nat /\ i = y + 1
      OBVIOUS
    <3> HIDE DEF p, y
    <3>2. y \div p \in Nat /\ y % p \in 0 .. p - 1 /\ y = (y \div p) * p + (y % p)
      BY <2>1, <3>1
    <3> QED BY <3>1, <3>2 DEF p, y
  <2>3. ASSUME NEW i \in 1 .. n PROVE q(i) < n
    <3>1. q(i) \in Nat /\ o(i) \in Nat /\ i = q(i) * p + o(i) + 1
      BY <1>1, <2>2
    <3> HIDE DEF q, o, p
    <3>2. q(i) * 1 <= q(i) * p /\ q(i) * p \in Nat
      BY <2>1, <3>1
    <3> QED BY <1>1, <3>1, <3>2
  <2>4. ASSUME NEW i \in 1 .. StreamBlock PROVE q(i) = 0 /\ o(i) = i - 1
    <3>1. i - 1 \in 0 .. p - 1
      BY <1>1
    <3> HIDE DEF p
    <3>2. (i - 1) \div p = 0 /\ (i - 1) % p = i - 1
      BY <2>1, <3>1
    <3> QED BY <3>2 DEF p
  <2> QED BY <2>2, <2>3, <2>4
<1>5. \A i, j \in 1 .. n : b(i) = b(j) => i = j
  <2> SUFFICES ASSUME NEW i \in 1 .. n, NEW j \in 1 .. n, b(i) = b(j) PROVE i = j
    OBVIOUS
  <2>1. o(i) = o(j) /\ WordsAt(1, q(i)) = WordsAt(1, q(j))
    BY <1>2
  <2>2. /\ q(i) \in Nat /\ o(i) \in Nat /\ i = q(i) * StreamBlock + o(i) + 1 /\ q(i) < n
        /\ q(j) \in Nat /\ o(j) \in Nat /\ j = q(j) * StreamBlock + o(j) + 1 /\ q(j) < n
    BY <1>1, <1>4
  <2> HIDE DEF q, o
  <2>3. ~(q(i) < q(j)) /\ ~(q(j) < q(i))
    <3>1. q(j) < q(i) + Counters /\ q(i) < q(j) + Counters
      BY <1>1, <2>2
    <3> QED BY <2>1, <2>2, <3>1, WordsDiffer
  <2>4. q(i) = q(j)
    BY <2>2, <2>3
  <2> QED BY <2>1, <2>2, <2>4
<1>6. \A i, j \in 1 .. StreamBlock : a(i) = a(j) => i = j
  BY <1>1, <1>2, <1>4
<1>7. \A i \in 1 .. StreamBlock, j \in 1 .. n : a(i) # b(j)
  <2> SUFFICES ASSUME NEW i \in 1 .. StreamBlock, NEW j \in 1 .. n, a(i) = b(j) PROVE FALSE
    OBVIOUS
  <2>1. WordsAt(0, 0) = WordsAt(1, q(j))
    BY <1>2, <1>4
  <2>2. q(j) \in Nat /\ q(j) < n
    BY <1>1, <1>4
  <2> HIDE DEF q
  <2>3. WordsAt(1, q(j)) = WordsAt(0, q(j) + 1)
    <3>1. 1 + q(j) = 0 + (q(j) + 1)
      BY <2>2
    <3> QED BY <3>1 DEF WordsAt
  <2>4. q(j) + 1 \in Nat /\ 0 < q(j) + 1 /\ q(j) + 1 < 0 + Counters
    BY <1>1, <2>2
  <2> QED BY <2>1, <2>3, <2>4, WordsDiffer
<1> HIDE DEF x, a, b, q, o, M
<1>8. /\ \A i \in 1 .. M + n : x[i] = <<k, IF i <= M THEN a(i) ELSE b(i - M)>>
      /\ DOMAIN x = 1 .. M + n /\ M + n \in Nat
  BY <1>1, <1>3
<1>9. \A i \in 1 .. M + n : IF i <= M THEN i \in 1 .. StreamBlock ELSE i - M \in 1 .. n
  BY <1>1
<1>10. \A i \in 1 .. M + n : x[i] \in SubKeys \X StreamBytes
  BY <1>2, <1>8, <1>9
<1>11. x \in Seq(SubKeys \X StreamBytes) /\ Len(x) = M + n
  <2>1. x \in [1 .. M + n -> SubKeys \X StreamBytes]
    BY <1>3, <1>8, <1>10
  <2> QED BY <1>8, <2>1
<1>12. \A i, j \in 1 .. M + n : x[i] = x[j] => i = j
  <2> SUFFICES ASSUME NEW i \in 1 .. M + n, NEW j \in 1 .. M + n, x[i] = x[j] PROVE i = j
    OBVIOUS
  <2> DEFINE at(t) == IF t <= M THEN a(t) ELSE b(t - M)
  <2>1. at(i) = at(j)
    BY <1>8
  <2>2. CASE i <= M /\ j <= M
    BY <1>6, <1>9, <2>1, <2>2
  <2>3. CASE ~(i <= M) /\ ~(j <= M)
    <3>1. i - M = j - M
      BY <1>5, <1>9, <2>1, <2>3
    <3> QED BY <1>1, <3>1
  <2>4. CASE i <= M /\ ~(j <= M)
    BY <1>7, <1>9, <2>1, <2>4
  <2>5. CASE ~(i <= M) /\ j <= M
    BY <1>7, <1>9, <2>1, <2>5
  <2> QED BY <2>2, <2>3, <2>4, <2>5
<1>13. \A i \in 1 .. M + n : x[i][1] = k
  BY <1>8
<1> QED BY <1>11, <1>12, <1>13 DEF x, M

LEMMA AeadInitOK == AeadInit => AeadInv
<1> SUFFICES ASSUME AeadInit PROVE AeadInv
  OBVIOUS
<1>1. locked = {} /\ opened = NotOpened /\ spent = <<>>
  BY DEF AeadInit
<1>2. spent \in Seq(SubKeys \X StreamBytes) /\ Len(spent) = 0
  BY <1>1
<1> QED BY <1>1, <1>2 DEF AeadInv

\* A sub key not locked before brings bytes of a stream not used before.
LEMMA LockKeeps ==
    ASSUME AeadInv, NEW k \in SubKeys, NEW msg \in Messages, Lock(k, msg[1], msg[2])
    PROVE  AeadInv'
<1> DEFINE ad == msg[1]
           plain == msg[2]
           box == [key |-> k, ad |-> ad, text |-> plain, cipher |-> Crypt(k, plain),
                   mac |-> Mac(k, ad, Crypt(k, plain))]
           n == Len(plain)
           more == SpentBytes(k, n)
<1>1. ad \in Strings /\ plain \in Strings
  BY AeadAssumption
<1>2. /\ \A m \in locked : m.key # k
      /\ locked' = locked \cup {box} /\ spent' = spent \o more /\ opened' = NotOpened
  BY DEF Lock
<1>3. AsLocked(box)
  BY <1>1 DEF AsLocked
<1>4. \A m \in locked' : AsLocked(m)
  BY <1>2, <1>3 DEF AeadInv
<1>5. box.key = k /\ box \in locked'
  BY <1>2
<1>6. n \in 0 .. TextMax
  BY <1>1, StringsTyped
<1> HIDE DEF box, n
<1>7. /\ more \in Seq(SubKeys \X StreamBytes) /\ Len(more) = MacKeyBytes + n
      /\ \A i \in 1 .. Len(more) : more[i][1] = k
      /\ \A i, j \in 1 .. Len(more) : more[i] = more[j] => i = j
  BY <1>6, SpentTyped
<1>8. PICK u : u = spent
  OBVIOUS
<1>9. PICK v : v = spent'
  OBVIOUS
<1> HIDE DEF more
<1>10. /\ u \in Seq(SubKeys \X StreamBytes)
       /\ \A i \in 1 .. Len(u) : \E m \in locked : u[i][1] = m.key
       /\ \A i, j \in 1 .. Len(u) : u[i] = u[j] => i = j
  BY <1>8 DEF AeadInv
<1>11. /\ v \in Seq(SubKeys \X StreamBytes) /\ Len(v) = Len(u) + Len(more)
       /\ \A i \in 1 .. Len(u) + Len(more) :
             v[i] = IF i <= Len(u) THEN u[i] ELSE more[i - Len(u)]
  <2> DEFINE w == u \o more
  <2>1. /\ w \in Seq(SubKeys \X StreamBytes) /\ Len(w) = Len(u) + Len(more)
        /\ \A i \in 1 .. Len(u) + Len(more) :
             w[i] = IF i <= Len(u) THEN u[i] ELSE more[i - Len(u)]
    BY <1>7, <1>10, ConcatProperties
  <2>2. v = w
    BY <1>2, <1>8, <1>9
  <2> HIDE DEF w
  <2> QED BY <2>1, <2>2
<1>12. Len(u) \in Nat /\ Len(more) \in Nat
  BY <1>7, <1>10
<1>13. \A i \in 1 .. Len(v) : IF i <= Len(u) THEN i \in 1 .. Len(u) /\ v[i] = u[i]
                              ELSE /\ i - Len(u) \in 1 .. Len(more)
                                   /\ v[i] = more[i - Len(u)]
  BY <1>11, <1>12
<1>14. \A i \in 1 .. Len(v) : \E m \in locked' : v[i][1] = m.key
  <2> SUFFICES ASSUME NEW i \in 1 .. Len(v) PROVE \E m \in locked' : v[i][1] = m.key
    OBVIOUS
  <2>1. CASE i <= Len(u)
    <3>1. v[i] = u[i] /\ i \in 1 .. Len(u)
      BY <1>13, <2>1
    <3>2. PICK m \in locked : u[i][1] = m.key
      BY <1>10, <3>1
    <3> QED BY <1>2, <3>1, <3>2
  <2>2. CASE ~(i <= Len(u))
    <3>1. v[i][1] = k
      BY <1>7, <1>13, <2>2
    <3> QED BY <1>5, <3>1
  <2> QED BY <2>1, <2>2
<1>15. \A i, j \in 1 .. Len(v) : v[i] = v[j] => i = j
  <2>1. \A i \in 1 .. Len(u) : u[i][1] # k
    BY <1>2, <1>10
  <2> SUFFICES ASSUME NEW i \in 1 .. Len(v), NEW j \in 1 .. Len(v), v[i] = v[j] PROVE i = j
    OBVIOUS
  <2>2. CASE i <= Len(u) /\ j <= Len(u)
    BY <1>10, <1>13, <2>2
  <2>3. CASE ~(i <= Len(u)) /\ ~(j <= Len(u))
    <3>1. i - Len(u) = j - Len(u)
      BY <1>7, <1>13, <2>3
    <3> QED BY <1>12, <3>1
  <2>4. CASE i <= Len(u) /\ ~(j <= Len(u))
    BY <1>7, <1>13, <2>1, <2>4
  <2>5. CASE ~(i <= Len(u)) /\ j <= Len(u)
    BY <1>7, <1>13, <2>1, <2>5
  <2> QED BY <2>2, <2>3, <2>4, <2>5
<1> QED BY <1>2, <1>4, <1>9, <1>11, <1>14, <1>15 DEF AeadInv, NotOpened

LEMMA UnlockKeeps ==
    ASSUME AeadInv, NEW m \in locked, NEW k \in SubKeys, NEW ad \in Strings,
           NEW cipher \in Strings, Unlock(k, m.mac, ad, cipher)
    PROVE  AeadInv'
<1>1. opened' = Answer(k, m.mac, ad, cipher) /\ locked' = locked /\ spent' = spent
  BY DEF Unlock, Answer
<1>2. \E q \in locked', t \in SubKeys, a \in Strings, c \in Strings :
         opened' = Answer(t, q.mac, a, c)
  BY <1>1
<1>3. /\ \A q \in locked' : AsLocked(q)
      /\ spent' \in Seq(SubKeys \X StreamBytes)
      /\ \A i \in 1 .. Len(spent') : \E q \in locked' : spent'[i][1] = q.key
      /\ \A i, j \in 1 .. Len(spent') : spent'[i] = spent'[j] => i = j
  BY <1>1 DEF AeadInv
<1> QED BY <1>2, <1>3 DEF AeadInv

LEMMA AeadKeeps == AeadInv /\ [AeadNext]_aeadVars => AeadInv'
<1> SUFFICES ASSUME AeadInv, [AeadNext]_aeadVars PROVE AeadInv'
  OBVIOUS
<1>1. CASE \E k \in SubKeys, msg \in Messages : Lock(k, msg[1], msg[2])
  BY <1>1, LockKeeps
<1>2. CASE \E m \in locked, k \in SubKeys, ad, cipher \in Strings :
              Unlock(k, m.mac, ad, cipher)
  BY <1>2, UnlockKeeps
<1>3. CASE UNCHANGED aeadVars
  BY <1>3 DEF aeadVars, AeadInv
<1> QED BY <1>1, <1>2, <1>3 DEF AeadNext

----------------------------------------------------------------------------
\* No byte of a key stream encrypts two bytes, and those that make the
\* one-time key encrypt none, for texts of any length within the counter.
THEOREM SpentOnce == AeadSpec => []NothingSpentTwice
<1>1. AeadInv => NothingSpentTwice
  <2> SUFFICES ASSUME AeadInv, NEW i \in DOMAIN spent, NEW j \in DOMAIN spent,
                      spent[i] = spent[j]
               PROVE  i = j
    BY DEF NothingSpentTwice
  <2>1. i \in 1 .. Len(spent) /\ j \in 1 .. Len(spent)
    BY DEF AeadInv
  <2> QED BY <2>1 DEF AeadInv
<1> QED BY <1>1, AeadInitOK, AeadKeeps, PTL DEF AeadSpec

\* What crypto_unlock_aead opens is what crypto_lock_aead made, under that
\* key, with the additional data and the text where they were.
THEOREM OpensLocked == AeadSpec => []OpensExactlyTheLocked
<1>1. AeadInv => OpensExactlyTheLocked
  <2> SUFFICES ASSUME AeadInv, opened # NotOpened PROVE OpensExactlyTheLocked
    BY DEF OpensExactlyTheLocked
  <2>1. PICK m \in locked, k \in SubKeys, ad \in Strings, cipher \in Strings :
            opened = Answer(k, m.mac, ad, cipher)
    BY DEF AeadInv
  <2>2. /\ opened.key = k /\ opened.mac = m.mac /\ opened.ad = ad /\ opened.cipher = cipher
        /\ opened.result = IF m.mac = Mac(k, ad, cipher) THEN 0 ELSE -1
        /\ opened.text = IF m.mac = Mac(k, ad, cipher) THEN Crypt(k, cipher) ELSE <<>>
    BY <2>1 DEF Answer
  <2>3. \A q \in locked : AsLocked(q)
    BY DEF AeadInv
  <2> DEFINE Same(q) == /\ q.key = opened.key /\ q.mac = opened.mac
                        /\ q.ad = opened.ad /\ q.cipher = opened.cipher
  <2>4. ASSUME NEW q \in locked, Same(q)
        PROVE  opened.result = 0 /\ opened.text = q.text
    <3>1. q.mac = Mac(k, ad, cipher) /\ q.cipher = Crypt(k, q.text) /\ q.text \in Strings
      BY <2>2, <2>3, <2>4 DEF AsLocked
    <3>2. opened.result = 0 /\ opened.text = Crypt(k, cipher)
      BY <2>2, <2>4, <3>1
    <3>3. Crypt(k, Crypt(k, q.text)) = q.text
      BY <3>1, CryptTwice
    <3> QED BY <2>2, <2>4, <3>1, <3>2, <3>3
  <2>5. ASSUME \A q \in locked : ~Same(q)
        PROVE  opened.result = -1 /\ opened.text = <<>>
    <3>1. ASSUME m.mac = Mac(k, ad, cipher) PROVE FALSE
      <4>1. /\ m.key \in SubKeys /\ m.ad \in Strings /\ m.text \in Strings
            /\ m.cipher = Crypt(m.key, m.text) /\ m.mac = Mac(m.key, m.ad, m.cipher)
        BY <2>3 DEF AsLocked
      <4>2. m.cipher \in Strings
        BY <4>1, CryptTwice
      <4>3. Mac(m.key, m.ad, m.cipher) = Mac(k, ad, cipher)
        BY <3>1, <4>1
      <4>4. m.key = k /\ m.ad = ad /\ m.cipher = cipher
        BY <4>1, <4>2, <4>3, MacOpens
      <4> QED BY <2>2, <2>5, <4>4
    <3> QED BY <2>2, <3>1
  <2> HIDE DEF Same
  <2>6. \A q \in locked : Same(q) => opened.result = 0 /\ opened.text = q.text
    BY <2>4
  <2>7. (\A q \in locked : ~Same(q)) => opened.result = -1 /\ opened.text = <<>>
    BY <2>5
  <2>8. LET same == {q \in locked : Same(q)}
        IN  IF same # {} THEN /\ opened.result = 0
                              /\ \A q \in same : opened.text = q.text
            ELSE opened.result = -1 /\ opened.text = <<>>
    BY <2>6, <2>7
  <2> QED BY <2>8 DEF OpensExactlyTheLocked, Same
<1> QED BY <1>1, AeadInitOK, AeadKeeps, PTL DEF AeadSpec
=============================================================================
