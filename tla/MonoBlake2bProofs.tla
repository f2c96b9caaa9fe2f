------------------------- MODULE MonoBlake2bProofs -------------------------
(***************************************************************************)
(* The digest of a message does not depend on how it is cut into calls of  *)
(* crypto_blake2b_update: proved for every block size, word size, message, *)
(* key and content of the uninitialised buffer.                            *)
(***************************************************************************)
EXTENDS MonoBlake2b, TLAPS

Words == 0 .. OffsetWord - 1

Entry == [block : Buffer, at : Nat, last : BOOLEAN]

\* The bytes of s from position b on, padded with zeroes to a block.
Cut(s, b) ==
    [i \in 0 .. Block - 1 |-> IF b + i + 1 <= Len(s) THEN s[b + i + 1] ELSE {}]

\* A closed context has no call in progress, an open one stays in the stream.
CallInStream ==
    /\ live => end <= Len(Stream(key))
    /\ ~live => pos = 0 /\ stop = 0 /\ end = 0

\* When bytes remain after the byte loop, that loop ends on a block boundary.
LoopAligns ==
    stop < end => \/ idx = 0 /\ stop = pos
                  \/ idx + (stop - pos) = Block

IInv ==
    /\ BlakeTypeOK
    /\ hash \in Seq(Entry)
    /\ CallInStream
    /\ LoopAligns
    /\ ContextIsCanonical
    /\ DigestIsReference

----------------------------------------------------------------------------
(* Arithmetic.                                                             *)

\* Aligning a fill level of the buffer takes it to a block boundary.
LEMMA AlignValue ==
    ASSUME NEW x \in 0 .. Block
    PROVE  Align(x) = IF x = 0 \/ x = Block THEN 0 ELSE Block - x
  BY SizesAssumption DEF Align

\* Adding to the two-word offset adds to its value, the carry included.
LEMMA IncrAdds ==
    ASSUME NEW o \in Words \X Words, NEW y \in 0 .. Block,
           OffsetValue(o) + y < OffsetWord * OffsetWord
    PROVE  /\ Incr(o, y) \in Words \X Words
           /\ OffsetValue(Incr(o, y)) = OffsetValue(o) + y
<1> DEFINE low == (o[1] + y) % OffsetWord
<1>1. o[1] \in Words /\ o[2] \in Words /\ o = <<o[1], o[2]>>
  OBVIOUS
<1>2. OffsetWord \in Nat /\ Block \in Nat /\ Block < OffsetWord /\ y < OffsetWord
  BY SizesAssumption
<1>3. CASE o[1] + y < OffsetWord
  <2>1. low = o[1] + y
    BY <1>1, <1>2, <1>3 DEF Words
  <2>2. Incr(o, y) = <<o[1] + y, o[2]>>
    BY <2>1, <1>1, <1>2 DEF Incr, Words
  <2> QED BY <2>2, <1>1, <1>2, <1>3 DEF OffsetValue, Words
<1>4. CASE o[1] + y >= OffsetWord
  <2>1. low = o[1] + y - OffsetWord /\ low < y
    BY <1>1, <1>2, <1>4 DEF Words
  <2>2. OffsetWord * (o[2] + 1) = OffsetWord * o[2] + OffsetWord
    BY <1>1, <1>2 DEF Words
  <2>3. OffsetWord * (o[2] + 1) < OffsetWord * OffsetWord
    BY <2>2, <1>1, <1>2, <1>4 DEF OffsetValue, Words
  <2>4. o[2] + 1 < OffsetWord
    BY <2>3, <1>1, <1>2 DEF Words
  <2>5. (o[2] + 1) % OffsetWord = o[2] + 1
    BY <2>4, <1>1, <1>2 DEF Words
  <2>6. Incr(o, y) = <<o[1] + y - OffsetWord, o[2] + 1>>
    BY <2>1, <2>5 DEF Incr
  <2> QED BY <2>1, <2>2, <2>4, <2>6, <1>1, <1>2 DEF OffsetValue, Words
<1> QED BY <1>1, <1>2, <1>3, <1>4 DEF Words

\* Whole blocks and less than a block make that many blocks.
LEMMA WholeBlocks ==
    ASSUME NEW n \in Nat, NEW r \in 1 .. Block
    PROVE  (n * Block + r + Block - 1) \div Block = n + 1
<1>1. n * Block + r + Block - 1 = (n + 1) * Block + (r - 1)
  BY SizesAssumption
<1>2. r - 1 \in 0 .. Block - 1 /\ Block \in Nat \ {0}
  BY SizesAssumption
<1> QED BY <1>1, <1>2

\* More blocks, more bytes.
LEMMA BlocksMonotone ==
    ASSUME NEW m \in Nat, NEW n \in Nat, m <= n
    PROVE  /\ m * Block \in Nat
           /\ m * Block <= n * Block
  BY SizesAssumption

\* The block numbered one more than n starts after n blocks.
LEMMA BlockIsCut ==
    ASSUME NEW s, NEW n \in Nat
    PROVE  BlockOf(s, n + 1) = Cut(s, n * Block)
<1>1. (n + 1) - 1 = n
  OBVIOUS
<1> QED BY <1>1 DEF BlockOf, Cut

----------------------------------------------------------------------------
(* The stream.                                                             *)

\* The key block is a block of bytes.
LEMMA KeyBlockType ==
    ASSUME NEW k \in Keys \cup {<<>>}
    PROVE  /\ k \in Seq(Byte)
           /\ KeyBlock(k) \in Seq(Byte)
           /\ Len(KeyBlock(k)) = Block
<1>1. k \in Seq(Byte) /\ Block \in Nat \ {0}
  <2>1. CASE k \in Keys
    <3>1. k \in {x \in Seq(Byte) : Len(x) <= Block}
      BY <2>1, SizesAssumption
    <3> QED BY <3>1, SizesAssumption
  <2>2. CASE k = <<>>
    BY <2>2, SizesAssumption
  <2> QED BY <2>1, <2>2
<1>2. \A i \in 1 .. Block : (IF i <= Len(k) THEN k[i] ELSE {}) \in Byte
  BY <1>1 DEF Byte
<1> QED BY <1>1, <1>2 DEF KeyBlock

\* A stream is a sequence of bytes no longer than a block and the message.
LEMMA StreamType ==
    ASSUME NEW k \in Keys \cup {<<>>}
    PROVE  /\ Stream(k) \in Seq(Byte)
           /\ Len(Stream(k)) \in Nat
           /\ Len(Stream(k)) < OffsetWord * OffsetWord
           /\ k # <<>> => Block <= Len(Stream(k))
<1>1. /\ k \in Seq(Byte) /\ KeyBlock(k) \in Seq(Byte) /\ Len(KeyBlock(k)) = Block
      /\ Block \in Nat \ {0} /\ Message \in Seq(Byte)
  BY KeyBlockType, SizesAssumption
<1> QED BY <1>1, SizesAssumption DEF Stream

\* The bytes taken are the first pos bytes of the stream.
LEMMA TakenType ==
    ASSUME NEW s \in Seq(Byte), NEW n \in 0 .. Len(s)
    PROVE  /\ SubSeq(s, 1, n) \in Seq(Byte)
           /\ Len(SubSeq(s, 1, n)) = n
           /\ \A i \in 1 .. n : SubSeq(s, 1, n)[i] = s[i]
  OBVIOUS

\* A block of bytes is a buffer.
LEMMA CutType ==
    ASSUME NEW s \in Seq(Byte), NEW b \in Nat
    PROVE  Cut(s, b) \in Buffer
<1>1. \A i \in 0 .. Block - 1 :
        (IF b + i + 1 <= Len(s) THEN s[b + i + 1] ELSE {}) \in Byte
  BY SizesAssumption DEF Byte
<1> QED BY <1>1 DEF Cut, Buffer

\* A whole block of what is taken is that block of the stream.
LEMMA CutOfTaken ==
    ASSUME NEW s \in Seq(Byte), NEW n \in 0 .. Len(s), NEW b \in Nat,
           b + Block <= n
    PROVE  Cut(SubSeq(s, 1, n), b) = Cut(s, b)
<1>1. \A i \in 0 .. Block - 1 : b + i + 1 <= n /\ b + i + 1 <= Len(s) /\ b + i + 1 \in 1 .. n
  BY SizesAssumption
<1> QED BY <1>1, TakenType DEF Cut

----------------------------------------------------------------------------
(* What one byte, one block and one compression do to the context.         *)

\* When a full buffer is compressed, the chaining value gains the next block
\* of the stream; otherwise nothing is compressed.
LEMMA EndBlockStep ==
    ASSUME IInv, live, EndBlock, pos < Len(Stream(key))
    PROVE  /\ offset' \in Words \X Words
           /\ hash' \in Seq(Entry)
           /\ OffsetValue(offset') + NextIdx = pos
           /\ OffsetValue(offset') = Len(hash') * Block
           /\ \A k \in 1 .. Len(hash') :
                hash'[k] = [block |-> BlockOf(Stream(key), k),
                            at |-> k * Block, last |-> FALSE]
           /\ idx = Block => NextIdx = 0
           /\ idx # Block => NextIdx = idx /\ hash' = hash
<1> DEFINE S == Stream(key)
           L == Len(hash)
<1>1. /\ key \in Keys \cup {<<>>} /\ offset \in Words \X Words /\ idx \in 0 .. Block
      /\ input \in Buffer /\ pos \in Nat /\ hash \in Seq(Entry) /\ L \in Nat
  BY DEF IInv, BlakeTypeOK, Words
<1>2. /\ OffsetValue(offset) + idx = pos
      /\ OffsetValue(offset) = L * Block
      /\ \A k \in 1 .. L : hash[k] = [block |-> BlockOf(S, k),
                                      at |-> k * Block, last |-> FALSE]
      /\ idx > 0 => input = BlockOf(Taken, L + 1)
  BY DEF IInv, ContextIsCanonical
<1>3. S \in Seq(Byte) /\ Len(S) \in Nat /\ Len(S) < OffsetWord * OffsetWord
  BY <1>1, StreamType
<1>c. Block \in Nat \ {0} /\ OffsetWord \in Nat /\ OffsetWord * OffsetWord \in Nat /\ L * Block \in Nat
  BY <1>1, SizesAssumption
<1>4. CASE idx = Block
  <2>1. offset' = Incr(offset, idx) /\ hash' = Compress(hash, input, offset', FALSE)
    BY <1>4 DEF EndBlock
  <2>2. OffsetValue(offset) + idx < OffsetWord * OffsetWord
    <3>1. OffsetValue(offset) + idx = pos /\ pos < Len(S)
      BY <1>2
    <3> QED BY <3>1, <1>1, <1>3, <1>c
  <2>3. offset' \in Words \X Words /\ OffsetValue(offset') = pos
    BY <2>1, <2>2, <1>1, <1>2, IncrAdds
  <2>4. pos = L * Block + Block /\ pos = (L + 1) * Block
    <3>1. OffsetValue(offset) + idx = pos /\ OffsetValue(offset) = L * Block
      BY <1>2
    <3>2. (L + 1) * Block = L * Block + Block
      BY <1>1, <1>c
    <3> QED BY <3>1, <3>2, <1>4, <1>c
  <2>5. input = BlockOf(S, L + 1)
    <3>1. L * Block \in Nat /\ pos \in 0 .. Len(S) /\ L * Block + Block <= pos
      BY <2>4, <1>1, <1>3, BlocksMonotone
    <3>2. input = Cut(Taken, L * Block)
      <4>1. input = BlockOf(Taken, L + 1)
        <5>1. idx > 0
          BY <1>4, <1>c
        <5>2. idx > 0 => input = BlockOf(Taken, L + 1)
          BY <1>2
        <5> QED BY <5>1, <5>2
      <4> QED BY <4>1, <1>1, BlockIsCut
    <3>3. Cut(Taken, L * Block) = Cut(S, L * Block)
      BY <3>1, <1>3, CutOfTaken DEF Taken
    <3> QED BY <3>2, <3>3, <1>1, BlockIsCut
  <2>6. hash' = Append(hash, [block |-> BlockOf(S, L + 1), at |-> (L + 1) * Block, last |-> FALSE])
    BY <2>1, <2>3, <2>4, <2>5 DEF Compress
  <2>7. [block |-> BlockOf(S, L + 1), at |-> (L + 1) * Block, last |-> FALSE] \in Entry
    BY <2>4, <2>5, <1>1 DEF Entry
  <2>8. hash' \in Seq(Entry) /\ Len(hash') = L + 1
    BY <2>6, <2>7, <1>1
  <2>9. \A k \in 1 .. Len(hash') :
          hash'[k] = [block |-> BlockOf(S, k), at |-> k * Block, last |-> FALSE]
    <3> SUFFICES ASSUME NEW k \in 1 .. Len(hash')
                 PROVE  hash'[k] = [block |-> BlockOf(S, k), at |-> k * Block, last |-> FALSE]
      OBVIOUS
    <3>1. CASE k = L + 1
      BY <3>1, <2>6, <1>1
    <3>2. CASE k # L + 1
      <4>1. k \in 1 .. L
        BY <3>2, <2>8, <1>1
      <4>2. hash'[k] = hash[k]
        BY <4>1, <2>6, <1>1
      <4> QED BY <4>1, <4>2, <1>2
    <3> QED BY <3>1, <3>2
  <2>10. NextIdx = 0
    BY <1>4 DEF NextIdx
  <2> QED BY <2>3, <2>4, <2>8, <2>9, <2>10, <1>1, <1>4
<1>5. CASE idx # Block
  BY <1>5, <1>1, <1>2 DEF EndBlock, NextIdx
<1> QED BY <1>4, <1>5

\* Taking a byte keeps the buffer equal to the bytes after the last whole
\* block, then zeroes: whatever the buffer held is cleared with its first byte.
LEMMA SetInputStep ==
    ASSUME NEW s \in Seq(Byte), NEW p \in Nat, p < Len(s),
           NEW i \in 0 .. Block - 1, i <= p, NEW in \in Buffer,
           i > 0 => in = Cut(SubSeq(s, 1, p), p - i)
    PROVE  /\ SetInput(in, s[p + 1], i) \in Buffer
           /\ SetInput(in, s[p + 1], i) = Cut(SubSeq(s, 1, p + 1), p - i)
<1> DEFINE t == SubSeq(s, 1, p + 1)
           clean == IF i = 0 THEN Zero ELSE in
           new == SetInput(in, s[p + 1], i)
<1>1. /\ p \in 0 .. Len(s) /\ p + 1 \in 0 .. Len(s) /\ p + 1 \in 1 .. Len(s)
      /\ Block \in Nat \ {0} /\ p - i \in Nat
  BY SizesAssumption
<1>2. Len(t) = p + 1 /\ t \in Seq(Byte) /\ \A j \in 1 .. p + 1 : t[j] = s[j]
  BY <1>1, TakenType
<1>3. clean = [j \in 0 .. Block - 1 |-> IF j < i THEN s[p - i + j + 1] ELSE {}]
  <2>1. CASE i = 0
    <3>1. \A j \in 0 .. Block - 1 : (IF j < i THEN s[p - i + j + 1] ELSE {}) = {}
      BY <2>1, <1>1
    <3>2. clean = [j \in 0 .. Block - 1 |-> {}]
      BY <2>1 DEF Zero
    <3> QED BY <3>1, <3>2
  <2>2. CASE i > 0
    <3>1. /\ Len(SubSeq(s, 1, p)) = p
          /\ \A j \in 1 .. p : SubSeq(s, 1, p)[j] = s[j]
      BY <1>1, TakenType
    <3>2. \A j \in 0 .. Block - 1 :
            (IF p - i + j + 1 <= p THEN SubSeq(s, 1, p)[p - i + j + 1] ELSE {})
              = (IF j < i THEN s[p - i + j + 1] ELSE {})
      <4> TAKE j \in 0 .. Block - 1
      <4>1. j \in Int /\ j >= 0 /\ i \in Int /\ (p - i + j + 1 <= p <=> j < i)
        BY <1>1
      <4>2. j < i => p - i + j + 1 \in 1 .. p
        BY <4>1, <1>1
      <4>3. j < i => SubSeq(s, 1, p)[p - i + j + 1] = s[p - i + j + 1]
        BY <3>1, <4>2
      <4> QED BY <4>1, <4>3
    <3>3. in = [j \in 0 .. Block - 1 |->
                  IF p - i + j + 1 <= p THEN SubSeq(s, 1, p)[p - i + j + 1] ELSE {}]
      BY <2>2, <3>1 DEF Cut
    <3>4. clean = in
      BY <2>2
    <3> HIDE DEF clean
    <3> QED BY <3>2, <3>3, <3>4
  <2> QED BY <2>1, <2>2
<1>4. new = [clean EXCEPT ![i] = clean[i] \cup s[p + 1]]
  BY DEF SetInput
<1>5. clean[i] = {}
  BY <1>3, <1>1
<1>6. new = [j \in 0 .. Block - 1 |->
               IF j = i THEN s[p + 1] ELSE IF j < i THEN s[p - i + j + 1] ELSE {}]
  BY <1>3, <1>4, <1>5
<1>7. \A j \in 0 .. Block - 1 :
        (IF p - i + j + 1 <= Len(t) THEN t[p - i + j + 1] ELSE {})
          = (IF j = i THEN s[p + 1] ELSE IF j < i THEN s[p - i + j + 1] ELSE {})
  <2> TAKE j \in 0 .. Block - 1
  <2>1. j \in Int /\ j >= 0 /\ i \in Int /\ (p - i + j + 1 <= Len(t) <=> j <= i)
    BY <1>1, <1>2
  <2>2. j <= i => p - i + j + 1 \in 1 .. p + 1
    BY <2>1, <1>1
  <2>3. j <= i => t[p - i + j + 1] = s[p - i + j + 1]
    BY <1>2, <2>2
  <2>4. j = i => p - i + j + 1 = p + 1
    BY <1>1, <2>1
  <2> QED BY <2>1, <2>3, <2>4
<1>8. new = Cut(t, p - i)
  BY <1>6, <1>7 DEF Cut
<1> QED BY <1>1, <1>2, <1>8, CutType

----------------------------------------------------------------------------
(* The invariant.                                                          *)

\* A new context starts the invariant, whatever its buffer holds.
LEMMA InitIInv == BlakeInit => IInv
<1> SUFFICES ASSUME BlakeInit PROVE IInv
  OBVIOUS
<1>1. BlakeTypeOK
  <2>1. input \in Buffer /\ 0 \in 0 .. OffsetWord - 1 /\ 0 \in 0 .. Block
    BY SizesAssumption DEF BlakeInit
  <2>2. live \in BOOLEAN /\ key \in Keys \cup {<<>>}
    BY DEF BlakeInit
  <2>3. offset \in (0 .. OffsetWord - 1) \X (0 .. OffsetWord - 1)
    BY <2>1 DEF BlakeInit
  <2>4. pos = 0 /\ stop = 0 /\ end = 0 /\ idx = 0
    BY DEF BlakeInit
  <2> QED BY <2>1, <2>2, <2>3, <2>4 DEF BlakeTypeOK
<1>2. hash \in Seq(Entry) /\ CallInStream /\ LoopAligns /\ ContextIsCanonical /\ DigestIsReference
  BY DEF BlakeInit, CallInStream, LoopAligns, ContextIsCanonical, DigestIsReference
<1> QED BY <1>1, <1>2 DEF IInv

\* A digest already delivered stays what it is.
LEMMA DigestKept ==
    ASSUME DigestIsReference, digest' = digest
    PROVE  DigestIsReference'
  BY DEF DigestIsReference, NoDigest

\* crypto_blake2b_general_init
LEMMA GeneralInitIInv ==
    ASSUME IInv, NEW k \in Keys, GeneralInit(k)
    PROVE  IInv'
<1>1. /\ Block \in Nat \ {0} /\ OffsetWord \in Nat /\ 0 \in 0 .. OffsetWord - 1 /\ input \in Buffer
      /\ k \in Keys \cup {<<>>}
  BY SizesAssumption DEF IInv, BlakeTypeOK
<1>2. Stream(k) \in Seq(Byte) /\ Len(Stream(k)) \in Nat /\ (k # <<>> => Block <= Len(Stream(k)))
  BY <1>1, StreamType
<1>3. /\ live' = TRUE /\ key' = k /\ hash' = <<>> /\ offset' = <<0, 0>>
      /\ pos' = idx' /\ stop' = idx' /\ end' = idx' /\ digest' = digest
  BY DEF GeneralInit
<1>4. OffsetValue(offset') = 0 /\ Len(hash') = 0 /\ 0 * Block = 0
  BY <1>1, <1>3 DEF OffsetValue
<1>5. CASE k = <<>>
  <2>1. idx' = 0 /\ input' = input
    BY <1>5 DEF GeneralInit
  <2> QED BY <2>1, <1>1, <1>2, <1>3, <1>4, DigestKept
          DEF IInv, BlakeTypeOK, CallInStream, LoopAligns, ContextIsCanonical
<1>6. CASE k # <<>>
  <2>1. idx' = Block /\ input' = [i \in 0 .. Block - 1 |-> KeyBlock(k)[i + 1]]
    BY <1>6 DEF GeneralInit
  <2>2. Stream(k) = KeyBlock(k) \o Message
    BY <1>6 DEF Stream
  <2>3. input' = Cut(SubSeq(Stream(k), 1, Block), 0)
    <3>1. Len(SubSeq(Stream(k), 1, Block)) = Block
          /\ \A i \in 1 .. Block : SubSeq(Stream(k), 1, Block)[i] = Stream(k)[i]
      <4>1. Block \in 0 .. Len(Stream(k))
        BY <1>1, <1>2, <1>6
      <4> QED BY <4>1, <1>2, TakenType
    <3>2. \A i \in 1 .. Block : Stream(k)[i] = KeyBlock(k)[i]
      <4>1. KeyBlock(k) \in Seq(Byte) /\ Len(KeyBlock(k)) = Block /\ Message \in Seq(Byte)
        BY <1>1, KeyBlockType, SizesAssumption
      <4> QED BY <4>1, <2>2
    <3>3. \A i \in 0 .. Block - 1 :
            KeyBlock(k)[i + 1] =
              IF 0 + i + 1 <= Block THEN SubSeq(Stream(k), 1, Block)[0 + i + 1] ELSE {}
      BY <1>1, <3>1, <3>2
    <3> QED BY <2>1, <3>1, <3>3 DEF Cut
  <2>4. input' = BlockOf(Taken', Len(hash') + 1)
    <3>1. Taken' = SubSeq(Stream(k), 1, Block) /\ Len(hash') + 1 = 0 + 1
      BY <2>1, <1>3, <1>4 DEF Taken
    <3>2. BlockOf(SubSeq(Stream(k), 1, Block), 0 + 1) = Cut(SubSeq(Stream(k), 1, Block), 0)
      BY <1>4, BlockIsCut
    <3> QED BY <2>3, <3>1, <3>2
  <2>5. input' \in Buffer
    <3>1. SubSeq(Stream(k), 1, Block) \in Seq(Byte)
      BY <1>1, <1>2, <1>6, TakenType
    <3> QED BY <2>3, <3>1, CutType
  <2> QED BY <2>1, <2>4, <2>5, <1>1, <1>2, <1>3, <1>4, <1>6, DigestKept
          DEF IInv, BlakeTypeOK, CallInStream, LoopAligns, ContextIsCanonical
<1> QED BY <1>5, <1>6

\* crypto_blake2b_update is called
LEMMA UpdateIInv ==
    ASSUME IInv, NEW n \in 1 .. Len(Message), Update(n)
    PROVE  IInv'
<1>1. /\ Block \in Nat \ {0} /\ Len(Message) \in Nat /\ n \in Nat /\ n > 0
      /\ idx \in 0 .. Block /\ pos \in Nat /\ end = pos /\ live
      /\ pos + n <= Len(Stream(key))
  BY SizesAssumption DEF IInv, BlakeTypeOK, Update, idle
<1>2. /\ stop' = pos + LesserOf(Align(idx), n) /\ end' = pos + n
      /\ UNCHANGED <<live, hash, offset, input, idx, key, pos, digest>>
  BY DEF Update
<1>3. /\ Align(idx) = IF idx = 0 \/ idx = Block THEN 0 ELSE Block - idx
      /\ Align(idx) \in Nat
  BY <1>1, AlignValue
<1>4. /\ stop' \in Nat /\ end' \in Nat /\ pos <= stop' /\ stop' <= end'
      /\ stop' < end' => stop' = pos + Align(idx)
  BY <1>1, <1>2, <1>3 DEF LesserOf
<1>5. BlakeTypeOK'
  BY <1>2, <1>4 DEF IInv, BlakeTypeOK
<1>6. CallInStream' /\ hash' \in Seq(Entry)
  BY <1>1, <1>2 DEF IInv, CallInStream, Stream, KeyBlock
<1>7. LoopAligns'
  BY <1>1, <1>2, <1>3, <1>4 DEF LoopAligns
<1>8. ContextIsCanonical'
  BY <1>2 DEF IInv, ContextIsCanonical, Taken, Stream, KeyBlock, BlockOf, OffsetValue
<1> QED BY <1>2, <1>5, <1>6, <1>7, <1>8, DigestKept DEF IInv

\* One byte of the message is taken
LEMMA TakeByteIInv ==
    ASSUME IInv, TakeByte
    PROVE  IInv'
<1> DEFINE S == Stream(key)
<1>1. /\ Block \in Nat \ {0} /\ key \in Keys \cup {<<>>}
      /\ idx \in 0 .. Block /\ input \in Buffer
      /\ pos \in Nat /\ stop \in Nat /\ end \in Nat /\ pos < stop /\ stop <= end
  BY SizesAssumption DEF IInv, BlakeTypeOK, TakeByte
<1>2. live /\ end <= Len(S)
  BY <1>1 DEF IInv, CallInStream, BlakeTypeOK
<1>3. S \in Seq(Byte) /\ Len(S) \in Nat /\ pos < Len(S) /\ pos + 1 \in 0 .. Len(S)
  BY <1>1, <1>2, StreamType
<1>4. /\ input' = SetInput(input, S[pos + 1], NextIdx)
      /\ idx' = NextIdx + 1 /\ pos' = pos + 1 /\ EndBlock
      /\ UNCHANGED <<live, key, stop, end, digest>>
  BY DEF TakeByte
<1>5. /\ offset' \in Words \X Words
      /\ hash' \in Seq(Entry)
      /\ OffsetValue(offset') + NextIdx = pos
      /\ OffsetValue(offset') = Len(hash') * Block
      /\ \A k \in 1 .. Len(hash') :
           hash'[k] = [block |-> BlockOf(S, k), at |-> k * Block, last |-> FALSE]
      /\ idx = Block => NextIdx = 0
      /\ idx # Block => NextIdx = idx /\ hash' = hash
  BY <1>2, <1>3, <1>4, EndBlockStep
<1>6. NextIdx \in 0 .. Block - 1 /\ Len(hash') \in Nat /\ Len(hash') * Block \in Nat
  BY <1>1, <1>5, BlocksMonotone
<1>7. NextIdx <= pos /\ pos - NextIdx = Len(hash') * Block
  BY <1>1, <1>5, <1>6
<1>8. NextIdx > 0 => input = Cut(SubSeq(S, 1, pos), pos - NextIdx)
  <2> SUFFICES ASSUME NextIdx > 0 PROVE input = Cut(SubSeq(S, 1, pos), pos - NextIdx)
    OBVIOUS
  <2>1. NextIdx = idx /\ hash' = hash /\ idx > 0
    BY <1>1, <1>5
  <2>2. input = BlockOf(Taken, Len(hash) + 1)
    BY <1>2, <2>1 DEF IInv, ContextIsCanonical
  <2>3. input = Cut(Taken, Len(hash) * Block)
    BY <1>6, <2>1, <2>2, BlockIsCut
  <2> QED BY <1>7, <2>1, <2>3 DEF Taken
<1>9. input' \in Buffer /\ input' = Cut(SubSeq(S, 1, pos + 1), pos - NextIdx)
  BY <1>1, <1>3, <1>4, <1>6, <1>7, <1>8, SetInputStep
<1>10. BlakeTypeOK'
  <2>1. idx' \in 0 .. Block /\ pos' \in Nat /\ pos' <= stop'
    BY <1>1, <1>4, <1>6
  <2> QED BY <2>1, <1>4, <1>5, <1>9 DEF IInv, BlakeTypeOK, Words
<1>11. CallInStream'
  BY <1>2, <1>4 DEF CallInStream
<1>12. LoopAligns'
  <2> SUFFICES ASSUME stop < end PROVE idx' + (stop' - pos') = Block
    BY <1>4 DEF LoopAligns
  <2>1. idx + (stop - pos) = Block
    BY <1>1 DEF IInv, LoopAligns
  <2>2. idx # Block
    BY <1>1, <2>1
  <2> QED BY <1>1, <1>4, <1>5, <2>1, <2>2
<1>13. ContextIsCanonical'
  <2>1. OffsetValue(offset') + idx' = pos' /\ idx' # 0
    <3>1. OffsetValue(offset') + NextIdx = pos /\ OffsetValue(offset') \in Nat
      BY <1>5, <1>6
    <3>2. NextIdx \in Nat /\ pos \in Nat
      BY <1>1, <1>6
    <3>3. idx' = NextIdx + 1 /\ pos' = pos + 1
      BY <1>4
    <3> QED BY <3>1, <3>2, <3>3
  <2>2. input' = BlockOf(Taken', Len(hash') + 1)
    <3>1. Taken' = SubSeq(S, 1, pos + 1)
      BY <1>4 DEF Taken
    <3> QED BY <3>1, <1>6, <1>7, <1>9, BlockIsCut
  <2> QED BY <2>1, <2>2, <1>4, <1>5 DEF ContextIsCanonical
<1> QED BY <1>4, <1>5, <1>10, <1>11, <1>12, <1>13, DigestKept DEF IInv

\* A whole block of the message is taken
LEMMA TakeBlockIInv ==
    ASSUME IInv, TakeBlock
    PROVE  IInv'
<1> DEFINE S == Stream(key)
<1>1. /\ Block \in Nat \ {0} /\ key \in Keys \cup {<<>>}
      /\ idx \in 0 .. Block /\ input \in Buffer
      /\ pos \in Nat /\ end \in Nat /\ pos = stop /\ pos + Block <= end /\ stop < end
  BY SizesAssumption DEF IInv, BlakeTypeOK, TakeBlock
<1>2. live /\ end <= Len(S)
  BY <1>1 DEF IInv, CallInStream, BlakeTypeOK
<1>3. S \in Seq(Byte) /\ Len(S) \in Nat /\ pos < Len(S) /\ pos + Block \in 0 .. Len(S)
  BY <1>1, <1>2, StreamType
<1>4. /\ input' = [i \in 0 .. Block - 1 |-> S[pos + i + 1]]
      /\ idx' = Block /\ pos' = pos + Block /\ stop' = pos' /\ EndBlock
      /\ UNCHANGED <<live, key, end, digest>>
  BY DEF TakeBlock
<1>5. /\ offset' \in Words \X Words
      /\ hash' \in Seq(Entry)
      /\ OffsetValue(offset') + NextIdx = pos
      /\ OffsetValue(offset') = Len(hash') * Block
      /\ \A k \in 1 .. Len(hash') :
           hash'[k] = [block |-> BlockOf(S, k), at |-> k * Block, last |-> FALSE]
      /\ idx = Block => NextIdx = 0
      /\ idx # Block => NextIdx = idx /\ hash' = hash
  BY <1>2, <1>3, <1>4, EndBlockStep
<1>6. NextIdx = 0 /\ Len(hash') \in Nat /\ Len(hash') * Block \in Nat
  <2>1. idx = 0 \/ idx = Block
    BY <1>1 DEF IInv, LoopAligns
  <2> QED BY <2>1, <1>1, <1>5, BlocksMonotone
<1>7. pos = Len(hash') * Block
  BY <1>1, <1>5, <1>6
<1>8. input' = Cut(SubSeq(S, 1, pos + Block), pos)
  <2>1. \A i \in 0 .. Block - 1 : pos + i + 1 <= Len(S)
    BY <1>1, <1>3
  <2>2. input' = Cut(S, pos)
    BY <2>1, <1>4 DEF Cut
  <2> QED BY <2>2, <1>1, <1>3, CutOfTaken
<1>9. input' \in Buffer
  <2>1. SubSeq(S, 1, pos + Block) \in Seq(Byte)
    BY <1>3, TakenType
  <2> QED BY <2>1, <1>1, <1>8, CutType
<1>10. BlakeTypeOK'
  <2>1. idx' \in 0 .. Block /\ pos' \in Nat /\ stop' \in Nat /\ pos' <= stop' /\ stop' <= end'
    BY <1>1, <1>4
  <2> QED BY <2>1, <1>4, <1>5, <1>9 DEF IInv, BlakeTypeOK, Words
<1>11. CallInStream'
  BY <1>2, <1>4 DEF CallInStream
<1>12. LoopAligns'
  BY <1>1, <1>4 DEF LoopAligns
<1>13. ContextIsCanonical'
  <2>1. OffsetValue(offset') + idx' = pos' /\ idx' # 0
    BY <1>1, <1>4, <1>5, <1>6, <1>7
  <2>2. input' = BlockOf(Taken', Len(hash') + 1)
    <3>1. Taken' = SubSeq(S, 1, pos + Block)
      BY <1>4 DEF Taken
    <3> QED BY <3>1, <1>6, <1>7, <1>8, BlockIsCut
  <2> QED BY <2>1, <2>2, <1>4, <1>5 DEF ContextIsCanonical
<1> QED BY <1>4, <1>5, <1>10, <1>11, <1>12, <1>13, DigestKept DEF IInv

\* The rest of the message is left to the byte loop
LEMMA TakeRestIInv ==
    ASSUME IInv, TakeRest
    PROVE  IInv'
<1>1. /\ pos \in Nat /\ end \in Nat /\ pos = stop /\ pos < end /\ stop' = end
      /\ UNCHANGED <<live, hash, offset, input, idx, key, pos, end, digest>>
  BY DEF IInv, BlakeTypeOK, TakeRest
<1>2. BlakeTypeOK'
  BY <1>1 DEF IInv, BlakeTypeOK
<1>3. CallInStream' /\ LoopAligns' /\ hash' \in Seq(Entry)
  BY <1>1 DEF IInv, BlakeTypeOK, CallInStream, LoopAligns
<1>4. ContextIsCanonical'
  BY <1>1 DEF IInv, ContextIsCanonical, Taken
<1> QED BY <1>1, <1>2, <1>3, <1>4, DigestKept DEF IInv

\* What Final delivers is the digest of the bytes taken, in one piece.
LEMMA FinalDigest ==
    ASSUME IInv, live, idle
    PROVE  LET padded == IF idx = 0 THEN Zero ELSE input
           IN  Compress(hash, padded, Incr(offset, idx), TRUE) = Blake2b(Taken)
<1> DEFINE S == Stream(key)
           T == Taken
           L == Len(hash)
           padded == IF idx = 0 THEN Zero ELSE input
<1>1. /\ Block \in Nat \ {0} /\ OffsetWord * OffsetWord \in Nat /\ key \in Keys \cup {<<>>}
      /\ idx \in 0 .. Block /\ input \in Buffer /\ pos \in Nat /\ end = pos
      /\ hash \in Seq(Entry) /\ L \in Nat /\ offset \in Words \X Words
      /\ L * Block \in Nat
  BY SizesAssumption, BlocksMonotone DEF IInv, BlakeTypeOK, Words, idle
<1>2. /\ OffsetValue(offset) + idx = pos
      /\ OffsetValue(offset) = L * Block
      /\ idx = 0 => pos = 0
      /\ \A k \in 1 .. L : hash[k] = [block |-> BlockOf(S, k),
                                      at |-> k * Block, last |-> FALSE]
      /\ idx > 0 => input = BlockOf(Taken, L + 1)
  BY DEF IInv, ContextIsCanonical
<1>3. S \in Seq(Byte) /\ Len(S) \in Nat /\ Len(S) < OffsetWord * OffsetWord /\ pos \in 0 .. Len(S)
  <2>1. pos <= Len(S)
    BY <1>1 DEF IInv, CallInStream
  <2> QED BY <2>1, <1>1, StreamType
<1>4. T \in Seq(Byte) /\ Len(T) = pos
  BY <1>3, TakenType DEF Taken
<1>5. OffsetValue(Incr(offset, idx)) = pos
  <2>1. OffsetValue(offset) + idx < OffsetWord * OffsetWord
    <3>1. OffsetValue(offset) + idx = pos
      BY <1>2
    <3>2. pos <= Len(S)
      BY <1>3
    <3> QED BY <3>1, <3>2, <1>1, <1>3
  <2> QED BY <2>1, <1>1, <1>2, IncrAdds
<1>6. Compress(hash, padded, Incr(offset, idx), TRUE)
        = Append(hash, [block |-> padded, at |-> pos, last |-> TRUE])
  BY <1>5 DEF Compress
<1>7. pos = L * Block + idx
  BY <1>1, <1>2
<1>8. NumBlocks(T) = L + 1 /\ padded = BlockOf(T, L + 1)
  <2>1. CASE idx = 0
    <3>1. pos = 0 /\ L * Block = 0
      <4>1. pos = 0
        BY <2>1, <1>2
      <4> QED BY <4>1, <2>1, <1>1, <1>7
    <3>2. L = 0
      BY <3>1, <1>1
    <3>3. T = <<>>
      BY <3>1, <1>4
    <3>4. BlockOf(T, 0 + 1) = Cut(T, 0)
      BY <1>1, <3>1, <3>2, BlockIsCut
    <3>5. \A i \in 0 .. Block - 1 : ~(0 + i + 1 <= Len(T))
      BY <3>1, <1>1, <1>4
    <3>6. Cut(T, 0) = Zero
      BY <3>5 DEF Cut, Zero
    <3> QED BY <2>1, <3>2, <3>3, <3>4, <3>6 DEF NumBlocks
  <2>2. CASE idx > 0
    <3>1. T # <<>> /\ idx \in 1 .. Block
      BY <2>2, <1>1, <1>4, <1>7
    <3>2. (L * Block + idx + Block - 1) \div Block = L + 1
      BY <3>1, <1>1, WholeBlocks
    <3>3. NumBlocks(T) = L + 1
      BY <3>1, <3>2, <1>4, <1>7 DEF NumBlocks
    <3>4. padded = input /\ input = BlockOf(Taken, L + 1)
      <4>1. idx # 0
        BY <2>2, <1>1
      <4> QED BY <4>1, <2>2, <1>2
    <3> QED BY <3>3, <3>4
  <2> QED BY <2>1, <2>2, <1>1
<1>9. \A k \in 1 .. L : BlockOf(S, k) = BlockOf(T, k)
  <2> SUFFICES ASSUME NEW k \in 1 .. L PROVE BlockOf(S, k) = BlockOf(T, k)
    OBVIOUS
  <2> DEFINE b == (k - 1) * Block
  <2>1. k - 1 \in Nat /\ (k - 1) + 1 = k /\ k \in Nat /\ k <= L
    BY <1>1
  <2>2. b \in Nat /\ b + Block = k * Block
    BY <2>1, <1>1, BlocksMonotone
  <2>3. b + Block <= pos
    BY <2>1, <2>2, <1>1, <1>7, BlocksMonotone
  <2>4. Cut(T, b) = Cut(S, b)
    BY <2>2, <2>3, <1>3, CutOfTaken DEF Taken
  <2>5. BlockOf(S, (k - 1) + 1) = Cut(S, b) /\ BlockOf(T, (k - 1) + 1) = Cut(T, b)
    BY <2>1, BlockIsCut
  <2> QED BY <2>1, <2>4, <2>5
<1>10. \A k \in 1 .. L + 1 :
         Append(hash, [block |-> padded, at |-> pos, last |-> TRUE])[k]
           = [block |-> BlockOf(T, k),
              at    |-> IF k = NumBlocks(T) THEN Len(T) ELSE k * Block,
              last  |-> k = NumBlocks(T)]
  <2> DEFINE last == [block |-> padded, at |-> pos, last |-> TRUE]
  <2> SUFFICES ASSUME NEW k \in 1 .. L + 1
               PROVE  Append(hash, last)[k]
                        = [block |-> BlockOf(T, k),
                           at    |-> IF k = NumBlocks(T) THEN Len(T) ELSE k * Block,
                           last  |-> k = NumBlocks(T)]
    OBVIOUS
  <2>1. CASE k = L + 1
    <3>1. Append(hash, last)[k] = last
      BY <2>1, <1>1
    <3> QED BY <2>1, <3>1, <1>4, <1>8
  <2>2. CASE k # L + 1
    <3>1. k \in 1 .. L
      BY <2>2, <1>1
    <3>2. Append(hash, last)[k] = hash[k]
      BY <3>1, <1>1
    <3>3. hash[k] = [block |-> BlockOf(T, k), at |-> k * Block, last |-> FALSE]
      BY <3>1, <1>2, <1>9
    <3>4. (k = NumBlocks(T)) = FALSE
      BY <2>2, <1>8
    <3> QED BY <3>2, <3>3, <3>4
  <2> QED BY <2>1, <2>2
<1>11. Append(hash, [block |-> padded, at |-> pos, last |-> TRUE])
         = [k \in 1 .. L + 1 |->
              [block |-> BlockOf(T, k),
               at    |-> IF k = NumBlocks(T) THEN Len(T) ELSE k * Block,
               last  |-> k = NumBlocks(T)]]
  <2> DEFINE e == [block |-> padded, at |-> pos, last |-> TRUE]
  <2>1. padded \in Buffer
    <3>1. Zero \in Buffer
      BY DEF Zero, Buffer, Byte
    <3> QED BY <3>1, <1>1
  <2>2. e \in Entry
    BY <2>1, <1>1 DEF Entry
  <2>3. Append(hash, e) \in Seq(Entry) /\ Len(Append(hash, e)) = L + 1
    BY <2>2, <1>1
  <2>4. Append(hash, e) = [k \in 1 .. L + 1 |-> Append(hash, e)[k]]
    BY <2>3
  <2> QED BY <2>4, <1>10
<1> QED BY <1>6, <1>8, <1>11 DEF Blake2b

\* crypto_blake2b_final
LEMMA FinalIInv ==
    ASSUME IInv, Final
    PROVE  IInv'
<1>1. /\ Block \in Nat \ {0} /\ 0 \in 0 .. OffsetWord - 1 /\ 0 \in 0 .. Block
      /\ Zero \in Buffer /\ key \in Keys \cup {<<>>} /\ live /\ idle
  BY SizesAssumption DEF IInv, BlakeTypeOK, Final, Zero, Buffer, Byte
<1>2. /\ live' = FALSE /\ hash' = <<>> /\ offset' = <<0, 0>> /\ input' = Zero
      /\ idx' = 0 /\ pos' = 0 /\ stop' = 0 /\ end' = 0 /\ key' = key
  BY DEF Final
<1>3. digest' = [key |-> key, size |-> pos, value |-> Blake2b(Taken)]
  BY <1>1, FinalDigest DEF Final
<1>4. BlakeTypeOK'
  <2>1. offset' \in (0 .. OffsetWord - 1) \X (0 .. OffsetWord - 1) /\ input' \in Buffer /\ idx' \in 0 .. Block
    BY <1>1, <1>2
  <2>2. live' \in BOOLEAN /\ key' \in Keys \cup {<<>>}
    BY <1>1, <1>2
  <2> QED BY <2>1, <2>2, <1>2 DEF BlakeTypeOK
<1>5. hash' \in Seq(Entry) /\ CallInStream' /\ LoopAligns' /\ ContextIsCanonical'
  BY <1>2 DEF CallInStream, LoopAligns, ContextIsCanonical
<1>6. DigestIsReference'
  BY <1>3 DEF DigestIsReference, Taken
<1> QED BY <1>4, <1>5, <1>6 DEF IInv

\* No step breaks the invariant.
LEMMA NextIInv == IInv /\ [BlakeNext]_blakeVars => IInv'
<1> SUFFICES ASSUME IInv, [BlakeNext]_blakeVars PROVE IInv'
  OBVIOUS
<1>1. CASE \E k \in Keys : GeneralInit(k)
  BY <1>1, GeneralInitIInv
<1>2. CASE \E n \in 1 .. Len(Message) : Update(n)
  BY <1>2, UpdateIInv
<1>3. CASE TakeByte
  BY <1>3, TakeByteIInv
<1>4. CASE TakeBlock
  BY <1>4, TakeBlockIInv
<1>5. CASE TakeRest
  BY <1>5, TakeRestIInv
<1>6. CASE Final
  BY <1>6, FinalIInv
<1>7. CASE UNCHANGED blakeVars
  <2>1. UNCHANGED <<live, hash, offset, input, idx, key, pos, stop, end, digest>>
    BY <1>7 DEF blakeVars
  <2>2. BlakeTypeOK' /\ hash' \in Seq(Entry) /\ CallInStream' /\ LoopAligns'
    BY <2>1 DEF IInv, BlakeTypeOK, CallInStream, LoopAligns
  <2>3. ContextIsCanonical'
    BY <2>1 DEF IInv, ContextIsCanonical, Taken
  <2> QED BY <2>1, <2>2, <2>3, DigestKept DEF IInv
<1> QED BY <1>1, <1>2, <1>3, <1>4, <1>5, <1>6, <1>7 DEF BlakeNext

\* The invariant holds in every behaviour of the context.
LEMMA Blake2bInvariant == BlakeSpec => []IInv
<1> QED BY InitIInv, NextIInv, PTL DEF BlakeSpec

\* The context stays well-typed: crypto_blake2b_ctx never has more than a
\* block in its buffer and its offset words never leave their range.
THEOREM Blake2bTypeCorrect == BlakeSpec => []BlakeTypeOK
<1>1. IInv => BlakeTypeOK
  BY DEF IInv
<1> QED BY <1>1, Blake2bInvariant, PTL

\* The context is a function of the bytes it took (crypto_blake2b_update): no
\* split into calls, no stale buffer and no carry of the offset shows in it.
THEOREM Blake2bContextCanonical == BlakeSpec => []ContextIsCanonical
<1>1. IInv => ContextIsCanonical
  BY DEF IInv
<1> QED BY <1>1, Blake2bInvariant, PTL

\* crypto_blake2b_final delivers the hash of the message in one piece.
THEOREM Blake2bDigestCorrect == BlakeSpec => []DigestIsReference
<1>1. IInv => DigestIsReference
  BY DEF IInv
<1> QED BY <1>1, Blake2bInvariant, PTL
=============================================================================
