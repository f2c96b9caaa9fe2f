---------------------------- MODULE MonoPoly1305 ----------------------------
(***************************************************************************)
(* The incremental Poly1305 of Monocypher (monocypher.c, crypto_poly1305_  *)
(* init / _update / _final), word for word: the accumulator is five words, *)
(* every sum is cut to the width of its C type, and a carry is a division. *)
(*                                                                         *)
(* The code is written for words of 32 bits, of which r keeps 28; words of *)
(* W values, of which r keeps W \div 16, follow the same steps for         *)
(* 4 * W^4 - 5 instead of 2^130 - 5.                                       *)
(***************************************************************************)
EXTENDS Integers, Sequences

CONSTANTS
    W,         \* values of a u32: 2^32; a u64 has W * W
    ByteSize,  \* values of a byte: 256
    Texts,     \* the messages callers authenticate
    MacKeys    \* the keys: records of the words of r, before clamping, and pad

PolyBlock == 16
U32(x) == x % W
U64(x) == x % (W * W)

ASSUME PolyAssumption ==
    /\ W \in Nat /\ W > 0 /\ W % 16 = 0
    /\ ByteSize \in Nat \ {0} /\ W = ByteSize * ByteSize * ByteSize * ByteSize
    /\ Texts \subseteq Seq(0 .. ByteSize - 1)
    /\ MacKeys \subseteq [r : [0 .. 3 -> 0 .. W - 1], pad : [0 .. 3 -> 0 .. W - 1]]

VARIABLES
    started,  \* the context is between its init and its final
    text,     \* the message of the current computation
    r, pad,   \* the two halves of the key, r clamped
    h,        \* the accumulator
    c,        \* the chunk being filled, with its final 1 in c[4]
    c_idx,    \* how many bytes of it are filled
    taken,    \* bytes of the message taken
    byteEnd,  \* where the byte loop of the current call ends
    callEnd,  \* where the current call ends
    tag       \* the tag just made, with what it authenticates

polyVars == <<started, text, r, pad, h, c, c_idx, taken, byteEnd, callEnd, tag>>

NoWords == [i \in 0 .. 4 |-> 0]

(* poly_block.  x0 .. x4, the sums before the carries, are kept apart, so  *)
(* that what they may reach can be stated.                                 *)
Sum(hh, cc, k) ==
    LET s(i)  == hh[i] + cc[i]
        rr(i) == (r[i] \div 4) * 5
    IN  CASE k = 0 -> s(0)*r[0] + s(1)*rr(3) + s(2)*rr(2) + s(3)*rr(1) + s(4)*rr(0)
          [] k = 1 -> s(0)*r[1] + s(1)*r[0] + s(2)*rr(3) + s(3)*rr(2) + s(4)*rr(1)
          [] k = 2 -> s(0)*r[2] + s(1)*r[1] + s(2)*r[0] + s(3)*rr(3) + s(4)*rr(2)
          [] k = 3 -> s(0)*r[3] + s(1)*r[2] + s(2)*r[1] + s(3)*r[0] + s(4)*rr(3)
          [] k = 4 -> s(4) * (r[0] % 4)

BlockStep(hh, cc) ==
    LET x(k) == U64(Sum(hh, cc, k))
        u5 == U32(U32(x(4)) + (x(3) \div W))
        u0 == (u5 \div 4) * 5 + U32(x(0))
        u1 == (u0 \div W) + U32(x(1)) + (x(0) \div W)
        u2 == (u1 \div W) + U32(x(2)) + (x(1) \div W)
        u3 == (u2 \div W) + U32(x(3)) + (x(2) \div W)
        u4 == (u3 \div W) + (u5 % 4)
    IN  [i \in 0 .. 4 |-> CASE i = 0 -> U32(u0) [] i = 1 -> U32(u1)
                            [] i = 2 -> U32(u2) [] i = 3 -> U32(u3)
                            [] i = 4 -> U32(u4)]

\* What a byte of a word counts for
Place == <<1, ByteSize, ByteSize * ByteSize, ByteSize * ByteSize * ByteSize>>

\* poly_take_input
TakeInput(cc, i, byte) ==
    [cc EXCEPT ![i \div 4] = @ + byte * Place[(i % 4) + 1]]

\* poly_clear_c leaves c[4] alone
Cleared(cc) == [NoWords EXCEPT ![4] = cc[4]]

\* load32_le of the bytes of s after the first n
Load32(s, n) ==
    s[n + 1] + ByteSize * (s[n + 2] + ByteSize * (s[n + 3] + ByteSize * s[n + 4]))

\* load32_le_buf of the PolyBlock bytes of s after the first n
LoadedChunk(cc, s, n) ==
    [i \in 0 .. 4 |-> IF i = 4 THEN cc[4] ELSE Load32(s, n + 4 * i)]

\* The second loop of crypto_poly1305_final: first + hh + pad, low words only
AddPad(hh, first) ==
    LET s0 == first + hh[0] + pad[0]
        s1 == (s0 \div W) + hh[1] + pad[1]
        s2 == (s1 \div W) + hh[2] + pad[2]
        s3 == (s2 \div W) + hh[3] + pad[3]
    IN  [i \in 0 .. 3 |-> CASE i = 0 -> U32(s0) [] i = 1 -> U32(s1)
                            [] i = 2 -> U32(s2) [] i = 3 -> U32(s3)]

\* Mutant: the prime is never subtracted.
FinalTagUnreduced(hh) == AddPad(hh, 0)

\* The first loop propagates the carry of hh + 5: it leaves how many times the
\* prime is to be subtracted, which is to add 5 and drop what is above W^4.
FinalTag(hh) ==
    LET t0 == (5  + hh[0]) \div W
        t1 == (t0 + hh[1]) \div W
        t2 == (t1 + hh[2]) \div W
        t3 == (t2 + hh[3]) \div W
    IN  AddPad(hh, ((t3 + hh[4]) \div 4) * 5)

Smaller(a, b) == IF a < b THEN a ELSE b

NoTag == [of |-> <<>>, r |-> <<>>, pad |-> <<>>, value |-> <<>>]

between == taken = callEnd

\* Mutant: the top bits stay.
ClampedLow(words) == [i \in 0 .. 3 |-> IF i = 0 THEN words[i] ELSE words[i] - (words[i] % 4)]

\* r &= 0x0fffffff, and 0x0ffffffc for the three upper words
Clamped(words) ==
    [i \in 0 .. 3 |->
        LET low == words[i] % (W \div 16)
        IN  IF i = 0 THEN low ELSE low - (low % 4)]

\* crypto_poly1305_init
PolyStart(k, t) ==
    /\ between
    /\ started' = TRUE /\ text' = t
    /\ r' = Clamped(k.r)
    /\ pad' = k.pad
    /\ h' = NoWords
    /\ c' = [NoWords EXCEPT ![4] = 1] /\ c_idx' = 0
    /\ taken' = 0 /\ byteEnd' = 0 /\ callEnd' = 0
    /\ tag' = NoTag

\* crypto_poly1305_update is called with the next n bytes
PolyUpdate(n) ==
    /\ started /\ between
    /\ n > 0 /\ taken + n <= Len(text)
    /\ byteEnd' = taken + Smaller((-c_idx) % PolyBlock, n)
    /\ callEnd' = taken + n
    /\ UNCHANGED <<started, text, r, pad, h, c, c_idx, taken, tag>>

\* poly_update, one byte
PolyByte ==
    /\ taken < byteEnd
    /\ LET cc == TakeInput(c, c_idx, text[taken + 1])
       IN  IF c_idx + 1 = PolyBlock
           THEN h' = BlockStep(h, cc) /\ c' = Cleared(cc) /\ c_idx' = 0
           ELSE c' = cc /\ c_idx' = c_idx + 1 /\ UNCHANGED h
    /\ taken' = taken + 1
    /\ UNCHANGED <<started, text, r, pad, byteEnd, callEnd, tag>>

\* The loop over whole blocks, one block; the chunk is cleared after the last.
PolyWhole ==
    /\ taken = byteEnd /\ callEnd - taken >= PolyBlock
    /\ LET cc == LoadedChunk(c, text, taken)
       IN  /\ h' = BlockStep(h, cc)
           /\ IF callEnd - taken < 2 * PolyBlock
              THEN c' = Cleared(cc) /\ c_idx' = 0
              ELSE c' = cc /\ UNCHANGED c_idx
    /\ taken' = taken + PolyBlock
    /\ byteEnd' = taken'
    /\ UNCHANGED <<started, text, r, pad, callEnd, tag>>

\* Fewer bytes than a block remain
PolyRest ==
    /\ taken = byteEnd /\ 0 < callEnd - taken /\ callEnd - taken < PolyBlock
    /\ byteEnd' = callEnd
    /\ UNCHANGED <<started, text, r, pad, h, c, c_idx, taken, callEnd, tag>>

\* crypto_poly1305_final, which wipes the context
PolyFinal ==
    /\ started /\ between
    /\ LET last == TakeInput([c EXCEPT ![4] = 0], c_idx, 1)
       IN  tag' = [of |-> SubSeq(text, 1, taken), r |-> r, pad |-> pad,
                   value |-> FinalTag(IF c_idx = 0 THEN h ELSE BlockStep(h, last))]
    /\ started' = FALSE /\ text' = <<>>
    /\ r' = [i \in 0 .. 3 |-> 0] /\ pad' = r' /\ h' = NoWords /\ c' = NoWords
    /\ c_idx' = 0 /\ taken' = 0 /\ byteEnd' = 0 /\ callEnd' = 0

PolyInit ==
    /\ started = FALSE /\ text = <<>>
    /\ r = [i \in 0 .. 3 |-> 0] /\ pad = r
    /\ h = NoWords /\ c = NoWords /\ c_idx = 0
    /\ taken = 0 /\ byteEnd = 0 /\ callEnd = 0
    /\ tag = NoTag

PolyNext ==
    \/ \E k \in MacKeys, t \in Texts : PolyStart(k, t)
    \/ \E n \in 1 .. Len(text) : PolyUpdate(n)
    \/ PolyByte
    \/ PolyWhole
    \/ PolyRest
    \/ PolyFinal

PolySpec == PolyInit /\ [][PolyNext]_polyVars

----------------------------------------------------------------------------
(* Poly1305 as it is defined: a polynomial in r modulo 4 * W^4 - 5.  A     *)
(* number below 8 * W^4 is a pair of digits in base W * W, the lower first.*)

Base == W * W
Prime == <<Base - 5, 4 * Base - 1>>

Carried(a) == <<a[1] % Base, a[2] + (a[1] \div Base)>>

Less(a, b) == a[2] < b[2] \/ (a[2] = b[2] /\ a[1] < b[1])

Minus(a, b) ==
    IF a[1] >= b[1] THEN <<a[1] - b[1], a[2] - b[2]>>
                    ELSE <<a[1] + Base - b[1], a[2] - b[2] - 1>>

\* The remainder of a pair whose digits may be larger than the base: what is
\* above 4 * Base * Base comes back five times.
Remainder(a) ==
    LET n == Carried(a)
        m == Carried(<<n[1] + 5 * (n[2] \div (4 * Base)), n[2] % (4 * Base)>>)
    IN  IF Less(m, Prime) THEN m ELSE Minus(m, Prime)

NumberOf(w) == <<w[0] + W * w[1], w[2] + W * w[3] + W * W * w[4]>>

Plus(a, b) == <<a[1] + b[1], a[2] + b[2]>>

\* a * m modulo the prime, m being four words
ShiftAdd(x, a, word) == Remainder(<<W * x[1] + word * a[1], W * x[2] + word * a[2]>>)

Times(a, m) ==
    ShiftAdd(ShiftAdd(ShiftAdd(ShiftAdd(<<0, 0>>, a, m[3]), a, m[2]), a, m[1]), a, m[0])

\* The number of the k-th chunk of s, a 1 behind its last byte
ChunkNumber(s, k) ==
    LET from == (k - 1) * PolyBlock
        size == Smaller(PolyBlock, Len(s) - from)
        byte(j) == IF j < size THEN s[from + j + 1] ELSE IF j = size THEN 1 ELSE 0
        word(i) == byte(4 * i) + ByteSize * (byte(4 * i + 1)
                     + ByteSize * (byte(4 * i + 2) + ByteSize * byte(4 * i + 3)))
    IN  NumberOf([i \in 0 .. 4 |-> word(i)])

Chunks(s) == (Len(s) + PolyBlock - 1) \div PolyBlock

\* The polynomial of the first k chunks of s, at k, under the clamped words m
Polynomial(s, m) ==
    LET acc[k \in 0 .. Chunks(s)] ==
            IF k = 0 THEN <<0, 0>>
            ELSE Times(Remainder(Plus(acc[k - 1], ChunkNumber(s, k))), m)
    IN  acc

\* The tag of s under the clamped words m and the words p
Poly1305(s, m, p) ==
    LET whole == Carried(Plus(Polynomial(s, m)[Chunks(s)],
                              NumberOf([i \in 0 .. 4 |-> IF i = 4 THEN 0 ELSE p[i]])))
    IN  <<whole[1], whole[2] % Base>>

----------------------------------------------------------------------------

PolyTypeOK ==
    /\ started \in BOOLEAN
    /\ r \in [0 .. 3 -> 0 .. W - 1] /\ pad \in [0 .. 3 -> 0 .. W - 1]
    /\ h \in [0 .. 4 -> 0 .. W - 1] /\ c \in [0 .. 4 -> 0 .. W - 1]
    /\ c_idx \in 0 .. PolyBlock - 1
    /\ taken \in Nat /\ taken <= byteEnd /\ byteEnd <= callEnd

\* The bounds the comments of poly_block state: before any block the
\* accumulator is at most 4_ffff..., whatever comes next the sums fit in 64
\* bits, the last one in 32, and the accumulator stays within its bound.
SumsFit ==
    started =>
      /\ h[4] <= 4
      /\ \A fill \in {0, W - 1}, top \in {0, 1} :
           LET cc == [i \in 0 .. 4 |-> IF i = 4 THEN top ELSE fill]
           IN  /\ \A k \in 0 .. 2 : Sum(h, cc, k) < W * W - W
               /\ Sum(h, cc, 3) + Sum(h, cc, 4) * W < W * W
               /\ BlockStep(h, cc)[4] <= 4

\* The tag of a message given in any number of calls of any sizes is the
\* value of the polynomial for its bytes in one piece.
TagIsReference ==
    tag # NoTag =>
        NumberOf([i \in 0 .. 4 |-> IF i = 4 THEN 0 ELSE tag.value[i]])
            = Poly1305(tag.of, tag.r, tag.pad)
=============================================================================
