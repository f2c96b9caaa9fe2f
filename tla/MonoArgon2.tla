----------------------------- MODULE MonoArgon2 -----------------------------
(***************************************************************************)
(* Argon2i of Monocypher (monocypher.c, crypto_argon2i_general): the order *)
(* in which the blocks of the work area are filled, the block each one is  *)
(* mixed with (gidx_init, gidx_next), and the hash of any size made of the *)
(* last block at the end (extended_hash).                                  *)
(*                                                                         *)
(* The content of a block is how many times it has been filled; 0 is what  *)
(* the caller's memory held.  A pseudo-random word is any 32-bit value, as *)
(* the stream that produces it is a hash of public numbers; what is kept   *)
(* of the stream is which of its words is used.  A byte of the output is   *)
(* the number of the hash it comes from, 1 for the hash of the input, and  *)
(* its place in it; hash 0 is anything else.                               *)
(***************************************************************************)
EXTENDS Integers

CONSTANTS
    Asks,        \* the values of nb_blocks callers give
    Iterations,  \* nb_iterations
    PoolWords,   \* pseudo-random words in a pool block: 128
    WordSize,    \* values of a u32: 2^32
    Half,        \* half the bytes of a Blake2b hash: 32
    HashSizes    \* the values of hash_size callers give

\* monocypher.h: nb_blocks >= 8 (nb_iterations >= 3 is not needed here).
ASSUME ArgonAssumption ==
    /\ WordSize \in Nat
    /\ Asks \subseteq 8 .. WordSize - 1
    /\ Iterations \in Nat \ {0}
    /\ PoolWords \in Nat /\ PoolWords > 2
    /\ Half \in Nat \ {0}
    /\ HashSizes \subseteq Nat \ {0}

VARIABLES
    nb,       \* nb_blocks, rounded down
    filled,   \* filled[b]: how many times block b has been filled
    pass,     \* pass_number
    segment,  \* segment
    current,  \* current_block
    gidx_ctr,      \* gidx_ctx.ctr: which pool block the index stream is at
    gidx_offset,   \* gidx_ctx.offset: position in the segment
    last,     \* what the last iteration read: word, previous, reference
    size,     \* digest_size of the extended hash, 0 before it
    made,     \* its hashes so far: i
    hashed    \* the bytes of the digest written so far

argonVars == <<nb, filled, pass, segment, current, gidx_ctr, gidx_offset, last,
               size, made, hashed>>

SegmentSize == nb \div 4

LesserSize(a, b) == IF a < b THEN a ELSE b

NoRead == [word |-> <<0, 0>>, previous |-> 0, reference |-> 0]

(* gidx_init: the first segment of the first pass starts at its third      *)
(* block, with the pool block that gidx_next would have created before it. *)
GidxInit(p, s) ==
    IF p # 0 \/ s # 0 THEN gidx_offset' = 0 /\ gidx_ctr' = 0
                      ELSE gidx_offset' = 2 /\ gidx_ctr' = 1

\* Mutant: only at the start of the segment.
RefreshedOnce == IF gidx_offset = 0 THEN gidx_ctr + 1 ELSE gidx_ctr

\* gidx_next creates the pool block lazily
Refreshed == IF gidx_offset % PoolWords = 0 THEN gidx_ctr + 1 ELSE gidx_ctr

\* Mutant: the block before the current one is in the area.
AreaSizeWhole ==
    ((IF pass = 0 THEN segment ELSE 3) * SegmentSize + gidx_offset) % WordSize

AreaSize ==
    LET nb_segments == IF pass = 0 THEN segment ELSE 3
    IN  (nb_segments * SegmentSize + gidx_offset - 1) % WordSize

StartPos == IF pass = 0 THEN 0 ELSE ((segment + 1) % 4) * SegmentSize

\* The block that pseudo-random number j1 selects
Reference(j1) ==
    LET x   == (j1 * j1) \div WordSize
        y   == (AreaSize * x) \div WordSize
        z   == AreaSize - 1 - y
        ref == StartPos + z
    IN  IF ref < nb THEN ref ELSE ref - nb

Previous == IF current = 0 THEN nb - 1 ELSE current - 1

\* start_offset
FirstOffset == IF pass = 0 /\ segment = 0 THEN 2 ELSE 0

SegmentStart(p, s) == s * SegmentSize + (IF p = 0 /\ s = 0 THEN 2 ELSE 0)
SegmentEnd == (segment + 1) * SegmentSize

\* The first two blocks come from the password, the rest from what is there.
ArgonInit ==
    /\ \E asked \in Asks : nb = asked - (asked % 4)
    /\ filled = [b \in 0 .. nb - 1 |-> IF b < 2 THEN 1 ELSE 0]
    /\ pass = 0 /\ segment = 0 /\ current = 2
    /\ gidx_offset = 2 /\ gidx_ctr = 1
    /\ last = NoRead
    /\ size = 0 /\ made = 0 /\ hashed = <<>>

\* One iteration of the inner loop: gidx_next, then g_copy or g_xor.
FillBlock ==
    /\ pass < Iterations /\ current < SegmentEnd
    /\ \E j1 \in 0 .. WordSize - 1 :
         last' = [word |-> <<Refreshed, gidx_offset % PoolWords>>,
                  previous |-> Previous, reference |-> Reference(j1)]
    /\ filled' = [filled EXCEPT ![current] = @ + 1]
    /\ gidx_ctr' = Refreshed
    /\ gidx_offset' = gidx_offset + 1
    /\ current' = current + 1
    /\ UNCHANGED <<nb, pass, segment, size, made, hashed>>

\* The next segment, of this pass or of the next one; after the last pass
\* what gidx_init would set is read by nothing.
NextSegment ==
    /\ pass < Iterations /\ current = SegmentEnd
    /\ segment' = (segment + 1) % 4
    /\ pass' = IF segment = 3 THEN pass + 1 ELSE pass
    /\ current' = SegmentStart(pass', segment')
    /\ GidxInit(pass', segment')
    /\ UNCHANGED <<nb, filled, last, size, made, hashed>>

\* The hash of the bytes i .. i + 2 * Half - 1 of the digest
HashOfOutput(i) ==
    IF \E v \in 1 .. made : \A j \in 0 .. 2 * Half - 1 : hashed[i + j] = <<v, j>>
    THEN hashed[i][1] + 1
    ELSE 0

\* n bytes of hash v are written from byte i on
Written(i, v, n) ==
    [b \in DOMAIN hashed \cup (i .. i + n - 1) |->
        IF b \in i .. i + n - 1 THEN <<v, b - i>> ELSE hashed[b]]

\* Mutant: one hash too many.
LastHashMore == ((size + Half - 1) \div Half) - 1

\* extended_hash: r
LastHash == ((size + Half - 1) \div Half) - 2

\* extended_hash of the last block, its first hash
ExtendedHash(d) ==
    /\ pass = Iterations /\ size = 0
    /\ size' = d /\ made' = 1
    /\ hashed' = [b \in 0 .. LesserSize(d, 2 * Half) - 1 |-> <<1, b>>]
    /\ UNCHANGED <<nb, filled, pass, segment, current, gidx_ctr, gidx_offset, last>>

\* Its loop: a whole hash, half of which the next one will overwrite.
HashHalf ==
    /\ size > 2 * Half /\ made < LastHash
    /\ hashed' = Written(Half * made, HashOfOutput(Half * (made - 1)), 2 * Half)
    /\ made' = made + 1
    /\ UNCHANGED <<nb, filled, pass, segment, current, gidx_ctr, gidx_offset, last, size>>

\* Its last hash fills what is left of the digest.
HashRest ==
    /\ size > 2 * Half /\ made = LastHash
    /\ hashed' = Written(Half * made, HashOfOutput(Half * (made - 1)),
                         size - (Half * LastHash))
    /\ made' = made + 1
    /\ UNCHANGED <<nb, filled, pass, segment, current, gidx_ctr, gidx_offset, last, size>>

ArgonNext ==
    \/ FillBlock
    \/ NextSegment
    \/ \E d \in HashSizes : ExtendedHash(d)
    \/ HashHalf
    \/ HashRest

ArgonSpec == ArgonInit /\ [][ArgonNext]_argonVars
ArgonFairSpec == ArgonSpec /\ WF_argonVars(ArgonNext)

----------------------------------------------------------------------------

ArgonTypeOK ==
    /\ nb \in Nat /\ nb >= 8 /\ nb < WordSize /\ nb % 4 = 0
    /\ filled \in [0 .. nb - 1 -> Nat]
    /\ pass \in 0 .. Iterations /\ segment \in 0 .. 3
    /\ current \in 0 .. nb /\ gidx_ctr \in Nat /\ gidx_offset \in Nat
    /\ last \in [word : Nat \X Nat, previous : 0 .. nb - 1, reference : 0 .. nb - 1]
    /\ size \in Nat /\ made \in Nat

\* The work area behind the block being filled holds this pass, the rest of
\* it the pass before: no block is filled twice in a pass or skipped.
FilledInOrder ==
    \A b \in 0 .. nb - 1 : filled[b] = IF b < current THEN pass + 1 ELSE pass

\* The blocks a pass may refer to: in the first pass, all that are filled; in
\* the others, those of the three other segments and of this one; never the
\* block being filled nor the one before it, which is mixed in anyway.
ReferenceArea ==
    {b \in 0 .. nb - 1 :
        /\ b # Previous
        /\ IF pass = 0
           THEN b < current
           ELSE b < segment * SegmentSize \/ b >= SegmentEnd
                \/ (segment * SegmentSize <= b /\ b < current)}

\* Whatever the pseudo-random word, the reference block is one of the area
\* the algorithm defines: never memory that was not filled yet, never the
\* block being written.
ReferenceInArea ==
    (pass < Iterations /\ current < SegmentEnd) =>
        \A j1 \in 0 .. WordSize - 1 :
            Reference(j1) \in ReferenceArea /\ filled[Reference(j1)] > 0

\* The position in the segment and the pool agree: a block of the pool serves
\* PoolWords iterations, and the next one is created when it is used up.
PoolMatchesOffset ==
    /\ gidx_offset = current - (segment * SegmentSize)
    /\ (gidx_ctr - 1) * PoolWords < gidx_offset /\ gidx_offset <= gidx_ctr * PoolWords

\* Within a segment, every iteration uses a pseudo-random word that none
\* before it used.
WordsNotReused ==
    [][FillBlock /\ gidx_offset > FirstOffset =>
         LET old == last.word
             new == (last').word
         IN  old[1] < new[1] \/ (old[1] = new[1] /\ old[2] < new[2])]_argonVars

\* No hash is written past the end of the digest, and the digest ends up as
\* Argon2 defines it: the first halves of a chain of hashes, each the hash of
\* the one before it, and the whole of the last one.
DigestDone == size > 0 /\ (size <= 2 * Half \/ made > LastHash)

ExtendedHashIsChain ==
    /\ DOMAIN hashed \subseteq 0 .. size - 1
    /\ DigestDone =>
         hashed = [b \in 0 .. size - 1 |->
                     IF size <= 2 * Half THEN <<1, b>>
                     ELSE IF b < Half * LastHash THEN <<b \div Half + 1, b % Half>>
                     ELSE <<LastHash + 1, b - Half * LastHash>>]

\* crypto_argon2i_general ends, with every block filled in every pass.
ArgonFinishes ==
    <>[](DigestDone /\ \A b \in 0 .. nb - 1 : filled[b] = Iterations)
=============================================================================
