---------------------------- MODULE MonoBlake2b ----------------------------
(***************************************************************************)
(* The incremental Blake2b interface of Monocypher (monocypher.c,          *)
(* crypto_blake2b_general_init / _update / _final), which hashes every     *)
(* block, seed and public key of NanoSwift and every signed message.       *)
(*                                                                         *)
(* A byte is the set of its bits, so that |= is \cup and a zero byte is    *)
(* {}.  The compression function is free: the chaining value is the        *)
(* sequence of what has been compressed.  The loops of crypto_blake2b_     *)
(* update are taken one iteration at a time.                               *)
(***************************************************************************)
EXTENDS Integers, Sequences

CONSTANTS
    Block,    \* bytes in a block: 128
    OffsetWord,     \* values of a word of the input offset: 2^64
    Bits,     \* the bits of a byte
    Message,  \* the bytes the caller has to hash, in any number of calls
    Keys,     \* the keys it may hash them with, <<>> for no key
    Stale     \* what an uninitialised input buffer may hold

Byte   == SUBSET Bits
Buffer == [0 .. Block - 1 -> Byte]
Zero   == [i \in 0 .. Block - 1 |-> {}]

\* The incremental interface is used within these limits: a word of the
\* offset holds a block, the two words hold the message with its key block,
\* and a key fits in a block.
ASSUME SizesAssumption ==
    /\ Block \in Nat \ {0}
    /\ OffsetWord \in Nat /\ Block < OffsetWord
    /\ Message \in Seq(Byte)
    /\ Block + Len(Message) < OffsetWord * OffsetWord
    /\ Keys \subseteq {k \in Seq(Byte) : Len(k) <= Block}
    /\ Stale \subseteq Buffer

VARIABLES
    live,    \* the context is between its init and its final
    hash,    \* what has been compressed so far
    offset,  \* input_offset: <<low word, high word>>
    input,   \* the block being filled
    idx,     \* input_idx: how much of it is filled
    key,     \* the key of the current hash
    pos,     \* bytes taken by the context, the key block included
    stop,    \* where the byte loop of the current call ends
    end,     \* where the current call ends
    digest   \* the last digest delivered, with what was hashed

ctx  == <<live, hash, offset, input, idx>>
blakeVars == <<live, hash, offset, input, idx, key, pos, stop, end, digest>>

KeyBlock(k) == [i \in 1 .. Block |-> IF i <= Len(k) THEN k[i] ELSE {}]

\* The bytes a hash with key k reads: its key block, if any, and the message.
Stream(k) == IF k = <<>> THEN Message ELSE KeyBlock(k) \o Message

OffsetValue(o) == o[1] + OffsetWord * o[2]

\* Mutant: the carry is lost.
IncrWithoutCarry(o, y) == <<(o[1] + y) % OffsetWord, o[2]>>

\* blake2b_incr
Incr(o, y) ==
    LET low == (o[1] + y) % OffsetWord
    IN  <<low, IF low < y THEN (o[2] + 1) % OffsetWord ELSE o[2]>>

\* blake2b_compress
Compress(h, in, o, last) ==
    Append(h, [block |-> in, at |-> OffsetValue(o), last |-> last])

\* Mutant: the buffer is not cleaned.
SetInputUncleaned(in, byte, i) == [in EXCEPT ![i] = @ \cup byte]

\* blake2b_set_input
SetInput(in, byte, i) ==
    LET clean == IF i = 0 THEN Zero ELSE in
    IN  [clean EXCEPT ![i] = @ \cup byte]

\* blake2b_end_block: a full buffer is compressed only when a byte follows it
EndBlock ==
    IF idx = Block
    THEN /\ offset' = Incr(offset, idx)
         /\ hash' = Compress(hash, input, offset', FALSE)
    ELSE UNCHANGED <<offset, hash>>

NextIdx == IF idx = Block THEN 0 ELSE idx

\* align(x, Block)
Align(x) == (-x) % Block

LesserOf(a, b) == IF a < b THEN a ELSE b

idle == pos = end

\* crypto_blake2b_general_init, on a context in any state between two calls
GeneralInit(k) ==
    /\ idle
    /\ live' = TRUE /\ key' = k /\ hash' = <<>>
    /\ offset' = <<0, 0>>
    /\ IF k = <<>>
       THEN /\ idx' = 0
            /\ UNCHANGED input
       ELSE /\ idx' = Block
            /\ input' = [i \in 0 .. Block - 1 |-> KeyBlock(k)[i + 1]]
    /\ pos' = idx' /\ stop' = idx' /\ end' = idx'
    /\ UNCHANGED digest

\* crypto_blake2b_update is called with the next n bytes
Update(n) ==
    /\ live /\ idle
    /\ pos + n <= Len(Stream(key))
    /\ n > 0
    /\ stop' = pos + LesserOf(Align(idx), n)
    /\ end' = pos + n
    /\ UNCHANGED <<live, hash, offset, input, idx, key, pos, digest>>

\* blake2b_update, one byte: before and after the whole blocks
TakeByte ==
    /\ pos < stop
    /\ EndBlock
    /\ input' = SetInput(input, Stream(key)[pos + 1], NextIdx)
    /\ idx' = NextIdx + 1
    /\ pos' = pos + 1
    /\ UNCHANGED <<live, key, stop, end, digest>>

\* The loop over whole blocks, one block
TakeBlock ==
    /\ pos = stop /\ end - pos >= Block
    /\ EndBlock
    /\ input' = [i \in 0 .. Block - 1 |-> Stream(key)[pos + i + 1]]
    /\ idx' = Block
    /\ pos' = pos + Block
    /\ stop' = pos'
    /\ UNCHANGED <<live, key, end, digest>>

\* Mutant: the byte loop stops one short.
TakeRestButOne ==
    /\ pos = stop /\ 0 < end - pos /\ end - pos < Block
    /\ stop' = end - 1
    /\ UNCHANGED <<live, hash, offset, input, idx, key, pos, end, digest>>

\* Fewer bytes than a block remain
TakeRest ==
    /\ pos = stop /\ 0 < end - pos /\ end - pos < Block
    /\ stop' = end
    /\ UNCHANGED <<live, hash, offset, input, idx, key, pos, end, digest>>

\* crypto_blake2b_final: pad, compress the last block, wipe the context
Final ==
    /\ live /\ idle
    /\ LET padded == IF idx = 0 THEN Zero ELSE input
       IN  digest' = [key |-> key, size |-> pos,
                      value |-> Compress(hash, padded, Incr(offset, idx), TRUE)]
    /\ live' = FALSE
    /\ hash' = <<>> /\ offset' = <<0, 0>> /\ input' = Zero /\ idx' = 0
    /\ pos' = 0 /\ stop' = 0 /\ end' = 0
    /\ UNCHANGED key

NoDigest == [key |-> <<>>, size |-> -1, value |-> <<>>]

BlakeInit ==
    /\ live = FALSE
    /\ hash = <<>> /\ offset = <<0, 0>> /\ idx = 0 /\ input \in Stale
    /\ key = <<>> /\ pos = 0 /\ stop = 0 /\ end = 0
    /\ digest = NoDigest

BlakeNext ==
    \/ \E k \in Keys : GeneralInit(k)
    \/ \E n \in 1 .. Len(Message) : Update(n)
    \/ TakeByte
    \/ TakeBlock
    \/ TakeRest
    \/ Final

BlakeSpec == BlakeInit /\ [][BlakeNext]_blakeVars

\* A call runs its loops to the end.
BlakeFairSpec == BlakeSpec /\ WF_blakeVars(TakeByte \/ TakeBlock \/ TakeRest)

----------------------------------------------------------------------------
(* What Blake2b computes of a whole string at once.                        *)

NumBlocks(s) == IF s = <<>> THEN 1 ELSE (Len(s) + Block - 1) \div Block

BlockOf(s, k) ==
    [i \in 0 .. Block - 1 |->
        IF (k - 1) * Block + i + 1 <= Len(s) THEN s[(k - 1) * Block + i + 1]
        ELSE {}]

Blake2b(s) ==
    [k \in 1 .. NumBlocks(s) |->
        [block |-> BlockOf(s, k),
         at    |-> IF k = NumBlocks(s) THEN Len(s) ELSE k * Block,
         last  |-> k = NumBlocks(s)]]

Taken == SubSeq(Stream(key), 1, pos)

----------------------------------------------------------------------------

BlakeTypeOK ==
    /\ live \in BOOLEAN /\ key \in Keys \cup {<<>>}
    /\ offset \in (0 .. OffsetWord - 1) \X (0 .. OffsetWord - 1)
    /\ input \in Buffer /\ idx \in 0 .. Block
    /\ pos \in Nat /\ stop \in Nat /\ end \in Nat
    /\ pos <= stop /\ stop <= end

\* The context is a function of the bytes it has taken, however the caller
\* cut them into calls and whatever the buffer held before: the offset counts
\* what is compressed, every block compressed is the next one of the stream,
\* and the buffer holds the bytes after them, then zeroes.
ContextIsCanonical ==
    live =>
      /\ OffsetValue(offset) + idx = pos
      /\ OffsetValue(offset) = Len(hash) * Block
      /\ idx = 0 => pos = 0
      /\ \A k \in 1 .. Len(hash) :
           hash[k] = [block |-> BlockOf(Stream(key), k),
                      at |-> k * Block, last |-> FALSE]
      /\ idx > 0 => input = BlockOf(Taken, Len(hash) + 1)

\* The digest of a message hashed in any number of calls of any sizes is the
\* digest of its bytes in one piece, and no more than those bytes.
DigestIsReference ==
    digest # NoDigest =>
        digest.value = Blake2b(SubSeq(Stream(digest.key), 1, digest.size))

\* A call of crypto_blake2b_update comes back.
UpdateReturns == [](~idle => <>idle)
=============================================================================
