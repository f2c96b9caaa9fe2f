----------------------------- MODULE MonoChacha -----------------------------
(***************************************************************************)
(* The counter of Monocypher's Chacha20 (monocypher.c, crypto_chacha20_ctr *)
(* and crypto_ietf_chacha20_ctr): which block of the key stream each byte  *)
(* of a long text is encrypted with, when the text is given in pieces and  *)
(* each call goes on from the counter the one before returned.             *)
(*                                                                         *)
(* The rounds are a permutation of the input block, so a byte of the key   *)
(* stream is named by its block, the words 12 and 13 of the input, and its *)
(* place in the block.                                                     *)
(***************************************************************************)
EXTENDS Integers, Sequences

CONSTANTS
    StreamBlock,   \* bytes of a block: 64
    CounterWord,   \* values of a u32: 2^32; the counter is a u64
    StreamMax,     \* bound on the length of a text
    Starts,        \* the counters callers start with
    NonceWords     \* first words of the nonces of the IETF variant

\* A text has fewer blocks than there are counters.
ASSUME ChachaAssumption ==
    /\ StreamBlock \in Nat \ {0}
    /\ CounterWord \in Nat \ {0, 1}
    /\ StreamMax \in Nat /\ StreamMax < CounterWord * CounterWord
    /\ Starts \subseteq 0 .. CounterWord * CounterWord - 1
    /\ NonceWords \subseteq 0 .. CounterWord - 1

VARIABLES
    ietf,    \* the IETF variant is called, whose counter is a u32
    start,   \* the counter of the first call, all 64 bits
    ctr,     \* the counter of the next call
    words,   \* input[12] and input[13]
    rest,    \* text_size: what the current call has still to do
    running, \* a call is running
    used,    \* the bytes of the key stream used, in order
    whole    \* every call before the last one ended with a block

chachaVars == <<ietf, start, ctr, words, rest, running, used, whole>>

\* The first n bytes of the block of words w
BlockBytes(w, n) == [i \in 1 .. n |-> <<w, i - 1>>]

\* Mutant: the carry is lost.
NextWordsWithoutCarry(w) == <<(w[1] + 1) % CounterWord, w[2]>>

\* input[12]++, and input[13]++ when it wraps
NextWords(w) ==
    LET low == (w[1] + 1) % CounterWord
    IN  <<low, IF low = 0 THEN (w[2] + 1) % CounterWord ELSE w[2]>>

ValueOf(w) == w[1] + CounterWord * w[2]

\* The counter a call starts with: crypto_ietf_chacha20_ctr puts the first
\* word of the nonce in the high word.
FirstWords(counter) ==
    IF ietf THEN <<counter, start \div CounterWord>>
            ELSE <<counter % CounterWord, counter \div CounterWord>>

\* What a call returns: a u64, or the u32 the IETF variant cuts it to.
Returned(counter) ==
    counter % (IF ietf THEN CounterWord ELSE CounterWord * CounterWord)

\* Mutant: an incomplete block is not counted.
AfterWhole(w, n) == ValueOf(w)

\* The counter after n more bytes, fewer than a block
After(w, n) == ValueOf(w) + (IF n > 0 THEN 1 ELSE 0)

\* A call with the next n bytes of the text
ChachaCall(n) ==
    /\ ~running /\ Len(used) + n <= StreamMax
    /\ words' = FirstWords(ctr)
    /\ rest' = n
    /\ running' = TRUE
    /\ whole' = (whole /\ Len(used) % StreamBlock = 0)
    /\ UNCHANGED <<ietf, start, ctr, used>>

\* One whole block
ChachaBlock ==
    /\ running /\ rest >= StreamBlock
    /\ used' = used \o BlockBytes(words, StreamBlock)
    /\ words' = NextWords(words)
    /\ rest' = rest - StreamBlock
    /\ UNCHANGED <<ietf, start, ctr, running, whole>>

\* The last, incomplete block, and the return
ChachaReturns ==
    /\ running /\ rest < StreamBlock
    /\ used' = used \o BlockBytes(words, rest)
    /\ ctr' = Returned(After(words, rest))
    /\ rest' = 0 /\ words' = <<0, 0>> /\ running' = FALSE
    /\ UNCHANGED <<ietf, start, whole>>

ChachaInit ==
    /\ \/ ietf = FALSE /\ start \in Starts /\ ctr = start
       \/ /\ ietf = TRUE
          /\ \E word \in NonceWords, counter \in 0 .. CounterWord - 1 :
               start = counter + CounterWord * word /\ ctr = counter
    /\ words = <<0, 0>> /\ rest = 0 /\ running = FALSE
    /\ used = <<>> /\ whole = TRUE

ChachaNext ==
    \/ \E n \in 1 .. StreamMax : ChachaCall(n)
    \/ ChachaBlock
    \/ ChachaReturns

ChachaSpec == ChachaInit /\ [][ChachaNext]_chachaVars

----------------------------------------------------------------------------
(* The key stream of one call for a whole text                             *)

KeyStream(counter, n) ==
    [i \in 1 .. n |->
        LET block == (counter + ((i - 1) \div StreamBlock))
                        % (CounterWord * CounterWord)
        IN  <<<<block % CounterWord, block \div CounterWord>>, (i - 1) % StreamBlock>>]

\* The IETF counter has not come to its last value: a key and a nonce serve
\* for at most 2^32 blocks.
WithinCounter ==
    ietf => \A i \in DOMAIN used : used[i][1][1] # CounterWord - 1

ChachaTypeOK ==
    /\ ietf \in BOOLEAN /\ running \in BOOLEAN /\ whole \in BOOLEAN
    /\ start \in 0 .. CounterWord * CounterWord - 1
    /\ ctr \in 0 .. (IF ietf THEN CounterWord ELSE CounterWord * CounterWord) - 1
    /\ words \in (0 .. CounterWord - 1) \X (0 .. CounterWord - 1)
    /\ rest \in Nat /\ Len(used) + rest <= StreamMax

\* No byte of the key stream is used twice, whatever the pieces: a call that
\* ends within a block leaves the rest of the block unused.
KeystreamUsedOnce ==
    WithinCounter =>
        \A i, j \in DOMAIN used : used[i] = used[j] => i = j

\* As long as every call but the last one took whole blocks, the pieces are
\* encrypted as the whole text would be, also across the carry between the
\* two words of the counter.
PiecesAreWhole ==
    (whole /\ WithinCounter) => used = KeyStream(start, Len(used))
=============================================================================
