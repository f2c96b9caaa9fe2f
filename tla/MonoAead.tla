------------------------------ MODULE MonoAead ------------------------------
(***************************************************************************)
(* Authenticated encryption in Monocypher (monocypher.c, lock_auth,        *)
(* crypto_lock_aead, crypto_unlock_aead): a message is locked, the box is  *)
(* kept or sent, and what arrives is unlocked.                             *)
(*                                                                         *)
(* A byte is one bit.  The mac is the one-time key it is made with and the *)
(* bytes it covers, as two messages with one Poly1305 tag are not to be    *)
(* found; what is modelled is which bytes those are, which block of the    *)
(* key stream is spent on what, and in which order unlock does its work.   *)
(***************************************************************************)
EXTENDS MonoChacha

CONSTANTS
    SubKeys,      \* what crypto_hchacha20 makes of the keys and nonces in use
    MacKeyBytes,  \* bytes of a one-time key: half a block of the key stream
    TextMax,      \* bound on the length of texts and additional data
    Messages,     \* the messages to lock: additional data and text
    KeyByte(_, _) \* the byte of the key stream of a sub key at a place

Bit == {0, 1}
StreamBytes == ((0 .. CounterWord - 1) \X (0 .. CounterWord - 1)) \X (0 .. StreamBlock - 1)
Strings == UNION {[1 .. n -> Bit] : n \in 0 .. TextMax}

\* A size is a u64, of eight bits here; a text has fewer blocks than there
\* are counters.
ASSUME AeadAssumption ==
    /\ MacKeyBytes \in 1 .. StreamBlock
    /\ TextMax \in 0 .. 255 /\ TextMax < CounterWord * CounterWord
    /\ Messages \subseteq Strings \X Strings
    /\ \A k \in SubKeys, p \in StreamBytes : KeyByte(k, p) \in Bit

VARIABLES
    locked,  \* the messages locked: sub key, additional data, text, box
    spent,   \* the bytes of the key streams spent: sub key and place
    opened   \* what the last unlock was given and what came of it

aeadVars == <<locked, spent, opened>>

Xor(a, b) == (a + b) % 2

\* align(n, 16) zeroes
ZeroPad(n) == [i \in 1 .. (-n) % 16 |-> 0]

Store32(n) == <<n % 2, (n \div 2) % 2, (n \div 4) % 2, (n \div 8) % 2>>

\* store64_le: the low u32, then the high one
SizeOf(n) == Store32(n % 16) \o Store32(n \div 16)

\* Mutant: without the sizes.
AuthenticatedUnsized(ad, cipher) ==
    ad \o ZeroPad(Len(ad)) \o cipher \o ZeroPad(Len(cipher))

\* lock_auth: the bytes it gives to the incremental Poly1305
Authenticated(ad, cipher) ==
    ad \o ZeroPad(Len(ad)) \o cipher \o ZeroPad(Len(cipher))
       \o SizeOf(Len(ad)) \o SizeOf(Len(cipher))

\* crypto_chacha20(auth_key, 0, 64, ...), of which lock_auth reads a half
AuthKey(k) == [i \in 1 .. MacKeyBytes |-> <<k, KeyStream(0, StreamBlock)[i]>>]

Mac(k, ad, cipher) == <<AuthKey(k), Authenticated(ad, cipher)>>

\* Mutant: from the first block, which makes the one-time key.
TextStreamFromZero(n) == KeyStream(0, n)

\* crypto_chacha20_ctr(..., 1)
TextStream(n) == KeyStream(1, n)

Crypt(k, s) ==
    [i \in 1 .. Len(s) |-> Xor(s[i], KeyByte(k, TextStream(Len(s))[i]))]

SpentBytes(k, n) ==
    [i \in 1 .. MacKeyBytes + n |->
        <<k, IF i <= MacKeyBytes THEN KeyStream(0, StreamBlock)[i]
             ELSE TextStream(n)[i - MacKeyBytes]>>]

NotOpened == [key |-> 0, mac |-> <<>>, ad |-> <<>>, cipher |-> <<>>,
              result |-> -1, text |-> <<>>]

\* crypto_lock_aead, never twice with one key and nonce
Lock(k, ad, plain) ==
    /\ \A m \in locked : m.key # k
    /\ LET cipher == Crypt(k, plain)
       IN  locked' = locked \cup
             {[key |-> k, ad |-> ad, text |-> plain,
               cipher |-> cipher, mac |-> Mac(k, ad, cipher)]}
    /\ spent' = spent \o SpentBytes(k, Len(plain))
    /\ opened' = NotOpened

\* crypto_unlock_aead of a box, as it was locked or damaged: plain_text is
\* written only once the mac is verified.  Nothing is kept between two calls:
\* one at a time is looked at.
Unlock(k, mac, ad, cipher) ==
    /\ opened = NotOpened
    /\ opened' =
         IF mac = Mac(k, ad, cipher)
         THEN [key |-> k, mac |-> mac, ad |-> ad, cipher |-> cipher,
               result |-> 0, text |-> Crypt(k, cipher)]
         ELSE [key |-> k, mac |-> mac, ad |-> ad, cipher |-> cipher,
               result |-> -1, text |-> <<>>]
    /\ UNCHANGED <<locked, spent>>

AeadInit == locked = {} /\ spent = <<>> /\ opened = NotOpened

AeadNext ==
    \/ \E k \in SubKeys, m \in Messages : Lock(k, m[1], m[2])
    \/ \E m \in locked, k \in SubKeys, ad, cipher \in Strings :
         Unlock(k, m.mac, ad, cipher)

AeadSpec == AeadInit /\ [][AeadNext]_aeadVars

----------------------------------------------------------------------------

\* Whatever arrives, a box opens exactly when it is one that was locked with
\* this key and nonce, additional data and text where they were, and then
\* gives the text back; one that does not open gives nothing.
OpensExactlyTheLocked ==
    opened # NotOpened =>
        LET same == {m \in locked : /\ m.key = opened.key /\ m.mac = opened.mac
                                    /\ m.ad = opened.ad /\ m.cipher = opened.cipher}
        IN  IF same # {} THEN /\ opened.result = 0
                              /\ \A m \in same : opened.text = m.text
            ELSE opened.result = -1 /\ opened.text = <<>>

\* The bytes that make the one-time key encrypt nothing, and no byte of a key
\* stream is spent twice.
NothingSpentTwice ==
    \A i, j \in DOMAIN spent : spent[i] = spent[j] => i = j
=============================================================================
