---------------------------- MODULE NanoEncoding ----------------------------
(***************************************************************************)
(* The texts and bytes of NanoSwift: addresses (NanoAccountFunctions,      *)
(* NanoEncoder), the bytes of an amount (NanoAmount.rawBytes) and the      *)
(* bytes a block is hashed from (NanoBlockFunctions.hashStateBlock).       *)
(*                                                                         *)
(* A text is a sequence of characters.  A character of the encoding table, *)
(* or a hexadecimal digit, is its number there; the others are negative.   *)
(* Only what tells texts apart is kept of a prefix: "nano_" is two         *)
(* characters, four letters and the underscore, "xrb_" and "ban_" are one. *)
(*                                                                         *)
(* The sizes are parameters; the real ones are in the comments.  Optional  *)
(* values are sets of at most one element; a text that ends the process    *)
(* has a Traps operator, and no call follows it.                           *)
(***************************************************************************)
EXTENDS Integers, Sequences

Seqs == INSTANCE SequencesExt

CONSTANTS
    ByteBits,       \* 8
    CharBits,       \* 5, bits of a character of the table
    KeyBytes,       \* 32
    ChecksumBytes,  \* 5
    BalanceBytes,   \* 16
    GroupDigits,    \* 6, decimal digits that rawBytes takes together
    Digest(_),      \* the checksum of a key, a hash
    Keys,           \* public keys that have addresses,
    AccountPrefixes,\* with these NanoAccountPrefix values
    Slips,          \* the characters a mistyped address may get
    MaxSlips,       \* bound: mistyped characters
    AccountInfos,   \* what account_info answers: balance, frontier, representative
    Amounts,        \* amounts passed to sendBlock and receiveBlock
    Sources         \* hashes passed to receiveBlock

Nano       == -1
Underscore == -2
Xrb        == -3
Ban        == -4
Newline    == -5
Other      == -6    \* a character of neither notation

\* base ^ n
Power(base, n) == LET p[i \in 0 .. n] == IF i = 0 THEN 1 ELSE base * p[i - 1] IN p[n]

Byte     == 0 .. Power(2, ByteBits) - 1
Table    == 0 .. Power(2, CharBits) - 1
Hex      == 0 .. Power(2, ByteBits \div 2) - 1
KeyBits  == KeyBytes * ByteBits
KeyChars == (KeyBits + CharBits - 1) \div CharBits               \* 52
ChecksumChars == (ChecksumBytes * ByteBits) \div CharBits        \* 8
Padded   == KeyBits + ByteBits                                   \* 264

\* A checksum is whole characters; one character more than a key has does not
\* fit a byte more than a key; two hexadecimal digits are a byte, and the
\* preamble 6 is one.
ASSUME EncodingAssumption ==
    /\ ByteBits \in Nat /\ CharBits \in Nat \ {0} /\ CharBits <= ByteBits
    /\ KeyBytes \in Nat \ {0} /\ ChecksumBytes \in Nat \ {0}
    /\ (ChecksumBytes * ByteBits) % CharBits = 0
    /\ (KeyChars + 1) * CharBits > Padded
    /\ ByteBits % 2 = 0 /\ 6 \in Hex
    /\ BalanceBytes \in Nat \ {0} /\ GroupDigits \in Nat \ {0}
    /\ Keys \subseteq [1 .. KeyBytes -> Byte]
    /\ AccountPrefixes \subseteq {"nano", "xrb", "banano"}
    /\ Slips \subseteq Int

Repeated(n, c) == [i \in 1 .. n |-> c]
Dropped(s, n)  == SubSeq(s, n + 1, Len(s))
Without(s, n)  == SubSeq(s, 1, Len(s) - n)
Suffix(s, n)   == IF Len(s) < n THEN s ELSE Dropped(s, Len(s) - n)

\* The number that digits stand for, and the last width digits of n
Value(digits, base) ==
    LET v[i \in 0 .. Len(digits)] == IF i = 0 THEN 0 ELSE base * v[i - 1] + digits[i]
    IN  v[Len(digits)]

Numeral(n, base, width) ==
    LET q[i \in 0 .. width] == IF i = 0 THEN n ELSE q[i - 1] \div base
    IN  [i \in 1 .. width |-> q[width - i] % base]

\* The same of a sequence of numbers, each in width digits
Written(numbers, base, width) ==
    [i \in 1 .. width * Len(numbers) |->
        Numeral(numbers[(i - 1) \div width + 1], base, width)[((i - 1) % width) + 1]]

Read(digits, base, width) ==
    [i \in 1 .. Len(digits) \div width |->
        Value(SubSeq(digits, (i - 1) * width + 1, i * width), base)]

(***************************************************************************)
(* NanoEncoder and the conversions.                                        *)
(***************************************************************************)
\* Bytes.binaryString(length:)
BinaryString(bytes, length) ==
    LET unformatted == Written(bytes, 2, ByteBits)
    IN  Repeated(length - Len(unformatted), 0) \o unformatted

\* binaryToBytes, of a text of whole bytes
BinaryToBytes(bits) == Read(bits, 2, ByteBits)

\* base32NanoEncode: bits that are left over are not in the table
Encode(message, length) ==
    LET bits == BinaryString(message, length)
    IN  IF Len(bits) % CharBits # 0 THEN {} ELSE {Read(bits, 2, CharBits)}

\* base32NanoDecode: nil for a character that is not in the table; the count
\* of zeros in front, one byte more than a key, must not be negative.
Decodes(text)     == \A i \in DOMAIN text : text[i] \in Table
DecodeTraps(text) == Decodes(text) /\ Len(text) * CharBits > Padded
Decode(text) ==
    LET bits == Written(text, 2, CharBits)
    IN  Repeated(Padded - Len(bits), 0) \o bits

\* The key of a decoded text: hexString.dropFirst(2) leaves out a byte.
KeyOf(text) == Dropped(BinaryToBytes(Decode(text)), 1)

\* Bytes.length
LengthKept(bytes, n) == bytes

Length(bytes, n) == Repeated(n - Len(bytes), 0) \o bytes

\* hexToBytes reads pairs of digits up to the first that is none.
HexBase == Power(2, ByteBits \div 2)

HexToBytes(text) ==
    LET count   == (Len(text) + 1) \div 2
        pair(i) == SubSeq(text, 2 * i - 1, IF 2 * i <= Len(text) THEN 2 * i ELSE Len(text))
        good(n) == \A i \in 1 .. n : \A j \in 1 .. Len(pair(i)) : pair(i)[j] \in Hex
        n == CHOOSE k \in 0 .. count : good(k) /\ (k < count => ~good(k + 1))
    IN  [i \in 1 .. n |-> Value(pair(i), HexBase)]

HexString(bytes) == Written(bytes, HexBase, 2)

(***************************************************************************)
(* Addresses.                                                              *)
(***************************************************************************)
PrefixText(prefix) ==
    CASE prefix = "nano" -> <<Nano, Underscore>> [] prefix = "xrb" -> <<Xrb>>
      [] prefix = "banano" -> <<Ban>>

EncodePublicKey(key) == Encode(key, KeyChars * CharBits)
CreateChecksum(key)  == Encode(Seqs!Reverse(Digest(key)), ChecksumChars * CharBits)

\* NanoAccount.publicAddress, of an account whose texts newAccount has made
PublicAddress(prefix, key) ==
    UNION {{PrefixText(prefix) \o encoded \o checksum : checksum \in CreateChecksum(key)} :
              encoded \in EncodePublicKey(key)}

\* splitAddress: the prefix may be anywhere for the first guard, and must be
\* in front for the switch.
HasPrefix(text) ==
    \/ \E i \in DOMAIN text : text[i] \in {Xrb, Ban}
    \/ \E i \in 1 .. Len(text) - 1 : text[i] = Nano /\ text[i + 1] = Underscore

SplitAddress(address) ==
    LET front == Without(address, ChecksumChars)
        rest(n) == [encoded |-> Dropped(front, n), checksum |-> Suffix(address, ChecksumChars)]
    IN  IF ~HasPrefix(address) \/ front = << >> THEN {}
        ELSE IF front[1] = Nano THEN {rest(2)}
        ELSE IF front[1] \in {Xrb, Ban} THEN {rest(1)}
        ELSE {}

\* The regular expression, whose $ also matches before a last line break; its
\* first characters after the prefix are those of a key, [13].
First == 0 .. Power(2, CharBits - (KeyChars * CharBits - KeyBits)) - 1

WellFormedAnyFirst(address) ==
    \E prefix \in {"nano", "xrb", "banano"}, end \in {<< >>, <<Newline>>} :
        LET n == Len(PrefixText(prefix))
            body == SubSeq(address, n + 1, Len(address) - Len(end))
        IN  /\ address = PrefixText(prefix) \o body \o end
            /\ Len(body) = KeyChars + ChecksumChars /\ Decodes(body)

WellFormed(address) ==
    \E prefix \in {"nano", "xrb", "banano"}, end \in {<< >>, <<Newline>>} :
        LET n == Len(PrefixText(prefix))
            body == SubSeq(address, n + 1, Len(address) - Len(end))
        IN  /\ address = PrefixText(prefix) \o body \o end
            /\ Len(body) = KeyChars + ChecksumChars /\ Decodes(body)
            /\ body[1] \in First

\* checkIfAddressIsValid
Rejected(split) ==
    IF split.encoded = << >> \/ split.encoded[1] \notin First THEN "invalidEncoding"
    ELSE IF Len(split.encoded) + Len(split.checksum) # KeyChars + ChecksumChars
    THEN "invalidLength" ELSE "invalidOther"

Checked(split) ==
    IF DecodeTraps(split.encoded) THEN "trap"
    ELSE IF ~Decodes(split.encoded) THEN "invalidEncoding"
    ELSE IF {split.checksum} # CreateChecksum(KeyOf(split.encoded)) THEN "invalidChecksum"
    ELSE "valid"

CheckIfAddressIsValid(address) ==
    IF SplitAddress(address) = {} THEN {"invalidPrefix"}
    ELSE {IF WellFormed(address) THEN Checked(split) ELSE Rejected(split) :
             split \in SplitAddress(address)}

(***************************************************************************)
(* NanoAmount.rawBytes.  rawString has the decimal digits of the amount;   *)
(* the sign is no digit and is left out.                                   *)
(***************************************************************************)
Magnitude(n) == IF n < 0 THEN -n ELSE n

\* The decimal digits of a number, without a zero in front
Width(n)  == CHOOSE w \in 1 .. n + 1 : n < Power(10, w) /\ (w > 1 => n >= Power(10, w - 1))
Digits(n) == Numeral(n, 10, Width(n))

\* The first group is the one that may be short.
Grouped(digits) ==
    LET n == Len(digits)
        rem == IF n % GroupDigits = 0 THEN GroupDigits ELSE n % GroupDigits
        first(i) == IF i = 1 THEN 1 ELSE rem + (i - 2) * GroupDigits + 1
    IN  [i \in 1 .. (n + GroupDigits - 1) \div GroupDigits |->
            Value(SubSeq(digits, first(i), rem + (i - 1) * GroupDigits), 10)]

\* One pass of the division by 256: the quotients, and what is left
Divided(ints) ==
    LET base == Power(2, ByteBits)
        total[i \in 0 .. Len(ints)] ==
            IF i = 0 THEN 0 ELSE (total[i - 1] % base) * Power(10, GroupDigits) + ints[i]
    IN  [ints |-> [i \in DOMAIN ints |-> total[i] \div base], carry |-> total[Len(ints)] % base]

StripZeros(ints) ==
    LET n == CHOOSE k \in 0 .. Len(ints) :
                /\ \A i \in 1 .. k : ints[i] = 0
                /\ k < Len(ints) => ints[k + 1] # 0
    IN  Dropped(ints, n)

\* The passes until nothing is left to divide; the code appends the bytes and
\* reverses them at the end.  A pass makes the number smaller, so no number
\* needs more than n + 1.
DivideOut(groups, n) ==
    LET pass[k \in 0 .. n + 1] ==
            IF k = 0 THEN [ints |-> groups, bytes |-> << >>]
            ELSE LET step == Divided(pass[k - 1].ints)
                 IN  [ints  |-> StripZeros(step.ints),
                      bytes |-> <<step.carry>> \o pass[k - 1].bytes]
        last == CHOOSE k \in 0 .. n + 1 :
                    pass[k].ints = << >> /\ \A j \in 0 .. k - 1 : pass[j].ints # << >>
    IN  pass[last].bytes

RawBytes(amount) == DivideOut(Grouped(Digits(Magnitude(amount))), Magnitude(amount))

(***************************************************************************)
(* hashStateBlock: the bytes that are hashed, if it gets so far.           *)
(***************************************************************************)
IsAddress(text) == text # << >> /\ text[1] \in {Nano, Xrb, Ban}

\* split! and the count of decode trap.
MakeHexTraps(text) ==
    IsAddress(text) /\ \A split \in SplitAddress(text) : DecodeTraps(split.encoded)

MakeHex(text) ==
    IF IsAddress(text)
    THEN {HexString(KeyOf(split.encoded)) :
             split \in {x \in SplitAddress(text) : Decodes(x.encoded)}}
    ELSE IF Len(text) = 2 * KeyBytes THEN {text} ELSE {}

\* A field is only looked at when those before it are good.
GoodPrevious(b) == Len(b.previous) = 2 * KeyBytes \/ b.previous = <<0>>

Hashable(b) ==
    GoodPrevious(b) /\ \A text \in {b.account, b.representative, b.link} : MakeHex(text) # {}

HashTraps(b) ==
    \/ MakeHexTraps(b.account)
    \/ /\ MakeHex(b.account) # {} /\ GoodPrevious(b)
       /\ \/ MakeHexTraps(b.representative)
          \/ MakeHex(b.representative) # {} /\ MakeHexTraps(b.link)

HashStateBlock(b) ==
    LET field(text) == Length(HexToBytes(CHOOSE h \in MakeHex(text) : TRUE), KeyBytes)
    IN  Length(HexToBytes(<<6>>), KeyBytes)
          \o field(b.account)
          \o Length(HexToBytes(b.previous), KeyBytes)
          \o field(b.representative)
          \o Length(RawBytes(b.balance), BalanceBytes)
          \o field(b.link)

(***************************************************************************)
(* Calls.  Somebody gets the address of an account and mistypes it, or     *)
(* not; somebody checks it, or pays to it.  The paying account is one of   *)
(* the same keys, with account info from the node.                         *)
(***************************************************************************)
\* The node answers with addresses, a hash or "0" for the frontier, and amounts
\* of raw: the supply fits the bytes of a balance.
ASSUME InputsAssumption ==
    /\ \A i \in AccountInfos :
        /\ \A text \in {i.account, i.representative} :
             \E prefix \in AccountPrefixes, key \in Keys : text \in PublicAddress(prefix, key)
        /\ i.frontier = <<0>> \/ i.frontier \in [1 .. 2 * KeyBytes -> Hex]
        /\ i.balance \in Int
        /\ \A amount \in Amounts : \A n \in {i.balance + amount, i.balance - amount} :
             Magnitude(n) < Power(Power(2, ByteBits), BalanceBytes)
    /\ Amounts \subseteq Int /\ Sources \subseteq Seq(Int)

VARIABLES
    address,   \* the address as it was typed
    made,      \* the prefix and key it was made for
    slips,     \* characters mistyped in it
    said       \* the last call and what came of it

encodingVars == <<address, made, slips, said>>

NoAddress == << >>
Silent    == [call |-> "none"]

Publishes(call, b) ==
    said' = IF HashTraps(b) THEN [call |-> "trap"]
            ELSE IF ~Hashable(b) THEN [call |-> "error"]
            ELSE [call |-> call, block |-> b, hashed |-> HashStateBlock(b)]

PublicAddressCall ==
    /\ address = NoAddress /\ said = Silent
    /\ \E prefix \in AccountPrefixes, key \in Keys :
        /\ address' \in PublicAddress(prefix, key)
        /\ made' = <<prefix, key>>
    /\ UNCHANGED <<slips, said>>

\* The user: a character is replaced, left out or put in.
Mistype ==
    /\ address # NoAddress /\ slips < MaxSlips /\ said = Silent
    /\ slips' = slips + 1
    /\ \/ \E i \in DOMAIN address, c \in Slips : address' = [address EXCEPT ![i] = c]
       \/ \E i \in DOMAIN address : address' = Seqs!RemoveAt(address, i)
       \/ \E i \in 1 .. Len(address) + 1, c \in Slips : address' = Seqs!InsertAt(address, i, c)
    /\ UNCHANGED <<made, said>>

CheckCall ==
    /\ address # NoAddress /\ said = Silent
    /\ \E result \in CheckIfAddressIsValid(address) : said' = [call |-> "check", result |-> result]
    /\ UNCHANGED <<address, made, slips>>

\* sendBlock(from:to:amount:), on the address as typed
SendCall ==
    /\ address # NoAddress /\ said = Silent
    /\ \E i \in AccountInfos, amount \in Amounts :
        IF amount > i.balance \/ SplitAddress(address) = {}
        THEN said' = [call |-> "error"]
        ELSE \E split \in SplitAddress(address) :
            IF DecodeTraps(split.encoded) THEN said' = [call |-> "trap"]
            ELSE IF ~Decodes(split.encoded) THEN said' = [call |-> "error"]
            ELSE Publishes("sendBlock",
                   [account |-> i.account, previous |-> i.frontier,
                    representative |-> i.representative, balance |-> i.balance - amount,
                    link |-> HexString(KeyOf(split.encoded))])
    /\ UNCHANGED <<address, made, slips>>

\* receiveBlock(for:with:amount:)
ReceiveCall ==
    /\ said = Silent /\ address = NoAddress
    /\ \E i \in AccountInfos, hash \in Sources, amount \in Amounts :
         Publishes("receiveBlock",
            [account |-> i.account, previous |-> i.frontier,
             representative |-> i.representative, balance |-> i.balance + amount,
             link |-> hash])
    /\ UNCHANGED <<address, made, slips>>

EncodingInit == address = NoAddress /\ made = << >> /\ slips = 0 /\ said = Silent

EncodingNext == PublicAddressCall \/ Mistype \/ CheckCall \/ SendCall \/ ReceiveCall

EncodingSpec == EncodingInit /\ [][EncodingNext]_encodingVars

(***************************************************************************)
(* Properties.                                                             *)
(***************************************************************************)
\* checkIfAddressIsValid says valid of the addresses publicAddress makes and
\* of no other text: one for each key and prefix, although the decoder leaves
\* out the first bits and pads what is short.
AddressesChecked ==
    said.call = "check" =>
        /\ said.result = "valid" <=>
             \E split \in SplitAddress(address), prefix \in {"nano", "xrb", "banano"} :
                /\ Decodes(split.encoded) /\ ~DecodeTraps(split.encoded)
                /\ address \in PublicAddress(prefix, KeyOf(split.encoded))
        /\ slips = 0 => said.result = "valid"

\* The number that the bytes from place n on stand for
BytesAt(n, width) == SubSeq(said.hashed, n + 1, n + width)

\* What is hashed and signed is the block that is published: every field is
\* at its place, the keys are those of the addresses, the balance is the
\* published number, and an address typed right is paid.
HashedAsPublished ==
    said.call \in {"sendBlock", "receiveBlock"} =>
        LET b == said.block
            K == KeyBytes
            owner(text) == CHOOSE key \in Keys : \E p \in AccountPrefixes : text \in PublicAddress(p, key)
            linkAt == 4 * K + BalanceBytes
        IN  /\ Len(said.hashed) = linkAt + K
            /\ Value(BytesAt(0, K), Power(2, ByteBits)) = 6
            /\ BytesAt(K, K) = owner(b.account)
            /\ HexString(BytesAt(2 * K, K)) = b.previous \/ b.previous = <<0>>
            /\ BytesAt(3 * K, K) = owner(b.representative)
            /\ b.balance >= 0 => Value(BytesAt(4 * K, BalanceBytes), Power(2, ByteBits)) = b.balance
            /\ (\A i \in DOMAIN b.link : b.link[i] \in Hex) => HexString(BytesAt(linkAt, K)) = b.link
            /\ said.call = "sendBlock" /\ slips = 0 => BytesAt(linkAt, K) = made[2]

\* README.md, "Possible errors that could be thrown" by a send block:
\* "couldNotConvertRecievingAddress if the given address is invalid".
InvalidAddressRefused ==
    said.call = "sendBlock" => CheckIfAddressIsValid(address) = {"valid"}
=============================================================================
