# NanoSwift in TLA+

NanoSwift is a Swift library for Nano accounts, blocks and node requests, over
the vendored C library Monocypher. This directory holds TLA+ models of both, the
TLC configurations that check them and proofs checked by TLAPS. All paths are
relative to the repository.

## Inventory

| Component | Source (`Sources/NanoSwift` unless said) | State | Operations |
|---|---|---|---|
| Block manager | `Block/NanoBlockManager.swift`, `NanoStateBlock.swift` | none; returns block values | `sendBlock` (2), `receiveBlock` (2) |
| Block functions | `Block/NanoBlockFunctions.swift` | none | `hashStateBlock`, `signStateBlockHash` |
| Account | `Account/NanoAccount.swift`, `NanoAccountInfo.swift` | struct: keys, index, type, optional `accountInfo` | `balance`, `publicAddress` |
| Account manager, array | `Account/NanoAccountManager.swift`, `NanoAccountArray.swift` | the array of a wallet | `newAccount` (3), `append`, `remove`, `subscript`, `contains`, `lastIndex` |
| Account functions, encoder | `Account/NanoAccountFunctions.swift`, `Utilities/` | constant tables | derive keys; encode, decode, split, check addresses |
| Wallet | `Wallet/` | seed, type, account array | `newWallet`, `generateWalletSeed` |
| Amount | `NanoAmount.swift` | a decimal number | comparisons, arithmetic, raw and nano text, `rawBytes` |
| Node client | `NodeCommunication/NanoNode.swift`, `NanoNodeResults.swift` | node address; requests under way | `getAccountInfo`, `putAccountInfo`, `generateWork`, `getPendingBlocks`, `publish`, `rpcRequest`, async and with completion handlers |
| Monocypher, hashes and ciphers | `Sources/Monocypher/monocypher.c` | Blake2b and Poly1305 contexts, cipher counter, Argon2i work area | Blake2b, Poly1305, ChaCha20, authenticated encryption, Argon2i |
| Monocypher, keys and signatures | the same | signing and checking contexts | X25519, EdDSA, key exchange, dirty keys, hidden keys (Elligator), scalar inversion |

How they interact: a caller holds an account (a value, copied freely), asks the
node client for its account info, and stores it in its copy. The block manager
builds a block from that copy only. Work is asked for with the frontier of the
copy as root, the caller puts it in the block, and `publish` sends the block.
Devices and tasks that use one account share nothing but the node.

What is hard:

- *Stale copies.* Everything in a block (previous, balance, representative)
  comes from a snapshot that other devices, or the caller's own earlier blocks,
  may have made old. A block says what the balance becomes, not what moves: a
  mix of two snapshots would move the wrong amount.
- *Order.* With the handler flavour several requests are out at once and answer
  in any order.
- *Failure.* A request may fail before or after the node served it, and one that
  was given up may still arrive. Callers retry. A refused block looks like
  success.
- *Sequences.* Wallets are changed by accounts that were derived earlier and
  appended later. A Blake2b, Poly1305 or signing context is fed in pieces of any
  size, and buffers partial blocks from one call to the next.
- *Texts.* Addresses, hashes and amounts are texts that are padded, split, cut
  and converted bit by bit; most wrong ones are not noticed, and some trap.
- *Boundaries.* Monocypher leaves carries for later and conditionally subtracts:
  what goes wrong goes wrong for a few inputs in 2^32 or 2^255.

What makes each component correct: block building and node client must never
move anything but what was asked and never pay an order twice, whatever is
stale, reordered, repeated or late; a single user must get paid and collect;
an index of a wallet must name one account; an address must be decoded to the
key it was made of or refused, and the bytes that are hashed must be those of the
block that is published; an incremental hash, tag or signature must equal that of
the whole; arithmetic must be right at every boundary; a key stream must not be
spent twice.

`PROJECT.json` lists the components with their status, and every hazard at its
line.

## Modules

| Module | Models |
|---|---|
| `NanoLedger` | the node's ledger and its answers (external) |
| `NanoTransfer` | block manager and node client of any number of sessions |
| `NanoPayments` | abstract: what users are promised about money |
| `NanoFlows` | the two programs of README "Real world examples" |
| `NanoWallet` | wallet, account array and account manager |
| `NanoEncoding` | addresses, the bytes of amounts, the bytes a block is hashed from |
| `MonoBlake2b`, `MonoPoly1305` | the incremental hash and authenticator |
| `MonoChacha`, `MonoAead` | the counter of the cipher; authenticated encryption |
| `MonoArgon2` | the order, the references and the final hash of Argon2i |
| `MonoField`, `MonoScalar`, `MonoCurve` | field, scalars modulo L, points and maps |
| `MonoKeys`, `MonoEddsa` | the public functions on keys and on signatures |
| `NanoTransferProofs`, `NanoFlowsProofs`, `NanoWalletProofs`, `NanoEncodingProofs`, `MonoBlake2bProofs`, `MonoArgon2Proofs`, `MonoPoly1305Proofs`, `MonoAeadProofs` | theorems |
| `MCNanoTransfer`, `MCNanoFlows`, `MCNanoWallet`, `MCNanoLocal`, `MCMonoCurve`, `MCMonocypher` | instances for TLC |

`NanoFlows` composes its programs with `NanoTransfer`, which composes sessions
with `NanoLedger`; `NanoTransfer` implements `NanoPayments`. `MonoEddsa` and
`MonoKeys` stand on `MonoCurve`, and that on `MonoField` and `MonoScalar`;
`MonoAead` on `MonoChacha`. Components that share nothing are checked in one run,
where a behaviour is one of them (`component`).

### NanoLedger

A chain of entries per account. A hash is the position `<<account, height>>`:
the ledger holds one block per position. `Accepts` is what the node asks of a
block, as far as the library's fields decide it: it extends the head of its
chain, its work has its own root and enough difficulty, and its balance and link
fit its subtype. "pending" answers may be shorter than `PendingOf`
(`include_only_confirmed`, threshold).

### NanoTransfer

| Code | Model |
|---|---|
| `NanoAccount.accountInfo` of a caller's copy | `info[s]`, an optional: a set of at most one element |
| block the caller holds | `held[s]` |
| result of `getPendingBlocks` | `found[s]` |
| a request from `rpcRequest` to its completion | a record of `calls`, with the node's answer once it is served |
| a process request that timed out but is still on its way | `late` |
| `sendBlock`, `receiveBlock` | `SendBlock`, `ReceiveBlock` |
| starting a request | `GetAccountInfo`, `GetPendingBlocks`, `GenerateWork`, `Publish` (`Start`) |
| completion | `AccountInfoReturns`, `WorkReturns`, `PendingReturns`, `PublishReturns`, `Fails` |
| the node serving a request | `NodeAnswersInfo`, `NodeAnswersPending`, `NodeProcesses`, `NodeProcessesLate` |
| a wallet elsewhere that changes its representative | `ChangeElsewhere` |

A *lane* is one call a session may have outstanding. One lane is the async
flavour, where each call is awaited; two lanes are the completion handler
flavour. `orders` is history: what each `sendBlock` call was asked, so that
properties can speak of it. `work_generate` is answered from its own request, so
it has no serving step. A call that throws before a request leaves changes
nothing and is no step. The answer to account_info of an account without blocks
is an error, which does not decode: that call only `Fails`. `publish` ends
without an error whether or not the block was accepted, as the code does.
Address decoding, hashing and signing succeed here; their errors and traps are
in `NanoEncoding`.

### NanoFlows

The control flow of `sendTransaction` and `testPending`, the Swift functions
listed in README.md (their code, not its prose), over the actions of
`NanoTransfer`, one place per statement. An error ends the function. Calls fail
only where `MayFail`. `FlowConstants` says what the programs of the README are:
each session runs one of the two, and pays `Amount` to `Payee`.

### NanoWallet

The array as a set of accounts (an account is seed, index and type). The order
of the Swift array only shows in `subscript`, which takes the first account of
an index; `UniqueIndices` says there is only one. `drafts` are accounts that
`newAccount(from:)` and `newAccount(for:)` handed out; a holder may append one at
any later time, and keep its copy (accounts are structs). `last` records the last call and its outcome, including the trap
of `UInt32(accountIndex)`, after which nothing runs.

### NanoEncoding

A text is a sequence of numbers: a character of the encoding table, or a
hexadecimal digit, is its number there, and the other characters are negative.
Of the letters of a prefix only what tells texts apart is kept. Optional values
are sets of at most one element. A text that ends the process has a `Traps`
operator, and no call follows it.

| Code | Model |
|---|---|
| `NanoEncoder.encode`, `decode`, byte, binary and hexadecimal conversions | operators on sequences of digits, bit by bit, paddings included |
| `publicAddress(from:)`, `splitAddress`, `checkIfAddressIsValid` (and its regular expression) | operators of the same names |
| `NanoAmount.rawBytes` | the division of the decimal text, group after group |
| `sendBlock`, `receiveBlock` with the texts they get | actions, whose blocks keep their link both as it is published and as it is hashed |
| typing an address wrong before it is checked or paid | an action: a character replaced, dropped or inserted |
| `hashStateBlock` of the new block | part of the same actions: the bytes that go to Blake2b, or the error, or the trap |

### Monocypher: hashes and ciphers

*MonoBlake2b.* A byte is the set of its bits, so that the `|=` that loads a word
is union. The compression function is free: the chaining value is the sequence of
the blocks compressed so far, with their offset and last-block mark, so two
inputs that are compressed alike are hashed alike and no others. Init, each
iteration of the loops of `crypto_blake2b_update`, and final are steps of their
own. The input buffer starts with whatever the memory held.

*MonoPoly1305.* The accumulator is computed word for word, each sum cut to the
width of its C type, against `(text * r + pad)` modulo the prime.

*MonoChacha.* The rounds are a permutation of the input block, so a byte of the
key stream is named by words 12 and 13 of the block and its place in it. The
caller goes on from the counter each call returns.

*MonoAead.* The tag is the one-time key and the bytes it covers, since two
messages with one tag are not to be found. What is modelled: which bytes those
are, padding and sizes included, which block of the key stream is spent on what,
and that nothing is written before the tag is checked. What arrives may be any
box, cut or changed.

*MonoArgon2.* The content of a block is how often it has been filled; a
pseudo-random word is any 32-bit value. `gidx_next` is computed as in the code.
Every step fills one block, then each step of `extended_hash` makes one hash.

### Monocypher: keys and signatures

*MonoField* keeps of an element its value and a bound on its limbs: each operation
says, as the comments of the code do, which bound it needs and which it leaves;
an operation that is given more gives `Broken` limbs, and their encoding is not
one. *MonoScalar* is word for word. *MonoCurve* runs the ladder, the sliding
windows, the combs and the two Elligator maps in the coordinates of the code;
beside them stands the group as it is defined, by affine sums. The addition chain
of `fe_pow22523` is taken as its exponent, and constants and tables are computed
from their formulas, as the numbers of the code belong to the big prime.

*MonoKeys*: one action per public function; an answer is a set of encodings,
empty when the function refuses. A program may feed one answer to the next call
(blind and unblind, hide and find, two sides of an exchange). *MonoEddsa*: the
contexts of the two passes of a signature and of the check, with the three buffers
that change their meaning on the way; the hash is a parameter, as in the custom
hash interface of the code.

## Runs

| Run | Asks |
|---|---|
| `devices` | two devices of one account, each awaiting its calls, and a wallet elsewhere that changes the representative; amounts -1, 0, 1, 2 of a balance of 2 |
| `handlers` | one device with two calls out, so answers come out of order, on an account that pays itself and collects; what it does implements `NanoPayments` |
| `flows_alone` | README programs, one device per account, no failures: payments are made and collected |
| `flows_shared` | README programs, two devices of the sender, failures, late requests, a change elsewhere: every function ends |
| `wallet` | two seeds, two types, two accounts held, three indices; and addresses of every prefix, typed wrong anywhere, checked or paid, and the bytes of the blocks that are hashed |
| `monocypher` | hashes and ciphers: every cut of the input into calls, every order of locking and unlocking, every reference of Argon2i; key functions and signatures against affine arithmetic, at the boundaries of each |
| `flows_success`, `flows_receive_all`, `wallet_index`, `wallet_trap`, `address_paid`, `hidden_sign` | findings, below |

What the properties say is written above each in the modules.

### Bounds

*Transfers.* `MaxHeight` 3 lets a chain have its first block and two more, so a
snapshot can be one or two blocks old and two devices can race for a position
and for the next. `MaxOrders` 2 in `devices` lets two payments exist, and each may
be published any number of times; in `handlers` it is 1, because the question is
what repeated, raced and late copies of one order do to the abstract payments (the
theorems have any number). `MaxLate` 1 stops publishing while a given-up request
is on its way; the copies in `calls` still race it. `ChangeBelow` bounds the
blocks of other wallets. Devices with the same constants are interchangeable, and
so are lanes, hence the symmetry; no run with symmetry checks liveness.

*Wallet.* `MaxDrafts` 2 holds two accounts of one index. `MaxIndex` 2 stands for
2^32 - 1: the model only compares indices and adds one.

*Encoding.* Bytes of 6 bits, keys of 6 bytes, characters of 5 bits, a checksum of
5 bytes. As with 8 bits and 32 bytes, the first character holds one bit of the key
(256 = 51 * 5 + 1 there, 36 = 7 * 5 + 1 here), one byte more than the key takes
all the characters of a key and no more (52 of them in 264 bits, 8 in 42), and a
checksum is whole characters. Hexadecimal digits have half a byte. Balances lie
around the groups of digits (2 for 6) and around the bytes, up to 4095, the
largest. One character may be wrong: it may become, or be joined by, one of seven
that stand for digits, letters, both separators of a prefix, a line break and
anything else.

*Hashes and ciphers.* Blake2b: blocks of 4 bytes, 11 of message and keys of none,
1 and 4, which is a message that ends in, at and after a block; offset words of 6
values, so the low word wraps within it. Poly1305: words of 256 values, that is
four bytes of four values, texts of 33, 18 and 0 bytes (two blocks of 16 and a
piece, one and a piece, none), the keys with the largest r, and r of 1 and 2, with
which the sum ends between the prime and the next power of two. ChaCha20: blocks of 3 bytes, counter words of 4 values, streams of up
to 10 bytes, counters 0, 3 (the carry) and 14 (the last but one). AEAD: bytes of one
bit, so sizes of eight bits (the two words of four that `store32_le` would fill),
texts of up to 3, every box that can arrive. Argon2i: 8 to
21 blocks, segments of 2 to 5, three passes, pools of 3 words, so that pools are
used up inside a segment; digests of 1 to 15 bytes from hashes of 4.

*Curve.* The prime 2213, which is 5 modulo 8, with 12 bits to a field element and
a thirteenth for the sign; A = 94, the order 8 * 269. 269 is 5 modulo 8 and 8 * 269
just above 2^11 as 8 * L is just above 2^255, which decides how far reductions and
ladders go. Scalars are 3 words of 4 bits, the comb has teeth 2 bits apart.
`MCMonoCurve` says what each secret, point and number is there for.

`ReducedModL` takes numbers at the boundaries of the reductions, not every number.

The proofs have none of these as limits: they hold for all values of the
constants.

### Deadlock and fairness

Deadlock is checked except where functions end (`flows_shared` and the flow
findings), the process or the calls on an address end (`wallet*`, `address_paid`)
or a computation is over (`monocypher`, `hidden_sign`).

`NanoFlows`: a function that can take its next step does (weak fairness per
session), and every request is completed, by the answer or an error (weak
fairness per session of its call): URLSession calls each completion handler once,
at its own timeout at the latest. `FlowPollingSpec`, used by `flows_alone`, adds
that receivers run again for ever and that the node does not for ever leave a
receivable block out of its answers (strong fairness of `FullList`): the default
`include_only_confirmed` hides a block until it is confirmed. It is needed only
for `ReceiverCollects`.

`MCMonocypher`: weak fairness of `CallStep`, that is, a call of the C library
that has been made goes on with its loops; nobody has to call. `CallsReturn` says
that the loops then end.

## Findings

- `publish` succeeds on a refused block (`flows_success`): the answer's body is
  printed, not read, where README.md shows "// Success".
- "Receive all pending transactions" receives one (`flows_receive_all`): the
  account info is read once, before the loop, so the second receive block forks
  the first and is refused, without an error. A second run of the function
  collects the next one, which is why `ReceiverCollects` holds with polling.
- `newAccount(into:index:)` and `newAccount(for:index:)` ignore the index
  (`wallet_index`). The first neither refuses an index that is in the wallet with
  `indexAlreadyExists`, as README.md:54 says, nor adds the account that was asked
  for; `IndexErrorUnreachable` proves that the error is never thrown at all. With
  the base account of `newWallet`, index 1 of the README example works because the
  next index happens to be 1.
- `newAccount(into:)` traps when the wallet has an account of index 2^32 - 1
  (`wallet_trap`).
- `sendBlock` pays an address that `checkIfAddressIsValid` refuses
  (`address_paid`): it looks at neither checksum nor length, where README.md lists
  an error "if the given address is invalid".
- The comment of `crypto_curve_to_hidden` exchanges the two formulas
  (`hidden_sign`). Lines 2777-2778 say "if v is positive: r = isr * (u+A)" and
  "if v is negative: r = isr * u" (lines 2758-2759 pair the signs in the same way);
  the code takes isr * (u+A) when bit 0 of the tweak is 1, which line 2750 calls
  negative. With the direct map of line 2658 the code and line 2750 agree: that is
  what `HiddenIsRepresentative` checks, so the comment is wrong, not the code.

Seen while modelling, without a run of their own:

- An address followed by a line break ends the process in
  `checkIfAddressIsValid` instead of being called invalid: `$` of the expression
  (`NanoAccountFunctions.swift:99`) matches before the break, and 53 characters
  make `decode` (`NanoEncoder.swift:49`) ask for a padding of negative length. In
  `sendBlock` every address that is too long does.
- A negative balance (a receive block of a negative amount) loses its sign in
  `rawBytes`, so the hash is that of another block than the one published.
- `crypto_curve_to_hidden` does not refuse coordinates of the twist: for some of
  them the representative leads to -u - A. Its comment speaks of points of the
  curve only; `HiddenIsRepresentative` says which is which.
- The public keys (0, 1) and (0, -1) are refused by the check of a signature.

## Proofs

`NanoTransferProofs` proves, for every choice of accounts, sessions, lanes and
bounds that satisfies `LinksAreDistinct` and `ConstantsOK`:

- `TypeCorrect`: `Spec => []TypeOK`. Its invariant adds that a chain begins with
  an open block (`OpenFirst`), without which the amount of a send block would
  not be a number.
- `SnapshotSafety`, `BlockSafety`, `LedgerSafety`, `OneClaim`, `NoDoublePayment`:
  the safety properties of the runs, from one inductive invariant

      IInv == TypeInv /\ SnapshotsConsistent /\ BlocksAsAsked /\ LedgerAsAsked
              /\ OrdersKnown /\ PaidOnce /\ OnePosition

- `InfoGoesForward`: with one lane, awaited calls never give a session account
  info older than what it has (`InfoMonotone`), from

      AwaitInv == IInv /\ OnePerLane /\ NewerAnswers

  With two lanes it is false: that is the completion handler flavour, where the
  older answer may come last.

The argument of the first: chains and orders only grow, so what was true of a past
state of an account stays true (`SnapshotStable`, `SentToStable`,
`AsAskedStable`). So a snapshot that was read together stays one past state, and a
block built from it always does, to the block it extends, what was asked. The node
accepts a block only if that block is the head of the chain, so the new entry does
what was asked too (`NewEntry`). `PaidOnce` alone is not inductive: a second copy
of a published block could be accepted at another position. `OnePosition` says all
copies claim the same position, and `OrdersKnown` that the number of a new order
is in no chain yet. For `InfoGoesForward`: a lane holds one call (`OnePerLane`), so
the answer of the outstanding request was read after the one the session holds
(`NewerAnswers`).

`NanoTransferProofs` also proves `PaymentsImplemented`, that `Spec` implements
`NanoPayments` under the refinement mapping of `NanoTransfer` (`ImplementsPayments`).
An accepted block is the abstract step: a send pays (`SendPays`: by `OnePosition`
the order was not paid before, by `LedgerAsAsked` the amount and the receiver are
those asked for), a receive collects (`ReceiveCollects`: the node gives a send to
one receive, and by `PaidOnce` an order has one send), a change moves nothing (`ChangeStutters`); `sendBlock` is the
abstract order, and every other step leaves the abstract state alone.

`NanoFlowsProofs` proves the same of the README programs, for every
`FlowConstants`:

- `FlowsAreTransfers`: `FlowSpec => Spec`, a step of a program being one of
  `NanoTransfer` or none. The invariant it needs is that the blocks a loop has
  left are blocks its request found (`TodoFound`). So every theorem above is one
  about the programs, in particular `FlowsPayOnce` (`PaidOnce` and
  `LedgerAsAsked`) and `FlowsImplementPayments`.
- `SuccessMeansPaid`: a send program that ends without an error has paid
  (`DoneMeansPaid`), when its account is `Alone`: one session per account, no
  other wallet that changes its representative, an amount above zero. Failing
  requests and late ones are allowed. That is what "// Success" of README.md takes
  for granted; the finding `flows_success` is what happens without it. The
  invariant `AloneInv` says of every place of the program what is true there:
  the info is the account as it is, the block fits its head, the work its root, and
  after the answer the order is paid. It stays true as only the session's own
  published blocks extend its chain, and a block that is still on its way was
  given up by a session that `failed` (`Owned`).

`NanoWalletProofs` proves `WalletTypeCorrect`, `IndicesUnique`,
`IndexErrorUnreachable`, `FreeIndexFound` and `NoReplacement` for every
`MaxIndex`. A non-empty set of indices has a greatest element (`GreatestExists`,
from the well-foundedness of < on Nat), `lastIndex` is that element, so the next
index is free. Hence the errors `indexAlreadyExists` of `newAccount(for:)` and
`newAccount(into:)` are unreachable (`IndexErrorUnreachable`): right for a call
that asks for no index or for a free one, which is what the contract of
README.md:54 asks (`FreeIndexFound`, the property `CountsToFreeIndex`), and wrong
for a call that asks for a taken one (`wallet_index`).

`NanoEncodingProofs` proves `AddressesAlwaysChecked` (`AddressesChecked`) for
bytes, characters, keys and checksums of any size within `EncodingAssumption`, any
keys, any slips and any number of them. Its one hypothesis, `DigestIsBytes`, is
that the checksum of a key has the size it is asked for; the checksum is otherwise
any function. It is no ASSUME as TLC would have to list all keys. The argument:

- Digits and numbers are inverse to each other (`NumeralValue`, `ValueNumeral`),
  and so are bits and bytes (`ReadWritten`, `WrittenRead`), and a number below a
  power of the base is one with so many zeros in front (`ValueBound`,
  `NumeralZeros`).
- The text of a key starts with a character of `First`, and the key of that text,
  a byte longer when it is decoded, is the key (`KeyEncoded`, `KeyOfKeyText`).
  A text that starts with such a character loses nothing when a byte is dropped,
  so it is the text of its key (`KeyTextKeyOf`): without the `[13]` of the regular
  expression two texts would have one key.
- So an address that was made is valid (`MadeIsValid`) and one that is valid was
  made (`ValidIsMade`). There a line break at the end, which the regular
  expression lets pass, leaves one character too many to the key, which traps.

It also proves `AlwaysHashedAsPublished` (`HashedAsPublished`): whatever is
published, by `sendBlock` to an address typed right or wrong or by `receiveBlock`
from any hash, the bytes that are hashed and signed are the preamble, the two keys,
the frontier, the balance and the link of that very block, each whole and at its
place. It rests on `DigestIsBytes` as well, on an even number of bits in a byte
(two hexadecimal digits), and on `InputsAssumption`, which says what a node
answers: addresses that were made for keys, a frontier that is a hash or "0", and
balances that, with any amount added or taken off, fit the bytes of a balance. The
supply of Nano fits its 16 bytes; of a number that does not, `Bytes.length` would
cut the front off. The invariant is `EncodingInv` with `PublishedInv`: the block
passed the guards of `hashStateBlock`, and its fields come from what its call was
given. The argument:

- Hexadecimal texts and keys are inverse to each other (`HexOfKey`, `KeyOfHex`):
  `HexToBytes` drops a byte it cannot read, so that a text is whole must be shown.
- The groups of decimal digits, the first of which is short, have the value of the
  amount (`DigitsAre`, `GroupsAre`). A pass over them leaves the quotient by 256 and
  carries the remainder out (`DividedIs`, from the running totals of `TotalRuns`);
  stripping the zeros in front changes no number (`StrippedIs`).
- So after k passes the number is that of the k bytes plus 256^k times that of
  the groups left (`KeptAfter`). A number below 256^16 is gone after 16 passes, and
  groups that stand for nothing are no groups, so the passes end by then
  (`DivideOutIs`), and padding with zeros (`FrontKept`) gives the field its size.
- The six fields, joined, are found at the places the sizes give (`FieldsAt`). The
  field of an address is the key it was made for (`OwnerField`, with `MadeIsValid`), and
  an address that is no account's still leaves a whole field (`TextField`).

What a recursive function is at every place is proved from its steps by induction
in the form of a set that holds 0 and every successor (`UpTo`).

`MonoBlake2bProofs` proves `Blake2bTypeCorrect`, `Blake2bContextCanonical` and
`Blake2bDigestCorrect` for every block size, key and message within
`SizesAssumption`, from the conjunction of the type, the place of the running call
in its input (`CallInStream`), the alignment its loops rely on (`LoopAligns`),
`ContextIsCanonical` and `DigestIsReference`. The context at any moment is a
function of the bytes taken so far; the cut into calls is not in it, so it cannot
be in the digest.

`MonoArgon2Proofs` proves `ArgonInvariant`, `ReferencesInArea`,
`BlocksFilledInOrder` and `NoWordReused` under `ArgonAssumption`, from the type,
the relation of block and segment (`Place`), `FilledInOrder`, the relation of
pool and offset (`PoolMatchesOffset`) and what the last word was (`LastWord`).
That a reference is filled and not being filled then is arithmetic on the area of
each segment. `ExtendedHashCorrect` (`ExtendedHashIsChain`): for every size, the
pieces of the digest are the chain of hashes, without a gap between them; the
invariant relates the place in the output to the number of hashes made
(`HashProgress`).

`MonoPoly1305Proofs` proves, for words of any size that 16 divides:

- `PolyTyped`, with the chunk filled as `c_idx` says. The exception, which
  makes the invariant `PolyInv` longer than one expects, is a call between two
  whole blocks, where `c` still holds the block before and `c_idx` is 0.
- `Poly1305Fits` (`SumsFit`): the bounds that the comments of `poly_block` state.
  Clamping leaves each word of r below a sixteenth of all words (`ClampedKey`), a
  word of the accumulator and one of the chunk are together below two. So each of
  the four products of a sum, plain or times five fourths, is at most 5/32 of the
  square of a word, and the fifth, of the top words, is small (`SumsBounded`);
  what is carried out of the last sum, times five, leaves `h[4]` at most 4
  (`BlockBounded`).

- `TagCorrect` (`TagIsReference`): the tag is the polynomial of the blocks in r
  modulo 4 * W^4 - 5 (2^130 - 5 for words of 32 bits), plus the pad, for every
  key, every message of any length, and whatever the sizes of the calls.

The argument of the last has four parts. (1) `poly_block`: the five sums are the
product of accumulator plus chunk by the key, modulo the prime (`SumsValue`):
W^4 times four comes back as five, and as clamping makes the upper words of r
multiples of four (`ClampedKey`), their quarters times five are exact. The
carries change a number only by multiples of the prime (`CarryValue`), so
`BlockValue`. (2) The reference computes in two digits and always leaves the
remainder below the prime (`RemainderRight`, `TimesRight`, `NextPowerRight`).
(3) The words of `c` are the bytes of the chunk, however they came there
(`TakenHolds`, `LoadedHolds`), and the polynomial of a part of a message is the
part of its polynomial (`PolynomialPrefix`). (4) `crypto_poly1305_final`: its first
loop counts how many times the prime is to be subtracted, 0 or 1 (`PrimeTaken`),
which leaves the remainder; adding the pad is a sum of words with carries
(`PadAdded`). So `FinalRight`. The inductive invariant is `PolyInv` with `TagInv`:
after k whole blocks and `c_idx` bytes of the next, the accumulator is the
polynomial of k blocks modulo the prime, and `c` holds those bytes (`Taken`); a
call that goes on after its byte loop does so at a block (the alignment `(-c_idx)
% 16` is for). The accumulator itself is not the remainder: it may be up to five
times W^4, which is why the invariant speaks of numbers that are the `Same` modulo
the prime. What the recursive function `Polynomial` is at every k is proved by
induction in the form of a set of naturals that holds 0 and every successor
(`SetInduction`, from the least element of a set of naturals).

`MonoAeadProofs` proves, of the cipher:

- `ChachaTyped`, `UsedOnce` (`KeystreamUsedOnce`) and `PiecesAsOne`
  (`PiecesAreWhole`), from `ChachaInv`: as long as the stream stays within the
  counter, the calls are some number B of blocks after the first counter, the words
  of the block are those of that counter, and what was used comes from the
  blocks before, each byte once (`Position`). It needs that two counters less than
  all counters apart have different words (`WordsDiffer`), and that adding one with
  the carry of the code is the next counter (`NextIsNext`, and `IetfWords` for the
  counter of one word, which has no carry).

and of authenticated encryption, for texts of any length below the counter and
within the eight bits that a size has in the model:

- `SpentOnce` (`NothingSpentTwice`): a one-time key and a text are different bytes
  of a key stream. That a key and nonce lock one message is the caller's part: a
  guard of `Lock`.
- `OpensLocked` (`OpensExactlyTheLocked`): a box opens if and only if it is
  one that was locked, with that key and that additional data. The bytes that are
  authenticated determine both texts (`AuthenticatedInjective`): they end with
  both sizes, which are stored without loss (`SizesDiffer`), and the padding
  depends on the sizes only. Decrypting is encrypting again (`CryptTwice`).

Both rest on `ChachaAssumption` and `AeadAssumption`: words of at least two
values, a one-time key that fits in a block, fewer bytes than there are counters.

Only model-checked:

- liveness (`EveryFlowEnds`, `ReceiverCollects`, `CallsReturn`), which is out of
  the prover's reach;
- the curve modules (`LimbsFit`, `LadderRight`, `BlindingUndone`, `MultiplesRight`,
  `KeysAgree`, `HiddenIsRepresentative`, `ReducedModL`, `SignaturesCheck`): they
  compare recursive computations on a field of one size.

The mutant operators in the modules are not part of any specification.

## Not modelled

- The compression functions and permutations themselves (the rounds of Blake2b,
  ChaCha20 and of the block function of Argon2i), `crypto_hchacha20` beyond its
  name, the constant time comparisons and wiping: straight-line code on bits,
  without a state to interleave or a boundary to meet, or with a property (time,
  traces in memory) that a state machine does not have.
- The strength of any primitive.
- The width of `(u5 >> 2) * 5` in `poly_block`, a u32: the bound on u5 in
  `SumsFit` keeps it far below.
- Where in the context of a signature a value lies: the passes put the nonce over
  the prefix and the half signature behind it (lines 2358-2359), and a hash is
  reduced in place. `MonoEddsa` gives each value a field of its own.
- Which `NanoNodeError` a failing request reports: every failure is one. Requests
  of the caller's own making (README "Custom command"): `rpcRequest` looks neither
  at their body nor at their answer.
- `NumberFormatter`, `NSDecimalNumber` and the locale (system libraries), and the
  multiplication and division of amounts, which only call them.
- Seeds, key derivation and `UInt32.bytes`: random bytes and hashes, with no state
  and no decision. A key is a function of seed and index.
- The tests: they need a live node and are read as documentation of use.
