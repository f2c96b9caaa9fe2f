\* The wallet and the encodings. Accounts of two seeds and types, two of them held outside the wallet. A trap ends the process.
SPECIFICATION LocalSpec
CONSTANTS
    own = own
    other = other
    MaxIndex = 2
    Seeds <- SeedPair
    Own = own
    Types = {"nano", "banano"}
    MaxDrafts = 2
    ByteBits = 6
    CharBits = 5
    KeyBytes = 6
    ChecksumBytes = 5
    BalanceBytes = 2
    GroupDigits = 2
    Digest <- MCDigest
    Keys <- KeyPair
    AccountPrefixes = {"nano", "xrb", "banano"}
    Slips <- MCSlips
    MaxSlips = 1
    AccountInfos <- MCInfos
    Amounts <- MCAmounts
    Sources <- MCSources
INVARIANTS
    WalletTypeOK
    UniqueIndices
    CountsToFreeIndex
    AddressesChecked
    HashedAsPublished
PROPERTY
    NeverReplaced
CHECK_DEADLOCK FALSE
