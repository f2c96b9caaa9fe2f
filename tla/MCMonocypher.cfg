\* All of Monocypher, one component at a time.
SPECIFICATION Spec
CONSTANTS
    Block = 4
    OffsetWord = 6
    Bits <- MCBits
    Message <- MCMessage
    Keys <- MCKeys
    Stale <- MCStale
    Asks <- MCAsks
    Iterations = 3
    PoolWords = 3
    WordSize = 32
    Half = 2
    HashSizes <- MCHashSizes
    W = 256
    ByteSize = 4
    Texts <- MCTexts
    MacKeys <- MCMacKeys
    StreamBlock = 3
    CounterWord = 4
    StreamMax = 10
    Starts <- MCStarts
    NonceWords <- MCNonceWords
    SubKeys = {1, 2}
    MacKeyBytes = 2
    TextMax = 3
    Messages <- MCMessages
    KeyByte <- MCKeyByte
    P = 2213
    A = 94
    FieldBits = 12
    L = 269
    Words = 3
    WordBase = 16
    ScalarBits = 12
    CombSpacing = 2
    BaseX = 1450
    BaseY = 482
    Secrets <- MCSecrets
    Points <- MCPoints
    EdPoints <- MCEdPoints
    Scalars <- MCScalars
    Numbers <- MCNumbers
    Hiddens <- MCHiddens
    Tweaks <- MCTweaks
    Seeds <- MCSeeds
    Expand <- MCExpand
    SecretKeys <- MCSecretKeys
    Pieces <- MCPieces
    MessageMax = 2
    Forgeries <- MCForgeries
    OtherKeys <- MCOtherKeys
    HashOf <- MCHashOf
INVARIANTS
    ContextIsCanonical
    DigestIsReference
    ReferenceInArea
    ExtendedHashIsChain
    SumsFit
    TagIsReference
    KeystreamUsedOnce
    PiecesAreWhole
    OpensExactlyTheLocked
    NothingSpentTwice
    LadderRight
    BlindingUndone
    MultiplesRight
    KeysAgree
    HiddenIsRepresentative
    ReducedModL
    SignaturesCheck
    LimbsFit
PROPERTIES
    WordsNotReused
    CallsReturn
CHECK_DEADLOCK FALSE
