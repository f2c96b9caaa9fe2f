\* Which formula crypto_curve_to_hidden uses for which sign.
SPECIFICATION CurveSpec
CONSTANTS
    P = 2213
    A = 94
    FieldBits = 12
    L = 269
    Words = 3
    WordBase = 16
    ScalarBits = 12
    CombSpacing = 2
    BaseX = 1450
    BaseY = 482
    Secrets <- MCSecrets
    Points <- MCPoints
    EdPoints <- MCEdPoints
    Scalars <- MCScalars
    Numbers <- MCNumbers
    Hiddens <- MCHiddens
    Tweaks <- MCTweaks
    Seeds <- MCSeeds
    Expand <- MCExpand
    SecretKeys <- MCSecretKeys
    Pieces <- MCPieces
    MessageMax = 2
    Forgeries <- MCForgeries
    OtherKeys <- MCOtherKeys
    HashOf <- MCHashOf
INVARIANT
    HiddenByTheComment
CHECK_DEADLOCK FALSE
