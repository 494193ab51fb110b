SPECIFICATION Spec
CONSTANTS
    Q = 7
    N = 3
    Degrees = {1, 2}
    Coefficients <- MCCoefficients
    ChainCodes <- MCChainCodes
    ShortCoords = {1}
    Options <- MCOptions
    Ephemerals <- MCEphemerals
    MaxFailures = 2
    Hmac <- MCHmac
    Challenge <- MCChallenge
INVARIANTS
    TypeOK
    QuorumRecovers
    NoFileWithoutShares
    OnlyShortKeysStop
    AgreedSignersSign
    OnlyAgreedSignersSign
PROPERTIES
    KeygenCompletes
CHECK_DEADLOCK FALSE
