CONSTANTS
    Bytes <- MC_Bytes
    AccountBytes = 1
    BalanceBytes = 1
    MomentBytes = 1
    MaxBlob = 7
SPECIFICATION Spec
INVARIANT DecodeMatchesReference
