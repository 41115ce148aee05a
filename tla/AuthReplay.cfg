CONSTANTS
    Keys <- MCOneKey
    Addrs <- MCAddrs
    InitialOwner = "a1"
    Amounts = {1}
    MinToRegister = 1
    AllowlistEnabled = TRUE
    MaxSeq = 3
    MaxStake = 2
SPECIFICATION Spec
INVARIANTS
    TypeOK
    ReplayProtected
