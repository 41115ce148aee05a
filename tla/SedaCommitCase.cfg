CONSTANTS
    Ids <- MCIds
    RF <- MCRF
    Required <- MCRequired
    Keys <- MCKeys
    Cases <- MCCasesMixed
    Bodies <- MCBodies
    BodyHash <- MCBodyHash
    Commitments <- MCCommitments
    FundsAmounts <- MCFunds
    StakeAmounts <- MCStakeAmounts
    StakingConfigs <- MCOpenConfigs
    TimeoutConfigs <- MCSlowConfigs
    InitialStakingConfig <- MCOpenConfig
    InitialTimeoutConfig <- MCSlowTimeouts
    MsgLists <- MCMsgLists
    TallyLimit = 1
    MaxHeight = 4
    MaxStake = 1
SPECIFICATION Spec
INVARIANT
    OneCommitPerExecutor
