CONSTANTS
    Ids <- MCOneId
    RF <- MCRF
    Required <- MCRequired
    Keys <- MCKeys
    Cases <- MCCases
    Bodies <- MCBodies
    BodyHash <- MCBodyHash
    Commitments <- MCCommitments
    FundsAmounts <- MCFunds
    StakeAmounts <- MCStakeAmountsWide
    StakingConfigs <- MCGatedConfigs
    TimeoutConfigs <- MCSlowConfigs
    InitialStakingConfig <- MCGatedConfig
    InitialTimeoutConfig <- MCSlowTimeouts
    MsgLists <- MCMsgLists
    TallyLimit = 1
    MaxHeight = 4
    MaxStake = 2
SPECIFICATION Spec
INVARIANT
    RemovedKeyHoldsNoStake
