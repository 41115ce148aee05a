CONSTANTS
    Ids <- MCIds
    RF <- MCRF
    Required <- MCRequired
    Keys <- MCKeys
    Cases <- MCCases
    Bodies <- MCBodies
    BodyHash <- MCBodyHash
    Commitments <- MCCommitments
    FundsAmounts <- MCFunds
    StakeAmounts <- MCStakeAmounts
    StakingConfigs <- MCOpenConfigs
    TimeoutConfigs <- MCSlowConfigs
    InitialStakingConfig <- MCOpenConfig
    InitialTimeoutConfig <- MCSlowTimeouts
    MsgLists <- MCNoMsgLists
    TallyLimit = 1
    MaxHeight = 3
    MaxStake = 1
SPECIFICATION FairSpec
PROPERTY
    EveryRequestSettles
