CONSTANTS
    Ids <- MCOneId
    RF <- MCRF
    Required <- MCRequired
    Keys <- MCKeys
    Cases <- MCCases
    Bodies <- MCBodies
    BodyHash <- MCBodyHash
    Commitments <- MCCommitments
    FundsAmounts <- MCFunds
    StakeAmounts <- MCStakeAmountsWide
    StakingConfigs <- MCStakingConfigs
    TimeoutConfigs <- MCTimeoutConfigs
    InitialStakingConfig <- MCOpenConfig
    InitialTimeoutConfig <- MCSlowTimeouts
    MsgLists <- MCMsgLists
    TallyLimit = 1
    MaxHeight = 4
    MaxStake = 2
SPECIFICATION Spec
INVARIANTS
    FundsConserved
    StakerRecordsIndexed
    TimeoutIndexMatchesStatus
    NoMissedTimeout
