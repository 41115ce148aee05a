CONSTANTS
    Ids <- MCIds
    RF <- MCRF
    Required <- MCRequired
    Keys <- MCKeys
    Cases <- MCCases
    Bodies <- MCBodies
    BodyHash <- MCBodyHash
    Commitments <- MCCommitments
    FundsAmounts <- MCFunds
    StakeAmounts <- MCStakeAmounts
    StakingConfigs <- MCOpenConfigs
    TimeoutConfigs <- MCSlowConfigs
    InitialStakingConfig <- MCOpenConfig
    InitialTimeoutConfig <- MCSlowTimeouts
    MsgLists <- MCMsgListsTwoRewards
    TallyLimit = 1
    MaxHeight = 4
    MaxStake = 1
SPECIFICATION Spec
INVARIANTS
    TypeOK
    StatusSetsPartitionPool
    TimeoutIndexMatchesStatus
    NoMissedTimeout
    StageMatchesCounts
    FundsConserved
    StakerRecordsIndexed
    SettlementOrderFree
PROPERTIES
    RefinesLifecycle
