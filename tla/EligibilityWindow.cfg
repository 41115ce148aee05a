CONSTANTS
    KeyCount <- MCKeyCount
    StakeValues <- MCStakeValues
    CommitteeMins <- MCCommitteeMins
    IdBound <- MCIdBound
SPECIFICATION Spec
INVARIANTS
    EligibilityQueryTotal
    SelectorIsWindow
