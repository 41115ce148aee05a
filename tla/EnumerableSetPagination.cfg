\* Paging through the set while the contract removes members.
CONSTANTS
    Keys <- MCKeys
    Limit = 1
SPECIFICATION Spec
INVARIANT PaginationComplete
