\* Index consistency of the swap-remove set under every add/remove sequence.
CONSTANTS
    Keys <- MCKeys
    Limit = 1
SPECIFICATION Spec
INVARIANT TypeOK
INVARIANT IndexConsistent
