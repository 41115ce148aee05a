----------------------- MODULE MCEnumerableSetPaging -----------------------
EXTENDS EnumerableSetPaging
\* Three keys and pages of one: the smallest set in which a key can be
\* swapped from behind the client's offset to in front of it.
MCKeys == {"k1", "k2", "k3"}
=============================================================================
