------------------------ MODULE EnumerableSetPaging ------------------------
(***************************************************************************)
(* One EnumerableSet shared by the contract, which adds and removes keys   *)
(* in its execute and sudo handlers, and a client that pages through it    *)
(* with repeated offset/limit queries (GetDataRequestsByStatus), each      *)
(* query a separate invocation between which the contract may run.        *)
(***************************************************************************)
EXTENDS Naturals, Sequences, FiniteSets, EnumerableSet

CONSTANTS
    Keys,     \* the keys that may be members
    Limit     \* the page size the client asks for

ASSUME Limit \in Nat \ {0}

VARIABLES
    set,      \* the EnumerableSet in the store
    scan,     \* "idle", "reading" or "done": the client's paging loop
    offset,   \* offset of the client's next page query
    seen,     \* keys returned by the pages read so far
    started,  \* the members when the client read its first page
    removed   \* keys removed from the set since the scan started

vars == <<set, scan, offset, seen, started, removed>>

Init ==
    /\ set = EsInit
    /\ scan = "idle"
    /\ offset = 0
    /\ seen = {}
    /\ started = {}
    /\ removed = {}

\* EnumerableSet::add of key k by some handler of the contract.
Add(k) ==
    /\ EsCanAdd(set, k)
    /\ set' = EsAdd(set, k)
    /\ UNCHANGED <<scan, offset, seen, started, removed>>

\* EnumerableSet::remove of key k by some handler of the contract.
Remove(k) ==
    /\ EsCanRemove(set, k)
    /\ set' = EsRemove(set, k)
    /\ removed' = IF scan = "reading" THEN removed \cup {k} ELSE removed
    /\ UNCHANGED <<scan, offset, seen, started>>

\* The client starts a new scan at offset 0.
StartScan ==
    /\ scan \in {"idle", "done"}
    /\ scan' = "reading"
    /\ offset' = 0
    /\ seen' = {}
    /\ started' = EsKeys(set)
    /\ removed' = {}
    /\ UNCHANGED set

\* One page query; a page shorter than Limit ends the scan.
ReadPage ==
    LET page == EsPage(set, offset, Limit)
    IN  /\ scan = "reading"
        /\ seen' = seen \cup {page[i] : i \in 1..Len(page)}
        /\ offset' = offset + Limit
        /\ scan' = IF Len(page) < Limit THEN "done" ELSE "reading"
        /\ UNCHANGED <<set, started, removed>>

Next ==
    \/ \E k \in Keys : Add(k) \/ Remove(k)
    \/ StartScan
    \/ ReadPage

Spec == Init /\ [][Next]_vars

-----------------------------------------------------------------------------
TypeOK ==
    /\ set.len \in 0..Cardinality(Keys)
    /\ EsKeys(set) \subseteq Keys
    /\ scan \in {"idle", "reading", "done"}
    /\ offset \in 0..(Cardinality(Keys) + Limit)
    /\ seen \subseteq Keys /\ started \subseteq Keys /\ removed \subseteq Keys

\* After any sequence of adds and removes (the swap of the last key into a
\* removed key's slot included) len, key_to_index and index_to_key still
\* describe the same set of keys with indices 0..len-1.
IndexConsistent == EsWellFormed(set)

\* Spec section 8: paging with offset k*L and limit L enumerates every id
\* of a status exactly once "even after interleaved removals": a key that
\* was a member when the scan started and was never removed during it is
\* returned by some page.
PaginationComplete ==
    scan = "done" => (started \ removed) \subseteq seen
=============================================================================
