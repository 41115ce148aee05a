--------------------------- MODULE EnumerableSet ---------------------------
(***************************************************************************)
(* EnumerableSet<Key> (msgs/enumerable_set.rs): a set of keys kept in      *)
(* three storage entries, len, key_to_index and index_to_key, so that      *)
(* membership, insertion and removal are O(1) and the members can be       *)
(* paged by index.  Removal swaps the last member into the freed slot.     *)
(* A set is a record with one field per storage entry; the operators are   *)
(* the methods, and a method's early error return is its Can* guard.       *)
(***************************************************************************)
EXTENDS Naturals, Sequences, Storage
LOCAL INSTANCE SequencesExt

\* EnumerableSet::initialize
EsInit == [len |-> 0, keyToIndex |-> EmptyMap, indexToKey |-> EmptyMap]

\* EnumerableSet::has
EsHas(s, k) == Has(s.keyToIndex, k)

\* The members of the set.
EsKeys(s) == DOMAIN s.keyToIndex

\* Mutant: the "Key already exists" check is missing.
EsCanAddAlways(s, k) == TRUE

\* EnumerableSet::add returns "Key already exists" for a present key.
EsCanAdd(s, k) == ~EsHas(s, k)

\* EnumerableSet::add: the new key takes index len.
EsAdd(s, k) ==
    [len        |-> s.len + 1,
     indexToKey |-> Save(s.indexToKey, s.len, k),
     keyToIndex |-> Save(s.keyToIndex, k, s.len)]

\* EnumerableSet::remove returns "Key does not exist" for an absent key.
EsCanRemove(s, k) == EsHas(s, k)

\* Mutant: the swapped-in last key keeps its old index in key_to_index.
EsRemoveNoReindex(s, k) ==
    LET index == s.keyToIndex[k]
        last  == s.len - 1
    IN  IF s.len = 1 \/ index = last
        THEN [len        |-> last,
              indexToKey |-> Delete(s.indexToKey, index),
              keyToIndex |-> Delete(s.keyToIndex, k)]
        ELSE [len        |-> last,
              indexToKey |-> Delete(Save(s.indexToKey, index, s.indexToKey[last]), last),
              keyToIndex |-> Delete(s.keyToIndex, k)]

\* EnumerableSet::remove: the last key moves into the removed key's slot.
EsRemove(s, k) ==
    LET index == s.keyToIndex[k]
        last  == s.len - 1
    IN  IF s.len = 1 \/ index = last
        THEN [len        |-> last,
              indexToKey |-> Delete(s.indexToKey, index),
              keyToIndex |-> Delete(s.keyToIndex, k)]
        ELSE LET lastKey == s.indexToKey[last]
             IN  [len        |-> last,
                  indexToKey |-> Delete(Save(s.indexToKey, index, lastKey), last),
                  keyToIndex |-> Delete(Save(s.keyToIndex, lastKey, index), k)]

\* DataRequestsMap::get_requests_by_status: the keys at indices
\* offset .. offset+limit-1 of index_to_key, in ascending index order.
EsPage(s, offset, limit) ==
    LET idx == SetToSortSeq({i \in DOMAIN s.indexToKey :
                                offset <= i /\ i < offset + limit}, <)
    IN  [j \in 1..Len(idx) |-> s.indexToKey[idx[j]]]

\* The three entries describe one set: indices 0..len-1 are all used, and
\* key_to_index and index_to_key are inverse to each other.
EsWellFormed(s) ==
    /\ DOMAIN s.indexToKey = 0 .. (s.len - 1)
    /\ DOMAIN s.keyToIndex = {s.indexToKey[i] : i \in DOMAIN s.indexToKey}
    /\ \A i \in DOMAIN s.indexToKey : s.keyToIndex[s.indexToKey[i]] = i
=============================================================================
