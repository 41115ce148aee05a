------------------------------ MODULE Timeouts ------------------------------
(***************************************************************************)
(* Timeouts (msgs/data_requests/state/timeouts.rs): the expiry index of    *)
(* the data-request pool.  timeouts is the set of (height, id) keys of the *)
(* Map<(u64, &Hash), ()>, hashToTimeout the reverse Map<&Hash, u64>.      *)
(***************************************************************************)
EXTENDS Naturals, Sequences, Storage
LOCAL INSTANCE SequencesExt

TmInit == [timeouts |-> {}, hashToTimeout |-> EmptyMap]

\* Timeouts::insert: saves both directions (no old entry is dropped).
TmInsert(t, timeout, id) ==
    [hashToTimeout |-> Save(t.hashToTimeout, id, timeout),
     timeouts      |-> t.timeouts \cup {<<timeout, id>>}]

\* Timeouts::remove_by_dr_id fails when hash_to_timeout has no entry.
TmCanRemoveByDrId(t, id) == Has(t.hashToTimeout, id)

\* Timeouts::remove_by_dr_id
TmRemoveByDrId(t, id) ==
    [timeouts      |-> t.timeouts \ {<<t.hashToTimeout[id], id>>},
     hashToTimeout |-> Delete(t.hashToTimeout, id)]

\* Timeouts::get_all_by_timeout_height: the ids under prefix h in
\* ascending key order (ids are numbers, ordered as their hashes' bytes).
TmAllByTimeoutHeight(t, h) ==
    SetToSortSeq({e[2] : e \in {x \in t.timeouts : x[1] = h}}, <)

\* Mutant: the hash_to_timeout entries of the swept ids are left behind.
TmRemoveByTimeoutHeightKeepHash(t, h) == [t EXCEPT !.timeouts = {x \in @ : x[1] # h}]

\* Timeouts::remove_by_timeout_height: removes both entries of every id
\* found under prefix h (the ids are returned by TmAllByTimeoutHeight).
TmRemoveByTimeoutHeight(t, h) ==
    LET due == {e[2] : e \in {x \in t.timeouts : x[1] = h}}
    IN  [timeouts      |-> {x \in t.timeouts : x[1] # h},
         hashToTimeout |-> [id \in DOMAIN t.hashToTimeout \ due |-> t.hashToTimeout[id]]]
=============================================================================
