----------------------------- MODULE StakersMap -----------------------------
(***************************************************************************)
(* StakersMap (msgs/staking/state/stakers_map.rs): the staker records,     *)
(* Map<&PublicKey, Staker>, and an EnumerableSet of their public keys that *)
(* gives the staker count.  A Staker is [staked, pending] (the memo is     *)
(* left out: nothing reads it).  A staking config is                       *)
(*   [minToRegister, minForCommittee, allowlistEnabled].                   *)
(***************************************************************************)
EXTENDS Naturals, EnumerableSet

SmInit == [stakers |-> EmptyMap, publicKeys |-> EsInit]

\* StakersMap::insert errors if the key is already in public_keys.
SmCanInsert(sm, k) == EsCanAdd(sm.publicKeys, k)

\* StakersMap::insert
SmInsert(sm, k, v) ==
    [stakers |-> Save(sm.stakers, k, v), publicKeys |-> EsAdd(sm.publicKeys, k)]

\* StakersMap::update (Map::save, never fails)
SmUpdate(sm, k, v) == [sm EXCEPT !.stakers = Save(@, k, v)]

\* StakersMap::remove errors if the key is not in public_keys.
SmCanRemove(sm, k) == EsCanRemove(sm.publicKeys, k)

\* Mutant: the record is deleted but its key stays in public_keys.
SmRemoveKeepIndex(sm, k) == [sm EXCEPT !.stakers = Delete(@, k)]

\* StakersMap::remove
SmRemove(sm, k) ==
    [stakers |-> Delete(sm.stakers, k), publicKeys |-> EsRemove(sm.publicKeys, k)]

\* StakersMap::may_get_staker / get_staker succeeds
SmHas(sm, k) == Has(sm.stakers, k)

\* StakersMap::len
SmLen(sm) == sm.publicKeys.len

=============================================================================
