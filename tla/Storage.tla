------------------------------ MODULE Storage ------------------------------
(***************************************************************************)
(* The key-value primitives of cw_storage_plus that every component of the *)
(* contract is built from.  A Map<K, V> of the store is a TLA+ function    *)
(* whose domain is the set of keys currently saved.  These are library     *)
(* operations (Map::save, Map::remove, Map::has), not code of the          *)
(* repository.                                                              *)
(***************************************************************************)
LOCAL INSTANCE TLC
LOCAL INSTANCE Functions

\* Map::save: overwrite or create the entry for key k.
Save(f, k, v) == (k :> v) @@ f

\* Map::remove: drop the entry for key k (a no-op when it is absent).
Delete(f, k) == Restrict(f, DOMAIN f \ {k})

\* Map::has
Has(f, k) == k \in DOMAIN f

\* The empty map.
EmptyMap == [x \in {} |-> 0]
=============================================================================
