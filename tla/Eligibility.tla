----------------------------- MODULE Eligibility -----------------------------
(***************************************************************************)
(* The committee-eligibility selector (staking/state/is_eligible_for_dr.rs) *)
(* and the IsExecutorEligible query that gates it (staking/query.rs).      *)
(*                                                                         *)
(* The selector is a query: it changes nothing.  Its inputs are the        *)
(* contract state it reads (the stakers map, the staking config, the       *)
(* allowlist) and the request it is asked about (id and replication        *)
(* factor).  The module holds those inputs as variables that Init picks    *)
(* among the states the contract can be in, and the properties compare    *)
(* the selector with a reference definition of the committee.              *)
(*                                                                         *)
(* Public keys are the numbers 1..KeyCount: the stakers map is read with   *)
(* range_raw in ascending byte order, which is their numeric order.  A     *)
(* request id is the residue of its be_u256 value; ids 0..IdBound-1 give   *)
(* every residue modulo every possible committee size.                     *)
(***************************************************************************)
EXTENDS Naturals, FiniteSets, Sequences
LOCAL INSTANCE SequencesExt

CONSTANTS
    KeyCount,       \* bound: number of distinct public keys
    StakeValues,    \* tokens_staked a staker can hold
    CommitteeMins,  \* values of minimum_stake_for_committee_eligibility
    IdBound         \* request ids 0..IdBound-1

Keys == 1..KeyCount

VARIABLES
    stakers,        \* STAKERS.stakers: key -> tokens_staked
    minForCommittee,
    allowlistEnabled,
    allowlist,      \* ALLOWLIST keys (each saved as true)
    drId,
    rf              \* the request's replication_factor

vars == <<stakers, minForCommittee, allowlistEnabled, allowlist, drId, rf>>

(***************************************************************************)
(* The code.                                                               *)
(***************************************************************************)

\* is_eligible_for_dr.rs 10-21: the stakers whose tokens_staked reach the
\* committee minimum, in ascending key order.
AllActiveStakers(st, minC) == SetToSortSeq({k \in DOMAIN st : st[k] >= minC}, <)

\* is_eligible_for_dr.rs: the expect("Could not find staker") and the
\* modulo by the number of active stakers both panic unless the key is
\* active.
IsEligibleCanRun(st, minC, pk) == pk \in Range(AllActiveStakers(st, minC))

\* Mutant: the no-overflow branch also taken when start = end.
IsEligibleForDrLe(st, minC, id, r, pk) ==
    LET active == AllActiveStakers(st, minC)
        n      == Len(active)
        i      == CHOOSE j \in 0..n-1 : active[j+1] = pk
        start  == id % n
        end    == (start + r) % n
    IN  IF start <= end THEN i >= start /\ i < end
                        ELSE i >= start \/ i < end

\* is_eligible_for_dr.rs 6-43: the window of r positions from
\* dr_id mod N, wrapping around the end of the active list.
IsEligibleForDr(st, minC, id, r, pk) ==
    LET active == AllActiveStakers(st, minC)
        n      == Len(active)
        i      == CHOOSE j \in 0..n-1 : active[j+1] = pk
        start  == id % n
        end    == (start + r) % n
    IN  IF start < end THEN i >= start /\ i < end
                       ELSE i >= start \/ i < end

\* Mutant: any registered staker counts as an executor.
IsStakerExecutorNoMinimum(st, minC, alEnabled, al, pk) ==
    /\ alEnabled => pk \in al
    /\ pk \in DOMAIN st

\* stakers_map.rs 41-57: allowlisted (when the allowlist is on), staked,
\* and holding at least the committee minimum.
IsStakerExecutor(st, minC, alEnabled, al, pk) ==
    /\ alEnabled => pk \in al
    /\ pk \in DOMAIN st
    /\ st[pk] >= minC

\* query.rs 35-60: IsExecutorEligible answers false unless the request
\* exists and the key is an executor; only then is the selector run.
\* (The VRF proof of the query is taken to verify.)
IsExecutorEligible(st, minC, alEnabled, al, id, r, pk) ==
    /\ IsStakerExecutor(st, minC, alEnabled, al, pk)
    /\ IsEligibleForDr(st, minC, id, r, pk)

\* post_request.rs 10-19: the replication factor is non-zero and at most
\* STAKERS.len(), the number of stakers of any stake.
ReplicationFactorAccepted(st, r) == r >= 1 /\ r <= Cardinality(DOMAIN st)

(***************************************************************************)
(* The states the query can run in.  Any staked amount of a present       *)
(* staker is reachable (stake, then unstake down to it: a staker with 0    *)
(* staked and tokens pending stays in the map), as is any allowlist.       *)
(***************************************************************************)
Init ==
    /\ \E D \in SUBSET Keys : stakers \in [D -> StakeValues]
    /\ minForCommittee \in CommitteeMins
    /\ allowlistEnabled \in BOOLEAN
    /\ allowlist \in SUBSET Keys
    /\ drId \in 0..IdBound-1
    /\ rf \in {r \in 0..KeyCount : ReplicationFactorAccepted(stakers, r)}

\* A query leaves the state as it is.
Next == UNCHANGED vars

Spec == Init /\ [][Next]_vars

(***************************************************************************)
(* Properties.                                                             *)
(***************************************************************************)
Active == AllActiveStakers(stakers, minForCommittee)

\* Reference: the committee is the rf active stakers at the positions
\* start, start+1, ... taken cyclically, or all of them when rf >= N.
Committee ==
    LET n == Len(Active) IN
    {Active[(((drId % n) + j) % n) + 1] : j \in 0..(rf - 1)}

Eligible == {pk \in Range(Active) :
                IsEligibleForDr(stakers, minForCommittee, drId, rf, pk)}

\* The IsExecutorEligible query never panics: every key that passes
\* is_staker_executor (stakers_map.rs) is found by the selector's own
\* filter of active stakers (is_eligible_for_dr.rs), which is non-empty.
\* The two files state "active" separately.
EligibilityQueryTotal ==
    \A pk \in Keys :
        IsStakerExecutor(stakers, minForCommittee, allowlistEnabled, allowlist, pk)
            => IsEligibleCanRun(stakers, minForCommittee, pk)

\* Whenever the request's replication factor does not exceed the number
\* of active stakers, the executors the selector admits are exactly the
\* reference window of rf stakers starting at dr_id mod N, and the
\* IsExecutorEligible query answers true only inside that window.
SelectorIsWindow ==
    rf <= Len(Active) =>
        /\ Eligible = Committee
        /\ \A pk \in Keys :
              IsExecutorEligible(stakers, minForCommittee, allowlistEnabled,
                                 allowlist, drId, rf, pk) => pk \in Committee

=============================================================================
