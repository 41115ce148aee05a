-------------------------------- MODULE Seda --------------------------------
(***************************************************************************)
(* The core contract (seda-chain-contracts/contract): the data-request     *)
(* pool, the stakers, escrow and settlement, and the owner switches that   *)
(* gate them, driven by the blocks of the host chain.                      *)
(*                                                                         *)
(* Every execute and sudo message is one atomic invocation: an action is   *)
(* the whole handler, its guard the conjunction of the handler's checks    *)
(* (a failed check or a panic reverts everything, so a failing call is a   *)
(* stuttering step and is not written).  The host runs transactions, then  *)
(* its end-blocker calls the ExpireDataRequests sudo at the block height,  *)
(* then RemoveDataRequests on the tallying requests, then starts the next  *)
(* block: phase is where the host is in that cycle.                        *)
(***************************************************************************)
EXTENDS Naturals, Sequences, FiniteSets, DataRequestsMap, Distribution
LOCAL INSTANCE SequencesExt
LOCAL INSTANCE Functions

CONSTANTS
    Ids,                  \* data-request ids (the hashes of posted args)
    RF,                   \* Ids -> replication factor of the posted args
    Required,             \* Ids -> (exec_gas_limit + tally_gas_limit) * gas_price
    Keys,                 \* executor public keys
    Cases,                \* the hex spellings a key may be sent in
    Bodies,               \* reveal bodies
    BodyHash,             \* Bodies -> Commitments: RevealBody::try_hash
    Commitments,          \* commitment hashes an executor may send
    FundsAmounts,         \* funds attached to PostDataRequest
    StakeAmounts,         \* amounts for Stake, Unstake and Withdraw
    StakingConfigs,       \* configs the owner may set
    TimeoutConfigs,       \* timeout configs the owner may set
    InitialStakingConfig,
    InitialTimeoutConfig,
    MsgLists,             \* distribution lists the tally module may send
    TallyLimit,           \* tallying requests the host settles per block
    MaxHeight,            \* bound: the last block height explored
    MaxStake              \* bound: largest staked + pending balance a Stake reaches

\* A public key as hex text: PublicKey::from_hex_str decodes any spelling.
HexKeys == Keys \X Cases
KeyOf == [h \in HexKeys |-> h[1]]

MaxCommitTimeout == Max({c.commit : c \in TimeoutConfigs})
MaxRevealTimeout == Max({c.reveal : c \in TimeoutConfigs})

ASSUME /\ InitialTimeoutConfig \in TimeoutConfigs
       /\ InitialStakingConfig \in StakingConfigs
       /\ \A id \in Ids : RF[id] \in Nat \ {0}
       /\ \A b \in Bodies : BodyHash[b] \in Commitments

VARIABLES
    height,          \* env.block.height
    phase,           \* "txs", "expired" (after the expire sudo), "tallied"
    paused,          \* PAUSED
    timeoutConfig,   \* TIMEOUT_CONFIG
    stakingConfig,   \* STAKING_CONFIG
    allowlist,       \* ALLOWLIST (keys saved with value true)
    stakers,         \* STAKERS (a StakersMap record)
    pool,            \* DATA_REQUESTS (a DataRequestsMap record)
    escrow,          \* DR_ESCROW: id -> escrowed amount (the poster is one address)
    balance          \* the contract's balance in the bank module

vars == <<height, phase, paused, timeoutConfig, stakingConfig, allowlist,
          stakers, pool, escrow, balance>>

\* instantiate: not paused, the initial configs, empty maps.
Init ==
    /\ height = 0
    /\ phase = "txs"
    /\ paused = FALSE
    /\ timeoutConfig = InitialTimeoutConfig
    /\ stakingConfig = InitialStakingConfig
    /\ allowlist = {}
    /\ stakers = SmInit
    /\ pool = DrmInit
    /\ escrow = EmptyMap
    /\ balance = 0

\* The data-request execute dispatcher refuses every message while paused
\* (data_requests/execute/mod.rs).
Executable == phase = "txs" /\ ~paused

\* The staking execute dispatcher refuses stake, unstake and withdraw while
\* paused; set_staking_config, an owner message, passes the gate
\* (staking/execute/mod.rs).
StakingExecutable(isConfig) == phase = "txs" /\ (paused => isConfig)
-----------------------------------------------------------------------------
(* Data-request execute messages.                                          *)

\* state/mod.rs data_request_exists: the id is a key of the pool.
DataRequestExists(id) == Has(pool.reqs, id)

\* state/mod.rs post_request: inserts the request with status Committing.
PostRequest(p, h, id, dr, commitTimeout) ==
    DrmInsert(p, h, id, dr, "committing", commitTimeout)

\* post_request.rs.  Bound: requests are posted only while every timeout
\* they can get still falls within MaxHeight.
PostDataRequest(id, funds) ==
    LET dr == [rf |-> RF[id], commits |-> EmptyMap, reveals |-> EmptyMap, height |-> height]
    IN  /\ Executable
        /\ height + MaxCommitTimeout + MaxRevealTimeout <= MaxHeight
        /\ RF[id] # 0
        /\ RF[id] <= SmLen(stakers)
        /\ ~DataRequestExists(id)
        /\ funds >= Required[id]
        /\ DrmCanInsert(pool, id, "committing")
        /\ escrow' = Save(escrow, id, funds)
        /\ pool' = PostRequest(pool, height, id, dr, timeoutConfig.commit)
        /\ balance' = balance + funds
        /\ UNCHANGED <<height, phase, paused, timeoutConfig, stakingConfig, allowlist, stakers>>

\* The expiry height of a request: get_dr_expiration_height must succeed
\* and lie above the current height.
NotExpired(id) ==
    /\ Has(pool.timeouts.hashToTimeout, id)
    /\ pool.timeouts.hashToTimeout[id] > height

\* state/mod.rs commit: the status a commit moves the request to, if any.
CommitStatus(dr) == IF RevealStarted(dr) THEN "revealing" ELSE NoStatus

\* state/mod.rs reveal: the status a reveal moves the request to, if any.
RevealStatus(dr) == IF IsTallying(dr) THEN "tallying" ELSE NoStatus

\* query.rs CanExecutorReveal: the request exists, its reveal stage has
\* started, and the hex key has a commitment.
CanExecutorReveal(h, id) ==
    /\ Has(pool.reqs, id)
    /\ RevealStarted(pool.reqs[id])
    /\ Has(pool.reqs[id].commits, h)

\* Mutant: the new status is computed from the request before the commit.
CommitDataResultStaleStatus(h, id, c) ==
    LET dr     == pool.reqs[id]
        dr2    == [dr EXCEPT !.commits = Save(@, h, c)]
        status == CommitStatus(dr)
    IN  /\ Executable
        /\ Has(pool.reqs, id)
        /\ ~Has(dr.commits, h)
        /\ ~RevealStarted(dr)
        /\ NotExpired(id)
        /\ SmHas(stakers, KeyOf[h])
        /\ stakers.stakers[KeyOf[h]].staked >= stakingConfig.minForCommittee
        /\ DrmCanUpdate(pool, id, status, FALSE)
        /\ pool' = DrmUpdate(pool, id, dr2, status, height, FALSE, timeoutConfig.reveal)
        /\ UNCHANGED <<height, phase, paused, timeoutConfig, stakingConfig, allowlist,
                       stakers, escrow, balance>>

\* commit_result.rs: verify_commit, the commitment saved under the hex
\* text h, and state::commit moving the request to revealing once the
\* replication factor is reached.  The VRF proof is over the key's bytes.
CommitDataResult(h, id, c) ==
    LET dr     == pool.reqs[id]
        k      == KeyOf[h]
        dr2    == [dr EXCEPT !.commits = Save(@, h, c)]
        status == CommitStatus(dr2)
    IN  /\ Executable
        /\ Has(pool.reqs, id)
        /\ ~Has(dr.commits, h)
        /\ ~RevealStarted(dr)
        /\ NotExpired(id)
        /\ SmHas(stakers, k)
        /\ stakers.stakers[k].staked >= stakingConfig.minForCommittee
        /\ DrmCanUpdate(pool, id, status, FALSE)
        /\ pool' = DrmUpdate(pool, id, dr2, status, height, FALSE, timeoutConfig.reveal)
        /\ UNCHANGED <<height, phase, paused, timeoutConfig, stakingConfig, allowlist,
                       stakers, escrow, balance>>

\* Mutant: the new status is computed from the request before the reveal.
RevealDataResultStaleStatus(h, id, b) ==
    LET dr     == pool.reqs[id]
        dr2    == [dr EXCEPT !.reveals = Save(@, h, b)]
        status == RevealStatus(dr)
    IN  /\ Executable
        /\ Has(pool.reqs, id)
        /\ RevealStarted(dr)
        /\ NotExpired(id)
        /\ Has(dr.commits, h)
        /\ ~Has(dr.reveals, h)
        /\ BodyHash[b] = dr.commits[h]
        /\ DrmCanUpdate(pool, id, status, FALSE)
        /\ pool' = DrmUpdate(pool, id, dr2, status, height, FALSE, timeoutConfig.reveal)
        /\ UNCHANGED <<height, phase, paused, timeoutConfig, stakingConfig, allowlist,
                       stakers, escrow, balance>>

\* reveal_result.rs: the body must hash to the commitment saved under the
\* same hex text; state::reveal moves the request to tallying once the
\* replication factor of reveals is reached.
RevealDataResult(h, id, b) ==
    LET dr     == pool.reqs[id]
        dr2    == [dr EXCEPT !.reveals = Save(@, h, b)]
        status == RevealStatus(dr2)
    IN  /\ Executable
        /\ Has(pool.reqs, id)
        /\ RevealStarted(dr)
        /\ NotExpired(id)
        /\ Has(dr.commits, h)
        /\ ~Has(dr.reveals, h)
        /\ BodyHash[b] = dr.commits[h]
        /\ DrmCanUpdate(pool, id, status, FALSE)
        /\ pool' = DrmUpdate(pool, id, dr2, status, height, FALSE, timeoutConfig.reveal)
        /\ UNCHANGED <<height, phase, paused, timeoutConfig, stakingConfig, allowlist,
                       stakers, escrow, balance>>

\* set_timeout_config.rs: owner only, allowed while paused, not validated.
SetTimeoutConfig(tc) ==
    /\ phase = "txs"
    /\ timeoutConfig' = tc
    /\ UNCHANGED <<height, phase, paused, stakingConfig, allowlist, stakers, pool, escrow, balance>>
-----------------------------------------------------------------------------
(* Staking execute messages.  The account sequence that their proofs sign  *)
(* is left out here: every modelled call carries a valid proof.            *)

\* stake.rs: allowlist check, then a new staker needs the registration
\* minimum on its own, an existing one together with its stake.
Stake(k, amount) ==
    LET new == ~SmHas(stakers, k)
        st  == IF new THEN [staked |-> 0, pending |-> 0] ELSE stakers.stakers[k]
    IN  /\ StakingExecutable(FALSE)
        /\ stakingConfig.allowlistEnabled => k \in allowlist
        /\ amount + st.staked >= stakingConfig.minToRegister
        /\ amount + st.staked + st.pending <= MaxStake
        /\ new => SmCanInsert(stakers, k)
        /\ stakers' = IF new
                      THEN SmInsert(stakers, k, [staked |-> amount, pending |-> 0])
                      ELSE SmUpdate(stakers, k, [st EXCEPT !.staked = @ + amount])
        /\ balance' = balance + amount
        /\ UNCHANGED <<height, phase, paused, timeoutConfig, stakingConfig, allowlist, pool, escrow>>

\* Mutant: the InsufficientFunds check compares with the pending tokens.
UnstakeCheckPending(k, amount) ==
    LET st == stakers.stakers[k] IN
    /\ StakingExecutable(FALSE)
    /\ SmHas(stakers, k)
    /\ amount <= st.pending
    /\ stakers' = SmUpdate(stakers, k, [staked |-> st.staked - amount,
                                        pending |-> st.pending + amount])
    /\ UNCHANGED <<height, phase, paused, timeoutConfig, stakingConfig, allowlist,
                   pool, escrow, balance>>

\* unstake.rs: staked tokens move to pending withdrawal.
Unstake(k, amount) ==
    LET st == stakers.stakers[k] IN
    /\ StakingExecutable(FALSE)
    /\ SmHas(stakers, k)
    /\ amount <= st.staked
    /\ stakers' = SmUpdate(stakers, k, [staked |-> st.staked - amount,
                                        pending |-> st.pending + amount])
    /\ UNCHANGED <<height, phase, paused, timeoutConfig, stakingConfig, allowlist,
                   pool, escrow, balance>>

\* withdraw (staking/execute/withdraw.rs is not in the sources; modelled
\* from the spec): pending tokens are sent to the executor, and a staker
\* left with nothing staked or pending is removed (spec invariant S2).
Withdraw(k, amount) ==
    LET st   == stakers.stakers[k]
        left == [st EXCEPT !.pending = @ - amount]
    IN  /\ StakingExecutable(FALSE)
        /\ SmHas(stakers, k)
        /\ amount <= st.pending
        /\ IF left.staked = 0 /\ left.pending = 0
           THEN SmCanRemove(stakers, k) /\ stakers' = SmRemove(stakers, k)
           ELSE stakers' = SmUpdate(stakers, k, left)
        /\ balance' = balance - amount
        /\ UNCHANGED <<height, phase, paused, timeoutConfig, stakingConfig, allowlist, pool, escrow>>

\* set_staking_config.rs: owner only, allowed while paused, minima non-zero.
SetStakingConfig(sc) ==
    /\ StakingExecutable(TRUE)
    /\ sc.minToRegister # 0
    /\ sc.minForCommittee # 0
    /\ stakingConfig' = sc
    /\ UNCHANGED <<height, phase, paused, timeoutConfig, allowlist, stakers, pool, escrow, balance>>
-----------------------------------------------------------------------------
(* Owner execute messages (never paused).  Each is sent by the owner.      *)

\* add_to_allowlist.rs
AddToAllowlist(k) ==
    /\ phase = "txs"
    /\ allowlist' = allowlist \cup {k}
    /\ UNCHANGED <<height, phase, paused, timeoutConfig, stakingConfig, stakers, pool, escrow, balance>>

\* remove_from_allowlist.rs: a staker's stake all moves to pending.
RemoveFromAllowlist(k) ==
    LET st == stakers.stakers[k] IN
    /\ phase = "txs"
    /\ stakers' = IF SmHas(stakers, k)
                  THEN SmUpdate(stakers, k, [staked |-> 0, pending |-> st.staked + st.pending])
                  ELSE stakers
    /\ allowlist' = allowlist \ {k}
    /\ UNCHANGED <<height, phase, paused, timeoutConfig, stakingConfig, pool, escrow, balance>>

\* pause (owner/execute/pause.rs is not in the sources; modelled from the
\* spec): pausing twice fails with ContractPaused.
Pause ==
    /\ phase = "txs"
    /\ ~paused
    /\ paused' = TRUE
    /\ UNCHANGED <<height, phase, timeoutConfig, stakingConfig, allowlist, stakers, pool, escrow, balance>>

\* unpause.rs: fails with ContractNotPaused unless paused.
Unpause ==
    /\ phase = "txs"
    /\ paused
    /\ paused' = FALSE
    /\ UNCHANGED <<height, phase, timeoutConfig, stakingConfig, allowlist, stakers, pool, escrow, balance>>
-----------------------------------------------------------------------------
(* Sudo messages, sent by the host's end-blocker, and the next block.      *)

\* expire_data_requests.rs: every request whose timeout is this height
\* moves to tallying.
ExpireDataRequests ==
    /\ phase = "txs"
    /\ DrmCanExpire(pool, height)
    /\ pool' = DrmExpire(pool, height)
    /\ phase' = "expired"
    /\ UNCHANGED <<height, paused, timeoutConfig, stakingConfig, allowlist, stakers, escrow, balance>>

\* state/mod.rs requests_by_status: the page of status s at offset/limit
\* (the GetDataRequestsByStatus query the tally module reads).
RequestsByStatus(p, s, offset, limit) == EsPage(p[s], offset, limit)

\* state/mod.rs remove_request as the settlement calls it: the error of
\* DataRequestsMap::remove when find_status finds the id in no status set
\* is only logged (failed_to_remove_dr), so the request stays in the pool
\* while its escrow is paid out and deleted.  remove's assert_eq! on any
\* other status panics; that is a guard of RemoveDataRequests.
RemoveRequest(p, id) == IF DrmHasStatus(p, id) THEN DrmRemove(p, id) ELSE p

\* remove_request_and_process_distributions for one (id, messages) entry:
\* a missing id leaves everything alone (status code 2); otherwise the
\* escrow is distributed, the rest refunded, and request and escrow removed.
SettleOne(st, entry, minimumStake) ==
    LET id  == entry[1]
        acc == Refund(Distribute([amount |-> st.escrow[id], sm |-> st.sm, burned |-> 0, sent |-> 0],
                                 entry[2], KeyOf, minimumStake))
    IN  IF ~Has(st.pool.reqs, id) THEN st
        ELSE [pool   |-> RemoveRequest(st.pool, id),
              escrow |-> Delete(st.escrow, id),
              sm     |-> acc.sm,
              paid   |-> st.paid + acc.burned + acc.sent]

\* remove_requests.rs sudo loop: the (id, messages) entries one after the
\* other, each seeing the stakers and pool the earlier ones left.
SettleBatch(st, entries, minimumStake) ==
    LET Step(acc, entry) == SettleOne(acc, entry, minimumStake)
    IN  FoldLeft(Step, st, entries)

\* remove_requests.rs: the tally module settles the first TallyLimit
\* tallying requests (its GetDataRequestsByStatus page), each with some
\* list of distribution messages; minimum_stake_to_register is read once.
RemoveDataRequests ==
    LET batch == RequestsByStatus(pool, "tallying", 0, TallyLimit) IN
    /\ phase = "expired"
    /\ \A i \in 1..Len(batch) :
         DataRequestExists(batch[i]) =>
            /\ Has(escrow, batch[i])
            /\ DrmHasStatus(pool, batch[i]) => DrmCanRemove(pool, batch[i])
    /\ \E lists \in [1..Len(batch) -> MsgLists] :
         \E done \in {SettleBatch([pool |-> pool, escrow |-> escrow, sm |-> stakers, paid |-> 0],
                                 Zip(batch, lists), stakingConfig.minToRegister)} :
             /\ pool' = done.pool
             /\ escrow' = done.escrow
             /\ stakers' = done.sm
             /\ balance' = balance - done.paid
    /\ phase' = "tallied"
    /\ UNCHANGED <<height, paused, timeoutConfig, stakingConfig, allowlist>>

\* The next block.  Bound: the clock stops at MaxHeight (no request posted
\* within the bound has a timeout beyond it).
NewBlock ==
    /\ phase = "tallied"
    /\ phase' = "txs"
    /\ height' = IF height < MaxHeight THEN height + 1 ELSE height
    /\ UNCHANGED <<paused, timeoutConfig, stakingConfig, allowlist, stakers, pool, escrow, balance>>
-----------------------------------------------------------------------------
\* One step of the host chain's block cycle: the expire sudo, the remove
\* sudo, or the start of the next block (exactly one is enabled).
HostStep == ExpireDataRequests \/ RemoveDataRequests \/ NewBlock

Next ==
    \/ \E id \in Ids, f \in FundsAmounts : PostDataRequest(id, f)
    \/ \E h \in HexKeys, id \in Ids, c \in Commitments : CommitDataResult(h, id, c)
    \/ \E h \in HexKeys, id \in Ids, b \in Bodies : RevealDataResult(h, id, b)
    \/ \E tc \in TimeoutConfigs : SetTimeoutConfig(tc)
    \/ \E k \in Keys, a \in StakeAmounts : Stake(k, a) \/ Unstake(k, a) \/ Withdraw(k, a)
    \/ \E sc \in StakingConfigs : SetStakingConfig(sc)
    \/ \E k \in Keys : AddToAllowlist(k) \/ RemoveFromAllowlist(k)
    \/ Pause \/ Unpause
    \/ HostStep

\* The host chain keeps producing blocks and its end-blocker always runs:
\* weak fairness of the host's steps.  One of the three is enabled in every
\* reachable state (the phase picks it; the expire and remove guards hold
\* by StatusSetsPartitionPool and TimeoutIndexMatchesStatus), so a host
\* step is taken infinitely often.  Executors, posters and the owner get no
\* fairness: any of them may stop.
Fairness == WF_vars(HostStep)

Spec == Init /\ [][Next]_vars
FairSpec == Spec /\ Fairness
-----------------------------------------------------------------------------
(* Properties.                                                             *)

Stages == {"txs", "expired", "tallied"}

TypeOK ==
    /\ height \in 0..MaxHeight
    /\ phase \in Stages
    /\ paused \in BOOLEAN
    /\ timeoutConfig \in TimeoutConfigs
    /\ stakingConfig \in StakingConfigs
    /\ allowlist \subseteq Keys
    /\ DOMAIN stakers.stakers \subseteq Keys
    /\ \A k \in DOMAIN stakers.stakers : stakers.stakers[k] \in [staked : Nat, pending : Nat]
    /\ DOMAIN pool.reqs \subseteq Ids
    /\ \A id \in DOMAIN pool.reqs :
         /\ DOMAIN pool.reqs[id].commits \subseteq HexKeys
         /\ DOMAIN pool.reqs[id].reveals \subseteq HexKeys
    /\ DOMAIN escrow \subseteq Ids
    /\ balance \in Nat

\* The status index of DataRequestsMap (three enumerable sets moved by
\* update and remove with swap-remove) places every live request in
\* exactly one status, with each set's two maps consistent.
StatusSetsPartitionPool ==
    /\ \A s \in Statuses : EsWellFormed(pool[s])
    /\ \A s, t \in Statuses : s # t => EsKeys(pool[s]) \cap EsKeys(pool[t]) = {}
    /\ UNION {EsKeys(pool[s]) : s \in Statuses} = DOMAIN pool.reqs

\* The Timeouts index (two maps kept by insert, remove_by_dr_id and
\* remove_by_timeout_height) holds exactly the committing and revealing
\* requests, each once, under the height in hash_to_timeout.
TimeoutIndexMatchesStatus ==
    LET htt == pool.timeouts.hashToTimeout IN
    /\ DOMAIN htt = EsKeys(pool.committing) \cup EsKeys(pool.revealing)
    /\ pool.timeouts.timeouts = {<<htt[id], id>> : id \in DOMAIN htt}

\* No timeout is missed: expire_data_requests sweeps only the current
\* height, so every indexed timeout must lie ahead of it, or at it while
\* this block's sweep is still to come.
NoMissedTimeout ==
    \A id \in DOMAIN pool.timeouts.hashToTimeout :
        \/ pool.timeouts.hashToTimeout[id] > height
        \/ pool.timeouts.hashToTimeout[id] = height /\ phase = "txs"

\* The status of a request agrees with its results: reveals only from
\* committers, never more commits or reveals than the replication factor
\* (commit_result and reveal_result stop accepting at the factor), no
\* reveal while committing, and a revealing request not yet full.
StageMatchesCounts ==
    \A id \in DOMAIN pool.reqs :
        LET dr == pool.reqs[id] IN
        /\ DOMAIN dr.reveals \subseteq DOMAIN dr.commits
        /\ Cardinality(DOMAIN dr.commits) <= dr.rf
        /\ Cardinality(DOMAIN dr.reveals) <= dr.rf
        /\ EsHas(pool.committing, id) => DOMAIN dr.reveals = {}
        /\ EsHas(pool.revealing, id) => RevealStarted(dr) /\ ~IsTallying(dr)

\* Funds are conserved: the contract's balance is exactly the escrow of
\* the live requests plus every staker's staked and pending tokens, through
\* posting, staking, withdrawal and the settlement loop of remove_requests
\* (burns, proxy sends, top-ups, rewards and the refund).
FundsConserved ==
    /\ DOMAIN escrow = DOMAIN pool.reqs
    /\ balance = SumFunction(escrow)
               + SumFunction([k \in DOMAIN stakers.stakers |->
                                stakers.stakers[k].staked + stakers.stakers[k].pending])

\* The stakers map and its public_keys enumerable set agree (the rf check
\* of post_request counts public_keys), and no record is left with
\* nothing staked or pending.
StakerRecordsIndexed ==
    /\ EsWellFormed(stakers.publicKeys)
    /\ DOMAIN stakers.stakers = EsKeys(stakers.publicKeys)
    /\ \A k \in DOMAIN stakers.stakers :
         stakers.stakers[k].staked + stakers.stakers[k].pending > 0

\* remove_from_allowlist.rs moves a removed key's stake to pending "so
\* that they can withdraw them and no longer be a staker", and Stake
\* refuses keys off the allowlist: while the allowlist is on, a key off it
\* holds no staked tokens (so verify_commit, which reads only the stake,
\* keeps it off committees).
RemovedKeyHoldsNoStake ==
    stakingConfig.allowlistEnabled =>
        \A k \in DOMAIN stakers.stakers \ allowlist : stakers.stakers[k].staked = 0

\* Each executor holds at most one commit slot of a request: the spec's
\* AlreadyCommitted check is per public key, while commit_result keys the
\* commitment by the hex text of the key as sent.
OneCommitPerExecutor ==
    \A id \in DOMAIN pool.reqs :
        \A h1, h2 \in DOMAIN pool.reqs[id].commits :
            KeyOf[h1] = KeyOf[h2] => h1 = h2

\* Whenever the contract accepts calls and the CanExecutorReveal query
\* (query.rs) answers true for a key, a reveal of that key's committed
\* body passes the checks of reveal_result.rs that read the pool: the
\* request has not expired and the key has not revealed.  The contract's
\* test (tests.rs) reads a true answer as "executor should be able to
\* reveal".
RevealQueryMatchesHandler ==
    \A id \in Ids, h \in HexKeys :
        Executable /\ CanExecutorReveal(h, id) =>
            /\ NotExpired(id)
            /\ ~Has(pool.reqs[id].reveals, h)

\* remove_requests settles the requests of one call in the iteration order
\* of the map the host sends (spec: "distribution across requests is
\* applied in map-iteration order"), and a request's top-up reads the
\* staker record an earlier request of the same call may have rewarded.
\* When the host calls it, settling any two tallying requests with any
\* distribution lists, in either order, leaves the same staker records and
\* pays out the same total: the order the host picks cannot change who
\* holds what.
SettlementOrderFree ==
    phase = "expired" =>
    \A i, j \in EsKeys(pool.tallying), li, lj \in MsgLists :
        i < j =>
        LET st0 == [pool |-> pool, escrow |-> escrow, sm |-> stakers, paid |-> 0]
            ab  == SettleBatch(st0, << <<i, li>>, <<j, lj>> >>, stakingConfig.minToRegister)
            ba  == SettleBatch(st0, << <<j, lj>>, <<i, li>> >>, stakingConfig.minToRegister)
        IN  ab.sm = ba.sm /\ ab.paid = ba.paid

\* Every posted request is eventually settled and removed: timed out by
\* the end-blocker, then removed by remove_requests.
EveryRequestSettles ==
    \A id \in Ids : Has(pool.reqs, id) ~> ~Has(pool.reqs, id)

(***************************************************************************)
(* Refinement: the pool with its indices, timeouts and hex-keyed results   *)
(* implements the request lifecycle of DataRequestLifecycle.  A live       *)
(* request's abstract status is the status set holding it (find_status),  *)
(* its executors are the keys its commitments and reveals are saved under. *)
(***************************************************************************)
LifecycleStatus ==
    [id \in Ids |-> IF Has(pool.reqs, id) THEN FindStatus(pool, id) ELSE "none"]

ExecutorsOf(f) == {KeyOf[h] : h \in DOMAIN f}

Lifecycle == INSTANCE DataRequestLifecycle WITH
    Executors <- Keys,
    status    <- LifecycleStatus,
    committed <- [id \in Ids |-> IF Has(pool.reqs, id)
                                 THEN ExecutorsOf(pool.reqs[id].commits) ELSE {}],
    revealed  <- [id \in Ids |-> IF Has(pool.reqs, id)
                                 THEN ExecutorsOf(pool.reqs[id].reveals) ELSE {}]

\* Every step of the contract and the host is a step of the abstract
\* lifecycle (or leaves it unchanged): statuses move only along spec 4.D's
\* table, all together in one expire or remove sudo; an executor commits
\* once, while committing, and reveals once, after committing, while
\* revealing; a request turns to revealing exactly when its replication
\* factor of distinct executors has committed, and to tallying when as
\* many have revealed or it times out.
RefinesLifecycle == Lifecycle!LSpec
=============================================================================
