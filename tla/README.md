# TLA+ models of the SEDA core contract

These modules model `src/seda-chain-contracts/contract`, the CosmWasm contract behind SEDA's data-request pool, executor staking and settlement. TLC checks them. Every definition is translated from the Rust source. The map in `PROJECT.json` links each definition to the lines it models.

## The system

One contract holds all state. Each execute or sudo message is a single atomic invocation. A failed check, a `?` error or an `assert!` panic reverts the whole invocation. The model therefore writes every check as a guard of its action: a failing call changes nothing.

| Part (spec letter) | Source | State | Operations |
|---|---|---|---|
| A. Ordered-set index | `msgs/enumerable_set.rs` | `len`, `key_to_index`, `index_to_key` | `initialize`, `add`, swap-`remove`, paged range |
| B. Timeout index | `data_requests/state/timeouts.rs` | `(height, id)` set, `id -> height` | `insert`, `remove_by_dr_id`, `remove_by_timeout_height` |
| C. Staker map | `staking/state/stakers_map.rs` | `pk -> {staked, pending}` plus an A-set of keys | `insert`, `update`, `remove`, `len` |
| D. Request map | `data_requests/state/data_requests_map.rs` | `id -> request`, three A-sets by status, a B index | `insert`, `update` (transition asserts), `remove`, `expire_data_requests` |
| E. State machine | `data_requests/execute/*`, `sudo/expire_data_requests.rs` | D, escrow | post, commit, reveal, expire |
| F. Settlement | `sudo/remove_requests.rs` | escrow, C | distribution loop, refund, removal |
| Staking messages | `staking/execute/*` | C | stake, unstake, withdraw, config |
| G. Auth | `state.rs` (`get_seq`, `inc_get_seq`), the proof prefix of stake/unstake | account sequence | sign, deliver (any number of times, any order), reject |
| H. Eligibility | `staking/state/is_eligible_for_dr.rs`, `staking/query.rs` | none (query) | `is_eligible_for_dr`, `is_staker_executor`, `IsExecutorEligible` |
| I. Admin | `owner/execute/*`, config setters | owner, pending owner, pause, allowlist, configs | transfer/accept ownership, allowlist add/remove, pause, unpause, setters |

How the parts interact:
- E calls D. D in turn keeps A (the status sets) and B (the timeouts) in step.
- F pays stakers in C from a request's escrow, then removes the request from D.
- The host chain drives the sudos. At each block's end it calls `ExpireDataRequests` at the block height. It then calls `RemoveDataRequests` on a page of tallying requests, and the next block starts.

## Modules

- **Storage**: cw_storage_plus `Map` primitives (save, remove, has) as function updates. Helpers only, with no map entries.
- **EnumerableSet** (A): the set is a record `[len, keyToIndex, indexToKey]`.
  - `EsAdd` and `EsRemove` translate `add` and the swap-remove.
  - `EsPage` is the `index_to_key` range of `get_requests_by_status`.
  - `EsWellFormed` says the three fields describe one set.
- **EnumerableSetPaging**: one set shared by two parties.
  - The contract adds and removes keys.
  - A client pages through the set with offset/limit queries, one query per invocation.
- **Timeouts** (B): the two maps, and the four functions over them.
- **DataRequestsMap** (D): the pool is a record `[reqs, committing, revealing, tallying, timeouts]`.
  - `DrmCanUpdate` collects the early errors and assertions of `update`.
  - `DrmUpdate` does the status move, the timeout change and the save.
  - `DrmExpire` folds `update(.., Tallying, timeout = true)` over the swept ids in index order.
- **StakersMap** (C).
- **Distribution** (F): the message loop of `remove_request_and_process_distributions`. It works on an accumulator `[amount, sm, burned, sent]`.
  - `DistributeOne` handles one message. It caps the amount at the escrow left, and burns a reward whose identity is invalid or whose staker is missing.
  - `RewardStaker` does the top-up to `minimum_stake_to_register`, then credits pending.
  - `Distribute` is the RECURSIVE loop, with the early stop once the escrow reaches zero. `Refund` sends what is left.
- **Seda**: composes the modules above into the contract. Its variables are `height`, `phase`, `paused`, `timeoutConfig`, `stakingConfig`, `allowlist`, `stakers`, `pool`, `escrow` and `balance` (the contract's bank balance).
  - Each execute message is one action: PostDataRequest, CommitDataResult, RevealDataResult, SetTimeoutConfig, Stake, Unstake, Withdraw, SetStakingConfig, AddToAllowlist, RemoveFromAllowlist, Pause and Unpause.
  - Each sudo is one action: ExpireDataRequests and RemoveDataRequests.
  - `NewBlock` advances the host. `phase` ("txs", "expired", "tallied") is where the host is in its block cycle.
  - `Executable` is the pause gate of the data-request dispatcher. `StakingExecutable` is the staking dispatcher's gate, which lets `set_staking_config` through while paused. The owner dispatcher has no gate.
  - `Next` is the `ExecuteMsg` dispatch in `msgs/mod.rs`, and `HostStep` is the `SudoMsg` dispatch plus the block boundary.
  - Executor keys are sent as hex text: `HexKeys == Keys \X Cases`, and `KeyOf` decodes them.
  - Commit and reveal maps are keyed by the hex text, exactly as `dr.commits.insert(self.public_key.clone(), ..)` does.
  - `SettleOne` is one request of `RemoveDataRequests`. The host settles the first `TallyLimit` tallying requests, each with any list from `MsgLists`.
  - `CommitStatus` and `RevealStatus` are `state::commit` and `state::reveal`: the status a commit or reveal moves its request to.
  - `CanExecutorReveal` is the query of the same name (`data_requests/query.rs`).
  - `DataRequestExists`, `PostRequest`, `RequestsByStatus` and `RemoveRequest` are the `data_requests/state/mod.rs` functions the handlers call. `RemoveRequest` keeps the one thing that wrapper adds: the settlement only logs `failed_to_remove_dr` when `remove` returns an error, so a request in no status set would stay in the pool after its escrow is paid out. `remove`'s `assert_eq!` on a non-tallying status panics, and is a guard of `RemoveDataRequests`.
- **Eligibility** (H): the committee selector, a pure function of the stakers map, the staking config, the allowlist and the request.
  - Its variables hold those inputs. `Init` picks any stakers map over 3 keys with stakes 0..2, either committee minimum, any allowlist, request ids 0..5 and every replication factor `post_request` accepts. `Next` leaves them unchanged, because a query writes nothing.
  - `AllActiveStakers` is the ascending `range_raw` filtered by the committee minimum.
  - `IsEligibleForDr` is the cyclic window, `IsStakerExecutor` is `stakers_map.rs`, `IsExecutorEligible` is the query, and `ReplicationFactorAccepted` is the check in `post_request`.
  - `Committee` is the reference definition: the `rf` active stakers from `dr_id mod N` onward, taken cyclically.
- **AuthStaking** (G and the owner part of I): the account sequence, with the staking messages that consume it and the owner messages.
  - `sent` is the set of signed messages that exist, and `Sign` adds one over the key's current `get_seq`. Any member may be delivered at any time and any number of times. This is the fault model for transactions: they can be lost, duplicated, delayed and reordered.
  - `Verifies` is the common prefix of stake and unstake: `inc_get_seq`, then the proof over the sequence it returns.
  - A message that verifies either applies (`Stake`, `Unstake`, `Withdraw`), which consumes the sequence, or fails a later check (`HandlerFails`). The failure reverts the invocation, and the increment with it.
  - `applied` and `rejected` are history variables. They record what the properties compare and change no behaviour.
  - `TransferOwnership`, `AcceptOwnership`, `AddToAllowlist` and `RemoveFromAllowlist` carry a sender address. The owner gate is a guard.
- **DataRequestLifecycle**: the abstract specification of what the pool promises. Each id goes none → committing → revealing → tallying → none, with a timeout from committing or revealing to tallying. An executor commits at most once, and reveals at most once and only after committing. Its actions take sets of ids, because one sudo expires or removes several requests.
  - Seda instantiates it as `Lifecycle`. The refinement mapping takes a request's status from the status set holding it (`find_status`) and its executors from the decoded keys of its commit and reveal maps.
- **MCEnumerableSetPaging**, **MCSeda**, **MCEligibility**, **MCAuthStaking**: the model values.

The following are modelled from the spec, because their files are not in the sources:
- `Withdraw`, which removes a staker left with nothing (spec S2).
- `Pause`.
- `DataRequest::reveal_started` and `is_tallying` (seda-common).

## Runs

| Run | Config | Result | What it shows |
|---|---|---|---|
| enumerable_set_index | EnumerableSetIndex.cfg | pass (17,545 states) | Adds and swap-removes over 3 keys keep the three maps one consistent set. |
| enumerable_set_pagination | EnumerableSetPagination.cfg | **violation** | Spec section 8 claims paging sees every id "exactly once even after interleaved removals". With two keys and limit 1, the client reads the key at index 0; that key is then removed, which moves the other key from index 1 to index 0, behind the client's offset, so the scan ends without it. |
| seda_requests | SedaRequests.cfg | pass (≈1.0M states, ~3 min) | The pool's status sets and timeout index stay consistent, no timeout falls behind the sweep, statuses match the recorded results, recorded results are never overwritten, and funds are conserved through settlement. Settling two tallying requests in either order leaves the same stakers and payouts (`SettlementOrderFree`). The pool, with its status sets, timeouts and hex-keyed results, implements DataRequestLifecycle (`RefinesLifecycle`). |
| seda_staking | SedaStaking.cfg | pass (≈540k states) | Config changes, the allowlist gate, stakes of 1 and 2, and reward top-ups with `minimum_stake_to_register = 2` conserve funds and keep the staker index consistent. The owner may switch the reveal timeout to 0 (`set_timeout_config` does not validate it), so a request that starts revealing gets a timeout at the current height. TimeoutIndexMatchesStatus and NoMissedTimeout show it is still swept by that block's expire sudo. |
| seda_liveness | SedaLiveness.cfg | pass (≈186k states, ~2 min) | Under weak fairness of the host's block cycle, every posted request is eventually removed, whatever executors, posters and the owner do. This includes requests that never fill and requests that time out while paused. |
| seda_commit_case | SedaCommitCase.cfg | **violation** | One staked executor takes two commit slots of a replication-factor-2 request by sending its key as "lo" and "up" hex. |
| seda_allowlist_topup | SedaAllowlistTopUp.cfg | **violation** | With the allowlist on, k1 is added, stakes, commits and reveals. The owner then removes k1, which moves its stake to pending. Settling the request tops k1's stake back up to the minimum out of its reward, so a key off the allowlist is staked and can commit again. |
| seda_reveal_query | SedaRevealQuery.cfg | **violation** | After k1 commits and reveals a request of replication factor 1, the request is tallying and k1 has revealed, yet `CanExecutorReveal` still answers true. |
| eligibility_window | EligibilityWindow.cfg | pass (27,648 states) | The eligibility query never panics. When `rf` does not exceed the active stakers, the selector admits exactly the reference window. |
| auth_replay | AuthReplay.cfg | pass (≈457k states) | Signed messages delivered any number of times and in any order apply exactly once each, in sequence order. The owner handoff actions are part of the run's behaviours; no property is stated about them, because the handoff is one guard and one assignment in `accept_ownership`. |
| auth_rejected_replay | AuthRejectedReplay.cfg | **violation** | k1 signs a stake at sequence 0, and it is rejected because k1 is not on the allowlist. After the owner adds k1, the same message, submitted by anyone, succeeds. |

The properties, in Seda:
- **StatusSetsPartitionPool**: every live request is in exactly one well-formed status set.
- **TimeoutIndexMatchesStatus**: the two timeout maps hold exactly the committing and revealing requests, each once.
- **NoMissedTimeout**: every indexed timeout is above the height, or at it while this block's sweep is still to come.
- **StageMatchesCounts**:
  - reveals come only from committers;
  - there are never more commits or reveals than the replication factor;
  - a committing request has no reveals;
  - a revealing request has started revealing and is not yet full.
- **FundsConserved**:
  - the escrow map covers exactly the live requests;
  - the contract balance equals all escrow plus all staked and pending tokens.
- **StakerRecordsIndexed**: the stakers map agrees with `public_keys`, and no record is empty.
- **SettlementOrderFree**: when the host is about to call RemoveDataRequests, settling any two tallying requests with any distribution lists gives the same staker records and the same total paid out in either order. `remove_requests` settles the requests of one call in the iteration order of the map it is sent, and a request's top-up reads the staker record an earlier request of the call rewarded. The property says the order the host picks cannot change who holds what. The check computes both orders with `SettleBatch`, the sudo's loop, so it covers two-request batches while the run itself settles one request per block.
- **EveryRequestSettles** (liveness).
- **OneCommitPerExecutor**, **RemovedKeyHoldsNoStake**, **RevealQueryMatchesHandler**: the properties of the violation runs.
- **RefinesLifecycle**: the refinement. It is checked with one hex spelling per key. With two spellings the mapping's `committed` would miss a second commit by the same executor, which OneCommitPerExecutor already shows.

In Eligibility:
- **EligibilityQueryTotal**: every key that passes `is_staker_executor` is found by the selector's own active filter. The two files state "active" separately, and a key in one but not the other would make the query panic.
- **SelectorIsWindow**: when `rf <= N`, the selector equals the reference window, and the query admits no key outside it.

In AuthStaking:
- **ReplayProtected**: for each key, the applied messages carry sequences 0, 1, 2, … in order, and their number is the stored sequence.
- **RejectedStaysRejected**: the property of the violation run.

Every property of a passing run has a mutant in `PROJECT.json`. A mutant is a plausible bug in the mapped code, and TLC finds it under the run's own config:
- a missing reindex in swap-remove;
- a reveal timeout not added to the height;
- a top-up credited but not debited;
- a request's new status computed from the request before the commit;
- a missing reveal-timeout insert;
- and others.

## Bounds and why they suffice

- **Two request ids, with replication factors 1 and 2.**
  - Two requests can share a status set, so the swap-remove of one moves the other.
  - Factor 2 gives partial commits and reveals, and a timeout in each phase.
- **Two executor keys, one case in the passing runs.** Factor 2 needs two stakers. The commit-case run adds the second spelling.
- **One body, plus a commitment that matches it and one that does not.** A commitment can therefore be unrevealable.
- **Funds 3, stakes of 1 (and 2 in the staking run).** `MaxStake` caps a staker's own staked+pending. Without the cap, repeated Unstake and Stake would let pending grow without end. Rewards can still exceed the cap.
- **Two distribution lists.** The first pays a reward to k1 (a top-up when k1 is below the minimum), sends to a proxy, then burns. The second burns, pays the invalid identity "bad", then rewards an invalid proxy address. Together they reach every branch of the loop, the early stop, and the refund.
- **Timeout configs.**
  - `[commit 1, reveal 1]` in the request and liveness runs. It also appears with `[commit 1, reveal 0]` in the staking run, where the owner may switch between them.
  - Posting is allowed only while `height + maxCommit + maxReveal <= MaxHeight`, so every timeout that is ever set falls within the explored heights. The clock stops at `MaxHeight` (4, or 3 for liveness), and the host cycle repeats there.
  - With MaxHeight 4, a commit at height 2 can set a reveal timeout that a mis-computed height would put behind the sweep.
- **A third distribution list in the request run**, a reward of 1 to k1 (`MCMsgListsTwoRewards`). Two requests of one settlement can then reward the same executor different amounts. With equal entries, the two orders would agree whatever the code did.
- **`TallyLimit = 1`.** Settling one request per block forces requests to wait in tallying, behind others and across blocks.

- **Eligibility: 3 keys, stakes 0..2, minimums 1 and 2, ids 0..5.** This gives every active-set size from 0 to 3, inactive stakers below each minimum, and ids covering every residue mod 1, 2 and 3. Every replication factor `post_request` accepts is enumerated. This includes `rf > N`, which is reachable because the check counts all stakers. There the selector follows spec 4.H's formula `end = (start + rf) mod N` and admits `rf mod N` stakers; SelectorIsWindow compares with the reference window only where `rf <= N`, because for `rf > N` the spec defines no other committee.
- **AuthStaking: one key, two addresses, amount 1, `MinToRegister = 1`, `MaxSeq = 3`, `MaxStake = 2`.** Three sequence numbers give a stale message, a current one and a future one. Stake, unstake and withdraw each both apply and fail (withdraw of a full exit removes the staker). Two addresses make transfer to self, to another and back possible. A second key only multiplies the states, because sequences are per key and no check relates two keys' sequences.

## Fault model

- **Transactions.** In AuthStaking a signed message, once it exists, may be delivered any number of times, late or never, and in any order relative to others. This covers a lost, duplicated or replayed transaction, and a client retrying a transaction that was already included. ReplayProtected holds under all of it.
- **Atomic invocations.** A failed invocation changes nothing, which is how CosmWasm runs them. AuthStaking keeps a history of rejected messages so that a later retry of one can be compared with its rejection.
- **Host.** The host may stop calling the sudos in safety runs. Only the liveness run assumes it progresses.
- **No crash model.** The contract has no state outside the chain's transactional store, so there is nothing to recover after a crash between two steps.

## Fairness

Only the host is assumed to progress. The chain keeps producing blocks and its end-blocker runs the two sudos. This is `WF_vars(HostStep)`, where `HostStep` is the expire sudo, the remove sudo or the next block. Exactly one host step is enabled in every reachable state: the phase selects it, and its guards hold by StatusSetsPartitionPool and TimeoutIndexMatchesStatus. Weak fairness therefore makes the host take a step infinitely often, which is what a running chain does.

Executors, posters and the owner get no fairness. The liveness property says requests settle even if every executor stops.

The liveness run settles requests with an empty distribution list (`MCNoMsgLists`), so the whole escrow is refunded. `SettleOne` removes an existing request whatever its list says, so the lists cannot decide whether a request is removed; the safety runs explore the lists. The reason is cost: TLC evaluates `ENABLED HostStep` in every state, and inside ENABLED it re-evaluates each lazily passed operator argument at every use. With the reward lists the recursive `Distribute` makes that evaluation about forty times slower than the other host steps, and the run does not finish in five minutes.

## Not modelled

- **The cryptography of G.** This covers message hashes, secp256k1 signatures and VRF proofs. A message is "signed over this key and sequence", and the IsExecutorEligible proof is taken to verify. The chain ID and contract address in the hash are constant in a deployment.
- **The account sequence inside Seda.** Seda's staking actions carry a valid proof. AuthStaking checks the sequence protocol on its own, because it is per key and independent of the pool.
- **Events, the remaining queries and response formatting.** The queries that decide something are modelled: `GetDataRequestsByStatus` as `EsPage`, `IsExecutorEligible` and `CanExecutorReveal`. `CanExecutorCommit` runs `verify_commit` itself, so it agrees with the handler by construction apart from the pause flag. The other queries return one stored value.
- **A host sending ids that did not come from the tallying page.** The host's batch is `RequestsByStatus(pool, "tallying", 0, TallyLimit)`, read in the same end-block. A faulty host that sent a non-tallying id would make `remove`'s `assert_eq!` revert the whole batch. In the model that failure disables `RemoveDataRequests`; StatusSetsPartitionPool and EveryRequestSettles show that it never happens to the real host.
- **Batches of more than one request in the explored behaviours.** The runs settle one request per block (`TallyLimit = 1`) to keep the state space within time. The order question that batching raises is checked directly by SettlementOrderFree.
- **The u32 overflow of `offset + limit` in the page query.** The build's overflow-checks setting is not in the sources. A query with `offset + limit >= 2^32` either panics or wraps and returns an empty page. The tally module reads offset 0 with a small limit, so only an outside client's query reaches the overflow, and it changes no state. Neither the spec nor a comment or test says what such a query should return, so there is no claim for a run to check.
- **Error types (`error.rs`), message types and serialisation (`msgs/mod.rs`, `types.rs` beyond hex decoding), and the state-module getters (`load_request`, `may_load_request`, `get_dr_expiration_height`) that only read D.** They carry no state transitions of their own.
- **The seda-wasm-vm SDK error types, xtask, the schema binary and the fuzz targets.** These are build tooling and generated code.

These are the hazards `PROJECT.json` lists without a property.
