----------------------------- MODULE AuthStaking -----------------------------
(***************************************************************************)
(* The authenticated staking messages and the owner that gates them: the   *)
(* account sequence of state.rs (get_seq, inc_get_seq), the Stake, Unstake *)
(* and Withdraw handlers that consume it, and the owner's two-step         *)
(* handoff and allowlist (owner/execute).                                  *)
(*                                                                         *)
(* An executor signs a message over the account sequence it read with the  *)
(* GetAccountSeq query (as the contract's test helpers do).  A signed      *)
(* message is public once sent: anyone may submit it, any number of times, *)
(* in any order, or never.  So sent is the set of messages ever signed,    *)
(* and delivery does not consume a message: loss, delay, duplication and   *)
(* reordering are all behaviours of this one model.  The VRF proof is a    *)
(* black box that verifies exactly for the signed fields, so a message     *)
(* verifies iff its seq equals the one inc_get_seq returns.                *)
(*                                                                         *)
(* A failed invocation reverts all its writes.  Two history variables,     *)
(* which the contract does not hold, record what the invocations did:      *)
(* applied, the messages that took effect in order, and rejected, the      *)
(* messages whose proof verified but whose handler then failed.            *)
(***************************************************************************)
EXTENDS Naturals, Sequences, FiniteSets, StakersMap

CONSTANTS
    Keys,            \* executor public keys
    Addrs,           \* account addresses that send owner messages
    InitialOwner,    \* InstantiateMsg.owner
    Amounts,         \* Unstake/Withdraw amounts and the funds sent with Stake
    MinToRegister,   \* staking_config.minimum_stake_to_register
    AllowlistEnabled,\* staking_config.allowlist_enabled
    MaxSeq,          \* bound: sequence numbers 0..MaxSeq-1 are used
    MaxStake         \* bound: largest staked + pending a Stake reaches

None == "none"

ASSUME /\ InitialOwner \in Addrs
       /\ None \notin Addrs
       /\ MinToRegister \in Nat \ {0}

\* The signed messages.  Stake signs no amount: the funds are whatever the
\* submitter attaches.
StakeMsgs    == [op : {"stake"}, pk : Keys, seq : 0..MaxSeq-1]
AmountMsgs   == [op : {"unstake", "withdraw"}, pk : Keys, amount : Amounts,
                 seq : 0..MaxSeq-1]
Msgs == StakeMsgs \cup AmountMsgs

VARIABLES
    owner,          \* OWNER
    pendingOwner,   \* PENDING_OWNER (None or an address)
    allowlist,      \* ALLOWLIST
    stakers,        \* STAKERS (a StakersMap record)
    accountSeq,     \* ACCOUNT_SEQ: key -> u128, absent read as 0
    sent,           \* messages signed so far (public)
    applied,        \* history: the messages that took effect, in order
    rejected        \* history: messages that verified, then failed

vars == <<owner, pendingOwner, allowlist, stakers, accountSeq, sent, applied, rejected>>

\* contract.rs 36-87 (instantiate): the owner from the message, no
\* pending owner, empty stakers; ACCOUNT_SEQ is empty.
Init ==
    /\ owner = InitialOwner
    /\ pendingOwner = None
    /\ allowlist = {}
    /\ stakers = SmInit
    /\ accountSeq = [k \in Keys |-> 0]
    /\ sent = {}
    /\ applied = <<>>
    /\ rejected = {}

(***************************************************************************)
(* The account sequence.                                                   *)
(***************************************************************************)

\* state.rs 19-21: get_seq, 0 for a key never seen.
GetSeq(k) == accountSeq[k]

\* Mutant: the incremented sequence is never saved.
IncGetSeqNoSave(k) == accountSeq

\* state.rs 23-27: inc_get_seq saves seq + 1 and returns the old seq; the
\* new sequence function is returned here, the old value is GetSeq(k).
IncGetSeq(k) == [accountSeq EXCEPT ![k] = @ + 1]

\* The executor reads its sequence with the GetAccountSeq or
\* GetStakerAndSeq query (staking/query.rs) and signs a message over it.
Sign(m) ==
    /\ m.seq = GetSeq(m.pk)
    /\ sent' = sent \cup {m}
    /\ UNCHANGED <<owner, pendingOwner, allowlist, stakers, accountSeq, applied, rejected>>

\* The handlers' common prefix (stake.rs 11-14, unstake.rs 9-12): the
\* proof verifies against the sequence inc_get_seq returns.
Verifies(m) == m \in sent /\ m.seq = GetSeq(m.pk)

\* A message that verified takes effect: the sequence is consumed.
Apply(m) ==
    /\ accountSeq' = IncGetSeq(m.pk)
    /\ applied' = Append(applied, m)
    /\ UNCHANGED <<owner, pendingOwner, rejected>>

\* A message that verified and then failed: the invocation reverts, the
\* sequence increment with it.
Reject(m) ==
    /\ rejected' = rejected \cup {m}
    /\ UNCHANGED <<owner, pendingOwner, allowlist, stakers, accountSeq, sent, applied>>

(***************************************************************************)
(* The staking handlers.                                                   *)
(***************************************************************************)
Record(k) == IF SmHas(stakers, k) THEN stakers.stakers[k] ELSE [staked |-> 0, pending |-> 0]

\* stake.rs 17-51: the allowlist gate (owner/utils.rs is_staker_allowed),
\* then the registration minimum on the attached funds plus the stake.
StakeChecks(k, funds) ==
    /\ AllowlistEnabled => k \in allowlist
    /\ funds + Record(k).staked >= MinToRegister

\* stake.rs 9-57
Stake(m, funds) ==
    LET k == m.pk  st == Record(k) IN
    /\ m.op = "stake"
    /\ Verifies(m)
    /\ StakeChecks(k, funds)
    /\ funds + st.staked + st.pending <= MaxStake
    /\ stakers' = IF SmHas(stakers, k)
                  THEN SmUpdate(stakers, k, [st EXCEPT !.staked = @ + funds])
                  ELSE SmInsert(stakers, k, [staked |-> funds, pending |-> 0])
    /\ Apply(m)
    /\ UNCHANGED <<allowlist, sent>>

\* Mutant: the InsufficientFunds check is dropped.
UnstakeChecksNoFunds(m) == SmHas(stakers, m.pk)

\* unstake.rs 16-19: get_staker fails for an unknown key, then
\* InsufficientFunds when the amount exceeds the stake.
UnstakeChecks(m) == SmHas(stakers, m.pk) /\ m.amount <= Record(m.pk).staked

\* unstake.rs 6-39
Unstake(m) ==
    LET st == Record(m.pk) IN
    /\ m.op = "unstake"
    /\ Verifies(m)
    /\ UnstakeChecks(m)
    /\ stakers' = SmUpdate(stakers, m.pk, [staked |-> st.staked - m.amount,
                                           pending |-> st.pending + m.amount])
    /\ Apply(m)
    /\ UNCHANGED <<allowlist, sent>>

\* withdraw (withdraw.rs is not in the sources; modelled from the spec):
\* the amount must be pending; a staker left with nothing is removed.
WithdrawChecks(m) == SmHas(stakers, m.pk) /\ m.amount <= Record(m.pk).pending

Withdraw(m) ==
    LET left == [Record(m.pk) EXCEPT !.pending = @ - m.amount] IN
    /\ m.op = "withdraw"
    /\ Verifies(m)
    /\ WithdrawChecks(m)
    /\ IF left.staked = 0 /\ left.pending = 0
       THEN SmCanRemove(stakers, m.pk) /\ stakers' = SmRemove(stakers, m.pk)
       ELSE stakers' = SmUpdate(stakers, m.pk, left)
    /\ Apply(m)
    /\ UNCHANGED <<allowlist, sent>>

\* Any of the three handlers failing after its proof verified.
HandlerFails(m) ==
    /\ Verifies(m)
    /\ \/ m.op = "stake" /\ \E f \in Amounts : ~StakeChecks(m.pk, f)
       \/ m.op = "unstake" /\ ~UnstakeChecks(m)
       \/ m.op = "withdraw" /\ ~WithdrawChecks(m)
    /\ Reject(m)

(***************************************************************************)
(* The owner messages: no pause gate, no proof; the sender is an address. *)
(***************************************************************************)

\* transfer_ownership.rs 3-19: only the owner nominates a pending owner.
TransferOwnership(sender, newOwner) ==
    /\ sender = owner
    /\ pendingOwner' = newOwner
    /\ UNCHANGED <<owner, allowlist, stakers, accountSeq, sent, applied, rejected>>

\* accept_ownership.rs 3-24: NoPendingOwnerFound, NotPendingOwner, then
\* the sender becomes owner and the nomination is cleared.
AcceptOwnership(sender) ==
    /\ pendingOwner # None
    /\ pendingOwner = sender
    /\ owner' = sender
    /\ pendingOwner' = None
    /\ UNCHANGED <<allowlist, stakers, accountSeq, sent, applied, rejected>>

\* add_to_allowlist.rs 3-24
AddToAllowlist(sender, k) ==
    /\ sender = owner
    /\ allowlist' = allowlist \cup {k}
    /\ UNCHANGED <<owner, pendingOwner, stakers, accountSeq, sent, applied, rejected>>

\* remove_from_allowlist.rs 4-39: a staker's stake all moves to pending.
RemoveFromAllowlist(sender, k) ==
    LET st == Record(k) IN
    /\ sender = owner
    /\ stakers' = IF SmHas(stakers, k)
                  THEN SmUpdate(stakers, k, [staked |-> 0, pending |-> st.staked + st.pending])
                  ELSE stakers
    /\ allowlist' = allowlist \ {k}
    /\ UNCHANGED <<owner, pendingOwner, accountSeq, sent, applied, rejected>>

Next ==
    \/ \E m \in Msgs : Sign(m) \/ Unstake(m) \/ Withdraw(m) \/ HandlerFails(m)
    \/ \E m \in StakeMsgs, f \in Amounts : Stake(m, f)
    \/ \E a, b \in Addrs : TransferOwnership(a, b)
    \/ \E a \in Addrs : AcceptOwnership(a)
    \/ \E a \in Addrs, k \in Keys : AddToAllowlist(a, k) \/ RemoveFromAllowlist(a, k)

Spec == Init /\ [][Next]_vars
-----------------------------------------------------------------------------
(* Properties.                                                             *)

TypeOK ==
    /\ owner \in Addrs
    /\ pendingOwner \in Addrs \cup {None}
    /\ allowlist \subseteq Keys
    /\ accountSeq \in [Keys -> 0..MaxSeq]
    /\ sent \subseteq Msgs
    /\ applied \in Seq(Msgs)
    /\ rejected \subseteq sent
    /\ \A k \in DOMAIN stakers.stakers :
         stakers.stakers[k] \in [staked : Nat, pending : Nat]

\* The messages of key k that took effect, in order.
AppliedBy(k) == SelectSeq(applied, LAMBDA m : m.pk = k)

\* Replay protection (spec section 7: each (public_key, seq) authorises at
\* most one operation), through inc_get_seq: the messages of each key
\* that took effect carry the sequences 0, 1, 2, ... in the order they
\* took effect, one per increment of the account sequence.  However often
\* a signed message is resubmitted, and whatever order stale and fresh
\* messages arrive in, none takes effect twice or out of turn.
ReplayProtected ==
    \A k \in Keys :
        LET log == AppliedBy(k) IN
        /\ Len(log) = accountSeq[k]
        /\ \A i \in 1..Len(log) : log[i].seq = i - 1

\* Spec section 4.G: the account sequence is consumed "regardless of
\* success after this check", so a signed message whose proof verified but
\* whose operation failed can never take effect later.
RejectedStaysRejected ==
    \A i \in 1..Len(applied) : applied[i] \notin rejected
=============================================================================
