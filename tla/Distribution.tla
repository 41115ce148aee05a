---------------------------- MODULE Distribution ----------------------------
(***************************************************************************)
(* The message loop of remove_request_and_process_distributions            *)
(* (msgs/data_requests/sudo/remove_requests.rs): the escrow of one request *)
(* is paid out by its DistributionMessages in list order.  The loop state  *)
(* is a record                                                              *)
(*   [amount, sm, burned, sent]                                            *)
(* the escrow left, the stakers map, and the totals of the BankMsg::Burn   *)
(* and BankMsg::Send messages built so far.  keyOf maps every identity     *)
(* that PublicKey::from_hex_str accepts to its key; any other identity is  *)
(* invalid.  Amounts are Uint128 and never near 2^128 here.                *)
(***************************************************************************)
EXTENDS Naturals, Sequences, StakersMap

\* DistributionMessage::{Burn, DataProxyReward, ExecutorReward}
Burn(n)                  == [kind |-> "burn", amount |-> n]
ProxyReward(n, valid)    == [kind |-> "proxy", amount |-> n, valid |-> valid]
ExecutorReward(n, ident) == [kind |-> "executor", amount |-> n, identity |-> ident]

MinOf(a, b) == IF a <= b THEN a ELSE b
SatSub(a, b) == IF a >= b THEN a - b ELSE 0     \* Uint128::saturating_sub

\* fn burn: a Burn bank message of n, taken from the escrow.
BurnOut(acc, n) == [acc EXCEPT !.amount = SatSub(@, n), !.burned = @ + n]

\* The executor reward to an existing staker k: a staker below
\* minimumStake (minimum_stake_to_register) is first topped up from the
\* reward, the rest goes to tokens_pending_withdrawal.
\* Mutant: the top-up is credited but not taken from the escrow.
RewardStakerNoTopUpDebit(acc, k, n, minimumStake) ==
    LET st     == acc.sm.stakers[k]
        topUp  == IF st.staked < minimumStake THEN MinOf(SatSub(minimumStake, st.staked), n) ELSE 0
        remain == SatSub(n, topUp)
    IN  [acc EXCEPT !.sm = SmUpdate(@, k, [staked  |-> st.staked + topUp,
                                           pending |-> st.pending + remain]),
                    !.amount = SatSub(@, remain)]

\* Mutant: the rest of the reward reaches pending only when no top-up was
\* needed.
RewardStakerTopUpOnly(acc, k, n, minimumStake) ==
    LET st     == acc.sm.stakers[k]
        topUp  == IF st.staked < minimumStake THEN MinOf(SatSub(minimumStake, st.staked), n) ELSE 0
        remain == SatSub(n, topUp)
    IN  [acc EXCEPT !.sm = SmUpdate(@, k, [staked  |-> st.staked + topUp,
                                           pending |-> IF topUp = 0 THEN st.pending + remain
                                                       ELSE st.pending]),
                    !.amount = SatSub(SatSub(@, topUp), remain)]

RewardStaker(acc, k, n, minimumStake) ==
    LET st     == acc.sm.stakers[k]
        topUp  == IF st.staked < minimumStake THEN MinOf(SatSub(minimumStake, st.staked), n) ELSE 0
        remain == SatSub(n, topUp)
    IN  [acc EXCEPT !.sm = SmUpdate(@, k, [staked  |-> st.staked + topUp,
                                           pending |-> st.pending + remain]),
                    !.amount = SatSub(SatSub(@, topUp), remain)]

\* One iteration of 'process_message: every message first caps its amount
\* at the escrow left; a reward to an invalid address or identity, or to a
\* key with no staker record, is burned instead.
DistributeOne(acc, m, keyOf, minimumStake) ==
    LET n == MinOf(m.amount, acc.amount) IN
    CASE m.kind = "burn" -> BurnOut(acc, n)
      [] m.kind = "proxy" ->
            IF m.valid THEN [acc EXCEPT !.amount = SatSub(@, n), !.sent = @ + n]
            ELSE BurnOut(acc, n)
      [] m.kind = "executor" ->
            IF m.identity \notin DOMAIN keyOf THEN BurnOut(acc, n)
            ELSE IF ~SmHas(acc.sm, keyOf[m.identity]) THEN BurnOut(acc, n)
            ELSE RewardStaker(acc, keyOf[m.identity], n, minimumStake)

\* The loop: messages in order, stopping early once the escrow is zero.
RECURSIVE Distribute(_, _, _, _)
Distribute(acc, msgs, keyOf, minimumStake) ==
    IF msgs = <<>> \/ acc.amount = 0 THEN acc
    ELSE Distribute(DistributeOne(acc, Head(msgs), keyOf, minimumStake),
                    Tail(msgs), keyOf, minimumStake)

\* What is left after the loop is refunded to the poster by a Send.
Refund(acc) == [acc EXCEPT !.sent = @ + acc.amount, !.amount = 0]
=============================================================================
