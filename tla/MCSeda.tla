------------------------------- MODULE MCSeda -------------------------------
(***************************************************************************)
(* Model values for Seda: two requests (replication factors 1 and 2), two  *)
(* executors, one reveal body with a matching and a wrong commitment, two *)
(* staking and two timeout configurations, and distribution lists that     *)
(* reach the top-up, the burn of an invalid identity, an invalid proxy     *)
(* and the early stop of the loop.                                         *)
(***************************************************************************)
EXTENDS Seda, TLC

MCIds == {1, 2}
MCRF == (1 :> 1) @@ (2 :> 2)
MCRequired == [id \in MCIds |-> 1]
MCKeys == {"k1", "k2"}
MCCases == {"lo"}
MCCasesMixed == {"lo", "up"}
MCBodies == {"b1"}
MCBodyHash == "b1" :> "h1"
MCCommitments == {"h1", "h0"}
MCFunds == {3}
MCStakeAmounts == {1}
MCOpenConfig == [minToRegister |-> 1, minForCommittee |-> 1, allowlistEnabled |-> FALSE]
MCGatedConfig == [minToRegister |-> 2, minForCommittee |-> 1, allowlistEnabled |-> TRUE]
MCStakingConfigs == {MCOpenConfig, MCGatedConfig}
MCSlowTimeouts == [commit |-> 1, reveal |-> 1]
MCFastTimeouts == [commit |-> 1, reveal |-> 0]
MCTimeoutConfigs == {MCSlowTimeouts, MCFastTimeouts}
MCOpenConfigs == {MCOpenConfig}
MCGatedConfigs == {MCGatedConfig}
MCSlowConfigs == {MCSlowTimeouts}
MCOneId == {1}
MCOneKey == {"k1"}
MCRFOne == [id \in MCIds |-> 1]
MCStakeAmountsWide == {1, 2}
MCMsgLists ==
    { << ExecutorReward(2, <<"k1", "lo">>), ProxyReward(2, TRUE), Burn(1) >>,
      << Burn(1), ExecutorReward(1, "bad"), ProxyReward(1, FALSE) >> }
\* A second, smaller reward to k1: two requests of one settlement call can
\* then reward the same executor different amounts.
MCMsgListsTwoRewards ==
    MCMsgLists \cup { << ExecutorReward(1, <<"k1", "lo">>) >> }
\* Settlements with no distribution messages (the whole escrow refunded):
\* SettleOne removes an existing request whatever its list, so the lists
\* cannot decide whether a request is removed.
MCNoMsgLists == {<<>>}
=============================================================================
