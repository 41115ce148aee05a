---------------------------- MODULE MCEligibility ----------------------------
(* Three public keys, stakes 0..2 (0: a staker holding only pending        *)
(* tokens), committee minima 1 and 2, and ids 0..5, which cover every      *)
(* residue modulo every committee size 1..3.                               *)
EXTENDS Eligibility

MCKeyCount == 3
MCStakeValues == 0..2
MCCommitteeMins == {1, 2}
MCIdBound == 6
=============================================================================
