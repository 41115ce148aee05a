------------------------- MODULE DataRequestLifecycle -------------------------
(***************************************************************************)
(* What the data-request pool promises, without its indices, timeouts,    *)
(* escrow or stakers: the life of each request id as the transition table *)
(* of spec section 4.D, with the executors that committed and revealed.   *)
(*                                                                         *)
(*   none --post--> committing --rf commits--> revealing --rf reveals-->   *)
(*   tallying --remove--> none; committing or revealing --timeout-->       *)
(*   tallying.  Several requests may time out, or be removed, in one step. *)
(*                                                                         *)
(* An executor commits at most once to a request, only while it is        *)
(* committing; it reveals at most once, only after committing and only     *)
(* while the request is revealing.  Nothing here says when a timeout      *)
(* fires: in this specification a request may time out at any moment.     *)
(***************************************************************************)
EXTENDS Naturals, FiniteSets

CONSTANTS
    Ids,          \* request ids
    RF,           \* Ids -> replication factor
    Executors     \* executor identities

VARIABLES
    status,       \* Ids -> "none", "committing", "revealing", "tallying"
    committed,    \* Ids -> the executors that committed
    revealed      \* Ids -> the executors that revealed

lvars == <<status, committed, revealed>>

LInit ==
    /\ status = [id \in Ids |-> "none"]
    /\ committed = [id \in Ids |-> {}]
    /\ revealed = [id \in Ids |-> {}]

Post(id) ==
    /\ status[id] = "none"
    /\ status' = [status EXCEPT ![id] = "committing"]
    /\ UNCHANGED <<committed, revealed>>

Commit(id, e) ==
    /\ status[id] = "committing"
    /\ e \notin committed[id]
    /\ committed' = [committed EXCEPT ![id] = @ \cup {e}]
    /\ status' = [status EXCEPT ![id] = IF Cardinality(committed'[id]) = RF[id]
                                        THEN "revealing" ELSE @]
    /\ UNCHANGED revealed

Reveal(id, e) ==
    /\ status[id] = "revealing"
    /\ e \in committed[id] \ revealed[id]
    /\ revealed' = [revealed EXCEPT ![id] = @ \cup {e}]
    /\ status' = [status EXCEPT ![id] = IF Cardinality(revealed'[id]) = RF[id]
                                        THEN "tallying" ELSE @]
    /\ UNCHANGED committed

\* Requests time out together: every one of S moves to tallying.
Timeout(S) ==
    /\ S # {}
    /\ \A id \in S : status[id] \in {"committing", "revealing"}
    /\ status' = [id \in Ids |-> IF id \in S THEN "tallying" ELSE status[id]]
    /\ UNCHANGED <<committed, revealed>>

\* Tallied requests are removed together, and their ids are free again.
Remove(S) ==
    /\ S # {}
    /\ \A id \in S : status[id] = "tallying"
    /\ status' = [id \in Ids |-> IF id \in S THEN "none" ELSE status[id]]
    /\ committed' = [id \in Ids |-> IF id \in S THEN {} ELSE committed[id]]
    /\ revealed' = [id \in Ids |-> IF id \in S THEN {} ELSE revealed[id]]

LNext ==
    \/ \E id \in Ids :
          \/ Post(id)
          \/ \E e \in Executors : Commit(id, e) \/ Reveal(id, e)
    \/ \E S \in SUBSET Ids : Timeout(S) \/ Remove(S)

LSpec == LInit /\ [][LNext]_lvars
=============================================================================
