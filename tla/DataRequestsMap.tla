-------------------------- MODULE DataRequestsMap --------------------------
(***************************************************************************)
(* DataRequestsMap (msgs/data_requests/state/data_requests_map.rs): the    *)
(* request pool.  A pool is a record with the fields of the Rust struct:   *)
(* reqs (id -> request), one EnumerableSet per status, named by the status *)
(* itself, and the Timeouts index.  A request is a record                  *)
(*   [rf, commits, reveals, height]                                        *)
(* with commits and reveals maps keyed by the executor's public key as the *)
(* hex text the executor sent.  assert!/assert_eq! panics and `?` errors  *)
(* abort the invocation; they are the Can* guards.                        *)
(***************************************************************************)
EXTENDS Naturals, Sequences, FiniteSets, EnumerableSet, Timeouts
LOCAL INSTANCE SequencesExt

Statuses == {"committing", "revealing", "tallying"}
NoStatus == "none"          \* Option::None passed to update

\* DataRequestsMap::initialize (the status sets; reqs and timeouts start empty)
DrmInit ==
    [reqs       |-> EmptyMap,
     committing |-> EsInit,
     revealing  |-> EsInit,
     tallying   |-> EsInit,
     timeouts   |-> TmInit]

\* DataRequestsMap::add_to_status
AddToStatus(p, key, s) == [p EXCEPT ![s] = EsAdd(@, key)]

\* DataRequestsMap::remove_from_status
RemoveFromStatus(p, key, s) == [p EXCEPT ![s] = EsRemove(@, key)]

\* DataRequest::reveal_started and DataRequest::is_tallying (seda-common)
RevealStarted(dr) == Cardinality(DOMAIN dr.commits) >= dr.rf
IsTallying(dr)    == Cardinality(DOMAIN dr.reveals) >= dr.rf

\* DataRequestsMap::insert: "Key already exists" unless the id is new.
DrmCanInsert(p, key, s) == ~Has(p.reqs, key) /\ EsCanAdd(p[s], key)

\* DataRequestsMap::insert: saves the request, adds it to status s and
\* sets its timeout to current_height + commit_timeout_in_blocks.
DrmInsert(p, height, key, req, s, commitTimeout) ==
    [AddToStatus([p EXCEPT !.reqs = Save(@, key, req)], key, s)
        EXCEPT !.timeouts = TmInsert(@, height + commitTimeout, key)]

\* DataRequestsMap::find_status fails unless some status set holds key.
DrmHasStatus(p, key) == \E s \in Statuses : EsHas(p[s], key)

\* DataRequestsMap::find_status: checks committing, revealing, tallying.
FindStatus(p, key) ==
    IF EsHas(p.committing, key) THEN "committing"
    ELSE IF EsHas(p.revealing, key) THEN "revealing"
    ELSE "tallying"

\* DataRequestsMap::update: its early error returns and assertions.
DrmCanUpdate(p, key, status, timeout) ==
    /\ Has(p.reqs, key)
    /\ status # NoStatus =>
         /\ DrmHasStatus(p, key)
         /\ LET cur == FindStatus(p, key) IN
            /\ IF timeout THEN status = "tallying"
               ELSE \/ cur = "committing" /\ status = "revealing"
                    \/ cur = "revealing" /\ status = "tallying"
            /\ ~timeout => TmCanRemoveByDrId(p.timeouts, key)
            /\ status = cur \/ EsCanAdd(p[status], key)

\* Mutant: the reveal timeout is saved as a height of its own, not added
\* to the current height.
UpdateTimeoutsNoHeight(p, key, status, height, timeout, revealTimeout) ==
    IF status = NoStatus \/ timeout THEN p.timeouts
    ELSE IF FindStatus(p, key) = "committing"
         THEN TmInsert(TmRemoveByDrId(p.timeouts, key), revealTimeout, key)
         ELSE TmRemoveByDrId(p.timeouts, key)

\* Mutant: moving to revealing drops the commit timeout but sets none.
UpdateTimeoutsNoRevealTimeout(p, key, status, height, timeout, revealTimeout) ==
    IF status = NoStatus \/ timeout THEN p.timeouts
    ELSE TmRemoveByDrId(p.timeouts, key)

\* The timeout change of DataRequestsMap::update: a committing request
\* gets current_height + reveal_timeout_in_blocks, a revealing one loses
\* its timeout; a timeout-driven update leaves the index alone.
UpdateTimeouts(p, key, status, height, timeout, revealTimeout) ==
    IF status = NoStatus \/ timeout THEN p.timeouts
    ELSE IF FindStatus(p, key) = "committing"
         THEN TmInsert(TmRemoveByDrId(p.timeouts, key), revealTimeout + height, key)
         ELSE TmRemoveByDrId(p.timeouts, key)

\* DataRequestsMap::update: optional status move, then the request is saved.
DrmUpdate(p, key, dr, status, height, timeout, revealTimeout) ==
    LET p1 == [p EXCEPT !.timeouts =
                   UpdateTimeouts(p, key, status, height, timeout, revealTimeout)]
        p2 == IF status = NoStatus THEN p1
              ELSE AddToStatus(RemoveFromStatus(p1, key, FindStatus(p, key)), key, status)
    IN  [p2 EXCEPT !.reqs = Save(@, key, dr)]

\* DataRequestsMap::remove asserts the request is tallying.
DrmCanRemove(p, key) ==
    /\ Has(p.reqs, key)
    /\ DrmHasStatus(p, key)
    /\ FindStatus(p, key) = "tallying"

\* DataRequestsMap::remove (the timeout index is not touched).
DrmRemove(p, key) ==
    [RemoveFromStatus(p, key, "tallying") EXCEPT !.reqs = Delete(@, key)]

\* DataRequestsMap::expire_data_requests at current_height: the ids due at
\* that height leave the timeout index, then each is updated to tallying
\* with timeout = true, in the order the index returned them.
DrmDue(p, height) == TmAllByTimeoutHeight(p.timeouts, height)

DrmSwept(p, height) == [p EXCEPT !.timeouts = TmRemoveByTimeoutHeight(@, height)]

DrmCanExpire(p, height) ==
    \A i \in 1..Len(DrmDue(p, height)) :
        DrmCanUpdate(DrmSwept(p, height), DrmDue(p, height)[i], "tallying", TRUE)

DrmExpire(p, height) ==
    LET ExpireOne(q, id) == DrmUpdate(q, id, q.reqs[id], "tallying", height, TRUE, 0)
    IN  FoldLeft(ExpireOne, DrmSwept(p, height), DrmDue(p, height))
=============================================================================
