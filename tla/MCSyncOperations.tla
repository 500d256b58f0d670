-------------------------- MODULE MCSyncOperations --------------------------
EXTENDS SyncOperations, TLC

CONSTANTS p1, e1, q1, m1, m2, b1, poll1, poll2, x1, x2, x3

MCProductOf == (e1 :> p1)

\* A Sync All of one product beside Data Management operations.
MCFilterOf ==
    [r \in Requests |-> [products |-> IF r = q1 THEN {p1} ELSE {},
                         engagements |-> {}]]

MCRunIdOf ==
    [r \in Requests |-> IF r = q1 THEN x1 ELSE IF r = m1 THEN x2 ELSE x3]

\* docker-compose: the poller is a worker process of its own.
MCWorker == [l \in Pollers |-> "worker"]

\* AUTO_SYNC_STATUS_EMBEDDED: the API process polls, too.
MCBoth == [l \in Pollers |-> IF l = poll1 THEN "worker" ELSE "api"]

=============================================================================
