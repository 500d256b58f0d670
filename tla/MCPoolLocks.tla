----------------------------- MODULE MCPoolLocks -----------------------------
(* The pools for model checking: two runs of different scopes and a worker of each, that want    *)
(* the same ticket; a poll and maintenance under one lock; mutations of one user and of another. *)
(* Three clients and two: a run alone gets by with them, the others together can pin them all.   *)
EXTENDS PoolLocks, TLC

CONSTANTS scope1, scope2, auto, user1, user2

MCScopeLock == "r1" :> scope1 @@ "r2" :> scope2
MCRunOf == "w1" :> "r1" @@ "w2" :> "r2"
MCJobLock == "poll" :> auto @@ "maintenance" :> auto
MCUserLock == "m1" :> user1 @@ "m2" :> user1 @@ "m3" :> user2
=============================================================================
