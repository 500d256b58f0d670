------------------------------ MODULE PoolLocks ------------------------------
(***************************************************************************)
(* Advisory locks and the pools of PostgreSQL connections they are taken   *)
(* from. A lock belongs to the session that took it, so its client stays   *)
(* out of the pool until the lock is given back, and the one who holds it  *)
(* goes on asking the same pool for clients. Two pools: that of the        *)
(* vulnerability server, with Sync All runs, the workers that create their *)
(* tickets, polls, snapshot builds and maintenance; and that of the auth   *)
(* server, with the mutations of a user's MFA state. Neither pool has a    *)
(* limit on the time one waits for a client, and nothing relates its size  *)
(* to the locks that may be held at once.                                  *)
(***************************************************************************)
EXTENDS Integers, FiniteSets, Sequences

CONSTANTS
    PoolSize, AuthPoolSize,   \* PG_POOL_MAX of the two servers
    Runs, ScopeLock,          \* Sync All runs, and the lock of each one's scope
    Workers, RunOf,           \* the workers of the runs, and whose they are
    TicketLocks,
    Jobs, JobLock,            \* polls, snapshot builds and maintenance, each under one lock
    Patient,                  \* jobs that ask again when their lock is taken
    Mutations, UserLock,      \* MFA mutations, and the lock of each one's user
    Registry,                 \* the lock of the Sync All registry
    NoLock,                   \* what a client is for that does a query
    None

Actors == Runs \cup Workers \cup Jobs \cup Mutations

RuntimeLocks == {Registry} \cup {ScopeLock[r] : r \in Runs} \cup TicketLocks
                           \cup {JobLock[j] : j \in Jobs}

Locks == RuntimeLocks \cup {UserLock[m] : m \in Mutations}

ASSUME ActorsAssumption ==
    /\ Runs \cap Workers = {} /\ Runs \cap Jobs = {} /\ Runs \cap Mutations = {}
    /\ Workers \cap Jobs = {} /\ Workers \cap Mutations = {} /\ Jobs \cap Mutations = {}
    /\ RunOf \in [Workers -> Runs] /\ Patient \subseteq Jobs

ASSUME LocksAssumption == NoLock \notin Locks /\ None \notin Actors

\* PG_POOL_MAX, 10 by default, is set without regard to how many locks may be held at once.
ASSUME PoolAssumption == PoolSize \in Nat \ {0} /\ AuthPoolSize \in Nat \ {0}

VARIABLES
    server,          \* the server that is looked at: the two share nothing
    at,              \* the step of each actor; 0 when it is idle
    used,            \* clients that are out of the pool: by whom, and for which lock or query
    holder           \* who holds a lock

vars == <<server, at, used, holder>>

-----------------------------------------------------------------------------
(* What each actor does. *)

\* Locks that a step may ask for; the other steps are queries, and "unlock" and "join".
Lock(locks) == [op |-> "lock", locks |-> locks]
Query == [op |-> "query", locks |-> {}]
Unlock(lock) == [op |-> "unlock", locks |-> {lock}]
Join == [op |-> "join", locks |-> {}]

\* registerRun, the work of the run, and finishRun.
RunPlan(r) == <<Lock({Registry}), Query, Lock({ScopeLock[r]}), Query, Unlock(Registry),
                Query, Join, Lock({Registry}), Query, Query, Unlock(Registry)>>

\* createRedmineTicketWithLock
WorkerPlan == <<Lock(TicketLocks), Query>>

\* runWithLock, buildPostgresSnapshot, runMaintenance
JobPlan(j) == <<Lock({JobLock[j]}), Query>>

\* withMfaMutationLock
MutationPlan(m) == <<Lock({UserLock[m]}), Query>>

Plan(a) ==
    IF a \in Runs THEN RunPlan(a)
    ELSE IF a \in Workers THEN WorkerPlan
    ELSE IF a \in Jobs THEN JobPlan(a) ELSE MutationPlan(a)

Last(a) == Len(Plan(a)) + 1

\* The step an actor is at, and what it goes to when that fails.
Op(a) == IF at[a] \in DOMAIN Plan(a) THEN Plan(a)[at[a]].op ELSE "end"
Asked(a) == IF at[a] \in DOMAIN Plan(a) THEN Plan(a)[at[a]].locks ELSE {}
Finishing(a) == IF a \in Runs /\ at[a] \in 6 .. 7 THEN 8 ELSE Last(a)

-----------------------------------------------------------------------------
(* Clients and locks. *)

Present(a) == a \in Mutations <=> server = "auth"

Client(a, for) == [by |-> a, for |-> for]
Clients == {Client(a, for) : a \in Actors, for \in Locks \cup {NoLock}}

\* The session of a client holds the lock that the client was taken for.
Held(c) == c.for \in Locks /\ holder[c.for] = c.by

\* The client with which an actor does its present step.
StepClient(c, a) == c.by = a /\ ~Held(c)

Free == Cardinality(used) < IF server = "auth" THEN AuthPoolSize ELSE PoolSize

Init ==
    /\ server \in {"vulnerability", "auth"}
    /\ at = [a \in Actors |-> 0]
    /\ used = {}
    /\ holder = [l \in Locks |-> None]

\* A run begins when the workers of an earlier one in its place are done; workers begin while
\* their run waits for them.
Begins(a) ==
    /\ at[a] = 0 /\ Present(a)
    /\ a \in Runs => \A w \in Workers : RunOf[w] = a => at[w] = 0
    /\ a \in Workers => Op(RunOf[a]) = "join"
    /\ at' = [at EXCEPT ![a] = 1]
    /\ UNCHANGED <<used, holder>>

\* pool.connect, and the one that pool.query does.
Connects(a) ==
    /\ Op(a) \in {"lock", "query"} /\ \A c \in used : ~StepClient(c, a)
    /\ Free
    /\ \E for \in IF Op(a) = "lock" THEN Asked(a) ELSE {NoLock} :
        used' = used \cup {Client(a, for)}
    /\ UNCHANGED <<at, holder>>

Takes(a) ==
    /\ Op(a) = "lock"
    /\ \E c \in used :
        /\ StepClient(c, a) /\ c.for \in Locks /\ holder[c.for] = None
        /\ holder' = [holder EXCEPT ![c.for] = a]
    /\ at' = [at EXCEPT ![a] = @ + 1]
    /\ UNCHANGED used

Patiently(a) == a \in Patient \/ (a \in Runs /\ at[a] = 8)

\* Mutant: only a lock that was taken gives its client back.
RefusedForGood(a) ==
    /\ Op(a) = "lock" /\ a \notin Mutations
    /\ \E c \in used :
        /\ StepClient(c, a) /\ c.for \in Locks /\ holder[c.for] # None
        /\ used' = (used \ {c}) \cup {Client(None, used)}
    /\ \E next \in {Last(a)} \cup IF Patiently(a) THEN {at[a]} ELSE {} :
        at' = [at EXCEPT ![a] = next]
    /\ UNCHANGED holder

\* pg_try_advisory_lock finds the lock taken: the client goes back. A run that finishes, and
\* maintenance, ask again; the others give up.
Refused(a) ==
    /\ Op(a) = "lock" /\ a \notin Mutations
    /\ \E c \in used :
        /\ StepClient(c, a) /\ c.for \in Locks /\ holder[c.for] # None
        /\ used' = used \ {c}
    /\ \E next \in {Last(a)} \cup IF Patiently(a) THEN {at[a]} ELSE {} :
        at' = [at EXCEPT ![a] = next]
    /\ UNCHANGED holder

\* The statement answers and its client goes back, or it fails; a failing worker ends the wait
\* of its run, whose other workers go on.
Answers(a) ==
    /\ Op(a) = "query"
    /\ \E c \in used : StepClient(c, a) /\ used' = used \ {c}
    /\ \E ok \in BOOLEAN :
        at' = [b \in Actors |->
                IF b = a THEN IF ok THEN at[a] + 1 ELSE Finishing(a)
                ELSE IF ~ok /\ a \in Workers /\ b = RunOf[a] /\ Op(b) = "join" THEN Finishing(b)
                ELSE at[b]]
    /\ UNCHANGED holder

\* The lock is given back on its own client, and that client too.
Releases(c) == used' = used \ {c} /\ holder' = [holder EXCEPT ![c.for] = None]

Unlocks(a) ==
    /\ Op(a) = "unlock"
    /\ \E c \in used : c.by = a /\ Held(c) /\ c.for \in Asked(a) /\ Releases(c)
    /\ at' = [at EXCEPT ![a] = @ + 1]

\* The run goes on when all its workers are done.
Joins(a) ==
    /\ Op(a) = "join" /\ \A w \in Workers : RunOf[w] = a => at[w] = 0
    /\ at' = [at EXCEPT ![a] = @ + 1]
    /\ UNCHANGED <<used, holder>>

\* In the end it gives back the locks it has left, one by one; a worker takes its next ticket.
Ends(a) ==
    /\ Op(a) = "end" /\ at[a] # 0
    /\ \/ \E c \in used : c.by = a /\ Held(c) /\ Releases(c) /\ UNCHANGED at
       \/ /\ \A c \in used : c.by # a
          /\ \E next \in {0} \cup IF a \in Workers THEN {1} ELSE {} : at' = [at EXCEPT ![a] = next]
          /\ UNCHANGED <<used, holder>>

Step(a) == Begins(a) \/ Connects(a) \/ Takes(a) \/ Refused(a) \/ Answers(a) \/ Unlocks(a)
           \/ Joins(a) \/ Ends(a)

Next == UNCHANGED server /\ \E a \in Actors : Step(a)

Spec == Init /\ [][Next]_vars

-----------------------------------------------------------------------------
(* Properties. *)

Wants(a) == Op(a) \in {"lock", "query"} /\ \A c \in used : ~StepClient(c, a)

\* pg_advisory_lock waits, and keeps its client.
Waits(a) ==
    /\ Op(a) = "lock" /\ a \in Mutations
    /\ \E c \in used : StepClient(c, a) /\ c.for \in Locks /\ holder[c.for] # None

Blocked(a) ==
    \/ Wants(a) /\ ~Free
    \/ Waits(a)
    \/ Op(a) = "join" /\ \E w \in Workers : RunOf[w] = a /\ at[w] # 0

\* It keeps a client out of the pool for a lock that is held, and nothing will give it back
\* before somebody gets another: the one who holds the lock, or a worker that one waits for.
Pinned(c) ==
    /\ c.for \in Locks /\ holder[c.for] # None
    /\ \/ Wants(holder[c.for])
       \/ /\ Op(holder[c.for]) = "join"
          /\ \E w \in Workers : RunOf[w] = holder[c.for] /\ Wants(w)

\* Nobody who is busy can go on.
Stuck == (\E a \in Actors : at[a] # 0) /\ \A a \in Actors : at[a] # 0 => Blocked(a)

\* The pools can be exhausted by locks, and that is the only way to get stuck: then every client
\* is out for a lock whose holder needs one more. Holders do not wait for one another's locks,
\* no client is lost on the way of an error or of a lock that was taken, and a query that has
\* its client gives it back.
StuckOnlyWhenPinned == Stuck => ~Free /\ \A c \in used : Pinned(c)

TypeOK ==
    /\ server \in {"vulnerability", "auth"}
    /\ at \in [Actors -> Nat]
    /\ used \subseteq Clients
    /\ holder \in [Locks -> {None} \cup Actors]
=============================================================================
