------------------------------ MODULE SyncRuns ------------------------------
(***************************************************************************)
(* The records of the Sync All registry: the runtime-state row             *)
(* 'sync-all:state' holds one entry per run, stamped by its heartbeats.    *)
(* Shared by the abstract registry (SyncRegistry) and the coordinator      *)
(* that implements it (SyncAllCoordinator).                                *)
(***************************************************************************)
EXTENDS SyncAllScope

CONSTANTS
    Requests,        \* POST /sync-all requests and Data Management operations
    RunIds,          \* run identifiers (the client may choose them)
    RunIdOf,         \* the run identifier of a request
    FilterOf,        \* the pull filters of a request
    StaleAge         \* SYNC_ALL_STALE_MS: an entry older than this is stale

ASSUME RequestAssumption ==
    /\ RunIdOf \in [Requests -> RunIds]
    /\ FilterOf \in [Requests -> Filters]

ASSUME StaleAgeAssumption == StaleAge \in Nat

-----------------------------------------------------------------------------
\* Ages are relative to now and saturate one past the limit: the code only
\* ever asks whether an age exceeds it.
Ages == 0 .. StaleAge + 1
Older(age) == IF age > StaleAge THEN age ELSE age + 1

Entries == [req : Requests, age : Ages]
Aged(entries) == {[n EXCEPT !.age = Older(@)] : n \in entries}

ScopeOf(q) == CoordinatorScope(FilterOf[q])

IsStale(n) == n.age > StaleAge
Fresh(entries) == {n \in entries : ~IsStale(n)}

\* Two requests that may not be registered together.
Conflict(q, r) ==
    Overlap(ScopeOf(q), ScopeOf(r)) \/ RunIdOf[q] = RunIdOf[r]

\* The entries a reader at some moment of the operation finds fresh: the
\* others are pruned by whoever saves the state next.
Kept(entries) == {k \in SUBSET entries : Fresh(entries) \subseteq k}

WithoutRun(entries, q) == {n \in entries : RunIdOf[n.req] # RunIdOf[q]}

Refreshed(entries, q, age) ==
    {IF RunIdOf[n.req] = RunIdOf[q] THEN [n EXCEPT !.age = age] ELSE n
        : n \in entries}

-----------------------------------------------------------------------------
\* One entry per run, and no two entries of overlapping scopes.
Exclusive(entries) ==
    \A n, m \in entries : n # m => n.req # m.req /\ ~Conflict(n.req, m.req)

=============================================================================
