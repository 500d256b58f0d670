--------------------------- MODULE SyncOperations ---------------------------
(***************************************************************************)
(* The four kinds of work on the Redmine synchronization state, and what   *)
(* keeps them apart:                                                       *)
(*   - Sync All (routes/sync.cjs) registers in the registry, then refuses  *)
(*     to go on while the persisted scheduler status says 'running';       *)
(*   - Data Management maintenance (runMaintenance of data-management-     *)
(*     service.cjs) reads the registry and the status, registers a global  *)
(*     run and takes the advisory lock 'auto-sync-status:redmine-sync';    *)
(*   - the background poller (redmine-sync-poller-service.cjs) skips while *)
(*     runs are registered, and polls under that advisory lock;            *)
(*   - the manual status rebuild (POST /rebuild-status) looks at the       *)
(*     maintenance flag and the poll flag of its process only.             *)
(* Every await is a step; the registry is the atomic one of SyncRegistry.  *)
(***************************************************************************)
EXTENDS SyncRegistry

CONSTANTS
    Maintenances,    \* the requests that are Data Management operations
    FactoryResets,   \* those that clear all data
    Rebuilds,        \* POST /rebuild-status requests
    Pollers,         \* poll loops; a process restarts its loop, while a poll
                     \* may be in flight, whenever the configuration is saved
    HostOf,          \* the process of a poll loop
    Nobody,          \* no one holds the auto-sync advisory lock
    MaxTries,        \* retries of maintenance while the poller is busy
    MaxWrites,       \* bound: status writes in flight, of each value
    Prompt           \* the requests whose entry never goes stale while they live

ProcessNames == {"api", "worker"}

ASSUME OperationAssumption ==
    /\ FactoryResets \subseteq Maintenances /\ Maintenances \subseteq Requests
    /\ \A m \in Maintenances : FilterOf[m] = [products |-> {}, engagements |-> {}]
    /\ HostOf \in [Pollers -> ProcessNames]
    /\ Requests \cap Rebuilds = {} /\ (Requests \cup Rebuilds) \cap Pollers = {}
    /\ Nobody \notin Requests \cup Pollers
    /\ MaxTries \in Nat \ {0} /\ MaxWrites \in Nat \ {0} /\ Prompt \subseteq Requests

VARIABLES
    stage,           \* progress of each request, rebuild and poll loop
    attempts,        \* retries of a maintenance operation
    up,              \* the processes that run
    running,         \* redmineSyncPollRunning of each process
    maintenance,     \* maintenanceActive of the API process
    autoLock,        \* holder of the advisory lock 'auto-sync-status:redmine-sync'
    status,          \* 'running' of the persisted scheduler state
    writes           \* un-awaited saves of the scheduler state in flight

scheduler == <<running, status, writes>>
vars == <<registry, live, stage, attempts, up, running, maintenance, autoLock,
          status, writes>>

SyncAlls == Requests \ Maintenances

OperationTypeOK ==
    /\ registry \subseteq Entries
    /\ live \subseteq Requests
    /\ stage \in [Requests \cup Rebuilds \cup Pollers ->
            {"idle", "again", "checking", "registering", "locking", "loading",
             "working", "cleared", "reset", "unlocking", "leaving", "over"}]
    /\ attempts \in [Maintenances -> 0 .. MaxTries]
    /\ up \in [ProcessNames -> BOOLEAN]
    /\ running \in [ProcessNames -> BOOLEAN]
    /\ maintenance \in BOOLEAN
    /\ autoLock \in Maintenances \cup Pollers \cup {Nobody}
    /\ status \in {"none", "quiet", "running"}
    /\ writes \in [BOOLEAN -> 0 .. MaxWrites]

OperationInit ==
    /\ Init
    /\ stage = [a \in Requests \cup Rebuilds \cup Pollers |-> "idle"]
    /\ attempts = [m \in Maintenances |-> 0]
    /\ up = [p \in ProcessNames |-> TRUE]
    /\ running = [p \in ProcessNames |-> FALSE]
    /\ maintenance = FALSE
    /\ autoLock = Nobody
    /\ status = "none"
    /\ writes = [b \in BOOLEAN |-> 0]

At(a, s) == stage[a] = s
Goto(a, s) == stage' = [stage EXCEPT ![a] = s]

Serves(a) == up[IF a \in Pollers THEN HostOf[a] ELSE "api"]

\* getActiveRuns: an unlocked read that ignores stale entries.
ActiveRuns == Fresh(registry)

\* No step leaves the entry of a live prompt run stale.
InTime == \A n \in registry : n.req \in live \cap Prompt => ~IsStale(n)

-----------------------------------------------------------------------------
(* The persisted scheduler status. *)

\* Mutant: the end of a poll is not saved.
PersistStarts(p, value) ==
    IF (\E l \in Pollers : HostOf[l] = p) /\ value
    THEN writes' = [writes EXCEPT ![value] = IF @ < MaxWrites THEN @ + 1 ELSE @]
    ELSE UNCHANGED writes

\* updateScheduler: only a process that polls persists; nobody awaits the save.
\* A save beyond the bound counts as one that fails.
Persist(p, value) ==
    IF \E l \in Pollers : HostOf[l] = p
    THEN writes' = [writes EXCEPT ![value] = IF @ < MaxWrites THEN @ + 1 ELSE @]
    ELSE UNCHANGED writes

SetRunning(p, value) ==
    /\ running' = [running EXCEPT ![p] = value]
    /\ Persist(p, value)
    /\ UNCHANGED status

\* Saves of one key go through different pool connections: they land in any
\* order, and one that fails is logged and dropped.
WriteLands(value) ==
    /\ writes[value] > 0
    /\ writes' = [writes EXCEPT ![value] = @ - 1]
    /\ status' = IF value THEN "running" ELSE "quiet"
    /\ UNCHANGED <<registry, live, stage, attempts, up, running, maintenance, autoLock>>

WriteFails(value) ==
    /\ writes[value] > 0
    /\ writes' = [writes EXCEPT ![value] = @ - 1]
    /\ UNCHANGED <<registry, live, stage, attempts, up, running, maintenance,
                   autoLock, status>>

\* getEffectiveRedmineSyncStatusPayload: a saved status hides that of the
\* process, unless the read fails.
Readings ==
    {running["api"]} \cup (IF status = "none" THEN {} ELSE {status = "running"})

-----------------------------------------------------------------------------
(* Sync All. *)

SyncAllRegisters(q) ==
    /\ q \in SyncAlls /\ At(q, "idle") /\ Serves(q)
    /\ Admit(q) /\ InTime'
    /\ Goto(q, "checking")
    /\ UNCHANGED <<attempts, up, maintenance, autoLock, scheduler>>

\* A 409, or a failing database; the entry may have been written all the same.
SyncAllRefused(q) ==
    /\ q \in SyncAlls /\ At(q, "idle") /\ Serves(q)
    /\ AdmitLost(q) \/ UNCHANGED registryVars
    /\ Goto(q, "over")
    /\ UNCHANGED <<attempts, up, maintenance, autoLock, scheduler>>

SyncAllChecks(q) ==
    /\ q \in SyncAlls /\ At(q, "checking")
    /\ \E busy \in Readings : Goto(q, IF busy THEN "leaving" ELSE "working")
    /\ UNCHANGED <<registry, live, attempts, up, maintenance, autoLock, scheduler>>

SyncAllReports(q) ==
    /\ q \in SyncAlls /\ At(q, "working")
    /\ Beat(q) /\ InTime'
    /\ UNCHANGED <<stage, attempts, up, maintenance, autoLock, scheduler>>

SyncAllEnds(q) ==
    /\ q \in SyncAlls /\ At(q, "working")
    /\ Goto(q, "leaving")
    /\ UNCHANGED <<registry, live, attempts, up, maintenance, autoLock, scheduler>>

-----------------------------------------------------------------------------
(* Leaving the registry: finishRun removes the entry, or gives up. *)

StopsWork(q) ==
    /\ q \in live /\ At(q, "leaving")
    /\ live' = live \ {q}
    /\ UNCHANGED <<registry, stage, attempts, up, maintenance, autoLock, scheduler>>

Unlists(q) ==
    /\ q \in Requests \ live /\ At(q, "leaving")
    /\ Remove(q) \/ UNCHANGED registryVars
    /\ Goto(q, "over")
    /\ UNCHANGED <<attempts, up, maintenance, autoLock, scheduler>>

-----------------------------------------------------------------------------
(* Data Management: assertIdle, then runMaintenance. *)

\* hasActiveRuns, the first read of isMaintenanceBlocked.
MaintenanceReadsRuns(m) ==
    /\ m \in Maintenances /\ stage[m] \in {"idle", "again"} /\ Serves(m)
    /\ Goto(m, IF ActiveRuns = {} THEN "checking" ELSE "over")
    /\ UNCHANGED <<registry, live, attempts, up, maintenance, autoLock, scheduler>>

\* Mutant: the reads are repeated until the poll has stopped.
MaintenanceAwaitsPoll(m) ==
    /\ m \in Maintenances /\ At(m, "checking")
    /\ \E seen \in Readings :
        Goto(m, IF seen \/ running["api"] THEN "again"
                ELSE IF maintenance THEN "over" ELSE "registering")
    /\ UNCHANGED <<registry, live, attempts, up, maintenance, autoLock, scheduler>>

\* The second read.  A running poll is asked to stop (abortActivePoll: the
\* poll never looks at the signal), and both reads are repeated.
MaintenanceReadsStatus(m) ==
    /\ m \in Maintenances /\ At(m, "checking")
    /\ \E seen \in Readings :
        LET busy == seen \/ running["api"] IN
        /\ Goto(m, IF busy /\ attempts[m] < MaxTries THEN "again"
                   ELSE IF busy \/ maintenance THEN "over"
                   ELSE "registering")
        /\ attempts' = [attempts EXCEPT
                ![m] = IF busy /\ @ < MaxTries THEN @ + 1 ELSE 0]
    /\ UNCHANGED <<registry, live, up, maintenance, autoLock, scheduler>>

\* Mutant: the reads of assertIdle are thought enough.
MaintenanceUnregistered(m) ==
    /\ m \in Maintenances /\ At(m, "registering")
    /\ live' = live \cup {m}
    /\ Goto(m, "locking")
    /\ UNCHANGED <<registry, attempts, up, maintenance, autoLock, scheduler>>

MaintenanceRegisters(m) ==
    /\ m \in Maintenances /\ At(m, "registering")
    /\ Admit(m) /\ InTime'
    /\ Goto(m, "locking")
    /\ UNCHANGED <<attempts, up, maintenance, autoLock, scheduler>>

\* The finally of runMaintenance clears the flag, whoever set it.
MaintenanceRefused(m) ==
    /\ m \in Maintenances /\ At(m, "registering")
    /\ AdmitLost(m) \/ UNCHANGED registryVars
    /\ maintenance' = FALSE
    /\ Goto(m, "over")
    /\ UNCHANGED <<attempts, up, autoLock, scheduler>>

\* Mutant: the lock is taken for granted after the poll was asked to stop.
MaintenanceLocksAnyway(m) ==
    /\ m \in Maintenances /\ At(m, "locking")
    /\ autoLock' = m
    /\ maintenance' = TRUE
    /\ Goto(m, "working")
    /\ UNCHANGED <<registry, live, attempts, up, scheduler>>

MaintenanceLocks(m) ==
    /\ m \in Maintenances /\ At(m, "locking") /\ autoLock = Nobody
    /\ autoLock' = m
    /\ maintenance' = TRUE
    /\ Goto(m, "working")
    /\ UNCHANGED <<registry, live, attempts, up, scheduler>>

MaintenanceLockBusy(m) ==
    /\ m \in Maintenances /\ At(m, "locking")
    /\ autoLock # Nobody /\ attempts[m] < MaxTries
    /\ attempts' = [attempts EXCEPT ![m] = @ + 1]
    /\ UNCHANGED <<registry, live, stage, up, maintenance, autoLock, scheduler>>

\* Out of attempts, or the query for the lock fails.
MaintenanceGivesUp(m) ==
    /\ m \in Maintenances /\ At(m, "locking")
    /\ maintenance' = FALSE
    /\ Goto(m, "leaving")
    /\ UNCHANGED <<registry, live, attempts, up, autoLock, scheduler>>

\* clearAllData truncates the runtime state: the registry, the operation's
\* own entry in it and the scheduler status.
MaintenanceClears(m) ==
    /\ m \in FactoryResets /\ At(m, "working")
    /\ registry' = {}
    /\ status' = "none"
    /\ Goto(m, "cleared")
    /\ UNCHANGED <<live, attempts, up, running, maintenance, autoLock, writes>>

\* resetRedmineSyncRuntimeState forgets a rebuild in progress.
MaintenanceResets(m) ==
    /\ m \in Maintenances /\ At(m, "cleared")
    /\ SetRunning("api", FALSE)
    /\ Goto(m, "reset")
    /\ UNCHANGED <<registry, live, attempts, up, maintenance, autoLock>>

MaintenanceEnds(m) ==
    /\ m \in Maintenances /\ stage[m] \in {"working", "cleared", "reset"}
    /\ maintenance' = FALSE
    /\ Goto(m, "unlocking")
    /\ UNCHANGED <<registry, live, attempts, up, autoLock, scheduler>>

MaintenanceUnlocks(m) ==
    /\ m \in Maintenances /\ At(m, "unlocking")
    /\ autoLock' = Nobody
    /\ Goto(m, "leaving")
    /\ UNCHANGED <<registry, live, attempts, up, maintenance, scheduler>>

-----------------------------------------------------------------------------
(* The manual rebuild of the Redmine status: routes/redmine.cjs and         *)
(* rebuildRedmineStatusFromCurrentFindings.                                 *)

\* rejectDuringMaintenance and the check of the poll flag, with no await
\* between them.
RebuildStarts(b) ==
    /\ b \in Rebuilds /\ At(b, "idle") /\ Serves(b)
    /\ Goto(b, IF maintenance \/ running["api"] THEN "over" ELSE "loading")
    /\ UNCHANGED <<registry, live, attempts, up, maintenance, autoLock, scheduler>>

\* The flag is set once the sync store and the tickets have been loaded.
RebuildRuns(b) ==
    /\ b \in Rebuilds /\ At(b, "loading")
    /\ SetRunning("api", TRUE)
    /\ Goto(b, "working")
    /\ UNCHANGED <<registry, live, attempts, up, maintenance, autoLock>>

RebuildFails(b) ==
    /\ b \in Rebuilds /\ At(b, "loading")
    /\ Goto(b, "over")
    /\ UNCHANGED <<registry, live, attempts, up, maintenance, autoLock, scheduler>>

RebuildEnds(b) ==
    /\ b \in Rebuilds /\ At(b, "working")
    /\ SetRunning("api", FALSE)
    /\ Goto(b, "over")
    /\ UNCHANGED <<registry, live, attempts, up, maintenance, autoLock>>

-----------------------------------------------------------------------------
(* The poller: runScheduledPoll, runWithLock and, under the advisory lock,  *)
(* refreshStoredRedmineSyncStatuses.                                        *)

\* The skip check; when the registry cannot be read the poll goes on.
PollChecks(l) ==
    /\ l \in Pollers /\ At(l, "idle") /\ Serves(l)
    /\ \/ /\ ActiveRuns # {}
          /\ Persist(HostOf[l], running[HostOf[l]])
          /\ UNCHANGED stage
       \/ Goto(l, "locking") /\ UNCHANGED writes
    /\ UNCHANGED <<registry, live, attempts, up, running, maintenance, autoLock, status>>

PollLocks(l) ==
    /\ l \in Pollers /\ At(l, "locking") /\ autoLock = Nobody
    /\ autoLock' = l
    /\ Goto(l, "loading")
    /\ UNCHANGED <<registry, live, attempts, up, maintenance, scheduler>>

\* The lock is busy, or the query for it fails.
PollLockBusy(l) ==
    /\ l \in Pollers /\ At(l, "locking")
    /\ Persist(HostOf[l], running[HostOf[l]])
    /\ Goto(l, "idle")
    /\ UNCHANGED <<registry, live, attempts, up, running, maintenance, autoLock, status>>

\* A rebuild of the same process is running.
PollSkips(l) ==
    /\ l \in Pollers /\ At(l, "loading") /\ running[HostOf[l]]
    /\ Goto(l, "unlocking")
    /\ UNCHANGED <<registry, live, attempts, up, maintenance, autoLock, scheduler>>

\* The health gate and the loading of the tickets are awaited after the flag
\* was found clear.
PollLoads(l) ==
    /\ l \in Pollers /\ At(l, "loading") /\ ~running[HostOf[l]]
    /\ Goto(l, "checking")
    /\ UNCHANGED <<registry, live, attempts, up, maintenance, autoLock, scheduler>>

PollRuns(l) ==
    /\ l \in Pollers /\ At(l, "checking")
    /\ SetRunning(HostOf[l], TRUE)
    /\ Goto(l, "working")
    /\ UNCHANGED <<registry, live, attempts, up, maintenance, autoLock>>

\* Redmine is down (the status is saved as not running), or a query fails.
PollPauses(l) ==
    /\ l \in Pollers /\ At(l, "checking")
    /\ Persist(HostOf[l], FALSE) \/ UNCHANGED writes
    /\ Goto(l, "unlocking")
    /\ UNCHANGED <<registry, live, attempts, up, running, maintenance, autoLock, status>>

\* Mutant: a failing poll leaves through the rescheduling without unlocking.
PollEndsKeepingLock(l) ==
    /\ l \in Pollers /\ At(l, "working")
    /\ SetRunning(HostOf[l], FALSE)
    /\ \E s \in {"unlocking", "idle"} : Goto(l, s)
    /\ UNCHANGED <<registry, live, attempts, up, maintenance, autoLock>>

PollEnds(l) ==
    /\ l \in Pollers /\ At(l, "working")
    /\ SetRunning(HostOf[l], FALSE)
    /\ Goto(l, "unlocking")
    /\ UNCHANGED <<registry, live, attempts, up, maintenance, autoLock>>

PollUnlocks(l) ==
    /\ l \in Pollers /\ At(l, "unlocking")
    /\ autoLock' = Nobody
    /\ Persist(HostOf[l], running[HostOf[l]])
    /\ Goto(l, "idle")
    /\ UNCHANGED <<registry, live, attempts, up, running, maintenance, status>>

-----------------------------------------------------------------------------
(* Crashes and time. *)

\* The sessions of the process end, and with them its advisory locks; what
\* it had saved stays.
Crash(p) ==
    /\ up[p]
    /\ up' = [up EXCEPT ![p] = FALSE]
    /\ running' = [running EXCEPT ![p] = FALSE]
    /\ LET requests == IF p = "api" THEN Requests \cup Rebuilds ELSE {}
           loops == {l \in Pollers : HostOf[l] = p}
       IN
        /\ stage' = [a \in DOMAIN stage |->
                        IF a \in loops THEN "idle"
                        ELSE IF a \in requests /\ ~At(a, "idle") THEN "over"
                        ELSE stage[a]]
        /\ autoLock' = IF autoLock \in requests \cup loops THEN Nobody ELSE autoLock
        /\ live' = live \ requests
    /\ maintenance' = (maintenance /\ p # "api")
    /\ UNCHANGED <<registry, attempts, status, writes>>

\* The start of a poll loop saves the flag of the fresh process; the API also
\* prunes the registry first.
Restart(p) ==
    /\ ~up[p]
    /\ up' = [up EXCEPT ![p] = TRUE]
    /\ IF p = "api" THEN Prune ELSE UNCHANGED registryVars
    /\ Persist(p, FALSE)
    /\ UNCHANGED <<stage, attempts, running, maintenance, autoLock, status>>

Tick ==
    /\ \E n \in registry : ~IsStale(n)
    /\ Time /\ InTime'
    /\ UNCHANGED <<stage, attempts, up, maintenance, autoLock, scheduler>>

-----------------------------------------------------------------------------
SyncAll(q) ==
    \/ SyncAllRegisters(q) \/ SyncAllRefused(q) \/ SyncAllChecks(q)
    \/ SyncAllEnds(q)

Maintenance(m) ==
    \/ MaintenanceReadsRuns(m) \/ MaintenanceReadsStatus(m)
    \/ MaintenanceRegisters(m) \/ MaintenanceRefused(m)
    \/ MaintenanceLocks(m) \/ MaintenanceLockBusy(m) \/ MaintenanceGivesUp(m)
    \/ MaintenanceClears(m) \/ MaintenanceResets(m)
    \/ MaintenanceEnds(m) \/ MaintenanceUnlocks(m)

Leaves(q) == StopsWork(q) \/ Unlists(q)

Rebuild(b) == RebuildStarts(b) \/ RebuildRuns(b) \/ RebuildFails(b) \/ RebuildEnds(b)

Poll(l) ==
    \/ PollChecks(l) \/ PollLocks(l) \/ PollLockBusy(l) \/ PollSkips(l)
    \/ PollLoads(l) \/ PollRuns(l) \/ PollPauses(l) \/ PollEnds(l) \/ PollUnlocks(l)

OperationNext ==
    \/ \E q \in Requests :
            SyncAll(q) \/ SyncAllReports(q) \/ Maintenance(q) \/ Leaves(q)
    \/ \E b \in Rebuilds : Rebuild(b)
    \/ \E l \in Pollers : Poll(l)
    \/ \E value \in BOOLEAN : WriteLands(value) \/ WriteFails(value)
    \/ \E p \in ProcessNames : Crash(p) \/ Restart(p)
    \/ Tick

OperationSpec == OperationInit /\ [][OperationNext]_vars

\* Awaited calls return, timers fire, a supervisor restarts what died, and a
\* save that is attempted again and again lands some time.
OperationFairness ==
    /\ \A q \in Requests :
            /\ WF_vars(SyncAll(q) /\ ~At(q, "idle"))
            /\ WF_vars(Maintenance(q) /\ ~At(q, "idle"))
            /\ WF_vars(Leaves(q))
    /\ \A b \in Rebuilds : WF_vars(Rebuild(b) /\ ~At(b, "idle"))
    /\ \A l \in Pollers : WF_vars(Poll(l))
    /\ \A value \in BOOLEAN :
            /\ WF_vars(WriteLands(value) \/ WriteFails(value))
            /\ SF_vars(WriteLands(value))
    /\ \A p \in ProcessNames : WF_vars(Restart(p))

OperationFairSpec == OperationSpec /\ OperationFairness

-----------------------------------------------------------------------------
(* Properties. *)

\* The operations whose work is under way.
Maintaining == {m \in Maintenances : stage[m] \in {"working", "cleared", "reset"}}
Syncing == {q \in SyncAlls : At(q, "working")}
Rebuilding == {b \in Rebuilds : At(b, "working")}
Polling == {l \in Pollers : At(l, "working")}

\* At most one poll of all loops and processes, and no poll beside a Data
\* Management operation, whatever crashes or gives up.
OneLockedOperation ==
    \A a, b \in Maintaining \cup Polling : a = b

\* No exit, failure or crash leaks a guard: the maintenance flag, the poll
\* flag of a process and the advisory lock each have an operation in progress
\* that will clear them.
GuardsHaveOwners ==
    /\ maintenance => Maintaining # {}
    /\ \A p \in ProcessNames : running[p] =>
            \/ p = "api" /\ Rebuilding # {}
            \/ \E l \in Polling : HostOf[l] = p
    /\ autoLock # Nobody =>
            stage[autoLock] \in {"loading", "checking", "working", "cleared",
                                 "reset", "unlocking"}

\* A Sync All and a Data Management operation whose entries do not go stale
\* work apart, whatever other operations give up, fail or let theirs lapse,
\* until a factory reset empties the registry.
TimelyOperationsExclusive ==
    \A q \in Syncing \cap Prompt, m \in Maintaining \cap Prompt :
        stage[m] \in {"cleared", "reset"}

\* The scheduler status never stays 'running' for good, which would refuse
\* every Sync All and Data Management operation: crashes, saves that fail and
\* saves out of order are made up for by a later poll.
StatusSettles == []<>(status # "running")

\* Every operation that began ends.
OperationsEnd ==
    \A a \in Requests \cup Rebuilds : ~At(a, "idle") ~> At(a, "over")

=============================================================================
