------------------------- MODULE SyncAllCoordinator -------------------------
(***************************************************************************)
(* createSyncAllCoordinator of sync-all-coordinator-service.cjs, over a    *)
(* PostgreSQL database, as POST /sync-all (routes/sync.cjs) and the Data   *)
(* Management service use it.                                              *)
(*                                                                         *)
(* The registry is one JSON row that every operation reads, changes and    *)
(* writes back inside a section guarded by the session-level advisory lock *)
(* 'sync-all:registry'.  The steps of a section (lock, load, claim a scope *)
(* lock, save, unlock) are separate awaits, so the steps of other requests *)
(* and processes, time, database errors and crashes come between them.     *)
(***************************************************************************)
EXTENDS SyncRuns

CONSTANTS
    Processes,       \* API server processes
    ServedBy,        \* the process that serves a request
    Nobody,          \* no one holds the registry lock
    MaxTries,        \* withRegistryLock({ wait: true }): attempts before giving up
    MaxBeats         \* bound: heartbeats of one run in flight at a time

ASSUME ProcessAssumption ==
    /\ ServedBy \in [Requests -> Processes]
    /\ Requests \cap Processes = {}
    /\ Nobody \notin Requests \cup Processes

ASSUME BoundAssumption ==
    /\ MaxTries \in Nat \ {0}
    /\ MaxBeats \in Nat

VARIABLES
    registry,        \* the persisted activeRuns
    section,         \* who is inside the registry section, and how far
    phase,           \* progress of each request
    startAge,        \* age of the startedAt stamp of a registering request
    held,            \* scope advisory locks held by each request's sessions
    tries,           \* attempts made to enter a waiting section
    beats,           \* heartbeats sent and not yet served
    process          \* state of each process

vars == <<registry, section, phase, startAge, held, tries, beats, process>>

Actors == Requests \cup Processes

Outside == [op |-> "none", who |-> Nobody, stage |-> "out", view |-> {}]

Sections ==
    [op    : {"none", "register", "heartbeat", "finish", "cleanup"},
     who   : Actors \cup {Nobody},
     stage : {"out", "locked", "claiming", "saving", "saved", "leaving"},
     view  : SUBSET Entries]

TypeOK ==
    /\ registry \subseteq Entries
    /\ section \in Sections
    /\ phase \in [Requests -> {"idle", "requested", "running", "finishing",
                               "releasing", "over"}]
    /\ startAge \in [Requests -> Ages]
    /\ held \in [Requests -> SUBSET LockKeys]
    /\ tries \in [Actors -> 0 .. MaxTries - 1]
    /\ beats \in [Requests -> 0 .. MaxBeats]
    /\ process \in [Processes -> {"up", "down", "booting"}]

Init ==
    /\ registry = {}
    /\ section = Outside
    /\ phase = [q \in Requests |-> "idle"]
    /\ startAge = [q \in Requests |-> 0]
    /\ held = [q \in Requests |-> {}]
    /\ tries = [a \in Actors |-> 0]
    /\ beats = [q \in Requests |-> 0]
    /\ process = [p \in Processes |-> "up"]

-----------------------------------------------------------------------------
(* The registry section. *)

Free == section = Outside
In(op, who, stage) ==
    section.op = op /\ section.who = who /\ section.stage = stage

Enter(op, who) ==
    /\ Free
    /\ section' = [op |-> op, who |-> who, stage |-> "locked", view |-> {}]

Proceed(stage, view) ==
    section' = [section EXCEPT !.stage = stage, !.view = view]

Exit == section' = Outside

Serving(q) == process[ServedBy[q]] = "up"

\* The holder writes back what it loaded and changed.
Save ==
    /\ section.stage = "saving"
    /\ registry' = section.view
    /\ Proceed("saved", {})
    /\ UNCHANGED <<phase, startAge, held, tries, beats, process>>

-----------------------------------------------------------------------------
(* registerRun *)

\* The run record is stamped before the registry lock is tried.
Request(q) ==
    /\ phase[q] = "idle"
    /\ Serving(q)
    /\ phase' = [phase EXCEPT ![q] = "requested"]
    /\ startAge' = [startAge EXCEPT ![q] = 0]
    /\ UNCHANGED <<registry, section, held, tries, beats, process>>

RegisterEnter(q) ==
    /\ phase[q] = "requested"
    /\ Enter("register", q)
    /\ UNCHANGED <<registry, phase, startAge, held, tries, beats, process>>

\* One attempt only: a busy registry, whoever holds it, is a 409.
RegisterBusy(q) ==
    /\ phase[q] = "requested"
    /\ ~Free /\ section.who # q
    /\ phase' = [phase EXCEPT ![q] = "over"]
    /\ UNCHANGED <<registry, section, startAge, held, tries, beats, process>>

\* Mutants: overlap left to the scope locks; what was loaded is not kept.
RegisterLoadById(q) ==
    /\ In("register", q, "locked")
    /\ LET loaded == Fresh(registry) IN
        IF \E n \in loaded : RunIdOf[n.req] = RunIdOf[q]
        THEN Proceed("leaving", {})
        ELSE Proceed("claiming",
                     loaded \cup {[req |-> q, age |-> startAge[q]]})
    /\ UNCHANGED <<registry, phase, startAge, held, tries, beats, process>>

RegisterLoadAlone(q) ==
    /\ In("register", q, "locked")
    /\ IF \E n \in Fresh(registry) : Conflict(q, n.req)
       THEN Proceed("leaving", {})
       ELSE Proceed("claiming", {[req |-> q, age |-> startAge[q]]})
    /\ UNCHANGED <<registry, phase, startAge, held, tries, beats, process>>

RegisterLoad(q) ==
    /\ In("register", q, "locked")
    /\ LET loaded == Fresh(registry) IN
        IF \E n \in loaded : Conflict(q, n.req)
        THEN Proceed("leaving", {})
        ELSE Proceed("claiming",
                     loaded \cup {[req |-> q, age |-> startAge[q]]})
    /\ UNCHANGED <<registry, phase, startAge, held, tries, beats, process>>

Unclaimed(q) == ScopeLocks(ScopeOf(q)) \ held[q]

LockedBy(key) == {r \in Requests : key \in held[r]}

\* The locks are tried one by one in their sorted order; the order among
\* them makes no difference to the outcome, so any order is allowed.
Claim(q, key) ==
    /\ In("register", q, "claiming")
    /\ key \in Unclaimed(q)
    /\ IF LockedBy(key) = {}
       THEN /\ held' = [held EXCEPT ![q] = @ \cup {key}]
            /\ UNCHANGED section
       ELSE /\ Proceed("leaving", {})
            /\ UNCHANGED held
    /\ UNCHANGED <<registry, phase, startAge, tries, beats, process>>

Claimed(q) ==
    /\ In("register", q, "claiming")
    /\ Unclaimed(q) = {}
    /\ Proceed("saving", section.view)
    /\ UNCHANGED <<registry, phase, startAge, held, tries, beats, process>>

\* Mutant: a refused registration keeps the scope locks it had taken.
RegisterExitKeepingLocks(q) ==
    /\ section.op = "register" /\ section.who = q
    /\ \/ /\ section.stage = "saved"
          /\ phase' = [phase EXCEPT ![q] = "running"]
       \/ /\ section.stage = "leaving"
          /\ phase' = [phase EXCEPT ![q] = "over"]
    /\ Exit
    /\ UNCHANGED <<registry, startAge, held, tries, beats, process>>

RegisterExit(q) ==
    /\ section.op = "register" /\ section.who = q
    /\ \/ /\ section.stage = "saved"
          /\ phase' = [phase EXCEPT ![q] = "running"]
       \/ /\ section.stage = "leaving"
          /\ phase' = [phase EXCEPT ![q] = "releasing"]
    /\ Exit
    /\ UNCHANGED <<registry, startAge, held, tries, beats, process>>

-----------------------------------------------------------------------------
(* heartbeatRun: sent by every progress report and never awaited, so it may *)
(* be served after the run has finished.                                    *)

\* Mutant: progress is still reported after the run has ended.
SendHeartbeatForever(q) ==
    /\ phase[q] \in {"running", "over"}
    /\ Serving(q)
    /\ beats[q] < MaxBeats
    /\ beats' = [beats EXCEPT ![q] = @ + 1]
    /\ UNCHANGED <<registry, section, phase, startAge, held, tries, process>>

SendHeartbeat(q) ==
    /\ phase[q] = "running"
    /\ beats[q] < MaxBeats
    /\ beats' = [beats EXCEPT ![q] = @ + 1]
    /\ UNCHANGED <<registry, section, phase, startAge, held, tries, process>>

HeartbeatEnter(q) ==
    /\ beats[q] > 0
    /\ beats' = [beats EXCEPT ![q] = @ - 1]
    /\ Enter("heartbeat", q)
    /\ UNCHANGED <<registry, phase, startAge, held, tries, process>>

\* A busy registry, or a failing connection, loses the heartbeat.
HeartbeatLost(q) ==
    /\ beats[q] > 0
    /\ beats' = [beats EXCEPT ![q] = @ - 1]
    /\ UNCHANGED <<registry, section, phase, startAge, held, tries, process>>

\* Mutant: a heartbeat puts a pruned run back.
HeartbeatLoadUpsert(q) ==
    /\ In("heartbeat", q, "locked")
    /\ Proceed("saving", {n \in Fresh(registry) : n.req # q}
                            \cup {[req |-> q, age |-> 0]})
    /\ UNCHANGED <<registry, phase, startAge, held, tries, beats, process>>

\* Only an entry that is still listed is refreshed: a pruned run is not
\* put back.
HeartbeatLoad(q) ==
    /\ In("heartbeat", q, "locked")
    /\ LET loaded == Fresh(registry) IN
        IF \E n \in loaded : RunIdOf[n.req] = RunIdOf[q]
        THEN Proceed("saving", Refreshed(loaded, q, 0))
        ELSE Proceed("leaving", {})
    /\ UNCHANGED <<registry, phase, startAge, held, tries, beats, process>>

HeartbeatExit(q) ==
    /\ section.op = "heartbeat" /\ section.who = q
    /\ section.stage \in {"saved", "leaving"}
    /\ Exit
    /\ UNCHANGED <<registry, phase, startAge, held, tries, beats, process>>

-----------------------------------------------------------------------------
(* release: finishRun, then the scope locks. *)

\* The work of a run ends: done, refused by a later check, or failed.
WorkEnds(q) ==
    /\ phase[q] = "running"
    /\ phase' = [phase EXCEPT ![q] = "finishing"]
    /\ UNCHANGED <<registry, section, startAge, held, tries, beats, process>>

FinishEnter(q) ==
    /\ phase[q] = "finishing"
    /\ Enter("finish", q)
    /\ tries' = [tries EXCEPT ![q] = 0]
    /\ UNCHANGED <<registry, phase, startAge, held, beats, process>>

\* Ten attempts, then the conflict answer is dropped and the entry stays.
FinishBusy(q) ==
    /\ phase[q] = "finishing"
    /\ ~Free /\ ~(section.op = "finish" /\ section.who = q)
    /\ IF tries[q] + 1 < MaxTries
       THEN /\ tries' = [tries EXCEPT ![q] = @ + 1]
            /\ UNCHANGED phase
       ELSE /\ tries' = [tries EXCEPT ![q] = 0]
            /\ phase' = [phase EXCEPT ![q] = "releasing"]
    /\ UNCHANGED <<registry, section, startAge, held, beats, process>>

FinishLoad(q) ==
    /\ In("finish", q, "locked")
    /\ LET loaded == Fresh(registry) IN
        IF \E n \in loaded : RunIdOf[n.req] = RunIdOf[q]
        THEN Proceed("saving", WithoutRun(loaded, q))
        ELSE Proceed("leaving", {})
    /\ UNCHANGED <<registry, phase, startAge, held, tries, beats, process>>

FinishExit(q) ==
    /\ section.op = "finish" /\ section.who = q
    /\ section.stage \in {"saved", "leaving"}
    /\ Exit
    /\ phase' = [phase EXCEPT ![q] = "releasing"]
    /\ UNCHANGED <<registry, startAge, held, tries, beats, process>>

\* Mutant: engagement locks are not given back.
ReleaseLockOfProduct(q, key) ==
    /\ phase[q] = "releasing"
    /\ key \in held[q] /\ key[1] # "engagement"
    /\ held' = [held EXCEPT ![q] = @ \ {key}]
    /\ UNCHANGED <<registry, section, phase, startAge, tries, beats, process>>

\* releaseLocks: one unlock after the other; a rejected registration gives
\* back the locks it had taken the same way.
ReleaseLock(q, key) ==
    /\ phase[q] = "releasing"
    /\ key \in held[q]
    /\ held' = [held EXCEPT ![q] = @ \ {key}]
    /\ UNCHANGED <<registry, section, phase, startAge, tries, beats, process>>

Released(q) ==
    /\ phase[q] = "releasing"
    /\ held[q] = {}
    /\ phase' = [phase EXCEPT ![q] = "over"]
    /\ UNCHANGED <<registry, section, startAge, held, tries, beats, process>>

-----------------------------------------------------------------------------
(* cleanupStaleRuns, awaited by initializeServer before the port is opened. *)

Restart(p) ==
    /\ process[p] = "down"
    /\ process' = [process EXCEPT ![p] = "booting"]
    /\ UNCHANGED <<registry, section, phase, startAge, held, tries, beats>>

CleanupEnter(p) ==
    /\ process[p] = "booting"
    /\ Enter("cleanup", p)
    /\ tries' = [tries EXCEPT ![p] = 0]
    /\ UNCHANGED <<registry, phase, startAge, held, beats, process>>

CleanupBusy(p) ==
    /\ process[p] = "booting"
    /\ ~Free /\ section.who # p
    /\ IF tries[p] + 1 < MaxTries
       THEN /\ tries' = [tries EXCEPT ![p] = @ + 1]
            /\ UNCHANGED process
       ELSE /\ tries' = [tries EXCEPT ![p] = 0]
            /\ process' = [process EXCEPT ![p] = "up"]
    /\ UNCHANGED <<registry, section, phase, startAge, held, beats>>

CleanupLoad(p) ==
    /\ In("cleanup", p, "locked")
    /\ IF Fresh(registry) # registry
       THEN Proceed("saving", Fresh(registry))
       ELSE Proceed("leaving", {})
    /\ UNCHANGED <<registry, phase, startAge, held, tries, beats, process>>

CleanupExit(p) ==
    /\ section.op = "cleanup" /\ section.who = p
    /\ section.stage \in {"saved", "leaving"}
    /\ Exit
    /\ process' = [process EXCEPT ![p] = "up"]
    /\ UNCHANGED <<registry, phase, startAge, held, tries, beats>>

-----------------------------------------------------------------------------
(* Failures. *)

\* A query of the section rejects; "applied" is a write that reached the
\* database and whose acknowledgement was lost.  The section's finally gives
\* the registry lock back; registerRun and release give back the scope locks;
\* a heartbeat is logged; a start-up cleanup ends the process.
SectionFails(applied) ==
    /\ section.stage \in {"locked", "claiming", "saving"}
    /\ applied => section.stage = "saving"
    /\ registry' = IF applied THEN section.view ELSE registry
    /\ Exit
    /\ phase' = IF section.op \in {"register", "finish"}
                THEN [phase EXCEPT ![section.who] = "releasing"]
                ELSE phase
    /\ process' = IF section.op = "cleanup"
                  THEN [process EXCEPT ![section.who] = "down"]
                  ELSE process
    /\ UNCHANGED <<startAge, held, tries, beats>>

\* The query for the registry lock itself fails: registerRun throws, and
\* release goes on to the scope locks without having removed the entry.
ConnectionFails(q) ==
    /\ section.who # q \/ section.op = "heartbeat"
    /\ \/ /\ phase[q] = "requested"
          /\ phase' = [phase EXCEPT ![q] = "over"]
       \/ /\ phase[q] = "finishing"
          /\ phase' = [phase EXCEPT ![q] = "releasing"]
    /\ UNCHANGED <<registry, section, startAge, held, tries, beats, process>>

\* The process dies: its sessions end, and with them its advisory locks.
Crash(p) ==
    /\ process[p] # "down"
    /\ process' = [process EXCEPT ![p] = "down"]
    /\ LET mine == {q \in Requests : ServedBy[q] = p} IN
        /\ phase' = [q \in Requests |->
                        IF q \in mine /\ phase[q] # "idle"
                        THEN "over" ELSE phase[q]]
        /\ held' = [q \in Requests |-> IF q \in mine THEN {} ELSE held[q]]
        /\ beats' = [q \in Requests |-> IF q \in mine THEN 0 ELSE beats[q]]
        /\ tries' = [a \in Actors |->
                        IF a \in mine \cup {p} THEN 0 ELSE tries[a]]
        /\ section' = IF section.who \in mine \cup {p}
                      THEN Outside ELSE section
    /\ UNCHANGED <<registry, startAge>>

-----------------------------------------------------------------------------
(* Time. *)

Stamped ==
    \/ \E n \in registry \cup section.view : ~IsStale(n)
    \/ \E q \in Requests : phase[q] = "requested" /\ startAge[q] <= StaleAge

Tick ==
    /\ Stamped
    /\ registry' = Aged(registry)
    /\ section' = [section EXCEPT !.view = Aged(@)]
    /\ startAge' = [q \in Requests |->
                        IF phase[q] = "requested" THEN Older(startAge[q])
                        ELSE startAge[q]]
    /\ UNCHANGED <<phase, held, tries, beats, process>>

-----------------------------------------------------------------------------
Register(q) ==
    \/ RegisterEnter(q) \/ RegisterBusy(q) \/ RegisterLoad(q)
    \/ \E key \in LockKeys : Claim(q, key)
    \/ Claimed(q) \/ RegisterExit(q)

Heartbeat(q) ==
    \/ HeartbeatEnter(q) \/ HeartbeatLost(q) \/ HeartbeatLoad(q)
    \/ HeartbeatExit(q)

Release(q) ==
    \/ FinishEnter(q) \/ FinishBusy(q) \/ FinishLoad(q) \/ FinishExit(q)
    \/ \E key \in LockKeys : ReleaseLock(q, key)
    \/ Released(q)

Cleanup(p) ==
    \/ CleanupEnter(p) \/ CleanupBusy(p) \/ CleanupLoad(p) \/ CleanupExit(p)

Next ==
    \/ \E q \in Requests :
            \/ Request(q) \/ Register(q) \/ SendHeartbeat(q) \/ Heartbeat(q)
            \/ WorkEnds(q) \/ Release(q) \/ ConnectionFails(q)
    \/ \E p \in Processes : Restart(p) \/ Cleanup(p) \/ Crash(p)
    \/ Save
    \/ \E applied \in BOOLEAN : SectionFails(applied)
    \/ Tick

Spec == Init /\ [][Next]_vars

\* Every await is served or fails, progress reports are answered, the work
\* of a run ends, and time passes.  Nothing obliges a run to send a
\* heartbeat, a process to crash or a crashed process to come back.
Fairness ==
    /\ \A q \in Requests :
            /\ WF_vars(Register(q))
            /\ WF_vars(Heartbeat(q))
            /\ WF_vars(WorkEnds(q))
            /\ WF_vars(Release(q))
    /\ \A p \in Processes : WF_vars(Cleanup(p))
    /\ WF_vars(Save)
    /\ WF_vars(Tick)

FairSpec == Spec /\ Fairness

-----------------------------------------------------------------------------
(* Properties. *)

\* The requests whose registration has been granted and whose work goes on.
LiveRequests ==
    {q \in Requests : phase[q] = "running" \/ In("register", q, "saved")}

\* The coordinator implements the atomic registry.
Registry == INSTANCE SyncRegistry WITH live <- LiveRequests
ImplementsRegistry == Registry!Spec

\* Whatever interleaves with the sections, and however they fail, the saved
\* registry never lists two runs of overlapping scopes or one run twice.
RegistryExclusive == Exclusive(registry)

\* A live run holds every advisory lock of its scope, no lock has two
\* holders, and a request that has ended, a refused registration or a crash
\* included, holds none.
ScopeLocksHeld ==
    /\ \A q \in LiveRequests : held[q] = ScopeLocks(ScopeOf(q))
    /\ \A q, r \in Requests : q # r => held[q] \cap held[r] = {}
    /\ \A q \in Requests : phase[q] \in {"idle", "over"} => held[q] = {}

\* No update is lost: an entry disappears from the saved registry only when
\* its own request is finishing or its heartbeat is stale.
EntriesLeaveOnlyWhenDue ==
    [][\A n \in registry :
            \/ \E m \in registry' : m.req = n.req
            \/ IsStale(n)
            \/ phase[n.req] = "finishing"]_vars

\* Whatever is selected next, the registered runs it is judged independent of
\* share no ticket and no lock with it, and pull no engagement it pulls unless
\* one of the two names an engagement outside the products it names.
OverlapIsSound ==
    \A n \in registry, f \in Filters : JudgedRight(FilterOf[n.req], f)

\* Every request is answered and gives its locks back, through refusals,
\* database failures, a busy registry and crashes.
EveryRequestEnds ==
    \A q \in Requests : phase[q] = "requested" ~> phase[q] = "over"

\* What an ended request leaves in the registry (a crash, a finish that gave
\* up, a lost acknowledgement, a late heartbeat) stops blocking for good.
EndedRunsExpire ==
    \A q \in Requests :
        phase[q] = "over" ~> [](\A n \in Fresh(registry) : n.req # q)

=============================================================================
