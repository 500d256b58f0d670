------------------------- MODULE SyncAndTickets_proofs -------------------------
(***************************************************************************)
(* Theorems about the guards of SyncOperations, and about the tickets that *)
(* the jobs behind those guards write (TicketLifecycle). Neither part uses *)
(* the other.                                                              *)
(*                                                                         *)
(* SyncOperations, for any number of requests, rebuilds, poll loops and    *)
(* processes: one operation at a time polls or maintains, and no guard     *)
(* outlives the operation that set it. Both rest on who holds the advisory *)
(* lock (LockOwned): exactly the operation that is past taking it and not  *)
(* yet past giving it back. Two prompt operations are kept apart by the    *)
(* registry: it is exclusive, and the entry of a prompt operation at work  *)
(* is in it (PromptListed).                                                *)
(*                                                                         *)
(* TicketLifecycle, for any number of findings, cycles and generations:    *)
(* cycles follow closed ones, each was earned by a reactivation, and what  *)
(* an administrator settled stays settled. That an issue exists says       *)
(* little about the past; the argument is about the generations with which *)
(* cycles are recorded and planned. Whatever names a cycle with its        *)
(* generations (a record, a reference of a job, a candidate of a recheck)  *)
(* has reached it (Reached): the cycles before it have ended, and, while   *)
(* no record is lost, its generations stand for as many reactivations as   *)
(* cycles came before. A new cycle needs one more, because a finding whose *)
(* generation is above the recorded one is a reactivation that no earlier  *)
(* cycle stands for. What only names the cycle (an issue, a review) is of  *)
(* one that was begun (Begun): the table of findings, which is never       *)
(* behind, has that many reactivations.                                    *)
(***************************************************************************)
EXTENDS SyncOperations, TicketLifecycle, FiniteSetTheorems, WellFoundedInduction, TLAPS

-----------------------------------------------------------------------------
(* Theorems about SyncOperations. *)

Actors == Requests \cup Rebuilds \cup Pollers

\* The stages between taking the advisory lock and giving it back.
Holds(a) ==
    \/ a \in Pollers /\ stage[a] \in {"loading", "checking", "working", "unlocking"}
    \/ a \in Maintenances /\ stage[a] \in {"working", "cleared", "reset", "unlocking"}

LockOwned == \A a \in Maintenances \cup Pollers : Holds(a) <=> autoLock = a

FlagsOwned ==
    /\ maintenance => Maintaining # {}
    /\ \A p \in ProcessNames : running[p] =>
            \/ p = "api" /\ Rebuilding # {}
            \/ \E l \in Polling : HostOf[l] = p

Stages == {"idle", "again", "checking", "registering", "locking", "loading",
           "working", "cleared", "reset", "unlocking", "leaving", "over"}

GuardTypes ==
    /\ stage \in [Actors -> Stages]
    /\ running \in [ProcessNames -> BOOLEAN]
    /\ maintenance \in BOOLEAN
    /\ autoLock \in Maintenances \cup Pollers \cup {Nobody}

OtherTypes ==
    /\ attempts \in [Maintenances -> 0 .. MaxTries]
    /\ up \in [ProcessNames -> BOOLEAN]
    /\ status \in {"none", "quiet", "running"}
    /\ writes \in [BOOLEAN -> 0 .. MaxWrites]

RInv == registry \in SUBSET Entries /\ live \in SUBSET Requests /\ Exclusive(registry)

GInv == GuardTypes /\ LockOwned /\ FlagsOwned

OInv == RInv /\ GInv /\ OtherTypes

-----------------------------------------------------------------------------
(* Facts about entries, as the proofs about the coordinator have them, too. *)

LEMMA OlderType == ASSUME NEW age \in Ages PROVE Older(age) \in Ages
  BY StaleAgeAssumption DEF Ages, Older

LEMMA AgedType ==
    ASSUME NEW S \in SUBSET Entries
    PROVE  Aged(S) \in SUBSET Entries
  <1> SUFFICES ASSUME NEW n \in S
               PROVE  [n EXCEPT !.age = Older(@)] \in Entries
    BY DEF Aged
  <1>1. n.req \in Requests /\ n.age \in Ages /\ n = [req |-> n.req, age |-> n.age]
    BY DEF Entries
  <1>2. Older(n.age) \in Ages
    BY <1>1, OlderType
  <1> QED BY <1>1, <1>2 DEF Entries

LEMMA RefreshedType ==
    ASSUME NEW S \in SUBSET Entries, NEW q \in Requests, NEW age \in Ages
    PROVE  Refreshed(S, q, age) \in SUBSET Entries
  BY DEF Refreshed, Entries

\* Conflicts do not depend on who came first.
LEMMA ConflictSymmetric ==
    ASSUME NEW q, NEW r
    PROVE  Conflict(q, r) <=> Conflict(r, q)
  BY DEF Conflict, Overlap

LEMMA ExclusiveSubset ==
    ASSUME NEW S, Exclusive(S), NEW T \in SUBSET S
    PROVE  Exclusive(T)
  BY DEF Exclusive

\* Restamping entries keeps them exclusive: only the requests matter.
LEMMA ExclusiveAged ==
    ASSUME NEW S \in SUBSET Entries, Exclusive(S)
    PROVE  Exclusive(Aged(S))
  <1> SUFFICES ASSUME NEW n \in S, NEW m \in S,
                      [n EXCEPT !.age = Older(@)] # [m EXCEPT !.age = Older(@)]
               PROVE  n.req # m.req /\ ~Conflict(n.req, m.req)
    BY DEF Aged, Exclusive, Entries
  <1>1. n # m
    OBVIOUS
  <1> QED BY <1>1 DEF Exclusive

LEMMA ExclusiveRefreshed ==
    ASSUME NEW S \in SUBSET Entries, Exclusive(S), NEW q, NEW age
    PROVE  Exclusive(Refreshed(S, q, age))
  <1> DEFINE New(n) == IF RunIdOf[n.req] = RunIdOf[q]
                       THEN [n EXCEPT !.age = age] ELSE n
  <1>1. \A n \in S : New(n).req = n.req
    BY DEF Entries
  <1>2. ASSUME NEW n \in S, NEW m \in S, New(n) # New(m)
        PROVE  New(n).req # New(m).req /\ ~Conflict(New(n).req, New(m).req)
    <2>1. n # m
      BY <1>2
    <2> QED BY <1>1, <2>1 DEF Exclusive
  <1>3. Refreshed(S, q, age) = {New(n) : n \in S}
    BY DEF Refreshed
  <1> HIDE DEF New
  <1> QED BY <1>2, <1>3 DEF Exclusive

\* A registration that found no conflict may be added to what it loaded.
LEMMA ExclusiveEnrolled ==
    ASSUME NEW S \in SUBSET Entries, Exclusive(S), NEW q \in Requests,
           NEW age \in Ages, \A n \in S : ~Conflict(q, n.req)
    PROVE  Exclusive(S \cup {[req |-> q, age |-> age]})
  <1> DEFINE own == [req |-> q, age |-> age]
  <1>1. \A n \in S : n.req # q /\ ~Conflict(n.req, q)
    BY ConflictSymmetric DEF Conflict
  <1>2. own.req = q
    OBVIOUS
  <1> HIDE DEF own
  <1> QED BY <1>1, <1>2 DEF Exclusive

LEMMA EmptyExclusive == Exclusive({})
  BY DEF Exclusive

-----------------------------------------------------------------------------
(* The operations of the registry. *)

LEMMA EnrollFacts ==
    ASSUME registry \in SUBSET Entries, Exclusive(registry), NEW q \in Requests, Enroll(q)
    PROVE  registry' \in SUBSET Entries /\ Exclusive(registry')
  <1>1. PICK kept \in Kept(registry), age \in Ages :
          /\ \A n \in kept : ~Conflict(q, n.req)
          /\ registry' = kept \cup {[req |-> q, age |-> age]}
    BY DEF Enroll
  <1>2. kept \in SUBSET Entries /\ Exclusive(kept)
    BY <1>1, ExclusiveSubset DEF Kept
  <1>3. Exclusive(registry')
    BY <1>1, <1>2, ExclusiveEnrolled
  <1>4. [req |-> q, age |-> age] \in Entries
    BY DEF Entries
  <1> QED BY <1>1, <1>2, <1>3, <1>4

\* What every step of the registry does to the entries and the live requests.
RegistryStep ==
    \/ UNCHANGED registryVars \/ Leave \/ Prune \/ Time
    \/ registry' = {} /\ UNCHANGED live
    \/ \E q \in Requests : Admit(q) \/ AdmitLost(q) \/ Remove(q) \/ Beat(q)

LEMMA RegistryFacts ==
    ASSUME registry \in SUBSET Entries, live \in SUBSET Requests, Exclusive(registry),
           RegistryStep
    PROVE  registry' \in SUBSET Entries /\ live' \in SUBSET Requests /\ Exclusive(registry')
  <1>1. CASE UNCHANGED registryVars \/ Leave
    BY <1>1 DEF registryVars, Leave
  <1>2. CASE Prune
    BY <1>2, ExclusiveSubset DEF Prune, Kept
  <1>3. CASE Time
    BY <1>3, AgedType, ExclusiveAged DEF Time
  <1>4. CASE registry' = {} /\ UNCHANGED live
    BY <1>4, EmptyExclusive
  <1>5. ASSUME NEW q \in Requests, Admit(q) \/ AdmitLost(q)
        PROVE  registry' \in SUBSET Entries /\ live' \in SUBSET Requests
               /\ Exclusive(registry')
    BY <1>5, EnrollFacts DEF Admit, AdmitLost
  <1>6. ASSUME NEW q \in Requests, Remove(q)
        PROVE  registry' \in SUBSET Entries /\ live' \in SUBSET Requests
               /\ Exclusive(registry')
    <2>1. PICK kept \in Kept(registry) : registry' = WithoutRun(kept, q)
      BY <1>6 DEF Remove
    <2>2. registry' \in SUBSET registry
      BY <2>1 DEF Kept, WithoutRun
    <2> QED BY <1>6, <2>2, ExclusiveSubset DEF Remove
  <1>7. ASSUME NEW q \in Requests, Beat(q)
        PROVE  registry' \in SUBSET Entries /\ live' \in SUBSET Requests
               /\ Exclusive(registry')
    <2>1. PICK kept \in Kept(registry), age \in Ages : registry' = Refreshed(kept, q, age)
      BY <1>7 DEF Beat
    <2>2. kept \in SUBSET Entries /\ Exclusive(kept)
      BY <2>1, ExclusiveSubset DEF Kept
    <2> QED BY <1>7, <2>1, <2>2, RefreshedType, ExclusiveRefreshed DEF Beat
  <1> QED BY <1>1, <1>2, <1>3, <1>4, <1>5, <1>6, <1>7 DEF RegistryStep

\* Every step of an operation is one of the registry, or a factory reset.
LEMMA NextRegistry ==
    ASSUME [OperationNext]_vars PROVE RegistryStep
  <1> USE DEF RegistryStep, registryVars
  <1>1. ASSUME NEW q \in Requests,
               SyncAll(q) \/ SyncAllReports(q) \/ Maintenance(q) \/ Leaves(q)
        PROVE  RegistryStep
    <2>1. CASE SyncAll(q) \/ SyncAllReports(q)
      BY <2>1 DEF SyncAll, SyncAllRegisters, SyncAllRefused, SyncAllChecks, SyncAllEnds,
         SyncAllReports
    <2>2. CASE Leaves(q)
      BY <2>2 DEF Leaves, StopsWork, Unlists, Leave
    <2>3. CASE Maintenance(q)
      BY <2>3 DEF Maintenance, MaintenanceReadsRuns, MaintenanceReadsStatus,
         MaintenanceRegisters, MaintenanceRefused, MaintenanceLocks, MaintenanceLockBusy,
         MaintenanceGivesUp, MaintenanceClears, MaintenanceResets, MaintenanceEnds,
         MaintenanceUnlocks
    <2> QED BY <1>1, <2>1, <2>2, <2>3
  <1>2. ASSUME NEW b \in Rebuilds, Rebuild(b) PROVE RegistryStep
    BY <1>2 DEF Rebuild, RebuildStarts, RebuildRuns, RebuildFails, RebuildEnds
  <1>3. ASSUME NEW l \in Pollers, Poll(l) PROVE RegistryStep
    BY <1>3 DEF Poll, PollChecks, PollLocks, PollLockBusy, PollSkips, PollLoads, PollRuns,
       PollPauses, PollEnds, PollUnlocks
  <1>4. ASSUME NEW value \in BOOLEAN, WriteLands(value) \/ WriteFails(value)
        PROVE  RegistryStep
    BY <1>4 DEF WriteLands, WriteFails
  <1>5. ASSUME NEW p \in ProcessNames, Crash(p) \/ Restart(p) PROVE RegistryStep
    <2>1. CASE Crash(p)
      <3>1. live' \in SUBSET live /\ UNCHANGED registry
        BY <2>1 DEF Crash
      <3> QED BY <3>1 DEF Leave
    <2>2. CASE Restart(p)
      BY <2>2 DEF Restart
    <2> QED BY <1>5, <2>1, <2>2
  <1>6. CASE Tick
    BY <1>6 DEF Tick
  <1>7. CASE UNCHANGED vars
    BY <1>7 DEF vars
  <1> QED BY <1>1, <1>2, <1>3, <1>4, <1>5, <1>6, <1>7 DEF OperationNext

-----------------------------------------------------------------------------
(* The advisory lock and the flags. *)

LEMMA Disjoint ==
    /\ \A a \in Requests : a \notin Rebuilds \cup Pollers
    /\ \A a \in Rebuilds : a \notin Requests \cup Pollers
    /\ \A a \in Pollers : a \notin Requests \cup Rebuilds
    /\ \A a \in Maintenances : a \in Requests /\ a \notin Rebuilds \cup Pollers
  BY OperationAssumption

\* One actor moves.
Moves(a, s) ==
    /\ stage' \in [Actors -> Stages]
    /\ stage'[a] = s
    /\ \A b \in Actors \ {a} : stage'[b] = stage[b]

LEMMA GotoFacts ==
    ASSUME GuardTypes, NEW a \in Actors, NEW s \in Stages, Goto(a, s)
    PROVE  Moves(a, s)
  BY DEF GuardTypes, Goto, Moves

Guards == <<maintenance, running, autoLock>>

\* A move that neither takes nor gives back a guard.
LEMMA GuardsStay ==
    ASSUME GInv, NEW a \in Actors, NEW s, Moves(a, s), UNCHANGED Guards,
           a \in Maintenances \cup Pollers => (Holds(a)' <=> Holds(a)),
           a \in Rebuilds \cup Pollers => stage[a] # "working",
           a \in Maintenances => stage[a] \notin {"working", "cleared", "reset"}
                                 \/ s \in {"working", "cleared", "reset"}
    PROVE  GInv'
  <1>1. GuardTypes'
    BY DEF GInv, GuardTypes, Guards, Moves
  <1>2. \A b \in (Maintenances \cup Pollers) \ {a} : stage'[b] = stage[b]
    BY Disjoint DEF Moves, Actors
  <1>3. LockOwned'
    BY <1>2, Disjoint DEF GInv, LockOwned, Guards, Holds
  <1>4. Maintaining \subseteq Maintaining' /\ Rebuilding \subseteq Rebuilding'
        /\ Polling \subseteq Polling'
    BY Disjoint DEF Moves, Actors, Maintaining, Rebuilding, Polling, At
  <1>5. FlagsOwned'
    BY <1>4 DEF GInv, FlagsOwned, Guards
  <1> QED BY <1>1, <1>3, <1>5 DEF GInv

LEMMA StillGuards ==
    ASSUME GInv, UNCHANGED <<stage, maintenance, running, autoLock>>
    PROVE  GInv'
  BY DEF GInv, GuardTypes, LockOwned, Holds, FlagsOwned, Maintaining, Rebuilding, Polling, At

LEMMA SyncAllGuards ==
    ASSUME GInv, NEW q \in Requests,
           SyncAll(q) \/ SyncAllReports(q) \/ StopsWork(q)
    PROVE  GInv'
  <1> USE DEF scheduler, registryVars
  <1>1. CASE SyncAllReports(q) \/ StopsWork(q)
    BY <1>1, StillGuards DEF SyncAllReports, StopsWork
  <1>2. CASE SyncAll(q)
    <2>1. q \in SyncAlls /\ UNCHANGED Guards
      BY <1>2 DEF SyncAll, SyncAllRegisters, SyncAllRefused, SyncAllChecks, SyncAllEnds, Guards
    <2>2. PICK s \in {"checking", "over", "working", "leaving"} : Goto(q, s)
      BY <1>2 DEF SyncAll, SyncAllRegisters, SyncAllRefused, SyncAllChecks, SyncAllEnds
    <2>3. Moves(q, s)
      BY <2>2, GotoFacts DEF GInv, Actors, Stages
    <2> QED BY <2>1, <2>3, Disjoint, GuardsStay DEF SyncAlls, Actors
  <1> QED BY <1>1, <1>2

LEMMA UnlistsGuards ==
    ASSUME GInv, NEW q \in Requests, Unlists(q)
    PROVE  GInv'
  <1>1. Moves(q, "over") /\ stage[q] = "leaving" /\ UNCHANGED Guards
    BY GotoFacts DEF Unlists, GInv, Actors, Stages, Guards, scheduler, At
  <1>2. ~Holds(q)' /\ ~Holds(q)
    BY <1>1, Disjoint DEF Holds, Moves
  <1> QED BY <1>1, <1>2, Disjoint, GuardsStay DEF Actors

\* The steps of a Data Management operation that take or clear nothing.
LEMMA MaintenanceMoves ==
    ASSUME GInv, NEW m \in Maintenances,
           \/ MaintenanceReadsRuns(m) \/ MaintenanceReadsStatus(m)
           \/ MaintenanceRegisters(m) \/ MaintenanceClears(m)
    PROVE  GInv'
  <1> USE DEF scheduler
  <1>1. UNCHANGED Guards
    BY DEF MaintenanceReadsRuns, MaintenanceReadsStatus, MaintenanceRegisters,
       MaintenanceClears, Guards
  <1>2. PICK s \in {"checking", "over", "again", "registering", "locking", "cleared"} :
          /\ Goto(m, s)
          /\ (s = "cleared" <=> stage[m] = "working")
          /\ stage[m] \in {"idle", "again", "checking", "registering", "working"}
    BY DEF MaintenanceReadsRuns, MaintenanceReadsStatus, MaintenanceRegisters,
       MaintenanceClears, At
  <1>3. Moves(m, s) /\ m \in Actors
    BY <1>2, GotoFacts, Disjoint DEF GInv, Actors, Stages
  <1>4. Holds(m)' <=> Holds(m)
    BY <1>2, <1>3, Disjoint DEF Holds, Moves
  <1> QED BY <1>1, <1>2, <1>3, <1>4, Disjoint, GuardsStay

LEMMA MaintenanceGuards ==
    ASSUME GInv, NEW m \in Maintenances, Maintenance(m)
    PROVE  GInv'
  <1> USE DEF scheduler, registryVars
  <1>0. m \in Requests /\ m \in Actors /\ m \notin Rebuilds \cup Pollers
    BY Disjoint DEF Actors
  <1>1. CASE \/ MaintenanceReadsRuns(m) \/ MaintenanceReadsStatus(m)
             \/ MaintenanceRegisters(m) \/ MaintenanceClears(m)
    BY <1>1, MaintenanceMoves
  <1>2. CASE MaintenanceLockBusy(m)
    BY <1>2, StillGuards DEF MaintenanceLockBusy
  <1>3. CASE MaintenanceRefused(m) \/ MaintenanceGivesUp(m)
    <2>1. PICK s \in {"over", "leaving"} : Goto(m, s) /\ stage[m] \in {"registering", "locking"}
      BY <1>3 DEF MaintenanceRefused, MaintenanceGivesUp, At
    <2>2. Moves(m, s)
      BY <1>0, <2>1, GotoFacts DEF GInv, Stages
    <2>3. maintenance' = FALSE /\ UNCHANGED <<running, autoLock>>
      BY <1>3 DEF MaintenanceRefused, MaintenanceGivesUp
    <2>4. GuardTypes' /\ LockOwned'
      BY <1>0, <2>1, <2>2, <2>3, Disjoint DEF GInv, GuardTypes, LockOwned, Holds, Moves, Actors
    <2>5. FlagsOwned'
      BY <1>0, <2>2, <2>3, Disjoint DEF GInv, FlagsOwned, Rebuilding, Polling, At, Moves, Actors
    <2> QED BY <2>4, <2>5 DEF GInv
  <1>4. CASE MaintenanceLocks(m)
    <2>1. Moves(m, "working") /\ autoLock = Nobody /\ autoLock' = m /\ maintenance' = TRUE
          /\ UNCHANGED running
      BY <1>0, <1>4, GotoFacts DEF GInv, Stages, MaintenanceLocks
    <2>2. GuardTypes'
      BY <2>1 DEF GInv, GuardTypes, Moves
    <2>3. \A a \in Maintenances \cup Pollers : ~Holds(a)
      BY <2>1, OperationAssumption DEF GInv, LockOwned
    <2>4. LockOwned'
      BY <1>0, <2>1, <2>3, Disjoint DEF LockOwned, Holds, Moves, Actors
    <2>5. m \in Maintaining' /\ Rebuilding \subseteq Rebuilding' /\ Polling \subseteq Polling'
      BY <1>0, <2>1, Disjoint DEF Maintaining, Rebuilding, Polling, At, Moves, Actors
    <2>6. FlagsOwned'
      BY <2>1, <2>5 DEF GInv, FlagsOwned
    <2> QED BY <2>2, <2>4, <2>6 DEF GInv
  <1>5. CASE MaintenanceResets(m)
    <2>1. Moves(m, "reset") /\ stage[m] = "cleared" /\ UNCHANGED <<autoLock, maintenance>>
          /\ running' = [running EXCEPT !["api"] = FALSE]
      BY <1>0, <1>5, GotoFacts DEF GInv, Stages, MaintenanceResets, At, SetRunning
    <2>2. GuardTypes' /\ LockOwned'
      BY <1>0, <2>1, Disjoint DEF GInv, GuardTypes, LockOwned, Holds, Moves, Actors
    <2>3. Maintaining \subseteq Maintaining' /\ Rebuilding \subseteq Rebuilding'
          /\ Polling \subseteq Polling'
      BY <1>0, <2>1, Disjoint DEF Maintaining, Rebuilding, Polling, At, Moves, Actors
    <2>4. \A p \in ProcessNames : running'[p] => running[p]
      BY <2>1 DEF GInv, GuardTypes
    <2>5. FlagsOwned'
      BY <2>1, <2>3, <2>4 DEF GInv, FlagsOwned
    <2> QED BY <2>2, <2>5 DEF GInv
  <1>6. CASE MaintenanceEnds(m)
    <2>1. Moves(m, "unlocking") /\ stage[m] \in {"working", "cleared", "reset"}
          /\ maintenance' = FALSE /\ UNCHANGED <<autoLock, running>>
      BY <1>0, <1>6, GotoFacts DEF GInv, Stages, MaintenanceEnds
    <2>2. GuardTypes' /\ LockOwned'
      BY <1>0, <2>1, Disjoint DEF GInv, GuardTypes, LockOwned, Holds, Moves, Actors
    <2>3. FlagsOwned'
      BY <1>0, <2>1, Disjoint DEF GInv, FlagsOwned, Rebuilding, Polling, At, Moves, Actors
    <2> QED BY <2>2, <2>3 DEF GInv
  <1>7. CASE MaintenanceUnlocks(m)
    <2>1. Moves(m, "leaving") /\ stage[m] = "unlocking"
          /\ autoLock' = Nobody /\ UNCHANGED <<maintenance, running>>
      BY <1>0, <1>7, GotoFacts DEF GInv, Stages, MaintenanceUnlocks, At
    <2>2. autoLock = m
      BY <2>1 DEF GInv, LockOwned, Holds
    <2>3. GuardTypes' /\ LockOwned'
      BY <1>0, <2>1, <2>2, Disjoint, OperationAssumption
         DEF GInv, GuardTypes, LockOwned, Holds, Moves, Actors
    <2>4. FlagsOwned'
      BY <1>0, <2>1, Disjoint
         DEF GInv, FlagsOwned, Maintaining, Rebuilding, Polling, At, Moves, Actors
    <2> QED BY <2>3, <2>4 DEF GInv
  <1> QED BY <1>1, <1>2, <1>3, <1>4, <1>5, <1>6, <1>7 DEF Maintenance

LEMMA RebuildGuards ==
    ASSUME GInv, NEW b \in Rebuilds, Rebuild(b)
    PROVE  GInv'
  <1> USE DEF scheduler
  <1>0. b \in Actors /\ b \notin Maintenances \cup Pollers
    BY Disjoint DEF Actors
  <1>1. CASE RebuildStarts(b) \/ RebuildFails(b)
    <2>1. PICK s \in {"over", "loading"} : Goto(b, s) /\ stage[b] \in {"idle", "loading"}
      BY <1>1 DEF RebuildStarts, RebuildFails, At
    <2>2. UNCHANGED Guards
      BY <1>1 DEF RebuildStarts, RebuildFails, Guards
    <2> QED BY <1>0, <2>1, <2>2, GotoFacts, GuardsStay DEF GInv, Stages
  <1>2. CASE RebuildRuns(b) \/ RebuildEnds(b)
    <2>1. PICK s \in {"working", "over"}, flag \in BOOLEAN :
            /\ Goto(b, s) /\ running' = [running EXCEPT !["api"] = flag]
            /\ flag => s = "working"
            /\ ~flag => stage[b] = "working"
      BY <1>2 DEF RebuildRuns, RebuildEnds, SetRunning, At
    <2>2. Moves(b, s)
      BY <1>0, <2>1, GotoFacts DEF GInv, Stages
    <2>3. UNCHANGED <<maintenance, autoLock>>
      BY <1>2 DEF RebuildRuns, RebuildEnds
    <2>4. GuardTypes' /\ LockOwned'
      BY <1>0, <2>1, <2>2, <2>3, Disjoint
         DEF GInv, GuardTypes, LockOwned, Holds, Moves, Actors
    <2>5. Maintaining \subseteq Maintaining' /\ Polling \subseteq Polling'
          /\ (flag => b \in Rebuilding')
      BY <1>0, <2>1, <2>2, Disjoint DEF Maintaining, Rebuilding, Polling, At, Moves, Actors
    <2>6. /\ running'["api"] = flag
          /\ \A p \in ProcessNames \ {"api"} : running'[p] = running[p]
      BY <2>1 DEF GInv, GuardTypes, ProcessNames
    <2>7. FlagsOwned'
      BY <2>3, <2>5, <2>6 DEF GInv, FlagsOwned
    <2> QED BY <2>4, <2>7 DEF GInv
  <1> QED BY <1>1, <1>2 DEF Rebuild

LEMMA PollGuards ==
    ASSUME GInv, NEW l \in Pollers, Poll(l)
    PROVE  GInv'
  <1> USE DEF scheduler
  <1>0. l \in Actors /\ l \notin Requests \cup Rebuilds /\ l \notin Maintenances
    BY Disjoint DEF Actors
  <1>1. CASE PollChecks(l)
    <2>1. UNCHANGED stage \/ Goto(l, "locking")
      BY <1>1 DEF PollChecks
    <2>2. stage[l] = "idle" /\ UNCHANGED Guards
      BY <1>1 DEF PollChecks, At, Guards
    <2>3. CASE Goto(l, "locking")
      <3>1. Moves(l, "locking")
        BY <1>0, <2>3, GotoFacts DEF GInv, Stages
      <3> QED BY <1>0, <2>2, <3>1, GuardsStay DEF Holds, Moves
    <2> QED BY <2>1, <2>2, <2>3, StillGuards DEF Guards
  <1>2. CASE PollLocks(l)
    <2>1. Moves(l, "loading") /\ stage[l] = "locking" /\ autoLock = Nobody /\ autoLock' = l
          /\ UNCHANGED <<maintenance, running>>
      BY <1>0, <1>2, GotoFacts DEF GInv, Stages, PollLocks, At
    <2>2. \A a \in Maintenances \cup Pollers : ~Holds(a)
      BY <2>1, OperationAssumption DEF GInv, LockOwned
    <2>3. GuardTypes' /\ LockOwned'
      BY <1>0, <2>1, <2>2, Disjoint DEF GInv, GuardTypes, LockOwned, Holds, Moves, Actors
    <2>4. FlagsOwned'
      BY <1>0, <2>1, Disjoint
         DEF GInv, FlagsOwned, Maintaining, Rebuilding, Polling, At, Moves, Actors
    <2> QED BY <2>3, <2>4 DEF GInv
  <1>3. CASE PollLockBusy(l) \/ PollSkips(l) \/ PollLoads(l) \/ PollPauses(l)
    <2>1. PICK s \in {"idle", "unlocking", "checking"} :
            /\ Goto(l, s)
            /\ \/ s = "idle" /\ stage[l] = "locking"
               \/ s # "idle" /\ stage[l] \in {"loading", "checking"}
      BY <1>3 DEF PollLockBusy, PollSkips, PollLoads, PollPauses, At
    <2>2. UNCHANGED Guards
      BY <1>3 DEF PollLockBusy, PollSkips, PollLoads, PollPauses, Guards
    <2>3. Moves(l, s)
      BY <1>0, <2>1, GotoFacts DEF GInv, Stages
    <2>4. Holds(l)' <=> Holds(l)
      BY <1>0, <2>1, <2>3 DEF Holds, Moves
    <2> QED BY <1>0, <2>1, <2>2, <2>3, <2>4, GuardsStay
  <1>4. CASE PollRuns(l) \/ PollEnds(l)
    <2>1. PICK s \in {"working", "unlocking"}, flag \in BOOLEAN :
            /\ Goto(l, s) /\ running' = [running EXCEPT ![HostOf[l]] = flag]
            /\ flag => s = "working"
            /\ stage[l] \in {"checking", "working"}
      BY <1>4 DEF PollRuns, PollEnds, SetRunning, At
    <2>2. Moves(l, s)
      BY <1>0, <2>1, GotoFacts DEF GInv, Stages
    <2>3. UNCHANGED <<maintenance, autoLock>>
      BY <1>4 DEF PollRuns, PollEnds
    <2>4. GuardTypes' /\ LockOwned'
      BY <1>0, <2>1, <2>2, <2>3, Disjoint
         DEF GInv, GuardTypes, LockOwned, Holds, Moves, Actors
    <2>5. HostOf[l] \in ProcessNames
      BY OperationAssumption
    <2>6. /\ running'[HostOf[l]] = flag
          /\ \A p \in ProcessNames \ {HostOf[l]} : running'[p] = running[p]
      BY <2>1, <2>5 DEF GInv, GuardTypes
    <2>7. /\ Maintaining \subseteq Maintaining' /\ Rebuilding \subseteq Rebuilding'
          /\ Polling \ {l} \subseteq Polling' /\ (flag => l \in Polling')
      BY <1>0, <2>1, <2>2, Disjoint DEF Maintaining, Rebuilding, Polling, At, Moves, Actors
    <2>8. FlagsOwned'
      BY <2>3, <2>6, <2>7 DEF GInv, FlagsOwned
    <2> QED BY <2>4, <2>8 DEF GInv
  <1>5. CASE PollUnlocks(l)
    <2>1. Moves(l, "idle") /\ stage[l] = "unlocking" /\ autoLock' = Nobody
          /\ UNCHANGED <<maintenance, running>>
      BY <1>0, <1>5, GotoFacts DEF GInv, Stages, PollUnlocks, At
    <2>2. autoLock = l
      BY <2>1 DEF GInv, LockOwned, Holds
    <2>3. GuardTypes' /\ LockOwned'
      BY <1>0, <2>1, <2>2, Disjoint, OperationAssumption
         DEF GInv, GuardTypes, LockOwned, Holds, Moves, Actors
    <2>4. FlagsOwned'
      BY <1>0, <2>1, Disjoint
         DEF GInv, FlagsOwned, Maintaining, Rebuilding, Polling, At, Moves, Actors
    <2> QED BY <2>3, <2>4 DEF GInv
  <1> QED BY <1>1, <1>2, <1>3, <1>4, <1>5 DEF Poll

LEMMA CrashGuards ==
    ASSUME GInv, NEW p \in ProcessNames, Crash(p)
    PROVE  GInv'
  <1> DEFINE requests == IF p = "api" THEN Requests \cup Rebuilds ELSE {}
             loops == {l \in Pollers : HostOf[l] = p}
  <1>1. /\ running' = [running EXCEPT ![p] = FALSE]
        /\ stage' = [a \in DOMAIN stage |->
                        IF a \in loops THEN "idle"
                        ELSE IF a \in requests /\ ~At(a, "idle") THEN "over"
                        ELSE stage[a]]
        /\ autoLock' = IF autoLock \in requests \cup loops THEN Nobody ELSE autoLock
        /\ maintenance' = (maintenance /\ p # "api")
    BY DEF Crash
  <1>2. \A a \in Actors : stage'[a] = IF a \in loops THEN "idle"
                                      ELSE IF a \in requests /\ stage[a] # "idle" THEN "over"
                                      ELSE stage[a]
    BY <1>1 DEF GInv, GuardTypes, At
  <1>3. stage' \in [Actors -> Stages]
    BY <1>1 DEF GInv, GuardTypes, Stages
  <1>4. GuardTypes'
    BY <1>1, <1>3 DEF GInv, GuardTypes
  <1>5. \A a \in Maintenances \cup Pollers :
            Holds(a)' <=> Holds(a) /\ a \notin requests \cup loops
    BY <1>2, Disjoint DEF Holds, Actors
  <1>6. LockOwned'
    BY <1>1, <1>5, OperationAssumption DEF GInv, LockOwned
  <1>7. p # "api" => Maintaining \subseteq Maintaining' /\ Rebuilding \subseteq Rebuilding'
    BY <1>2, Disjoint DEF Maintaining, Rebuilding, At, Actors
  <1>8. {l \in Polling : HostOf[l] # p} \subseteq Polling'
    BY <1>2, Disjoint DEF Polling, At, Actors
  <1>9. \A x \in ProcessNames : running'[x] => x # p /\ running[x]
    BY <1>1 DEF GInv, GuardTypes
  <1>10. FlagsOwned'
    BY <1>1, <1>7, <1>8, <1>9 DEF GInv, FlagsOwned, ProcessNames
  <1> QED BY <1>4, <1>6, <1>10 DEF GInv

LEMMA NextGuards ==
    ASSUME GInv, [OperationNext]_vars PROVE GInv'
  <1> USE DEF scheduler, registryVars
  <1>1. ASSUME NEW q \in Requests,
               SyncAll(q) \/ SyncAllReports(q) \/ Maintenance(q) \/ Leaves(q)
        PROVE  GInv'
    <2>1. Maintenance(q) => q \in Maintenances
      BY OperationAssumption
         DEF Maintenance, MaintenanceReadsRuns, MaintenanceReadsStatus, MaintenanceRegisters,
             MaintenanceRefused, MaintenanceLocks, MaintenanceLockBusy, MaintenanceGivesUp,
             MaintenanceClears, MaintenanceResets, MaintenanceEnds, MaintenanceUnlocks
    <2> QED BY <1>1, <2>1, SyncAllGuards, MaintenanceGuards, UnlistsGuards, OperationAssumption
            DEF Leaves
  <1>2. ASSUME NEW value \in BOOLEAN, WriteLands(value) \/ WriteFails(value)
        PROVE  GInv'
    BY <1>2, StillGuards DEF WriteLands, WriteFails
  <1>3. ASSUME NEW p \in ProcessNames, Restart(p) PROVE GInv'
    BY <1>3, StillGuards DEF Restart
  <1>4. CASE Tick \/ UNCHANGED vars
    BY <1>4, StillGuards DEF Tick, vars
  <1> QED BY <1>1, <1>2, <1>3, <1>4, RebuildGuards, PollGuards, CrashGuards DEF OperationNext

-----------------------------------------------------------------------------
(* The other types. *)

LEMMA PersistFacts ==
    ASSUME writes \in [BOOLEAN -> 0 .. MaxWrites], NEW p, NEW value \in BOOLEAN,
           Persist(p, value)
    PROVE  writes' \in [BOOLEAN -> 0 .. MaxWrites]
  <1>1. writes[value] \in 0 .. MaxWrites
    OBVIOUS
  <1>2. (IF writes[value] < MaxWrites THEN writes[value] + 1 ELSE writes[value])
            \in 0 .. MaxWrites
    BY <1>1, OperationAssumption
  <1> QED BY <1>2 DEF Persist

LEMMA NextTypes ==
    ASSUME GInv, OtherTypes, [OperationNext]_vars PROVE OtherTypes'
  <1> USE DEF scheduler, registryVars
  <1>0. /\ \A p \in ProcessNames : running[p] \in BOOLEAN
        /\ \A l \in Pollers : HostOf[l] \in ProcessNames
    BY OperationAssumption DEF GInv, GuardTypes
  <1>1. ASSUME NEW q \in Requests,
               SyncAll(q) \/ SyncAllReports(q) \/ Maintenance(q) \/ Leaves(q)
        PROVE  OtherTypes'
    <2>1. CASE SyncAll(q) \/ SyncAllReports(q) \/ Leaves(q)
      BY <2>1 DEF OtherTypes, SyncAll, SyncAllRegisters, SyncAllRefused, SyncAllChecks,
         SyncAllEnds, SyncAllReports, Leaves, StopsWork, Unlists
    <2>2. CASE \/ MaintenanceReadsRuns(q) \/ MaintenanceRegisters(q) \/ MaintenanceRefused(q)
               \/ MaintenanceLocks(q) \/ MaintenanceGivesUp(q) \/ MaintenanceClears(q)
               \/ MaintenanceEnds(q) \/ MaintenanceUnlocks(q)
      BY <2>2 DEF OtherTypes, MaintenanceReadsRuns, MaintenanceRegisters, MaintenanceRefused,
         MaintenanceLocks, MaintenanceGivesUp, MaintenanceClears, MaintenanceEnds,
         MaintenanceUnlocks
    <2>3. CASE MaintenanceReadsStatus(q) \/ MaintenanceLockBusy(q)
      <3>1. PICK n \in 0 .. MaxTries : attempts' = [attempts EXCEPT ![q] = n]
        <4>1. q \in Maintenances /\ attempts[q] \in 0 .. MaxTries
          BY <2>3 DEF OtherTypes, MaintenanceReadsStatus, MaintenanceLockBusy
        <4>2. CASE MaintenanceReadsStatus(q)
          <5>1. PICK busy : attempts' = [attempts EXCEPT
                    ![q] = IF busy /\ attempts[q] < MaxTries THEN attempts[q] + 1 ELSE 0]
            BY <4>2 DEF MaintenanceReadsStatus
          <5>2. (IF busy /\ attempts[q] < MaxTries THEN attempts[q] + 1 ELSE 0) \in 0 .. MaxTries
            BY <4>1, OperationAssumption
          <5> QED BY <5>1, <5>2
        <4>3. CASE MaintenanceLockBusy(q)
          <5>1. attempts' = [attempts EXCEPT ![q] = attempts[q] + 1]
                /\ attempts[q] < MaxTries
            BY <4>3 DEF MaintenanceLockBusy
          <5>2. attempts[q] + 1 \in 0 .. MaxTries
            BY <4>1, <5>1, OperationAssumption
          <5> QED BY <5>1, <5>2
        <4> QED BY <2>3, <4>2, <4>3
      <3>2. UNCHANGED <<up, status, writes>>
        BY <2>3 DEF MaintenanceReadsStatus, MaintenanceLockBusy
      <3> QED BY <3>1, <3>2 DEF OtherTypes
    <2>4. CASE MaintenanceResets(q)
      <3>1. Persist("api", FALSE) /\ UNCHANGED <<attempts, up, status>>
        BY <2>4 DEF MaintenanceResets, SetRunning
      <3> QED BY <3>1, PersistFacts DEF OtherTypes
    <2> QED BY <1>1, <2>1, <2>2, <2>3, <2>4 DEF Maintenance
  <1>2. ASSUME NEW b \in Rebuilds, Rebuild(b) PROVE OtherTypes'
    <2>1. CASE RebuildStarts(b) \/ RebuildFails(b)
      BY <2>1 DEF OtherTypes, RebuildStarts, RebuildFails
    <2>2. CASE RebuildRuns(b) \/ RebuildEnds(b)
      <3>1. PICK value \in BOOLEAN : Persist("api", value) /\ UNCHANGED <<attempts, up, status>>
        BY <2>2 DEF RebuildRuns, RebuildEnds, SetRunning
      <3> QED BY <3>1, PersistFacts DEF OtherTypes
    <2> QED BY <1>2, <2>1, <2>2 DEF Rebuild
  <1>3. ASSUME NEW l \in Pollers, Poll(l) PROVE OtherTypes'
    <2>1. UNCHANGED <<attempts, up, status>>
      BY <1>3 DEF Poll, PollChecks, PollLocks, PollLockBusy, PollSkips, PollLoads, PollRuns,
         PollPauses, PollEnds, PollUnlocks, SetRunning
    <2>2. UNCHANGED writes \/ \E value \in BOOLEAN : Persist(HostOf[l], value)
      BY <1>0, <1>3 DEF Poll, PollChecks, PollLocks, PollLockBusy, PollSkips, PollLoads,
         PollRuns, PollPauses, PollEnds, PollUnlocks, SetRunning
    <2> QED BY <2>1, <2>2, PersistFacts DEF OtherTypes
  <1>4. ASSUME NEW value \in BOOLEAN, WriteLands(value) \/ WriteFails(value)
        PROVE  OtherTypes'
    <2>1. writes[value] \in 0 .. MaxWrites /\ writes[value] > 0
          /\ writes' = [writes EXCEPT ![value] = writes[value] - 1]
      BY <1>4 DEF OtherTypes, WriteLands, WriteFails
    <2>2. writes[value] - 1 \in 0 .. MaxWrites
      BY <2>1, OperationAssumption
    <2>3. writes' \in [BOOLEAN -> 0 .. MaxWrites]
      BY <2>1, <2>2 DEF OtherTypes
    <2> QED BY <1>4, <2>3 DEF OtherTypes, WriteLands, WriteFails
  <1>5. ASSUME NEW p \in ProcessNames, Crash(p) \/ Restart(p) PROVE OtherTypes'
    <2>1. UNCHANGED <<attempts, status>> /\ up' \in [ProcessNames -> BOOLEAN]
      BY <1>5 DEF OtherTypes, Crash, Restart
    <2>2. UNCHANGED writes \/ Persist(p, FALSE)
      BY <1>5 DEF Crash, Restart
    <2> QED BY <2>1, <2>2, PersistFacts DEF OtherTypes
  <1>6. CASE Tick \/ UNCHANGED vars
    BY <1>6 DEF OtherTypes, Tick, vars
  <1> QED BY <1>1, <1>2, <1>3, <1>4, <1>5, <1>6 DEF OperationNext

-----------------------------------------------------------------------------
(* The invariant, and what follows from it. *)

LEMMA InitOperations == OperationInit => OInv
  <1> SUFFICES ASSUME OperationInit PROVE OInv
    OBVIOUS
  <1>1. RInv
    BY EmptyExclusive DEF OperationInit, Init, RInv
  <1>2. GInv
    BY OperationAssumption DEF OperationInit, GInv, GuardTypes, LockOwned, Holds, FlagsOwned,
       Actors, Stages
  <1>3. OtherTypes
    BY OperationAssumption DEF OperationInit, OtherTypes
  <1> QED BY <1>1, <1>2, <1>3 DEF OInv

LEMMA OperationsStep == OInv /\ [OperationNext]_vars => OInv'
  BY NextRegistry, RegistryFacts, NextGuards, NextTypes DEF OInv, RInv

THEOREM OperationsInvariant == OperationSpec => []OInv
  BY InitOperations, OperationsStep, PTL DEF OperationSpec

\* The registry, the scheduler state and the guards keep their shapes.
THEOREM OperationTypes == OperationSpec => []OperationTypeOK
  <1>1. OInv => OperationTypeOK
    BY DEF OInv, RInv, GInv, GuardTypes, OtherTypes, OperationTypeOK, Actors, Stages
  <1> QED BY <1>1, OperationsInvariant, PTL

\* One poll at a time in the whole installation, and none beside a Data
\* Management operation, whatever crashes, gives up or is restarted.
THEOREM OperationsLocked == OperationSpec => []OneLockedOperation
  <1>1. OInv => OneLockedOperation
    BY DEF OInv, GInv, LockOwned, Holds, OneLockedOperation, Maintaining, Polling, At
  <1> QED BY <1>1, OperationsInvariant, PTL

\* No failure leaves the maintenance flag, a poll flag or the advisory lock
\* behind without an operation that will clear it.
THEOREM OperationsGuarded == OperationSpec => []GuardsHaveOwners
  <1>1. OInv => GuardsHaveOwners
    <2> SUFFICES ASSUME OInv PROVE GuardsHaveOwners
      OBVIOUS
    <2>1. autoLock # Nobody => Holds(autoLock)
      BY DEF OInv, GInv, GuardTypes, LockOwned
    <2> QED BY <2>1 DEF OInv, GInv, FlagsOwned, GuardsHaveOwners, Holds
  <1> QED BY <1>1, OperationsInvariant, PTL

-----------------------------------------------------------------------------
(* Prompt operations are kept apart by the registry. *)

\* Its entry is in the registry, and not stale.
Listed(q) == \E n \in registry : n.req = q /\ ~IsStale(n)

\* Registered, and neither leaving nor after a factory reset of its own.
Engaged(q) ==
    \/ q \in SyncAlls /\ stage[q] \in {"checking", "working"}
    \/ q \in Maintenances /\ stage[q] \in {"locking", "working"}

PromptListed == \A q \in Prompt : Engaged(q) => q \in live /\ Listed(q)

LEMMA MaintenanceConflicts ==
    ASSUME NEW m \in Maintenances, NEW q
    PROVE  Conflict(m, q) /\ Conflict(q, m)
  <1>1. ScopeOf(m).type = "global"
    BY OperationAssumption
       DEF ScopeOf, CoordinatorScope, DeriveScope, EffectiveProducts
  <1> QED BY <1>1 DEF Conflict, Overlap

\* An entry that a step of the registry may not drop: the run is live and
\* prompt, and no factory reset empties the registry.
LEMMA ListedStays ==
    ASSUME OInv, NEW q \in Prompt, Listed(q), q \in live,
           \A a, b \in Requests : RunIdOf[a] = RunIdOf[b] => a = b,
           \/ UNCHANGED registry \/ Prune
           \/ Time /\ InTime'
           \/ \E r \in Requests : Enroll(r) \/ Remove(r)
           \/ \E r \in Requests : Beat(r) /\ InTime',
           q \in live'
    PROVE  Listed(q)'
  <1>0. q \in Requests
    BY OperationAssumption
  <1>1. PICK n \in registry : n.req = q /\ ~IsStale(n)
    BY DEF Listed
  <1>2. \A kept \in Kept(registry) : n \in kept
    BY <1>1 DEF Kept, Fresh
  <1>3. CASE UNCHANGED registry
    BY <1>1, <1>3 DEF Listed
  <1>4. CASE Prune
    BY <1>1, <1>2, <1>4 DEF Listed, Prune
  <1>5. CASE Time /\ InTime'
    <2>1. [n EXCEPT !.age = Older(n.age)] \in registry'
      BY <1>1, <1>5 DEF Time, Aged
    <2>2. [n EXCEPT !.age = Older(n.age)].req = q
      BY <1>1 DEF OInv, RInv, Entries
    <2>3. UNCHANGED live
      BY <1>5 DEF Time
    <2> QED BY <1>5, <2>1, <2>2, <2>3 DEF Listed, InTime
  <1>6. ASSUME NEW r \in Requests, Enroll(r) PROVE Listed(q)'
    BY <1>1, <1>2, <1>6 DEF Enroll, Listed
  <1>7. ASSUME NEW r \in Requests, Remove(r) PROVE Listed(q)'
    <2>1. r # q
      BY <1>7 DEF Remove
    <2>2. RunIdOf[n.req] # RunIdOf[r]
      BY <1>0, <1>1, <2>1
    <2> QED BY <1>1, <1>2, <1>7, <2>2 DEF Remove, WithoutRun, Listed
  <1>8. ASSUME NEW r \in Requests, Beat(r), InTime' PROVE Listed(q)'
    <2>1. PICK kept \in Kept(registry), age \in Ages : registry' = Refreshed(kept, r, age)
      BY <1>8 DEF Beat
    <2> DEFINE new == IF RunIdOf[n.req] = RunIdOf[r] THEN [n EXCEPT !.age = age] ELSE n
    <2>2. new \in registry'
      BY <1>2, <2>1 DEF Refreshed
    <2>3. new.req = q
      BY <1>1 DEF OInv, RInv, Entries
    <2>4. UNCHANGED live
      BY <1>8 DEF Beat
    <2> HIDE DEF new
    <2> QED BY <1>8, <2>2, <2>3, <2>4 DEF Listed, InTime
  <1> QED BY <1>3, <1>4, <1>5, <1>6, <1>7, <1>8

\* The entry of a registration that came in time.
LEMMA AdmittedListed ==
    ASSUME NEW q \in Prompt, Admit(q), InTime'
    PROVE  q \in live' /\ Listed(q)'
  <1>1. q \in live'
    BY DEF Admit
  <1>2. PICK age \in Ages : [req |-> q, age |-> age] \in registry'
    BY DEF Admit, Enroll
  <1> DEFINE own == [req |-> q, age |-> age]
  <1>3. own.req = q
    OBVIOUS
  <1> HIDE DEF own
  <1>4. own \in registry'
    BY <1>2 DEF own
  <1> QED BY <1>1, <1>3, <1>4 DEF InTime, Listed

LEMMA PromptStep ==
    ASSUME OInv, PromptListed, [OperationNext]_vars, FactoryResets \subseteq Prompt,
           \A a, b \in Requests : RunIdOf[a] = RunIdOf[b] => a = b
    PROVE  PromptListed'
  <1> SUFFICES ASSUME NEW q \in Prompt, Engaged(q)' PROVE q \in live' /\ Listed(q)'
    BY DEF PromptListed
  <1> USE DEF scheduler, registryVars
  <1>0. q \in Requests /\ q \in Actors /\ (q \in SyncAlls <=> q \notin Maintenances)
    BY OperationAssumption DEF Actors, SyncAlls
  \* A request that stays engaged keeps its entry, if the registry does.
  <1>1. ASSUME Engaged(q), live \subseteq live',
               \/ UNCHANGED registry \/ Prune
               \/ Time /\ InTime'
               \/ \E r \in Requests : Enroll(r) \/ Remove(r)
               \/ \E r \in Requests : Beat(r) /\ InTime'
        PROVE  q \in live' /\ Listed(q)'
    <2>1. q \in live /\ Listed(q)
      BY <1>1 DEF PromptListed
    <2> QED BY <1>1, <2>1, ListedStays
  <1>2. ASSUME NEW r \in Requests, SyncAll(r) \/ SyncAllReports(r)
        PROVE  q \in live' /\ Listed(q)'
    <2>0. r \in SyncAlls /\ r \in Actors
      BY <1>2 DEF SyncAll, SyncAllRegisters, SyncAllRefused, SyncAllChecks, SyncAllEnds,
         SyncAllReports, Actors
    <2>1. CASE SyncAllRegisters(r)
      <3>1. Moves(r, "checking")
        BY <2>0, <2>1, GotoFacts DEF OInv, GInv, SyncAllRegisters, Stages
      <3>2. CASE r = q
        BY <2>1, <3>2, AdmittedListed DEF SyncAllRegisters
      <3>3. CASE r # q
        <4>1. Engaged(q)
          BY <1>0, <3>1, <3>3 DEF Engaged, Moves
        <4> QED BY <1>1, <2>1, <4>1 DEF SyncAllRegisters, Admit
      <3> QED BY <3>2, <3>3
    <2>2. CASE SyncAllRefused(r)
      <3>1. Moves(r, "over")
        BY <2>0, <2>2, GotoFacts DEF OInv, GInv, SyncAllRefused, Stages
      <3>2. Engaged(q)
        BY <1>0, <3>1 DEF Engaged, Moves
      <3> QED BY <1>1, <2>2, <3>2 DEF SyncAllRefused, AdmitLost
    <2>3. CASE SyncAllChecks(r) \/ SyncAllEnds(r)
      <3>1. PICK s \in {"leaving", "working"} :
              Moves(r, s) /\ stage[r] \in {"checking", "working"}
        BY <2>0, <2>3, GotoFacts DEF OInv, GInv, SyncAllChecks, SyncAllEnds, Stages, At
      <3>2. Engaged(q)
        BY <1>0, <2>0, <3>1 DEF Engaged, Moves
      <3> QED BY <1>1, <2>3, <3>2 DEF SyncAllChecks, SyncAllEnds
    <2>4. CASE SyncAllReports(r)
      BY <1>1, <2>4 DEF SyncAllReports, Engaged, Beat
    <2> QED BY <1>2, <2>1, <2>2, <2>3, <2>4 DEF SyncAll
  <1>3. ASSUME NEW r \in Requests, Leaves(r)
        PROVE  q \in live' /\ Listed(q)'
    <2>1. CASE StopsWork(r)
      <3>1. Engaged(q) /\ r # q
        BY <1>0, <2>1 DEF Engaged, StopsWork, At
      <3>2. q \in live /\ Listed(q)
        BY <3>1 DEF PromptListed
      <3> QED BY <2>1, <3>1, <3>2, ListedStays DEF StopsWork
    <2>2. CASE Unlists(r)
      <3>1. Moves(r, "over")
        BY <2>2, GotoFacts DEF OInv, GInv, Unlists, Stages, Actors
      <3>2. Engaged(q)
        BY <1>0, <3>1 DEF Engaged, Moves
      <3> QED BY <1>1, <2>2, <3>2 DEF Unlists, Remove
    <2> QED BY <1>3, <2>1, <2>2 DEF Leaves
  <1>4. ASSUME NEW m \in Requests, Maintenance(m)
        PROVE  q \in live' /\ Listed(q)'
    <2>0. m \in Maintenances /\ m \in Actors
      BY <1>4, OperationAssumption
         DEF Maintenance, MaintenanceReadsRuns, MaintenanceReadsStatus, MaintenanceRegisters,
             MaintenanceRefused, MaintenanceLocks, MaintenanceLockBusy, MaintenanceGivesUp,
             MaintenanceClears, MaintenanceResets, MaintenanceEnds, MaintenanceUnlocks, Actors
    <2>1. CASE MaintenanceRegisters(m)
      <3>1. Moves(m, "locking")
        BY <2>0, <2>1, GotoFacts DEF OInv, GInv, MaintenanceRegisters, Stages
      <3>2. CASE m = q
        BY <2>1, <3>2, AdmittedListed DEF MaintenanceRegisters
      <3>3. CASE m # q
        <4>1. Engaged(q)
          BY <1>0, <3>1, <3>3 DEF Engaged, Moves
        <4> QED BY <1>1, <2>1, <4>1 DEF MaintenanceRegisters, Admit
      <3> QED BY <3>2, <3>3
    <2>2. CASE MaintenanceRefused(m)
      <3>1. Moves(m, "over")
        BY <2>0, <2>2, GotoFacts DEF OInv, GInv, MaintenanceRefused, Stages
      <3>2. Engaged(q)
        BY <1>0, <3>1 DEF Engaged, Moves
      <3> QED BY <1>1, <2>2, <3>2 DEF MaintenanceRefused, AdmitLost
    <2>3. CASE \/ MaintenanceReadsRuns(m) \/ MaintenanceReadsStatus(m) \/ MaintenanceGivesUp(m)
               \/ MaintenanceResets(m) \/ MaintenanceEnds(m) \/ MaintenanceUnlocks(m)
      <3>1. PICK s \in Stages \ {"locking", "working"} : Goto(m, s)
        BY <2>3 DEF MaintenanceReadsRuns, MaintenanceReadsStatus, MaintenanceGivesUp,
           MaintenanceResets, MaintenanceEnds, MaintenanceUnlocks, Stages
      <3>2. Moves(m, s)
        BY <2>0, <3>1, GotoFacts DEF OInv, GInv
      <3>3. Engaged(q)
        BY <1>0, <2>0, <3>2 DEF Engaged, Moves
      <3> QED BY <1>1, <2>3, <3>3 DEF MaintenanceReadsRuns, MaintenanceReadsStatus,
                 MaintenanceGivesUp, MaintenanceResets, MaintenanceEnds, MaintenanceUnlocks
    <2>4. CASE MaintenanceLocks(m)
      <3>1. Moves(m, "working") /\ stage[m] = "locking"
        BY <2>0, <2>4, GotoFacts DEF OInv, GInv, MaintenanceLocks, Stages, At
      <3>2. Engaged(q)
        BY <1>0, <2>0, <3>1 DEF Engaged, Moves
      <3> QED BY <1>1, <2>4, <3>2 DEF MaintenanceLocks
    <2>5. CASE MaintenanceLockBusy(m)
      BY <1>1, <2>5 DEF MaintenanceLockBusy, Engaged
    <2>6. CASE MaintenanceClears(m)
      <3>1. m \in Prompt /\ stage[m] = "working" /\ Moves(m, "cleared")
        BY <2>0, <2>6, GotoFacts DEF OInv, GInv, MaintenanceClears, Stages, At
      <3>2. Engaged(q) /\ q # m
        BY <1>0, <2>0, <3>1 DEF Engaged, Moves, SyncAlls
      <3>3. Engaged(m)
        BY <2>0, <3>1 DEF Engaged
      <3>4. Listed(q) /\ Listed(m)
        BY <3>1, <3>2, <3>3 DEF PromptListed
      <3>5. PICK n \in registry, k \in registry : n.req = q /\ k.req = m
        BY <3>4 DEF Listed
      <3>6. Exclusive(registry)
        BY DEF OInv, RInv
      <3>7. ~Conflict(n.req, k.req)
        BY <3>2, <3>5, <3>6 DEF Exclusive
      <3> QED BY <2>0, <3>5, <3>7, MaintenanceConflicts
    <2> QED BY <1>4, <2>1, <2>2, <2>3, <2>4, <2>5, <2>6 DEF Maintenance
  <1>5. ASSUME NEW b \in Rebuilds, Rebuild(b) PROVE q \in live' /\ Listed(q)'
    <2>1. UNCHANGED registryVars /\ \E s \in Stages : Goto(b, s)
      BY <1>5 DEF Rebuild, RebuildStarts, RebuildRuns, RebuildFails, RebuildEnds, Stages
    <2>2. b # q /\ b \in Actors
      BY <1>0, Disjoint DEF Actors
    <2>3. stage'[q] = stage[q]
      BY <1>0, <2>1, <2>2, GotoFacts DEF OInv, GInv, Moves
    <2>4. Engaged(q)
      BY <2>3 DEF Engaged
    <2> QED BY <1>1, <2>1, <2>4
  <1>6. ASSUME NEW l \in Pollers, Poll(l) PROVE q \in live' /\ Listed(q)'
    <2>1. UNCHANGED registryVars /\ (UNCHANGED stage \/ \E s \in Stages : Goto(l, s))
      BY <1>6 DEF Poll, PollChecks, PollLocks, PollLockBusy, PollSkips, PollLoads, PollRuns,
         PollPauses, PollEnds, PollUnlocks, Stages
    <2>2. l # q /\ l \in Actors
      BY <1>0, Disjoint DEF Actors
    <2>3. stage'[q] = stage[q]
      BY <1>0, <2>1, <2>2, GotoFacts DEF OInv, GInv, Moves
    <2>4. Engaged(q)
      BY <2>3 DEF Engaged
    <2> QED BY <1>1, <2>1, <2>4
  <1>7. ASSUME NEW value \in BOOLEAN, WriteLands(value) \/ WriteFails(value)
        PROVE  q \in live' /\ Listed(q)'
    BY <1>1, <1>7 DEF WriteLands, WriteFails, Engaged
  <1>8. ASSUME NEW p \in ProcessNames, Crash(p) PROVE q \in live' /\ Listed(q)'
    <2>1. p # "api"
      BY <1>0, <1>8, Disjoint DEF Crash, Engaged, OInv, GInv, GuardTypes, At, Actors
    <2>2. stage'[q] = stage[q] /\ UNCHANGED <<registry, live>>
      BY <1>0, <1>8, <2>1, Disjoint DEF Crash, OInv, GInv, GuardTypes, Actors
    <2> QED BY <1>1, <2>2 DEF Engaged
  <1>9. ASSUME NEW p \in ProcessNames, Restart(p) PROVE q \in live' /\ Listed(q)'
    BY <1>1, <1>9 DEF Restart, Prune, Engaged
  <1>10. CASE Tick
    BY <1>1, <1>10 DEF Tick, Time, Engaged
  <1>11. CASE UNCHANGED vars
    BY <1>1, <1>11 DEF vars, Engaged
  <1> QED BY <1>2, <1>3, <1>4, <1>5, <1>6, <1>7, <1>8, <1>9, <1>10, <1>11
          DEF OperationNext

\* As long as their entries do not go stale, a Sync All and a Data Management
\* operation never work side by side, whatever other operations, polls and
\* processes do: if factory resets are prompt, which would empty the registry
\* under others, and if no two requests share a run identifier.
THEOREM OperationsApart ==
    ASSUME FactoryResets \subseteq Prompt,
           \A a, b \in Requests : RunIdOf[a] = RunIdOf[b] => a = b
    PROVE  OperationSpec => []TimelyOperationsExclusive
  <1>1. OperationInit => PromptListed
    BY OperationAssumption
       DEF OperationInit, PromptListed, Engaged, SyncAlls, Actors
  <1>2. OInv /\ PromptListed /\ [OperationNext]_vars => PromptListed'
    BY PromptStep
  <1>3. OInv /\ PromptListed => TimelyOperationsExclusive
    <2> SUFFICES ASSUME OInv, PromptListed, NEW q \in Syncing \cap Prompt,
                        NEW m \in Maintaining \cap Prompt, stage[m] \notin {"cleared", "reset"}
                 PROVE  FALSE
      BY DEF TimelyOperationsExclusive
    <2>1. Engaged(q) /\ Engaged(m) /\ m \in Maintenances /\ q # m
      BY DEF Syncing, Maintaining, Engaged, At, SyncAlls
    <2>2. PICK n \in registry, k \in registry : n.req = q /\ k.req = m
      BY <2>1 DEF PromptListed, Listed
    <2>3. ~Conflict(n.req, k.req)
      BY <2>1, <2>2 DEF OInv, RInv, Exclusive
    <2> QED BY <2>1, <2>2, <2>3, MaintenanceConflicts
  <1> QED BY <1>1, <1>2, <1>3, OperationsInvariant, PTL DEF OperationSpec

-----------------------------------------------------------------------------
(* Theorems about TicketLifecycle. *)

Gens == [Findings -> 0 .. MaxGeneration]

LifeJobs ==
    [at : {"idle", "pulled", "checking", "creating", "reconciling", "rechecking", "reviewing"},
     kind : {"poll", "sync"}, own : SUBSET References, refs : SUBSET References,
     writes : SUBSET References,
     results : [Cycles -> Statuses \cup {"none", "missing", "failed"}],
     closed : SUBSET Cycles, known : [Findings -> FindingStates], todo : SUBSET Candidates,
     items : SUBSET Keys]

LifeAdmins ==
    [at : {"idle", "checking", "updating", "recording", "applying"},
     action : {"mark_reviewed", "ignore", "engineer_approve", "close_redmine"},
     cycle : Cycles, type : Types, keys : SUBSET Keys]

FoundRows == [Findings -> [state : FindingStates, gen : 0 .. MaxGeneration]]

TablesOK ==
    /\ scan \in [Findings -> {"active", "mitigated", "gone"}]
    /\ found \in FoundRows
    /\ issue \in [Cycles -> Statuses \cup {"none"}]
    /\ record \in [Cycles -> Records] /\ lost \in BOOLEAN
    /\ review \in [Keys -> {"none", "pending", "withdrawn"} \cup Settled]

LifeTypeOK == TablesOK /\ job \in LifeJobs /\ admin \in LifeAdmins

\* The cycles before c have ended.
Behind(c) == \A d \in Cycles : d < c => record[d].ended

\* The generations g are of findings in the table, and not ahead of it.
Covered(g) ==
    \A f \in Findings : g[f] > 0 =>
        found[f].state # "absent" /\ (g[f] <= 1 \/ g[f] <= found[f].gen)

\* The reactivations that the generations g stand for.
Raised(g) == {a \in Findings \X (2 .. MaxGeneration) : a[2] <= g[a[1]]}

Reached(c, g) == Behind(c) /\ Covered(g) /\ (lost \/ c - 1 <= Cardinality(Raised(g)))

Begun(c) == Behind(c) /\ (lost \/ c - 1 <= Cardinality(Reactivations))

ClosedEnded == \A c \in Cycles : IsClosed(record[c].status) => record[c].ended

RecordsReached ==
    \A c \in Cycles : Covered(record[c].gens) /\ (Exists(c) => Reached(c, record[c].gens))

\* What a job has written is in the store, until a record is lost.
WritesKnown ==
    /\ job.writes \subseteq job.refs
    /\ job.at # "checking" => job.writes = {}
    /\ \A r \in job.refs \ job.writes :
        /\ job.results[r.cycle] # "none"
        /\ job.results[r.cycle] \in Statuses => Linked(r.cycle) \/ lost

PlansReached ==
    /\ \A r \in job.own \cup job.refs : Reached(r.cycle, r.gens)
    /\ \A r \in job.todo : Reached(r.cycle, r.gens)
    /\ \A k \in job.items : Begun(k[1])

IssuesBegun == \A c \in Cycles : issue[c] # "none" => Begun(c)

ReviewsBegun ==
    /\ \A k \in Keys : review[k] # "none" => Begun(k[1])
    /\ Begun(admin.cycle)
    /\ \A k \in admin.keys : Begun(k[1])

LifeInv ==
    /\ LifeTypeOK /\ ClosedEnded /\ RecordsReached
    /\ WritesKnown /\ PlansReached /\ IssuesBegun /\ ReviewsBegun

LEMMA Greatest ==
    ASSUME NEW n \in Nat, NEW S \in SUBSET (0 .. n), S # {}
    PROVE  /\ Max(S) \in S
           /\ \A m \in S : m <= Max(S)
<1> DEFINE Above(m) == (m + 1) .. n
           R == StrictSubsetOrdering(0 .. n)
<1>1. IsFiniteSet(0 .. n)
  BY FS_Interval
<1>2. IsWellFoundedOn(R, SUBSET (0 .. n))
  BY <1>1, FS_StrictSubsetOrderingWellFounded, FS_Subset, FS_FiniteSubsetsOfFinite DEF FiniteSubsetsOf
<1>3. /\ {Above(m) : m \in S} \subseteq SUBSET (0 .. n)
      /\ {Above(m) : m \in S} # {}
  <2>1. \A m \in S : Above(m) \in SUBSET (0 .. n)
    OBVIOUS
  <2>2. PICK m \in S : TRUE
    OBVIOUS
  <2>3. Above(m) \in {Above(k) : k \in S}
    OBVIOUS
  <2> HIDE DEF Above
  <2> QED BY <2>1, <2>3
<1>4. PICK A \in {Above(m) : m \in S} : \A B \in {Above(m) : m \in S} : ~ (<<B, A>> \in R)
  <2> HIDE DEF R, Above
  <2> QED BY <1>2, <1>3, WFMin
<1>5. PICK m \in S : A = Above(m)
  BY <1>4
<1>6. \A k \in S : k <= m
  <2> SUFFICES ASSUME NEW k \in S, k > m PROVE FALSE
    OBVIOUS
  <2>1. Above(k) \subseteq Above(m) /\ m + 1 \in Above(m) /\ m + 1 \notin Above(k)
    OBVIOUS
  <2>2. <<Above(k), Above(m)>> \in R
    BY <2>1, <1>3 DEF StrictSubsetOrdering
  <2> QED
    BY <2>2, <1>4, <1>5
<1> QED
  BY <1>6 DEF Max

LEMMA GenerationValue ==
    ASSUME found \in FoundRows, NEW f \in Findings
    PROVE  /\ Generation(f) \in 1 .. MaxGeneration
           /\ Generation(f) = IF found[f].gen > 1 THEN found[f].gen ELSE 1
<1>1. found[f].gen \in 0 .. MaxGeneration
  BY DEF FoundRows
<1>2. PICK m \in {found[f].gen, 1} : \A n \in {found[f].gen, 1} : m >= n
  BY <1>1
<1> QED
  BY <1>1, <1>2, LifecycleAssumption DEF Generation, Max

LEMMA RaisedFinite ==
    ASSUME NEW S \in SUBSET (Findings \X (2 .. MaxGeneration))
    PROVE  IsFiniteSet(S) /\ Cardinality(S) \in Nat
<1>1. IsFiniteSet(Findings) /\ IsFiniteSet(2 .. MaxGeneration)
  BY LifecycleAssumption, FS_Interval
<1>2. IsFiniteSet(Findings \X (2 .. MaxGeneration))
  BY <1>1, FS_Product
<1> QED
  BY <1>2, FS_Subset, FS_CardinalityType

LEMMA RaisedGrow ==
    ASSUME NEW T \in SUBSET (Findings \X (2 .. MaxGeneration)), NEW S \in SUBSET T
    PROVE  Cardinality(S) <= Cardinality(T)
BY RaisedFinite, FS_Subset

\* Generations that the table covers stand for reactivations in it.
LEMMA RaisedInTable ==
    ASSUME found \in FoundRows, NEW g \in Gens, Covered(g)
    PROVE  Cardinality(Raised(g)) <= Cardinality(Reactivations)
<1>1. Reactivations \in SUBSET (Findings \X (2 .. MaxGeneration))
  BY DEF Reactivations
<1>2. Raised(g) \in SUBSET Reactivations
  <2> SUFFICES ASSUME NEW a \in Raised(g) PROVE a \in Reactivations
    OBVIOUS
  <2>1. a \in Findings \X (2 .. MaxGeneration) /\ a[2] <= g[a[1]]
    BY DEF Raised
  <2>2. a[1] \in Findings /\ a[2] \in Int /\ a[2] >= 2
    BY <2>1
  <2>3. g[a[1]] \in Int /\ found[a[1]].gen \in Int
    BY <2>2 DEF Gens, FoundRows
  <2>4. g[a[1]] <= found[a[1]].gen
    BY <2>1, <2>2, <2>3 DEF Covered
  <2> QED
    BY <2>1, <2>2, <2>3, <2>4 DEF Reactivations
<1> QED
  BY <1>1, <1>2, RaisedGrow

LEMMA ReachedBegun ==
    ASSUME found \in FoundRows, NEW c \in Cycles, NEW g \in Gens, Reached(c, g)
    PROVE  Begun(c)
<1>1. Cardinality(Raised(g)) <= Cardinality(Reactivations)
  BY RaisedInTable DEF Reached
<1>2. Cardinality(Raised(g)) \in Nat /\ Cardinality(Reactivations) \in Nat
  BY RaisedFinite DEF Raised, Reactivations
<1> QED
  BY <1>1, <1>2 DEF Reached, Begun, Cycles

-----------------------------------------------------------------------------
(* What every step does: tables grow, ended cycles stay ended. *)

FoundGrows ==
    /\ found' \in FoundRows
    /\ \A f \in Findings :
        /\ found[f].gen <= found'[f].gen
        /\ found[f].state # "absent" => found'[f].state # "absent"

EndedStay == \A d \in Cycles : record[d].ended => record'[d].ended

Forward == FoundGrows /\ EndedStay /\ (lost => lost')

LEMMA ReachedStays ==
    ASSUME found \in FoundRows, Forward, NEW c \in Cycles, NEW g \in Gens, Reached(c, g)
    PROVE  Reached(c, g)'
<1>1. Behind(c)'
  BY DEF Forward, EndedStay, Behind, Reached
<1>2. Covered(g)'
  <2> SUFFICES ASSUME NEW f \in Findings, g[f] > 0
               PROVE  found'[f].state # "absent" /\ (g[f] <= 1 \/ g[f] <= found'[f].gen)
    BY DEF Covered
  <2>1. found[f].state # "absent" /\ (g[f] <= 1 \/ g[f] <= found[f].gen)
    BY DEF Reached, Covered
  <2>2. g[f] \in Int /\ found[f].gen \in Int /\ found'[f].gen \in Int
    BY DEF Gens, FoundRows, Forward, FoundGrows
  <2>3. found[f].gen <= found'[f].gen /\ (found[f].state # "absent" => found'[f].state # "absent")
    BY DEF Forward, FoundGrows
  <2> QED
    BY <2>1, <2>2, <2>3
<1> QED
  BY <1>1, <1>2 DEF Forward, Reached, Raised

LEMMA BegunStays ==
    ASSUME found \in FoundRows, Forward, NEW c \in Cycles, Begun(c)
    PROVE  Begun(c)'
<1>1. Behind(c)'
  BY DEF Forward, EndedStay, Behind, Begun
<1>2. Reactivations \in SUBSET Reactivations'
  <2> SUFFICES ASSUME NEW a \in Reactivations PROVE a \in Reactivations'
    OBVIOUS
  <2>1. a \in Findings \X (2 .. MaxGeneration) /\ a[2] <= found[a[1]].gen
    BY DEF Reactivations
  <2>2. a[1] \in Findings /\ a[2] \in Int
    BY <2>1
  <2>3. found[a[1]].gen \in Int /\ found'[a[1]].gen \in Int /\ found[a[1]].gen <= found'[a[1]].gen
    BY <2>2 DEF FoundRows, Forward, FoundGrows
  <2> QED
    BY <2>1, <2>2, <2>3 DEF Reactivations
<1>3. Reactivations' \in SUBSET (Findings \X (2 .. MaxGeneration))
  BY DEF Reactivations
<1>4. Cardinality(Reactivations) <= Cardinality(Reactivations')
  BY <1>2, <1>3, RaisedGrow
<1>5. Cardinality(Reactivations) \in Nat /\ Cardinality(Reactivations') \in Nat
  BY <1>2, <1>3, RaisedFinite
<1> QED
  BY <1>1, <1>4, <1>5 DEF Forward, Begun, Cycles

LEMMA CoveredStays ==
    ASSUME found \in FoundRows, Forward, NEW g \in Gens, Covered(g)
    PROVE  Covered(g)'
<1> SUFFICES ASSUME NEW f \in Findings, g[f] > 0
             PROVE  found'[f].state # "absent" /\ (g[f] <= 1 \/ g[f] <= found'[f].gen)
  BY DEF Covered
<1>1. found[f].state # "absent" /\ (g[f] <= 1 \/ g[f] <= found[f].gen)
  BY DEF Covered
<1>2. g[f] \in Int /\ found[f].gen \in Int /\ found'[f].gen \in Int
  BY DEF Gens, FoundRows, Forward, FoundGrows
<1>3. found[f].gen <= found'[f].gen /\ (found[f].state # "absent" => found'[f].state # "absent")
  BY DEF Forward, FoundGrows
<1> QED
  BY <1>1, <1>2, <1>3

-----------------------------------------------------------------------------
(* The cycle a ticket is in. *)

LEMMA LatestExists ==
    /\ Latest \in 0 .. MaxCycles
    /\ Latest > 0 => Exists(Latest)
    /\ \A c \in Cycles : Exists(c) => c <= Latest
<1> DEFINE S == {0} \cup {c \in Cycles : Exists(c)}
<1>1. MaxCycles \in Nat
  BY LifecycleAssumption
<1>2. S \in SUBSET (0 .. MaxCycles) /\ S # {}
  BY <1>1 DEF Cycles
<1>3. Max(S) \in S /\ \A m \in S : m <= Max(S)
  BY <1>1, <1>2, Greatest
<1>4. Latest = Max(S)
  BY DEF Latest
<1> HIDE DEF S
<1>5. Latest \in S /\ \A m \in S : m <= Latest
  BY <1>3, <1>4
<1> USE DEF S
<1>6. Latest \in 0 .. MaxCycles
  BY <1>2, <1>5
<1>7. Latest = 0 \/ Exists(Latest)
  BY <1>5
<1>8. \A c \in Cycles : Exists(c) => c <= Latest
  BY <1>5
<1> HIDE DEF S
<1> QED
  BY <1>1, <1>6, <1>7, <1>8

LEMMA CurrentCycleValue ==
    CurrentCycle = IF Recurrence THEN Latest + 1 ELSE IF Latest > 0 THEN Latest ELSE 1
<1>1. Latest \in Nat
  BY LatestExists, LifecycleAssumption
<1>2. PICK m \in {Latest, 1} : \A n \in {Latest, 1} : m >= n
  BY <1>1
<1>3. Max({Latest, 1}) = IF Latest > 0 THEN Latest ELSE 1
  BY <1>1, <1>2 DEF Max
<1> QED
  BY <1>1, <1>3 DEF CurrentCycle

LEMMA CurrentRefType ==
    ASSUME TablesOK, CurrentCycle \in Cycles
    PROVE  CurrentRef \in References /\ CurrentRef.gens \in Gens /\ Covered(CurrentRef.gens)
<1>1. \A f \in Findings : Generation(f) \in 1 .. MaxGeneration
  BY GenerationValue DEF TablesOK
<1>2. CurrentRef.gens \in Gens
  BY <1>1, LifecycleAssumption DEF CurrentRef, Gens
<1>3. Covered(CurrentRef.gens)
  <2> SUFFICES ASSUME NEW f \in Findings, CurrentRef.gens[f] > 0
               PROVE  /\ found[f].state # "absent"
                      /\ CurrentRef.gens[f] <= 1 \/ CurrentRef.gens[f] <= found[f].gen
    BY DEF Covered
  <2>1. f \in Stored /\ CurrentRef.gens[f] = Generation(f)
    BY DEF CurrentRef
  <2>2. Generation(f) = IF found[f].gen > 1 THEN found[f].gen ELSE 1
    BY GenerationValue DEF TablesOK
  <2>3. found[f].gen \in Int
    BY DEF TablesOK, FoundRows
  <2> QED
    BY <2>1, <2>2, <2>3 DEF Stored
<1>4. CurrentRef \in References
  BY <1>2 DEF CurrentRef, References, Stored, Gens
<1> QED
  BY <1>2, <1>3, <1>4

\* The generations of a record are behind those of the table.
LEMMA CoveredRaised ==
    ASSUME TablesOK, CurrentCycle \in Cycles, NEW g \in Gens, Covered(g)
    PROVE  Raised(g) \in SUBSET Raised(CurrentRef.gens)
<1> SUFFICES ASSUME NEW a \in Raised(g) PROVE a \in Raised(CurrentRef.gens)
  OBVIOUS
<1>1. a \in Findings \X (2 .. MaxGeneration) /\ a[2] <= g[a[1]]
  BY DEF Raised
<1>2. a[1] \in Findings /\ a[2] \in Int /\ a[2] >= 2
  BY <1>1
<1>3. g[a[1]] \in Int /\ found[a[1]].gen \in Int
  BY <1>2 DEF Gens, FoundRows, TablesOK
<1>4. g[a[1]] <= found[a[1]].gen /\ a[1] \in Stored
  BY <1>1, <1>2, <1>3 DEF Covered, Stored
<1>5. Generation(a[1]) = IF found[a[1]].gen > 1 THEN found[a[1]].gen ELSE 1
  BY <1>2, GenerationValue DEF TablesOK
<1>6. CurrentRef.gens[a[1]] = Generation(a[1])
  BY <1>2, <1>4 DEF CurrentRef
<1>7. a[2] <= CurrentRef.gens[a[1]]
  BY <1>1, <1>2, <1>3, <1>4, <1>5, <1>6
<1> QED
  BY <1>1, <1>7 DEF Raised

\* A new cycle follows one that ended, for a finding that was reactivated since.
LEMMA RecurrenceReached ==
    ASSUME TablesOK, ClosedEnded, RecordsReached, Recurrence, CurrentCycle \in Cycles
    PROVE  Reached(CurrentCycle, CurrentRef.gens)
<1> DEFINE c == Latest
           g == record[Latest].gens
<1>1. c \in Nat /\ c > 0 /\ Ended(record[c])
  BY LatestExists, LifecycleAssumption DEF Recurrence
<1>2. CurrentCycle = c + 1 /\ c \in Cycles
  BY <1>1, CurrentCycleValue, LatestExists DEF Cycles
<1>3. Reached(c, g) /\ record[c].ended
  BY <1>1, <1>2, LatestExists DEF RecordsReached, ClosedEnded, Ended
<1>4. g \in Gens
  BY <1>2 DEF TablesOK, Records, Gens
<1>5. PICK f \in Findings : Recurs(record[c], f)
  BY DEF Recurrence
<1>6. /\ found[f].state = "active" /\ Generation(f) > g[f] /\ Generation(f) > 1
      /\ Generation(f) \in 1 .. MaxGeneration /\ g[f] \in Nat
  BY <1>4, <1>5, GenerationValue DEF Recurs, Gens, TablesOK
<1>7. f \in Stored /\ CurrentRef.gens[f] = Generation(f)
  BY <1>6 DEF Stored, CurrentRef
<1> DEFINE new == <<f, Generation(f)>>
<1>8. new \in Raised(CurrentRef.gens) /\ new \notin Raised(g)
  BY <1>6, <1>7, LifecycleAssumption DEF Raised
<1>9. Raised(g) \in SUBSET Raised(CurrentRef.gens)
  BY <1>2, <1>3, <1>4, CoveredRaised DEF Reached
<1>10. Raised(CurrentRef.gens) \in SUBSET (Findings \X (2 .. MaxGeneration))
  BY DEF Raised
<1>11. Raised(g) \in SUBSET (Findings \X (2 .. MaxGeneration))
  BY DEF Raised
<1>12. IsFiniteSet(Raised(g)) /\ Cardinality(Raised(g)) \in Nat
  BY <1>11, RaisedFinite
<1>13. Cardinality(Raised(g) \cup {new}) = Cardinality(Raised(g)) + 1
  <2> HIDE DEF new, g
  <2> QED BY <1>8, <1>12, FS_AddElement
<1>14. Raised(g) \cup {new} \in SUBSET Raised(CurrentRef.gens)
  BY <1>8, <1>9
<1>15. Cardinality(Raised(g) \cup {new}) <= Cardinality(Raised(CurrentRef.gens))
  <2> HIDE DEF new, g
  <2> QED BY <1>10, <1>14, RaisedGrow
<1>16. Cardinality(Raised(CurrentRef.gens)) \in Nat
  BY <1>10, RaisedFinite
<1>17. lost \/ CurrentCycle - 1 <= Cardinality(Raised(CurrentRef.gens))
  <2>1. lost \/ c - 1 <= Cardinality(Raised(g))
    BY <1>3 DEF Reached
  <2> HIDE DEF g, c, new
  <2> QED BY <1>1, <1>2, <1>12, <1>13, <1>15, <1>16, <2>1
<1>18. Behind(CurrentCycle)
  <2> SUFFICES ASSUME NEW d \in Cycles, d < CurrentCycle PROVE record[d].ended
    BY DEF Behind
  <2>1. d = c \/ d < c
    BY <1>1, <1>2 DEF Cycles
  <2> QED
    BY <1>3, <2>1 DEF Reached, Behind
<1> QED
  BY <1>17, <1>18, CurrentRefType DEF Reached

LEMMA CurrentRefReached ==
    ASSUME TablesOK, ClosedEnded, RecordsReached, CurrentCycle \in Cycles
    PROVE  Reached(CurrentCycle, CurrentRef.gens)
<1>1. CASE Recurrence
  BY <1>1, RecurrenceReached
<1>2. CASE ~Recurrence /\ Latest > 0
  <2> DEFINE g == record[Latest].gens
  <2>1. Latest \in Cycles /\ CurrentCycle = Latest
    BY <1>2, CurrentCycleValue, LatestExists DEF Cycles
  <2>2. Reached(Latest, g) /\ g \in Gens
    BY <1>2, <2>1, LatestExists DEF RecordsReached, TablesOK, Records, Gens
  <2>3. Raised(g) \in SUBSET Raised(CurrentRef.gens)
    BY <2>2, CoveredRaised DEF Reached
  <2>4. /\ Raised(CurrentRef.gens) \in SUBSET (Findings \X (2 .. MaxGeneration))
        /\ Raised(g) \in SUBSET (Findings \X (2 .. MaxGeneration))
    BY DEF Raised
  <2> HIDE DEF g
  <2>5. Cardinality(Raised(g)) <= Cardinality(Raised(CurrentRef.gens))
    BY <2>3, <2>4, RaisedGrow
  <2>6. Cardinality(Raised(g)) \in Nat /\ Cardinality(Raised(CurrentRef.gens)) \in Nat
    BY <2>4, RaisedFinite
  <2> QED
    BY <2>1, <2>2, <2>5, <2>6, CurrentRefType DEF Reached, Cycles
<1>3. CASE ~Recurrence /\ ~(Latest > 0)
  <2>1. CurrentCycle = 1
    BY <1>3, CurrentCycleValue
  <2>2. Behind(CurrentCycle)
    BY <2>1 DEF Behind, Cycles
  <2>3. Raised(CurrentRef.gens) \in SUBSET (Findings \X (2 .. MaxGeneration))
    BY DEF Raised
  <2>4. Cardinality(Raised(CurrentRef.gens)) \in Nat
    BY <2>3, RaisedFinite
  <2> QED
    BY <2>1, <2>2, <2>4, CurrentRefType DEF Reached
<1> QED
  BY <1>1, <1>2, <1>3

-----------------------------------------------------------------------------
(* Writes of records. *)

\* A record to be written: that of a reference, with the status of its issue.
Writable(c, r) ==
    /\ c \in Cycles /\ r \in Records /\ r.status \in Statuses \cup {"missing"}
    /\ Reached(c, r.gens)

LEMMA WrittenAt ==
    ASSUME TablesOK, NEW c \in Cycles, NEW r \in Records
    PROVE  /\ Written(record, c, r) \in [Cycles -> Records]
           /\ Written(record, c, r)[c] =
                [r EXCEPT !.ended = record[c].ended \/ r.ended \/ IsClosed(r.status),
                          !.gens = Merged(record[c], r)]
           /\ \A d \in Cycles \ {c} :
                \/ Written(record, c, r)[d] = NoRecord /\ ~Ended(record[d])
                \/ /\ Written(record, c, r)[d].status = record[d].status
                   /\ Written(record, c, r)[d].ended = record[d].ended
                   /\ Written(record, c, r)[d].gens = record[d].gens
<1>1. \A d \in Cycles : record[d] \in Records /\ record[d].ended \in BOOLEAN
  BY DEF TablesOK, Records
<1>2. NoRecord \in Records
  BY LifecycleAssumption DEF NoRecord, Records
<1>3. Merged(record[c], r) \in [Findings -> 0 .. MaxGeneration]
  BY <1>1 DEF Merged, Records
<1>4. [r EXCEPT !.ended = record[c].ended \/ r.ended \/ IsClosed(r.status),
                !.gens = Merged(record[c], r)] \in Records
  BY <1>1, <1>3 DEF Records, IsClosed
<1>5. \A d \in Cycles : [record[d] EXCEPT !.findings = @ \ r.findings] \in Records
  BY <1>1 DEF Records
<1>6. \A d \in Cycles \ {c} :
        Written(record, c, r)[d] =
            IF Ended(record[d]) \/ record[d].findings \cap r.findings = {} THEN record[d]
            ELSE IF record[d].findings \subseteq r.findings THEN NoRecord
            ELSE [record[d] EXCEPT !.findings = @ \ r.findings]
  BY DEF Written
<1>7. Written(record, c, r)[c] =
        [r EXCEPT !.ended = record[c].ended \/ r.ended \/ IsClosed(r.status),
                  !.gens = Merged(record[c], r)]
  BY DEF Written
<1>8. \A d \in Cycles : Written(record, c, r)[d] \in Records
  BY <1>1, <1>2, <1>4, <1>5, <1>6, <1>7
<1>9. Written(record, c, r) \in [Cycles -> Records]
  BY <1>8 DEF Written
<1>10. ASSUME NEW d \in Cycles \ {c}
       PROVE  \/ Written(record, c, r)[d] = NoRecord /\ ~Ended(record[d])
              \/ /\ Written(record, c, r)[d].status = record[d].status
                 /\ Written(record, c, r)[d].ended = record[d].ended
                 /\ Written(record, c, r)[d].gens = record[d].gens
  BY <1>1, <1>6, <1>10 DEF Records
<1> QED
  BY <1>7, <1>9, <1>10

StoreOK == record' \in [Cycles -> Records] /\ lost' \in BOOLEAN

LinkedStays(d) == Linked(d) => Linked(d)' \/ lost'

\* A write of what a job or an administrator knows keeps the records in order.
LEMMA WriteKeeps ==
    ASSUME TablesOK, ClosedEnded, RecordsReached, FoundGrows,
           NEW c, NEW r, Writable(c, r), Stores(Written(record, c, r))
    PROVE  /\ StoreOK /\ Forward /\ ClosedEnded' /\ RecordsReached'
           /\ \A d \in Cycles \ {c} : LinkedStays(d)
           /\ r.status \in Statuses => Linked(c)'
<1> DEFINE new == [r EXCEPT !.ended = record[c].ended \/ r.ended \/ IsClosed(r.status),
                            !.gens = Merged(record[c], r)]
<1>1. c \in Cycles /\ r \in Records
  BY DEF Writable
<1>2. /\ record' \in [Cycles -> Records]
      /\ record'[c] = new
      /\ \A d \in Cycles \ {c} :
            \/ record'[d] = NoRecord /\ ~Ended(record[d])
            \/ /\ record'[d].status = record[d].status
               /\ record'[d].ended = record[d].ended
               /\ record'[d].gens = record[d].gens
  <2>1. record' = Written(record, c, r)
    BY DEF Stores
  <2>2. c \in Cycles
    BY <1>1
  <2>3. r \in Records
    BY <1>1
  <2> HIDE DEF new
  <2>4. /\ Written(record, c, r) \in [Cycles -> Records]
        /\ Written(record, c, r)[c] = new
        /\ \A d \in Cycles \ {c} :
                \/ Written(record, c, r)[d] = NoRecord /\ ~Ended(record[d])
                \/ /\ Written(record, c, r)[d].status = record[d].status
                   /\ Written(record, c, r)[d].ended = record[d].ended
                   /\ Written(record, c, r)[d].gens = record[d].gens
    BY <2>2, <2>3, WrittenAt DEF new
  <2> QED
    BY <2>1, <2>4
<1>3. lost' \in BOOLEAN /\ (lost => lost')
  BY DEF Stores, TablesOK
<1>4. /\ new.status = r.status /\ new.ended = (record[c].ended \/ r.ended \/ IsClosed(r.status))
      /\ new.gens = Merged(record[c], r)
  BY <1>1 DEF Records
<1>5. \A d \in Cycles : record[d] \in Records
  BY DEF TablesOK
<1>6. EndedStay
  <2> SUFFICES ASSUME NEW d \in Cycles, record[d].ended PROVE record'[d].ended
    BY DEF EndedStay
  <2>1. CASE d = c
    BY <2>1, <1>2, <1>4
  <2>2. CASE d # c
    BY <2>2, <1>2 DEF Ended
  <2> QED
    BY <2>1, <2>2
<1>7. Forward
  BY <1>3, <1>6 DEF Forward
<1>8. ClosedEnded'
  <2> SUFFICES ASSUME NEW d \in Cycles, IsClosed(record'[d].status) PROVE record'[d].ended
    BY DEF ClosedEnded, IsClosed
  <2>1. CASE d = c
    BY <2>1, <1>2, <1>4
  <2>2. CASE d # c
    BY <2>2, <1>2 DEF ClosedEnded, NoRecord, IsClosed
  <2> QED
    BY <2>1, <2>2
<1>9. \A d \in Cycles : record[d].gens \in Gens
  BY <1>5 DEF Records, Gens
<1>10. r.gens \in Gens /\ Reached(c, r.gens)
  BY <1>1 DEF Records, Gens, Writable
<1>11. Merged(record[c], r) \in Gens
  BY <1>1, <1>9, <1>10 DEF Merged, Gens
<1>12. Covered(Merged(record[c], r))
  <2> SUFFICES ASSUME NEW f \in Findings, Merged(record[c], r)[f] > 0
               PROVE  /\ found[f].state # "absent"
                      /\ \/ Merged(record[c], r)[f] <= 1
                         \/ Merged(record[c], r)[f] <= found[f].gen
    BY DEF Covered
  <2>1. Covered(r.gens) /\ Covered(record[c].gens)
    BY <1>1, <1>10 DEF Reached, RecordsReached
  <2>2. Merged(record[c], r)[f] = IF r.gens[f] > 0 THEN r.gens[f] ELSE record[c].gens[f]
    BY DEF Merged
  <2> QED
    BY <2>1, <2>2 DEF Covered
<1>13. Reached(c, Merged(record[c], r))
  <2>1. Raised(r.gens) \in SUBSET Raised(Merged(record[c], r))
    <3> SUFFICES ASSUME NEW a \in Raised(r.gens) PROVE a \in Raised(Merged(record[c], r))
      OBVIOUS
    <3>1. a \in Findings \X (2 .. MaxGeneration) /\ a[2] <= r.gens[a[1]]
      BY DEF Raised
    <3>2. a[1] \in Findings /\ a[2] \in Int /\ a[2] >= 2
      BY <3>1
    <3>3. r.gens[a[1]] \in Int
      BY <3>2, <1>10 DEF Gens
    <3>4. Merged(record[c], r)[a[1]] = r.gens[a[1]]
      BY <3>1, <3>2, <3>3 DEF Merged
    <3> QED
      BY <3>1, <3>4 DEF Raised
  <2>2. /\ Raised(Merged(record[c], r)) \in SUBSET (Findings \X (2 .. MaxGeneration))
        /\ Raised(r.gens) \in SUBSET (Findings \X (2 .. MaxGeneration))
    BY DEF Raised
  <2>3. Cardinality(Raised(r.gens)) <= Cardinality(Raised(Merged(record[c], r)))
    BY <2>1, <2>2, RaisedGrow
  <2>4. Cardinality(Raised(r.gens)) \in Nat /\ Cardinality(Raised(Merged(record[c], r))) \in Nat
    BY <2>2, RaisedFinite
  <2> QED
    BY <1>1, <1>10, <1>12, <2>3, <2>4 DEF Reached, Cycles
<1>14. RecordsReached'
  <2> SUFFICES ASSUME NEW d \in Cycles
               PROVE  /\ Covered(record[d].gens)'
                      /\ Exists(d)' => Reached(d, record[d].gens)'
    BY DEF RecordsReached
  <2>1. CASE d = c
    <3>1. PICK g \in Gens : g = Merged(record[c], r)
      BY <1>11
    <3>2. record'[d].gens = g
      BY <2>1, <3>1, <1>2, <1>4
    <3>3. Reached(c, g)'
      BY <1>1, <1>7, <1>13, <3>1, ReachedStays DEF TablesOK
    <3>4. Covered(g)'
      BY <3>3 DEF Reached
    <3> QED
      BY <2>1, <3>2, <3>3, <3>4
  <2>2. CASE d # c /\ record'[d] = NoRecord
    <3>1. \A f \in Findings : record'[d].gens[f] = 0
      BY <2>2 DEF NoRecord
    <3>2. ~Exists(d)'
      BY <2>2 DEF NoRecord, Exists
    <3> QED
      BY <3>1, <3>2 DEF Covered
  <2>3. CASE d # c /\ record'[d].status = record[d].status /\ record'[d].gens = record[d].gens
    <3>1. PICK g \in Gens : g = record[d].gens
      BY <1>9
    <3>2. Covered(g)'
      BY <1>7, <3>1, CoveredStays DEF TablesOK, RecordsReached
    <3>3. Exists(d)' => Reached(d, g)
      BY <2>3, <3>1 DEF RecordsReached, Exists
    <3>4. Exists(d)' => Reached(d, g)'
      BY <1>7, <3>3, ReachedStays DEF TablesOK
    <3>5. record'[d].gens = g
      BY <2>3, <3>1
    <3> QED
      BY <3>2, <3>4, <3>5
  <2> QED
    BY <2>1, <2>2, <2>3, <1>2
<1>15. ASSUME NEW d \in Cycles \ {c} PROVE LinkedStays(d)
  <2>1. CASE record'[d] = NoRecord
    <3>1. record'[d].status = "none"
      BY <2>1 DEF NoRecord
    <3>2. Linked(d) => lost'
      BY <3>1, <1>15 DEF Stores
    <3> QED
      BY <3>2 DEF LinkedStays
  <2>2. CASE record'[d].status = record[d].status
    BY <2>2 DEF LinkedStays, Linked
  <2> QED
    BY <1>2, <1>15, <2>1, <2>2
<1>16. r.status \in Statuses => Linked(c)'
  BY <1>2, <1>4 DEF Linked
<1> QED
  BY <1>2, <1>3, <1>7, <1>8, <1>14, <1>15, <1>16 DEF StoreOK

\* So does leaving a record alone, or removing one that has not ended, while
\* the tables of findings grow.
LEMMA PruneKeeps ==
    ASSUME TablesOK, ClosedEnded, RecordsReached, FoundGrows,
           record' \in [Cycles -> Records], lost' \in BOOLEAN, lost => lost',
           \A d \in Cycles :
                \/ record'[d] = record[d]
                \/ record'[d] = NoRecord /\ ~Ended(record[d]) /\ (Linked(d) => lost')
    PROVE  /\ StoreOK /\ Forward /\ ClosedEnded' /\ RecordsReached'
           /\ \A d \in Cycles : LinkedStays(d)
<1>1. StoreOK /\ Forward
  <2>1. \A d \in Cycles : record[d].ended => record'[d].ended
    BY DEF Ended
  <2> QED
    BY <2>1 DEF TablesOK, StoreOK, Forward, EndedStay
<1>2. ClosedEnded'
  BY DEF ClosedEnded, IsClosed, NoRecord
<1>3. RecordsReached'
  <2> SUFFICES ASSUME NEW d \in Cycles
               PROVE  /\ Covered(record[d].gens)'
                      /\ Exists(d)' => Reached(d, record[d].gens)'
    BY DEF RecordsReached
  <2>1. CASE record'[d] = record[d]
    <3>1. PICK g \in Gens : g = record[d].gens
      BY DEF TablesOK, Records, Gens
    <3>2. record'[d].gens = g
      BY <2>1, <3>1
    <3>3. Covered(g)'
      BY <1>1, <3>1, CoveredStays DEF TablesOK, RecordsReached
    <3>4. Exists(d)' => Reached(d, g)
      BY <2>1, <3>1 DEF RecordsReached, Exists
    <3>5. Exists(d)' => Reached(d, g)'
      BY <1>1, <3>4, ReachedStays DEF TablesOK
    <3> QED
      BY <3>2, <3>3, <3>5
  <2>2. CASE record'[d] = NoRecord
    <3>1. \A f \in Findings : record'[d].gens[f] = 0
      BY <2>2 DEF NoRecord
    <3>2. ~Exists(d)'
      BY <2>2 DEF NoRecord, Exists
    <3> QED
      BY <3>1, <3>2 DEF Covered
  <2> QED
    BY <2>1, <2>2
<1>4. \A d \in Cycles : LinkedStays(d)
  BY DEF LinkedStays, Linked
<1> QED
  BY <1>1, <1>2, <1>3, <1>4

LEMMA StoreStays ==
    ASSUME TablesOK, ClosedEnded, RecordsReached, FoundGrows, UNCHANGED store
    PROVE  /\ StoreOK /\ Forward /\ ClosedEnded' /\ RecordsReached'
           /\ \A d \in Cycles : LinkedStays(d)
<1>1. record' = record /\ lost' = lost
  BY DEF store
<1> QED
  BY <1>1, PruneKeeps DEF TablesOK

-----------------------------------------------------------------------------
(* What jobs, issues and reviews need of a step. *)

TablesKept == TablesOK' /\ Forward /\ ClosedEnded' /\ RecordsReached'

LEMMA FirstBegun ==
    ASSUME TablesOK
    PROVE  1 \in Cycles /\ Begun(1)
<1>1. Reactivations \in SUBSET (Findings \X (2 .. MaxGeneration))
  BY DEF Reactivations
<1>2. Cardinality(Reactivations) \in Nat
  BY <1>1, RaisedFinite
<1>3. 1 \in Cycles /\ Behind(1)
  BY LifecycleAssumption DEF Cycles, Behind
<1> QED
  BY <1>2, <1>3 DEF Begun

LEMMA PlansFollow ==
    ASSUME TablesOK, Forward, job' \in LifeJobs,
           \A r \in job'.own \cup job'.refs : Reached(r.cycle, r.gens),
           \A r \in job'.todo : Reached(r.cycle, r.gens),
           \A k \in job'.items : Begun(k[1])
    PROVE  PlansReached'
<1>1. ASSUME NEW r \in job'.own \cup job'.refs PROVE Reached(r.cycle, r.gens)'
  <2>1. r.cycle \in Cycles /\ r.gens \in Gens
    BY <1>1 DEF LifeJobs, References, Gens
  <2> QED
    BY <1>1, <2>1, ReachedStays DEF TablesOK
<1>2. ASSUME NEW r \in job'.todo PROVE Reached(r.cycle, r.gens)'
  <2>1. r.cycle \in Cycles /\ r.gens \in Gens
    BY <1>2 DEF LifeJobs, Candidates, Gens
  <2> QED
    BY <1>2, <2>1, ReachedStays DEF TablesOK
<1>3. ASSUME NEW k \in job'.items PROVE Begun(k[1])'
  <2>1. k[1] \in Cycles
    BY <1>3 DEF LifeJobs, Keys
  <2> QED
    BY <1>3, <2>1, BegunStays DEF TablesOK
<1> QED
  BY <1>1, <1>2, <1>3 DEF PlansReached

LEMMA JobStays ==
    ASSUME LifeTypeOK, Forward, WritesKnown, PlansReached, UNCHANGED job,
           \A d \in Cycles : LinkedStays(d)
    PROVE  job' \in LifeJobs /\ WritesKnown' /\ PlansReached'
<1>1. job' \in LifeJobs
  BY DEF LifeTypeOK
<1>2. PlansReached'
  BY <1>1, PlansFollow DEF PlansReached, LifeTypeOK
<1>3. WritesKnown'
  <2>1. \A r \in job.refs : r.cycle \in Cycles
    BY DEF LifeTypeOK, LifeJobs, References
  <2> QED
    BY <2>1 DEF WritesKnown, LinkedStays, Forward
<1> QED
  BY <1>1, <1>2, <1>3

LEMMA NoJobKnown ==
    ASSUME TablesOK, Forward, job' = NoJob
    PROVE  job' \in LifeJobs /\ WritesKnown' /\ PlansReached'
<1>1. NoJob \in LifeJobs
  BY DEF NoJob, LifeJobs, FindingStates
<1>2. NoJob.own = {} /\ NoJob.refs = {} /\ NoJob.writes = {} /\ NoJob.todo = {} /\ NoJob.items = {}
  BY DEF NoJob
<1>3. WritesKnown'
  BY <1>2 DEF WritesKnown
<1> QED
  BY <1>1, <1>2, <1>3, PlansFollow

LEMMA IssuesFollow ==
    ASSUME TablesOK, Forward, \A d \in Cycles : issue'[d] # "none" => Begun(d)
    PROVE  IssuesBegun'
<1> SUFFICES ASSUME NEW d \in Cycles, issue'[d] # "none" PROVE Begun(d)'
  BY DEF IssuesBegun
<1> QED
  BY BegunStays DEF TablesOK

LEMMA ReviewsFollow ==
    ASSUME TablesOK, Forward, admin' \in LifeAdmins,
           \A k \in Keys : review'[k] # "none" => Begun(k[1]),
           Begun(admin'.cycle), \A k \in admin'.keys : Begun(k[1])
    PROVE  ReviewsBegun'
<1>1. ASSUME NEW k \in Keys, Begun(k[1]) PROVE Begun(k[1])'
  <2>1. k[1] \in Cycles
    BY DEF Keys
  <2> QED
    BY <1>1, <2>1, BegunStays DEF TablesOK
<1>2. PICK c \in Cycles : c = admin'.cycle
  BY DEF LifeAdmins
<1>3. Begun(c)'
  BY <1>2, BegunStays DEF TablesOK
<1>4. admin'.keys \subseteq Keys
  BY DEF LifeAdmins
<1> QED
  BY <1>1, <1>2, <1>3, <1>4 DEF ReviewsBegun

LEMMA AdminStays ==
    ASSUME LifeTypeOK, Forward, ReviewsBegun, UNCHANGED <<review, admin>>
    PROVE  admin' \in LifeAdmins /\ ReviewsBegun'
<1>1. admin' \in LifeAdmins
  BY DEF LifeTypeOK
<1> QED
  BY <1>1, ReviewsFollow DEF ReviewsBegun, LifeTypeOK

LEMMA NoAdminBegun ==
    ASSUME TablesOK, Forward, admin' = NoAdmin,
           \A k \in Keys : review'[k] # "none" => Begun(k[1])
    PROVE  admin' \in LifeAdmins /\ ReviewsBegun'
<1>1. NoAdmin \in LifeAdmins /\ NoAdmin.cycle = 1 /\ NoAdmin.keys = {}
  BY FirstBegun DEF NoAdmin, LifeAdmins, Types
<1> QED
  BY <1>1, FirstBegun, ReviewsFollow

\* Steps that leave the tables of findings and the store alone.
LEMMA NothingStored ==
    ASSUME LifeInv, UNCHANGED <<found, store>>
    PROVE  /\ StoreOK /\ Forward /\ ClosedEnded' /\ RecordsReached'
           /\ \A d \in Cycles : LinkedStays(d)
<1>1. FoundGrows
  BY DEF LifeInv, LifeTypeOK, TablesOK, FoundRows, FoundGrows
<1> QED
  BY <1>1, StoreStays DEF LifeInv, LifeTypeOK

-----------------------------------------------------------------------------
(* DefectDojo, the engineers, and the findings table. *)

LEMMA ScanKeeps ==
    ASSUME LifeInv, NEW f \in Findings, ScanChanges(f)
    PROVE  LifeInv'
<1>1. UNCHANGED <<found, issue, store, review, job, admin>>
  BY DEF ScanChanges
<1>2. StoreOK /\ Forward /\ ClosedEnded' /\ RecordsReached' /\ \A d \in Cycles : LinkedStays(d)
  BY <1>1, NothingStored
<1>3. scan' \in [Findings -> {"active", "mitigated", "gone"}]
  BY DEF ScanChanges, LifeInv, LifeTypeOK, TablesOK
<1>4. TablesOK'
  BY <1>1, <1>2, <1>3 DEF TablesOK, StoreOK, LifeInv, LifeTypeOK
<1>5. job' \in LifeJobs /\ WritesKnown' /\ PlansReached'
  BY <1>1, <1>2, JobStays DEF LifeInv
<1>6. admin' \in LifeAdmins /\ ReviewsBegun'
  BY <1>1, <1>2, AdminStays DEF LifeInv
<1>7. IssuesBegun'
  BY <1>1, <1>2, IssuesFollow DEF LifeInv, LifeTypeOK, IssuesBegun
<1> QED
  BY <1>2, <1>4, <1>5, <1>6, <1>7 DEF LifeInv, LifeTypeOK

LEMMA MoveKeeps ==
    ASSUME LifeInv, NEW c \in Cycles, EngineerMoves(c)
    PROVE  LifeInv'
<1>1. UNCHANGED <<scan, found, store, review, job, admin>>
  BY DEF EngineerMoves
<1>2. StoreOK /\ Forward /\ ClosedEnded' /\ RecordsReached' /\ \A d \in Cycles : LinkedStays(d)
  BY <1>1, NothingStored
<1>3. /\ issue' \in [Cycles -> Statuses \cup {"none"}]
      /\ \A d \in Cycles : issue'[d] # "none" => issue[d] # "none"
  <2>1. PICK s \in EngineerStatuses : issue' = [issue EXCEPT ![c] = s]
    BY DEF EngineerMoves
  <2>2. s \in Statuses
    BY <2>1, LifecycleAssumption DEF Statuses
  <2> QED
    BY <2>1, <2>2 DEF EngineerMoves, LifeInv, LifeTypeOK, TablesOK
<1>4. TablesOK'
  BY <1>1, <1>2, <1>3 DEF TablesOK, StoreOK, LifeInv, LifeTypeOK
<1>5. job' \in LifeJobs /\ WritesKnown' /\ PlansReached'
  BY <1>1, <1>2, JobStays DEF LifeInv
<1>6. admin' \in LifeAdmins /\ ReviewsBegun'
  BY <1>1, <1>2, AdminStays DEF LifeInv
<1>7. IssuesBegun'
  BY <1>2, <1>3, IssuesFollow DEF LifeInv, LifeTypeOK, IssuesBegun
<1> QED
  BY <1>2, <1>4, <1>5, <1>6, <1>7 DEF LifeInv, LifeTypeOK

\* upsertFindingsForSync never lowers a generation or forgets a finding.
LEMMA UpsertedGrows ==
    ASSUME found \in FoundRows, Countable,
           NEW S \in SUBSET Findings, NEW seen \in [S -> {"active", "mitigated", "inactive"}],
           \A f \in S : seen[f] = "active" => scan[f] = "active"
    PROVE  /\ Upserted(found, seen) \in FoundRows
           /\ \A f \in Findings :
                /\ found[f].gen <= Upserted(found, seen)[f].gen
                /\ found[f].state # "absent" => Upserted(found, seen)[f].state # "absent"
<1> SUFFICES ASSUME NEW f \in Findings
             PROVE  /\ Upserted(found, seen)[f] \in
                            [state : FindingStates, gen : 0 .. MaxGeneration]
                    /\ found[f].gen <= Upserted(found, seen)[f].gen
                    /\ found[f].state # "absent" => Upserted(found, seen)[f].state # "absent"
  BY DEF Upserted, FoundRows
<1>1. found[f] \in [state : FindingStates, gen : 0 .. MaxGeneration]
  BY DEF FoundRows
<1>2. CASE f \notin S
  BY <1>1, <1>2 DEF Upserted
<1>3. CASE f \in S /\ seen[f] # "active"
  BY <1>1, <1>3 DEF Upserted, FindingStates
<1>4. CASE f \in S /\ seen[f] = "active" /\ found[f].state # "active"
  <2>1. found[f].gen < MaxGeneration
    BY <1>4 DEF Countable
  <2>2. Upserted(found, seen)[f] = [state |-> "active", gen |-> found[f].gen + 1]
    BY <1>4 DEF Upserted
  <2> QED
    BY <1>1, <2>1, <2>2, LifecycleAssumption DEF FindingStates
<1>5. CASE f \in S /\ seen[f] = "active" /\ found[f].state = "active"
  <2>1. Upserted(found, seen)[f] = [state |-> "active", gen |-> Generation(f)]
    BY <1>5 DEF Upserted, Generation
  <2>2. /\ Generation(f) \in 1 .. MaxGeneration
        /\ Generation(f) = IF found[f].gen > 1 THEN found[f].gen ELSE 1
    BY GenerationValue
  <2> QED
    BY <1>1, <2>1, <2>2 DEF FindingStates
<1> QED
  BY <1>2, <1>3, <1>4, <1>5

LEMMA PullKeeps ==
    ASSUME LifeInv, SyncPulls
    PROVE  LifeInv'
<1> DEFINE S == {g \in Findings : scan[g] = "active"}
           seen == [f \in S |-> "active"]
           rest == Upserted(found, seen)
<1>1. UNCHANGED <<scan, issue, store, review, admin>>
  BY DEF SyncPulls, JobOnly
<1>2. /\ rest \in FoundRows
      /\ \A f \in Findings :
            /\ found[f].gen <= rest[f].gen
            /\ found[f].state # "absent" => rest[f].state # "absent"
  <2>1. found \in FoundRows /\ Countable
    BY DEF LifeInv, LifeTypeOK, TablesOK, SyncPulls
  <2>2. S \in SUBSET Findings /\ seen \in [S -> {"active", "mitigated", "inactive"}]
    OBVIOUS
  <2>3. \A f \in S : seen[f] = "active" => scan[f] = "active"
    OBVIOUS
  <2> HIDE DEF S, seen
  <2> QED
    BY <2>1, <2>2, <2>3, UpsertedGrows
<1>3. found' = [f \in Findings |-> IF f \notin DOMAIN seen /\ rest[f].state = "active"
                                   THEN [rest[f] EXCEPT !.state = "inactive"] ELSE rest[f]]
  BY DEF SyncPulls
<1>4. FoundGrows
  <2> HIDE DEF rest, seen
  <2>1. ASSUME NEW f \in Findings
        PROVE  /\ found'[f] \in [state : FindingStates, gen : 0 .. MaxGeneration]
               /\ found'[f].gen = rest[f].gen
               /\ rest[f].state # "absent" => found'[f].state # "absent"
    BY <1>2, <1>3 DEF FoundRows, FindingStates
  <2>2. found' \in FoundRows
    BY <1>3, <2>1 DEF FoundRows
  <2> QED
    BY <1>2, <2>1, <2>2 DEF FoundGrows
<1> HIDE DEF rest, seen, S
<1>5. StoreOK /\ Forward /\ ClosedEnded' /\ RecordsReached' /\ \A d \in Cycles : LinkedStays(d)
  BY <1>1, <1>4, StoreStays DEF LifeInv, LifeTypeOK
<1>6. TablesOK'
  BY <1>1, <1>4, <1>5 DEF TablesOK, StoreOK, FoundGrows, LifeInv, LifeTypeOK
<1>7. job' \in LifeJobs /\ WritesKnown' /\ PlansReached'
  <2>1. job' = [NoJob EXCEPT !.at = "pulled", !.kind = "sync"]
    BY DEF SyncPulls
  <2>2. job' \in LifeJobs
    BY <2>1 DEF NoJob, LifeJobs, FindingStates
  <2>3. job'.own = {} /\ job'.refs = {} /\ job'.writes = {} /\ job'.todo = {} /\ job'.items = {}
    BY <2>1 DEF NoJob
  <2>4. WritesKnown'
    BY <2>3 DEF WritesKnown
  <2> QED
    BY <1>5, <2>2, <2>3, <2>4, PlansFollow DEF LifeInv, LifeTypeOK
<1>8. admin' \in LifeAdmins /\ ReviewsBegun'
  BY <1>1, <1>5, AdminStays DEF LifeInv
<1>9. IssuesBegun'
  BY <1>1, <1>5, IssuesFollow DEF LifeInv, LifeTypeOK, IssuesBegun
<1> QED
  BY <1>5, <1>6, <1>7, <1>8, <1>9 DEF LifeInv, LifeTypeOK

-----------------------------------------------------------------------------
(* The steps of a job that write no record. *)

LEMMA JobAlone ==
    ASSUME LifeInv, UNCHANGED <<scan, found, issue, store, review, admin>>,
           job' \in LifeJobs, WritesKnown',
           \A r \in job'.own \cup job'.refs : Reached(r.cycle, r.gens),
           \A r \in job'.todo : Reached(r.cycle, r.gens),
           \A k \in job'.items : Begun(k[1])
    PROVE  LifeInv'
<1>1. StoreOK /\ Forward /\ ClosedEnded' /\ RecordsReached'
  BY NothingStored
<1>2. TablesOK'
  BY <1>1 DEF TablesOK, StoreOK, LifeInv, LifeTypeOK
<1>3. PlansReached'
  BY <1>1, PlansFollow DEF LifeInv, LifeTypeOK
<1>4. admin' \in LifeAdmins /\ ReviewsBegun'
  BY <1>1, AdminStays DEF LifeInv
<1>5. IssuesBegun'
  BY <1>1, IssuesFollow DEF LifeInv, LifeTypeOK, IssuesBegun
<1> QED
  BY <1>1, <1>2, <1>3, <1>4, <1>5 DEF LifeInv, LifeTypeOK

LEMMA PlanKeeps ==
    ASSUME LifeInv, NEW kind \in {"sync", "poll"}, Plans(kind)
    PROVE  LifeInv'
<1> DEFINE own == IF Stored = {} THEN {} ELSE {CurrentRef}
           refs == StoredRefs \cup (IF kind = "sync" \/ Linked(CurrentCycle) THEN own ELSE {})
<1>1. UNCHANGED <<scan, found, issue, store, review, admin>>
  BY DEF Plans, JobOnly
<1>2. job' = [NoJob EXCEPT !.at = "checking", !.kind = kind, !.own = own,
                           !.refs = refs, !.writes = refs]
  BY DEF Plans
<1>3. CurrentCycle \in Cycles
  <2>1. CurrentCycle <= MaxCycles
    BY DEF Plans
  <2>2. Latest \in Nat /\ MaxCycles \in Nat
    BY LatestExists, LifecycleAssumption
  <2> QED
    BY <2>1, <2>2, CurrentCycleValue DEF Cycles
<1>4. CurrentRef \in References /\ Reached(CurrentRef.cycle, CurrentRef.gens)
  <2>1. CurrentRef.cycle = CurrentCycle
    BY DEF CurrentRef
  <2> QED
    BY <1>3, <2>1, CurrentRefType, CurrentRefReached DEF LifeInv, LifeTypeOK
<1>5. \A r \in StoredRefs : r \in References /\ Reached(r.cycle, r.gens)
  <2> SUFFICES ASSUME NEW c \in Cycles, Linked(c)
               PROVE  /\ [cycle |-> c, findings |-> record[c].findings,
                          gens |-> record[c].gens] \in References
                      /\ Reached(c, record[c].gens)
    BY DEF StoredRefs
  <2>1. record[c] \in Records
    BY DEF LifeInv, LifeTypeOK, TablesOK
  <2>2. Exists(c)
    BY DEF Linked, Exists, Statuses
  <2> QED
    BY <2>1, <2>2 DEF Records, References, LifeInv, RecordsReached
<1> HIDE DEF refs, own
<1>6. own \subseteq {CurrentRef} /\ refs \subseteq StoredRefs \cup own
  BY DEF own, refs
<1>7. own \subseteq References /\ refs \subseteq References
  BY <1>4, <1>5, <1>6
<1>8. /\ job' \in LifeJobs /\ job'.own = own /\ job'.refs = refs /\ job'.writes = refs
      /\ job'.at = "checking" /\ job'.todo = {} /\ job'.items = {}
  BY <1>2, <1>7 DEF NoJob, LifeJobs, FindingStates
<1>9. WritesKnown'
  BY <1>8 DEF WritesKnown
<1>10. \A r \in job'.own \cup job'.refs : Reached(r.cycle, r.gens)
  BY <1>4, <1>5, <1>6, <1>8
<1> QED
  BY <1>1, <1>8, <1>9, <1>10, JobAlone

LEMMA CheckKeeps ==
    ASSUME LifeInv, NEW c \in Cycles, JobChecks(c)
    PROVE  LifeInv'
<1>1. UNCHANGED <<scan, found, issue, store, review, admin>>
  BY DEF JobChecks
<1>2. /\ job \in LifeJobs /\ job.at = "checking" /\ job.results[c] = "none"
      /\ issue[c] \in Statuses \cup {"none"}
  BY DEF JobChecks, LifeInv, LifeTypeOK, TablesOK
<1>3. PICK s \in Statuses \cup {"missing", "failed"}, closed \in SUBSET Cycles :
        job' = [job EXCEPT !.results[c] = s, !.closed = closed]
  <2>1. job.closed \in SUBSET Cycles /\ job = [job EXCEPT !.closed = job.closed]
    BY <1>2 DEF LifeJobs
  <2>2. CASE job' = [job EXCEPT !.results[c] = IF issue[c] = "none" THEN "missing" ELSE issue[c],
                                !.closed = @ \cup (closedOn \cap {c})]
    BY <1>2, <2>1, <2>2
  <2>3. CASE job' = [job EXCEPT !.results[c] = "failed"]
    <3>1. job' = [job EXCEPT !.results[c] = "failed", !.closed = job.closed]
      BY <1>2, <2>3 DEF LifeJobs
    <3> QED
      BY <2>1, <3>1
  <2> QED
    BY <2>2, <2>3 DEF JobChecks
<1>4. /\ job' \in LifeJobs /\ job'.own = job.own /\ job'.refs = job.refs
      /\ job'.writes = job.writes /\ job'.todo = job.todo /\ job'.items = job.items
      /\ job'.at = job.at
      /\ \A d \in Cycles \ {c} : job'.results[d] = job.results[d]
  BY <1>2, <1>3 DEF LifeJobs
<1>5. WritesKnown'
  <2>1. \A r \in job.refs : r.cycle \in Cycles
    BY <1>2 DEF LifeJobs, References
  <2>2. \A r \in job.refs \ job.writes : r.cycle # c
    BY <1>2 DEF LifeInv, WritesKnown
  <2> QED
    BY <1>1, <1>2, <1>4, <2>1, <2>2 DEF LifeInv, WritesKnown, Linked, store
<1> QED
  BY <1>1, <1>4, <1>5, JobAlone DEF LifeInv, PlansReached

LEMMA SourcesReached ==
    ASSUME LifeInv, job.at # "checking"
    PROVE  \A r \in Sources : r \in Candidates /\ Reached(r.cycle, r.gens)
<1> SUFFICES ASSUME NEW q \in job.refs, Candidate(SourceStatus(q))
             PROVE  /\ [cycle |-> q.cycle, findings |-> q.findings,
                        gens |-> record[q.cycle].gens, status |-> SourceStatus(q)] \in Candidates
                    /\ Reached(q.cycle, record[q.cycle].gens)
  BY DEF Sources
<1>1. q \in References /\ q.cycle \in Cycles
  BY DEF LifeInv, LifeTypeOK, LifeJobs, References
<1>2. record[q.cycle] \in Records
  BY <1>1 DEF LifeInv, LifeTypeOK, TablesOK
<1>3. Exists(q.cycle) \/ lost
  <2>1. job.writes = {}
    BY DEF LifeInv, WritesKnown
  <2>2. job.results[q.cycle] \in Statuses => Linked(q.cycle) \/ lost
    BY <2>1 DEF LifeInv, WritesKnown
  <2> QED
    BY <2>2 DEF SourceStatus, Candidate, Exists, Linked, Statuses
<1>4. Reached(q.cycle, record[q.cycle].gens)
  <2>1. CASE Exists(q.cycle)
    BY <1>1, <2>1 DEF LifeInv, RecordsReached
  <2>2. CASE lost
    BY <1>1, <2>2 DEF LifeInv, RecordsReached, PlansReached, Reached
  <2> QED
    BY <1>3, <2>1, <2>2
<1> QED
  BY <1>1, <1>2, <1>4 DEF Candidates, Records, References, Candidate

LEMMA GoOnKeeps ==
    ASSUME LifeInv, SyncGoesOn
    PROVE  LifeInv'
<1>1. UNCHANGED <<scan, found, issue, store, review, admin>>
  BY DEF SyncGoesOn, JobOnly
<1>2. job \in LifeJobs /\ job.at = "creating"
  BY DEF SyncGoesOn, LifeInv, LifeTypeOK
<1>3. PICK new : new = Sources
  OBVIOUS
<1>4. new \subseteq Candidates /\ \A r \in new : Reached(r.cycle, r.gens)
  BY <1>2, <1>3, SourcesReached
<1>5. job' = [job EXCEPT !.at = "rechecking", !.todo = new]
  BY <1>3 DEF SyncGoesOn
<1>6. /\ job' \in LifeJobs /\ job'.own = job.own /\ job'.refs = job.refs
      /\ job'.writes = job.writes /\ job'.todo = new /\ job'.items = job.items
      /\ job'.results = job.results /\ job'.at = "rechecking"
  BY <1>2, <1>4, <1>5 DEF LifeJobs
<1>7. WritesKnown'
  BY <1>1, <1>2, <1>6 DEF LifeInv, WritesKnown, Linked, store
<1> QED
  BY <1>1, <1>4, <1>6, <1>7, JobAlone DEF LifeInv, PlansReached

LEMMA CollectKeeps ==
    ASSUME LifeInv, NEW r \in job.todo, JobCollects(r)
    PROVE  LifeInv'
<1>1. UNCHANGED <<scan, found, issue, store, review, admin>>
  BY DEF JobCollects, JobOnly
<1>2. job \in LifeJobs /\ job.at = "reviewing"
  BY DEF JobCollects, LifeInv, LifeTypeOK
<1>3. r \in Candidates /\ Reached(r.cycle, r.gens) /\ r.cycle \in Cycles /\ r.gens \in Gens
  BY <1>2 DEF LifeInv, LifeJobs, PlansReached, Candidates, Gens
<1>4. Begun(r.cycle)
  BY <1>3, ReachedBegun DEF LifeInv, LifeTypeOK, TablesOK
<1>5. PICK new : new = ReviewsOf(r)
  OBVIOUS
<1>6. new \subseteq Keys /\ \A k \in new : k[1] = r.cycle
  BY <1>3, <1>5 DEF ReviewsOf, KnownAs, Keys, Types, Candidates
<1>7. job' = [job EXCEPT !.todo = @ \ {r}, !.items = @ \cup new]
  BY <1>5 DEF JobCollects
<1>8. /\ job' \in LifeJobs /\ job'.own = job.own /\ job'.refs = job.refs
      /\ job'.writes = job.writes /\ job'.todo = job.todo \ {r}
      /\ job'.items = job.items \cup new /\ job'.results = job.results /\ job'.at = "reviewing"
  BY <1>2, <1>6, <1>7 DEF LifeJobs
<1>9. WritesKnown'
  BY <1>1, <1>2, <1>8 DEF LifeInv, WritesKnown, Linked, store
<1> QED
  BY <1>1, <1>4, <1>6, <1>8, <1>9, JobAlone DEF LifeInv, PlansReached

LEMMA FailKeeps ==
    ASSUME LifeInv, JobFails
    PROVE  LifeInv'
<1>1. UNCHANGED <<scan, found, issue, store, review, admin>> /\ job' = NoJob
  BY DEF JobFails
<1>2. job' \in LifeJobs /\ WritesKnown'
  BY <1>1, NothingStored, NoJobKnown DEF LifeInv, LifeTypeOK
<1>3. NoJob.own = {} /\ NoJob.refs = {} /\ NoJob.todo = {} /\ NoJob.items = {}
  BY DEF NoJob
<1> QED
  BY <1>1, <1>2, <1>3, JobAlone

LEMMA ReconcileKeeps ==
    ASSUME LifeInv, PollReconciles
    PROVE  LifeInv'
<1>1. UNCHANGED <<scan, found, issue, store, admin>>
  BY DEF PollReconciles, JobOnly
<1>2. StoreOK /\ Forward /\ ClosedEnded' /\ RecordsReached'
  BY <1>1, NothingStored
<1>3. /\ review' \in [Keys -> {"none", "pending", "withdrawn"} \cup Settled]
      /\ \A k \in Keys : review'[k] # "none" => review[k] # "none"
  <2>1. PICK C, A : review' = Withdrawn(C, A)
    BY DEF PollReconciles
  <2> QED
    BY <2>1 DEF Withdrawn, LifeInv, LifeTypeOK, TablesOK
<1>4. TablesOK'
  BY <1>1, <1>2, <1>3 DEF TablesOK, StoreOK, LifeInv, LifeTypeOK
<1>5. job' \in LifeJobs /\ WritesKnown' /\ PlansReached'
  <2>1. job \in LifeJobs /\ job.at = "reconciling"
    BY DEF PollReconciles, LifeInv, LifeTypeOK
  <2>2. CASE job' = NoJob
    BY <1>2, <2>2, NoJobKnown DEF LifeInv, LifeTypeOK
  <2>3. CASE job' = [job EXCEPT !.at = "rechecking", !.todo = Sources]
    <3>1. PICK new : new = Sources
      OBVIOUS
    <3>2. new \subseteq Candidates /\ \A r \in new : Reached(r.cycle, r.gens)
      BY <2>1, <3>1, SourcesReached
    <3>3. /\ job' \in LifeJobs /\ job'.own = job.own /\ job'.refs = job.refs
          /\ job'.writes = job.writes /\ job'.todo = new /\ job'.items = job.items
          /\ job'.results = job.results /\ job'.at = "rechecking"
      BY <2>1, <2>3, <3>1, <3>2 DEF LifeJobs
    <3>4. WritesKnown'
      BY <1>1, <2>1, <3>3 DEF LifeInv, WritesKnown, Linked, store
    <3>5. PlansReached'
      BY <1>2, <3>2, <3>3, PlansFollow DEF LifeInv, LifeTypeOK, PlansReached
    <3> QED
      BY <3>3, <3>4, <3>5
  <2> QED
    BY <2>2, <2>3 DEF PollReconciles
<1>6. admin' \in LifeAdmins /\ ReviewsBegun'
  BY <1>1, <1>2, <1>3, ReviewsFollow DEF LifeInv, LifeTypeOK, ReviewsBegun
<1>7. IssuesBegun'
  BY <1>1, <1>2, IssuesFollow DEF LifeInv, LifeTypeOK, IssuesBegun
<1> QED
  BY <1>2, <1>4, <1>5, <1>6, <1>7 DEF LifeInv, LifeTypeOK

LEMMA QueueKeeps ==
    ASSUME LifeInv, JobQueues
    PROVE  LifeInv'
<1>1. UNCHANGED <<scan, found, issue, store, admin>> /\ job' = NoJob
  BY DEF JobQueues, JobOnly
<1>2. StoreOK /\ Forward /\ ClosedEnded' /\ RecordsReached'
  BY <1>1, NothingStored
<1>3. /\ review' \in [Keys -> {"none", "pending", "withdrawn"} \cup Settled]
      /\ \A k \in Keys : review'[k] # "none" => review[k] # "none" \/ k \in job.items
  BY DEF JobQueues, Queued, LifeInv, LifeTypeOK, TablesOK
<1>4. TablesOK'
  BY <1>1, <1>2, <1>3 DEF TablesOK, StoreOK, LifeInv, LifeTypeOK
<1>5. job' \in LifeJobs /\ WritesKnown' /\ PlansReached'
  BY <1>1, <1>2, NoJobKnown DEF LifeInv, LifeTypeOK
<1>6. \A k \in Keys : review'[k] # "none" => Begun(k[1])
  BY <1>3 DEF LifeInv, ReviewsBegun, PlansReached
<1>7. admin' \in LifeAdmins /\ ReviewsBegun'
  BY <1>1, <1>2, <1>6, ReviewsFollow DEF LifeInv, LifeTypeOK, ReviewsBegun
<1>8. IssuesBegun'
  BY <1>1, <1>2, IssuesFollow DEF LifeInv, LifeTypeOK, IssuesBegun
<1> QED
  BY <1>2, <1>4, <1>5, <1>7, <1>8 DEF LifeInv, LifeTypeOK

LEMMA RecheckKeeps ==
    ASSUME LifeInv, JobRechecks
    PROVE  LifeInv'
<1> DEFINE stored == {c \in Cycles : /\ Candidate(record[c].status)
                                     /\ \A r \in job.todo : r.cycle # c}
           others == {[cycle |-> c, findings |-> record[c].findings,
                       gens |-> record[c].gens, status |-> record[c].status] : c \in stored}
           candidates == job.todo \cup others
           there == {f \in UNION {r.findings : r \in candidates} : scan[f] # "gone"}
<1>1. UNCHANGED <<scan, issue, store, review, admin>>
  BY DEF JobRechecks
<1>2. \A r \in others : r \in Candidates /\ Reached(r.cycle, r.gens)
  <2> SUFFICES ASSUME NEW c \in Cycles, Candidate(record[c].status)
               PROVE  /\ [cycle |-> c, findings |-> record[c].findings,
                          gens |-> record[c].gens, status |-> record[c].status] \in Candidates
                      /\ Reached(c, record[c].gens)
    OBVIOUS
  <2>1. record[c] \in Records /\ Exists(c)
    BY DEF LifeInv, LifeTypeOK, TablesOK, Candidate, Exists
  <2> QED
    BY <2>1 DEF Records, Candidates, Candidate, LifeInv, RecordsReached
<1>3. \A r \in candidates : r \in Candidates /\ Reached(r.cycle, r.gens)
  <2> HIDE DEF others
  <2> QED
    BY <1>2 DEF LifeInv, LifeTypeOK, LifeJobs, PlansReached
<1> HIDE DEF candidates, others, stored
<1>4. PICK fetched \in SUBSET there :
        /\ found' = Upserted(found, [f \in fetched |-> scan[f]])
        /\ job' = [NoJob EXCEPT !.at = "reviewing", !.todo = candidates,
                                !.known = [f \in Findings |-> found'[f].state]]
  BY DEF JobRechecks, candidates, others, stored
<1>5. fetched \in SUBSET Findings
  BY <1>3, <1>4 DEF Candidates
<1> DEFINE seen == [f \in fetched |-> scan[f]]
<1>6. seen \in [fetched -> {"active", "mitigated", "inactive"}]
  BY <1>4, <1>5 DEF LifeInv, LifeTypeOK, TablesOK
<1>7. found \in FoundRows /\ Countable /\ \A f \in fetched : seen[f] = "active" => scan[f] = "active"
  BY DEF LifeInv, LifeTypeOK, TablesOK, JobRechecks
<1>8. found' = Upserted(found, seen)
  BY <1>4
<1> HIDE DEF seen
<1>9. FoundGrows
  BY <1>5, <1>6, <1>7, <1>8, UpsertedGrows DEF FoundGrows
<1>10. StoreOK /\ Forward /\ ClosedEnded' /\ RecordsReached'
  BY <1>1, <1>9, StoreStays DEF LifeInv, LifeTypeOK
<1>11. TablesOK'
  BY <1>1, <1>9, <1>10 DEF TablesOK, StoreOK, FoundGrows, LifeInv, LifeTypeOK
<1>12. job' \in LifeJobs /\ WritesKnown' /\ PlansReached'
  <2>1. [f \in Findings |-> found'[f].state] \in [Findings -> FindingStates]
    BY <1>9 DEF FoundGrows, FoundRows
  <2>2. PICK known \in [Findings -> FindingStates] : known = [f \in Findings |-> found'[f].state]
    BY <2>1
  <2>3. job' = [NoJob EXCEPT !.at = "reviewing", !.todo = candidates, !.known = known]
    BY <1>4, <2>2
  <2>4. candidates \subseteq Candidates
    BY <1>3
  <2>5. /\ job' \in LifeJobs /\ job'.own = {} /\ job'.refs = {} /\ job'.writes = {}
        /\ job'.todo = candidates /\ job'.items = {}
    BY <2>2, <2>3, <2>4 DEF NoJob, LifeJobs
  <2>6. WritesKnown'
    BY <2>5 DEF WritesKnown
  <2> QED
    BY <1>3, <1>10, <2>5, <2>6, PlansFollow DEF LifeInv, LifeTypeOK
<1>13. admin' \in LifeAdmins /\ ReviewsBegun'
  BY <1>1, <1>10, AdminStays DEF LifeInv
<1>14. IssuesBegun'
  BY <1>1, <1>10, IssuesFollow DEF LifeInv, LifeTypeOK, IssuesBegun
<1> QED
  BY <1>10, <1>11, <1>12, <1>13, <1>14 DEF LifeInv, LifeTypeOK

-----------------------------------------------------------------------------
(* The steps that write records. *)

\* Jobs and administrators write the record of a reference, with a status.
LEMMA RecordWritable ==
    ASSUME NEW c \in Cycles, NEW r, r.findings \in SUBSET Findings, r.gens \in Gens,
           Reached(c, r.gens), NEW s \in Statuses \cup {"missing"}
    PROVE  Writable(c, RecordOf(r, s)) /\ RecordOf(r, s).status = s
BY DEF Writable, RecordOf, Records, Gens

\* The answer about an issue may say, besides, that it was closed once.
LEMMA AnswerWritable ==
    ASSUME NEW r, r.cycle \in Cycles, r.findings \in SUBSET Findings, r.gens \in Gens,
           Reached(r.cycle, r.gens), job.results[r.cycle] \in Statuses \cup {"missing"}
    PROVE  Writable(r.cycle, Answered(r)) /\ Answered(r).status = job.results[r.cycle]
<1>1. PICK s \in Statuses \cup {"missing"} : s = job.results[r.cycle]
  OBVIOUS
<1>2. (r.cycle \in job.closed) \in BOOLEAN
  OBVIOUS
<1>3. Answered(r) = [status |-> s, ended |-> r.cycle \in job.closed,
                     findings |-> r.findings, gens |-> r.gens]
  BY <1>1 DEF Answered, RecordOf
<1> QED
  BY <1>1, <1>2, <1>3 DEF Writable, Records, Gens

LEMMA WritesKeep ==
    ASSUME LifeInv, NEW r \in job.writes, JobWrites(r)
    PROVE  LifeInv'
<1>1. UNCHANGED <<scan, found, issue, review, admin>>
  BY DEF JobWrites
<1>2. /\ job \in LifeJobs /\ job.at = "checking" /\ r \in job.refs
      /\ \A q \in job.refs : job.results[q.cycle] # "none"
  BY DEF JobWrites, AllChecked, LifeInv, LifeTypeOK, WritesKnown
<1>3. r.cycle \in Cycles /\ r.findings \in SUBSET Findings /\ r.gens \in Gens
      /\ Reached(r.cycle, r.gens)
  BY <1>2 DEF LifeJobs, References, Gens, LifeInv, PlansReached
<1>4. FoundGrows
  BY <1>1 DEF LifeInv, LifeTypeOK, TablesOK, FoundRows, FoundGrows
<1>5. /\ StoreOK /\ Forward /\ ClosedEnded' /\ RecordsReached'
      /\ \A d \in Cycles \ {r.cycle} : LinkedStays(d)
      /\ job.results[r.cycle] \in Statuses => Linked(r.cycle)' \/ lost'
  <2>1. CASE UNCHANGED store /\ (job.results[r.cycle] = "failed" \/ Unchanged(r))
    <3>1. StoreOK /\ Forward /\ ClosedEnded' /\ RecordsReached' /\ \A d \in Cycles : LinkedStays(d)
      BY <1>1, <2>1, NothingStored
    <3>2. job.results[r.cycle] \in Statuses => Linked(r.cycle)
      BY <2>1 DEF Unchanged, Linked, Statuses
    <3> QED
      BY <1>3, <3>1, <3>2 DEF LinkedStays
  <2>2. CASE /\ job.results[r.cycle] # "failed"
             /\ Stores(Written(record, r.cycle, Answered(r)))
    <3>1. PICK s \in Statuses \cup {"missing"} : s = job.results[r.cycle]
      BY <1>2, <1>3, <2>2 DEF LifeJobs
    <3>2. PICK w : w = Answered(r)
      OBVIOUS
    <3>3. Writable(r.cycle, w) /\ w.status = s
      BY <1>3, <3>1, <3>2, AnswerWritable
    <3>4. Stores(Written(record, r.cycle, w))
      BY <2>2, <3>2
    <3>5. /\ StoreOK /\ Forward /\ ClosedEnded' /\ RecordsReached'
          /\ \A d \in Cycles \ {r.cycle} : LinkedStays(d)
          /\ w.status \in Statuses => Linked(r.cycle)'
      BY <1>4, <3>3, <3>4, WriteKeeps DEF LifeInv, LifeTypeOK
    <3> QED
      BY <3>1, <3>3, <3>5
  <2> QED
    BY <2>1, <2>2 DEF JobWrites
<1>6. TablesOK'
  BY <1>1, <1>5 DEF TablesOK, StoreOK, LifeInv, LifeTypeOK
<1>7. job' \in LifeJobs /\ WritesKnown' /\ PlansReached'
  <2>1. job' = [job EXCEPT !.writes = @ \ {r}]
    BY DEF JobWrites
  <2>2. /\ job' \in LifeJobs /\ job'.own = job.own /\ job'.refs = job.refs
        /\ job'.writes = job.writes \ {r} /\ job'.todo = job.todo /\ job'.items = job.items
        /\ job'.results = job.results /\ job'.at = "checking"
    BY <1>2, <2>1 DEF LifeJobs
  <2>3. WritesKnown'
    <3>1. \A q \in job.refs : q.cycle \in Cycles
      BY <1>2 DEF LifeJobs, References
    <3>2. \A q \in job.refs \ job.writes : job.results[q.cycle] \in Statuses => Linked(q.cycle) \/ lost
      BY DEF LifeInv, WritesKnown
    <3> QED
      BY <1>2, <1>5, <2>2, <3>1, <3>2 DEF LifeInv, WritesKnown, LinkedStays, Forward
  <2>4. PlansReached'
    BY <1>5, <2>2, PlansFollow DEF LifeInv, LifeTypeOK, PlansReached
  <2> QED
    BY <2>2, <2>3, <2>4
<1>8. admin' \in LifeAdmins /\ ReviewsBegun'
  BY <1>1, <1>5, AdminStays DEF LifeInv
<1>9. IssuesBegun'
  BY <1>1, <1>5, IssuesFollow DEF LifeInv, LifeTypeOK, IssuesBegun
<1> QED
  BY <1>5, <1>6, <1>7, <1>8, <1>9 DEF LifeInv, LifeTypeOK

LEMMA PrunedKeeps ==
    ASSUME LifeInv, JobPrunes
    PROVE  LifeInv'
<1>1. UNCHANGED <<scan, found, issue, review, admin>>
  BY DEF JobPrunes, JobOnly
<1>2. /\ job \in LifeJobs /\ job.writes = {}
      /\ \A q \in job.refs : job.results[q.cycle] # "none"
  BY DEF JobPrunes, AllChecked, LifeInv, LifeTypeOK
<1>3. FoundGrows
  BY <1>1 DEF LifeInv, LifeTypeOK, TablesOK, FoundRows, FoundGrows
<1>4. StoreOK /\ Forward /\ ClosedEnded' /\ RecordsReached' /\ \A d \in Cycles : LinkedStays(d)
  <2> DEFINE kept(c) == (\E r \in job.refs \cup job.own : r.cycle = c) \/ Ended(record[c])
  <2>1. record' = [c \in Cycles |-> IF kept(c) THEN record[c] ELSE NoRecord]
    BY DEF JobPrunes, Stores
  <2>2. /\ lost' \in BOOLEAN /\ (lost => lost')
        /\ \A d \in Cycles : (record'[d].status = "none" /\ Linked(d)) => lost'
    <3> DEFINE rs == [c \in Cycles |-> IF kept(c) THEN record[c] ELSE NoRecord]
    <3>1. lost' = (lost \/ \E c \in Cycles : Linked(c) /\ rs[c].status = "none") /\ record' = rs
      BY DEF JobPrunes, Stores
    <3> HIDE DEF rs
    <3> QED
      BY <3>1 DEF LifeInv, LifeTypeOK, TablesOK
  <2>3. \A d \in Cycles : ~kept(d) => ~Ended(record[d])
    OBVIOUS
  <2> HIDE DEF kept
  <2>4. NoRecord \in Records /\ NoRecord.status = "none"
    BY LifecycleAssumption DEF NoRecord, Records
  <2>5. \A d \in Cycles : record[d] \in Records
    BY DEF LifeInv, LifeTypeOK, TablesOK
  <2>6. record' \in [Cycles -> Records]
    BY <2>1, <2>4, <2>5
  <2>7. \A d \in Cycles : \/ record'[d] = record[d]
                          \/ record'[d] = NoRecord /\ ~Ended(record[d]) /\ (Linked(d) => lost')
    BY <2>1, <2>2, <2>3, <2>4
  <2> QED
    BY <1>3, <2>2, <2>6, <2>7, PruneKeeps DEF LifeInv, LifeTypeOK
<1>5. TablesOK'
  BY <1>1, <1>4 DEF TablesOK, StoreOK, LifeInv, LifeTypeOK
<1>6. job' \in LifeJobs /\ WritesKnown' /\ PlansReached'
  <2>1. PICK a \in {"creating", "reconciling"} : job' = [job EXCEPT !.at = a]
    BY DEF JobPrunes
  <2>2. /\ job' \in LifeJobs /\ job'.own = job.own /\ job'.refs = job.refs
        /\ job'.writes = job.writes /\ job'.todo = job.todo /\ job'.items = job.items
        /\ job'.results = job.results
    BY <1>2, <2>1 DEF LifeJobs
  <2>3. WritesKnown'
    <3>1. \A q \in job.refs : q.cycle \in Cycles
      BY <1>2 DEF LifeJobs, References
    <3>2. \A q \in job.refs \ job.writes : job.results[q.cycle] \in Statuses => Linked(q.cycle) \/ lost
      BY DEF LifeInv, WritesKnown
    <3> QED
      BY <1>2, <1>4, <2>2, <3>1, <3>2 DEF LifeInv, WritesKnown, LinkedStays, Forward
  <2>4. PlansReached'
    BY <1>4, <2>2, PlansFollow DEF LifeInv, LifeTypeOK, PlansReached
  <2> QED
    BY <2>2, <2>3, <2>4
<1>7. admin' \in LifeAdmins /\ ReviewsBegun'
  BY <1>1, <1>4, AdminStays DEF LifeInv
<1>8. IssuesBegun'
  BY <1>1, <1>4, IssuesFollow DEF LifeInv, LifeTypeOK, IssuesBegun
<1> QED
  BY <1>4, <1>5, <1>6, <1>7, <1>8 DEF LifeInv, LifeTypeOK

LEMMA CreateKeeps ==
    ASSUME LifeInv, SyncCreates
    PROVE  LifeInv'
<1>1. UNCHANGED <<scan, found, review, admin>>
  BY DEF SyncCreates
<1>2. job \in LifeJobs /\ job.at = "creating" /\ job.writes = {}
  BY DEF SyncCreates, LifeInv, LifeTypeOK, WritesKnown
<1>3. PICK r \in job.own :
        /\ CurrentCycle = r.cycle
        /\ issue' = [issue EXCEPT ![r.cycle] = "new"]
        /\ Stores(Written(record, r.cycle, RecordOf(CurrentRef, "new")))
        /\ job' = [job EXCEPT !.results[r.cycle] = "new"]
  BY DEF SyncCreates
<1>4. PICK c \in Cycles : c = CurrentCycle /\ c = r.cycle
  BY <1>2, <1>3 DEF LifeJobs, References
<1>5. FoundGrows
  BY <1>1 DEF LifeInv, LifeTypeOK, TablesOK, FoundRows, FoundGrows
<1>6. PICK ref : ref = CurrentRef
  OBVIOUS
<1>7. /\ ref.findings \in SUBSET Findings /\ ref.gens \in Gens
      /\ Reached(c, ref.gens)
  <2>1. CurrentCycle \in Cycles
    BY <1>4
  <2>2. CurrentRef \in References /\ CurrentRef.gens \in Gens /\ Reached(CurrentCycle, CurrentRef.gens)
    BY <2>1, CurrentRefType, CurrentRefReached DEF LifeInv, LifeTypeOK
  <2> QED
    BY <1>4, <1>6, <2>2 DEF References
<1>8. PICK w : w = RecordOf(ref, "new")
  OBVIOUS
<1>9. Writable(c, w) /\ w.status = "new"
  BY <1>7, <1>8, RecordWritable DEF Statuses
<1>10. Stores(Written(record, c, w))
  BY <1>3, <1>4, <1>6, <1>8
<1>11. /\ StoreOK /\ Forward /\ ClosedEnded' /\ RecordsReached'
       /\ \A d \in Cycles \ {c} : LinkedStays(d)
       /\ Linked(c)'
  BY <1>5, <1>9, <1>10, WriteKeeps DEF LifeInv, LifeTypeOK, Statuses
<1>12. /\ issue' \in [Cycles -> Statuses \cup {"none"}]
       /\ \A d \in Cycles : issue'[d] # "none" => d = c \/ issue[d] # "none"
  BY <1>3, <1>4 DEF Statuses, LifeInv, LifeTypeOK, TablesOK
<1>13. TablesOK'
  BY <1>1, <1>11, <1>12 DEF TablesOK, StoreOK, LifeInv, LifeTypeOK
<1>14. job' \in LifeJobs /\ WritesKnown' /\ PlansReached'
  <2>1. job' = [job EXCEPT !.results[c] = "new"]
    BY <1>3, <1>4
  <2>2. /\ job' \in LifeJobs /\ job'.own = job.own /\ job'.refs = job.refs
        /\ job'.writes = {} /\ job'.todo = job.todo /\ job'.items = job.items
        /\ job'.results[c] = "new"
        /\ \A d \in Cycles \ {c} : job'.results[d] = job.results[d]
    BY <1>2, <2>1 DEF LifeJobs, Statuses
  <2>3. WritesKnown'
    <3>1. \A q \in job.refs : q.cycle \in Cycles
      BY <1>2 DEF LifeJobs, References
    <3>2. \A q \in job.refs : /\ job.results[q.cycle] # "none"
                              /\ job.results[q.cycle] \in Statuses => Linked(q.cycle) \/ lost
      BY <1>2 DEF LifeInv, WritesKnown
    <3> QED
      BY <1>11, <2>2, <3>1, <3>2 DEF WritesKnown, LinkedStays, Forward
  <2>4. PlansReached'
    BY <1>11, <2>2, PlansFollow DEF LifeInv, LifeTypeOK, PlansReached
  <2> QED
    BY <2>2, <2>3, <2>4
<1>15. admin' \in LifeAdmins /\ ReviewsBegun'
  BY <1>1, <1>11, AdminStays DEF LifeInv
<1>16. IssuesBegun'
  <2>1. Begun(c)
    BY <1>7, ReachedBegun DEF LifeInv, LifeTypeOK, TablesOK
  <2>2. \A d \in Cycles : issue'[d] # "none" => Begun(d)
    BY <1>12, <2>1 DEF LifeInv, IssuesBegun
  <2> QED
    BY <1>11, <2>2, IssuesFollow DEF LifeInv, LifeTypeOK
<1> QED
  BY <1>11, <1>13, <1>14, <1>15, <1>16 DEF LifeInv, LifeTypeOK

LEMMA ReopenKeeps ==
    ASSUME LifeInv, NEW r \in job.todo, JobReopens(r)
    PROVE  LifeInv'
<1>1. UNCHANGED <<scan, found, review, admin>>
  BY DEF JobReopens
<1>2. job \in LifeJobs /\ job.at = "reviewing"
  BY DEF JobReopens, LifeInv, LifeTypeOK
<1>3. r.cycle \in Cycles /\ r.findings \in SUBSET Findings /\ r.gens \in Gens
      /\ Reached(r.cycle, r.gens)
  BY <1>2 DEF LifeJobs, Candidates, Gens, LifeInv, PlansReached
<1>4. PICK landed \in BOOLEAN, answered \in BOOLEAN :
        /\ issue' = IF landed THEN [issue EXCEPT ![r.cycle] = "feedback"] ELSE issue
        /\ Stores(IF landed /\ answered
                  THEN Written(record, r.cycle, RecordOf(r, "feedback")) ELSE record)
  BY DEF JobReopens
<1>5. FoundGrows
  BY <1>1 DEF LifeInv, LifeTypeOK, TablesOK, FoundRows, FoundGrows
<1>6. /\ StoreOK /\ Forward /\ ClosedEnded' /\ RecordsReached'
      /\ \A d \in Cycles : LinkedStays(d)
  <2>1. CASE landed /\ answered
    <3>1. PICK w : w = RecordOf(r, "feedback")
      OBVIOUS
    <3>2. Writable(r.cycle, w) /\ w.status \in Statuses
      BY <1>3, <3>1, RecordWritable DEF Statuses
    <3>3. Stores(Written(record, r.cycle, w))
      BY <1>4, <2>1, <3>1
    <3> QED
      BY <1>5, <3>2, <3>3, WriteKeeps DEF LifeInv, LifeTypeOK, LinkedStays
  <2>2. CASE ~(landed /\ answered)
    <3>1. Stores(record)
      BY <1>4, <2>2
    <3>2. UNCHANGED record /\ (lost' = lost)
      BY <3>1 DEF Stores, Linked, Statuses, LifeInv, LifeTypeOK, TablesOK
    <3> QED
      BY <1>1, <3>2, NothingStored DEF store
  <2> QED
    BY <2>1, <2>2
<1>7. /\ issue' \in [Cycles -> Statuses \cup {"none"}]
      /\ \A d \in Cycles : issue'[d] # "none" => d = r.cycle \/ issue[d] # "none"
  BY <1>3, <1>4 DEF Statuses, LifeInv, LifeTypeOK, TablesOK
<1>8. TablesOK'
  BY <1>1, <1>6, <1>7 DEF TablesOK, StoreOK, LifeInv, LifeTypeOK
<1>9. job' \in LifeJobs /\ WritesKnown' /\ PlansReached'
  <2>1. job' = [job EXCEPT !.todo = @ \ {r}]
    BY DEF JobReopens
  <2>2. /\ job' \in LifeJobs /\ job'.own = job.own /\ job'.refs = job.refs
        /\ job'.writes = job.writes /\ job'.todo = job.todo \ {r} /\ job'.items = job.items
        /\ job'.results = job.results /\ job'.at = "reviewing"
    BY <1>2, <2>1 DEF LifeJobs
  <2>3. WritesKnown'
    <3>1. \A q \in job.refs : q.cycle \in Cycles
      BY <1>2 DEF LifeJobs, References
    <3> QED
      BY <1>2, <1>6, <2>2, <3>1 DEF LifeInv, WritesKnown, LinkedStays, Forward
  <2>4. PlansReached'
    BY <1>6, <2>2, PlansFollow DEF LifeInv, LifeTypeOK, PlansReached
  <2> QED
    BY <2>2, <2>3, <2>4
<1>10. admin' \in LifeAdmins /\ ReviewsBegun'
  BY <1>1, <1>6, AdminStays DEF LifeInv
<1>11. IssuesBegun'
  <2>1. Begun(r.cycle)
    BY <1>3, ReachedBegun DEF LifeInv, LifeTypeOK, TablesOK
  <2>2. \A d \in Cycles : issue'[d] # "none" => Begun(d)
    BY <1>7, <2>1 DEF LifeInv, IssuesBegun
  <2> QED
    BY <1>6, <2>2, IssuesFollow DEF LifeInv, LifeTypeOK
<1> QED
  BY <1>6, <1>8, <1>9, <1>10, <1>11 DEF LifeInv, LifeTypeOK

-----------------------------------------------------------------------------
(* The administrators. *)

LEMMA ActKeeps ==
    ASSUME LifeInv, AdminActs
    PROVE  LifeInv'
<1>1. UNCHANGED <<scan, found, issue, store, review, job>>
  BY DEF AdminActs, AdminOnly
<1>2. StoreOK /\ Forward /\ ClosedEnded' /\ RecordsReached' /\ \A d \in Cycles : LinkedStays(d)
  BY <1>1, NothingStored
<1>3. TablesOK'
  BY <1>1, <1>2 DEF TablesOK, StoreOK, LifeInv, LifeTypeOK
<1>4. job' \in LifeJobs /\ WritesKnown' /\ PlansReached'
  BY <1>1, <1>2, JobStays DEF LifeInv
<1>5. PICK c \in Cycles, t \in Types, a \in Reviewing :
        /\ Pending(c, t) # {}
        /\ admin' = [at |-> IF a = "engineer_approve" THEN "checking"
                            ELSE IF a = "close_redmine" THEN "updating" ELSE "applying",
                     action |-> a, cycle |-> c, type |-> t, keys |-> Pending(c, t)]
  BY DEF AdminActs
<1>6. \A k \in Pending(c, t) : k \in Keys /\ k[1] = c /\ Begun(k[1])
  BY DEF Pending, LifeInv, ReviewsBegun
<1>7. admin' \in LifeAdmins /\ Begun(admin'.cycle) /\ \A k \in admin'.keys : Begun(k[1])
  <2>1. Begun(c)
    BY <1>5, <1>6
  <2>2. a \in {"mark_reviewed", "ignore", "engineer_approve", "close_redmine"}
    BY LifecycleAssumption
  <2>3. PICK keys \in SUBSET Keys : keys = Pending(c, t)
    BY <1>6
  <2> QED
    BY <1>5, <1>6, <2>1, <2>2, <2>3 DEF LifeAdmins
<1>8. ReviewsBegun'
  BY <1>1, <1>2, <1>7, ReviewsFollow DEF LifeInv, LifeTypeOK, ReviewsBegun
<1>9. IssuesBegun'
  BY <1>1, <1>2, IssuesFollow DEF LifeInv, LifeTypeOK, IssuesBegun
<1> QED
  BY <1>2, <1>3, <1>4, <1>7, <1>8, <1>9 DEF LifeInv, LifeTypeOK

\* Steps of an administrator that leave the store alone and change no key.
LEMMA AdminAlone ==
    ASSUME LifeInv, UNCHANGED <<scan, found, store, job>>,
           issue' \in [Cycles -> Statuses \cup {"none"}],
           \A d \in Cycles : issue'[d] # "none" => d = admin.cycle \/ issue[d] # "none",
           review' \in [Keys -> {"none", "pending", "withdrawn"} \cup Settled],
           \A k \in Keys : review'[k] # "none" => review[k] # "none" \/ k \in admin.keys,
           \/ admin' = NoAdmin
           \/ /\ admin' \in LifeAdmins
              /\ admin'.cycle = admin.cycle /\ admin'.keys \subseteq admin.keys
    PROVE  LifeInv'
<1>1. StoreOK /\ Forward /\ ClosedEnded' /\ RecordsReached' /\ \A d \in Cycles : LinkedStays(d)
  BY NothingStored
<1>2. TablesOK'
  BY <1>1 DEF TablesOK, StoreOK, LifeInv, LifeTypeOK
<1>3. job' \in LifeJobs /\ WritesKnown' /\ PlansReached'
  BY <1>1, JobStays DEF LifeInv
<1>4. \A k \in Keys : review'[k] # "none" => Begun(k[1])
  BY DEF LifeInv, ReviewsBegun
<1>5. admin' \in LifeAdmins /\ ReviewsBegun'
  <2>1. CASE admin' = NoAdmin
    BY <1>1, <1>4, <2>1, NoAdminBegun DEF LifeInv, LifeTypeOK
  <2>2. CASE /\ admin' \in LifeAdmins
             /\ admin'.cycle = admin.cycle /\ admin'.keys \subseteq admin.keys
    <3>1. Begun(admin'.cycle) /\ \A k \in admin'.keys : Begun(k[1])
      BY <2>2 DEF LifeInv, ReviewsBegun
    <3> QED
      BY <1>1, <1>4, <2>2, <3>1, ReviewsFollow DEF LifeInv, LifeTypeOK
  <2> QED
    BY <2>1, <2>2
<1>6. IssuesBegun'
  <2>1. \A d \in Cycles : issue'[d] # "none" => Begun(d)
    BY DEF LifeInv, IssuesBegun, ReviewsBegun
  <2> QED
    BY <1>1, <2>1, IssuesFollow DEF LifeInv, LifeTypeOK
<1> QED
  BY <1>1, <1>2, <1>3, <1>5, <1>6 DEF LifeInv, LifeTypeOK

LEMMA AdminCheckKeeps ==
    ASSUME LifeInv, AdminChecks
    PROVE  LifeInv'
<1>1. UNCHANGED <<scan, found, issue, store, job>>
  BY DEF AdminChecks, AdminOnly
<1>2. admin \in LifeAdmins /\ issue \in [Cycles -> Statuses \cup {"none"}]
  BY DEF LifeInv, LifeTypeOK, TablesOK
<1>3. CASE admin' = [admin EXCEPT !.at = "updating"] /\ UNCHANGED review
  <2>1. /\ admin' \in LifeAdmins
        /\ admin'.cycle = admin.cycle /\ admin'.keys = admin.keys
    BY <1>2, <1>3 DEF LifeAdmins
  <2>2. /\ review' \in [Keys -> {"none", "pending", "withdrawn"} \cup Settled]
        /\ \A k \in Keys : review'[k] # "none" => review[k] # "none"
    BY <1>3 DEF LifeInv, LifeTypeOK, TablesOK
  <2> QED
    BY <1>1, <1>2, <2>1, <2>2, AdminAlone
<1>4. CASE admin' = NoAdmin /\ review' = Withdrawn({admin.cycle}, {})
  <2>1. /\ review' \in [Keys -> {"none", "pending", "withdrawn"} \cup Settled]
        /\ \A k \in Keys : review'[k] # "none" => review[k] # "none"
    BY <1>4 DEF Withdrawn, LifeInv, LifeTypeOK, TablesOK
  <2> QED
    BY <1>1, <1>2, <1>4, <2>1, AdminAlone
<1> QED
  BY <1>3, <1>4 DEF AdminChecks

LEMMA AdminUpdateKeeps ==
    ASSUME LifeInv, AdminUpdates
    PROVE  LifeInv'
<1>1. UNCHANGED <<scan, found, store, review, job>>
  BY DEF AdminUpdates, AdminOnly
<1>2. admin \in LifeAdmins /\ issue \in [Cycles -> Statuses \cup {"none"}]
  BY DEF LifeInv, LifeTypeOK, TablesOK
<1>3. /\ admin' \in LifeAdmins
      /\ admin'.cycle = admin.cycle /\ admin'.keys = admin.keys
  BY <1>2 DEF AdminUpdates, LifeAdmins
<1>4. /\ issue' \in [Cycles -> Statuses \cup {"none"}]
      /\ \A d \in Cycles : issue'[d] # "none" => d = admin.cycle \/ issue[d] # "none"
  BY <1>2 DEF AdminUpdates, TargetStatus, Statuses
<1>5. review' \in [Keys -> {"none", "pending", "withdrawn"} \cup Settled] /\ review' = review
  BY <1>1 DEF LifeInv, LifeTypeOK, TablesOK
<1> QED
  BY <1>1, <1>3, <1>4, <1>5, AdminAlone

LEMMA AdminRecordKeeps ==
    ASSUME LifeInv, AdminRecords
    PROVE  LifeInv'
<1>1. UNCHANGED <<scan, found, issue, review, job>>
  BY DEF AdminRecords, AdminOnly
<1>2. admin \in LifeAdmins
  BY DEF LifeInv, LifeTypeOK
<1>3. PICK c \in Cycles : c = admin.cycle
  BY <1>2 DEF LifeAdmins
<1>4. FoundGrows
  BY <1>1 DEF LifeInv, LifeTypeOK, TablesOK, FoundRows, FoundGrows
<1>5. /\ StoreOK /\ Forward /\ ClosedEnded' /\ RecordsReached'
      /\ \A d \in Cycles : LinkedStays(d)
  <2>1. CASE Exists(c)
    <3>1. PICK r \in Records : r = record[c]
      BY DEF LifeInv, LifeTypeOK, TablesOK
    <3>2. r.findings \in SUBSET Findings /\ r.gens \in Gens /\ Reached(c, r.gens)
      BY <2>1, <3>1 DEF Records, Gens, LifeInv, RecordsReached
    <3>3. PICK s \in {"approved", "closed"} : s = TargetStatus
      BY DEF TargetStatus
    <3>4. PICK w : w = RecordOf(r, s)
      OBVIOUS
    <3>5. Writable(c, w) /\ w.status \in Statuses
      BY <3>2, <3>4, RecordWritable DEF Statuses
    <3>6. Stores(Written(record, c, w))
      BY <1>3, <2>1, <3>1, <3>3, <3>4 DEF AdminRecords
    <3> QED
      BY <1>4, <3>5, <3>6, WriteKeeps DEF LifeInv, LifeTypeOK, LinkedStays
  <2>2. CASE ~Exists(c)
    <3>1. Stores(record)
      BY <1>3, <2>2 DEF AdminRecords
    <3>2. UNCHANGED record /\ (lost' = lost)
      BY <3>1 DEF Stores, Linked, Statuses, LifeInv, LifeTypeOK, TablesOK
    <3> QED
      BY <1>1, <3>2, NothingStored DEF store
  <2> QED
    BY <2>1, <2>2
<1>6. TablesOK'
  BY <1>1, <1>5 DEF TablesOK, StoreOK, LifeInv, LifeTypeOK
<1>7. job' \in LifeJobs /\ WritesKnown' /\ PlansReached'
  BY <1>1, <1>5, JobStays DEF LifeInv
<1>8. admin' \in LifeAdmins /\ ReviewsBegun'
  <2>1. /\ admin' \in LifeAdmins
        /\ admin'.cycle = admin.cycle /\ admin'.keys = admin.keys
    BY <1>2 DEF AdminRecords, LifeAdmins
  <2> QED
    BY <1>1, <1>5, <2>1, ReviewsFollow DEF LifeInv, LifeTypeOK, ReviewsBegun
<1>9. IssuesBegun'
  BY <1>1, <1>5, IssuesFollow DEF LifeInv, LifeTypeOK, IssuesBegun
<1> QED
  BY <1>5, <1>6, <1>7, <1>8, <1>9 DEF LifeInv, LifeTypeOK

LEMMA SettledBySettles ==
    ASSUME admin \in LifeAdmins
    PROVE  SettledBy(admin.action) \in Settled
<1>1. admin.action \in {"mark_reviewed", "ignore", "engineer_approve", "close_redmine"}
  BY DEF LifeAdmins
<1>2. PICK a \in {"mark_reviewed", "ignore", "engineer_approve", "close_redmine"} :
        a = admin.action
  BY <1>1
<1>3. SettledBy(a) \in Settled
  BY DEF SettledBy, Settled
<1> QED
  BY <1>2, <1>3

LEMMA AdminApplyKeeps ==
    ASSUME LifeInv, NEW k \in admin.keys, AdminApplies(k)
    PROVE  LifeInv'
<1>1. UNCHANGED <<scan, found, issue, store, job>>
  BY DEF AdminApplies, AdminOnly
<1>2. admin \in LifeAdmins /\ issue \in [Cycles -> Statuses \cup {"none"}]
  BY DEF LifeInv, LifeTypeOK, TablesOK
<1>3. \/ admin' = NoAdmin
      \/ /\ admin' \in LifeAdmins
         /\ admin'.cycle = admin.cycle /\ admin'.keys \subseteq admin.keys
  <2>1. CASE admin' = [admin EXCEPT !.keys = @ \ {k}]
    BY <1>2, <2>1 DEF LifeAdmins
  <2> QED
    BY <2>1 DEF AdminApplies
<1>4. PICK s \in Settled : review' = [review EXCEPT ![k] = s]
  BY <1>2, SettledBySettles DEF AdminApplies
<1>5. /\ review' \in [Keys -> {"none", "pending", "withdrawn"} \cup Settled]
      /\ \A q \in Keys : review'[q] # "none" => review[q] # "none" \/ q \in admin.keys
  BY <1>4 DEF LifeInv, LifeTypeOK, TablesOK
<1> QED
  BY <1>1, <1>2, <1>3, <1>5, AdminAlone

LEMMA AdminFailKeeps ==
    ASSUME LifeInv, AdminFails
    PROVE  LifeInv'
<1>1. UNCHANGED <<scan, found, issue, store, review, job>> /\ admin' = NoAdmin
  BY DEF AdminFails
<1>2. /\ issue \in [Cycles -> Statuses \cup {"none"}]
      /\ review \in [Keys -> {"none", "pending", "withdrawn"} \cup Settled]
  BY DEF LifeInv, LifeTypeOK, TablesOK
<1> QED
  BY <1>1, <1>2, AdminAlone

-----------------------------------------------------------------------------
(* The invariant. *)

LEMMA LifeBegins ==
    ASSUME TicketInit
    PROVE  LifeInv
<1>1. NoRecord \in Records /\ NoRecord.status = "none" /\ \A f \in Findings : NoRecord.gens[f] = 0
  BY LifecycleAssumption DEF NoRecord, Records
<1>2. TablesOK
  <2>1. found \in FoundRows
    BY LifecycleAssumption DEF TicketInit, FoundRows, FindingStates
  <2>2. record \in [Cycles -> Records]
    BY <1>1 DEF TicketInit
  <2> QED
    BY <2>1, <2>2 DEF TicketInit, TablesOK
<1>3. NoJob \in LifeJobs
  BY DEF NoJob, LifeJobs, FindingStates
<1>4. NoAdmin \in LifeAdmins /\ NoAdmin.cycle = 1 /\ NoAdmin.keys = {}
  BY <1>2, FirstBegun DEF NoAdmin, LifeAdmins, Types
<1>5. LifeTypeOK
  BY <1>2, <1>3, <1>4 DEF TicketInit, LifeTypeOK
<1>6. ClosedEnded
  BY <1>1 DEF TicketInit, ClosedEnded, IsClosed
<1>7. RecordsReached
  <2>1. \A c \in Cycles : record[c] = NoRecord
    BY DEF TicketInit
  <2> QED
    BY <1>1, <2>1 DEF RecordsReached, Covered, Exists
<1>8. WritesKnown /\ PlansReached
  BY DEF TicketInit, WritesKnown, PlansReached, NoJob
<1>9. IssuesBegun
  BY DEF TicketInit, IssuesBegun
<1>10. ReviewsBegun
  BY <1>2, <1>4, FirstBegun DEF TicketInit, ReviewsBegun
<1> QED
  BY <1>5, <1>6, <1>7, <1>8, <1>9, <1>10 DEF LifeInv

LEMMA LifeGoesOn ==
    ASSUME LifeInv, [TicketNext]_ticketVars
    PROVE  LifeInv'
<1>1. CASE \E f \in Findings : ScanChanges(f)
  BY <1>1, ScanKeeps
<1>2. CASE \E c \in Cycles : EngineerMoves(c)
  BY <1>2, MoveKeeps
<1>3. CASE SyncPulls
  BY <1>3, PullKeeps
<1>4. CASE PollStarts \/ SyncPlans
  BY <1>4, PlanKeeps DEF PollStarts, SyncPlans
<1>5. CASE \E c \in Cycles : JobChecks(c)
  BY <1>5, CheckKeeps
<1>6. CASE \E r \in job.writes : JobWrites(r)
  BY <1>6, WritesKeep
<1>7. CASE JobPrunes
  BY <1>7, PrunedKeeps
<1>8. CASE SyncCreates
  BY <1>8, CreateKeeps
<1>9. CASE SyncGoesOn
  BY <1>9, GoOnKeeps
<1>10. CASE PollReconciles
  BY <1>10, ReconcileKeeps
<1>11. CASE JobRechecks
  BY <1>11, RecheckKeeps
<1>12. CASE \E r \in job.todo : JobCollects(r) \/ JobReopens(r)
  BY <1>12, CollectKeeps, ReopenKeeps
<1>13. CASE JobQueues
  BY <1>13, QueueKeeps
<1>14. CASE JobFails
  BY <1>14, FailKeeps
<1>15. CASE AdminActs
  BY <1>15, ActKeeps
<1>16. CASE AdminChecks
  BY <1>16, AdminCheckKeeps
<1>17. CASE AdminUpdates
  BY <1>17, AdminUpdateKeeps
<1>18. CASE AdminRecords
  BY <1>18, AdminRecordKeeps
<1>19. CASE \E k \in admin.keys : AdminApplies(k)
  BY <1>19, AdminApplyKeeps
<1>20. CASE AdminFails
  BY <1>20, AdminFailKeeps
<1>21. CASE UNCHANGED ticketVars
  <2>1. UNCHANGED <<scan, found, issue, store, review, admin, job>>
    BY <1>21 DEF ticketVars
  <2>2. job' \in LifeJobs /\ WritesKnown'
    BY <2>1, NothingStored, JobStays DEF LifeInv
  <2> QED
    BY <2>1, <2>2, JobAlone DEF LifeInv, PlansReached
<1> QED
  BY <1>1, <1>2, <1>3, <1>4, <1>5, <1>6, <1>7, <1>8, <1>9, <1>10, <1>11, <1>12, <1>13,
     <1>14, <1>15, <1>16, <1>17, <1>18, <1>19, <1>20, <1>21
     DEF TicketNext, JobNext, JobProgress, AdminNext

\* In every state the records, plans, issues and reviews are of cycles that
\* were begun: those before them ended, and unless a record was lost each stands
\* for a reactivation of its own (applyLifecycleCyclesToTicketRefs,
\* mergeStoredLifecycle).
THEOREM LifeInvariant == TicketSpec => []LifeInv
<1>1. TicketInit => LifeInv
  BY LifeBegins
<1>2. LifeInv /\ [TicketNext]_ticketVars => LifeInv'
  BY LifeGoesOn
<1> QED
  BY <1>1, <1>2, PTL DEF TicketSpec

\* The issue of a later cycle exists only if the earlier cycle was closed.
THEOREM LifeFollowsClosing == TicketSpec => []CyclesFollowClosing
<1>1. LifeInv => CyclesFollowClosing
  <2> SUFFICES ASSUME LifeInv, NEW c \in Cycles \ {1}, issue[c] # "none"
               PROVE  record[c - 1].ended
    BY DEF CyclesFollowClosing
  <2>1. Behind(c)
    BY DEF LifeInv, IssuesBegun, Begun
  <2>2. c - 1 \in Cycles /\ c - 1 < c
    BY LifecycleAssumption DEF Cycles
  <2> QED
    BY <2>1, <2>2 DEF Behind
<1> QED
  BY <1>1, LifeInvariant, PTL

\* The findings of the group became active again at least as often as cycles
\* were started, unless the record of a known issue was removed.
THEOREM LifeEarned == TicketSpec => []CyclesEarned
<1>1. LifeInv => CyclesEarned
  BY DEF LifeInv, IssuesBegun, Begun, CyclesEarned
<1> QED
  BY <1>1, LifeInvariant, PTL

LEMMA ReviewsStaySettled ==
    ASSUME LifeInv, [TicketNext]_ticketVars, NEW k \in Keys, review[k] \in Settled
    PROVE  review'[k] \in Settled
<1>1. review \in [Keys -> {"none", "pending", "withdrawn"} \cup Settled] /\ admin \in LifeAdmins
  BY DEF LifeInv, LifeTypeOK, TablesOK
<1>2. \A C, A : Withdrawn(C, A)[k] \in Settled
  BY DEF Withdrawn, Settled
<1>3. CASE UNCHANGED review
  BY <1>3
<1>4. CASE PollReconciles \/ AdminChecks
  BY <1>2, <1>4 DEF PollReconciles, AdminChecks
<1>5. CASE JobQueues
  BY <1>5 DEF JobQueues, Queued, Settled
<1>6. CASE \E q \in admin.keys : AdminApplies(q)
  <2>1. PICK q \in admin.keys : AdminApplies(q)
    BY <1>6
  <2>2. PICK s \in Settled : s = SettledBy(admin.action)
    BY <1>1, SettledBySettles
  <2>3. review' = [review EXCEPT ![q] = s]
    BY <2>1, <2>2 DEF AdminApplies
  <2> QED
    BY <1>1, <2>3
<1>7. UNCHANGED review \/ PollReconciles \/ AdminChecks \/ JobQueues
      \/ \E q \in admin.keys : AdminApplies(q)
  BY DEF TicketNext, ticketVars, JobNext, JobProgress, AdminNext, ScanChanges, EngineerMoves,
         SyncPulls, SyncPlans, PollStarts, Plans, JobChecks, JobWrites, JobPrunes, SyncCreates,
         SyncGoesOn, JobRechecks, JobCollects, JobReopens, JobFails, AdminActs, AdminUpdates,
         AdminRecords, AdminFails
<1> QED
  BY <1>3, <1>4, <1>5, <1>6, <1>7

\* A review that an administrator settled is never asked for again
\* (upsertMitigationReviewItems, reconcilePendingRiskAcceptanceReviews).
THEOREM LifeSettles == TicketSpec => SettledStays
<1>1. LifeInv /\ [TicketNext]_ticketVars =>
        [\A k \in Keys : review[k] \in Settled => review'[k] \in Settled]_ticketVars
  BY ReviewsStaySettled
<1> QED
  BY <1>1, LifeInvariant, PTL DEF TicketSpec, SettledStays

\* The bounds of the model are kept, and closed_on is of issues.
BoundsOK ==
    /\ closedOn \subseteq Cycles
    /\ scans \in 0 .. MaxScans /\ moves \in 0 .. MaxMoves /\ failures \in 0 .. MaxFailures

LEMMA BoundsStay ==
    ASSUME LifeInv, BoundsOK, [TicketNext]_ticketVars
    PROVE  BoundsOK'
<1>1. {MaxScans, MaxMoves, MaxFailures} \subseteq Nat
  BY LifecycleAssumption
<1>2. /\ scans' = scans \/ (scans < MaxScans /\ scans' = scans + 1)
      /\ moves' = moves \/ (moves < MaxMoves /\ moves' = moves + 1)
      /\ failures' = failures \/ (failures < MaxFailures /\ failures' = failures + 1)
  <2>1. CASE \/ \E f \in Findings : ScanChanges(f)
             \/ \E c \in Cycles : EngineerMoves(c)
    BY <2>1 DEF ScanChanges, EngineerMoves
  <2>2. CASE JobNext
    BY <2>2 DEF JobNext, JobProgress, JobOnly, Fails, bounds, SyncPulls, SyncPlans, PollStarts,
                Plans, JobChecks, JobWrites, JobPrunes, SyncCreates, SyncGoesOn, PollReconciles,
                JobRechecks, JobCollects, JobReopens, JobQueues, JobFails
  <2>3. CASE AdminNext
    BY <2>3 DEF AdminNext, AdminOnly, Fails, bounds, AdminActs, AdminChecks, AdminUpdates,
                AdminRecords, AdminApplies, AdminFails
  <2> QED
    BY <2>1, <2>2, <2>3 DEF TicketNext, ticketVars, bounds
<1>3. closedOn' \subseteq Cycles
  <2>1. CASE \E c \in Cycles : EngineerMoves(c)
    BY <2>1 DEF EngineerMoves, BoundsOK
  <2>2. CASE AdminUpdates
    <3>1. admin.cycle \in Cycles
      BY DEF LifeInv, LifeTypeOK, LifeAdmins
    <3> QED
      BY <2>2, <3>1 DEF AdminUpdates, BoundsOK
  <2>3. CASE UNCHANGED closedOn
    BY <2>3 DEF BoundsOK
  <2>4. UNCHANGED closedOn \/ AdminUpdates \/ \E c \in Cycles : EngineerMoves(c)
    BY DEF TicketNext, ticketVars, JobNext, JobProgress, JobOnly, AdminNext, AdminOnly,
           ScanChanges, SyncPulls, SyncPlans, PollStarts, Plans, JobChecks, JobWrites, JobPrunes,
           SyncCreates, SyncGoesOn, PollReconciles, JobRechecks, JobCollects, JobReopens,
           JobQueues, JobFails, AdminActs, AdminChecks, AdminRecords, AdminApplies, AdminFails
  <2> QED
    BY <2>1, <2>2, <2>3, <2>4
<1> QED
  BY <1>1, <1>2, <1>3 DEF BoundsOK

\* The types of the tables, the job and the review action.
THEOREM LifeTypes == TicketSpec => []TypeOK
<1>1. TicketInit => BoundsOK
  BY LifecycleAssumption DEF TicketInit, BoundsOK
<1>2. LifeInv /\ BoundsOK /\ [TicketNext]_ticketVars => BoundsOK'
  BY BoundsStay
<1>3. LifeInv /\ BoundsOK => TypeOK
  <2> SUFFICES ASSUME LifeInv, BoundsOK PROVE TypeOK
    OBVIOUS
  <2>1. TablesOK /\ job \in LifeJobs /\ admin \in LifeAdmins /\ job.writes \subseteq job.refs
    BY DEF LifeInv, LifeTypeOK, WritesKnown
  <2> QED
    BY <2>1 DEF TypeOK, TablesOK, FoundRows, LifeJobs, LifeAdmins, BoundsOK
<1> QED
  BY <1>1, <1>2, <1>3, LifeInvariant, PTL DEF TicketSpec

==============================================================================
