-------------------------- MODULE LocksAndSla_proofs --------------------------
(***************************************************************************)
(* Theorems about the advisory locks and the pools of their clients        *)
(* (PoolLocks), and about the due dates that are written under the locks   *)
(* of tickets (SlaReconciliation). Neither part uses the other.            *)
(*                                                                         *)
(* PoolLocks, for any number of runs, workers, jobs and mutations and      *)
(* pools of any size: nobody is stuck for another reason than that locks   *)
(* have all the clients of the pool. If everybody who is busy is blocked,  *)
(* then a client is out for a lock that is held, or waits for the lock of  *)
(* its user; a holder does not wait for a lock, so it wants a client, or a *)
(* worker it joins does.                                                   *)
(*                                                                         *)
(* SlaReconciliation, for any number of policies and refreshes and any     *)
(* order of the jobs: a ticket that follows its policy has the due date of *)
(* that policy or one set by hand (DuesFollowPolicies), and a date set by  *)
(* hand is not written over (HandDatesKept). Neither is inductive. The     *)
(* argument is about the jobs that nothing overtook: each knows the due    *)
(* date of the issue and of the record it is about to write (Knows). Only  *)
(* while a job carries a date that it has given the issue and not yet the  *)
(* record (Carrying) do the two disagree; then it either writes, which     *)
(* overtakes everyone else, or a repair has lapsed.                        *)
(***************************************************************************)
EXTENDS PoolLocks, SlaReconciliation, TLAPS

-----------------------------------------------------------------------------
(* Theorems about PoolLocks. *)

\* Only those of the server that is looked at are busy, and only they have clients.
BusyArePresent == \A a \in Actors : at[a] # 0 => Present(a)
UsersAreBusy == \A c \in used : at[c.by] # 0

\* A lock is held by one who has the client for it.
HoldersHaveClients == \A l \in Locks : holder[l] # None => Client(holder[l], l) \in used

\* A client whose lock is not held is there for the step its user is at, and is the only one.
StepClientsFit ==
    \A c \in used : ~Held(c) =>
        /\ Op(c.by) = IF c.for = NoLock THEN "query" ELSE "lock"
        /\ \A d \in used : d.by = c.by /\ ~Held(d) => d = c

\* Runs, workers and jobs take clients for the runtime locks, a mutation for its user's.
LocksFit ==
    \A c \in used : c.for # NoLock =>
        IF c.by \in Mutations THEN c.for = UserLock[c.by] ELSE c.for \in RuntimeLocks

Inv == TypeOK /\ BusyArePresent /\ UsersAreBusy /\ HoldersHaveClients /\ StepClientsFit /\ LocksFit

-----------------------------------------------------------------------------
(* The plans. *)

\* A plan is a sequence of steps; an idle actor is at none of them.
LEMMA PlanLength == \A a \in Actors : Last(a) \in Nat \ {0} /\ 0 \notin DOMAIN Plan(a)
  <1> TAKE a \in Actors
  <1>1. CASE a \in Runs
    BY <1>1 DEF Last, Plan, RunPlan
  <1>2. CASE a \in Workers
    BY <1>2, ActorsAssumption DEF Last, Plan, WorkerPlan
  <1>3. CASE a \in Jobs
    BY <1>3, ActorsAssumption DEF Last, Plan, JobPlan
  <1>4. CASE a \notin Runs \cup Workers \cup Jobs
    BY <1>4 DEF Last, Plan, MutationPlan
  <1> QED BY <1>1, <1>2, <1>3, <1>4

\* What a step that asks for a lock may ask for, and who waits for workers.
LEMMA StepKinds ==
    ASSUME NEW a \in Actors
    PROVE  /\ Op(a) = "lock" => \A l \in Asked(a) :
                IF a \in Mutations THEN l = UserLock[a] ELSE l \in RuntimeLocks
           /\ Op(a) = "join" => a \in Runs
  <1>1. CASE a \in Runs
    <2>1. a \notin Mutations
      BY <1>1, ActorsAssumption
    <2>2. Plan(a) = RunPlan(a)
      BY <1>1 DEF Plan
    <2>3. \A i \in 1 .. 11 : RunPlan(a)[i].op = "lock" => RunPlan(a)[i].locks \subseteq RuntimeLocks
      BY <1>1 DEF RunPlan, Lock, Query, Unlock, Join, RuntimeLocks
    <2>4. DOMAIN RunPlan(a) = 1 .. 11
      BY DEF RunPlan
    <2> QED BY <1>1, <2>1, <2>2, <2>3, <2>4 DEF Op, Asked
  <1>2. CASE a \in Workers
    <2>1. a \notin Mutations /\ a \notin Runs
      BY <1>2, ActorsAssumption
    <2>2. Plan(a) = WorkerPlan
      BY <1>2, <2>1 DEF Plan
    <2>3. \A i \in 1 .. 2 : /\ WorkerPlan[i].op # "join"
                            /\ WorkerPlan[i].locks \subseteq RuntimeLocks
      BY DEF WorkerPlan, Lock, Query, RuntimeLocks
    <2>4. DOMAIN WorkerPlan = 1 .. 2
      BY DEF WorkerPlan
    <2> QED BY <2>1, <2>2, <2>3, <2>4 DEF Op, Asked
  <1>3. CASE a \in Jobs
    <2>1. a \notin Mutations /\ a \notin Runs /\ a \notin Workers
      BY <1>3, ActorsAssumption
    <2>2. Plan(a) = JobPlan(a)
      BY <1>3, <2>1 DEF Plan
    <2>3. \A i \in 1 .. 2 : /\ JobPlan(a)[i].op # "join"
                            /\ JobPlan(a)[i].locks \subseteq RuntimeLocks
      BY <1>3 DEF JobPlan, Lock, Query, RuntimeLocks
    <2>4. DOMAIN JobPlan(a) = 1 .. 2
      BY DEF JobPlan
    <2> QED BY <2>1, <2>2, <2>3, <2>4 DEF Op, Asked
  <1>4. CASE a \in Mutations
    <2>1. a \notin Runs /\ a \notin Workers /\ a \notin Jobs
      BY <1>4, ActorsAssumption
    <2>2. Plan(a) = MutationPlan(a)
      BY <2>1 DEF Plan
    <2>3. \A i \in 1 .. 2 : /\ MutationPlan(a)[i].op # "join"
                            /\ MutationPlan(a)[i].locks \subseteq {UserLock[a]}
      BY DEF MutationPlan, Lock, Query
    <2>4. DOMAIN MutationPlan(a) = 1 .. 2
      BY DEF MutationPlan
    <2> QED BY <1>4, <2>1, <2>2, <2>3, <2>4 DEF Op, Asked
  <1> QED BY <1>1, <1>2, <1>3, <1>4 DEF Actors

-----------------------------------------------------------------------------
(* The invariant. *)

LEMMA InitInv == Init => Inv
  BY DEF Init, Inv, TypeOK, BusyArePresent, UsersAreBusy, HoldersHaveClients, StepClientsFit, LocksFit

\* One whose step needs no client, or who has none for it, may go to another step.
LEMMA GoesOn ==
    ASSUME Inv, used' = used, holder' = holder, server' = server,
           at' \in [Actors -> Nat],
           \A a \in Actors : at'[a] # at[a] =>
               /\ \A c \in used : ~StepClient(c, a)
               /\ at'[a] # 0 => Present(a)
               /\ at'[a] = 0 => \A c \in used : c.by # a
    PROVE  Inv'
  <1> USE DEF Inv
  <1>1. TypeOK' /\ BusyArePresent'
    BY DEF TypeOK, BusyArePresent, Present
  <1>2. \A c \in used : c.by \in Actors
    BY DEF TypeOK, Clients, Client
  <1>3. UsersAreBusy'
    BY <1>2 DEF UsersAreBusy
  <1>4. HoldersHaveClients' /\ LocksFit'
    BY DEF HoldersHaveClients, LocksFit
  <1>5. StepClientsFit'
    <2> SUFFICES ASSUME NEW c \in used, ~Held(c)
                 PROVE  /\ Op(c.by)' = IF c.for = NoLock THEN "query" ELSE "lock"
                        /\ \A d \in used : d.by = c.by /\ ~Held(d) => d = c
      BY DEF StepClientsFit, Held
    <2>1. StepClient(c, c.by)
      BY DEF StepClient
    <2>2. at'[c.by] = at[c.by]
      BY <1>2, <2>1
    <2> QED BY <2>2 DEF StepClientsFit, Op
  <1> QED BY <1>1, <1>3, <1>4, <1>5

\* One whose step client goes back, because of an answer or a refusal, may too.
LEMMA GivesBack ==
    ASSUME Inv, NEW a \in Actors, NEW c \in used, StepClient(c, a),
           used' = used \ {c}, holder' = holder, server' = server,
           at' \in [Actors -> Nat], at'[a] # 0,
           \A b \in Actors \ {a} : at'[b] # at[b] =>
               (\A d \in used : ~StepClient(d, b)) /\ at'[b] # 0 /\ Present(b)
    PROVE  Inv'
  <1> USE DEF Inv
  <1>0. \A d \in used : d.by \in Actors /\ d \in Clients
    BY DEF TypeOK, Clients, Client
  <1>1. at[a] # 0 /\ Present(a)
    BY DEF UsersAreBusy, BusyArePresent, StepClient
  <1>2. TypeOK' /\ BusyArePresent'
    BY <1>1 DEF TypeOK, BusyArePresent, Present
  <1>3. UsersAreBusy'
    BY <1>0, <1>1 DEF UsersAreBusy
  <1>4. LocksFit'
    BY DEF LocksFit
  <1>5. HoldersHaveClients'
    <2> SUFFICES ASSUME NEW l \in Locks, holder[l] # None
                 PROVE  Client(holder[l], l) \in used \ {c}
      BY DEF HoldersHaveClients
    <2>1. Client(holder[l], l) \in used /\ Held(Client(holder[l], l))
      BY DEF HoldersHaveClients, Held, Client
    <2> QED BY <2>1 DEF StepClient
  <1>6. StepClientsFit'
    <2> SUFFICES ASSUME NEW d \in used \ {c}, ~Held(d)
                 PROVE  /\ Op(d.by)' = IF d.for = NoLock THEN "query" ELSE "lock"
                        /\ \A e \in used \ {c} : e.by = d.by /\ ~Held(e) => e = d
      BY DEF StepClientsFit, Held
    <2>1. d.by # a
      BY DEF StepClientsFit, StepClient
    <2>2. at'[d.by] = at[d.by]
      BY <1>0, <2>1 DEF StepClient
    <2> QED BY <2>2 DEF StepClientsFit, Op
  <1> QED BY <1>2, <1>3, <1>4, <1>5, <1>6

\* One that needs no client may give back a lock and its client, and go on.
LEMMA LockGivenBack ==
    ASSUME Inv, NEW a \in Actors, NEW c \in used, c.by = a, Held(c), Releases(c), server' = server,
           at' \in [Actors -> Nat], at'[a] # 0, Op(a) \notin {"lock", "query"},
           \A b \in Actors \ {a} : at'[b] = at[b]
    PROVE  Inv'
  <1> USE DEF Inv
  <1>0. \A d \in used : d.by \in Actors /\ d \in Clients /\ d = Client(d.by, d.for)
    BY DEF TypeOK, Clients, Client
  <1>1. at[a] # 0 /\ Present(a)
    BY DEF UsersAreBusy, BusyArePresent
  <1>2. c.for \in Locks /\ holder[c.for] = a /\ holder' = [holder EXCEPT ![c.for] = None]
        /\ used' = used \ {c}
    BY DEF Held, Releases
  <1>3. TypeOK'
    BY <1>2 DEF TypeOK
  <1>4. BusyArePresent' /\ UsersAreBusy'
    BY <1>0, <1>1, <1>2 DEF BusyArePresent, Present, UsersAreBusy
  <1>5. LocksFit'
    BY <1>2 DEF LocksFit
  <1>6. HoldersHaveClients'
    <2> SUFFICES ASSUME NEW l \in Locks, holder'[l] # None
                 PROVE  Client(holder'[l], l) \in used'
      BY DEF HoldersHaveClients
    <2>1. l # c.for /\ holder'[l] = holder[l]
      BY <1>2 DEF TypeOK
    <2> QED BY <1>0, <1>2, <2>1 DEF HoldersHaveClients, Client
  <1>7. StepClientsFit'
    <2> SUFFICES ASSUME NEW d \in used \ {c}, ~Held(d)'
                 PROVE  /\ Op(d.by)' = IF d.for = NoLock THEN "query" ELSE "lock"
                        /\ \A e \in used \ {c} : e.by = d.by /\ ~Held(e)' => e = d
      BY <1>2 DEF StepClientsFit
    <2>1. \A e \in used \ {c} : ~Held(e)' => ~Held(e)
      <3> SUFFICES ASSUME NEW e \in used \ {c}, Held(e)
                   PROVE  Held(e)'
        OBVIOUS
      <3>1. e.for # c.for
        BY <1>0, <1>2 DEF Held
      <3> QED BY <1>2, <3>1 DEF Held, TypeOK
    <2>2. d.by # a
      BY <2>1 DEF StepClientsFit
    <2>3. at'[d.by] = at[d.by]
      BY <1>0, <2>2
    <2> QED BY <2>1, <2>3 DEF StepClientsFit, Op
  <1> QED BY <1>3, <1>4, <1>5, <1>6, <1>7

LEMMA ConnectsInv ==
    ASSUME Inv, NEW a \in Actors, Connects(a), server' = server
    PROVE  Inv'
  <1> USE DEF Inv
  <1>0. \A d \in used : d.by \in Actors /\ d = Client(d.by, d.for)
    BY DEF TypeOK, Clients, Client
  <1>1. PICK for \in IF Op(a) = "lock" THEN Asked(a) ELSE {NoLock} :
            used' = used \cup {Client(a, for)}
    BY DEF Connects
  <1>2. holder' = holder /\ at' = at /\ Op(a) \in {"lock", "query"}
    BY DEF Connects
  <1>3. at[a] # 0
    BY <1>2, PlanLength DEF Op
  <1>4. Op(a) = "lock" => /\ IF a \in Mutations THEN for = UserLock[a] ELSE for \in RuntimeLocks
                          /\ for \in Locks /\ for # NoLock
    BY <1>1, StepKinds, LocksAssumption DEF Locks
  <1>5. Client(a, for) \in Clients /\ Client(a, for).by = a /\ Client(a, for).for = for
    BY <1>1, <1>4 DEF Client, Clients
  <1>6. TypeOK' /\ BusyArePresent' /\ UsersAreBusy' /\ HoldersHaveClients'
    BY <1>1, <1>2, <1>3, <1>5 DEF TypeOK, BusyArePresent, Present, UsersAreBusy, HoldersHaveClients
  <1>7. LocksFit'
    BY <1>1, <1>4, <1>5 DEF LocksFit
  <1>8. StepClientsFit'
    <2>1. \A d \in used : ~StepClient(d, a)
      BY DEF Connects
    <2>2. Op(a) = IF for = NoLock THEN "query" ELSE "lock"
      BY <1>1, <1>2, <1>4
    <2> QED BY <1>0, <1>1, <1>2, <1>5, <2>1, <2>2 DEF StepClientsFit, StepClient, Held, Op
  <1> QED BY <1>6, <1>7, <1>8

LEMMA TakesInv ==
    ASSUME Inv, NEW a \in Actors, Takes(a), server' = server
    PROVE  Inv'
  <1> USE DEF Inv
  <1>0. \A d \in used : d.by \in Actors /\ d = Client(d.by, d.for)
    BY DEF TypeOK, Clients, Client
  <1>1. PICK c \in used : /\ StepClient(c, a) /\ c.for \in Locks /\ holder[c.for] = None
                          /\ holder' = [holder EXCEPT ![c.for] = a]
    BY DEF Takes
  <1>2. used' = used /\ at' = [at EXCEPT ![a] = at[a] + 1]
    BY DEF Takes
  <1>3. c.by = a /\ at[a] # 0 /\ c = Client(a, c.for)
    BY <1>0, <1>1 DEF StepClient, UsersAreBusy
  <1>4. TypeOK' /\ BusyArePresent' /\ UsersAreBusy' /\ LocksFit'
    BY <1>0, <1>1, <1>2, <1>3 DEF TypeOK, BusyArePresent, Present, UsersAreBusy, LocksFit
  <1>5. HoldersHaveClients'
    BY <1>1, <1>2, <1>3 DEF HoldersHaveClients, TypeOK
  <1>6. StepClientsFit'
    <2> SUFFICES ASSUME NEW d \in used, ~Held(d)'
                 PROVE  /\ Op(d.by)' = IF d.for = NoLock THEN "query" ELSE "lock"
                        /\ \A e \in used : e.by = d.by /\ ~Held(e)' => e = d
      BY <1>2 DEF StepClientsFit
    <2>1. \A e \in used : ~Held(e)' => ~Held(e) /\ e # c
      <3> SUFFICES ASSUME NEW e \in used
                   PROVE  (Held(e) => Held(e)') /\ Held(c)'
        OBVIOUS
      <3>1. Held(c)'
        BY <1>1, <1>3 DEF Held, TypeOK
      <3>2. Held(e) => e.for # c.for
        BY <1>0, <1>1, LocksAssumption DEF Held
      <3>3. Held(e) => Held(e)'
        BY <1>1, <3>2 DEF Held, TypeOK
      <3> QED BY <3>1, <3>3
    <2>2. d.by # a
      BY <1>1, <2>1 DEF StepClientsFit, StepClient
    <2>3. at'[d.by] = at[d.by]
      BY <1>0, <1>2, <2>2 DEF TypeOK
    <2> QED BY <2>1, <2>3 DEF StepClientsFit, Op
  <1> QED BY <1>4, <1>5, <1>6

LEMMA StepInv ==
    ASSUME Inv, NEW a \in Actors, Step(a), server' = server
    PROVE  Inv'
  <1> USE DEF Inv
  <1>0. /\ at \in [Actors -> Nat] /\ Last(a) \in Nat \ {0} /\ Finishing(a) \in Nat \ {0}
        /\ \A b \in Actors : Finishing(b) \in Nat \ {0}
        /\ \A b \in Actors : (\E c \in used : StepClient(c, b)) => Op(b) \in {"lock", "query"}
        /\ \A b \in Actors : Op(b) # "end" => at[b] # 0
        /\ \A b \in Actors : (\E c \in used : c.by = b) => at[b] # 0
    BY PlanLength DEF TypeOK, Finishing, StepClientsFit, StepClient, Op, UsersAreBusy
  <1>1. CASE Begins(a)
    <2>1. at' = [at EXCEPT ![a] = 1] /\ Present(a) /\ at[a] = 0
      BY <1>1 DEF Begins
    <2>2. \A c \in used : ~StepClient(c, a)
      BY <2>1 DEF UsersAreBusy, StepClient
    <2> QED BY <1>0, <1>1, <2>1, <2>2, GoesOn DEF Begins
  <1>2. CASE Connects(a)
    BY <1>2, ConnectsInv
  <1>3. CASE Takes(a)
    BY <1>3, TakesInv
  <1>4. CASE Refused(a)
    <2>1. PICK c \in used : StepClient(c, a) /\ used' = used \ {c}
      BY <1>4 DEF Refused
    <2>2. PICK next \in {Last(a), at[a]} : at' = [at EXCEPT ![a] = next]
      BY <1>4 DEF Refused
    <2>3. next \in Nat \ {0}
      BY <1>0, <2>1, <2>2 DEF StepClient
    <2> QED BY <1>0, <1>4, <2>1, <2>2, <2>3, GivesBack DEF Refused
  <1>5. CASE Answers(a)
    <2>1. PICK c \in used : StepClient(c, a) /\ used' = used \ {c}
      BY <1>5 DEF Answers
    <2>2. PICK ok \in BOOLEAN :
        at' = [b \in Actors |->
                IF b = a THEN IF ok THEN at[a] + 1 ELSE Finishing(a)
                ELSE IF ~ok /\ a \in Workers /\ b = RunOf[a] /\ Op(b) = "join" THEN Finishing(b)
                ELSE at[b]]
      BY <1>5 DEF Answers
    <2>3. at' \in [Actors -> Nat] /\ at'[a] # 0
      BY <1>0, <2>2
    <2>4. \A b \in Actors \ {a} : at'[b] # at[b] => Op(b) = "join" /\ at'[b] # 0
      BY <1>0, <2>2
    <2>5. \A b \in Actors \ {a} : at'[b] # at[b] =>
               (\A d \in used : ~StepClient(d, b)) /\ at'[b] # 0 /\ Present(b)
      BY <1>0, <2>4 DEF BusyArePresent
    <2> QED BY <1>5, <2>1, <2>3, <2>5, GivesBack DEF Answers
  <1>6. CASE Unlocks(a)
    <2>1. PICK c \in used : c.by = a /\ Held(c) /\ Releases(c)
      BY <1>6 DEF Unlocks
    <2>2. at' = [at EXCEPT ![a] = at[a] + 1] /\ Op(a) = "unlock"
      BY <1>6 DEF Unlocks
    <2>3. at' \in [Actors -> Nat] /\ at'[a] # 0 /\ \A b \in Actors \ {a} : at'[b] = at[b]
      BY <1>0, <2>2
    <2> QED BY <2>1, <2>2, <2>3, LockGivenBack
  <1>7. CASE Joins(a)
    <2>1. at' = [at EXCEPT ![a] = at[a] + 1] /\ Op(a) = "join" /\ Present(a)
      BY <1>0, <1>7 DEF Joins, BusyArePresent
    <2>2. at' \in [Actors -> Nat] /\ at'[a] # 0 /\ \A b \in Actors \ {a} : at'[b] = at[b]
      BY <1>0, <2>1
    <2> QED BY <1>0, <1>7, <2>1, <2>2, GoesOn DEF Joins
  <1>8. CASE Ends(a)
    <2>1. CASE \E c \in used : c.by = a /\ Held(c) /\ Releases(c) /\ UNCHANGED at
      BY <1>0, <1>8, <2>1, LockGivenBack DEF Ends
    <2>2. CASE \A c \in used : c.by # a
      <3>1. PICK next \in {0, 1} : at' = [at EXCEPT ![a] = next]
        BY <1>8, <2>2 DEF Ends, Releases
      <3>2. Present(a) /\ UNCHANGED <<used, holder>>
        BY <1>8, <2>2 DEF Ends, BusyArePresent, Releases
      <3> QED BY <1>0, <2>2, <3>1, <3>2, GoesOn DEF StepClient
    <2> QED BY <1>8, <2>1, <2>2 DEF Ends
  <1> QED BY <1>1, <1>2, <1>3, <1>4, <1>5, <1>6, <1>7, <1>8 DEF Step

LEMMA NextInv == Inv /\ [Next]_vars => Inv'
  <1> SUFFICES ASSUME Inv, [Next]_vars
               PROVE  Inv'
    OBVIOUS
  <1>1. CASE Next
    BY <1>1, StepInv DEF Next
  <1>2. CASE UNCHANGED vars
    BY <1>2, GoesOn DEF vars, Inv, TypeOK
  <1> QED BY <1>1, <1>2

\* The invariant holds, for pools of any size.
THEOREM PoolInvariant == Spec => []Inv
  BY InitInv, NextInv, PTL DEF Spec

-----------------------------------------------------------------------------
(* What it is to be stuck. *)

\* Whoever has a client for another purpose than a lock that is held goes on, or waits for the
\* lock of its user; so when nobody goes on, a holder, or a worker it joins, wants a client.
LEMMA StuckArePinned ==
    ASSUME Inv, \A b \in Actors : at[b] # 0 => Blocked(b)
    PROVE  \A c \in used : Pinned(c)
  <1> USE DEF Inv
  <1>0. \A c \in used : c.by \in Actors /\ c = Client(c.by, c.for) /\ Blocked(c.by)
    BY DEF TypeOK, Clients, Client, UsersAreBusy
  <1>1. \A c \in used : ~Held(c) => Waits(c.by)
    <2> SUFFICES ASSUME NEW c \in used, ~Held(c)
                 PROVE  Waits(c.by)
      OBVIOUS
    <2>1. StepClient(c, c.by) /\ ~Wants(c.by)
      BY DEF StepClient, Wants
    <2>2. Op(c.by) \in {"lock", "query"}
      BY DEF StepClientsFit
    <2> QED BY <1>0, <2>1, <2>2 DEF Blocked
  <1>2. \A c \in used : c.for \in Locks
    <2> SUFFICES ASSUME NEW c \in used, ~Held(c)
                 PROVE  c.for \in Locks
      BY DEF Held
    <2>1. PICK d \in used : StepClient(d, c.by) /\ d.for \in Locks
      BY <1>1 DEF Waits
    <2> QED BY <2>1 DEF StepClientsFit, StepClient
  <1>3. \A c \in used : Held(c) => ~Waits(c.by)
    <2> SUFFICES ASSUME NEW c \in used, Held(c), Waits(c.by)
                 PROVE  FALSE
      OBVIOUS
    <2>1. PICK d \in used : StepClient(d, c.by)
      BY DEF Waits
    <2>2. d.for = UserLock[c.by] /\ c.for = UserLock[c.by]
      BY <1>2, <2>1, LocksAssumption DEF LocksFit, StepClient, Waits
    <2>3. d = c
      BY <1>0, <2>1, <2>2 DEF StepClient
    <2> QED BY <2>1, <2>3 DEF StepClient
  <1>4. \A w \in Workers : at[w] # 0 => Wants(w)
    <2> SUFFICES ASSUME NEW w \in Workers, at[w] # 0
                 PROVE  Wants(w)
      OBVIOUS
    <2>1. w \in Actors /\ w \notin Mutations /\ Op(w) # "join"
      BY StepKinds, ActorsAssumption DEF Actors
    <2> QED BY <2>1 DEF Blocked, Waits
  <1>5. \A c \in used : Held(c) => Pinned(c)
    <2> SUFFICES ASSUME NEW c \in used, Held(c)
                 PROVE  Pinned(c)
      OBVIOUS
    <2>1. c.for \in Locks /\ holder[c.for] = c.by /\ c.by # None
      BY <1>0, LocksAssumption DEF Held
    <2>2. CASE Wants(c.by)
      BY <2>1, <2>2 DEF Pinned
    <2>3. CASE Op(c.by) = "join" /\ \E w \in Workers : RunOf[w] = c.by /\ at[w] # 0
      BY <1>4, <2>1, <2>3 DEF Pinned
    <2> QED BY <1>0, <1>3, <2>2, <2>3 DEF Blocked
  <1>6. \A c \in used : ~Held(c) => Pinned(c)
    <2> SUFFICES ASSUME NEW c \in used, ~Held(c)
                 PROVE  Pinned(c)
      OBVIOUS
    <2>1. PICK d \in used : StepClient(d, c.by) /\ d.for \in Locks /\ holder[d.for] # None
      BY <1>1 DEF Waits
    <2>2. c.for \in Locks /\ holder[c.for] # None
      BY <2>1 DEF StepClientsFit, StepClient
    <2>3. PICK e \in used : e = Client(holder[c.for], c.for)
      BY <2>2 DEF HoldersHaveClients
    <2>4. e.for = c.for /\ Held(e)
      BY <2>2, <2>3 DEF Held, Client
    <2> QED BY <1>5, <2>4 DEF Pinned
  <1> QED BY <1>5, <1>6

LEMMA InvImpliesStuckOnlyWhenPinned == Inv => StuckOnlyWhenPinned
  <1> USE DEF Inv
  <1> SUFFICES ASSUME Inv, NEW a \in Actors, at[a] # 0,
                      \A b \in Actors : at[b] # 0 => Blocked(b)
               PROVE  ~Free /\ \A c \in used : Pinned(c)
    BY DEF StuckOnlyWhenPinned, Stuck
  <1>1. \A c \in used : Pinned(c)
    BY StuckArePinned
  <1>2. ASSUME NEW b \in Actors, Wants(b)
        PROVE  ~Free
    <2>1. at[b] # 0
      BY <1>2, PlanLength DEF Wants, Op
    <2>2. ~Waits(b) /\ Op(b) # "join"
      BY <1>2 DEF Wants, Waits
    <2> QED BY <2>1, <2>2 DEF Blocked
  <1>3. CASE used # {}
    <2>1. PICK c \in used : Pinned(c)
      BY <1>1, <1>3
    <2>2. holder[c.for] \in Actors
      BY <2>1 DEF Pinned, TypeOK
    <2> QED BY <1>1, <1>2, <2>1, <2>2 DEF Pinned, Actors
  <1>4. CASE used = {}
    <2>1. \A b \in Actors : ~Waits(b)
      BY <1>4 DEF Waits
    <2>2. CASE Op(a) = "join"
      <3>1. PICK w \in Workers : at[w] # 0
        BY <2>1, <2>2 DEF Blocked, Wants
      <3>2. w \in Actors /\ Op(w) # "join"
        BY StepKinds, ActorsAssumption DEF Actors
      <3> QED BY <1>1, <2>1, <3>1, <3>2 DEF Blocked
    <2> QED BY <1>1, <2>1, <2>2 DEF Blocked
  <1> QED BY <1>3, <1>4

\* Nobody who is busy can go on only if every client of the pool is out for a lock whose holder
\* needs one more: for any number of runs, workers, jobs and mutations, and pools of any size.
THEOREM PoolStuckOnlyWhenPinned == Spec => []StuckOnlyWhenPinned
  BY PoolInvariant, InvImpliesStuckOnlyWhenPinned, PTL

-----------------------------------------------------------------------------
(* Theorems about SlaReconciliation. *)

Configurations == Policies \cup {Off}

Tickets == Records \cup {Absent}

Stages == {"idle", "fetching", "locking", "updating", "confirming", "writing"}

JobRecords ==
    [at : Stages \cup {"posting"}, ticket : Tickets, seen : Issues \cup {Absent},
     policy : Configurations, pending : BOOLEAN, active : BOOLEAN, stamped : BOOLEAN,
     overtaken : BOOLEAN]

RefreshRecords ==
    [at : {"idle", "comparing", "mirroring", "saving"}, fetched : Configurations,
     flag : {"none", "set", "clear"}]

SlaTypeOK ==
    /\ policy \in Configurations /\ snapshot \in Configurations
    /\ refresh \in [Refreshes -> RefreshRecords]
    /\ issue \in Issues \cup {Absent}
    /\ db \in Tickets /\ memory \in Tickets
    /\ lock \in {"free"} \cup SlaJobs
    /\ job \in [SlaJobs -> JobRecords]
    /\ lapsed \in BOOLEAN /\ edited \in BOOLEAN

\* What a job has by each of its steps.
ReconcilerShape(m) ==
    /\ m.at # "posting"
    /\ m.at \in {"fetching", "locking", "updating", "confirming"} => m.ticket \in Records
    /\ m.at \in {"locking", "updating", "confirming", "writing"} => m.seen \in Issues
    /\ m.at \in {"locking", "updating", "confirming"} => m.policy \in Policies

ImportShape(m) ==
    /\ m.at \in {"idle", "writing"}
    /\ m.at = "writing" => m.seen \in Issues

CreationShape(m) ==
    /\ m.at \in {"idle", "posting", "confirming", "writing"}
    /\ m.at \in {"posting", "confirming"} => m.policy \in Policies
    /\ m.at = "writing" => m.seen \in Issues

ShapeOf(j, m) ==
    /\ j \in Reconcilers => ReconcilerShape(m)
    /\ j = "import" => ImportShape(m)
    /\ j = "creation" => CreationShape(m)

Shaped == \A j \in SlaJobs : ShapeOf(j, job[j])

\* The issue, the record and what the API remembers of it come into being together, and nobody
\* but the creation has begun before that.
Born ==
    /\ db = Absent <=> issue = Absent
    /\ memory = Absent <=> issue = Absent
    /\ issue = Absent =>
        /\ \A j \in SlaJobs \ {"creation"} : job[j].at = "idle"
        /\ job["creation"].at \in {"idle", "posting"} /\ ~edited
    /\ job["creation"].at = "posting" => issue = Absent

\* A due date that a record with this policy may have with nothing left to repair.
Suits(due, of) == due \notin Policies \ {of}

\* The issue has the date of the job, or may have it, and the record does not know.
Carrying(j, m) == j \in Reconcilers /\ (m.at = "confirming" \/ (m.at = "writing" /\ m.stamped))

Nobody == \A j \in Reconcilers : ~Carrying(j, job[j])

OutcomeSuits(m) == m.pending \/ (Suits(m.seen.due, m.policy) /\ Suits(issue.due, m.policy))

Knows(j, m) ==
    ~m.overtaken =>
        /\ m.at \in {"fetching", "locking", "updating"} =>
                m.ticket.pending \/ Suits(issue.due, m.ticket.policy)
        /\ m.at = "writing" /\ j # "import" => OutcomeSuits(m)
        /\ m.at = "writing" /\ j = "import" => db.pending \/ Suits(m.seen.due, db.policy)

CarrierKnows(j, m) ==
    Carrying(j, m) /\ m.at = "writing" /\ ~m.overtaken => OutcomeSuits(m)

RecordSuits == db = Absent \/ db.pending \/ (Suits(db.due, db.policy) /\ Suits(issue.due, db.policy))

Reconciled ==
    ~lapsed =>
        /\ \A j \in Reconcilers : CarrierKnows(j, job[j])
        /\ Nobody => RecordSuits /\ \A j \in SlaJobs : Knows(j, job[j])

\* After a date was set by hand: nothing is to be repaired, and who was not overtaken knows.
Unmoved(m) ==
    \/ m.overtaken \/ m.at = "idle"
    \/ m.at = "fetching" /\ ~m.ticket.pending /\ m.ticket.policy = snapshot
    \/ m.at = "writing" /\ ~m.stamped /\ ~m.pending /\ m.policy = snapshot

HandKept ==
    edited /\ ~lapsed =>
        /\ issue # Absent /\ ~db.pending /\ db.policy = snapshot
        /\ job["creation"].at = "idle" /\ \A j \in Reconcilers : Unmoved(job[j])

SlaInv == SlaTypeOK /\ Shaped /\ Born /\ Reconciled /\ HandKept


-----------------------------------------------------------------------------
(* Steps that change one job, and neither the issue nor the record. *)

LEMMA IdleTyped ==
    Idle \in JobRecords /\ Idle.at = "idle" /\ ~Idle.overtaken /\ ~Idle.stamped /\ ~Idle.pending
  BY DEF Idle, JobRecords, Tickets, Configurations, Stages

\* The outcome of a job is to be written.
LEMMA OutcomeIs ==
    ASSUME NEW j, job[j] \in JobRecords, NEW seen \in Issues, NEW of \in Configurations,
           NEW pending \in BOOLEAN, NEW active \in BOOLEAN, NEW stamped \in BOOLEAN,
           NEW m, m = Outcome(j, seen, of, pending, active, stamped)
    PROVE  /\ m \in JobRecords
           /\ m.at = "writing" /\ m.seen = seen /\ m.policy = of /\ m.pending = pending
           /\ m.stamped = stamped /\ m.overtaken = job[j].overtaken
           /\ j = "poll" => m.ticket = job[j].ticket
  <1>1. CASE j = "poll"
    <2>1. PICK r \in JobRecords : r = job[j]
      OBVIOUS
    <2>2. m = [at |-> "writing", ticket |-> r.ticket, seen |-> seen, policy |-> of,
               pending |-> pending, active |-> active, stamped |-> stamped,
               overtaken |-> r.overtaken]
      BY <1>1, <2>1 DEF Outcome, JobRecords
    <2>3. r.ticket \in Tickets /\ r.overtaken \in BOOLEAN
      BY <2>1 DEF JobRecords
    <2> QED BY <2>1, <2>2, <2>3 DEF JobRecords, Configurations, Stages
  <1>2. CASE j # "poll"
    <2>1. PICK r \in JobRecords : r = job[j]
      OBVIOUS
    <2>2. m = [at |-> "writing", ticket |-> Absent, seen |-> seen, policy |-> of,
               pending |-> pending, active |-> active, stamped |-> stamped,
               overtaken |-> r.overtaken]
      BY <1>2, <2>1 DEF Outcome, JobRecords
    <2>3. Absent \in Tickets /\ r.overtaken \in BOOLEAN
      BY <2>1 DEF JobRecords, Tickets
    <2> QED BY <1>2, <2>1, <2>2, <2>3 DEF JobRecords, Configurations, Stages
  <1> QED BY <1>1, <1>2

\* What j may become without telling anybody.
Becomes(j, m) ==
    /\ ShapeOf(j, m)
    /\ issue # Absent \/ (j = "creation" /\ m.at \in {"idle", "posting"})
    /\ m.at = "posting" => issue = Absent
    /\ ~lapsed' => /\ Carrying(j, job[j]) => Carrying(j, m)
                   /\ CarrierKnows(j, m)
                   /\ Nobody /\ ~Carrying(j, m) => Knows(j, m)
    /\ edited' /\ ~lapsed' => /\ j \in Reconcilers => Unmoved(m)
                              /\ j = "creation" => m.at = "idle"

LEMMA StepOfOne ==
    ASSUME SlaInv, NEW j \in SlaJobs, NEW m \in JobRecords, Becomes(j, m),
           job' = [job EXCEPT ![j] = m],
           UNCHANGED <<policy, snapshot, refresh, issue, db>>, memory' \in Remembered,
           lock' \in {"free"} \cup SlaJobs, lapsed' \in BOOLEAN, edited' \in BOOLEAN,
           lapsed => lapsed', edited' => edited
    PROVE  SlaInv'
  <1> USE DEF SlaInv
  <1>1. \A k \in SlaJobs : job'[k] = IF k = j THEN m ELSE job[k]
    BY DEF SlaTypeOK
  <1>2. SlaTypeOK'
    BY DEF SlaTypeOK, Remembered
  <1>3. Shaped'
    BY <1>1 DEF Shaped, Becomes, ShapeOf, ReconcilerShape, ImportShape, CreationShape
  <1>4. Born'
    BY <1>1 DEF Born, Becomes, Remembered, SlaJobs
  <1>5. Reconciled'
    <2> SUFFICES ASSUME ~lapsed' PROVE Reconciled'
      BY DEF Reconciled
    <2>1. \A k \in Reconcilers : CarrierKnows(k, job[k])'
      BY <1>1 DEF Reconciled, Becomes, CarrierKnows, Carrying, OutcomeSuits, Reconcilers, SlaJobs
    <2>2. ASSUME Nobody' PROVE Nobody /\ ~Carrying(j, m)
      BY <1>1, <2>2 DEF Nobody, Carrying, Becomes, Reconcilers, SlaJobs
    <2>3. ASSUME Nobody', NEW k \in SlaJobs PROVE Knows(k, job[k])'
      BY <1>1, <2>2, <2>3 DEF Reconciled, Becomes, Knows, OutcomeSuits
    <2>4. Nobody' => RecordSuits'
      BY <2>2 DEF Reconciled, RecordSuits
    <2> QED BY <2>1, <2>3, <2>4 DEF Reconciled
  <1>6. HandKept'
    BY <1>1 DEF HandKept, Becomes, Unmoved, Reconcilers, SlaJobs
  <1> QED BY <1>2, <1>3, <1>4, <1>5, <1>6


-----------------------------------------------------------------------------
(* Steps that give the issue or the record another state, and overtake the others. *)

NobodyElse(j) == \A k \in Reconcilers \ {j} : ~Carrying(k, job[k])

LEMMA StepThatOvertakes ==
    ASSUME SlaInv, NEW j \in SlaJobs, NEW mine \in JobRecords, ShapeOf(j, mine),
           mine.at = "idle" \/ (mine.at = "confirming" /\ j \in Reconcilers),
           NEW stale \in BOOLEAN, Overtaking(j, mine, stale),
           issue # Absent, issue' \in Issues, db' \in Records, memory' \in Records,
           UNCHANGED <<policy, snapshot, refresh>>, lock' \in {"free"} \cup SlaJobs,
           ~lapsed' /\ mine.at = "idle" /\ NobodyElse(j) => RecordSuits',
           edited' /\ ~lapsed' => mine.at = "idle" /\ ~db'.pending /\ db'.policy = snapshot
    PROVE  SlaInv'
  <1> USE DEF SlaInv
  <1> DEFINE after(k) == IF k = j THEN [mine EXCEPT !.overtaken = FALSE]
                         ELSE [job[k] EXCEPT !.overtaken = job[k].at # "idle" /\ ~lapsed']
  <1>1. job' = [k \in SlaJobs |-> after(k)]
    BY DEF Overtaking
  <1>2. lapsed' \in BOOLEAN /\ edited' \in BOOLEAN /\ lapsed' = (lapsed \/ stale)
        /\ edited' = (edited /\ ~lapsed')
    BY DEF Overtaking, Lapses, SlaTypeOK
  <1>3. \A k \in SlaJobs : job[k] \in JobRecords
    BY DEF SlaTypeOK
  <1>4. \A k \in SlaJobs : after(k) \in JobRecords
    BY <1>2, <1>3 DEF JobRecords
  <1>5. \A k \in SlaJobs \ {j} :
            /\ job'[k].at = job[k].at /\ job'[k].ticket = job[k].ticket
            /\ job'[k].seen = job[k].seen /\ job'[k].policy = job[k].policy
            /\ job'[k].stamped = job[k].stamped
            /\ ~lapsed' => job'[k].overtaken \/ job'[k].at = "idle"
    BY <1>1, <1>2, <1>3 DEF JobRecords
  <1>6. /\ job'[j].at = mine.at /\ job'[j].ticket = mine.ticket /\ job'[j].seen = mine.seen
        /\ job'[j].policy = mine.policy
    BY <1>1 DEF JobRecords
  <1>7. SlaTypeOK'
    BY <1>1, <1>2, <1>4 DEF SlaTypeOK, Tickets
  <1> HIDE DEF after
  <1>8. Shaped'
    BY <1>5, <1>6 DEF Shaped, ShapeOf, ReconcilerShape, ImportShape, CreationShape
  <1>9. Born'
    BY <1>5, <1>6, SlaAssumption DEF Born, SlaJobs, Reconcilers
  <1>10. Reconciled'
    <2> SUFFICES ASSUME ~lapsed' PROVE Reconciled'
      BY DEF Reconciled
    <2>1. \A k \in Reconcilers : CarrierKnows(k, job[k])'
      BY <1>5, <1>6 DEF CarrierKnows, Carrying, Reconcilers, SlaJobs
    <2>2. ASSUME Nobody' PROVE mine.at = "idle" /\ NobodyElse(j)
      BY <1>5, <1>6, <2>2 DEF Nobody, NobodyElse, Carrying, Reconcilers, SlaJobs
    <2>3. ASSUME Nobody', NEW k \in SlaJobs PROVE Knows(k, job[k])'
      BY <1>5, <1>6, <2>2, <2>3 DEF Knows
    <2> QED BY <2>1, <2>2, <2>3 DEF Reconciled
  <1>11. HandKept'
    <2> SUFFICES ASSUME edited', ~lapsed' PROVE HandKept'
      BY DEF HandKept
    <2>1. \A k \in Reconcilers : Unmoved(job[k])'
      BY <1>5, <1>6 DEF Unmoved, Reconcilers, SlaJobs
    <2>2. job["creation"].at = "idle" => job'["creation"].at = "idle"
      BY <1>5, <1>6 DEF SlaJobs
    <2>3. edited /\ ~lapsed
      BY <1>2
    <2> QED BY <2>1, <2>2, <2>3, SlaAssumption DEF HandKept
  <1> QED BY <1>7, <1>8, <1>9, <1>10, <1>11

-----------------------------------------------------------------------------
(* DefectDojo and the users of Redmine. *)

\* A date that users set suits every policy.
LEMMA HandSuits == \A of : Suits(Hand, of)
  BY SlaAssumption DEF Suits

LEMMA IssueChanges ==
    ASSUME SlaInv, issue # Absent, issue' \in Issues,
           issue'.due = issue.due \/ issue'.due = Hand,
           UNCHANGED <<dojo, db, memory, lock, job, lapsed>>,
           edited' \in BOOLEAN, edited' => edited \/ Settled
    PROVE  SlaInv'
  <1> USE DEF SlaInv
  <1>1. SlaTypeOK' /\ Shaped' /\ Born'
    BY SlaAssumption DEF SlaTypeOK, Shaped, Born, dojo, ShapeOf, ReconcilerShape, ImportShape,
                         CreationShape, SlaJobs, Reconcilers
  <1>2. \A of : Suits(issue.due, of) => Suits(issue'.due, of)
    BY HandSuits
  <1>3. Reconciled'
    <2> SUFFICES ASSUME ~lapsed PROVE Reconciled'
      BY DEF Reconciled
    <2>1. \A k \in Reconcilers : CarrierKnows(k, job[k])'
      BY <1>2 DEF Reconciled, CarrierKnows, Carrying, OutcomeSuits
    <2>2. Nobody' => Nobody
      BY DEF Nobody, Carrying
    <2>3. Nobody' => \A k \in SlaJobs : Knows(k, job[k])'
      BY <1>2, <2>2 DEF Reconciled, Knows, OutcomeSuits
    <2>4. Nobody' => RecordSuits'
      BY <1>2, <2>2 DEF Reconciled, RecordSuits
    <2> QED BY <2>1, <2>3, <2>4 DEF Reconciled
  <1>4. HandKept'
    <2>1. CASE edited
      BY <2>1, SlaAssumption DEF HandKept, dojo, Unmoved
    <2>2. CASE Settled
      BY <2>2, SlaAssumption DEF HandKept, dojo, Unmoved, Settled, Reconcilers, SlaJobs, Shaped,
                                 ShapeOf, ReconcilerShape, CreationShape
    <2>3. CASE ~edited'
      BY <2>3 DEF HandKept
    <2> QED BY <2>1, <2>2, <2>3
  <1> QED BY <1>1, <1>3, <1>4

LEMMA UsersAct ==
    ASSUME SlaInv, DueIsEdited \/ IssueCloses \/ IssueReopens
    PROVE  SlaInv'
  <1>1. issue \in Issues \cup {Absent} /\ edited \in BOOLEAN /\ Hand \in Dues
    BY DEF SlaInv, SlaTypeOK, Dues
  <1>2. CASE DueIsEdited
    <2>1. issue # Absent /\ issue' = [issue EXCEPT !.due = Hand]
      BY <1>2 DEF DueIsEdited
    <2>2. issue' \in Issues /\ issue'.due = Hand
      BY <1>1, <2>1 DEF Issues
    <2> QED BY <1>1, <1>2, <2>1, <2>2, IssueChanges DEF DueIsEdited, Settled
  <1>3. CASE IssueCloses
    <2>1. issue # Absent /\ issue' = [issue EXCEPT !.closed = TRUE]
      BY <1>3 DEF IssueCloses
    <2>2. issue' \in Issues /\ issue'.due = issue.due
      BY <1>1, <2>1 DEF Issues
    <2> QED BY <1>1, <1>3, <2>1, <2>2, IssueChanges DEF IssueCloses, history
  <1>4. CASE IssueReopens
    <2>1. issue # Absent /\ issue' = [issue EXCEPT !.closed = FALSE]
      BY <1>4 DEF IssueReopens
    <2>2. issue' \in Issues /\ issue'.due = issue.due
      BY <1>1, <2>1 DEF Issues
    <2> QED BY <1>1, <1>4, <2>1, <2>2, IssueChanges DEF IssueReopens, history
  <1> QED BY <1>2, <1>3, <1>4

\* Nothing that the jobs, the issue and the record have to do with.
LEMMA Beside ==
    ASSUME SlaInv, policy' \in Configurations, refresh' \in [Refreshes -> RefreshRecords],
           memory' \in Tickets, memory' = Absent <=> memory = Absent,
           UNCHANGED <<snapshot, issue, db, lock, job, history>>
    PROVE  SlaInv'
  <1> USE DEF SlaInv, history
  <1>1. SlaTypeOK' /\ Shaped' /\ Born'
    BY DEF SlaTypeOK, Shaped, Born, ShapeOf, ReconcilerShape, ImportShape, CreationShape
  <1>2. Reconciled'
    BY DEF Reconciled, CarrierKnows, Carrying, OutcomeSuits, Nobody, RecordSuits, Knows
  <1>3. HandKept'
    BY DEF HandKept, Unmoved
  <1> QED BY <1>1, <1>2, <1>3


-----------------------------------------------------------------------------
(* Refreshing the snapshot. *)

LEMMA RefreshTyped ==
    ASSUME SlaInv, NEW r \in Refreshes
    PROVE  /\ refresh[r] \in RefreshRecords
           /\ refresh[r].fetched \in Configurations
           /\ \A to \in {"mirroring", "saving"}, flag \in {"none", "set", "clear"} :
                  [refresh EXCEPT ![r].at = to, ![r].flag = flag]
                      \in [Refreshes -> RefreshRecords]
           /\ [refresh EXCEPT ![r].at = "saving"] \in [Refreshes -> RefreshRecords]
           /\ [refresh EXCEPT ![r] = NoRefresh] \in [Refreshes -> RefreshRecords]
  <1>1. refresh \in [Refreshes -> RefreshRecords] /\ refresh[r] \in RefreshRecords
    BY DEF SlaInv, SlaTypeOK
  <1>2. PICK old \in RefreshRecords : old = refresh[r]
    BY <1>1
  <1>3. \A to \in {"mirroring", "saving"}, flag \in {"none", "set", "clear"} :
            /\ [old EXCEPT !.at = to, !.flag = flag] \in RefreshRecords
            /\ [old EXCEPT !.at = "saving"] \in RefreshRecords
    BY <1>2 DEF RefreshRecords
  <1>4. refresh[r].fetched \in Configurations /\ NoRefresh \in RefreshRecords
    BY <1>1 DEF RefreshRecords, NoRefresh, Configurations
  <1>5. ASSUME NEW to \in {"mirroring", "saving"}, NEW flag \in {"none", "set", "clear"}
        PROVE  [refresh EXCEPT ![r].at = to, ![r].flag = flag] \in [Refreshes -> RefreshRecords]
    <2>1. [refresh EXCEPT ![r].at = to, ![r].flag = flag] =
            [refresh EXCEPT ![r] = [old EXCEPT !.at = to, !.flag = flag]]
      BY <1>1, <1>2
    <2> QED BY <1>1, <1>3, <2>1
  <1>6. [refresh EXCEPT ![r].at = "saving"] \in [Refreshes -> RefreshRecords]
    BY <1>1, <1>2, <1>3
  <1> QED BY <1>1, <1>4, <1>5, <1>6

LEMMA RefreshStarts ==
    ASSUME SlaInv, NEW r \in Refreshes, RefreshFetches(r) \/ RefreshFails(r)
    PROVE  SlaInv'
  <1> DEFINE new(to, of) == [NoRefresh EXCEPT !.at = to, !.fetched = of]
  <1>1. policy \in Configurations /\ snapshot \in Configurations
        /\ refresh \in [Refreshes -> RefreshRecords] /\ memory \in Tickets
    BY DEF SlaInv, SlaTypeOK
  <1>2. new("comparing", policy) \in RefreshRecords /\ new("saving", snapshot) \in RefreshRecords
    BY <1>1 DEF NoRefresh, RefreshRecords
  <1>3. refresh' \in [Refreshes -> RefreshRecords]
    BY <1>1, <1>2 DEF RefreshFetches, RefreshFails
  <1> QED BY <1>1, <1>3, Beside DEF RefreshFetches, RefreshFails

LEMMA RefreshDiesInv ==
    ASSUME SlaInv, NEW r \in Refreshes, RefreshDies(r)
    PROVE  SlaInv'
  <1>1. policy \in Configurations /\ memory \in Tickets
    BY DEF SlaInv, SlaTypeOK
  <1> QED BY <1>1, Beside, RefreshTyped DEF RefreshDies

LEMMA RefreshMirrorsInv ==
    ASSUME SlaInv, NEW r \in Refreshes, RefreshMirrors(r)
    PROVE  SlaInv'
  <1>1. PICK record \in Remembered :
            memory' = IF record = Absent THEN Absent
                      ELSE [record EXCEPT !.pending = refresh[r].flag = "set"]
    BY DEF RefreshMirrors
  <1>2. record \in Tickets /\ (record = Absent <=> memory = Absent) /\ policy \in Configurations
    BY DEF Remembered, SlaInv, SlaTypeOK, Born
  <1>3. CASE record = Absent
    BY <1>1, <1>2, <1>3, Beside, RefreshTyped DEF RefreshMirrors, Tickets
  <1>4. CASE record # Absent
    <2>1. memory' \in Records
      BY <1>1, <1>2, <1>4 DEF Tickets, Records
    <2> QED BY <1>2, <1>4, <2>1, Beside, RefreshTyped, SlaAssumption DEF RefreshMirrors, Tickets
  <1> QED BY <1>3, <1>4

\* The flag of a record is set, or cleared where nothing was flagged.
LEMMA RefreshFlagsInv ==
    ASSUME SlaInv, NEW r \in Refreshes, RefreshFlags(r)
    PROVE  SlaInv'
  <1> DEFINE flag == refresh[r].fetched # Off /\ ~db.closed
             changed == snapshot # refresh[r].fetched
  <1>1. policy \in Configurations /\ memory \in Tickets /\ db \in Tickets
    BY DEF SlaInv, SlaTypeOK
  <1>2. CASE ~(changed /\ db # Absent)
    <2>1. /\ refresh' = [refresh EXCEPT ![r].at = "saving"]
          /\ UNCHANGED <<db, history>>
      BY <1>2 DEF RefreshFlags
    <2> QED BY <1>1, <2>1, Beside, RefreshTyped DEF RefreshFlags
  <1>3. CASE changed /\ db # Absent
    <2>1. /\ db' = [db EXCEPT !.pending = flag]
          /\ lapsed' = (lapsed \/ (db.pending /\ ~flag)) /\ edited' = FALSE
          /\ refresh' = [refresh EXCEPT ![r].at = "mirroring",
                                        ![r].flag = IF flag THEN "set" ELSE "clear"]
          /\ UNCHANGED <<policy, snapshot, issue, memory, lock, job>>
      BY <1>3 DEF RefreshFlags
    <2>2. db \in Records /\ db' \in Records
      BY <1>1, <1>3, <2>1 DEF Tickets, Records
    <2>3. db'.pending = flag /\ db'.policy = db.policy /\ db'.due = db.due
      BY <2>1, <2>2 DEF Records
    <2>4. ~lapsed' => ~lapsed /\ (db.pending => db'.pending)
      BY <2>1, <2>3
    <2>5. lapsed' \in BOOLEAN /\ db' # Absent /\ refresh' \in [Refreshes -> RefreshRecords]
      BY <2>1, <2>2, RefreshTyped, SlaAssumption DEF SlaInv, SlaTypeOK, Records
    <2>6. SlaTypeOK' /\ Shaped' /\ Born'
      BY <1>3, <2>1, <2>2, <2>5 DEF SlaInv, SlaTypeOK, Shaped, Born, ShapeOf, ReconcilerShape,
                                ImportShape, CreationShape, Tickets
    <2> HIDE DEF flag
    <2>7. Reconciled'
      BY <1>3, <2>1, <2>3, <2>4 DEF SlaInv, Reconciled, CarrierKnows, Carrying, OutcomeSuits,
                                    Nobody, RecordSuits, Knows
    <2>8. HandKept'
      BY <2>1 DEF HandKept
    <2> QED BY <2>6, <2>7, <2>8 DEF SlaInv
  <1> QED BY <1>2, <1>3

\* A new snapshot does not change what suits the records that were reconciled with the old one.
LEMMA RefreshSavesInv ==
    ASSUME SlaInv, NEW r \in Refreshes, RefreshSaves(r)
    PROVE  SlaInv'
  <1>1. /\ snapshot' = refresh[r].fetched /\ edited' = (edited /\ snapshot' = snapshot)
        /\ refresh' = [refresh EXCEPT ![r] = NoRefresh]
        /\ UNCHANGED <<policy, issue, db, memory, lock, job, lapsed>>
    BY DEF RefreshSaves
  <1>2. snapshot' \in Configurations /\ refresh' \in [Refreshes -> RefreshRecords]
        /\ edited' \in BOOLEAN
    BY <1>1, RefreshTyped DEF SlaInv, SlaTypeOK
  <1>3. SlaTypeOK' /\ Shaped' /\ Born'
    BY <1>1, <1>2 DEF SlaInv, SlaTypeOK, Shaped, Born, ShapeOf, ReconcilerShape, ImportShape,
                      CreationShape
  <1>4. Reconciled'
    BY <1>1 DEF SlaInv, Reconciled, CarrierKnows, Carrying, OutcomeSuits, Nobody, RecordSuits, Knows
  <1>5. HandKept'
    BY <1>1 DEF SlaInv, HandKept, Unmoved
  <1> QED BY <1>3, <1>4, <1>5 DEF SlaInv

-----------------------------------------------------------------------------
(* Creating the issue. *)

\* The first record of the ticket is flagged, and nobody knows of the ticket before.
LEMMA CreationPostsInv ==
    ASSUME SlaInv, CreationPosts
    PROVE  SlaInv'
  <1> DEFINE mine == job["creation"]
             record == Record(mine.policy, [due |-> mine.policy, closed |-> FALSE], TRUE, FALSE)
             after == [mine EXCEPT !.at = "confirming"]
  <1>1. mine \in JobRecords /\ mine.at = "posting" /\ mine.policy \in Policies
    BY DEF SlaInv, SlaTypeOK, Shaped, ShapeOf, CreationShape, SlaJobs, CreationPosts
  <1>2. /\ db' = record /\ memory' = record /\ job' = [job EXCEPT !["creation"] = after]
        /\ \/ issue' = [due |-> mine.policy, closed |-> FALSE]
           \/ issue' = [due |-> NoDate, closed |-> FALSE]
        /\ UNCHANGED <<dojo, lock, history>>
    BY <1>1 DEF CreationPosts
  <1>3. record \in Records /\ record.pending /\ issue' \in Issues
    <2>1. record = [policy |-> mine.policy, due |-> mine.policy, closed |-> FALSE,
                    pending |-> TRUE, active |-> FALSE]
      BY DEF Record
    <2>2. mine.policy \in Configurations /\ mine.policy \in Dues /\ NoDate \in Dues
      BY <1>1 DEF Configurations, Dues
    <2> HIDE DEF mine, record, after
    <2>3. record \in Records /\ record.pending
      BY <2>1, <2>2 DEF Records, Configurations
    <2>4. \A due \in Dues : [due |-> due, closed |-> FALSE] \in Issues
      BY DEF Issues
    <2>5. issue' = [due |-> mine.policy, closed |-> FALSE]
          \/ issue' = [due |-> NoDate, closed |-> FALSE]
      BY <1>2
    <2>6. issue' \in Issues
      BY <2>2, <2>4, <2>5
    <2> QED BY <2>3, <2>6
  <1>4. after \in JobRecords /\ after.at = "confirming" /\ after.policy \in Policies
    BY <1>1 DEF JobRecords, Stages
  <1>5. issue = Absent /\ ~edited /\ \A k \in SlaJobs \ {"creation"} : job[k].at = "idle"
    BY <1>1 DEF SlaInv, Born
  <1>6. \A k \in SlaJobs : job'[k] = IF k = "creation" THEN after ELSE job[k]
    BY <1>2 DEF SlaInv, SlaTypeOK, SlaJobs
  <1> HIDE DEF record, after
  <1>7. SlaTypeOK'
    BY <1>2, <1>3, <1>4 DEF SlaInv, SlaTypeOK, Tickets, dojo, history
  <1>8. Shaped'
    BY <1>4, <1>6 DEF SlaInv, Shaped, ShapeOf, ReconcilerShape, ImportShape, CreationShape,
                      Reconcilers, SlaJobs
  <1>9. Born'
    BY <1>2, <1>3, <1>4, <1>6, SlaAssumption DEF Born, SlaJobs
  <1>10. Reconciled'
    <2>1. \A k \in SlaJobs : Knows(k, job[k])'
      BY <1>4, <1>5, <1>6 DEF Knows
    <2>2. \A k \in Reconcilers : CarrierKnows(k, job[k])'
      BY <1>5, <1>6 DEF CarrierKnows, Carrying, Reconcilers, SlaJobs
    <2> QED BY <1>2, <1>3, <2>1, <2>2 DEF Reconciled, RecordSuits
  <1>11. HandKept'
    BY <1>2, <1>5 DEF HandKept, history
  <1> QED BY <1>7, <1>8, <1>9, <1>10, <1>11 DEF SlaInv


-----------------------------------------------------------------------------
(* Reconciling. *)

LEMMA ReconcilerIs ==
    ASSUME SlaInv, NEW j \in Reconcilers
    PROVE  /\ j \in SlaJobs /\ j # "import" /\ j # "creation"
           /\ job[j] \in JobRecords /\ ReconcilerShape(job[j])
           /\ job[j].overtaken \in BOOLEAN /\ job[j].pending \in BOOLEAN
           /\ job[j].active \in BOOLEAN /\ job[j].stamped \in BOOLEAN
           /\ job[j].at \in Stages /\ job[j].ticket \in Tickets
           /\ job[j].policy \in Configurations
           /\ job[j].at # "idle" => issue \in Issues /\ db \in Records /\ memory \in Records
           /\ snapshot \in Configurations
           /\ memory \in Remembered /\ lapsed \in BOOLEAN /\ edited \in BOOLEAN
           /\ lock \in {"free"} \cup SlaJobs
  <1>1. j \in SlaJobs /\ j # "import" /\ j # "creation"
    BY DEF SlaJobs, Reconcilers
  <1>2. job[j] \in JobRecords /\ ReconcilerShape(job[j])
    BY <1>1 DEF SlaInv, SlaTypeOK, Shaped, ShapeOf
  <1>3. job[j].at # "idle" => issue \in Issues /\ db \in Records /\ memory \in Records
    BY <1>1 DEF SlaInv, SlaTypeOK, Born, Tickets
  <1> QED BY <1>1, <1>2, <1>3 DEF JobRecords, ReconcilerShape, Remembered, SlaInv, SlaTypeOK

LEMMA TicketIs ==
    ASSUME NEW ticket \in Records
    PROVE  /\ ticket.policy \in Configurations /\ ticket.due \in Dues
           /\ ticket.pending \in BOOLEAN /\ ticket.active \in BOOLEAN /\ ticket # Absent
  BY SlaAssumption DEF Records, Configurations

LEMMA LapsesFacts ==
    ASSUME lapsed \in BOOLEAN, edited \in BOOLEAN, NEW when \in BOOLEAN, Lapses(when)
    PROVE  /\ lapsed' \in BOOLEAN /\ edited' \in BOOLEAN
           /\ (lapsed => lapsed') /\ (edited' => edited)
           /\ ~lapsed' => ~when
  BY DEF Lapses

\* A job comes to an outcome, which it is going to write.
LEMMA OutcomeStep ==
    ASSUME SlaInv, NEW j \in Reconcilers, NEW seen \in Issues, NEW of \in Configurations,
           NEW pending \in BOOLEAN, NEW active \in BOOLEAN, NEW stamped \in BOOLEAN,
           job[j].at # "idle",
           job' = [job EXCEPT ![j] = Outcome(j, seen, of, pending, active, stamped)],
           UNCHANGED <<dojo, issue, db, memory>>, lock' \in {"free"} \cup SlaJobs,
           lapsed' \in BOOLEAN, edited' \in BOOLEAN, lapsed => lapsed', edited' => edited,
           ~lapsed' /\ Carrying(j, job[j]) => stamped,
           ~lapsed' /\ ~job[j].overtaken /\ (stamped \/ Nobody) =>
                pending \/ (Suits(seen.due, of) /\ Suits(issue.due, of)),
           edited' /\ ~lapsed' => job[j].overtaken \/ (~stamped /\ ~pending /\ of = snapshot)
    PROVE  SlaInv'
  <1>1. PICK m : m = Outcome(j, seen, of, pending, active, stamped)
    OBVIOUS
  <1>2. /\ j \in SlaJobs /\ j # "import" /\ j # "creation" /\ issue # Absent
        /\ memory \in Remembered
    BY ReconcilerIs, SlaAssumption
  <1>3. /\ m \in JobRecords /\ m.at = "writing" /\ m.seen = seen /\ m.policy = of
        /\ m.pending = pending /\ m.stamped = stamped /\ m.overtaken = job[j].overtaken
    <2>1. job[j] \in JobRecords
      BY ReconcilerIs
    <2> QED BY ONLY <1>1, <2>1, OutcomeIs, seen \in Issues, of \in Configurations,
                    pending \in BOOLEAN, active \in BOOLEAN, stamped \in BOOLEAN
  <1>4. ~lapsed' /\ ~job[j].overtaken /\ (stamped \/ Nobody) => OutcomeSuits(m)
    BY <1>3 DEF OutcomeSuits
  <1>5. Becomes(j, m)
    BY <1>2, <1>3, <1>4 DEF Becomes, ShapeOf, ReconcilerShape, Carrying, CarrierKnows, Knows, Unmoved
  <1> QED BY <1>1, <1>2, <1>3, <1>5, StepOfOne DEF dojo

LEMMA ReadsInv ==
    ASSUME SlaInv, NEW j \in Reconcilers, Reads(j)
    PROVE  SlaInv'
  <1>1. PICK record \in (IF j = "poll" THEN {db} ELSE Remembered) :
            /\ record # Absent
            /\ job' = [job EXCEPT ![j] = [Idle EXCEPT !.at = "fetching", !.ticket = record,
                                                      !.overtaken = record # db /\ ~lapsed]]
            /\ IF j = "poll" THEN UNCHANGED <<memory, events>> ELSE Event /\ memory' = record
    BY DEF Reads
  <1>2. PICK m : m = [Idle EXCEPT !.at = "fetching", !.ticket = record,
                                  !.overtaken = record # db /\ ~lapsed]
    OBVIOUS
  <1>3. record \in Remembered /\ memory' \in Remembered
    BY <1>1 DEF Remembered
  <1>4. record \in Records /\ issue # Absent /\ db \in Records
    BY <1>1, <1>3 DEF SlaInv, SlaTypeOK, Born, Remembered, Tickets
  <1>5. /\ m \in JobRecords /\ m.at = "fetching" /\ m.ticket = record
        /\ m.overtaken = (record # db /\ ~lapsed)
    BY <1>2, <1>4, IdleTyped DEF SlaInv, SlaTypeOK, JobRecords, Tickets, Stages
  <1>6. job[j].at = "idle" /\ UNCHANGED <<dojo, issue, db, lock, history>>
    BY DEF Reads
  <1>7. Becomes(j, m)
    <2>1. ShapeOf(j, m)
      BY <1>4, <1>5, ReconcilerIs DEF ShapeOf, ReconcilerShape
    <2>2. ~lapsed /\ Nobody => Knows(j, m)
      BY <1>4, <1>5, TicketIs DEF SlaInv, Reconciled, RecordSuits, Knows
    <2>3. edited /\ ~lapsed => Unmoved(m)
      BY <1>5 DEF SlaInv, HandKept, Unmoved
    <2> QED BY <1>4, <1>5, <1>6, <2>1, <2>2, <2>3, ReconcilerIs
            DEF Becomes, Carrying, CarrierKnows, history
  <1> QED BY <1>1, <1>2, <1>3, <1>5, <1>6, <1>7, StepOfOne, ReconcilerIs DEF dojo, history

LEMMA ResolvesInv ==
    ASSUME SlaInv, NEW j \in Reconcilers, Resolves(j)
    PROVE  SlaInv'
  <1>1. PICK ticket : ticket = job[j].ticket
    OBVIOUS
  <1>2. /\ job[j].at = "fetching" /\ ticket \in Records /\ issue \in Issues
        /\ UNCHANGED <<dojo, issue, db, memory, lock>>
    BY <1>1, ReconcilerIs DEF Resolves, ReconcilerShape
  <1>3. ~Carrying(j, job[j])
    BY <1>2 DEF Carrying
  <1>4. ~lapsed /\ Nobody /\ ~job[j].overtaken =>
            ticket.pending \/ Suits(issue.due, ticket.policy)
    BY <1>1, <1>2, ReconcilerIs DEF SlaInv, Reconciled, Knows
  <1>5. edited /\ ~lapsed /\ ~job[j].overtaken => ~ticket.pending /\ ticket.policy = snapshot
    BY <1>1, <1>2 DEF SlaInv, HandKept, Unmoved
  <1>6. CASE Drops(j) /\ \E active \in BOOLEAN : Decides(j, issue, ticket.policy, FALSE, active)
    <2>1. PICK active \in BOOLEAN : Decides(j, issue, ticket.policy, FALSE, active)
      BY <1>6
    <2>2. /\ lapsed' \in BOOLEAN /\ edited' \in BOOLEAN
          /\ (lapsed => lapsed') /\ (edited' => edited)
          /\ ~lapsed' => ~ticket.pending
      BY <1>1, <1>2, <1>6, LapsesFacts, ReconcilerIs, TicketIs DEF Drops
    <2> QED BY <1>2, <1>3, <1>4, <1>5, <2>1, <2>2, OutcomeStep, ReconcilerIs, TicketIs DEF Decides
  <1>7. CASE ~Needs(ticket, issue, snapshot) /\ Decides(j, issue, ticket.policy, FALSE, TRUE)
             /\ UNCHANGED history
    BY <1>2, <1>3, <1>4, <1>5, <1>7, OutcomeStep, ReconcilerIs, TicketIs DEF Decides, Needs, history
  <1>8. CASE /\ Needs(ticket, issue, snapshot) /\ snapshot # Off /\ UNCHANGED history
             /\ job' = [job EXCEPT ![j].at = "locking", ![j].policy = snapshot, ![j].seen = issue]
    <2>1. PICK m : m = [job[j] EXCEPT !.at = "locking", !.policy = snapshot, !.seen = issue]
      OBVIOUS
    <2>2. job' = [job EXCEPT ![j] = m]
      BY <1>8, <2>1, ReconcilerIs DEF SlaInv, SlaTypeOK
    <2>3. /\ m \in JobRecords /\ m.at = "locking" /\ m.ticket = ticket /\ m.seen = issue
          /\ m.policy = snapshot /\ m.overtaken = job[j].overtaken
      BY <1>1, <1>2, <2>1, ReconcilerIs DEF JobRecords, Stages
    <2>4. snapshot \in Policies
      BY <1>8, ReconcilerIs DEF Configurations
    <2>5. Becomes(j, m)
      <3>1. ShapeOf(j, m)
        BY <1>2, <2>3, <2>4, ReconcilerIs DEF ShapeOf, ReconcilerShape
      <3>2. ~lapsed /\ Nobody => Knows(j, m)
        BY <1>4, <2>3 DEF Knows
      <3>3. edited /\ ~lapsed => Unmoved(m)
        BY <1>5, <1>8, <2>3 DEF Unmoved, Needs
      <3> QED BY <1>2, <1>3, <1>8, <2>3, <3>1, <3>2, <3>3, SlaAssumption, ReconcilerIs
              DEF Becomes, Carrying, CarrierKnows, history
    <2> QED BY <1>2, <1>8, <2>2, <2>3, <2>5, StepOfOne, ReconcilerIs DEF dojo, history
  <1>9. ticket.active \in BOOLEAN
    BY <1>2, TicketIs
  <1> QED BY <1>1, <1>6, <1>7, <1>8, <1>9 DEF Resolves


LEMMA LockBusyInv ==
    ASSUME SlaInv, NEW j \in Reconcilers, LockBusy(j)
    PROVE  SlaInv'
  <1>1. /\ job[j].at = "locking" /\ job[j].seen \in Issues
        /\ job[j].ticket.policy \in Configurations
        /\ UNCHANGED <<dojo, issue, db, memory, lock, history>>
    BY ReconcilerIs, TicketIs DEF LockBusy, ReconcilerShape
  <1>2. ~Carrying(j, job[j])
    BY <1>1 DEF Carrying
  <1>3. edited /\ ~lapsed => job[j].overtaken
    BY <1>1 DEF SlaInv, HandKept, Unmoved
  <1>4. job' = [job EXCEPT ![j] = Outcome(j, job[j].seen, job[j].ticket.policy, TRUE, FALSE, FALSE)]
    BY DEF LockBusy, Decides
  <1> QED BY <1>1, <1>2, <1>3, <1>4, OutcomeStep, ReconcilerIs DEF history

LEMMA LocksInv ==
    ASSUME SlaInv, NEW j \in Reconcilers, TakesLock(j)
    PROVE  SlaInv'
  <1>1. PICK ticket : ticket = job[j].ticket
    OBVIOUS
  <1>2. /\ job[j].at = "locking" /\ job[j].seen \in Issues /\ job[j].policy \in Policies
        /\ ticket \in Records /\ issue \in Issues
        /\ UNCHANGED <<dojo, issue, db, memory>>
    BY <1>1, ReconcilerIs DEF TakesLock, ReconcilerShape
  <1>3. ~Carrying(j, job[j]) /\ job[j].policy \in Configurations
    BY <1>2 DEF Carrying, Configurations
  <1>4. ~lapsed /\ Nobody /\ ~job[j].overtaken =>
            ticket.pending \/ Suits(issue.due, ticket.policy)
    BY <1>1, <1>2, ReconcilerIs DEF SlaInv, Reconciled, Knows
  <1>5. edited /\ ~lapsed => job[j].overtaken
    BY <1>2 DEF SlaInv, HandKept, Unmoved
  <1>6. CASE /\ Decides(j, issue, ticket.policy, FALSE, ticket.active)
             /\ Drops(j) /\ UNCHANGED lock
    <2>1. /\ lapsed' \in BOOLEAN /\ edited' \in BOOLEAN
          /\ (lapsed => lapsed') /\ (edited' => edited)
          /\ ~lapsed' => ~ticket.pending
      BY <1>1, <1>2, <1>6, LapsesFacts, ReconcilerIs, TicketIs DEF Drops
    <2> QED BY <1>2, <1>3, <1>4, <1>5, <1>6, <2>1, OutcomeStep, ReconcilerIs, TicketIs DEF Decides
  <1>7. CASE /\ issue.due = job[j].policy
             /\ job' = [job EXCEPT ![j] = Outcome(j, issue, job[j].policy, FALSE, TRUE, TRUE)]
             /\ UNCHANGED <<lock, history>>
    <2>1. Suits(issue.due, job[j].policy)
      BY <1>7 DEF Suits
    <2> QED BY <1>2, <1>3, <1>5, <1>7, <2>1, OutcomeStep, ReconcilerIs DEF history
  <1>8. CASE /\ job' = [job EXCEPT ![j].at = "updating", ![j].seen = issue]
             /\ lock' = j /\ UNCHANGED history
    <2>1. PICK m : m = [job[j] EXCEPT !.at = "updating", !.seen = issue]
      OBVIOUS
    <2>2. job' = [job EXCEPT ![j] = m]
      BY <1>8, <2>1, ReconcilerIs DEF SlaInv, SlaTypeOK
    <2>3. /\ m \in JobRecords /\ m.at = "updating" /\ m.ticket = ticket /\ m.seen = issue
          /\ m.policy = job[j].policy /\ m.overtaken = job[j].overtaken
      BY <1>1, <1>2, <2>1, ReconcilerIs DEF JobRecords, Stages
    <2>4. Becomes(j, m)
      <3>1. ShapeOf(j, m)
        BY <1>2, <2>3, ReconcilerIs DEF ShapeOf, ReconcilerShape
      <3>2. ~lapsed /\ Nobody => Knows(j, m)
        BY <1>4, <2>3 DEF Knows
      <3>3. edited /\ ~lapsed => Unmoved(m)
        BY <1>5, <2>3 DEF Unmoved
      <3> QED BY <1>2, <1>3, <1>8, <2>3, <3>1, <3>2, <3>3, SlaAssumption, ReconcilerIs
              DEF Becomes, Carrying, CarrierKnows, history
    <2> QED BY <1>2, <1>8, <2>2, <2>3, <2>4, StepOfOne, ReconcilerIs DEF dojo, history
  <1> QED BY <1>1, <1>6, <1>7, <1>8 DEF TakesLock

\* The date of the policy goes into the issue: who was not overtaken is the only one to know.
LEMMA UpdatesInv ==
    ASSUME SlaInv, NEW j \in Reconcilers, Updates(j)
    PROVE  SlaInv'
  <1>1. /\ job[j].at = "updating" /\ job[j].policy \in Policies
        /\ issue \in Issues /\ db \in Records /\ memory \in Records
        /\ issue' = [issue EXCEPT !.due = job[j].policy]
        /\ Overtaking(j, [job[j] EXCEPT !.at = "confirming"], job[j].overtaken)
        /\ UNCHANGED <<dojo, db, memory, lock>>
    BY ReconcilerIs DEF Updates, ReconcilerShape
  <1>2. PICK mine : mine = [job[j] EXCEPT !.at = "confirming"]
    OBVIOUS
  <1>3. /\ mine \in JobRecords /\ mine.at = "confirming" /\ mine.ticket = job[j].ticket
        /\ mine.seen = job[j].seen /\ mine.policy = job[j].policy
    BY <1>2, ReconcilerIs DEF JobRecords, Stages
  <1>4. ShapeOf(j, mine)
    BY <1>1, <1>3, ReconcilerIs DEF ShapeOf, ReconcilerShape
  <1>5. issue' \in Issues /\ issue # Absent
    BY <1>1, SlaAssumption DEF Issues, Dues
  <1>6. ~(edited' /\ ~lapsed')
    <2>1. edited /\ ~lapsed => job[j].overtaken
      BY <1>1 DEF SlaInv, HandKept, Unmoved
    <2> QED BY <1>1, <2>1 DEF Overtaking, Lapses
  <1> QED BY <1>1, <1>2, <1>3, <1>4, <1>5, <1>6, StepThatOvertakes, ReconcilerIs DEF dojo

LEMMA UpdateIgnoredInv ==
    ASSUME SlaInv, NEW j \in Reconcilers, UpdateIgnored(j)
    PROVE  SlaInv'
  <1>1. /\ job[j].at = "updating" /\ job[j].policy \in Policies /\ issue # Absent
        /\ job' = [job EXCEPT ![j].at = "confirming"]
        /\ UNCHANGED <<dojo, issue, db, memory, lock, history>>
    BY ReconcilerIs, SlaAssumption DEF UpdateIgnored, ReconcilerShape
  <1>2. PICK m : m = [job[j] EXCEPT !.at = "confirming"]
    OBVIOUS
  <1>3. job' = [job EXCEPT ![j] = m]
    BY <1>1, <1>2, ReconcilerIs DEF SlaInv, SlaTypeOK
  <1>4. /\ m \in JobRecords /\ m.at = "confirming" /\ m.ticket = job[j].ticket
        /\ m.seen = job[j].seen /\ m.policy = job[j].policy /\ m.overtaken = job[j].overtaken
    BY <1>2, ReconcilerIs DEF JobRecords, Stages
  <1>5. ShapeOf(j, m)
    BY <1>1, <1>4, ReconcilerIs DEF ShapeOf, ReconcilerShape
  <1>6. edited /\ ~lapsed => job[j].overtaken
    BY <1>1 DEF SlaInv, HandKept, Unmoved
  <1>7. Becomes(j, m)
    BY <1>1, <1>4, <1>5, <1>6, ReconcilerIs
       DEF Becomes, Carrying, CarrierKnows, Knows, Unmoved, history
  <1> QED BY <1>1, <1>3, <1>4, <1>7, StepOfOne, ReconcilerIs DEF dojo, history

LEMMA ConfirmsInv ==
    ASSUME SlaInv, NEW j \in Reconcilers, Confirms(j)
    PROVE  SlaInv'
  <1>1. /\ job[j].at = "confirming" /\ job[j].policy \in Policies /\ job[j].ticket \in Records
        /\ issue \in Issues /\ lock' = "free"
        /\ UNCHANGED <<dojo, issue, db, memory>>
    BY ReconcilerIs DEF Confirms, ReconcilerShape
  <1>2. edited /\ ~lapsed => job[j].overtaken
    BY <1>1 DEF SlaInv, HandKept, Unmoved
  <1>3. CASE /\ Decides(j, issue, job[j].ticket.policy, FALSE, job[j].ticket.active)
             /\ Lapses(TRUE)
    <2>1. /\ lapsed' \in BOOLEAN /\ edited' \in BOOLEAN /\ lapsed'
          /\ (lapsed => lapsed') /\ (edited' => edited)
      BY <1>3, LapsesFacts, ReconcilerIs
    <2> QED BY <1>1, <1>3, <2>1, OutcomeStep, TicketIs DEF Decides
  <1>4. CASE /\ job' = [job EXCEPT ![j] = Mirrored(j, issue, issue.due = job[j].policy)]
             /\ UNCHANGED history
    <2>1. PICK kept \in BOOLEAN : kept = (issue.due = job[j].policy)
      OBVIOUS
    <2>2. kept => Suits(issue.due, job[j].policy)
      BY <2>1 DEF Suits
    <2>3. (~kept) \in BOOLEAN /\ job[j].policy \in Configurations
      BY <1>1 DEF Configurations
    <2> QED BY <1>1, <1>2, <1>4, <2>1, <2>2, <2>3, OutcomeStep, ReconcilerIs DEF Mirrored, history
  <1> QED BY <1>3, <1>4 DEF Confirms

LEMMA MirrorFailsInv ==
    ASSUME SlaInv, NEW j \in Reconcilers, MirrorFails(j)
    PROVE  SlaInv'
  <1>1. /\ job[j].at \in {"updating", "confirming"} /\ job[j].seen \in Issues
        /\ job[j].policy \in Configurations /\ lock' = "free"
        /\ job' = [job EXCEPT ![j] = Outcome(j, job[j].seen, job[j].policy, TRUE, FALSE, TRUE)]
        /\ UNCHANGED <<dojo, issue, db, memory, history>>
    BY ReconcilerIs DEF MirrorFails, Mirrored, ReconcilerShape, Configurations
  <1>2. edited /\ ~lapsed => job[j].overtaken
    BY <1>1 DEF SlaInv, HandKept, Unmoved
  <1> QED BY <1>1, <1>2, OutcomeStep, ReconcilerIs DEF history

LEMMA StumblesInv ==
    ASSUME SlaInv, NEW j \in Reconcilers, Stumbles(j)
    PROVE  SlaInv'
  <1>1. UNCHANGED <<dojo, issue, db, memory, lock, lapsed>>
    BY DEF Stumbles
  <1>2. CASE /\ job[j].at = "fetching"
             /\ Decides(j, issue, job[j].ticket.policy, TRUE, FALSE) /\ edited' = FALSE
    <2>1. /\ issue \in Issues /\ job[j].ticket.policy \in Configurations
          /\ ~Carrying(j, job[j])
      BY <1>2, ReconcilerIs, TicketIs DEF ReconcilerShape, Carrying
    <2> QED BY <1>1, <1>2, <2>1, OutcomeStep, ReconcilerIs DEF Decides
  <1>3. CASE /\ job[j].at = "locking" /\ UNCHANGED edited
             /\ Decides(j, job[j].seen, job[j].ticket.policy, TRUE, FALSE)
    <2>1. /\ job[j].seen \in Issues /\ job[j].ticket.policy \in Configurations
          /\ ~Carrying(j, job[j])
      BY <1>3, ReconcilerIs, TicketIs DEF ReconcilerShape, Carrying
    <2>2. edited /\ ~lapsed => job[j].overtaken
      BY <1>3 DEF SlaInv, HandKept, Unmoved
    <2> QED BY <1>1, <1>3, <2>1, <2>2, OutcomeStep, ReconcilerIs DEF Decides
  <1> QED BY <1>2, <1>3 DEF Stumbles


LEMMA RecordIs ==
    ASSUME NEW of \in Configurations, NEW seen \in Issues, NEW pending \in BOOLEAN,
           NEW active \in BOOLEAN, NEW record, record = Record(of, seen, pending, active)
    PROVE  /\ record \in Records /\ record.policy = of /\ record.due = seen.due
           /\ record.pending = pending
  BY DEF Record, Records, Issues, Configurations

LEMMA WritesInv ==
    ASSUME SlaInv, NEW j \in Reconcilers, Writes(j)
    PROVE  SlaInv'
  <1>1. PICK known \in (IF j = "poll" THEN {job[j].ticket} ELSE Remembered) :
            LET record == Record(job[j].policy, job[j].seen, job[j].pending, job[j].active)
            IN IF job[j].stamped \/ record # known
               THEN /\ db' = record
                    /\ memory' = IF j = "poll" THEN memory ELSE record
                    /\ Overtaking(j, Idle, job[j].overtaken)
               ELSE /\ job' = [job EXCEPT ![j] = Idle]
                    /\ memory' = IF j = "poll" THEN memory ELSE known
                    /\ UNCHANGED <<db, history>>
    BY DEF Writes
  <1>2. PICK record : record = Record(job[j].policy, job[j].seen, job[j].pending, job[j].active)
    OBVIOUS
  <1>3. /\ job[j].at = "writing" /\ job[j].seen \in Issues
        /\ issue \in Issues /\ memory \in Records
        /\ UNCHANGED <<dojo, issue, lock>>
    BY ReconcilerIs DEF Writes, ReconcilerShape
  <1>4. /\ record \in Records /\ record.policy = job[j].policy /\ record.due = job[j].seen.due
        /\ record.pending = job[j].pending
    BY <1>2, <1>3, ReconcilerIs, RecordIs
  <1>5. ShapeOf(j, Idle)
    BY IdleTyped, ReconcilerIs DEF ShapeOf, ReconcilerShape
  <1>6. issue # Absent
    BY <1>3, SlaAssumption
  <1>7. CASE /\ db' = record /\ memory' = (IF j = "poll" THEN memory ELSE record)
             /\ Overtaking(j, Idle, job[j].overtaken)
    <2>1. ~lapsed' => ~lapsed /\ ~job[j].overtaken
      BY <1>7 DEF Overtaking, Lapses
    <2>2. ASSUME ~lapsed', NobodyElse(j) PROVE RecordSuits'
      <3>1. OutcomeSuits(job[j])
        <4>1. CASE job[j].stamped
          BY <1>3, <2>1, <2>2, <4>1 DEF SlaInv, Reconciled, CarrierKnows, Carrying
        <4>2. CASE ~job[j].stamped
          <5>1. Nobody
            BY <1>3, <2>2, <4>2 DEF Nobody, NobodyElse, Carrying
          <5> QED BY <1>3, <2>1, <2>2, <5>1, ReconcilerIs DEF SlaInv, Reconciled, Knows
        <4> QED BY <4>1, <4>2
      <3> QED BY <1>3, <1>4, <1>7, <3>1 DEF RecordSuits, OutcomeSuits
    <2>3. edited' /\ ~lapsed' => ~db'.pending /\ db'.policy = snapshot
      <3>1. edited' => edited
        BY <1>7 DEF Overtaking, Lapses
      <3> QED BY <1>3, <1>4, <1>7, <2>1, <3>1 DEF SlaInv, HandKept, Unmoved
    <2> QED BY <1>3, <1>4, <1>5, <1>6, <1>7, <2>2, <2>3, IdleTyped, ReconcilerIs,
               StepThatOvertakes DEF dojo
  <1>8. CASE /\ ~job[j].stamped /\ job' = [job EXCEPT ![j] = Idle]
             /\ memory' = (IF j = "poll" THEN memory ELSE known)
             /\ UNCHANGED <<db, history>>
    <2>1. memory' \in Remembered
      BY <1>1, <1>8 DEF Remembered
    <2>2. Becomes(j, Idle)
      BY <1>3, <1>5, <1>6, <1>8, IdleTyped
         DEF Becomes, Carrying, CarrierKnows, Knows, Unmoved, history
    <2> QED BY <1>3, <1>8, <2>1, <2>2, IdleTyped, StepOfOne, ReconcilerIs DEF dojo, history
  <1> QED BY <1>1, <1>2, <1>7, <1>8

LEMMA FailsInv ==
    ASSUME SlaInv, NEW j \in Reconcilers, Fails(j)
    PROVE  SlaInv'
  <1>1. /\ job[j].at \in {"updating", "confirming", "writing"}
        /\ job' = [job EXCEPT ![j] = Idle] /\ Lapses(job[j].at # "updating")
        /\ lock' = (IF lock = j THEN "free" ELSE lock)
        /\ UNCHANGED <<dojo, issue, db, memory>>
    BY DEF Fails
  <1>2. /\ lapsed' \in BOOLEAN /\ edited' \in BOOLEAN
        /\ (lapsed => lapsed') /\ (edited' => edited)
        /\ ~lapsed' => job[j].at = "updating"
    BY <1>1, LapsesFacts, ReconcilerIs
  <1>3. ShapeOf(j, Idle) /\ issue # Absent
    BY <1>1, IdleTyped, ReconcilerIs, SlaAssumption DEF ShapeOf, ReconcilerShape
  <1>4. Becomes(j, Idle)
    BY <1>1, <1>2, <1>3, IdleTyped DEF Becomes, Carrying, CarrierKnows, Knows, Unmoved
  <1> QED BY <1>1, <1>2, <1>4, IdleTyped, StepOfOne, ReconcilerIs DEF dojo

-----------------------------------------------------------------------------
(* Importing, and the other steps of the creation. *)

LEMMA OthersAre ==
    ASSUME SlaInv
    PROVE  /\ {"import", "creation"} \subseteq SlaJobs
           /\ job["import"] \in JobRecords /\ ImportShape(job["import"])
           /\ job["creation"] \in JobRecords /\ CreationShape(job["creation"])
           /\ job["import"].overtaken \in BOOLEAN /\ job["creation"].overtaken \in BOOLEAN
           /\ job["creation"].policy \in Configurations
           /\ job["creation"].pending \in BOOLEAN /\ job["creation"].active \in BOOLEAN
           /\ ~Carrying("import", job["import"]) /\ ~Carrying("creation", job["creation"])
           /\ memory \in Remembered /\ lapsed \in BOOLEAN /\ edited \in BOOLEAN
           /\ lock \in {"free"} \cup SlaJobs /\ snapshot \in Configurations
           /\ issue # Absent => issue \in Issues /\ db \in Records /\ memory \in Records
  <1>1. {"import", "creation"} \subseteq SlaJobs /\ {"import", "creation"} \cap Reconcilers = {}
    BY DEF SlaJobs, Reconcilers
  <1>2. /\ job["import"] \in JobRecords /\ ImportShape(job["import"])
        /\ job["creation"] \in JobRecords /\ CreationShape(job["creation"])
    BY <1>1 DEF SlaInv, SlaTypeOK, Shaped, ShapeOf
  <1>3. issue # Absent => issue \in Issues /\ db \in Records /\ memory \in Records
    BY DEF SlaInv, SlaTypeOK, Born, Tickets
  <1> QED BY <1>1, <1>2, <1>3 DEF JobRecords, Carrying, Remembered, SlaInv, SlaTypeOK

LEMMA ImportFetchesInv ==
    ASSUME SlaInv, ImportFetches
    PROVE  SlaInv'
  <1>1. PICK m : m = [Idle EXCEPT !.at = "writing", !.seen = issue]
    OBVIOUS
  <1>2. /\ job["import"].at = "idle" /\ memory # Absent
        /\ job' = [job EXCEPT !["import"] = m]
        /\ UNCHANGED <<dojo, issue, db, memory, lock, history>>
    BY <1>1 DEF ImportFetches
  <1>3. issue # Absent /\ issue \in Issues /\ db \in Records
    BY <1>2, OthersAre DEF SlaInv, Born
  <1>4. m \in JobRecords /\ m.at = "writing" /\ m.seen = issue
    BY <1>1, <1>3, IdleTyped DEF JobRecords, Stages
  <1>5. Becomes("import", m)
    <2>1. ~lapsed /\ Nobody => Knows("import", m)
      BY <1>3, <1>4, SlaAssumption DEF SlaInv, Reconciled, RecordSuits, Knows
    <2> QED BY <1>2, <1>3, <1>4, <2>1, OthersAre
            DEF Becomes, ShapeOf, ImportShape, Carrying, CarrierKnows, Reconcilers, history
  <1> QED BY <1>2, <1>4, <1>5, StepOfOne, OthersAre DEF dojo, history

LEMMA ImportWritesInv ==
    ASSUME SlaInv, ImportWrites
    PROVE  SlaInv'
  <1>1. PICK known \in Remembered :
            LET record == Record(known.policy, job["import"].seen, known.pending, known.active)
            IN /\ db' = record /\ memory' = record
               /\ Overtaking("import", Idle, job["import"].overtaken \/ known # db)
    BY DEF ImportWrites
  <1>2. /\ job["import"].at = "writing" /\ UNCHANGED <<dojo, issue, lock>>
        /\ issue # Absent /\ job["import"].seen \in Issues
    BY OthersAre DEF ImportWrites, SlaInv, Born, ImportShape, SlaJobs, Reconcilers
  <1>3. known \in Records /\ issue \in Issues
    BY <1>2, OthersAre DEF Remembered
  <1>4. PICK record :
            record = Record(known.policy, job["import"].seen, known.pending, known.active)
    OBVIOUS
  <1>5. /\ record \in Records /\ record.policy = known.policy
        /\ record.due = job["import"].seen.due /\ record.pending = known.pending
    <2>1. /\ known.policy \in Configurations /\ known.pending \in BOOLEAN
          /\ known.active \in BOOLEAN
      BY <1>3, TicketIs
    <2> QED BY ONLY <1>2, <1>4, <2>1, RecordIs
  <1>6. PICK stale \in BOOLEAN : stale = (job["import"].overtaken \/ known # db)
    OBVIOUS
  <1>7. db' = record /\ memory' = record /\ Overtaking("import", Idle, stale)
    BY <1>1, <1>4, <1>6
  <1>8. /\ ~lapsed' => ~lapsed /\ ~job["import"].overtaken /\ known = db
        /\ edited' => edited
    BY <1>6, <1>7 DEF Overtaking, Lapses
  <1>9. ASSUME ~lapsed', NobodyElse("import") PROVE RecordSuits'
    <2>1. Nobody
      BY <1>9 DEF Nobody, NobodyElse, Reconcilers
    <2>2. Knows("import", job["import"]) /\ RecordSuits
      BY <1>8, <1>9, <2>1, OthersAre DEF SlaInv, Reconciled
    <2> QED BY <1>2, <1>3, <1>5, <1>7, <1>8, <1>9, <2>2, SlaAssumption DEF RecordSuits, Knows
  <1>10. edited' /\ ~lapsed' => ~db'.pending /\ db'.policy = snapshot
    BY <1>5, <1>7, <1>8 DEF SlaInv, HandKept
  <1>11. ShapeOf("import", Idle)
    BY IdleTyped DEF ShapeOf, ImportShape, Reconcilers
  <1> QED BY <1>2, <1>3, <1>5, <1>7, <1>9, <1>10, <1>11, IdleTyped, OthersAre,
             StepThatOvertakes DEF dojo

LEMMA CreationResolvesInv ==
    ASSUME SlaInv, CreationResolves
    PROVE  SlaInv'
  <1>1. PICK m : m = [Idle EXCEPT !.at = "posting", !.policy = snapshot]
    OBVIOUS
  <1>2. /\ job["creation"].at = "idle" /\ issue = Absent /\ snapshot # Off
        /\ job' = [job EXCEPT !["creation"] = m] /\ lock' = "creation"
        /\ UNCHANGED <<dojo, issue, db, memory, history>>
    BY <1>1 DEF CreationResolves
  <1>3. m \in JobRecords /\ m.at = "posting" /\ m.policy = snapshot /\ snapshot \in Policies
    BY <1>1, <1>2, IdleTyped, OthersAre DEF JobRecords, Stages, Configurations
  <1>4. Becomes("creation", m)
    BY <1>2, <1>3, OthersAre
       DEF Becomes, ShapeOf, CreationShape, Carrying, CarrierKnows, Knows, Reconcilers, SlaInv,
           Born, history
  <1> QED BY <1>2, <1>3, <1>4, StepOfOne, OthersAre DEF dojo, history

\* The creation comes to the outcome of its confirmation.
LEMMA CreationOutcome ==
    ASSUME SlaInv, job["creation"].at = "confirming", NEW seen \in Issues,
           NEW ok \in BOOLEAN, NEW of, of = job["creation"].policy,
           ok => Suits(seen.due, of) /\ Suits(issue.due, of),
           job' = [job EXCEPT !["creation"] = Outcome("creation", seen, of, ~ok, ok, TRUE)],
           UNCHANGED <<dojo, issue, db, memory, lock, history>>
    PROVE  SlaInv'
  <1>1. PICK m : m = Outcome("creation", seen, of, ~ok, ok, TRUE)
    OBVIOUS
  <1>2. /\ m \in JobRecords /\ m.at = "writing" /\ m.seen = seen /\ m.policy = of
        /\ m.pending = ~ok
    <2>1. (~ok) \in BOOLEAN /\ of \in Configurations /\ job["creation"] \in JobRecords
      BY OthersAre
    <2> DEFINE pending == ~ok  stamped == TRUE  who == "creation"
    <2>2. m = Outcome(who, seen, of, pending, ok, stamped) /\ pending \in BOOLEAN
          /\ stamped \in BOOLEAN /\ job[who] \in JobRecords
      BY <1>1, <2>1
    <2> HIDE DEF pending, stamped, who
    <2>3. m \in JobRecords /\ m.at = "writing" /\ m.seen = seen /\ m.policy = of
          /\ m.pending = pending
      BY ONLY <2>1, <2>2, OutcomeIs, seen \in Issues, ok \in BOOLEAN
    <2> QED BY <2>3 DEF pending
  <1>3. issue # Absent
    BY DEF SlaInv, Born
  <1>4. Becomes("creation", m)
    BY <1>2, <1>3, OthersAre DEF Becomes, ShapeOf, CreationShape, Carrying, CarrierKnows, Knows,
                                 OutcomeSuits, Reconcilers, SlaInv, HandKept, history
  <1> QED BY <1>1, <1>2, <1>4, StepOfOne, OthersAre DEF dojo, history

LEMMA CreationConfirmsInv ==
    ASSUME SlaInv, CreationConfirms \/ CreationUnconfirmed
    PROVE  SlaInv'
  <1>1. PICK of : of = job["creation"].policy
    OBVIOUS
  <1>2. /\ job["creation"].at = "confirming" /\ of \in Policies /\ issue # Absent
        /\ UNCHANGED <<dojo, issue, db, memory, lock, history>>
    BY <1>1, OthersAre DEF CreationConfirms, CreationUnconfirmed, CreationShape, SlaInv, Born
  <1>3. issue \in Issues /\ issue.due \in Dues /\ issue.closed \in BOOLEAN /\ of \in Dues
    BY <1>2, OthersAre DEF Issues, Dues
  <1>4. CASE CreationConfirms
    <2>1. PICK ok \in BOOLEAN : ok = Confirmed(issue.due, issue.closed)
      BY DEF Confirmed
    <2>2. PICK due : due = IF issue.due = NoDate /\ ~issue.closed THEN of ELSE issue.due
      OBVIOUS
    <2>3. PICK seen : seen = [due |-> due, closed |-> issue.closed]
      OBVIOUS
    <2>4. seen \in Issues /\ seen.due = due
      BY <1>3, <2>2, <2>3 DEF Issues
    <2>5. ok => Suits(seen.due, of) /\ Suits(issue.due, of)
      BY <1>1, <1>2, <2>1, <2>2, <2>4, SlaAssumption DEF Confirmed, Suits
    <2>6. job' = [job EXCEPT !["creation"] = Outcome("creation", seen, of, ~ok, ok, TRUE)]
      BY <1>1, <1>4, <2>1, <2>2, <2>3 DEF CreationConfirms
    <2> QED BY <1>1, <1>2, <2>4, <2>5, <2>6, CreationOutcome
  <1>5. CASE CreationUnconfirmed
    <2>1. PICK seen : seen = [due |-> of, closed |-> FALSE]
      OBVIOUS
    <2>2. seen \in Issues
      BY <1>3, <2>1 DEF Issues
    <2>3. PICK ok \in BOOLEAN : ok = FALSE
      OBVIOUS
    <2>4. job' = [job EXCEPT !["creation"] = Outcome("creation", seen, of, ~ok, ok, TRUE)]
      BY <1>1, <1>5, <2>1, <2>3 DEF CreationUnconfirmed
    <2> QED BY <1>1, <1>2, <2>2, <2>3, <2>4, CreationOutcome
  <1> QED BY <1>4, <1>5

LEMMA CreationWritesInv ==
    ASSUME SlaInv, CreationWrites
    PROVE  SlaInv'
  <1>1. PICK mine : mine = job["creation"]
    OBVIOUS
  <1>2. PICK record : record = Record(mine.policy, mine.seen, mine.pending, mine.active)
    OBVIOUS
  <1>3. /\ mine.at = "writing" /\ db' = record /\ memory' = record
        /\ Overtaking("creation", Idle, mine.overtaken)
        /\ lock' = "free" /\ UNCHANGED <<dojo, issue>>
    BY <1>1, <1>2 DEF CreationWrites
  <1>4. issue # Absent /\ issue \in Issues /\ mine.seen \in Issues
    BY <1>1, <1>3, OthersAre DEF SlaInv, Born, CreationShape
  <1>5. /\ record \in Records /\ record.policy = mine.policy /\ record.due = mine.seen.due
        /\ record.pending = mine.pending
    BY <1>1, <1>2, <1>4, OthersAre, RecordIs
  <1>6. ~lapsed' => ~lapsed /\ ~mine.overtaken
    BY <1>3 DEF Overtaking, Lapses
  <1>7. ASSUME ~lapsed', NobodyElse("creation") PROVE RecordSuits'
    <2>1. Nobody
      BY <1>7 DEF Nobody, NobodyElse, Reconcilers
    <2>2. OutcomeSuits(mine)
      BY <1>1, <1>3, <1>6, <1>7, <2>1, OthersAre DEF SlaInv, Reconciled, Knows
    <2> QED BY <1>3, <1>5, <2>2 DEF RecordSuits, OutcomeSuits
  <1>8. ShapeOf("creation", Idle)
    BY IdleTyped DEF ShapeOf, CreationShape, Reconcilers
  <1>9. ~(edited' /\ ~lapsed')
    BY <1>1, <1>3 DEF SlaInv, HandKept, Overtaking, Lapses
  <1> QED BY <1>1, <1>3, <1>4, <1>5, <1>7, <1>8, <1>9, IdleTyped, OthersAre, StepThatOvertakes DEF dojo

LEMMA CreationFailsInv ==
    ASSUME SlaInv, CreationFails
    PROVE  SlaInv'
  <1>1. /\ job["creation"].at \in {"confirming", "writing"}
        /\ job' = [job EXCEPT !["creation"] = Idle] /\ lock' = "free"
        /\ UNCHANGED <<dojo, issue, db, memory, history>>
    BY DEF CreationFails
  <1>2. issue # Absent
    BY <1>1 DEF SlaInv, Born
  <1>3. Becomes("creation", Idle)
    BY <1>1, <1>2, IdleTyped, OthersAre
       DEF Becomes, ShapeOf, CreationShape, Carrying, CarrierKnows, Knows, Reconcilers
  <1> QED BY <1>1, <1>3, IdleTyped, StepOfOne, OthersAre DEF dojo, history


-----------------------------------------------------------------------------
(* The theorems. *)

LEMMA InitSla == SlaInit => SlaInv
  <1> SUFFICES ASSUME SlaInit PROVE SlaInv
    OBVIOUS
  <1>1. First \in Policies
    BY SlaAssumption DEF First
  <1>2. SlaTypeOK
    BY <1>1, IdleTyped DEF SlaInit, SlaTypeOK, Configurations, Tickets, RefreshRecords, NoRefresh
  <1>3. Shaped
    BY IdleTyped DEF SlaInit, Shaped, ShapeOf, ReconcilerShape, ImportShape, CreationShape
  <1>4. Born
    BY IdleTyped DEF SlaInit, Born, SlaJobs
  <1>5. Reconciled
    BY IdleTyped DEF SlaInit, Reconciled, CarrierKnows, Carrying, RecordSuits, Knows, SlaJobs
  <1>6. HandKept
    BY DEF SlaInit, HandKept
  <1> QED BY <1>2, <1>3, <1>4, <1>5, <1>6 DEF SlaInv

LEMMA StutterSla == SlaInv /\ UNCHANGED slaVars => SlaInv'
  <1> SUFFICES ASSUME SlaInv, UNCHANGED slaVars PROVE SlaInv'
    OBVIOUS
  <1>1. policy \in Configurations /\ refresh \in [Refreshes -> RefreshRecords]
        /\ memory \in Tickets
    BY DEF SlaInv, SlaTypeOK
  <1> QED BY <1>1, Beside DEF slaVars, dojo

LEMMA SlaStep == SlaInv /\ [SlaNext]_slaVars => SlaInv'
  <1> SUFFICES ASSUME SlaInv, SlaNext PROVE SlaInv'
    BY StutterSla
  <1>1. ASSUME PolicyChanges PROVE SlaInv'
    <2>1. policy' \in Configurations /\ refresh \in [Refreshes -> RefreshRecords]
          /\ memory \in Tickets
      BY <1>1 DEF PolicyChanges, SlaInv, SlaTypeOK, Configurations
    <2> QED BY <1>1, <2>1, Beside DEF PolicyChanges
  <1>2. ASSUME NEW r \in Refreshes,
               RefreshFetches(r) \/ RefreshFails(r) \/ RefreshSteps(r) \/ RefreshDies(r)
        PROVE  SlaInv'
    BY <1>2, RefreshStarts, RefreshFlagsInv, RefreshMirrorsInv, RefreshSavesInv, RefreshDiesInv
       DEF RefreshSteps
  <1>3. ASSUME NEW j \in Reconcilers, Reads(j) \/ Steps(j) \/ Mishaps(j)
        PROVE  SlaInv'
    BY <1>3, ReadsInv, ResolvesInv, LocksInv, LockBusyInv, UpdatesInv, ConfirmsInv, WritesInv,
       UpdateIgnoredInv, MirrorFailsInv, StumblesInv, FailsInv DEF Steps, Mishaps
  <1>4. ASSUME CreationResolves \/ CreationSteps \/ CreationUnconfirmed \/ CreationFails
        PROVE  SlaInv'
    BY <1>4, CreationResolvesInv, CreationPostsInv, CreationConfirmsInv, CreationWritesInv,
       CreationFailsInv DEF CreationSteps
  <1> QED BY <1>1, <1>2, <1>3, <1>4, UsersAct, ImportFetchesInv, ImportWritesInv DEF SlaNext

\* The inductive invariant: what every job that was not overtaken knows of the issue and of the
\* record it is about to write. (checkRedmineTicketRefsForDashboard, mergeStoredManagedSla)
THEOREM SlaInvariant == SlaSpec => []SlaInv
  BY InitSla, SlaStep, PTL DEF SlaSpec

\* Type correctness of the snapshot, the issue, its records and the jobs.
THEOREM SlaTypes == SlaSpec => []SlaTypeOK
  <1>1. SlaInv => SlaTypeOK
    BY DEF SlaInv
  <1> QED BY <1>1, SlaInvariant, PTL

\* A ticket that follows the policy in the snapshot never has the due date of another one,
\* while no repair was lost. (reconcileRedmineTicketSla)
THEOREM DueDatesFollow == SlaSpec => []DuesFollowPolicies
  <1>1. SlaInv => DuesFollowPolicies
    <2> SUFFICES ASSUME SlaInv, ~lapsed, Follows PROVE db.due \notin Policies \ {snapshot}
      BY DEF DuesFollowPolicies
    <2>1. Nobody
      BY DEF Follows, Nobody, Carrying
    <2>2. RecordSuits
      BY <2>1 DEF SlaInv, Reconciled
    <2> QED BY <2>2 DEF RecordSuits, Suits, Follows
  <1> QED BY <1>1, SlaInvariant, PTL

\* What a step may do to the due date of the issue.
LEMMA DueStays ==
    ASSUME SlaInv, [SlaNext]_slaVars, edited, ~lapsed'
    PROVE  issue'.due = issue.due \/ issue'.due \notin Policies
  <1>1. CASE UNCHANGED issue
    BY <1>1
  <1>2. CASE DueIsEdited
    <2>1. issue \in Issues
      BY <1>2 DEF DueIsEdited, SlaInv, SlaTypeOK
    <2> QED BY <1>2, <2>1, SlaAssumption DEF DueIsEdited, Issues
  <1>3. CASE IssueCloses \/ IssueReopens
    <2>1. issue \in Issues
      BY <1>3 DEF IssueCloses, IssueReopens, SlaInv, SlaTypeOK
    <2> QED BY <1>3, <2>1 DEF IssueCloses, IssueReopens, Issues
  <1>4. ASSUME NEW j \in Reconcilers, Updates(j) PROVE FALSE
    BY <1>4 DEF Updates, Overtaking, Lapses, SlaInv, HandKept, Unmoved
  <1>5. CASE CreationPosts
    BY <1>5 DEF CreationPosts, SlaInv, Born
  <1>6. UNCHANGED issue \/ DueIsEdited \/ IssueCloses \/ IssueReopens \/ CreationPosts
        \/ \E j \in Reconcilers : Updates(j)
    BY DEF SlaNext, slaVars, PolicyChanges, RefreshFetches, RefreshFails, RefreshSteps, RefreshFlags,
           RefreshMirrors, RefreshSaves, RefreshDies, Reads, Steps, Resolves, TakesLock, LockBusy,
           Confirms, Writes, Mishaps, UpdateIgnored, MirrorFails, Stumbles, Fails, ImportFetches,
           ImportWrites, CreationResolves, CreationSteps, CreationConfirms, CreationWrites,
           CreationUnconfirmed, CreationFails
  <1> QED BY <1>1, <1>2, <1>3, <1>4, <1>5, <1>6

\* A due date that somebody set by hand with nothing left to repair is not written over until
\* the policy changes. (the need check of reconcileRedmineTicketSla)
THEOREM HandDatesStay == SlaSpec => HandDatesKept
  <1>1. SlaInv /\ [SlaNext]_slaVars =>
            [edited /\ ~lapsed' => issue'.due = issue.due \/ issue'.due \notin Policies]_slaVars
    BY DueStays
  <1> QED BY <1>1, SlaInvariant, PTL DEF SlaSpec, HandDatesKept

==============================================================================
