-------------------------- MODULE SlaReconciliation --------------------------
(***************************************************************************)
(* The due date that the SLA configuration of a product gives to one       *)
(* ticket, over the stored snapshot of the configuration, the record of    *)
(* the ticket in the database and in the memory of the API, and the issue  *)
(* in Redmine. The status poll of the worker and Sync All reconcile; a     *)
(* rebuild or a check of issues only imports. PostgreSQL storage.          *)
(***************************************************************************)
EXTENDS Naturals, FiniteSets

CONSTANTS
    Policies,        \* configurations; each stands for its hash and the due date it gives the ticket
    Off,             \* no configuration, or one that is invalid or not enforced
    Hand, NoDate,    \* a due date that users changed or removed, and none
    Absent,
    Refreshes,       \* refreshes of the snapshot that can be under way at the same time
    MaxChanges,      \* bound: changes of the configuration
    MaxRefreshes,    \* bound: refreshes that are started
    MaxEvents        \* bound: edits of the issue, runs of Sync All, imports and failures, together

\* Due dates, issues and records of them, with the policy that a record says it follows.
Dues == Policies \cup {Hand, NoDate}

Issues == [due : Dues, closed : BOOLEAN]

Records == [policy : Policies \cup {Off}, due : Dues, closed : BOOLEAN, pending : BOOLEAN,
            active : BOOLEAN]

ASSUME SlaAssumption ==
    /\ Policies # {} /\ Off \notin Policies /\ Hand \notin Policies /\ NoDate \notin Policies
    /\ Absent \notin Issues /\ Absent \notin Records
    /\ {MaxChanges, MaxRefreshes, MaxEvents} \subseteq Nat

VARIABLES
    policy,          \* the configuration in DefectDojo
    snapshot,        \* the stored snapshot of it
    refresh,         \* the refreshes under way
    issue,           \* the issue in Redmine
    db, memory,      \* the record of the ticket in the database, and in the API
    lock,            \* who holds the advisory lock of the ticket
    job,             \* what reads and writes the record
    lapsed,          \* history: a repair may have been lost
    edited,          \* history: the due date was set by hand, and no policy has changed since
    changes, refreshed, events

dojo == <<policy, snapshot, refresh>>
history == <<lapsed, edited>>
bounds == <<changes, refreshed, events>>
slaVars == <<dojo, issue, db, memory, lock, job, history, bounds>>

Reconcilers == {"poll", "sync"}
SlaJobs == Reconcilers \cup {"import", "creation"}

\* stamped: the outcome carries a time of its own, so that it differs from every stored record.
Idle == [at |-> "idle", ticket |-> Absent, seen |-> Absent, policy |-> Off,
         pending |-> FALSE, active |-> FALSE, stamped |-> FALSE, overtaken |-> FALSE]

NoRefresh == [at |-> "idle", fetched |-> Off, flag |-> "none"]

\* The configurations are interchangeable.
First == CHOOSE p \in Policies : TRUE

SlaInit ==
    /\ policy = First /\ snapshot = policy
    /\ refresh = [r \in Refreshes |-> NoRefresh]
    /\ issue = Absent /\ db = Absent /\ memory = Absent
    /\ lock = "free" /\ job = [j \in SlaJobs |-> Idle]
    /\ lapsed = FALSE /\ edited = FALSE
    /\ changes = 0 /\ refreshed = 0 /\ events = 0

Event == events < MaxEvents /\ events' = events + 1

\* The API loads the store of the database again every few seconds, so before any step it may
\* have done so.
Remembered == {memory, db}

-----------------------------------------------------------------------------
(* DefectDojo and the users of Redmine. *)

PolicyChanges ==
    /\ changes < MaxChanges /\ changes' = changes + 1
    /\ policy' \in (Policies \cup {Off}) \ {policy}
    /\ UNCHANGED <<snapshot, refresh, issue, db, memory, lock, job, history, refreshed, events>>

\* Nothing is about to repair the ticket.
Settled ==
    /\ db # Absent /\ ~db.pending /\ db.policy = snapshot
    /\ \A j \in SlaJobs : job[j].at \in {"idle", "fetching"}
                       /\ job[j].ticket \in {Absent, db} /\ ~job[j].overtaken

DueIsEdited ==
    /\ Event
    /\ issue # Absent /\ issue' = [issue EXCEPT !.due = Hand]
    /\ edited' = (edited \/ (Settled /\ ~lapsed))
    /\ UNCHANGED <<dojo, db, memory, lock, job, lapsed, changes, refreshed>>

IssueCloses ==
    /\ Event
    /\ issue # Absent /\ issue' = [issue EXCEPT !.closed = TRUE]
    /\ UNCHANGED <<dojo, db, memory, lock, job, history, changes, refreshed>>

IssueReopens ==
    /\ issue # Absent /\ issue.closed /\ issue' = [issue EXCEPT !.closed = FALSE]
    /\ UNCHANGED <<dojo, db, memory, lock, job, history, bounds>>

-----------------------------------------------------------------------------
(* Refreshing the snapshot: refreshProductSlaSnapshot(s). *)

RefreshFetches(r) ==
    /\ refresh[r].at = "idle" /\ refreshed < MaxRefreshes /\ refreshed' = refreshed + 1
    /\ refresh' = [refresh EXCEPT ![r] = [NoRefresh EXCEPT !.at = "comparing", !.fetched = policy]]
    /\ UNCHANGED <<policy, snapshot, issue, db, memory, lock, job, history, changes, events>>

\* DefectDojo does not answer: the snapshot that was loaded is saved again, as a stale one.
RefreshFails(r) ==
    /\ refresh[r].at = "idle" /\ refreshed < MaxRefreshes /\ refreshed' = refreshed + 1
    /\ Event
    /\ refresh' = [refresh EXCEPT ![r] = [NoRefresh EXCEPT !.at = "saving", !.fetched = snapshot]]
    /\ UNCHANGED <<policy, snapshot, issue, db, memory, lock, job, history, changes>>

\* persistFreshSnapshot. If the snapshot changes, the flag goes to every managed ticket of the
\* product before the new snapshot is saved.
RefreshFlags(r) ==
    /\ refresh[r].at = "comparing"
    /\ LET changed == snapshot # refresh[r].fetched
           flag == refresh[r].fetched # Off /\ ~db.closed
       IN IF changed /\ db # Absent
          THEN /\ db' = [db EXCEPT !.pending = flag]
               /\ lapsed' = (lapsed \/ (db.pending /\ ~flag)) /\ edited' = FALSE
               /\ refresh' = [refresh EXCEPT ![r].at = "mirroring",
                                             ![r].flag = IF flag THEN "set" ELSE "clear"]
          ELSE /\ refresh' = [refresh EXCEPT ![r].at = "saving"]
               /\ UNCHANGED <<db, history>>
    /\ UNCHANGED <<policy, snapshot, issue, memory, lock, job, bounds>>

RefreshMirrors(r) ==
    /\ refresh[r].at = "mirroring"
    /\ \E record \in Remembered :
        memory' = IF record = Absent THEN Absent
                  ELSE [record EXCEPT !.pending = refresh[r].flag = "set"]
    /\ refresh' = [refresh EXCEPT ![r].at = "saving"]
    /\ UNCHANGED <<policy, snapshot, issue, db, lock, job, history, bounds>>

RefreshSaves(r) ==
    /\ refresh[r].at = "saving"
    /\ snapshot' = refresh[r].fetched
    /\ edited' = (edited /\ snapshot' = snapshot)
    /\ refresh' = [refresh EXCEPT ![r] = NoRefresh]
    /\ UNCHANGED <<policy, issue, db, memory, lock, job, lapsed, bounds>>

\* Flags that were set stay set; the next refresh compares with the old snapshot again.
RefreshDies(r) ==
    /\ refresh[r].at \in {"mirroring", "saving"} /\ Event
    /\ refresh' = [refresh EXCEPT ![r] = NoRefresh]
    /\ UNCHANGED <<policy, snapshot, issue, db, memory, lock, job, history, changes, refreshed>>

-----------------------------------------------------------------------------
(* Reconciling: the status poll and Sync All. *)

\* History: a repair may be lost here. Nothing more is told apart afterwards.
Lapses(when) == lapsed' = (lapsed \/ when) /\ edited' = (edited /\ ~lapsed')

\* History: what j does to the issue or the record overtakes the jobs under way, and it may
\* lose a repair if it was overtaken itself.
Overtaking(j, mine, stale) ==
    /\ Lapses(stale)
    /\ job' = [k \in SlaJobs |->
        IF k = j THEN [mine EXCEPT !.overtaken = FALSE]
        ELSE [job[k] EXCEPT !.overtaken = job[k].at # "idle" /\ ~lapsed']]

Outcome(j, seen, of, pending, active, stamped) ==
    [job[j] EXCEPT !.at = "writing", !.ticket = IF j = "poll" THEN @ ELSE Absent,
                   !.seen = seen, !.policy = of, !.pending = pending, !.active = active,
                   !.stamped = stamped]

Decides(j, seen, of, pending, active) ==
    job' = [job EXCEPT ![j] = Outcome(j, seen, of, pending, active, FALSE)]

\* The poll loads the records first, Sync All takes those in memory.
Reads(j) ==
    /\ job[j].at = "idle"
    /\ \E record \in IF j = "poll" THEN {db} ELSE Remembered :
        /\ record # Absent
        /\ job' = [job EXCEPT ![j] = [Idle EXCEPT !.at = "fetching", !.ticket = record,
                                                  !.overtaken = record # db /\ ~lapsed]]
        /\ IF j = "poll" THEN UNCHANGED <<memory, events>> ELSE Event /\ memory' = record
    /\ UNCHANGED <<dojo, issue, db, lock, history, changes, refreshed>>

\* History: a closed issue, or a policy that is off, drops a repair that is pending.
Drops(j) == Lapses(job[j].ticket.pending)

\* Mutant: what the refresh has flagged is trusted, and hashes are not compared.
NeedsFlagged(ticket, seen, to) == ticket.pending

\* Mutant: a date that is not the one of the policy is repaired, too.
NeedsItsDate(ticket, seen, to) == ticket.pending \/ ticket.policy # to \/ seen.due # to

Needs(ticket, seen, to) == ticket.pending \/ ticket.policy # to

\* The issue is fetched, and the policy resolved from the snapshot.
Resolves(j) ==
    /\ job[j].at = "fetching"
    /\ LET ticket == job[j].ticket
       IN IF issue.closed
          THEN Decides(j, issue, ticket.policy, FALSE, ticket.active) /\ Drops(j)
          ELSE IF snapshot = Off
          THEN Decides(j, issue, ticket.policy, FALSE, FALSE) /\ Drops(j)
          ELSE /\ IF Needs(ticket, issue, snapshot)
                  THEN job' = [job EXCEPT ![j].at = "locking", ![j].policy = snapshot,
                                          ![j].seen = issue]
                  ELSE Decides(j, issue, ticket.policy, FALSE, TRUE)
               /\ UNCHANGED history
    /\ UNCHANGED <<dojo, issue, db, memory, lock, bounds>>

LockBusy(j) ==
    /\ job[j].at = "locking" /\ lock # "free"
    /\ Decides(j, job[j].seen, job[j].ticket.policy, TRUE, FALSE)
    /\ UNCHANGED <<dojo, issue, db, memory, lock, history, bounds>>

\* Under the lock the issue is fetched again. The lock goes when the outcome is known, before
\* it is written.
TakesLock(j) ==
    /\ job[j].at = "locking" /\ lock = "free"
    /\ \/ /\ issue.closed
          /\ Decides(j, issue, job[j].ticket.policy, FALSE, job[j].ticket.active)
          /\ Drops(j) /\ UNCHANGED lock
       \/ /\ ~issue.closed /\ issue.due = job[j].policy
          /\ job' = [job EXCEPT ![j] = Outcome(j, issue, job[j].policy, FALSE, TRUE, TRUE)]
          /\ UNCHANGED <<lock, history>>
       \/ /\ ~issue.closed /\ issue.due # job[j].policy
          /\ job' = [job EXCEPT ![j].at = "updating", ![j].seen = issue]
          /\ lock' = j /\ UNCHANGED history
    /\ UNCHANGED <<dojo, issue, db, memory, bounds>>

Updates(j) ==
    /\ job[j].at = "updating"
    /\ issue' = [issue EXCEPT !.due = job[j].policy]
    /\ Overtaking(j, [job[j] EXCEPT !.at = "confirming"], job[j].overtaken)
    /\ UNCHANGED <<dojo, db, memory, lock, bounds>>

\* Redmine answers and keeps its date, as it does for a field that its workflow locks.
UpdateIgnored(j) ==
    /\ job[j].at = "updating" /\ Event
    /\ job' = [job EXCEPT ![j].at = "confirming"]
    /\ UNCHANGED <<dojo, issue, db, memory, lock, history, changes, refreshed>>

\* Mutant: an update that Redmine did not keep is taken for one that it did.
MirroredAnyway(j, seen, kept) == Outcome(j, seen, job[j].policy, FALSE, TRUE, TRUE)

Mirrored(j, seen, kept) == Outcome(j, seen, job[j].policy, ~kept, kept, TRUE)

Confirms(j) ==
    /\ job[j].at = "confirming" /\ lock' = "free"
    /\ IF issue.closed
       THEN Decides(j, issue, job[j].ticket.policy, FALSE, job[j].ticket.active) /\ Lapses(TRUE)
       ELSE /\ job' = [job EXCEPT ![j] = Mirrored(j, issue, issue.due = job[j].policy)]
            /\ UNCHANGED history
    /\ UNCHANGED <<dojo, issue, db, memory, bounds>>

\* The update, or the fetch that confirms it, fails: the mirror is in error.
MirrorFails(j) ==
    /\ job[j].at \in {"updating", "confirming"} /\ Event /\ lock' = "free"
    /\ job' = [job EXCEPT ![j] = Mirrored(j, job[j].seen, FALSE)]
    /\ UNCHANGED <<dojo, issue, db, memory, history, changes, refreshed>>

\* What fails before: the catch of reconcileFetchedIssueSla.
Stumbles(j) ==
    /\ Event
    /\ \/ /\ job[j].at = "fetching" /\ ~issue.closed
          /\ Decides(j, issue, job[j].ticket.policy, TRUE, FALSE)
          /\ edited' = FALSE
       \/ /\ job[j].at = "locking"
          /\ Decides(j, job[j].seen, job[j].ticket.policy, TRUE, FALSE)
          /\ UNCHANGED edited
    /\ UNCHANGED <<dojo, issue, db, memory, lock, lapsed, changes, refreshed>>

Record(of, seen, pending, active) ==
    [policy |-> of, due |-> seen.due, closed |-> seen.closed, pending |-> pending, active |-> active]

\* The worker compares with the records that it loaded, the API with those it has now.
Writes(j) ==
    /\ job[j].at = "writing"
    /\ \E known \in IF j = "poll" THEN {job[j].ticket} ELSE Remembered :
        LET record == Record(job[j].policy, job[j].seen, job[j].pending, job[j].active)
        IN IF job[j].stamped \/ record # known
           THEN /\ db' = record
                /\ memory' = IF j = "poll" THEN memory ELSE record
                /\ Overtaking(j, Idle, job[j].overtaken)
           ELSE /\ job' = [job EXCEPT ![j] = Idle]
                /\ memory' = IF j = "poll" THEN memory ELSE known
                /\ UNCHANGED <<db, history>>
    /\ UNCHANGED <<dojo, issue, lock, bounds>>

\* The save fails, or the process dies. A job that dies before it has the lock has done nothing.
\* History: the issue may have been updated, and the record never says so.
Fails(j) ==
    /\ job[j].at \in {"updating", "confirming", "writing"} /\ Event
    /\ job' = [job EXCEPT ![j] = Idle]
    /\ lock' = IF lock = j THEN "free" ELSE lock
    /\ Lapses(job[j].at # "updating")
    /\ UNCHANGED <<dojo, issue, db, memory, changes, refreshed>>

-----------------------------------------------------------------------------
(* Importing: POST /rebuild-status and POST /issues/check, whose tickets have no SLA. *)

ImportFetches ==
    /\ job["import"].at = "idle" /\ memory # Absent
    /\ job' = [job EXCEPT !["import"] = [Idle EXCEPT !.at = "writing", !.seen = issue]]
    /\ Event
    /\ UNCHANGED <<dojo, issue, db, memory, lock, history, changes, refreshed>>

\* mergeStoredManagedSla puts the SLA of the record in memory back.
ImportWrites ==
    /\ job["import"].at = "writing"
    /\ \E known \in Remembered :
        LET record == Record(known.policy, job["import"].seen, known.pending, known.active)
        IN /\ db' = record /\ memory' = record
           /\ Overtaking("import", Idle, job["import"].overtaken \/ known # db)
    /\ UNCHANGED <<dojo, issue, lock, bounds>>

-----------------------------------------------------------------------------
(* Creating the issue, under the lock of the ticket. *)

CreationResolves ==
    /\ job["creation"].at = "idle" /\ issue = Absent /\ snapshot # Off
    /\ lock = "free" /\ lock' = "creation"
    /\ job' = [job EXCEPT !["creation"] = [Idle EXCEPT !.at = "posting", !.policy = snapshot]]
    /\ UNCHANGED <<dojo, issue, db, memory, history, bounds>>

\* Redmine keeps the date or, without saying so, does not. The record has the date that was
\* asked for, and waits to be confirmed.
CreationPosts ==
    /\ job["creation"].at = "posting"
    /\ LET of == job["creation"].policy
           record == Record(of, [due |-> of, closed |-> FALSE], TRUE, FALSE)
       IN /\ \/ issue' = [due |-> of, closed |-> FALSE] /\ UNCHANGED events
             \/ issue' = [due |-> NoDate, closed |-> FALSE] /\ Event
          /\ db' = record /\ memory' = record
    /\ job' = [job EXCEPT !["creation"].at = "confirming"]
    /\ UNCHANGED <<dojo, lock, history, changes, refreshed>>

Confirmed(due, closed) == ~closed /\ due = job["creation"].policy

\* A date that is missing in Redmine stays in the record, to be repaired.
CreationConfirms ==
    /\ job["creation"].at = "confirming"
    /\ LET of == job["creation"].policy
           ok == Confirmed(issue.due, issue.closed)
           due == IF issue.due = NoDate /\ ~issue.closed THEN of ELSE issue.due
       IN job' = [job EXCEPT !["creation"] =
                    Outcome("creation", [due |-> due, closed |-> issue.closed], of, ~ok, ok, TRUE)]
    /\ UNCHANGED <<dojo, issue, db, memory, lock, history, bounds>>

CreationUnconfirmed ==
    /\ job["creation"].at = "confirming" /\ Event
    /\ LET of == job["creation"].policy
       IN job' = [job EXCEPT !["creation"] =
                    Outcome("creation", [due |-> of, closed |-> FALSE], of, TRUE, FALSE, TRUE)]
    /\ UNCHANGED <<dojo, issue, db, memory, lock, history, changes, refreshed>>

CreationWrites ==
    /\ job["creation"].at = "writing"
    /\ LET mine == job["creation"]
           record == Record(mine.policy, mine.seen, mine.pending, mine.active)
       IN db' = record /\ memory' = record
    /\ Overtaking("creation", Idle, job["creation"].overtaken)
    /\ lock' = "free"
    /\ UNCHANGED <<dojo, issue, bounds>>

\* The second write fails, or the API dies after the first one.
CreationFails ==
    /\ job["creation"].at \in {"confirming", "writing"} /\ Event
    /\ job' = [job EXCEPT !["creation"] = Idle] /\ lock' = "free"
    /\ UNCHANGED <<dojo, issue, db, memory, history, changes, refreshed>>

-----------------------------------------------------------------------------
RefreshSteps(r) ==
    \/ RefreshFlags(r) \/ RefreshMirrors(r) \/ RefreshSaves(r)

Steps(j) ==
    \/ Resolves(j) \/ TakesLock(j) \/ LockBusy(j)
    \/ Updates(j) \/ Confirms(j) \/ Writes(j)

Mishaps(j) == UpdateIgnored(j) \/ MirrorFails(j) \/ Stumbles(j) \/ Fails(j)

CreationSteps ==
    \/ CreationPosts \/ CreationConfirms \/ CreationWrites

SlaNext ==
    \/ PolicyChanges \/ DueIsEdited \/ IssueCloses \/ IssueReopens
    \/ \E r \in Refreshes :
        RefreshFetches(r) \/ RefreshFails(r) \/ RefreshSteps(r) \/ RefreshDies(r)
    \/ \E j \in Reconcilers : Reads(j) \/ Steps(j) \/ Mishaps(j)
    \/ ImportFetches \/ ImportWrites
    \/ CreationResolves \/ CreationSteps \/ CreationUnconfirmed \/ CreationFails

\* Requests and handlers end, and the worker polls again and again.
Fairness ==
    /\ \A r \in Refreshes : WF_slaVars(RefreshSteps(r))
    /\ WF_slaVars(Reads("poll") \/ Steps("poll"))
    /\ WF_slaVars(Steps("sync"))
    /\ WF_slaVars(CreationSteps)

SlaSpec == SlaInit /\ [][SlaNext]_slaVars
FairSpec == SlaSpec /\ Fairness

-----------------------------------------------------------------------------
(* Properties. *)

\* The record says that its ticket follows the policy in the snapshot, and no job has an
\* outcome that is still to be written.
Follows ==
    /\ db # Absent /\ db.policy = snapshot /\ db.active /\ ~db.pending /\ ~db.closed
    /\ \A j \in Reconcilers : job[j].at \in {"idle", "fetching", "locking", "updating"}

\* A ticket that follows the policy in the snapshot, with nothing left to repair, has the due
\* date of that policy or one set by hand, never the date of another policy: unless a job wrote
\* over what it had not read, a repair was given up because the issue was closed or the policy was
\* off, or a job died between its update and its save. (reconcileRedmineTicketSla)
DuesFollowPolicies ==
    ~lapsed /\ Follows => db.due \notin Policies \ {snapshot}

\* A due date that somebody set in Redmine while nothing was left to repair is imported and not
\* written over, until the policy changes. (the need check of reconcileRedmineTicketSla)
HandDatesKept ==
    [][edited /\ ~lapsed' => issue'.due = issue.due \/ issue'.due \notin Policies]_slaVars

\* Whatever a refresh, its flags, a poll, a Sync All, an import and their failures do to one
\* another, the policy in the snapshot reaches the record and the repair ends, unless the issue
\* is closed. (needsReconciliation: the flag, and the hash for a flag that was lost)
PoliciesReachTickets ==
    (db # Absent /\ snapshot # Off) ~>
        \/ snapshot = Off
        \/ db # Absent /\ (issue.closed \/ (db.policy = snapshot /\ ~db.pending))
=============================================================================
