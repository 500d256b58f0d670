---------------------------- MODULE TicketLifecycle ----------------------------
(***************************************************************************)
(* The life of the ticket of one compaction group, over DefectDojo, the    *)
(* findings table, Redmine, the Redmine sync store and the review queue:   *)
(*   - a pull raises the active generation of a finding that is active     *)
(*     again (upsertFindingsForSync);                                      *)
(*   - a closed ticket with such a finding starts a new cycle with a key   *)
(*     and an issue of its own (applyLifecycleCyclesToTicketRefs);         *)
(*   - the recheck moves a resolved ticket with active findings to         *)
(*     Feedback, and queues the others for review (runMitigationRecheck);  *)
(*   - administrators settle the reviews and with them move the issue      *)
(*     (routes/mitigation.cjs), while engineers move it in Redmine.        *)
(* A job is a Sync All or a background poll; one runs at a time (the       *)
(* guards are those of SyncOperations). PostgreSQL storage.                *)
(***************************************************************************)
EXTENDS Integers, FiniteSets, FiniteSetsExt

CONSTANTS
    Findings,        \* the findings of the group
    MaxGeneration,   \* bound: activations of a finding
    MaxCycles,       \* bound: cycles of the ticket
    MaxScans,        \* bound: changes of a finding in DefectDojo
    EngineerStatuses, \* the statuses engineers move issues to
    MaxMoves,        \* bound: moves of the issues by engineers
    MaxFailures,     \* bound: failures of calls, jobs and actions
    ApprovalCloses,  \* Redmine marks the Engineer Approve status as closed
    Reviewing        \* the review actions administrators use

ASSUME LifecycleAssumption ==
    /\ IsFiniteSet(Findings)
    /\ {MaxGeneration, MaxCycles} \subseteq Nat \ {0}
    /\ {MaxScans, MaxMoves, MaxFailures} \subseteq Nat
    /\ ApprovalCloses \in BOOLEAN
    /\ EngineerStatuses \subseteq {"new", "resolve", "risk", "feedback", "approved", "closed"}
    /\ Reviewing \subseteq {"mark_reviewed", "ignore", "engineer_approve", "close_redmine"}

Cycles == 1 .. MaxCycles

Statuses == {"new", "resolve", "risk", "feedback", "approved", "closed"}

IsClosed(s) == s = "closed" \/ (ApprovalCloses /\ s = "approved")

VARIABLES
    scan,      \* the state of each finding in DefectDojo
    found,     \* the findings table: state and active generation
    issue,     \* the status of the Redmine issue of each cycle
    closedOn,  \* the issues that were closed once: Redmine keeps their closed_on and journals
    record,    \* the record of each cycle in the sync store
    lost,      \* was the record of a known issue ever removed? (history)
    review,    \* mitigation_reviews, by cycle, finding and type of review
    job,       \* the Sync All or poll that runs
    admin,     \* the review action that runs
    scans, moves, failures

bounds == <<scans, moves, failures>>
store == <<record, lost>>
ticketVars == <<scan, found, issue, closedOn, store, review, job, admin, bounds>>

Types == {"closure", "risk"}
Keys == Cycles \X Findings \X Types
Settled == {"reviewed", "approved", "closed", "ignored"}

\* closedAt never clears (mergeStoredLifecycle): "ended" stays when the issue
\* is opened again. "missing": a record whose search found no issue.
Records == [status : Statuses \cup {"none", "missing"}, ended : BOOLEAN,
            findings : SUBSET Findings, gens : [Findings -> 0 .. MaxGeneration]]

NoRecord == [status |-> "none", ended |-> FALSE, findings |-> {},
             gens |-> [f \in Findings |-> 0]]

\* A reference to the ticket of a cycle, with the lifecycle it was planned with.
References == [cycle : Cycles, findings : SUBSET Findings,
               gens : [Findings -> 0 .. MaxGeneration]]

\* The issue of a cycle that the recheck is to look at.
Candidates == [cycle : Cycles, findings : SUBSET Findings,
               gens : [Findings -> 0 .. MaxGeneration], status : {"resolve", "risk"}]

\* "own" are the references of the group (one, or none), "refs" those the job
\* checks, and "writes" those of them whose results are not yet written.
NoJob == [at |-> "idle", kind |-> "poll", own |-> {}, refs |-> {}, writes |-> {},
          results |-> [c \in Cycles |-> "none"], closed |-> {},
          known |-> [f \in Findings |-> "absent"], todo |-> {}, items |-> {}]

NoAdmin == [at |-> "idle", action |-> "ignore", cycle |-> 1, type |-> "risk", keys |-> {}]

FindingStates == {"absent", "active", "mitigated", "inactive"}

TypeOK ==
    /\ scan \in [Findings -> {"active", "mitigated", "gone"}]
    /\ found \in [Findings -> [state : FindingStates, gen : 0 .. MaxGeneration]]
    /\ issue \in [Cycles -> Statuses \cup {"none"}] /\ closedOn \subseteq Cycles
    /\ record \in [Cycles -> Records] /\ lost \in BOOLEAN
    /\ review \in [Keys -> {"none", "pending", "withdrawn"} \cup Settled]
    /\ job.at \in {"idle", "pulled", "checking", "creating", "reconciling",
                   "rechecking", "reviewing"}
    /\ job.kind \in {"poll", "sync"}
    /\ job.own \subseteq References /\ job.refs \subseteq References
    /\ job.writes \subseteq job.refs
    /\ job.known \in [Findings -> FindingStates]
    /\ job.todo \subseteq Candidates
    /\ job.results \in [Cycles -> Statuses \cup {"none", "missing", "failed"}]
    /\ job.closed \subseteq Cycles /\ job.items \subseteq Keys
    /\ admin.at \in {"idle", "checking", "updating", "recording", "applying"}
    /\ admin.action \in {"mark_reviewed", "ignore", "engineer_approve", "close_redmine"}
    /\ admin.cycle \in Cycles /\ admin.type \in Types
    /\ admin.keys \subseteq Keys
    /\ scans \in 0 .. MaxScans /\ moves \in 0 .. MaxMoves /\ failures \in 0 .. MaxFailures

TicketInit ==
    /\ scan = [f \in Findings |-> "active"]
    /\ found = [f \in Findings |-> [state |-> "absent", gen |-> 0]]
    /\ issue = [c \in Cycles |-> "none"] /\ closedOn = {}
    /\ record = [c \in Cycles |-> NoRecord] /\ lost = FALSE
    /\ review = [k \in Keys |-> "none"]
    /\ job = NoJob /\ admin = NoAdmin
    /\ scans = 0 /\ moves = 0 /\ failures = 0

-----------------------------------------------------------------------------
(* The findings table. *)

\* upsertFindingsForSync, for findings as DefectDojo reports them.
Upserted(fs, seen) ==
    [f \in Findings |->
        IF f \notin DOMAIN seen THEN fs[f]
        ELSE [state |-> seen[f],
              gen |-> IF seen[f] # "active" THEN fs[f].gen
                      ELSE IF fs[f].state # "active" THEN fs[f].gen + 1
                      ELSE Max({fs[f].gen, 1})]]

\* The bound on generations: a scan finds no finding active once too often.
Countable == \A f \in Findings : scan[f] = "active" => found[f].gen < MaxGeneration \/ found[f].state = "active"

\* getCurrentGenerations of a ticket: at least 1, also for findings that were
\* never active.
Generation(f) == Max({found[f].gen, 1})

Stored == {f \in Findings : found[f].state # "absent"}

-----------------------------------------------------------------------------
(* Cycles (issue-lifecycle.cjs). *)

Exists(c) == record[c].status # "none"
Linked(c) == record[c].status \in Statuses
Ended(r) == r.ended \/ IsClosed(r.status)

Latest == Max({0} \cup {c \in Cycles : Exists(c)})

\* Is this finding a reason to start a new cycle after the closed record r? A
\* finding that r does not know of is not: it joins the closed ticket.
Recurs(r, f) ==
    /\ found[f].state = "active"
    /\ \/ r.gens[f] > 0 /\ Generation(f) > r.gens[f]
       \/ r.gens[f] = 0 /\ f \in r.findings /\ Generation(f) > 1

Recurrence == Latest > 0 /\ Ended(record[Latest]) /\ \E f \in Findings : Recurs(record[Latest], f)

\* Mutant: only the status of the latest record says whether it is closed.
CycleByStatus ==
    IF Recurrence /\ IsClosed(record[Latest].status) THEN Latest + 1 ELSE Max({Latest, 1})

\* Mutant: a closed ticket is followed by a new one, active findings or not.
CycleAfterClosing == IF Latest > 0 /\ Ended(record[Latest]) THEN Latest + 1 ELSE Max({Latest, 1})

\* applyLifecycleCyclesToTicketRefs: the cycle the ticket of the group is in.
CurrentCycle == IF Recurrence THEN Latest + 1 ELSE Max({Latest, 1})

\* The reference of the group, with the findings and generations of the table.
CurrentRef ==
    [cycle |-> CurrentCycle, findings |-> Stored,
     gens |-> [f \in Findings |-> IF f \in Stored THEN Generation(f) ELSE 0]]

\* mergeStoredRedmineSyncTicketRefs: linked records of other cycles are
\* references of their own.
StoredRefs ==
    {[cycle |-> c, findings |-> record[c].findings, gens |-> record[c].gens] :
        c \in {d \in Cycles \ {CurrentCycle} : Linked(d) /\ record[d].findings # {}}}

\* mergeStoredLifecycle: the generations of r over those recorded so far.
Merged(old, r) == [f \in Findings |-> IF r.gens[f] > 0 THEN r.gens[f] ELSE old.gens[f]]

\* Mutant: closedAt says whether the issue is closed now.
WrittenReopening(rs, c, r) ==
    [d \in Cycles |->
        IF d = c THEN [r EXCEPT !.ended = IsClosed(r.status), !.gens = Merged(rs[c], r)]
        ELSE rs[d]]

\* writeStoredRedmineSyncRecord with mergeStoredLifecycle: closedAt and the
\* recorded generations of findings that left stay, and no other record that
\* is not closed keeps a finding of this one.
Written(rs, c, r) ==
    [d \in Cycles |->
        IF d = c
        THEN [r EXCEPT !.ended = rs[c].ended \/ r.ended \/ IsClosed(r.status),
                       !.gens = Merged(rs[c], r)]
        ELSE IF Ended(rs[d]) \/ rs[d].findings \cap r.findings = {} THEN rs[d]
        ELSE IF rs[d].findings \subseteq r.findings THEN NoRecord
        ELSE [rs[d] EXCEPT !.findings = @ \ r.findings]]

Stores(rs) ==
    /\ record' = rs
    /\ lost' = (lost \/ \E c \in Cycles : Linked(c) /\ rs[c].status = "none")

-----------------------------------------------------------------------------
(* DefectDojo and the engineers. *)

ScanChanges(f) ==
    /\ scans < MaxScans
    /\ \E s \in {"active", "mitigated", "gone"} \ {scan[f]} : scan' = [scan EXCEPT ![f] = s]
    /\ scans' = scans + 1
    /\ UNCHANGED <<found, issue, closedOn, store, review, job, admin, moves, failures>>

EngineerMoves(c) ==
    /\ issue[c] # "none" /\ moves < MaxMoves
    /\ \E s \in EngineerStatuses \ {issue[c]} :
        /\ issue' = [issue EXCEPT ![c] = s]
        /\ closedOn' = IF IsClosed(s) THEN closedOn \cup {c} ELSE closedOn
    /\ moves' = moves + 1
    /\ UNCHANGED <<scan, found, store, review, job, admin, scans, failures>>

-----------------------------------------------------------------------------
(* Sync All and poll. *)

Fails == failures < MaxFailures /\ failures' = failures + 1

JobOnly == UNCHANGED <<scan, issue, closedOn, admin, bounds>>

\* runDefectDojoPull of a Sync All, with the default filter: only active
\* findings are fetched, and active ones that were not are set inactive.
SyncPulls ==
    /\ job.at = "idle" /\ Countable
    /\ LET seen == [f \in {g \in Findings : scan[g] = "active"} |-> "active"]
           rest == Upserted(found, seen)
       IN found' = [f \in Findings |-> IF f \notin DOMAIN seen /\ rest[f].state = "active"
                                       THEN [rest[f] EXCEPT !.state = "inactive"] ELSE rest[f]]
    /\ job' = [NoJob EXCEPT !.at = "pulled", !.kind = "sync"]
    /\ UNCHANGED <<store, review>> /\ JobOnly

\* The references are computed from the findings and the store; a poll checks
\* those only whose issue is known.
Plans(kind) ==
    LET own == IF Stored = {} THEN {} ELSE {CurrentRef}
        refs == StoredRefs \cup (IF kind = "sync" \/ Linked(CurrentCycle) THEN own ELSE {})
    IN
    /\ CurrentCycle <= MaxCycles
    /\ job' = [NoJob EXCEPT !.at = "checking", !.kind = kind, !.own = own,
                            !.refs = refs, !.writes = refs]
    /\ UNCHANGED <<found, store, review>> /\ JobOnly

SyncPlans == job.at = "pulled" /\ Plans("sync")
PollStarts == job.at = "idle" /\ Plans("poll")

\* checkRedmineTicketRefsForDashboard: a linked issue is read, another one is
\* searched for by the exact key of its cycle.
JobChecks(c) ==
    /\ job.at = "checking" /\ \E r \in job.refs : r.cycle = c
    /\ job.results[c] = "none"
    /\ \/ /\ job' = [job EXCEPT !.results[c] = IF issue[c] = "none" THEN "missing" ELSE issue[c],
                               !.closed = @ \cup (closedOn \cap {c})]
          /\ UNCHANGED failures
       \/ /\ job' = [job EXCEPT !.results[c] = "failed"]
          /\ Fails
    /\ UNCHANGED <<scan, found, issue, closedOn, store, review, admin, scans, moves>>

AllChecked == job.at = "checking" /\ \A r \in job.refs : job.results[r.cycle] # "none"

\* buildStoredRedmineSyncRecord, for a reference and the status of its issue.
RecordOf(ref, s) == [status |-> s, ended |-> FALSE, findings |-> ref.findings, gens |-> ref.gens]

\* The same for an answer of Redmine, which also says whether the issue was ever closed
\* (parseRedmineLifecycle).
Answered(r) == [RecordOf(r, job.results[r.cycle]) EXCEPT !.ended = r.cycle \in job.closed]

\* comparableStoredSync: would the record be the same, its findings aside?
Unchanged(r) ==
    /\ record[r.cycle].status = job.results[r.cycle]
    /\ record[r.cycle].gens = Merged(record[r.cycle], r)
    /\ r.cycle \in job.closed => record[r.cycle].ended

\* persistRedmineCheckResults: one result after the other is written, that of
\* the group first. A record that would be the same is written again only if
\* its issue has new journals: a note of an engineer, who made a move for each.
JobWrites(r) ==
    /\ AllChecked /\ r \in job.writes
    /\ job.own \cap job.writes \subseteq {r}
    /\ job' = [job EXCEPT !.writes = @ \ {r}]
    /\ \/ /\ job.results[r.cycle] = "failed" \/ Unchanged(r)
          /\ UNCHANGED <<store, moves>>
       \/ /\ job.results[r.cycle] # "failed"
          /\ Stores(Written(record, r.cycle, Answered(r)))
          /\ IF Unchanged(r) THEN moves < MaxMoves /\ moves' = moves + 1
             ELSE UNCHANGED moves
    /\ UNCHANGED <<scan, found, issue, closedOn, review, admin, scans, failures>>

\* pruneStaleRedmineSyncRecords: the records of other tickets that did not end.
JobPrunes ==
    /\ AllChecked /\ job.writes = {}
    /\ Stores([c \in Cycles |->
                IF (\E r \in job.refs \cup job.own : r.cycle = c) \/ Ended(record[c])
                THEN record[c] ELSE NoRecord])
    /\ job' = [job EXCEPT !.at = IF job.kind = "sync" THEN "creating" ELSE "reconciling"]
    /\ UNCHANGED <<found, review>> /\ JobOnly

\* createRedmineTicketWithLock: under the lock the ticket must still be the
\* canonical one of the group, and its search must have found nothing.
SyncCreates ==
    /\ job.at = "creating"
    /\ \E r \in job.own :
        /\ job.results[r.cycle] = "missing" /\ issue[r.cycle] = "none"
        /\ CurrentCycle = r.cycle
        /\ issue' = [issue EXCEPT ![r.cycle] = "new"]
        /\ Stores(Written(record, r.cycle, RecordOf(CurrentRef, "new")))
        /\ job' = [job EXCEPT !.results[r.cycle] = "new"]
    /\ UNCHANGED <<scan, found, closedOn, review, admin, bounds>>

\* The issues a job knows the status of.
CheckedIssues == {c \in Cycles : job.results[c] \in Statuses}
Candidate(s) == s \in {"resolve", "risk"}

\* buildMitigationRecheckSourceRecords: the references as they were planned,
\* with the status that was read; in a poll the stored one where that failed.
SourceStatus(r) ==
    IF job.kind = "poll" /\ job.results[r.cycle] = "failed" THEN record[r.cycle].status
    ELSE job.results[r.cycle]

Sources ==
    {[cycle |-> r.cycle, findings |-> r.findings, gens |-> record[r.cycle].gens,
      status |-> SourceStatus(r)] : r \in {q \in job.refs : Candidate(SourceStatus(q))}}

\* A ticket is not created (severity, lock, failure), or there is none to create.
SyncGoesOn ==
    /\ job.at = "creating"
    /\ job' = [job EXCEPT !.at = "rechecking", !.todo = Sources]
    /\ UNCHANGED <<found, store, review>> /\ JobOnly

\* Mutant: reviews are withdrawn only of issues that are in the active set.
WithdrawnInversely(checked, active) ==
    [k \in Keys |-> IF k[3] = "risk" /\ review[k] = "pending" /\ k[1] \in checked \cap active
                    THEN "withdrawn" ELSE review[k]]

\* reconcilePendingRiskAcceptanceReviews: pending risk reviews of checked issues
\* that are not in the set of active ones are withdrawn.
Withdrawn(checked, active) ==
    [k \in Keys |-> IF k[3] = "risk" /\ review[k] = "pending" /\ k[1] \in checked \ active
                    THEN "withdrawn" ELSE review[k]]

\* runBackgroundMitigationReviewCheck: reconcile; without candidates the poll ends.
PollReconciles ==
    /\ job.at = "reconciling"
    /\ review' = Withdrawn(CheckedIssues, {c \in CheckedIssues : job.results[c] = "risk"})
    /\ job' = IF Sources # {} THEN [job EXCEPT !.at = "rechecking", !.todo = Sources] ELSE NoJob
    /\ UNCHANGED <<found, store>> /\ JobOnly

\* The candidates of the recheck: the sources, and the records of other tickets
\* in the store. Their findings are fetched from DefectDojo by their identifier
\* (some fetches fail, a finding that is gone answers 404), saved, and laid over
\* the findings of the table.
JobRechecks ==
    LET stored == {c \in Cycles : /\ Candidate(record[c].status)
                                  /\ \A r \in job.todo : r.cycle # c}
        candidates == job.todo \cup
                      {[cycle |-> c, findings |-> record[c].findings,
                        gens |-> record[c].gens, status |-> record[c].status] : c \in stored}
        there == {f \in UNION {r.findings : r \in candidates} : scan[f] # "gone"}
    IN
    /\ job.at = "rechecking" /\ Countable
    /\ \E fetched \in SUBSET there :
         /\ IF fetched = there THEN UNCHANGED failures ELSE Fails
         /\ found' = Upserted(found, [f \in fetched |-> scan[f]])
         /\ job' = [NoJob EXCEPT !.at = "reviewing", !.todo = candidates,
                                 !.known = [f \in Findings |-> found'[f].state]]
    /\ UNCHANGED <<scan, issue, closedOn, store, review, admin, scans, moves>>

KnownAs(r, s) == {f \in r.findings : job.known[f] = s}

\* Candidates whose findings are not all in one of the other cases are skipped.
ReviewsOf(r) ==
    IF r.status = "risk" THEN {r.cycle} \X KnownAs(r, "active") \X {"risk"}
    ELSE {r.cycle} \X KnownAs(r, "mitigated") \X {"closure"}

\* Reviews of a ticket in Risk Acceptance with active findings, and of a
\* resolved one without any, are collected.
JobCollects(r) ==
    /\ job.at = "reviewing" /\ r \in job.todo
    /\ r.status = "risk" \/ KnownAs(r, "active") = {}
    /\ job' = [job EXCEPT !.todo = @ \ {r}, !.items = @ \cup ReviewsOf(r)]
    /\ UNCHANGED <<found, store, review>> /\ JobOnly

\* A resolved ticket with an active finding goes to Feedback, whatever status
\* its issue has by now; Redmine may refuse, and its answer may be lost.
JobReopens(r) ==
    /\ job.at = "reviewing" /\ r \in job.todo
    /\ r.status = "resolve" /\ KnownAs(r, "active") # {}
    /\ job' = [job EXCEPT !.todo = @ \ {r}]
    /\ \E landed, answered \in BOOLEAN :
        /\ IF landed /\ answered THEN UNCHANGED failures ELSE Fails
        /\ issue' = IF landed THEN [issue EXCEPT ![r.cycle] = "feedback"] ELSE issue
        /\ Stores(IF landed /\ answered
                  THEN Written(record, r.cycle, RecordOf(r, "feedback")) ELSE record)
    /\ UNCHANGED <<scan, found, closedOn, review, admin, scans, moves>>

\* Mutant: every collected review is put (back) in the queue.
QueuedAlways(k) == IF k \in job.items THEN "pending" ELSE review[k]

\* upsertMitigationReviewItems: only a review that was withdrawn, and only of
\* Risk Acceptance, is pending again.
Queued(k) ==
    IF k \in job.items /\ (review[k] = "none" \/ (review[k] = "withdrawn" /\ k[3] = "risk"))
    THEN "pending" ELSE review[k]

JobQueues ==
    /\ job.at = "reviewing" /\ job.todo = {}
    /\ review' = [k \in Keys |-> Queued(k)]
    /\ job' = NoJob
    /\ UNCHANGED <<found, store>> /\ JobOnly

\* Any await of a job may throw, and its process may die: what is collected is lost.
JobFails ==
    /\ job.at # "idle"
    /\ job' = NoJob
    /\ Fails
    /\ UNCHANGED <<scan, found, issue, closedOn, store, review, admin, scans, moves>>

-----------------------------------------------------------------------------
(* POST /admin/mitigation-queue/:reviewKey/actions. *)

AdminOnly == UNCHANGED <<scan, found, job, bounds>>

\* listMitigationReviewQueue: the pending reviews of a ticket and type are one item.
Pending(c, t) == {k \in Keys : k[1] = c /\ k[3] = t /\ review[k] = "pending"}

AdminActs ==
    /\ admin.at = "idle"
    /\ \E c \in Cycles, t \in Types, a \in Reviewing :
        /\ Pending(c, t) # {}
        /\ t = "risk" => a # "close_redmine"
        /\ t = "closure" => a # "engineer_approve"
        /\ admin' = [at |-> IF a = "engineer_approve" THEN "checking"
                            ELSE IF a = "close_redmine" THEN "updating" ELSE "applying",
                     action |-> a, cycle |-> c, type |-> t, keys |-> Pending(c, t)]
    /\ UNCHANGED <<issue, closedOn, store, review>> /\ AdminOnly

\* A risk review is approved only while its issue is in Risk Acceptance.
AdminChecks ==
    /\ admin.at = "checking"
    /\ IF issue[admin.cycle] = "risk"
       THEN /\ admin' = [admin EXCEPT !.at = "updating"] /\ UNCHANGED review
       ELSE /\ admin' = NoAdmin
            /\ review' = Withdrawn({admin.cycle}, {})
    /\ UNCHANGED <<issue, closedOn, store>> /\ AdminOnly

TargetStatus == IF admin.action = "engineer_approve" THEN "approved" ELSE "closed"

AdminUpdates ==
    /\ admin.at = "updating"
    /\ issue' = [issue EXCEPT ![admin.cycle] = TargetStatus]
    /\ closedOn' = IF IsClosed(TargetStatus) THEN closedOn \cup {admin.cycle} ELSE closedOn
    /\ admin' = [admin EXCEPT !.at = "recording"]
    /\ UNCHANGED <<store, review>> /\ AdminOnly

\* updateRedmineSyncRecordsForIssueStatus.
AdminRecords ==
    LET c == admin.cycle IN
    /\ admin.at = "recording"
    /\ Stores(IF Exists(c) THEN Written(record, c, RecordOf(record[c], TargetStatus)) ELSE record)
    /\ admin' = [admin EXCEPT !.at = "applying"]
    /\ UNCHANGED <<issue, closedOn, review>> /\ AdminOnly

SettledBy(a) ==
    CASE a = "mark_reviewed" -> "reviewed" [] a = "ignore" -> "ignored"
      [] a = "engineer_approve" -> "approved" [] a = "close_redmine" -> "closed"

\* applyMitigationReviewAction: one transaction for each review, whatever its
\* state is by now.
AdminApplies(k) ==
    /\ admin.at = "applying" /\ k \in admin.keys
    /\ review' = [review EXCEPT ![k] = SettledBy(admin.action)]
    /\ admin' = IF admin.keys = {k} THEN NoAdmin ELSE [admin EXCEPT !.keys = @ \ {k}]
    /\ UNCHANGED <<issue, closedOn, store>> /\ AdminOnly

AdminFails ==
    /\ admin.at # "idle"
    /\ admin' = NoAdmin
    /\ Fails
    /\ UNCHANGED <<scan, found, issue, closedOn, store, review, job, scans, moves>>

-----------------------------------------------------------------------------

JobProgress ==
    \/ SyncPlans \/ \E c \in Cycles : JobChecks(c)
    \/ \E r \in job.writes : JobWrites(r)
    \/ JobPrunes \/ SyncCreates \/ SyncGoesOn \/ PollReconciles \/ JobRechecks
    \/ \E r \in job.todo : JobCollects(r) \/ JobReopens(r)
    \/ JobQueues

JobNext == SyncPulls \/ PollStarts \/ JobProgress \/ JobFails

AdminNext ==
    \/ AdminActs \/ AdminChecks \/ AdminUpdates \/ AdminRecords
    \/ \E k \in admin.keys : AdminApplies(k)
    \/ AdminFails

TicketNext ==
    \/ \E f \in Findings : ScanChanges(f)
    \/ \E c \in Cycles : EngineerMoves(c)
    \/ JobNext \/ AdminNext

TicketSpec == TicketInit /\ [][TicketNext]_ticketVars

\* A job that has started goes on; polls are repeated for ever, users run Sync
\* All again and again, and not every one of them is kept from creating tickets.
Fairness ==
    /\ WF_ticketVars(JobProgress)
    /\ SF_ticketVars(PollStarts) /\ SF_ticketVars(SyncPulls) /\ SF_ticketVars(SyncCreates)

FairSpec == TicketSpec /\ Fairness

-----------------------------------------------------------------------------
(* Properties. *)

\* The issue of a later cycle exists only if the earlier cycle was closed.
CyclesFollowClosing ==
    \A c \in Cycles \ {1} : issue[c] # "none" => record[c - 1].ended

\* The activations of the findings after their first ones.
Reactivations == {a \in Findings \X (2 .. MaxGeneration) : a[2] <= found[a[1]].gen}

\* Every cycle after the first was earned: the findings of the group became
\* active again at least as many times as cycles were started, so no ticket is
\* started twice for one reactivation. Excepted are groups where the record of a
\* known issue was removed: a write of the record of an earlier cycle (a note on
\* its closed issue is enough) takes the findings of the open one, and the recheck
\* then writes that one anew, without the generations it was started for.
CyclesEarned ==
    ~lost => \A c \in Cycles : issue[c] # "none" => c - 1 <= Cardinality(Reactivations)

\* A review that an administrator settled is never asked for again: no recheck,
\* reconciliation or stale upsert brings it back.
SettledStays == [][\A k \in Keys : review[k] \in Settled => review'[k] \in Settled]_ticketVars

\* A pending risk review does not outlive the acceptance: once its issue has
\* left Risk Acceptance for good it is withdrawn, or an administrator settles it.
RiskReviewsSettle ==
    \A k \in Cycles \X Findings \X {"risk"} :
        (review[k] = "pending" /\ issue[k[1]] # "risk")
            ~> (review[k] # "pending" \/ issue[k[1]] = "risk")

\* A finding that became active again after its ticket was closed gets a ticket
\* of a new cycle, unless it becomes inactive first; it is never taken for an
\* old one, even when the closed issue is opened again. It counts from when the
\* store has recorded the closure, and no job is choosing the cycle: one that has
\* chosen it when the closure is recorded is excepted, since it records the new
\* generation with the closed cycle, and the reactivation is lost.
RecurrencesTicketed ==
    \A c \in 1 .. MaxCycles - 1, f \in Findings :
        (job.at # "checking" /\ Latest = c /\ Ended(record[c]) /\ Recurs(record[c], f))
            ~> (issue[c + 1] # "none" \/ found[f].state # "active")

=============================================================================
