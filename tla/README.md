# Verification of the Internal Security Middleware

TLA+ models of the core of the Internal Security Middleware, TLC
configurations that check them on small instances, and TLAPS proofs of what
matters most. Paths below are relative to the repository; the vulnerability and auth servers are
`apps/vulnerability/server` and `apps/auth/server`, and files of theirs are named without their directory.

## The system

An nginx gateway in front of Express services over one PostgreSQL database (or JSON files). It pulls
security findings from DefectDojo, keeps a Redmine ticket for each group of them, and
follows the tickets through closing, review, reopening and due dates.

| Part | State it keeps | Operations | Talks to |
|---|---|---|---|
| Sync All coordinator (`sync-all-coordinator-service`, `runtime-state-repository`) | one JSON row `sync-all:state`: the active runs with scope, lock keys and heartbeat; session advisory locks | registerRun, heartbeatRun, finishRun, release, cleanupStaleRuns | `POST /sync-all`, Data Management, poller, worker |
| Status polls, rebuilds, guards (`redmine-sync-poller-service`, `redmine-dashboard-service`, worker `auto-sync-status`) | running flag per process, scheduler status row, advisory lock `auto-sync-status:redmine-sync` | scheduled poll, `POST /rebuild-status`, start, stop, abort | coordinator, Redmine |
| Data Management (`data-management-service`, `-repository`, `archive-service`, its routes) | maintenance flag, archives and their catalog, everything it deletes | preview, export, commit, delete, import, restore, factory reset | coordinator, findings, tickets, policies |
| Email outbox (`admin-security-store`, `mailer`, `profile-routes`) | rows of `auth_email_outbox`, leases, status of the invitation, switches | enqueue, claim, finish, cancel; a worker loop in every auth process | SMTP, MFA enrollment |
| MFA enrollment and accounts (`profile-routes`, `admin-security-store`, auth `server`, `auth-store`) | users, sessions, challenges, invitations, policy and configuration of the authenticator, mutation lock | sign in, step up, change and reset passwords, set up, confirm, disable, patch, delete | outbox |
| Redmine sync store (`server.cjs`, worker) | records by ticket, dirty keys, in each of two processes; the table | write, flush, reload | tickets, lifecycle, SLA |
| Redmine tickets (`routes/sync`, `redmine-issue-service`, `redmine-client`) | ticket locks, search results | search by pages, create, link | Redmine, sync store |
| Issue lifecycle, reviews, recheck (`issue-lifecycle`, `routes/mitigation`, `mitigation-recheck-service`) | records of each cycle, reviews | merge, close, reopen, review, recheck | sync store, findings |
| Findings (`defectdojo-pull-service`, `database`, `routes/findings`) | a row per finding with its generation and the last pull that saw it | pull, recheck, mark | DefectDojo, policies |
| SLA (`product-sla-service`, `redmine-sla-service`) | snapshot of the policies, repair flag and hash in the record | refresh, flag, reconcile | DefectDojo, Redmine |
| Pools (`pg`) | clients, of which advisory locks pin some | connect, release | all of them |
| Docs, dashboards, progress, frontends, gateway, collectors, packages | see the end | | |

Hard behaviour is everywhere of one kind: requests and jobs of several processes,
built from awaits, each guarded by a mixture of flags in memory, rows in the database, leases that go
stale, values that were read before a lock was taken, and advisory locks that die with their session.
`PROJECT.json` lists the components and the hazards at their lines, each with the properties that watch it.

What makes each part correct:
 - coordinator: no two registered runs overlap; an entry leaves only when its run
   finishes or is stale; locks are held exactly as long as the run; every request
   is answered; what a dead run leaves stops blocking;
 - polls, rebuilds, maintenance: work that excludes other work really does; a guard
   is never leaked; the persisted status does not say `running` for good;
 - outbox: a settled delivery keeps no secret; `sent` means accepted by SMTP; one
   worker per delivery; every delivery settles;
 - accounts: a factor is used once; the newest invitation enrolls and no other; a
   generated password is replaced; the sessions a change revokes end;
 - tickets: one issue per ticket, linked to the right one, and the link reaches the table;
 - lifecycle: a reactivation after a closure gets one new cycle, no more and no less; a review settles;
 - findings: the store mirrors DefectDojo after a pull; a generation is earned by a reactivation and never goes back;
 - deletions: covered by the archive, complete or undone; a sync writes nothing its policy excludes;
 - SLA: the due date follows the policy, a date set by hand is respected;
 - pools: locks can exhaust them, but nothing else can: no client is lost, no order of locks stops anybody.

## Modules

| Module | Models | Lines of code it is read from |
|---|---|---|
| `SyncAllScope`, `SyncRuns` | selections, scopes and when they overlap; registry entries, staleness, conflicts | `sync-all-coordinator-service` |
| `SyncRegistry` | abstract specification: the registry with atomic operations | the same |
| `SyncAllCoordinator` | the registry as it is: each section is lock, load, claim scope locks one by one, save, unlock, with failures between any two; heartbeats, finish, crash, restart with cleanup. Implements `SyncRegistry` | the same, `runtime-state-repository` |
| `SyncOperations` | Sync All, maintenance, rebuilds and poll loops over the atomic registry: flags, lock, persisted status with its un-awaited saves | poller, dashboard and Data Management services, worker, `routes/sync` |
| `EmailOutbox` | outbox, workers, enrollment and temporary-password mail, switches | `admin-security-store`, `mailer`, `profile-routes` |
| `AuthAccounts` | one account: sign-in, step-up, passwords, invitations, enrollment, sessions, with and without the mutation lock | auth `server`, `profile-routes`, both stores |
| `RedmineTickets` | discovery by pages, ticket lock, rediscovery, creation, links with dirty keys and their flush and reload | `routes/sync`, `redmine-issue-service`, `redmine-client`, `server.cjs` |
| `TicketLifecycle` | one ticket over its cycles: pulls, polls, Sync All, rechecks, reviews and engineers | `issue-lifecycle`, `mitigation-recheck-service`, `routes/mitigation`, dashboard service |
| `FindingsPull` | overlapping pulls by offset, rechecks, policies of engagements, generations; both storages | `defectdojo-pull-service`, `database`, `routes/findings` |
| `DataManagement` | export, commit, delete and import of archives with rollbacks, policies, beside Sync All, pulls and the hierarchy view; both storages | Data Management service, repository and routes, `archive-service`, `routes/sync` |
| `SlaReconciliation` | the due date of one ticket: configuration, snapshot and its refreshes and flags, creation, poll, Sync All, imports, edits | SLA services, `redmine-issue-service`, `database` |
| `PoolLocks` | clients of the two pools under advisory locks; the workers of runWithConcurrency | `runtime-state-repository`, `admin-security-store`, `sync-utils` |
| `MC*` | constants for TLC | |
| `*_proofs` | theorems with TLAPS proofs; `SyncAndTickets_proofs` is about `SyncOperations` and `TicketLifecycle`, `LocksAndSla_proofs` about `PoolLocks` and `SlaReconciliation`, the others about the module they are named for | |

How they compose. `SyncOperations` builds on `SyncRegistry`, not on `SyncAllCoordinator`: that the
code implements the atomic registry is checked (`ImplementsRegistry` of run `SyncAllNested`) and proved, and
everything above it uses the small one. The modules about data take from the guards what these establish, and
no more: a job of `TicketLifecycle` is a poll or a Sync All, which the guards keep apart when they are in time;
`FindingsPull` lets pulls overlap, because `POST /pull` does not register; `DataManagement` has the maintenance lock
and the registration as one holder; `SlaReconciliation` lets Sync All and poll overlap. What the modules share is the record of a ticket
(`RedmineTickets` its link, `TicketLifecycle` its cycle and status, `SlaReconciliation` its due date) and the
generation of a finding (`FindingsPull` gives it, `TicketLifecycle` reads it).

How code becomes actions: a step is what runs between two awaits, or one SQL
statement or transaction. Every action is named for the function or the part of it that it
stands for and is listed with its lines in `PROJECT.json`. Times are
relative: the age of a heartbeat counts ticks and saturates one past the limit, because
the code only asks whether it exceeds the limit; a lease is held or expired. A query may fail before or after its
effect where callers tell the two apart; a crash ends the sessions of a process, and its advisory locks with them.

State to code, where the names differ:
 - `SyncAllCoordinator`: `registry` is `activeRuns`; `section` is the holder of
   `sync-all:registry` with the state it loaded; `held` the scope locks of a request's
   sessions; `startAge` the age of a stamp taken before the section was entered;
   `beats` heartbeats that were sent and not served.
 - `SyncOperations`: `running` is redmineSyncPollRunning, `status` and `writes` the
   scheduler row and its saves in flight, `maintenance` is maintenanceActive,
   `autoLock` the advisory lock, `stage` how far each operation has come.
 - `EmailOutbox`: `outbox` the rows (the fields that statements test), `order`
   their created_at, `task` the local variables of a processOne, `generation` the
   enrollment generation, named by its delivery, `followups` and `cleanup` the later
   statements of requests that cancel mail, `mails` what SMTP accepted (history).
 - `AuthAccounts`: `account`, `policy`, `config`, `invitation`, `challenge` and `session` are the tables or JSON
   collections of these names; `request` is what a request has read and where it stands; `undone` (a write put back what another one had replaced),
   `overtaken` (requests past their checks when a credential was set) and the `late` of a session are history. A password is `legacy` while its hash is of the old algorithm, which a sign-in replaces.
 - `RedmineTickets`: `stored` is the table, `cached` and `dirty` the store of `server.cjs`, `recent` the order in which
   Redmine lists issues, `missed` whether a search overlooked an issue that was there throughout (history). An issue is matched by its key or by finding_ids.
 - `TicketLifecycle`: `scan` is DefectDojo, `found` the findings table, `record` the sync records by cycle (`ended` is closedAt,
   `gens` the recorded generations), `issue` what Redmine says, `closedOn` the issues with a closed_on or a journal that closed them, from which
   the code takes closedAt even when the issue is open again, `job` what a job has read and decided: `own` the reference of the
   group, `refs` all that it checks, `writes` those whose results are still to be written. Results are written one by one, that of the
   group first, so a reviewer's action may come between two writes; then records nobody refers to are pruned. `lost` says that
   the record of a known issue was removed by a write or a pruning (history).
 - `FindingsPull`: `last` is last_seen_sync_id, `got` the findings received, `base` the JSON file as a pull or a recheck has read it, before it writes it back;
   `earned`, `touched` and `overtaken` are history.
 - `DataManagement`: `memory` is the API's copy of the sync records, `references` the archives of committed deletions, the `home` of a content whether this installation made it;
   `answered` (archives whose download was answered without error), `purged` and `returned` are history.
 - `SlaReconciliation`: a policy stands for its hash and for the due date it gives the ticket; `db` and `memory` are
   the record in the table and in the API process; `lapsed` and `edited` are history.
 - `PoolLocks`: `Plan` is the order in which each function asks for clients; `used` the clients that are out.

History variables only record what happened, so that a property can say which behaviour it excepts; no guard reads them.

## Runs

| Run | Instance | Shows |
|---|---|---|
| `SyncAllNested` | a run of two products, an engagement run inside one of them, a run of the other with the identifier of the first; two processes that crash and restart, entries stale at once | `OverlapIsSound` for every pair of selections, those included that name an engagement outside their products; `RegistryExclusive`, `ScopeLocksHeld`, `EntriesLeaveOnlyWhenDue` under crashes, failures, partial claims, lost answers; the coordinator implements `SyncRegistry` |
| `SyncAllLiveness` | a product run and an engagement run inside it, retries, ages up to 2, with fairness | every request ends; entries of ended runs stop blocking |
| `OperationsGuards` | a Sync All, two maintenance operations (one a factory reset), a poll loop in the worker and one in the API, entries stale at once unless prompt | no leaked guard, one locked operation, and Sync All apart from maintenance while both are prompt |
| `OperationsLiveness` | a factory reset, a rebuild and the two poll loops, with fairness | the status settles, operations end |
| `EmailLiveness` | one delivery, two workers, a crash or a lost claim, with fairness | one deliverer, secrets scrubbed, `sent` means mailed, deliveries settle, a disabled type drains |
| `AuthAccounts` | two requests at a time, three in all, two apps, two codes, two invitations, three sessions, one failure, from several initial accounts, one of them with a hash of the old algorithm | `FactorsUsedOnce`, `TemporaryIsReplaced`, `NewestEnrolls`, `SessionsEnd` |
| `RedmineTickets` | a Sync All and a request for one ticket under its canonical and its earlier key, a page of one issue, a foreign issue, three issues, one update by others, one fault, with fairness | `DuplicatesWereMissed`: a second issue exists only where a search overlooked the first one or a call failed; `LinksMatch`: links name an issue that has a key or the findings of their ticket; `TicketsLinked`: the ticket gets its link |
| `TicketLifecycle` | one finding, two generations and cycles, two changes in DefectDojo, two in Redmine, one failure, closing and approving reviews, with fairness | `CyclesFollowClosing`, `CyclesEarned`, `SettledStays`, `RiskReviewsSettle`, `RecurrencesTicketed` |
| `FindingsPull` | two pulls and a recheck, with the id of a finished pull or without, over one finding of each of two engagements, two changes, failures without bound, both storages | `PullsMirror`, `GenerationsAreEarned`, `GenerationsGrow` |
| `DataManagement` | two requests at a time on two engagements and two archives, two findings stored in all, imports of archives made here or elsewhere, one fault (a failing step or rollback, a crash, a COMMIT whose answer is lost), both storages | `DeletedWasArchived`, `DeletesAreAtomic`, `SyncsObeyPolicies` |
| `SlaReconciliation` | two policies and none, one change and one refresh, creation, poll, and two of edits, Sync All runs, imports and failures, with fairness | `DuesFollowPolicies`, `HandDatesKept`, `PoliciesReachTickets` |
| `PoolLocks` | two runs with a worker each, a poll, a maintenance operation, three MFA mutations of two users; a pool of three clients and one of two, which their locks can exhaust | `StuckOnlyWhenPinned` |

There is one run per question, and an instance answers as many questions as its bounds allow.

`CHECK_DEADLOCK FALSE` stands in all runs: requests are finitely many, or bounds end them, and the
instance stops when they are over; in `PoolLocks` the code itself can stop, and the property says when.

Bounds and why they suffice. Two or three requests are enough for every pair of
operations to meet, and a third to come between: the guards are all pairwise.
`MaxTries` (10 in the code) is 1 or 2: an attempt fails or is retried, the last
one gives up. `StaleAge` 0 lets every entry go stale at once, 1 separates fresh from
ageing; the code compares with one limit only. `MaxBeats` 1 has one heartbeat
late at any time. `MaxAttempts` 2 (5 in the code) has one retry and one last attempt.
`MaxWrites` 1 has a save of each value in flight, enough to reorder them; a save
beyond the bound counts as one that failed. `MaxFaults` bounds crashes and failures (`FindingsPull` has no bound on them); the safety
proofs have no such bound. `Given` of `RedmineTickets` leaves out descriptions that the ticket does not tell from others. Pages of one element (100 in the code) make every change of a list fall between two pages. Two cycles, generations
or invitations are enough for an old one to meet a new one; two moves close a ticket and open it again; two changes
of a finding take it away and bring it back. Two engagements tell what a request covers from what
it does not. In `SlaReconciliation` one change of the configuration has an old and a new policy meet everywhere; the safety properties
were also explored with two changes and two refreshes (5 million states), which is too long for the regular run.
Before it was proved, the invariant `LifeInv` of `TicketLifecycle` was checked by TLC on an instance of 2.2 million states and on 7 million states of a larger one.
The pools of `PoolLocks` have three clients and two: enough for each run or mutation alone, so that all of the code is reached, and
fewer than the locks of all actors, so that exhaustion is reached too.

Fairness. Handlers finish: awaited calls return or fail, so the steps of a request
or job that has begun are weakly fair; the beginning of users' requests, failures, heartbeats, edits and crashes are
not. Workers and poll loops run on timers and are weakly fair. Processes run
under a supervisor (`restart: unless-stopped`), so where liveness needs it
restarts are weakly fair. Leases and retry delays are clocks. Strong fairness occurs twice. A save of the scheduler status
that is attempted again and again lands some time (`StatusSettles` is false in a system whose database refuses
exactly the saves that say `quiet`). In `TicketLifecycle` polls and Sync All runs are started again and again and
share one job slot, so both get their turn although each is disabled while the other is at work. `EveryRequestEnds` and `EndedRunsExpire`
assume neither restarts nor heartbeats.

## What the models bring out

Statements of the code or its docs that the models show to be weaker than they read. The properties above
say what holds all the same, and name the exceptions.

Guards and registry:
 - The registry is keyed by run identifiers, which clients may choose. If a run goes stale and another one with the same
   identifier and a separate scope registers, the end of the first removes the entry of the second (`finishRun`,
   `sync-all-coordinator-service.cjs`), and its heartbeats refresh that entry. `EntriesLeaveOnlyWhenDue` holds when such runs share a scope lock.
 - A run whose client reports no progress for five minutes is pruned and may be overtaken, though `docs/feature-workflows.md` promises a 409.
 - Sync All and polls look at each other before they announce themselves, so both can be at work.
 - A refused maintenance operation clears the maintenance flag of the one at work (`data-management-service.cjs:130`).
 - A rebuild checks its flags before two awaits: two rebuilds, or a rebuild beside maintenance, are possible.
 - A maintenance operation sends no heartbeat, so its entry goes stale; a factory reset wipes its own registration.
   `TimelyOperationsExclusive` is what is left: fresh entries exclude each other until a factory reset clears the registry.
 - A Sync All run needs up to nine clients at a time (registry, scope, five tickets, queries) of a pool of ten (`PG_POOL_MAX`);
   two runs together can pin them all, and a connection waits without limit. The auth pool is stuck by as many concurrent MFA
   mutations as it has clients, and the worker `auto-sync-status` has a pool of two (`docker-compose.yml:116`), of which a poll pins one. Nothing in the
   code keeps pools larger than what pins them, so both can get stuck; `StuckOnlyWhenPinned` says that there is no other way.
 - An overlap of selections is judged by products where one of them names no engagements, and by engagements where both do; but the pull of a
   run that names engagements drops the product filter (`routes/sync.cjs:407`, `defectdojo-pull-service.cjs:74`). A run of product 1 and an engagement of
   product 2 and a run of product 2 are let in together and pull and save the same findings. Their tickets are apart, since
   these are kept by both filters. `OverlapIsSound` excepts engagements named outside the products of their selection; everything else is apart.

Outbox and accounts:
 - finishEmail revives a delivery that was cancelled while it was being sent: it then mails a blank password, or keeps a resend from being mailed.
 - `PATCH /users` writes back the whole record that it read before its lock (auth `server.cjs:758`): it restores a password or a
   credential that another request replaced meanwhile; so does `POST /users` on a name that exists, and a sign-in that
   upgrades an old hash writes back the password it verified. Resets take no mutation lock, so the password of one may end with the credential of
   another. `TemporaryIsReplaced` excepts a write that undoes another one (`undone`), not overlapping as such.
 - A sign-in that has made its last check before a credential is set opens its session after the reset has ended the sessions: the exception `late` of `SessionsEnd`.
 - `PATCH mfa` and its retry decide on a configuration they read before the lock (`profile-routes.cjs:548`); the cleanup
   after it runs outside the lock and can cancel the mail of a newer invitation; a sign-in that read that no factor is needed opens its session after an enrollment.

Tickets:
 - Redmine's open and closed lists are read separately and by offset. An issue that moves between the two reads, or between two pages, is
   taken for missing, and a second one is created. The only other way, or so `DuplicatesWereMissed` says, is a
   request that takes a closed issue with the findings of its ticket and writes its own key into it, which another ticket had.
 - The link of a group may alternate between its earlier and its canonical key; both are looked up.
 - A job that planned its references before a reviewer closes the ticket persists the closed record with the new generation: that
   reactivation gets no cycle of its own (the exception in `RecurrencesTicketed`).
 - `close_redmine` does not check for activity again; closure reviews are never withdrawn; a finding that the closed record does
   not know joins the closed ticket; a recheck overwrites whatever status the issue has got since.
 - A cycle can be started that no reactivation earned. The tests `a closed ticket without generation increase stops cycle and preserves
   cycle 1` and its twin for Engineer Approve (`apps/vulnerability/test/issue-lifecycle.test.cjs`) call
   `applyLifecycleCyclesToTicketRefs` with a record of cycle 1, where this holds. It does not once a record was
   removed: a note on the closed issue of cycle 1 makes a poll write that record again, and
   `removeFindingIdsFromOtherRedmineSyncRecords` (`server.cjs:682`) takes its findings from the open record of cycle 2, which is deleted
   when none is left. A recheck that is under way writes the record of cycle 2 anew, without the generations it was started for; an
   Engineer Approve closes it; and a generation that was not recorded counts as a recurrence when the finding's is above one
   (`issue-lifecycle.cjs:483`), so cycle 3 starts. TLC finds this in half a minute when `~lost` is taken out of `CyclesEarned` and the instance
   has three cycles, four moves by engineers (closed, resolve, risk), Engineer Approve as the only action and as a closing status, two
   generations of one finding, two scans and no failure. Hence the exception in `CyclesEarned`.

Findings:
 - A pull by pages over a list that changes can miss an active finding and mark it inactive; two overlapping pulls, or a recheck between the
   save and the mark of a pull, do the same to each other's rows. The next pull then opens a cycle that nobody earned: hence the exceptions of
   `GenerationsAreEarned`, by `touched`.
 - A recheck of a poll carries no id of a pull, so its rows are older than any pull's; in JSON mode it writes back the file it read before. A recheck ignores the policies of engagements; a pull of everything marks the findings of a disabled engagement inactive, and
   enabling it opens a new cycle. A finding that is deleted in DefectDojo stays active in pulls of all findings and in JSON mode, where
   a pull also overwrites what others wrote since it read the file.

Data Management:
 - In PostgreSQL mode the API keeps its copy of the sync records after a deletion (`server.cjs:1830`).
 - Archive records and the JSON catalog are written back from stale copies; a listing that saw an archive expired deletes it after its promotion.
 - A crash in the middle of a deletion in JSON mode, or between the candidates and the transaction in PostgreSQL, leaves part of
   it; the recovery snapshot is never applied by itself. If the rollback of the sync choices fails (`data-management-service.cjs:612`) that of the files is skipped.
 - What is stored between the export and its commit is deleted without being archived, and a year is resolved again after the preview;
   `DeletedWasArchived` says exactly what can be missing from the archive.
 - An archive that any other installation made can be imported and may carry the mark that it was downloaded (`archive-service.cjs:299`): its commit deletes whatever is
   stored here of its engagements, covered by no archive. `DeletedWasArchived` says only that these engagements are the archive's.
 - A download counts as complete when its answer ended without error (`routes/data-management.cjs:259`), also that to a HEAD or Range request or a 304.
 - A COMMIT whose answer is lost is taken for a failure (`data-management-repository.cjs:512`): files and policies are rolled back although the rows are gone.
 - A failure after the commit answers an error although the data is gone; a rollback leaves `enabled` where there was no policy; in JSON mode a registration can revert
   a concurrent change of a policy, hence `SyncsObeyPolicies` is about PostgreSQL.

SLA:
 - The policy is resolved before the lock and the record written after it, so an overlapping Sync All and poll can leave the older due date in Redmine.
 - Closing an issue with a repair pending drops the repair, and reopening does not bring it back; so does a policy that is off for a while.
 - A failed read of the policy marks the repair pending, and the next poll overwrites a date that was set by hand.
 - Tickets are flagged before the snapshot is saved, so a poll can clear the flag by the old snapshot; the comparison of hashes heals this,
   except when a policy goes away and comes back around a job that died after its update.
 - A stale import overwrites newer SLA fields, and an older or failed refresh a newer snapshot.

## Proofs

Proved by TLAPS for every value of the constants that satisfies the named
assumptions (types of the constants, disjointness of the kinds of actors).

Each proof module extends the module or the two modules it is about; where there are two, neither part uses the other. The parts of an inductive invariant are named, and so is what one of them says of
an actor at each of its stages; the step is proved action by action.

 - `SyncAllCoordinator_proofs`: `SelectionsJudgedRight`, for selections of any size: by cases on the kinds of the two scopes, no
   induction over time; an engagement that both pull is a stray of one of them, or both name it, or it has a product both name. Types, `CoordinatorExclusive`, `CoordinatorLocks`, `CoordinatorScopes`: the registry
   is overwritten by what a section loaded earlier, so exclusiveness of the
   registry is not inductive. The invariant adds that the view of the section is
   exclusive and that the section belongs to a process or request of the right
   kind; a second one says which locks a registration has taken at each stage.
   `CoordinatorImplementsRegistry`: what takes a section several steps happens in
   `SyncRegistry` when its view is saved. The invariant adds that a view that is about to be saved is what the operation makes of
   the registry as it is now (`ViewDue`): nobody but the holder of the section changes it, and it ages with its view.
   `CoordinatorLosesNoEntry`: `EntriesLeaveOnlyWhenDue` is no theorem as it stands, see the first point of "What the models bring
   out". It is one while requests that use one run identifier share a scope lock (`IdsShareLocks`: identifiers that are
   unique, as the generated ones are, and the instance of `SyncAllNested` satisfy it), because then the identifier of a
   run that has its locks cannot be taken (`IdsKept`).
 - `SyncAndTickets_proofs`, about `SyncOperations`: `OperationsLocked`, `OperationsGuarded`, `OperationsApart`. They rest on who holds the advisory
   lock: exactly the operation between taking it and giving it back; and on the entry of a prompt operation at work being listed.
   About `TicketLifecycle`: types, `LifeFollowsClosing`, `LifeEarned`, `LifeSettles`, for any number of findings, generations, cycles and
   steps of everybody. `CyclesFollowClosing` and `CyclesEarned` look at issues, which say little about the past. The invariant (`LifeInv`) is about
   everything that names a cycle with its generations: a record, a reference or candidate of a job. Each has reached its cycle
   (`Reached`): the earlier cycles have ended, its generations are in the table of findings and not ahead of it, and, unless a record was
   `lost`, they stand for as many reactivations as cycles came before. A recurrence adds one that no earlier cycle stands for
   (`RecurrenceReached`, a count with the library's facts on cardinalities), and what the job planned before others wrote stays
   reached because generations only grow and ended cycles stay ended (`ReachedStays`). Issues and reviews are of cycles that were
   begun (`Begun`), which follows from having been reached. Two facts about a job are needed besides: what it has written is in the
   store until a record is lost (`WritesKnown`), since a recheck takes the generations from there; and a closed record has ended.
   `LifeSettles` needs the types only.
 - `EmailOutbox_proofs`: types, `OutboxSecrets`, `OutboxSent`. A worker writes
   `sent` long after SMTP answered: the invariant adds that a verdict `sent`
   is about a mail that was accepted with the secret the worker holds, and that a
   busy worker has a delivery in hand. `OutboxOneDeliverer`, while leases outlast attempts: a worker may take its delivery up again
   after its last query failed, so the invariant counts these stages as holding it, and says what keeps it from being claimed meanwhile.
 - `LocksAndSla_proofs`, about `PoolLocks`: `PoolStuckOnlyWhenPinned`, for pools of any size. If everybody who is busy is blocked, every client that is out is for a lock that is held:
   one that waits for it, or the holder's own. The holder does not wait for a lock itself (the runtime locks are tried, and a mutation
   has no lock when it waits for its one), so it wants a client, or a worker it joins does; and then no client is free.
   About `SlaReconciliation`: types, `DueDatesFollow`, `HandDatesStay`, for any number of policies, changes, refreshes and jobs that overlap. The
   due date of the issue and the record of it are written by different steps of jobs that read both earlier, so neither property is
   inductive. The invariant (`SlaInv`) follows the jobs that nothing overtook: each knows the due date of the issue and of the record
   as they are now (`Knows`), and what it is about to write suits both. While one carries a date that the issue has and the
   record has not (`Carrying`), nobody else is trusted to know; it ends by the write, which overtakes all others, or by a lapse
   that `lapsed` records.
 - `FindingsPull_proofs`: types, `PullsAreMirrors`, `PullsEarnGenerations`, `GenerationsNeverShrink`, for any number of findings
   and so of pages. The invariant says what a pull that was not overtaken knows at each step (the findings received are the
   first ones of the list as it is; the rows with its id, which no row has before its save, are those it has seen), and that an
   inactive row of a finding that DefectDojo lists as active is one reactivation behind. The place of a finding in the list is
   a cardinality, with the library's facts on these.
 - `RedmineTickets_proofs`: `SecondIssuesWereMissed`, `LinksLeadRight`, for any layout of keys and any pages.
   An issue is posted under the lock of the canonical key of its group and nothing else adds one to the group, so what a search under
   that lock started from is still all there is when the issue is posted (`Knows`). What pages hide is what `missed` records.
   A link is written from what a maker found, and what it found has a key of its group or its findings, or was rewritten for another ticket since (`Finds`).
 - `AuthAccounts_proofs`: types, `FactorsAreUsedOnce`, `NewestIsEnrolled`, `SessionsAreEnded`, `GeneratedPasswordsAreTemporary`. The
   invariant lists how far a request of each kind can have come, with what it carries. A challenge is taken by one request, and a session remembers its
   own. A code is accepted while an authenticator of its generation is enrolled; when that goes all challenges go with it, and an invitation
   that was consumed is never live again, so no later authenticator takes the code. The policy names the newest
   invitation that is live, under the mutation lock. A password and its credential are written one after the other, and what
   comes between the two either keeps them together or is a write that undoes another one, which `undone` says. A sign-in that is past its last check when a credential
   is set is `overtaken`, so its session is `late`; one that is not finds the credential, or the account deleted, and opens none.
 - `DataManagement_proofs`: types, `SyncsObeyPoliciesAlways`, `DeletionsWereArchived`, `DeletionsAreAtomic`, for both storages. Who has
   the maintenance lock follows from the kind and the stage of each request (`LockExact`), and in PostgreSQL policies change under it
   only. The content of an archive never changes; one that was exported here is made from all that is stored of its engagements and marked only after its download was answered; a commit resolves to its engagements;
   what can be deleted without being in it was stored or put back later (`Stock`). For atomicity the invariant follows a deletion and
   its rollback stage by stage (`Progresses`): what is gone, what is back, and what is as it was `before`; requests without the lock
   touch nothing it looks at, and a pull only adds findings with new numbers or marks the deletion as mixed. The assumption that
   `Absent` is neither a record nor a content is about the model's way to say that there is none.

Every invariant and action property that a run checks is stated by one of these theorems. Only model-checked is what
is temporal under fairness (`EveryRequestEnds`, `EndedRunsExpire`, `StatusSettles`, `OperationsEnd`, `DeliveriesSettle`,
`DisabledTypeDrains`, `TicketsLinked`, `RiskReviewsSettle`, `RecurrencesTicketed`, `PoliciesReachTickets`). It is out of the prover's reach, as are
ENABLED, induction over recursive data and RECURSIVE operators (there are none here).

## Not modelled, and why

 - In `SyncAllCoordinator` and `EmailOutbox`: the JSON mode, with one process and no await between read and write.
 - In `SyncOperations`: what the operations do to findings and tickets; the abort signal, which the status refresh ignores.
 - In `EmailOutbox`: the test mail, the sweep of expired invitations, other users (their deliveries meet only in
   the order of claims), a resend that reuses the current mail.
 - In `AuthAccounts`: roles and their limit of one last administrator (which is counted before it is changed, and races), lockout, recovery codes, file storage.
 - In `RedmineTickets`: candidates by subject, deletion of issues, skips by
   severity and priority, choice and creation of projects, a lost connection of a lock.
 - In `TicketLifecycle`: the rebuild job, JSON storage, groups that split or merge.
 - In `FindingsPull`: the compaction of findings into groups, other fields of a finding.
 - In `DataManagement`: file formats, candidates of a restore beyond their presence, pools; what a factory reset does to the registry and to requests that are under way is in `SyncOperations`.
 - In `PoolLocks`: the lock that reconciling the SLA of a ticket takes during a poll, under which nothing is queried.
 - In `SlaReconciliation`: changes of severity, JSON mode, deletion of the issue, failing flushes, unconfirmed dates by their
   time stamp, the arithmetic of dates. Fetching the issue and resolving the policy are one step, so are taking the lock and fetching
   again, comparing and flagging of a refresh, and posting an issue and writing its first record; the API's reload of the record is part of each of its steps.
 - Compaction, history, search, progress, statistics, dashboard snapshots, health: pure functions or views over what
   the models keep, many fields and no state that anything decides on. They, the user interfaces and the tests are most of the
   lines of the repository that no definition maps.
 - Collectors, gateway, cryptography, parsing, formatting, logs: nothing the properties are about.

## Plan

In order of importance:
 1. `DocsRegistry`: the registry of documents is read, changed and written by each request without a lock; an unreadable one is taken for an empty
    one, and listing fails when a document is missing. Abstract specification: a map from names to documents whose changes are not lost.
 2. Compaction and the arithmetic of due dates as operators, checked against a reference over bounded inputs.
 3. Roles and the last administrator, recovery codes and lockout beside `AuthAccounts`.
 4. `TicketLifecycle` with two findings of two groups, and over `RedmineTickets` instead of atomic creation.
