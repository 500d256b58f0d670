---------------------------- MODULE DataManagement ----------------------------
(***************************************************************************)
(* Data Management: exports of the data of some engagements to archives,   *)
(* the deletion of data with and without such an archive, the archives     *)
(* themselves and the sync policies; beside them Sync All, a pull from     *)
(* DefectDojo, status checks and the hierarchy view. Both kinds of storage,*)
(* PostgreSQL and JSON files.                                              *)
(* Operations that change data hold the maintenance lock (the registered   *)
(* run and the auto-sync lock of runMaintenance: see SyncOperations);      *)
(* downloads, browsing, listing, the hierarchy and POST /pull do not.      *)
(***************************************************************************)
EXTENDS Integers, FiniteSets

CONSTANTS
    Engagements,
    Archives,        \* identifiers of archives
    Requests,        \* what can be under way at the same time
    Nobody, Absent,
    MaxRows,         \* bound: findings that are ever stored
    MaxStarts,       \* bound: requests
    MaxFaults        \* bound: failed steps and crashes

Findings == Engagements \X (1 .. MaxRows)

\* The record of an archive in the catalog, and what is in the archive.
Records == [mode : {"temporary", "permanent"}, place : {"temporary", "permanent"},
            downloaded : BOOLEAN, expired : BOOLEAN]
Contents == [purpose : {"export", "export-delete"}, engs : SUBSET Engagements,
             rows : SUBSET Findings, upto : Nat, home : BOOLEAN]

\* Archives of other installations: none of the findings here is in them.
Foreign ==
    {[purpose |-> purpose, engs |-> engs, rows |-> {}, upto |-> 0, home |-> FALSE] :
        purpose \in {"export", "export-delete"}, engs \in SUBSET Engagements \ {{}}}

ASSUME DataAssumption ==
    /\ MaxRows \in Nat \ {0} /\ {MaxStarts, MaxFaults} \subseteq Nat
    /\ Nobody \notin Requests
    /\ Absent \notin Records /\ Absent \notin Contents

VARIABLES
    storage,         \* "postgresql" or "json"
    findings,        \* stored findings, as pairs of an engagement and a number
    written,         \* how many findings were ever stored
    tickets,         \* engagements with stored Redmine sync records
    memory,          \* ... in the API process's own copy of these records
    registry,        \* registered engagements
    policy,          \* sync policy of each engagement
    candidates,      \* engagements in the restore manifest
    target,          \* is the SLA target of the company overridden?
    references,      \* archives that committed deletions refer to
    catalog,         \* the records of the archives
    files,           \* the archive files, as pairs of an archive and a directory
    content,         \* what each archive holds
    answered,        \* history: archives whose download was answered to the end
    holder,          \* who holds the maintenance lock
    op,              \* the requests under way
    pull,            \* a pull under way
    syncing,         \* engagements that the Sync All under way writes
    purged,          \* history: findings deleted under an archive
    returned,        \* history: deleted findings that a pull put back
    starts, faults

data == <<findings, written, tickets, memory, registry, policy>>
extra == <<candidates, target, references>>
archive == <<catalog, files, content, answered>>
others == <<pull, syncing>>
history == <<purged, returned>>
bounds == <<starts, faults>>
vars == <<storage, data, extra, archive, holder, op, others, history, bounds>>

Selections == {{}} \cup {{e} : e \in Engagements}    \* a year, or one engagement
Of(rows, engs) == {f \in rows : f[1] \in engs}
Homes(rows) == {f[1] : f \in rows}

Idle == [kind |-> "none", at |-> "idle", archive |-> Absent, engs |-> {}, purpose |-> "export",
         record |-> Absent, seen |-> Absent, todo |-> {}, disable |-> FALSE,
         before |-> Absent, broken |-> FALSE, stuck |-> FALSE, mixed |-> FALSE]

Fresh(mode, place) ==
    [mode |-> mode, place |-> place, downloaded |-> FALSE, expired |-> FALSE]

NoPull == [at |-> "idle", engs |-> {}, seen |-> {}]

\* One finding and one record for each engagement, and no policy yet. Either nothing else
\* has happened, or all the data was exported to an archive, which may have been downloaded.
Init ==
    /\ storage \in {"postgresql", "json"}
    /\ written = 1 /\ findings = {<<e, 1>> : e \in Engagements}
    /\ tickets = Engagements /\ memory = Engagements
    /\ policy = [e \in Engagements |-> "none"]
    /\ candidates = Engagements /\ target = TRUE /\ references = {}
    /\ \E exported \in {{}} \cup {{a} : a \in Archives} :
        /\ answered \in {{}, exported}
        /\ registry = IF exported = {} THEN {} ELSE Engagements
        /\ catalog = [a \in Archives |-> IF a \in exported
                THEN [Fresh("temporary", "temporary") EXCEPT !.downloaded = a \in answered] ELSE Absent]
        /\ content = [a \in Archives |-> IF a \in exported
                THEN [purpose |-> "export-delete", engs |-> Engagements, rows |-> findings,
                      upto |-> written, home |-> TRUE] ELSE Absent]
        /\ files = exported \X {"temporary"}
    /\ holder = Nobody /\ op = [r \in Requests |-> Idle]
    /\ pull = NoPull /\ syncing = {}
    /\ purged = {} /\ returned = {} /\ starts = 0 /\ faults = 0

-----------------------------------------------------------------------------
(* Requests and their steps. *)

Start(r, new) ==
    /\ op[r].at = "idle" /\ starts < MaxStarts /\ starts' = starts + 1
    /\ op' = [op EXCEPT ![r] = new]
    /\ UNCHANGED <<storage, data, extra, archive, holder, others, history, faults>>

At(r, kinds, at) == op[r].kind \in kinds /\ op[r].at = at
Go(r, at) == op' = [op EXCEPT ![r].at = at]
Breaks(r) == op' = [op EXCEPT ![r].at = "leaving", ![r].broken = TRUE]
Ends(r) == op' = [op EXCEPT ![r] = Idle]

\* Mutant: a Sync All under way is overlooked.
FreeOfOperations == holder = Nobody

\* isMaintenanceBlocked and registerMaintenanceRun
Free == holder = Nobody /\ syncing = {}

\* assertIdle and runMaintenance: an operation that finds another one is refused.
Enters(r) ==
    /\ op[r].at = "entering"
    /\ \/ /\ Free
          /\ holder' = r
          /\ Go(r, IF op[r].kind = "remove" THEN "finding" ELSE "working")
       \/ Ends(r) /\ UNCHANGED holder
    /\ UNCHANGED <<storage, data, extra, archive, others, history, bounds>>

\* Its finally. An Export & Delete goes on to remove its archive.
Leaves(r) ==
    /\ op[r].at = "leaving"
    /\ holder' = Nobody
    /\ IF op[r].kind = "commit" /\ ~op[r].broken
       THEN op' = [op EXCEPT ![r] = [Idle EXCEPT !.kind = "commit", !.at = "finding",
                                                 !.archive = op[r].archive]]
       ELSE Ends(r)
    /\ UNCHANGED <<storage, data, extra, archive, others, history, bounds>>

\* A step that fails ends the request, or the work that the lock covers.
Fails(r) ==
    /\ op[r].at \in {"working", "reading", "settings", "moving", "saving", "sweeping", "finding",
                     "removing", "unlinking", "clearing", "streaming", "marking", "auditing",
                     "registering", "pruning"}
    /\ faults < MaxFaults /\ faults' = faults + 1
    /\ IF holder = r THEN Breaks(r) ELSE Ends(r)
    /\ files' = IF At(r, {"export", "import"}, "saving")
                THEN files \ {<<op[r].archive, op[r].record.place>>} ELSE files
    /\ UNCHANGED <<storage, data, extra, catalog, content, answered, holder, others, history, starts>>

-----------------------------------------------------------------------------
(* The registry of engagements. *)

\* loadLocalRegistryInputs: whatever the findings or the records in memory name.
Inputs == Homes(findings) \cup memory

\* resolveSelection: a year stands for every engagement that is registered.
Resolves(r) ==
    /\ At(r, {"export", "delete", "commit"}, "working")
    /\ registry' = registry \cup Inputs
    /\ LET engs == IF op[r].kind = "commit" THEN content[op[r].archive].engs \cap registry'
                   ELSE IF op[r].engs = {} THEN registry' ELSE op[r].engs \cap registry'
       IN op' = [op EXCEPT ![r].engs = engs,
                    ![r].at = IF engs = {} THEN "leaving"
                              ELSE IF op[r].kind = "export" THEN "reading" ELSE "settings",
                    ![r].broken = (engs = {})]
    /\ UNCHANGED <<storage, findings, written, tickets, memory, policy, extra, archive, holder,
                   others, history, bounds>>

-----------------------------------------------------------------------------
(* Archives. *)

Touched(record) == [record EXCEPT !.expired = FALSE]

\* getRecord: an expired record is none.
Found(a) == catalog[a] # Absent /\ ~catalog[a].expired

\* validateArchive
Valid(a) == <<a, catalog[a].place>> \in files

\* An identifier for a new archive.
Unused(a) == content[a] = Absent /\ \A r \in Requests : op[r].archive # a

\* createExport
Exports(r) ==
    \E engs \in Selections, purpose \in {"export", "export-delete"}, a \in Archives :
        /\ Unused(a)
        /\ Start(r, [Idle EXCEPT !.kind = "export", !.at = "entering", !.engs = engs,
                                 !.purpose = purpose, !.archive = a])

\* loadDatasets; then the file is written.
ExportReads(r) ==
    /\ At(r, {"export"}, "reading")
    /\ content' = [content EXCEPT ![op[r].archive] =
            [purpose |-> op[r].purpose, engs |-> op[r].engs,
             rows |-> Of(findings, op[r].engs), upto |-> written, home |-> TRUE]]
    /\ files' = files \cup {<<op[r].archive, "temporary">>}
    /\ op' = [op EXCEPT ![r].at = "saving", ![r].record = Fresh("temporary", "temporary")]
    /\ UNCHANGED <<storage, data, extra, catalog, answered, holder, others, history, bounds>>

\* In JSON mode a change of the catalog rewrites the file as it was read before.
Loads(r) ==
    /\ op[r].at \in {"saving", "removing"} /\ storage = "json" /\ op[r].seen = Absent
    /\ op' = [op EXCEPT ![r].seen = catalog]
    /\ UNCHANGED <<storage, data, extra, archive, holder, others, history, bounds>>

\* The catalog that a change is made to.
Base(r) == IF storage = "json" THEN op[r].seen ELSE catalog
Loaded(r) == storage = "json" => op[r].seen # Absent

\* saveRecord: an upsert of what was read before.
Saves(r) ==
    /\ op[r].at = "saving" /\ Loaded(r)
    /\ catalog' = [Base(r) EXCEPT ![op[r].archive] = op[r].record]
    /\ op' = [op EXCEPT ![r] =
            IF @.kind = "browse" THEN Idle
            ELSE IF @.kind = "download"
                 THEN IF content[@.archive].purpose = "export"
                      THEN [@ EXCEPT !.at = "finding", !.seen = Absent] ELSE Idle
            ELSE [@ EXCEPT !.at = "leaving", !.seen = Absent]]
    /\ UNCHANGED <<storage, data, extra, files, content, answered, holder, others, history, bounds>>

\* importArchiveStream: a copy of an archive, or one of another installation, which may carry
\* the mark of a download. It gets a new name.
Imports(r) ==
    /\ At(r, {"import"}, "working")
    /\ \E mode \in {"temporary", "permanent"},
          of \in Foreign \cup {content[a] : a \in answered}, downloaded \in BOOLEAN :
        /\ of.home => ~downloaded
        /\ content' = [content EXCEPT ![op[r].archive] = of]
        /\ files' = files \cup {<<op[r].archive, mode>>}
        /\ op' = [op EXCEPT ![r].at = "saving",
                ![r].record = [Fresh(mode, mode) EXCEPT !.downloaded = downloaded]]
    /\ UNCHANGED <<storage, data, extra, catalog, answered, holder, others, history, bounds>>

\* readDataset and markDownloaded write the record back without a lock.
Browses(r) ==
    \E a \in Archives :
        /\ Found(a)
        /\ Start(r, [Idle EXCEPT !.kind = "browse", !.at = "saving", !.archive = a,
                                 !.record = Touched(catalog[a])])

Downloads(r) ==
    \E a \in Archives :
        /\ Found(a) /\ Valid(a)
        /\ Start(r, [Idle EXCEPT !.kind = "download", !.at = "streaming", !.archive = a])

\* The answer has been sent: the file, or what a request for its head, for a part of it or
\* for a newer one gets.
Streams(r) ==
    /\ At(r, {"download"}, "streaming")
    /\ Go(r, "marking")
    /\ answered' = answered \cup {op[r].archive}
    /\ UNCHANGED <<storage, data, extra, catalog, files, content, holder, others, history, bounds>>

Marks(r) ==
    /\ At(r, {"download"}, "marking")
    /\ IF Found(op[r].archive)
       THEN op' = [op EXCEPT ![r].at = "saving",
                ![r].record = [Touched(catalog[op[r].archive]) EXCEPT !.downloaded = TRUE]]
       ELSE Ends(r)
    /\ UNCHANGED <<storage, data, extra, archive, holder, others, history, bounds>>

\* promoteArchive
Promotes(r) ==
    /\ At(r, {"promote"}, "working")
    /\ LET a == op[r].archive IN
        IF Found(a) /\ catalog[a].mode = "temporary"
        THEN op' = [op EXCEPT ![r].at = "moving",
                        ![r].record = [Touched(catalog[a]) EXCEPT !.mode = "permanent"]]
        ELSE Go(r, "leaving")
    /\ UNCHANGED <<storage, data, extra, archive, holder, others, history, bounds>>

Moves(r) ==
    /\ At(r, {"promote"}, "moving")
    /\ LET a == op[r].archive from == <<a, op[r].record.place>> IN
        /\ from \in files /\ files' = (files \ {from}) \cup {<<a, "permanent">>}
        /\ op' = [op EXCEPT ![r].at = "saving", ![r].record.place = "permanent"]
    /\ UNCHANGED <<storage, data, extra, catalog, content, answered, holder, others, history, bounds>>

\* The file is gone.
MoveFails(r) ==
    /\ At(r, {"promote"}, "moving") /\ <<op[r].archive, op[r].record.place>> \notin files
    /\ Go(r, "leaving")
    /\ UNCHANGED <<storage, data, extra, archive, holder, others, history, bounds>>

\* cleanupExpired: an archive that was seen to be expired is deleted.
Lists(r) ==
    \E a \in Archives :
        /\ catalog[a] # Absent /\ catalog[a].mode = "temporary" /\ catalog[a].expired
        /\ Start(r, [Idle EXCEPT !.kind = "list", !.at = "finding", !.archive = a])

\* Where a request goes once an archive is deleted.
Deleted(o) ==
    IF o.kind = "reset" THEN [o EXCEPT !.at = "sweeping", !.record = Absent, !.seen = Absent]
    ELSE IF o.kind = "remove" THEN [o EXCEPT !.at = "leaving"]
    ELSE Idle

\* deleteRecord: the record is looked up, deleted, and then its file.
Finds(r) ==
    /\ op[r].at = "finding"
    /\ op' = [op EXCEPT ![r] = IF catalog[@.archive] = Absent THEN Deleted(@)
                               ELSE [@ EXCEPT !.at = "removing", !.record = catalog[op[r].archive]]]
    /\ UNCHANGED <<storage, data, extra, archive, holder, others, history, bounds>>

Removes(r) ==
    /\ op[r].at = "removing" /\ Loaded(r)
    /\ catalog' = [Base(r) EXCEPT ![op[r].archive] = Absent]
    /\ Go(r, "unlinking")
    /\ UNCHANGED <<storage, data, extra, files, content, answered, holder, others, history, bounds>>

Unlinks(r) ==
    /\ op[r].at = "unlinking"
    /\ files' = files \ {<<op[r].archive, op[r].record.place>>}
    /\ op' = [op EXCEPT ![r] = Deleted(@)]
    /\ UNCHANGED <<storage, data, extra, catalog, content, answered, holder, others, history, bounds>>

\* An hour passes.
Expires(a) ==
    /\ catalog[a] # Absent /\ catalog[a].mode = "temporary" /\ ~catalog[a].expired
    /\ catalog' = [catalog EXCEPT ![a].expired = TRUE]
    /\ UNCHANGED <<storage, data, extra, files, content, answered, holder, op, others, history, bounds>>

-----------------------------------------------------------------------------
(* The other operations under the lock. *)

Locked(r) ==
    \/ \E kind \in {"safe", "reset"} : Start(r, [Idle EXCEPT !.kind = kind, !.at = "entering"])
    \/ \E kind \in {"policy", "delete"}, engs \in Selections, disable \in BOOLEAN :
        Start(r, [Idle EXCEPT !.kind = kind, !.at = "entering", !.engs = engs, !.disable = disable])
    \/ \E kind \in {"promote", "remove"}, a \in Archives :
        /\ catalog[a] # Absent
        /\ Start(r, [Idle EXCEPT !.kind = kind, !.at = "entering", !.archive = a])
    \/ \E a \in Archives :
        /\ Unused(a)
        /\ Start(r, [Idle EXCEPT !.kind = "import", !.at = "entering", !.archive = a])

\* Mutant: nobody asks whether the archive was downloaded.
CommittableAtOnce(a) == Found(a) /\ Valid(a) /\ content[a].purpose = "export-delete"

Committable(a) ==
    /\ Found(a) /\ Valid(a)
    /\ content[a].purpose = "export-delete" /\ catalog[a].downloaded

\* commitExportDelete checks the archive before it waits for the lock.
Commits(r) ==
    \E a \in Archives, disable \in BOOLEAN :
        /\ Committable(a)
        /\ Start(r, [Idle EXCEPT !.kind = "commit", !.at = "entering", !.archive = a,
                                 !.disable = disable])

Chosen(r) == IF op[r].disable THEN "disabled" ELSE "enabled"
Switched(r) == [e \in Engagements |-> IF e \in op[r].engs THEN Chosen(r) ELSE policy[e]]

\* updatePolicies
SetsPolicies(r) ==
    /\ At(r, {"policy"}, "working")
    /\ policy' = Switched(r)
    /\ Go(r, "leaving")
    /\ UNCHANGED <<storage, findings, written, tickets, memory, registry, extra, archive, holder,
                   others, history, bounds>>

\* performClear: the safe one.
ClearsFindings(r) ==
    /\ At(r, {"safe"}, "working")
    /\ findings' = {}
    /\ Go(r, "leaving")
    /\ UNCHANGED <<storage, written, tickets, memory, registry, policy, extra, archive, holder,
                   others, history, bounds>>

\* The factory reset: the archives that it listed go one by one.
ListsAll(r) ==
    /\ At(r, {"reset"}, "working")
    /\ op' = [op EXCEPT ![r].at = "sweeping", ![r].todo = {a \in Archives : catalog[a] # Absent}]
    /\ UNCHANGED <<storage, data, extra, archive, holder, others, history, bounds>>

Sweeps(r) ==
    /\ At(r, {"reset"}, "sweeping")
    /\ \/ \E a \in op[r].todo :
            op' = [op EXCEPT ![r].at = "finding", ![r].archive = a, ![r].todo = @ \ {a}]
       \/ op[r].todo = {} /\ Go(r, "clearing")
    /\ UNCHANGED <<storage, data, extra, archive, holder, others, history, bounds>>

\* clearAllData is one transaction; the archive references outside it stay.
ClearsAll(r) ==
    /\ At(r, {"reset"}, "clearing")
    /\ findings' = {} /\ tickets' = {} /\ memory' = {} /\ registry' = {} /\ candidates' = {}
    /\ policy' = [e \in Engagements |-> "none"]
    /\ IF storage = "postgresql"
       THEN references' = {} /\ catalog' = [a \in Archives |-> Absent]
       ELSE UNCHANGED <<references, catalog>>
    /\ Go(r, "leaving")
    /\ UNCHANGED <<storage, written, target, files, content, answered, holder, others, history, bounds>>

-----------------------------------------------------------------------------
(* The deletion of the data of some engagements. *)

Stored == [findings |-> findings, candidates |-> candidates, target |-> target,
           references |-> references, memory |-> memory, policy |-> policy]

Without(engs, state) ==
    [state EXCEPT !.findings = @ \ Of(@, engs), !.candidates = @ \ engs, !.memory = @ \ engs]

\* History: what is deleted for good, and under which archive.
Purges(r) ==
    purged' = IF op[r].kind # "commit" THEN purged
              ELSE purged \cup ({op[r].archive} \X Of(findings, op[r].engs))

Refers(r) ==
    references' = IF op[r].kind = "commit" THEN references \cup {op[r].archive} ELSE references

\* removeProductSlaComplianceTargets: when the user ticked it.
Settings(r) ==
    /\ At(r, {"delete", "commit"}, "settings")
    /\ target' \in {target, FALSE}
    /\ op' = [op EXCEPT ![r].before = Stored,
                        ![r].at = IF storage = "postgresql" THEN "candidates" ELSE "policies"]
    /\ UNCHANGED <<storage, data, candidates, references, archive, holder, others, history, bounds>>

\* removeScopedRestoreCandidates
DropsCandidates(r) ==
    /\ op[r].at = "candidates"
    /\ candidates' = candidates \ op[r].engs
    /\ Go(r, "transaction")
    /\ UNCHANGED <<storage, data, target, references, archive, holder, others, history, bounds>>

\* deleteDataSelection. The records in memory stay: nobody reloads them.
Erases(r) ==
    /\ op[r].at = "transaction"
    /\ policy' = Switched(r)
    /\ findings' = findings \ Of(findings, op[r].engs)
    /\ tickets' = tickets \ op[r].engs
    /\ registry' = registry \ op[r].engs
    /\ Refers(r) /\ Purges(r)
    /\ UNCHANGED <<storage, written, memory, candidates, target, archive, holder, others, returned,
                   starts>>

Deletes(r) == Erases(r) /\ Go(r, "auditing") /\ UNCHANGED faults

\* writeJsonRecoverySnapshot and applyJsonSyncChoice
Snapshots(r) ==
    /\ op[r].at = "policies"
    /\ policy' = Switched(r)
    /\ op' = [op EXCEPT ![r].at = "loading", ![r].before = [Stored EXCEPT !.target = op[r].before.target]]
    /\ UNCHANGED <<storage, findings, written, tickets, memory, registry, extra, archive, holder,
                   others, history, bounds>>

\* deleteJsonSelection reads the stores, and replaceJsonRuntimeData writes them in turn.
LoadsStores(r) ==
    /\ op[r].at = "loading"
    /\ op' = [op EXCEPT ![r].at = "findings", ![r].seen = Without(op[r].engs, Stored)]
    /\ UNCHANGED <<storage, data, extra, archive, holder, others, history, bounds>>

WritesFindings(r) ==
    /\ op[r].at = "findings"
    /\ findings' = op[r].seen.findings
    /\ Purges(r)
    /\ Go(r, "records")
    /\ UNCHANGED <<storage, written, tickets, memory, registry, policy, extra, archive, holder, others,
                   returned, bounds>>

WritesRecords(r) ==
    /\ op[r].at = "records"
    /\ tickets' = op[r].seen.memory
    /\ Go(r, "manifest")
    /\ UNCHANGED <<storage, findings, written, memory, registry, policy, extra, archive, holder, others,
                   history, bounds>>

WritesManifest(r) ==
    /\ op[r].at = "manifest"
    /\ candidates' = op[r].seen.candidates /\ memory' = op[r].seen.memory
    /\ Go(r, "unregistering")
    /\ UNCHANGED <<storage, findings, written, tickets, registry, policy, target, references, archive,
                   holder, others, history, bounds>>

Unregisters(r) ==
    /\ op[r].at = "unregistering"
    /\ registry' = registry \ op[r].engs
    /\ Go(r, "referring")
    /\ UNCHANGED <<storage, findings, written, tickets, memory, policy, extra, archive, holder, others,
                   history, bounds>>

AddsReference(r) ==
    /\ op[r].at = "referring"
    /\ Refers(r)
    /\ Go(r, "auditing")
    /\ UNCHANGED <<storage, data, candidates, target, archive, holder, others, history, bounds>>

Audits(r) ==
    /\ op[r].at = "auditing"
    /\ Go(r, "leaving")
    /\ UNCHANGED <<storage, data, extra, archive, holder, others, history, bounds>>

JsonSteps == {"loading", "findings", "records", "manifest", "unregistering", "referring"}

\* rollbackJsonSyncChoice: a policy that was not there is left enabled.
Rollback(r, old) ==
    [e \in Engagements |-> IF e \notin op[r].engs THEN policy[e]
                           ELSE IF old[e] = "none" THEN "enabled" ELSE old[e]]

\* A step of the deletion fails, and what it did is undone.
DeleteFails(r) ==
    /\ faults < MaxFaults /\ faults' = faults + 1
    /\ \/ op[r].at \in {"candidates", "transaction"} /\ UNCHANGED policy /\ Go(r, "undoing")
       \/ op[r].at = "policies" /\ policy' \in {policy, Rollback(r, policy)} /\ Go(r, "undoing")
       \/ op[r].at \in JsonSteps /\ policy' = Rollback(r, op[r].before.policy) /\ Go(r, "restoring")
    /\ UNCHANGED <<storage, findings, written, tickets, memory, registry, extra, archive, holder,
                   others, history, starts>>

Strands(r, at) == op' = [op EXCEPT ![r].at = at, ![r].broken = TRUE, ![r].stuck = TRUE]

\* The answer to the COMMIT is lost: the data is deleted, and what is outside the transaction
\* is put back.
CommitLost(r) ==
    /\ faults < MaxFaults /\ faults' = faults + 1
    /\ Erases(r) /\ Strands(r, "undoing")

\* rollbackJsonSyncChoice fails at one of the policies: the snapshot is not restored.
RollbackFails(r) ==
    /\ op[r].at \in {"policies"} \cup JsonSteps
    /\ faults < MaxFaults /\ faults' = faults + 1
    /\ LET old == Rollback(r, IF op[r].at = "policies" THEN policy ELSE op[r].before.policy)
           new == IF op[r].at = "policies" THEN Switched(r) ELSE policy
       IN policy' \in {p \in [Engagements -> {"none", "enabled", "disabled"}] :
                          \A e \in Engagements : p[e] \in {policy[e], old[e], new[e]}}
    /\ Strands(r, "undoing")
    /\ UNCHANGED <<storage, findings, written, tickets, memory, registry, extra, archive, holder,
                   others, history, starts>>

\* restoreJsonRecoverySnapshot
Restores(r) ==
    /\ op[r].at = "restoring"
    /\ LET old == op[r].before IN
        /\ findings' = old.findings /\ tickets' = old.memory /\ memory' = old.memory
        /\ candidates' = old.candidates /\ references' = old.references
    /\ Go(r, "undoing")
    /\ UNCHANGED <<storage, written, registry, policy, target, archive, holder, others, history, bounds>>

\* Mutant: only the targets come back.
UndoesTargets(r) ==
    /\ op[r].at = "undoing"
    /\ target' = op[r].before.target
    /\ Breaks(r)
    /\ UNCHANGED <<storage, data, candidates, references, archive, holder, others, history, bounds>>

\* restoreRestoreCandidates and restoreProductSlaComplianceTargets
Undoes(r) ==
    /\ op[r].at = "undoing"
    /\ candidates' = IF storage = "postgresql" THEN op[r].before.candidates ELSE candidates
    /\ target' = op[r].before.target
    /\ Breaks(r)
    /\ UNCHANGED <<storage, data, references, archive, holder, others, history, bounds>>

UndoFails(r) ==
    /\ op[r].at \in {"restoring", "undoing"}
    /\ Strands(r, IF op[r].at = "restoring" THEN "undoing" ELSE "leaving")
    /\ findings' \in {findings} \cup (IF op[r].at = "restoring" THEN {op[r].before.findings} ELSE {})
    /\ UNCHANGED <<storage, written, tickets, memory, registry, policy, extra, archive, holder, others,
                   history, bounds>>

-----------------------------------------------------------------------------
(* The hierarchy view: it holds no lock. *)

Views(r) == Start(r, [Idle EXCEPT !.kind = "view", !.at = "registering"])

\* In JSON mode the registration saves the policies that it read.
ViewRegisters(r) ==
    /\ At(r, {"view"}, "registering")
    /\ registry' = registry \cup Inputs
    /\ op' = [op EXCEPT ![r].at = IF storage = "json" THEN "storing" ELSE "judging", ![r].seen = policy]
    /\ UNCHANGED <<storage, findings, written, tickets, memory, policy, extra, archive, holder, others,
                   history, bounds>>

ViewStores(r) ==
    /\ At(r, {"view"}, "storing")
    /\ policy' = op[r].seen
    /\ Go(r, "judging")
    /\ UNCHANGED <<storage, findings, written, tickets, memory, registry, extra, archive, holder, others,
                   history, bounds>>

\* loadRemoteRegistry: what DefectDojo lists is registered, and what nobody names is stale.
ViewJudges(r) ==
    /\ At(r, {"view"}, "judging")
    /\ \/ \E remote \in {{}, Engagements} :
            /\ registry' = registry \cup remote
            /\ op' = [op EXCEPT ![r].at = "pruning", ![r].todo = registry \ (remote \cup Inputs)]
       \/ Ends(r) /\ UNCHANGED registry
    /\ UNCHANGED <<storage, findings, written, tickets, memory, policy, extra, archive, holder, others,
                   history, bounds>>

ViewPrunes(r) ==
    /\ At(r, {"view"}, "pruning")
    /\ registry' = registry \ op[r].todo
    /\ Ends(r)
    /\ UNCHANGED <<storage, findings, written, tickets, memory, policy, extra, archive, holder, others,
                   history, bounds>>

-----------------------------------------------------------------------------
(* Beside Data Management: Sync All, a pull and the end of the process. *)

New(engs) == engs \X {written + 1}

\* Sync All is registered: no operation is under way, and it reads the policies once.
SyncStarts ==
    /\ holder = Nobody /\ syncing = {} /\ starts < MaxStarts /\ starts' = starts + 1
    /\ syncing' = {e \in Engagements : policy[e] # "disabled"}
    /\ UNCHANGED <<storage, data, extra, archive, holder, op, pull, history, faults>>

SyncWrites(e) ==
    /\ e \in syncing /\ written < MaxRows /\ written' = written + 1
    /\ findings' = findings \cup New({e})
    /\ tickets' = tickets \cup {e} /\ memory' = memory \cup {e} /\ registry' = registry \cup {e}
    /\ UNCHANGED <<storage, policy, extra, archive, holder, op, others, history, bounds>>

SyncEnds ==
    /\ syncing # {} /\ syncing' = {}
    /\ UNCHANGED <<storage, data, extra, archive, holder, op, pull, history, bounds>>

\* POST /pull asks once whether an operation is under way, and is not registered.
PullStarts ==
    /\ pull = NoPull /\ holder = Nobody /\ starts < MaxStarts /\ starts' = starts + 1
    /\ pull' = [NoPull EXCEPT !.at = "filtering"]
    /\ UNCHANGED <<storage, data, extra, archive, holder, op, syncing, history, faults>>

\* filterFindings
PullFilters ==
    /\ pull.at = "filtering"
    /\ \E engs \in Selections :
        /\ registry' = registry \cup engs
        /\ pull' = [pull EXCEPT !.at = IF storage = "json" THEN "loading" ELSE "saving",
                                !.engs = {e \in engs : policy[e] # "disabled"}]
    /\ UNCHANGED <<storage, findings, written, tickets, memory, policy, extra, archive, holder, op,
                   syncing, history, bounds>>

\* saveFindingsToStore rewrites the file of findings as it read it.
PullLoads ==
    /\ pull.at = "loading"
    /\ pull' = [pull EXCEPT !.at = "saving", !.seen = findings]
    /\ UNCHANGED <<storage, data, extra, archive, holder, op, syncing, history, bounds>>

PullSaves ==
    /\ pull.at = "saving" /\ written < MaxRows /\ written' = written + 1
    /\ findings' = (IF storage = "json" THEN pull.seen ELSE findings) \cup New(pull.engs)
    /\ returned' = returned \cup (pull.seen \ findings)
    /\ op' = [r \in Requests |-> [op[r] EXCEPT !.mixed = storage = "json"]]
    /\ pull' = NoPull
    /\ UNCHANGED <<storage, tickets, memory, registry, policy, extra, archive, holder, syncing, purged,
                   bounds>>

\* What a process had under way is gone, and the records are loaded again.
Crash ==
    /\ faults < MaxFaults /\ faults' = faults + 1
    /\ op' = [r \in Requests |-> Idle] /\ holder' = Nobody
    /\ pull' = NoPull /\ syncing' = {} /\ memory' = tickets
    /\ UNCHANGED <<storage, findings, written, tickets, registry, policy, extra, archive, history,
                   starts>>

-----------------------------------------------------------------------------
Step(r) ==
    \/ Exports(r) \/ Locked(r) \/ Commits(r) \/ Browses(r) \/ Downloads(r) \/ Lists(r) \/ Views(r)
    \/ Enters(r) \/ Leaves(r) \/ Fails(r) \/ Resolves(r)
    \/ ExportReads(r) \/ Loads(r) \/ Saves(r) \/ Imports(r) \/ Streams(r) \/ Marks(r)
    \/ Promotes(r) \/ Moves(r) \/ MoveFails(r) \/ Finds(r) \/ Removes(r) \/ Unlinks(r)
    \/ SetsPolicies(r) \/ ClearsFindings(r) \/ ListsAll(r) \/ Sweeps(r) \/ ClearsAll(r)
    \/ Settings(r) \/ DropsCandidates(r) \/ Deletes(r) \/ Snapshots(r) \/ LoadsStores(r)
    \/ WritesFindings(r) \/ WritesRecords(r) \/ WritesManifest(r) \/ Unregisters(r)
    \/ AddsReference(r) \/ Audits(r) \/ DeleteFails(r) \/ CommitLost(r)
    \/ RollbackFails(r) \/ Restores(r) \/ Undoes(r) \/ UndoFails(r)
    \/ ViewRegisters(r) \/ ViewStores(r) \/ ViewJudges(r) \/ ViewPrunes(r)

Next ==
    \/ \E r \in Requests : Step(r)
    \/ \E a \in Archives : Expires(a)
    \/ SyncStarts \/ SyncEnds \/ \E e \in Engagements : SyncWrites(e)
    \/ PullStarts \/ PullFilters \/ PullLoads \/ PullSaves
    \/ Crash

Spec == Init /\ [][Next]_vars

-----------------------------------------------------------------------------
(* Properties. *)

TypeOK ==
    /\ findings \subseteq Findings /\ written \in 1 .. MaxRows
    /\ {tickets, memory, registry, candidates, syncing} \subseteq SUBSET Engagements
    /\ policy \in [Engagements -> {"none", "enabled", "disabled"}]
    /\ holder \in Requests \cup {Nobody}
    /\ catalog \in [Archives -> Records \cup {Absent}]
    /\ content \in [Archives -> Contents \cup {Absent}]
    /\ files \subseteq Archives \X {"temporary", "permanent"}
    /\ purged \subseteq Archives \X Findings

\* What an Export & Delete deletes belongs to the engagements its archive names, and unless
\* that was made elsewhere and imported, its download was answered to the end before, and a
\* finding that is not in it was stored, or put back by a pull, after the export.
DeletedWasArchived ==
    \A p \in purged :
        LET of == content[p[1]] IN
        /\ p[2][1] \in of.engs
        /\ of.home => /\ p[1] \in answered
                      /\ p[2] \in of.rows \/ p[2][2] > of.upto \/ p[2] \in returned

\* A deletion that ends has either deleted all it was asked to, or answers an error and has
\* left the findings, the restore manifest, the SLA targets, the archive references and, in
\* JSON mode, the records in memory as they were (registry and policies it may have changed).
\* Excepted: a rollback that failed itself, a COMMIT whose answer was lost, and in JSON mode
\* a pull that rewrote the file of findings in the middle.
DeletesAreAtomic ==
    \A r \in Requests :
        LET o == op[r]
            old == o.before
            rows == Of(old.findings, o.engs)
            json == storage = "json"
            gone == /\ rows \cap findings = {} /\ (candidates \cup tickets) \cap o.engs = {}
                    /\ json => memory \cap o.engs = {}
                    /\ o.kind = "commit" => o.archive \in references
            kept == /\ rows \subseteq findings /\ candidates = old.candidates
                    /\ target = old.target /\ references = old.references
                    /\ json => memory = old.memory
        IN At(r, {"delete", "commit"}, "leaving") /\ old # Absent /\ ~o.stuck /\ ~o.mixed
            => gone \/ (o.broken /\ kept)

\* No engagement is disabled while Sync All writes it (PostgreSQL).
SyncsObeyPolicies ==
    storage = "postgresql" => \A e \in syncing : policy[e] # "disabled"

=============================================================================
