----------------------------- MODULE FindingsPull -----------------------------
(***************************************************************************)
(* Pulls of findings from DefectDojo into the store of findings, by        *)
(* POST /pull and by Sync All, and the single findings that a recheck      *)
(* fetches again. Nothing keeps two of them apart. The pages of a pull are *)
(* asked for one by one, by offset, from a list that may change in         *)
(* between. PostgreSQL and the JSON file.                                  *)
(***************************************************************************)
EXTENDS Integers, FiniteSets

CONSTANTS
    Findings,        \* numbers of findings, in the order in which DefectDojo lists them
    Engagements,
    Home,            \* the engagement of each finding
    Pulls,           \* the pulls that can be under way at the same time
    Absent,
    MaxIds,          \* bound: pulls that are started
    MaxChanges,      \* bound: changes in DefectDojo and of the sync policies
    MaxRechecks      \* bound: findings that rechecks fetch

ASSUME PullAssumption ==
    /\ Findings \subseteq Nat /\ IsFiniteSet(Findings)
    /\ Home \in [Findings -> Engagements]
    /\ {MaxIds, MaxChanges, MaxRechecks} \subseteq Nat
    /\ Absent \notin Pulls \cup [active : BOOLEAN, generation : Nat, last : Nat]

VARIABLES
    storage,         \* "postgresql" or "json"
    remote,          \* each finding in DefectDojo: "active", "inactive" or "gone"
    enabled,         \* engagements whose sync policy lets them in
    stored,          \* the row of each finding
    pull,            \* the pulls under way
    recheck,         \* the finding that a recheck has fetched
    ids,             \* ids of sync history records that were given out
    earned,          \* history: how often a finding was opened again, or let in again
    touched,         \* history: findings written by one that was overtaken, or against the policy
    changes, rechecks

source == <<remote, enabled, earned>>
bounds == <<changes, rechecks>>
vars == <<storage, source, stored, pull, recheck, ids, touched, bounds>>

Statuses == {"active", "inactive", "gone"}

\* Id 0 stands for NULL: rows that came from the JSON file have seen no pull.
Row(active, generation, last) == [active |-> active, generation |-> generation, last |-> last]

NoPull == [at |-> "idle", id |-> 0, scope |-> {}, filter |-> "active", offset |-> 0, got |-> {},
           base |-> Absent, overtaken |-> FALSE]

NoRecheck == [finding |-> Absent, active |-> FALSE, id |-> 0, base |-> Absent, overtaken |-> FALSE]

\* A new store, or one whose rows were taken over from the JSON file.
Init ==
    /\ storage \in {"postgresql", "json"}
    /\ remote = [f \in Findings |-> "active"]
    /\ enabled = Engagements
    /\ stored \in {[f \in Findings |-> Absent],
                   [f \in Findings |-> Row(TRUE, 1, 0)]}
    /\ pull = [p \in Pulls |-> NoPull] /\ recheck = NoRecheck
    /\ ids = 0 /\ earned = [f \in Findings |-> 0] /\ touched = {}
    /\ changes = 0 /\ rechecks = 0

Active(f) == stored[f] # Absent /\ stored[f].active

-----------------------------------------------------------------------------
(* DefectDojo and the policies change. *)

\* History: a change overtakes the pulls under way and a recheck that has its answer.
Overtakes ==
    /\ pull' = [p \in Pulls |-> [pull[p] EXCEPT !.overtaken = pull[p].at # "idle"]]
    /\ recheck' = [recheck EXCEPT !.overtaken = recheck.finding # Absent]

Earns(reopened) == earned' = [f \in Findings |-> earned[f] + IF f \in reopened THEN 1 ELSE 0]

RemoteChanges(f) ==
    /\ changes < MaxChanges /\ changes' = changes + 1
    /\ remote[f] # "gone"
    /\ \E status \in Statuses \ {remote[f]} :
        /\ remote' = [remote EXCEPT ![f] = status]
        /\ Earns(IF status = "active" /\ remote[f] = "inactive" THEN {f} ELSE {})
    /\ Overtakes
    /\ UNCHANGED <<storage, enabled, stored, ids, touched, rechecks>>

Switches(e) ==
    /\ changes < MaxChanges /\ changes' = changes + 1
    /\ enabled' = IF e \in enabled THEN enabled \ {e} ELSE enabled \cup {e}
    /\ Earns(IF e \in enabled THEN {} ELSE {f \in Findings : Home[f] = e})
    /\ Overtakes
    /\ UNCHANGED <<storage, remote, stored, ids, touched, rechecks>>

-----------------------------------------------------------------------------
(* Saving findings. *)

\* Mutant: an inactive finding is stored as a new one is.
UpsertedAnew(row, active, id) ==
    IF row = Absent \/ ~active THEN Row(active, IF active THEN 1 ELSE 0, id)
    ELSE Row(TRUE, IF ~row.active THEN row.generation + 1 ELSE row.generation, id)

\* upsertFindingsForSync, and the merge of saveFindingsToStore.
Upserted(row, active, id) ==
    IF row = Absent THEN Row(active, IF active THEN 1 ELSE 0, id)
    ELSE Row(active,
             IF ~active THEN row.generation
             ELSE IF ~row.active THEN row.generation + 1
             ELSE IF row.generation = 0 THEN 1 ELSE row.generation,
             id)

\* What a set of findings, each with whether it is active, makes of the rows.
Merged(rows, got, id) ==
    [f \in Findings |->
        IF \E g \in got : g[1] = f THEN Upserted(rows[f], <<f, TRUE>> \in got, id) ELSE rows[f]]

\* History: a write overtakes the pulls that are between their own save, or read, and their end.
Saved(except) ==
    [p \in Pulls |-> [pull[p] EXCEPT !.overtaken =
        @ \/ (p # except /\ pull[p].at \in {"saving", "marking", "done"}
                         /\ (pull[p].at = "saving" => storage = "json"))]]

-----------------------------------------------------------------------------
(* A pull: runDefectDojoPull. *)

\* The JSON file has no sync history, and does not say which pull has seen a finding.
Stamp(id) == IF storage = "json" THEN 0 ELSE id

\* It covers everything or one engagement, and asks for active findings or for all.
Starts(p) ==
    /\ pull[p] = NoPull /\ ids < MaxIds /\ ids' = ids + 1
    /\ \E scope \in {Engagements} \cup {{e} : e \in Engagements}, filter \in {"active", "all"} :
        pull' = [pull EXCEPT ![p] = [NoPull EXCEPT !.at = "fetching", !.scope = scope,
                                                   !.filter = filter, !.id = Stamp(ids + 1)]]
    /\ UNCHANGED <<storage, source, stored, recheck, touched, bounds>>

Listed(p) ==
    {f \in Findings : Home[f] \in pull[p].scope
        /\ remote[f] \in IF pull[p].filter = "active" THEN {"active"} ELSE {"active", "inactive"}}

\* A page holds one finding: the one with as many before it as were received.
Fetches(p) ==
    /\ pull[p].at = "fetching"
    /\ \E f \in Listed(p) :
        /\ Cardinality({g \in Listed(p) : g < f}) = pull[p].offset
        /\ pull' = [pull EXCEPT ![p].offset = @ + 1,
                                ![p].got = IF \E g \in @ : g[1] = f THEN @
                                           ELSE @ \cup {<<f, remote[f] = "active">>}]
    /\ UNCHANGED <<storage, source, stored, recheck, ids, touched, bounds>>

\* filterFindings
Allowed(p) == {g \in pull[p].got : Home[g[1]] \in enabled}

\* The last page is in, and what the policies exclude is dropped. A pull of one engagement
\* that is excluded is refused, once it has findings of it.
Filters(p) ==
    /\ pull[p].at = "fetching" /\ pull[p].offset >= Cardinality(Listed(p))
    /\ pull' = [pull EXCEPT ![p] =
            IF pull[p].scope # Engagements /\ Allowed(p) # pull[p].got THEN NoPull
            ELSE [pull[p] EXCEPT !.at = IF storage = "json" THEN "loading" ELSE "saving",
                                 !.offset = 0, !.got = Allowed(p)]]
    /\ UNCHANGED <<storage, source, stored, recheck, ids, touched, bounds>>

\* loadFindingsFromFileStore
Loads(p) ==
    /\ pull[p].at = "loading"
    /\ pull' = [pull EXCEPT ![p].at = "saving", ![p].base = stored]
    /\ UNCHANGED <<storage, source, stored, recheck, ids, touched, bounds>>

\* Only a pull of active findings into PostgreSQL goes on to look for those it has not seen.
Marking(p) == storage = "postgresql" /\ pull[p].filter = "active"

\* One transaction, or the whole file as it was read; that overtakes a recheck that has read it.
Saves(p) ==
    /\ pull[p].at = "saving"
    /\ stored' = Merged(IF storage = "json" THEN pull[p].base ELSE stored,
                        pull[p].got, pull[p].id)
    /\ pull' = [Saved(p) EXCEPT ![p].base = Absent, ![p].got = {},
                                ![p].at = IF Marking(p) THEN "marking" ELSE "done"]
    /\ touched' = IF pull[p].overtaken
                  THEN touched \cup {f \in Findings : stored'[f] # stored[f]} ELSE touched
    /\ recheck' = [recheck EXCEPT !.overtaken = @ \/ recheck.base # Absent]
    /\ UNCHANGED <<storage, source, ids, bounds>>

\* Mutant: the scope of the pull is forgotten.
UnseenAnywhere(p, f) == Active(f) /\ stored[f].last # pull[p].id

\* Mutant: NULL compares as equal.
UnseenKnown(p, f) ==
    Active(f) /\ Home[f] \in pull[p].scope /\ stored[f].last # pull[p].id /\ stored[f].last # 0

Unseen(p, f) == Active(f) /\ Home[f] \in pull[p].scope /\ stored[f].last # pull[p].id

\* markUnseenActiveFindingsInactiveForSync
Marks(p) ==
    /\ pull[p].at = "marking"
    /\ LET unseen == {f \in Findings : Unseen(p, f)} IN
        /\ stored' = [f \in Findings |->
                IF f \in unseen THEN [stored[f] EXCEPT !.active = FALSE] ELSE stored[f]]
        /\ touched' = IF pull[p].overtaken THEN touched \cup unseen ELSE touched
    /\ pull' = [Saved(p) EXCEPT ![p].at = "done"]
    /\ UNCHANGED <<storage, source, recheck, ids, bounds>>

\* finishSyncHistory
Finishes(p) ==
    /\ pull[p].at = "done"
    /\ pull' = [pull EXCEPT ![p] = NoPull]
    /\ UNCHANGED <<storage, source, stored, recheck, ids, touched, bounds>>

\* A request or a save fails; what was saved stays.
Fails(p) ==
    /\ pull[p].at \in {"fetching", "loading", "saving", "marking"}
    /\ pull' = [pull EXCEPT ![p] = NoPull]
    /\ UNCHANGED <<storage, source, stored, recheck, ids, touched, bounds>>

-----------------------------------------------------------------------------
(* A recheck: refreshRecheckFindingsFromDefectDojo, with the id of a Sync All whose pull is done, *)
(* or of a poll, which has none.                                                                  *)

Rechecks(f) ==
    /\ recheck = NoRecheck /\ rechecks < MaxRechecks /\ rechecks' = rechecks + 1
    /\ remote[f] \in {"active", "inactive"}
    /\ \E id \in {0} \cup ((1 .. ids) \ {pull[p].id : p \in Pulls}) :
        recheck' = [NoRecheck EXCEPT !.finding = f, !.active = remote[f] = "active",
                                     !.id = Stamp(id)]
    /\ UNCHANGED <<storage, source, stored, pull, ids, touched, changes>>

RecheckLoads ==
    /\ storage = "json" /\ recheck.finding # Absent /\ recheck.base = Absent
    /\ recheck' = [recheck EXCEPT !.base = stored]
    /\ UNCHANGED <<storage, source, stored, pull, ids, touched, bounds>>

\* saveFindingsToStore again; nothing asks the policies.
RecheckSaves ==
    /\ recheck.finding # Absent /\ (storage = "json" => recheck.base # Absent)
    /\ stored' = Merged(IF storage = "json" THEN recheck.base ELSE stored,
                        {<<recheck.finding, recheck.active>>}, recheck.id)
    /\ pull' = Saved(Absent)
    /\ touched' = IF recheck.overtaken \/ Home[recheck.finding] \notin enabled
                  THEN touched \cup {f \in Findings : stored'[f] # stored[f]} ELSE touched
    /\ recheck' = NoRecheck
    /\ UNCHANGED <<storage, source, ids, bounds>>

-----------------------------------------------------------------------------
Next ==
    \/ \E f \in Findings : RemoteChanges(f) \/ Rechecks(f)
    \/ \E e \in Engagements : Switches(e)
    \/ \E p \in Pulls : Starts(p) \/ Fetches(p) \/ Filters(p) \/ Loads(p) \/ Saves(p) \/ Marks(p)
                        \/ Finishes(p) \/ Fails(p)
    \/ RecheckLoads \/ RecheckSaves

Spec == Init /\ [][Next]_vars

-----------------------------------------------------------------------------
(* Properties. *)

Rows == [active : BOOLEAN, generation : Nat, last : Nat]
Stores == [Findings -> Rows \cup {Absent}]
Pulling ==
    [at : {"idle", "fetching", "loading", "saving", "marking", "done"}, id : Nat,
     scope : SUBSET Engagements, filter : {"active", "all"}, offset : Nat,
     got : SUBSET (Findings \X BOOLEAN), base : Stores \cup {Absent}, overtaken : BOOLEAN]
Rechecking ==
    [finding : Findings \cup {Absent}, active : BOOLEAN, id : Nat, base : Stores \cup {Absent},
     overtaken : BOOLEAN]

TypeOK ==
    /\ storage \in {"postgresql", "json"}
    /\ remote \in [Findings -> Statuses] /\ enabled \subseteq Engagements
    /\ stored \in Stores
    /\ pull \in [Pulls -> Pulling] /\ recheck \in Rechecking
    /\ ids \in Nat /\ earned \in [Findings -> Nat] /\ touched \subseteq Findings
    /\ {changes, rechecks} \subseteq Nat

\* A pull that nothing overtook leaves the store as DefectDojo is: the findings it lists are
\* active as they are there, and after a pull of active findings into PostgreSQL nothing else
\* of its scope is active, whoever wrote the row before.
PullsMirror ==
    \A p \in Pulls :
        pull[p].at = "done" /\ ~pull[p].overtaken =>
            \A f \in {g \in Findings : Home[g] \in pull[p].scope} :
                IF f \in Listed(p) /\ Home[f] \in enabled
                THEN stored[f] # Absent /\ (stored[f].active <=> remote[f] = "active")
                ELSE storage = "postgresql" /\ pull[p].filter = "active" => ~Active(f)

\* A finding begins a new generation, that is a new cycle of its ticket, only if it was opened
\* again, or let in again by its policy; unless a pull or a recheck that was overtaken wrote it,
\* or a recheck, which does not ask the policies, wrote it while its engagement was disabled.
GenerationsAreEarned ==
    \A f \in Findings :
        stored[f] # Absent /\ f \notin touched => stored[f].generation <= 1 + earned[f]

\* In PostgreSQL no write takes a generation back, however pulls and rechecks overlap.
GenerationsGrow ==
    [][\A f \in Findings : storage = "postgresql" /\ stored[f] # Absent =>
        stored'[f] # Absent /\ stored'[f].generation >= stored[f].generation]_vars
=============================================================================
