----------------------------- MODULE RedmineTickets -----------------------------
(***************************************************************************)
(* Finding and creating the Redmine issue of a compacted ticket, by Sync   *)
(* All (createRedmineTicketWithLock) and by a user's request               *)
(* (POST /redmine/issues), while other people work in Redmine.             *)
(* A ticket is known to Redmine by the key in the description of its       *)
(* issue, and to a request also by the findings listed there. Before an    *)
(* issue is created, the open and the closed issues of the project are     *)
(* read page by page, the most recently updated first; an issue that is    *)
(* updated meanwhile moves to the front of its list, or to the other list. *)
(* PostgreSQL storage, one API process. Tickets in their first cycle: in a *)
(* later one, only the key counts.                                         *)
(***************************************************************************)
EXTENDS Integers, FiniteSets, Sequences, SequencesExt, FiniteSetsExt

CONSTANTS
    Keys,        \* the keys tickets have, or had in an earlier layout
    Canonical,   \* the key that the group of a key has now
    Syncs,       \* the Sync All runs
    Requests,    \* the users' requests
    KeyOf,       \* the key each of them works on
    Foreign,     \* the other issues in the project
    Given,       \* what their descriptions may say
    PageSize, MaxPages,
    MaxIssues,   \* bound: issues in the project
    MaxMoves,    \* bound: updates of issues by other people
    MaxFaults    \* bound: failed calls and crashes

Makers == Syncs \cup Requests

ASSUME TicketsAssumption ==
    /\ Canonical \in [Keys -> Keys] /\ \A k \in Keys : Canonical[Canonical[k]] = Canonical[k]
    /\ KeyOf \in [Makers -> Keys] /\ \A m \in Syncs : Canonical[KeyOf[m]] = KeyOf[m]
    /\ Syncs \cap Requests = {} /\ {"other", "none"} \cap Keys = {} /\ "free" \notin Makers
    /\ {PageSize, MaxPages} \subseteq Nat \ {0}
    /\ {Foreign, MaxIssues, MaxMoves, MaxFaults} \subseteq Nat
    /\ Foreign <= MaxIssues

\* What the description of an issue says: its key, if it has one, and the ticket whose
\* findings it lists.
Descriptions == [key : Keys \cup {"other", "none"}, findings : Keys \cup {"other"}]

ASSUME GivenAssumption == Given \subseteq Descriptions

Ids == 1 .. MaxIssues
Lists == {"open", "closed"}
NoLink == [issue |-> 0, closed |-> FALSE]

VARIABLES
    issue,    \* the issues in Redmine, in the order of their creation
    recent,   \* their ids, the most recently updated first
    stored,   \* the links in the table redmine_sync_records
    cached,   \* the links in memory
    dirty,    \* the keys whose link is to be written to the table
    lock,     \* the tickets that are locked, and by whom
    maker,
    missed,   \* has a search overlooked an issue that was there all the time?
    taken,    \* the issues that were rewritten for another ticket
    moves, faults

vars == <<issue, recent, stored, cached, dirty, lock, maker, missed, taken, moves, faults>>

NoSearch == [page |-> [l \in Lists |-> 0], count |-> [l \in Lists |-> 0],
             seen |-> [l \in Lists |-> {}], keyed |-> {}, ended |-> {}, complete |-> TRUE,
             had |-> {}]

Idle == [at |-> "idle", key |-> "other", locked |-> {}, found |-> 0, persists |-> FALSE,
         search |-> NoSearch]

TypeOK ==
    /\ \A i \in DOMAIN issue :
        [key |-> issue[i].key, findings |-> issue[i].findings] \in Descriptions
    /\ Len(issue) <= MaxIssues
    /\ ToSet(recent) = DOMAIN issue /\ Len(recent) = Len(issue)
    /\ stored \in [Keys -> [issue : {0} \cup Ids, closed : BOOLEAN]]
    /\ cached \in [Keys -> [issue : {0} \cup Ids, closed : BOOLEAN]]
    /\ dirty \subseteq Keys
    /\ lock \in [Keys -> Makers \cup {"free"}]
    /\ \A m \in Makers :
        /\ maker[m].at \in {"idle", "check", "search", "missing", "unverified", "wait", "canonical",
                            "recheck", "create", "update", "save"}
        /\ maker[m].locked = {k \in Keys : lock[k] = m}
    /\ missed \in BOOLEAN /\ taken \subseteq DOMAIN issue
    /\ moves \in 0 .. MaxMoves /\ faults \in 0 .. MaxFaults

-----------------------------------------------------------------------------
(* Keys and findings. *)

\* The canonical ticket of a group answers to the group's earlier keys as well.
Answers(k) == {k} \cup {j \in Keys : Canonical[j] = k}

\* redmineIssueFindingIdsAreSubsetOfCurrent: the keys of a group have its findings.
ByFindings(k) == {i \in DOMAIN issue : issue[i].findings = Canonical[k]}

\* Mutant: the key in the issue's description is not compared.
AnyIssue(k) == DOMAIN issue

\* findIssueMatchInList, the trusted matches: issues with a key of the ticket.
ByKey(k) == {i \in DOMAIN issue : issue[i].key \in Answers(k)}

Matching(k) == ByKey(k) \cup ByFindings(k)

\* The issues of the ticket of a group.
Issues(k) == Matching(Canonical[k])

\* syncKnownRedmineIssue accepts an issue by its findings when it has no key.
Verified(k) == ByKey(k) \cup {i \in ByFindings(k) : issue[i].key = "none"}

\* The project has issues already. One may belong to tickets: by its key, by its
\* findings, or to one by its key and to another, where its findings have gone since;
\* tickets of the key may be linked to it.
Init ==
    /\ \E says \in [1 .. Foreign -> Given], open \in BOOLEAN :
        /\ \A i, j \in 1 .. Foreign : {says[i].key, says[i].findings} \cap Keys # {}
                                     /\ {says[j].key, says[j].findings} \cap Keys # {} => i = j
        /\ \A i \in 1 .. Foreign :
            says[i].findings # "other" => Canonical[says[i].findings] = says[i].findings
        /\ issue = [i \in 1 .. Foreign |-> [key |-> says[i].key, findings |-> says[i].findings,
                                            open |-> open]]
    /\ recent = [i \in 1 .. Foreign |-> i]
    /\ \E linked \in BOOLEAN :
        stored = [k \in Keys |->
            IF linked /\ \E i \in DOMAIN issue : issue[i].key = k
            THEN [issue |-> CHOOSE i \in DOMAIN issue : issue[i].key = k, closed |-> FALSE]
            ELSE NoLink]
    /\ cached = stored /\ dirty = {}
    /\ lock = [k \in Keys |-> "free"]
    /\ maker = [m \in Makers |-> Idle]
    /\ missed = FALSE /\ taken = {} /\ moves = 0 /\ faults = 0

-----------------------------------------------------------------------------
(* Redmine. *)

Touched(i) == <<i>> \o SelectSeq(recent, LAMBDA j : j # i)

\* Somebody writes a note, or opens or closes the issue.
EngineerUpdates(i) ==
    /\ moves < MaxMoves /\ moves' = moves + 1
    /\ \E open \in BOOLEAN : issue' = [issue EXCEPT ![i].open = open]
    /\ recent' = Touched(i)
    /\ UNCHANGED <<stored, cached, dirty, lock, maker, missed, taken, faults>>

\* The issues of a list, as pages are cut from it.
Listed(l) == SelectSeq(recent, LAMBDA i : issue[i].open = (l = "open"))

Page(l, p) == LET s == Listed(l) IN SubSeq(s, p * PageSize + 1, Min({Len(s), (p + 1) * PageSize}))

-----------------------------------------------------------------------------
(* Links. *)

\* getKnownRedmineIssueId: the links in memory of the key, then of legacy keys.
Known(k) == IF cached[k].issue # 0 THEN {cached[k].issue}
            ELSE {cached[j].issue : j \in Answers(k)} \ {0}

\* writeStoredRedmineSyncRecord: the record of the key takes its findings from the
\* other records that are not closed; here they have the same findings, and go. The
\* record of a ticket that was not found has no issue (i = 0).
Linked(links, k, i) ==
    [j \in Keys |-> IF j = k THEN [issue |-> i,
                                  closed |-> links[k].closed \/ (i # 0 /\ ~issue[i].open)]
                    ELSE IF Canonical[j] = Canonical[k] /\ ~links[j].closed THEN NoLink
                    ELSE links[j]]

-----------------------------------------------------------------------------
(* Steps of a maker. *)

\* What a search has read is forgotten when it ends.
Go(m, at) == maker' = [maker EXCEPT ![m].at = at, ![m].search = NoSearch]
Fault == faults < MaxFaults /\ faults' = faults + 1

\* The locks once a maker has released its own (finally).
Released(m) == [k \in Keys |-> IF lock[k] = m THEN "free" ELSE lock[k]]

Done(m) == maker' = [maker EXCEPT ![m] = Idle] /\ lock' = Released(m)

Store == <<stored, cached, dirty>>
Redmine == <<issue, recent, taken>>

\* The first check of Sync All also records that a ticket was not found (persist); it is
\* made before any lock. A request locks the key it was made for, and is refused when
\* that is taken.
Starts(m) ==
    LET k == KeyOf[m] IN
    /\ maker[m].at = "idle"
    /\ m \in Requests => lock[k] = "free"
    /\ maker' = [maker EXCEPT ![m] = [Idle EXCEPT !.at = "check", !.key = k,
                                         !.persists = m \in Syncs,
                                         !.locked = IF m \in Requests THEN {k} ELSE {}]]
    /\ lock' = IF m \in Requests THEN [lock EXCEPT ![k] = m] ELSE lock
    /\ UNCHANGED <<Redmine, Store, missed, moves, faults>>

Searching(m) ==
    maker' = [maker EXCEPT ![m].at = "search",
                           ![m].search = [NoSearch EXCEPT !.had = Matching(maker[m].key)]]

\* An issue was found. What a request has found it also updates; Sync All only records it.
Found(m, at, i) ==
    maker' = [maker EXCEPT ![m].at = at, ![m].found = i, ![m].search = NoSearch]

FoundTo(m, i) == Found(m, IF m \in Requests THEN "update" ELSE "save", i)

\* A known issue is fetched and must belong to the ticket, for Sync All by its key;
\* otherwise, or when it cannot be fetched, the project is searched. A request may name
\* an issue.
Checks(m) ==
    /\ maker[m].at = "check"
    /\ \E named \in IF m \in Requests THEN {0} \cup DOMAIN issue ELSE {0} :
        LET known == IF named # 0 THEN {named} ELSE Known(maker[m].key)
            accepted == IF m \in Requests THEN Verified(maker[m].key) ELSE ByKey(maker[m].key) IN
        \/ \E i \in known \cap accepted : FoundTo(m, i) /\ UNCHANGED faults
        \/ /\ IF known \subseteq accepted /\ known # {} THEN Fault ELSE UNCHANGED faults
           /\ Searching(m)
    /\ UNCHANGED <<Redmine, Store, lock, missed, moves>>

\* fetchRedmineIssuesForProjectStatus, one page of a list. Sync All reads the two
\* lists side by side, a request the closed issues after the open ones.
ReadsPage(m, l) ==
    LET s == maker[m].search
        page == Page(l, s.page[l])
        count == s.count[l] + Len(page)
        all == count >= Len(Listed(l)) IN
    /\ maker[m].at = "search" /\ l \notin s.ended
    /\ m \in Requests /\ l = "closed" => "open" \in s.ended /\ s.seen["open"] = {} /\ s.complete
    /\ maker' = [maker EXCEPT ![m].search =
           [s EXCEPT !.page[l] = s.page[l] + 1,
                     !.count[l] = count,
                     !.seen[l] = s.seen[l] \cup (ToSet(page) \cap Matching(maker[m].key)),
                     !.keyed = s.keyed \cup (ToSet(page) \cap ByKey(maker[m].key)),
                     !.ended = IF all \/ Len(page) < PageSize \/ s.page[l] + 1 = MaxPages
                               THEN s.ended \cup {l} ELSE s.ended,
                     !.complete = s.complete
                         /\ (Len(page) < PageSize \/ s.page[l] + 1 = MaxPages => all)]]
    /\ UNCHANGED <<Redmine, Store, lock, missed, moves, faults>>

\* The lists are read, as far as they are needed.
SearchOver(m) ==
    LET s == maker[m].search IN
    /\ maker[m].at = "search"
    /\ s.ended = Lists
       \/ (m \in Requests /\ "open" \in s.ended /\ (s.seen["open"] # {} \/ ~s.complete))

\* One issue with a key of the ticket is trusted. Without any, a request takes the one
\* issue with its findings; under the canonical key, when that has no key.
Accepted(m) ==
    LET s == maker[m].search
        seen == UNION {s.seen[l] : l \in Lists} IN
    IF Cardinality(s.keyed) = 1 THEN s.keyed
    ELSE IF s.keyed = {} /\ Cardinality(seen) = 1 /\ m \in Requests
    THEN IF maker[m].key = KeyOf[m] THEN seen ELSE seen \cap Verified(maker[m].key)
    ELSE {}

SearchFinds(m) ==
    /\ SearchOver(m)
    /\ \E i \in Accepted(m) : FoundTo(m, i)
    /\ UNCHANGED <<Redmine, Store, lock, missed, moves, faults>>

\* Nothing in a complete search means that there is no issue; anything else is not safe
\* to go on with.
SearchFails(m) ==
    LET s == maker[m].search
        none == UNION {s.seen[l] : l \in Lists} = {} /\ s.complete
        next == IF maker[m].persists THEN "missing"
                ELSE IF m \in Requests /\ maker[m].key = KeyOf[m] THEN "canonical"
                ELSE IF m \in Syncs /\ maker[m].locked = {} THEN "wait" ELSE "create" IN
    /\ SearchOver(m) /\ Accepted(m) = {}
    /\ missed' = (missed \/ (none /\ s.had # {}))
    /\ IF none THEN Go(m, next) /\ UNCHANGED lock
       ELSE IF maker[m].persists THEN Go(m, "unverified") /\ UNCHANGED lock
       ELSE Done(m)
    /\ UNCHANGED <<Redmine, Store, moves, faults>>

\* Mutant: what was searched before the lock is good enough under it.
AfterLock == "create"

\* Under the lock the search is made again.
UnderLock == "check"

\* loadRedmineSyncRecord: what is unsaved is written, and the record is loaded again.
Reloads(k) ==
    /\ stored' = [j \in Keys |-> IF j \in dirty THEN cached[j] ELSE stored[j]]
    /\ cached' = [cached EXCEPT ![k] = stored'[k]]
    /\ dirty' = {}

\* createRedmineTicketWithLock: a ticket whose record has a link by now is left alone.
SyncLocks(m) ==
    LET k == maker[m].key IN
    /\ m \in Syncs /\ maker[m].at = "wait" /\ lock[k] = "free"
    /\ Reloads(k)
    /\ IF cached'[k].issue # 0 THEN maker' = [maker EXCEPT ![m] = Idle] /\ UNCHANGED lock
       ELSE /\ lock' = [lock EXCEPT ![k] = m]
            /\ maker' = [maker EXCEPT ![m].at = UnderLock, ![m].locked = {k}]
    /\ UNCHANGED <<Redmine, missed, moves, faults>>

\* While the lock is taken, the ticket is checked again, until a timeout.
SyncWaits(m) ==
    LET k == maker[m].key IN
    /\ m \in Syncs /\ maker[m].at = "wait" /\ lock[k] # "free"
    /\ Reloads(k)
    /\ \/ maker' = [maker EXCEPT ![m] = Idle]
       \/ cached'[k].issue = 0 /\ Go(m, "check")
    /\ UNCHANGED <<Redmine, lock, missed, moves, faults>>

\* resolveCanonicalIssue: the request goes on with the canonical ticket, and locks it.
Canonicalises(m) ==
    LET k == Canonical[maker[m].key] IN
    /\ m \in Requests /\ maker[m].at = "canonical"
    /\ IF lock[k] \in {"free", m}
       THEN /\ maker' = [maker EXCEPT ![m].at = "recheck", ![m].key = k,
                                      ![m].locked = maker[m].locked \cup {k}]
            /\ lock' = [lock EXCEPT ![k] = m]
       ELSE Done(m)
    /\ UNCHANGED <<Redmine, Store, missed, moves, faults>>

\* The canonical ticket may be known; it is searched for if it is another one.
Rechecks(m) ==
    LET known == Known(maker[m].key) IN
    /\ maker[m].at = "recheck"
    /\ IF known = {}
       THEN /\ IF maker[m].key = KeyOf[m] THEN Go(m, "create") ELSE Searching(m)
            /\ UNCHANGED lock
       ELSE \E i \in known :
            IF i \in Verified(maker[m].key) THEN FoundTo(m, i) /\ UNCHANGED lock ELSE Done(m)
    /\ UNCHANGED <<Redmine, Store, missed, moves, faults>>

\* A link that came to be known meanwhile is used, if its issue is the ticket's.
Learns(m) ==
    /\ m \in Syncs /\ maker[m].at = "create"
    /\ \E i \in Known(maker[m].key) :
        IF i \in Verified(maker[m].key)
        THEN Found(m, "update", i) /\ UNCHANGED lock
        ELSE Done(m)
    /\ UNCHANGED <<Redmine, Store, missed, moves, faults>>

\* The issue is posted. Redmine may refuse, and its answer may be lost.
Creates(m) ==
    LET k == maker[m].key
        id == Len(issue) + 1 IN
    /\ maker[m].at = "create" /\ id <= MaxIssues
    /\ m \in Syncs => Known(k) = {}
    /\ \/ /\ issue' = Append(issue, [key |-> k, findings |-> Canonical[k], open |-> TRUE])
          /\ recent' = <<id>> \o recent
          /\ \/ Found(m, "save", id)
                /\ UNCHANGED <<lock, faults>>
             \/ Done(m) /\ Fault
       \/ Done(m) /\ Fault /\ UNCHANGED <<issue, recent>>
    /\ UNCHANGED <<Store, taken, missed, moves>>

\* Mutant: the write is taken off the list before it has succeeded.
ForgottenDirty(k, i, ok) == dirty \ {k}

\* The keys that are still to be written after a write of the store.
LeftDirty(k, i, ok) ==
    IF ok THEN {} ELSE dirty \cup {k} \cup {j \in Keys : Linked(cached, k, i)[j] # cached[j]}

\* The record of a key is written to memory and, with everything that is unsaved, to the
\* table; that may fail.
Writes(k, i) ==
    LET links == Linked(cached, k, i) IN
    /\ cached' = links
    /\ \E ok \in BOOLEAN :
        /\ IF ok THEN UNCHANGED faults ELSE Fault
        /\ stored' = IF ok THEN [j \in Keys |-> IF j \in dirty \/ links[j] # cached[j]
                                               THEN links[j] ELSE stored[j]] ELSE stored
        /\ dirty' = LeftDirty(k, i, ok)

\* The first check of Sync All has not found the issue, or not for sure: the record of
\* the ticket loses its link, whoever has written one since the search.
Forgets(m) ==
    /\ maker[m].at \in {"missing", "unverified"}
    /\ Writes(maker[m].key, 0)
    /\ IF maker[m].at = "missing"
       THEN maker' = [maker EXCEPT ![m].at = "wait", ![m].persists = FALSE] /\ UNCHANGED lock
       ELSE Done(m)
    /\ UNCHANGED <<Redmine, missed, moves>>

\* The link is written. A closed issue gets the ticket's current description first, and
\* may have been another ticket's.
Saves(m) ==
    LET k == maker[m].key
        i == maker[m].found
        rewrite == maker[m].at = "update" /\ ~issue[i].open IN
    /\ maker[m].at \in {"update", "save"}
    /\ IF rewrite
       THEN /\ issue' = [issue EXCEPT ![i] = [@ EXCEPT !.key = k, !.findings = Canonical[k]]]
            /\ recent' = Touched(i)
            /\ taken' = taken \cup {h \in {i} : \E j \in Keys : Canonical[j] # Canonical[k]
                                                               /\ h \in Issues(j)}
       ELSE UNCHANGED Redmine
    /\ Writes(k, i)
    /\ Done(m)
    /\ UNCHANGED <<missed, moves>>

\* Any call of a maker may fail.
Fails(m) ==
    /\ maker[m].at # "idle" /\ Fault
    /\ Done(m)
    /\ UNCHANGED <<Redmine, Store, missed, moves>>

\* The process dies and is started again: memory is read from the table, and the
\* locks went with its connections.
Crash ==
    /\ Fault
    /\ maker' = [m \in Makers |-> Idle] /\ lock' = [k \in Keys |-> "free"]
    /\ cached' = stored /\ dirty' = {}
    /\ UNCHANGED <<Redmine, stored, missed, moves>>

-----------------------------------------------------------------------------

Progress(m) ==
    \/ Checks(m) \/ (\E l \in Lists : ReadsPage(m, l)) \/ SearchFinds(m) \/ SearchFails(m)
    \/ Forgets(m) \/ SyncLocks(m) \/ SyncWaits(m) \/ Canonicalises(m) \/ Rechecks(m)
    \/ Learns(m) \/ Creates(m) \/ Saves(m)

Next ==
    \/ \E i \in DOMAIN issue : EngineerUpdates(i)
    \/ \E m \in Makers : Starts(m) \/ Progress(m) \/ Fails(m)
    \/ Crash

Spec == Init /\ [][Next]_vars

\* A run or request that has begun goes on, and Sync All is run again and again.
Fairness ==
    \A m \in Makers : WF_vars(Progress(m) \/ (m \in Syncs /\ Starts(m)))

FairSpec == Spec /\ Fairness

-----------------------------------------------------------------------------
(* Properties. *)

\* A ticket has one issue, by its key or its findings, whatever requests and runs create
\* it, under whichever of its keys, and whatever fails in between. There are two ways to
\* a second one: a search that overlooked the first, because it moved between two of its
\* reads, and a request that rewrote a closed issue of another ticket.
DuplicatesWereMissed == \A k \in Keys : Cardinality(Issues(k) \ taken) > 1 => missed

\* A link, saved or not, leads to an issue with a key of its ticket or with its findings;
\* or to one that has been rewritten for another ticket since it was found.
LinksMatch ==
    \A k \in Keys : /\ cached[k].issue # 0 => cached[k].issue \in Issues(k) \cup taken
                    /\ stored[k].issue # 0 => stored[k].issue \in Issues(k) \cup taken

\* When the failures and the updates stop, every ticket that Sync All works on has
\* its issue, and a link to it is in the table, under the key of the ticket or an
\* earlier one of its group; unless it has two issues, or one with its findings but not
\* its key, which Sync All leaves to a request.
TicketsLinked ==
    \A m \in Syncs : <>[](\/ \E k \in Answers(KeyOf[m]) : stored[k].issue # 0
                         \/ Cardinality(Issues(KeyOf[m])) > 1
                         \/ Issues(KeyOf[m]) # ByKey(KeyOf[m]))

=============================================================================
