------------------------ MODULE RedmineTickets_proofs ------------------------
(***************************************************************************)
(* For any number of tickets, layouts of their keys, Sync All runs,        *)
(* requests, pages and failures: a second issue of a ticket means that a   *)
(* search overlooked the first one, or that a closed one was rewritten for *)
(* another ticket; and links lead to issues of their ticket.               *)
(*                                                                         *)
(* An issue is posted under the lock of the canonical key of its group,    *)
(* and nothing else adds one to the group. So whatever the group has of    *)
(* its own when the issue is posted was there when the search under that   *)
(* lock began (Knows). The pages do not matter: what they hide is what     *)
(* missed records.                                                         *)
(***************************************************************************)
EXTENDS RedmineTickets, FiniteSetTheorems, TLAPS

IssueType == [key : Keys \cup {"other", "none"}, findings : Keys \cup {"other"}, open : BOOLEAN]

\* The issues that belong to the group of a key alone, and those that may once have.
Own(k) == Issues(k) \ taken
Near(k) == Issues(k) \cup taken

Shaped(m) ==
    /\ DOMAIN maker[m] = {"at", "key", "locked", "found", "persists", "search"}
    /\ DOMAIN maker[m].search = {"page", "count", "seen", "keyed", "ended", "complete", "had"}
    /\ DOMAIN maker[m].search.seen = Lists
    /\ maker[m].locked \subseteq Keys /\ maker[m].persists \in BOOLEAN
    /\ \A k \in Keys : k \in maker[m].locked <=> lock[k] = m

\* The maker works for its key or the canonical one, and holds the locks its stage needs.
Placed(m) ==
    IF maker[m].at = "idle" THEN maker[m].locked = {}
    ELSE
        /\ maker[m].key \in {KeyOf[m], Canonical[KeyOf[m]]}
        /\ m \in Requests \/ maker[m].locked # {} => maker[m].key \in maker[m].locked
        /\ maker[m].at \in {"missing", "unverified", "wait"} => m \in Syncs /\ maker[m].locked = {}
        /\ maker[m].persists => m \in Syncs /\ maker[m].locked = {} /\ maker[m].at # "wait"
        /\ maker[m].at = "canonical" => m \in Requests /\ maker[m].key = KeyOf[m]
        /\ maker[m].at = "recheck" =>
            m \in Requests /\ maker[m].key = Canonical[KeyOf[m]]
        /\ maker[m].at = "create" =>
            /\ maker[m].key \in maker[m].locked
            /\ Canonical[maker[m].key] = maker[m].key

\* What it has found belongs to the ticket, or did.
Finds(m) ==
    LET k == maker[m].key
        s == maker[m].search IN
    /\ maker[m].at \in {"update", "save"} => maker[m].found \in Near(k)
    /\ maker[m].at = "search" => s.keyed \subseteq Near(k) /\ \A l \in Lists : s.seen[l] \subseteq Near(k)

\* Under the lock of the canonical key, it knows of every issue the group has of its own.
Knows(m) ==
    LET k == maker[m].key IN
    maker[m].at # "idle" /\ k \in maker[m].locked /\ Canonical[k] = k =>
        /\ maker[m].at = "search" => Own(k) \subseteq maker[m].search.had
        /\ maker[m].at \in {"create", "canonical"} \/ (maker[m].at = "recheck" /\ k = KeyOf[m]) =>
            Own(k) = {} \/ missed

Fine(m) == Shaped(m) /\ Placed(m) /\ Finds(m) /\ Knows(m)

Base ==
    /\ issue \in Seq(IssueType) /\ missed \in BOOLEAN
    /\ DOMAIN cached = Keys /\ DOMAIN stored = Keys /\ DOMAIN lock = Keys /\ DOMAIN maker = Makers
    /\ \A k \in Keys : lock[k] \in Makers \cup {"free"}

IInv ==
    /\ Base
    /\ \A m \in Makers : Fine(m)
    /\ LinksMatch /\ DuplicatesWereMissed

-----------------------------------------------------------------------------
(* Groups of keys. *)

LEMMA KeyFacts ==
    ASSUME NEW k \in Keys
    PROVE  /\ Canonical[k] \in Keys /\ Canonical[Canonical[k]] = Canonical[k]
           /\ k \in Answers(Canonical[k]) /\ Answers(k) \subseteq Answers(Canonical[k])
           /\ \A j \in Answers(Canonical[k]) : j \in Keys /\ Canonical[j] = Canonical[k]
           /\ \A j \in Keys : Canonical[j] = Canonical[k] => j \in Answers(Canonical[k])
  BY TicketsAssumption DEF Answers

\* A match is an issue of the group, and the canonical key matches them all.
LEMMA GroupFacts ==
    ASSUME NEW k \in Keys
    PROVE  /\ Verified(k) \subseteq Matching(k) /\ ByKey(k) \subseteq Matching(k)
           /\ Matching(k) \subseteq Issues(k)
           /\ Canonical[k] = k => Matching(k) = Issues(k)
           /\ \A j \in Keys : Canonical[j] = Canonical[k] => Issues(j) = Issues(k)
           /\ Matching(k) \subseteq DOMAIN issue
  BY KeyFacts DEF Verified, Matching, ByKey, ByFindings, Issues

LEMMA MakerKeys ==
    ASSUME NEW m \in Makers
    PROVE  KeyOf[m] \in Keys /\ (m \in Syncs => Canonical[KeyOf[m]] = KeyOf[m])
           /\ m # "free" /\ (m \in Syncs <=> m \notin Requests)
  BY TicketsAssumption DEF Makers

LEMMA PlacedKey ==
    ASSUME NEW m \in Makers, Placed(m), maker[m].at # "idle"
    PROVE  maker[m].key \in Keys
  BY MakerKeys, KeyFacts DEF Placed

-----------------------------------------------------------------------------
(* What a step leaves alone. *)

LEMMA SameIssues ==
    ASSUME UNCHANGED <<issue, taken>>
    PROVE  \A k \in Keys : Issues(k)' = Issues(k) /\ Own(k)' = Own(k) /\ Near(k)' = Near(k)
  BY DEF Issues, Own, Near, Matching, ByKey, ByFindings

\* An issue may be rewritten for a group; it is taken from the others that have it.
LEMMA IssuesFrame ==
    ASSUME DOMAIN issue' = DOMAIN issue, NEW k \in Keys, NEW i \in Near(k),
           \A h \in DOMAIN issue :
              \/ issue'[h].key = issue[h].key /\ issue'[h].findings = issue[h].findings
              \/ h = i /\ issue'[h].key = k /\ issue'[h].findings = Canonical[k],
           taken \subseteq taken',
           \A j \in Keys : Canonical[j] # Canonical[k] /\ i \in Issues(j) =>
              \/ i \in taken'
              \/ issue'[i].key = issue[i].key /\ issue'[i].findings = issue[i].findings
    PROVE  \A j \in Keys : Own(j)' \subseteq Own(j) /\ Near(j) \subseteq Near(j)'
  <1> SUFFICES ASSUME NEW j \in Keys PROVE Own(j)' \subseteq Own(j) /\ Near(j) \subseteq Near(j)'
    OBVIOUS
  <1>1. ASSUME NEW h \in DOMAIN issue,
               issue'[h].key = issue[h].key /\ issue'[h].findings = issue[h].findings
        PROVE  h \in Issues(j)' <=> h \in Issues(j)
    BY <1>1 DEF Issues, Matching, ByKey, ByFindings
  <1>2. CASE Canonical[j] = Canonical[k]
    <2>1. k \in Answers(Canonical[j])
      BY <1>2, KeyFacts
    <2>2. ASSUME NEW h \in DOMAIN issue, h = i, issue'[h].key = k
          PROVE  h \in Issues(j)' /\ h \in Near(j)
      <3>1. Issues(j) = Issues(k)
        BY <1>2, GroupFacts
      <3> QED BY <2>1, <2>2, <3>1 DEF Issues, Matching, ByKey, Near
    <2>3. \A h \in DOMAIN issue : (h \in Issues(j) => h \in Issues(j)')
                                 /\ (h \in Issues(j)' => h \in Near(j))
      BY <1>1, <2>2 DEF Near
    <2>4. Issues(j) \subseteq DOMAIN issue /\ Issues(j)' \subseteq DOMAIN issue
      BY DEF Issues, Matching, ByKey, ByFindings
    <2> QED BY <2>3, <2>4 DEF Own, Near
  <1>3. CASE Canonical[j] # Canonical[k]
    <2>1. k \notin Answers(Canonical[j]) /\ Canonical[k] # Canonical[Canonical[j]]
      BY <1>3, KeyFacts
    <2>2. ASSUME NEW h \in DOMAIN issue, h = i, issue'[h].key = k, issue'[h].findings = Canonical[k]
          PROVE  h \notin Issues(j)'
      BY <2>1, <2>2 DEF Issues, Matching, ByKey, ByFindings
    <2>3. \A h \in DOMAIN issue : (h \in Issues(j)' => h \in Issues(j))
                                 /\ (h \in Issues(j) => h \in Near(j)')
      BY <1>1, <1>3, <2>2 DEF Near
    <2>4. Issues(j) \subseteq DOMAIN issue /\ Issues(j)' \subseteq DOMAIN issue
      BY DEF Issues, Matching, ByKey, ByFindings
    <2> QED BY <2>3, <2>4 DEF Own, Near
  <1> QED BY <1>2, <1>3

\* No group gets a second issue of its own where it gets none.
LEMMA FewerIssues ==
    ASSUME Base, DuplicatesWereMissed, missed => missed',
           \A k \in Keys : Own(k)' \subseteq Own(k)
    PROVE  DuplicatesWereMissed'
  <1> SUFFICES ASSUME NEW k \in Keys, ~missed
               PROVE  ~(Cardinality(Own(k)') > 1)
    BY DEF DuplicatesWereMissed, Own
  <1>1. IsFiniteSet(DOMAIN issue) /\ Own(k) \in SUBSET DOMAIN issue
    <2>1. Len(issue) \in Nat /\ DOMAIN issue = 1 .. Len(issue)
      BY DEF Base
    <2> QED BY <2>1, FS_Interval DEF Own, Issues, Matching, ByKey, ByFindings
  <1>2. IsFiniteSet(Own(k))
    BY <1>1, FS_Subset
  <1>3. PICK own, less : own = Own(k) /\ less = Own(k)' /\ less \in SUBSET own
    OBVIOUS
  <1>4. Cardinality(less) <= Cardinality(own) /\ IsFiniteSet(less)
    BY <1>2, <1>3, FS_Subset
  <1>5. Cardinality(less) \in Nat /\ Cardinality(own) \in Nat
    BY <1>2, <1>3, <1>4, FS_CardinalityType
  <1>6. ~(Cardinality(own) > 1)
    BY <1>3 DEF DuplicatesWereMissed, Own
  <1> QED BY <1>3, <1>4, <1>5, <1>6

\* A maker that does not move: the others give issues only to groups it has not locked.
LEMMA OthersFine ==
    ASSUME NEW m \in Makers, Fine(m), maker'[m] = maker[m],
           \A k \in Keys : lock'[k] = m <=> lock[k] = m,
           missed => missed',
           \A k \in Keys : Near(k) \subseteq Near(k)',
           \A k \in Keys : lock[k] = m /\ Canonical[k] = k => Own(k)' \subseteq Own(k)
    PROVE  Fine(m)'
  <1>1. Shaped(m)'
    BY DEF Fine, Shaped
  <1>2. Placed(m)'
    BY DEF Fine, Placed
  <1>3. Finds(m)'
    <2>1. CASE maker[m].at = "idle"
      BY <2>1 DEF Finds
    <2>2. CASE maker[m].at # "idle"
      <3>1. PICK k \in Keys : k = maker[m].key
        BY <2>2, PlacedKey DEF Fine
      <3> QED BY <3>1 DEF Fine, Finds
    <2> QED BY <2>1, <2>2
  <1>4. Knows(m)'
    <2> SUFFICES ASSUME maker[m].at # "idle", maker[m].key \in maker[m].locked,
                        Canonical[maker[m].key] = maker[m].key
                 PROVE  Knows(m)'
      BY DEF Knows
    <2>1. PICK k \in Keys : k = maker[m].key
      BY PlacedKey DEF Fine
    <2>2. Own(k)' \subseteq Own(k)
      BY <2>1 DEF Fine, Shaped
    <2> QED BY <2>1, <2>2 DEF Fine, Knows
  <1> QED BY <1>1, <1>2, <1>3, <1>4 DEF Fine

\* A step of one maker that gives no group an issue.
LEMMA QuietStep ==
    ASSUME IInv, NEW m \in Makers, Base', Fine(m)', missed => missed',
           \A k \in Keys : Own(k)' \subseteq Own(k) /\ Near(k) \subseteq Near(k)',
           \A n \in Makers \ {m} : maker'[n] = maker[n]
                                   /\ \A k \in Keys : lock'[k] = n <=> lock[k] = n
    PROVE  (\A n \in Makers : Fine(n))' /\ DuplicatesWereMissed'
  <1>1. \A n \in Makers \ {m} : Fine(n)'
    BY OthersFine DEF IInv
  <1>2. DuplicatesWereMissed'
    BY FewerIssues DEF IInv
  <1> QED BY <1>1, <1>2

LEMMA LocksReleased ==
    ASSUME Base, NEW m \in Makers, lock' = Released(m)
    PROVE  /\ DOMAIN lock' = Keys /\ \A k \in Keys : lock'[k] \in Makers \cup {"free"}
           /\ \A k \in Keys : lock'[k] # m
           /\ \A n \in Makers \ {m}, k \in Keys : lock'[k] = n <=> lock[k] = n
  BY MakerKeys DEF Base, Released

\* A maker that is idle has nothing left.
LEMMA IdleFine ==
    ASSUME NEW m \in Makers, maker'[m] = Idle, \A k \in Keys : lock'[k] # m
    PROVE  Fine(m)'
  BY DEF Fine, Shaped, Placed, Finds, Knows, Idle, NoSearch

LEMMA DoneFine ==
    ASSUME Base, NEW m \in Makers, Done(m)
    PROVE  /\ Fine(m)' /\ DOMAIN maker' = Makers
           /\ DOMAIN lock' = Keys /\ \A k \in Keys : lock'[k] \in Makers \cup {"free"}
           /\ \A n \in Makers \ {m} : maker'[n] = maker[n]
                                      /\ \A k \in Keys : lock'[k] = n <=> lock[k] = n
  <1>1. maker'[m] = Idle /\ DOMAIN maker' = Makers
        /\ \A n \in Makers \ {m} : maker'[n] = maker[n]
    BY DEF Done, Base
  <1>2. \A k \in Keys : lock'[k] # m
    BY LocksReleased DEF Done
  <1>3. Fine(m)'
    BY <1>1, <1>2, IdleFine
  <1> QED BY <1>1, <1>3, LocksReleased DEF Done

-----------------------------------------------------------------------------
(* Steps of a maker that write no issue and no link. *)

Keeps(m) ==
    /\ Base' /\ Fine(m)' /\ UNCHANGED <<Redmine, Store>> /\ (missed => missed')
    /\ \A n \in Makers \ {m} :
        maker'[n] = maker[n] /\ \A k \in Keys : lock'[k] = n <=> lock[k] = n

LEMMA KeepsInvariant ==
    ASSUME IInv, NEW m \in Makers, Keeps(m)
    PROVE  IInv'
  <1>1. \A k \in Keys : Issues(k)' = Issues(k) /\ Own(k)' = Own(k) /\ Near(k)' = Near(k)
    BY SameIssues DEF Keeps, Redmine
  <1>2. (\A n \in Makers : Fine(n))' /\ DuplicatesWereMissed'
    BY <1>1, QuietStep DEF Keeps
  <1>3. LinksMatch'
    BY <1>1 DEF IInv, LinksMatch, Keeps, Store, Redmine
  <1> QED BY <1>2, <1>3 DEF IInv, Keeps

\* The maker gives up.
LEMMA DoneKeeps ==
    ASSUME IInv, NEW m \in Makers, Done(m), UNCHANGED <<Redmine, Store>>,
           missed => missed', missed' \in BOOLEAN
    PROVE  Keeps(m)
  BY DoneFine DEF IInv, Base, Keeps, Store, Redmine

\* It goes on with its locks.
LEMMA GoesKeeps ==
    ASSUME IInv, NEW m \in Makers, DOMAIN maker' = Makers,
           \A n \in Makers \ {m} : maker'[n] = maker[n],
           UNCHANGED <<Redmine, Store, lock>>, missed => missed', missed' \in BOOLEAN, Fine(m)'
    PROVE  Keeps(m)
  BY DEF IInv, Base, Keeps, Store, Redmine

LEMMA StartsKeep == ASSUME IInv, NEW m \in Makers, Starts(m) PROVE Keeps(m)
  <1>1. KeyOf[m] \in Keys /\ m # "free" /\ (m \in Syncs <=> m \notin Requests)
    BY MakerKeys
  <1>2. Fine(m) /\ Base
    BY DEF IInv
  <1>3. maker'[m] = [Idle EXCEPT !.at = "check", !.key = KeyOf[m], !.persists = m \in Syncs,
                                 !.locked = IF m \in Requests THEN {KeyOf[m]} ELSE {}]
        /\ DOMAIN maker' = Makers /\ \A n \in Makers \ {m} : maker'[n] = maker[n]
    BY <1>2 DEF Starts, Base
  <1>4. DOMAIN lock' = Keys /\ \A k \in Keys : lock'[k] \in Makers \cup {"free"}
    BY <1>1, <1>2 DEF Starts, Base
  <1>5. \A n \in Makers \ {m}, k \in Keys : lock'[k] = n <=> lock[k] = n
    BY <1>1, <1>2, MakerKeys DEF Starts, Base
  <1>6. \A k \in Keys : lock'[k] = m <=> m \in Requests /\ k = KeyOf[m]
    BY <1>1, <1>2 DEF Starts, Base, Fine, Shaped, Placed
  <1>7. Fine(m)'
    <2>1. Shaped(m)'
      BY <1>1, <1>3, <1>6 DEF Shaped, Idle, NoSearch
    <2>2. Placed(m)'
      BY <1>1, <1>3 DEF Placed, Idle
    <2>3. Finds(m)' /\ Knows(m)'
      BY <1>3 DEF Finds, Knows, Idle
    <2> QED BY <2>1, <2>2, <2>3 DEF Fine
  <1> QED BY <1>2, <1>3, <1>4, <1>5, <1>7 DEF Starts, Keeps, Base, Store, Redmine

\* A search starts from the matches there are.
LEMMA SearchingFine ==
    ASSUME IInv, NEW m \in Makers, maker[m].at # "idle", Searching(m),
           UNCHANGED <<Redmine, lock, missed>>
    PROVE  /\ Fine(m)' /\ DOMAIN maker' = Makers
           /\ \A n \in Makers \ {m} : maker'[n] = maker[n]
  <1>1. Fine(m) /\ Base /\ maker[m].key \in Keys
    BY PlacedKey DEF IInv, Fine
  <1>2. maker'[m] = [maker[m] EXCEPT !.at = "search",
                                     !.search = [NoSearch EXCEPT !.had = Matching(maker[m].key)]]
        /\ DOMAIN maker' = Makers /\ \A n \in Makers \ {m} : maker'[n] = maker[n]
    BY <1>1 DEF Searching, Base
  <1>3. /\ maker'[m].at = "search" /\ maker'[m].key = maker[m].key
        /\ maker'[m].locked = maker[m].locked /\ DOMAIN maker'[m] = DOMAIN maker[m]
        /\ maker'[m].persists = maker[m].persists
        /\ maker'[m].search = [NoSearch EXCEPT !.had = Matching(maker[m].key)]
    BY <1>1, <1>2 DEF Fine, Shaped
  <1>4. Shaped(m)'
    BY <1>1, <1>3 DEF Fine, Shaped, NoSearch
  <1>5. Placed(m)'
    BY <1>1, <1>3 DEF Fine, Placed
  <1>6. Finds(m)'
    BY <1>3 DEF Finds, NoSearch
  <1>7. Knows(m)'
    <2>1. PICK k \in Keys : k = maker[m].key
      BY <1>1
    <2>2. Own(k)' = Own(k) /\ (Canonical[k] = k => Own(k) \subseteq Matching(k))
      BY SameIssues, GroupFacts DEF Own, Redmine
    <2> QED BY <1>3, <2>1, <2>2 DEF Knows, NoSearch
  <1> QED BY <1>2, <1>4, <1>5, <1>6, <1>7 DEF Fine

\* It goes on to save a link to an issue of its ticket.
LEMMA FoundFine ==
    ASSUME Base, NEW m \in Makers, Fine(m), maker[m].at # "idle", NEW i, NEW at \in {"update", "save"},
           Found(m, at, i), UNCHANGED lock, NEW k \in Keys, k = maker[m].key, i \in Near(k)'
    PROVE  /\ Fine(m)' /\ DOMAIN maker' = Makers
           /\ \A n \in Makers \ {m} : maker'[n] = maker[n]
  <1>1. /\ maker'[m].at = at /\ maker'[m].key = maker[m].key
        /\ maker'[m].locked = maker[m].locked /\ DOMAIN maker'[m] = DOMAIN maker[m]
        /\ maker'[m].search = NoSearch /\ maker'[m].found = i
        /\ maker'[m].persists = maker[m].persists
        /\ DOMAIN maker' = Makers /\ \A n \in Makers \ {m} : maker'[n] = maker[n]
    BY DEF Found, Base, Fine, Shaped
  <1>2. Shaped(m)' /\ Placed(m)'
    BY <1>1 DEF Fine, Shaped, Placed, NoSearch
  <1>3. Finds(m)' /\ Knows(m)'
    BY <1>1 DEF Finds, Knows
  <1> QED BY <1>1, <1>2, <1>3 DEF Fine

\* An issue that matches its key now.
LEMMA FoundKeeps ==
    ASSUME IInv, NEW m \in Makers, maker[m].at # "idle", NEW at \in {"update", "save"},
           NEW i \in Near(maker[m].key), Found(m, at, i),
           UNCHANGED <<Redmine, Store, lock, missed>>
    PROVE  Keeps(m)
  <1>1. Fine(m) /\ Base
    BY DEF IInv
  <1>2. PICK k \in Keys : k = maker[m].key
    BY <1>1, PlacedKey DEF Fine
  <1>3. i \in Near(k)'
    BY <1>2, SameIssues DEF Redmine
  <1>4. Fine(m)' /\ DOMAIN maker' = Makers
        /\ \A n \in Makers \ {m} : maker'[n] = maker[n]
    BY <1>1, <1>2, <1>3, FoundFine
  <1> QED BY <1>1, <1>4, GoesKeeps DEF Base

\* It goes on to another stage with what it knows.
LEMMA GoFine ==
    ASSUME Base, NEW m \in Makers, Fine(m), maker[m].at # "idle",
           NEW at \in {"check", "missing", "unverified", "wait", "canonical", "create"},
           Go(m, at), UNCHANGED lock,
           NEW k \in Keys, k = maker[m].key,
           at \in {"missing", "unverified", "wait"} => m \in Syncs /\ maker[m].locked = {},
           at = "wait" => ~maker[m].persists,
           at = "canonical" => m \in Requests /\ k = KeyOf[m],
           at = "create" => k \in maker[m].locked /\ Canonical[k] = k,
           at \in {"canonical", "create"} /\ k \in maker[m].locked /\ Canonical[k] = k =>
               Own(k)' = {} \/ missed'
    PROVE  /\ Fine(m)' /\ DOMAIN maker' = Makers
           /\ \A n \in Makers \ {m} : maker'[n] = maker[n]
  <1>1. /\ maker'[m].at = at /\ maker'[m].key = maker[m].key
        /\ maker'[m].locked = maker[m].locked /\ DOMAIN maker'[m] = DOMAIN maker[m]
        /\ maker'[m].search = NoSearch /\ maker'[m].persists = maker[m].persists
        /\ DOMAIN maker' = Makers /\ \A n \in Makers \ {m} : maker'[n] = maker[n]
    BY DEF Go, Base, Fine, Shaped
  <1>2. Shaped(m)' /\ Placed(m)'
    BY <1>1 DEF Fine, Shaped, Placed, NoSearch
  <1>3. Finds(m)' /\ Knows(m)'
    BY <1>1 DEF Finds, Knows
  <1> QED BY <1>1, <1>2, <1>3 DEF Fine

LEMMA ChecksKeep == ASSUME IInv, NEW m \in Makers, Checks(m) PROVE Keeps(m)
  <1>1. Fine(m) /\ Base /\ maker[m].at = "check" /\ maker[m].key \in Keys
    BY PlacedKey DEF Checks, IInv, Fine
  <1>2. UNCHANGED <<Redmine, Store, lock, missed>>
    BY DEF Checks
  <1>3. ASSUME NEW i, i \in Verified(maker[m].key) \/ i \in ByKey(maker[m].key), FoundTo(m, i)
        PROVE  Keeps(m)
    <2>1. PICK k \in Keys : k = maker[m].key
      BY <1>1
    <2>2. i \in Near(maker[m].key)
      BY <1>3, <2>1, GroupFacts DEF Near
    <2>3. PICK at \in {"update", "save"} : Found(m, at, i)
      BY <1>3 DEF FoundTo
    <2> QED BY <1>1, <1>2, <2>2, <2>3, FoundKeeps
  <1>4. CASE Searching(m)
    <2>1. Fine(m)' /\ DOMAIN maker' = Makers /\ \A n \in Makers \ {m} : maker'[n] = maker[n]
      BY <1>1, <1>2, <1>4, SearchingFine
    <2> QED BY <1>1, <1>2, <2>1, GoesKeeps DEF Base
  <1> QED BY <1>3, <1>4 DEF Checks

LEMMA ReadsPageKeeps ==
    ASSUME IInv, NEW m \in Makers, NEW l \in Lists, ReadsPage(m, l)
    PROVE  Keeps(m)
  <1>1. Fine(m) /\ Base /\ maker[m].at = "search" /\ maker[m].key \in Keys
    BY PlacedKey DEF ReadsPage, IInv, Fine
  <1>2. UNCHANGED <<Redmine, Store, lock, missed>>
    BY DEF ReadsPage
  <1> DEFINE s == maker[m].search
             t == maker'[m].search
             read == Page(l, s.page[l])
             page == s.page[l] + 1
             count == s.count[l] + Len(read)
             all == count >= Len(Listed(l))
             seen == ToSet(read)
             matching == Matching(maker[m].key)
             keyed == ByKey(maker[m].key)
             ended == IF all \/ Len(read) < PageSize \/ s.page[l] + 1 = MaxPages
                      THEN s.ended \cup {l} ELSE s.ended
             complete == s.complete /\ (Len(read) < PageSize \/ s.page[l] + 1 = MaxPages => all)
  <1>3. maker' = [maker EXCEPT ![m].search =
            [s EXCEPT !.page[l] = page, !.count[l] = count,
                      !.seen[l] = s.seen[l] \cup (seen \cap matching),
                      !.keyed = s.keyed \cup (seen \cap keyed),
                      !.ended = ended, !.complete = complete]]
    BY Zenon DEF ReadsPage
  <1>11. PICK k \in Keys : k = maker[m].key
    BY <1>1
  <1>12. matching \subseteq Near(k) /\ keyed \subseteq Near(k)
    BY <1>11, GroupFacts DEF Near
  <1> HIDE DEF page, count, ended, complete, seen, matching, keyed
  <1>4. /\ maker'[m].at = "search" /\ maker'[m].key = maker[m].key
        /\ maker'[m].locked = maker[m].locked /\ DOMAIN maker'[m] = DOMAIN maker[m]
        /\ maker'[m].persists = maker[m].persists
        /\ DOMAIN maker' = Makers /\ \A n \in Makers \ {m} : maker'[n] = maker[n]
        /\ t = [s EXCEPT !.page[l] = page, !.count[l] = count,
                         !.seen[l] = s.seen[l] \cup (seen \cap matching),
                         !.keyed = s.keyed \cup (seen \cap keyed),
                         !.ended = ended, !.complete = complete]
    BY <1>1, <1>3 DEF Base, Fine, Shaped
  <1>5. /\ DOMAIN t = DOMAIN s /\ t.had = s.had /\ t.keyed = s.keyed \cup (seen \cap keyed)
        /\ t.seen = [s.seen EXCEPT ![l] = s.seen[l] \cup (seen \cap matching)]
    BY <1>1, <1>4 DEF Fine, Shaped
  <1> HIDE DEF s, t
  <1>6. DOMAIN t.seen = Lists
        /\ \A e \in Lists : t.seen[e] \subseteq s.seen[e] \cup matching
    BY <1>1, <1>5 DEF s, Fine, Shaped
  <1>7. Own(k)' = Own(k) /\ Near(k)' = Near(k)
    BY <1>2, SameIssues DEF Redmine
  <1>8. Shaped(m)' /\ Placed(m)'
    BY <1>1, <1>2, <1>4, <1>5, <1>6 DEF Fine, Shaped, Placed, s, t
  <1>9. Finds(m)'
    <2>1. s.keyed \subseteq Near(k) /\ \A e \in Lists : s.seen[e] \subseteq Near(k)
      BY <1>1, <1>11 DEF Fine, Finds, s
    <2>2. t.keyed \subseteq Near(k)' /\ \A e \in Lists : t.seen[e] \subseteq Near(k)'
      BY <1>5, <1>6, <1>7, <1>12, <2>1
    <2> QED BY <1>4, <1>11, <2>2 DEF Finds, t
  <1>10. Knows(m)'
    BY <1>1, <1>4, <1>5, <1>7, <1>11 DEF Fine, Knows, s, t
  <1>13. Fine(m)'
    BY <1>8, <1>9, <1>10 DEF Fine
  <1> QED BY <1>1, <1>2, <1>4, <1>13, GoesKeeps DEF Base

LEMMA SearchFindsKeeps == ASSUME IInv, NEW m \in Makers, SearchFinds(m) PROVE Keeps(m)
  <1>1. Fine(m) /\ Base /\ maker[m].at = "search" /\ maker[m].key \in Keys
    BY PlacedKey DEF SearchFinds, SearchOver, IInv, Fine
  <1>2. PICK i \in Accepted(m) : FoundTo(m, i)
    BY DEF SearchFinds
  <1>3. i \in maker[m].search.keyed \/ \E l \in Lists : i \in maker[m].search.seen[l]
    BY <1>2 DEF Accepted
  <1>4. i \in Near(maker[m].key)
    BY <1>1, <1>3 DEF Fine, Finds
  <1>5. PICK at \in {"update", "save"} : Found(m, at, i)
    BY <1>2 DEF FoundTo
  <1> QED BY <1>1, <1>4, <1>5, FoundKeeps DEF SearchFinds

LEMMA SearchFailsKeeps == ASSUME IInv, NEW m \in Makers, SearchFails(m) PROVE Keeps(m)
  <1>1. Fine(m) /\ Base /\ maker[m].at = "search"
    BY DEF SearchFails, SearchOver, IInv
  <1>2. UNCHANGED <<Redmine, Store>>
    BY DEF SearchFails
  <1>3. PICK k \in Keys : k = maker[m].key
    BY <1>1, PlacedKey DEF Fine
  <1> DEFINE none == UNION {maker[m].search.seen[l] : l \in Lists} = {} /\ maker[m].search.complete
             next == IF maker[m].persists THEN "missing"
                     ELSE IF m \in Requests /\ maker[m].key = KeyOf[m] THEN "canonical"
                     ELSE IF m \in Syncs /\ maker[m].locked = {} THEN "wait" ELSE "create"
  <1>4. /\ missed' = (missed \/ (none /\ maker[m].search.had # {}))
        /\ \/ none /\ Go(m, next) /\ UNCHANGED lock
           \/ maker[m].persists /\ Go(m, "unverified") /\ UNCHANGED lock
           \/ Done(m)
    BY Zenon DEF SearchFails
  <1>5. missed' \in BOOLEAN /\ (missed => missed')
    BY <1>4
  <1>6. CASE none /\ Go(m, next) /\ UNCHANGED lock
    <2>0. maker[m].persists \in BOOLEAN /\ (m \in Syncs <=> m \notin Requests)
      BY <1>1, MakerKeys DEF Fine, Shaped
    <2>1. next \in {"missing", "wait", "canonical", "create"}
      OBVIOUS
    <2>2. next \in {"missing", "unverified", "wait"} => m \in Syncs /\ maker[m].locked = {}
      BY <1>1, <2>0 DEF Fine, Placed
    <2>3. next = "wait" => ~maker[m].persists
      BY <2>0
    <2>4. next = "canonical" => m \in Requests /\ k = KeyOf[m]
      BY <1>3
    <2>5. next = "create" => k \in maker[m].locked /\ Canonical[k] = k
      BY <1>1, <1>3, <2>0, MakerKeys, KeyFacts DEF Fine, Placed
    <2>6. k \in maker[m].locked /\ Canonical[k] = k => Own(k) = {} \/ missed'
      BY <1>1, <1>3, <1>4, <1>6 DEF Fine, Knows
    <2>7. Own(k)' = Own(k)
      BY <1>2, SameIssues DEF Redmine
    <2> HIDE DEF next, none
    <2>8. PICK at \in {"check", "missing", "unverified", "wait", "canonical", "create"} : at = next
      BY <2>1
    <2>9. Fine(m)' /\ DOMAIN maker' = Makers
          /\ \A n \in Makers \ {m} : maker'[n] = maker[n]
      BY <1>1, <1>3, <1>6, <2>2, <2>3, <2>4, <2>5, <2>6, <2>7, <2>8, GoFine
    <2> QED BY <1>2, <1>5, <1>6, <2>9, GoesKeeps
  <1>7. CASE maker[m].persists /\ Go(m, "unverified") /\ UNCHANGED lock
    <2>1. m \in Syncs /\ maker[m].locked = {}
      BY <1>1, <1>7 DEF Fine, Placed
    <2>2. Fine(m)' /\ DOMAIN maker' = Makers
          /\ \A n \in Makers \ {m} : maker'[n] = maker[n]
      BY <1>1, <1>3, <1>7, <2>1, GoFine
    <2> QED BY <1>2, <1>5, <1>7, <2>2, GoesKeeps
  <1>8. CASE Done(m)
    BY <1>2, <1>5, <1>8, DoneKeeps
  <1> QED BY <1>4, <1>6, <1>7, <1>8

LEMMA CanonicalisesKeep == ASSUME IInv, NEW m \in Makers, Canonicalises(m) PROVE Keeps(m)
  <1>1. Fine(m) /\ Base /\ maker[m].at = "canonical" /\ maker[m].key = KeyOf[m]
        /\ m \in Requests /\ KeyOf[m] \in Keys /\ m # "free"
        /\ ~maker[m].persists
    BY MakerKeys DEF Canonicalises, IInv, Fine, Placed
  <1>2. UNCHANGED <<Redmine, Store, missed>>
    BY DEF Canonicalises
  <1>3. PICK k \in Keys : k = Canonical[maker[m].key] /\ k = Canonical[KeyOf[m]] /\ Canonical[k] = k
    BY <1>1, KeyFacts
  <1>4. CASE /\ lock[k] \in {"free", m} /\ lock' = [lock EXCEPT ![k] = m]
             /\ maker' = [maker EXCEPT ![m].at = "recheck", ![m].key = k,
                                       ![m].locked = maker[m].locked \cup {k}]
    <2>1. /\ maker'[m].at = "recheck" /\ maker'[m].key = k
          /\ maker'[m].locked = maker[m].locked \cup {k} /\ DOMAIN maker'[m] = DOMAIN maker[m]
          /\ maker'[m].search = maker[m].search /\ maker'[m].persists = maker[m].persists
          /\ DOMAIN maker' = Makers /\ \A n \in Makers \ {m} : maker'[n] = maker[n]
      BY <1>1, <1>4 DEF Base, Fine, Shaped
    <2>2. /\ DOMAIN lock' = Keys /\ \A j \in Keys : lock'[j] \in Makers \cup {"free"}
          /\ \A n \in Makers \ {m}, j \in Keys : lock'[j] = n <=> lock[j] = n
          /\ \A j \in Keys : lock'[j] = m <=> j = k \/ lock[j] = m
      BY <1>1, <1>4, MakerKeys DEF Base
    <2>3. Shaped(m)' /\ Placed(m)' /\ Finds(m)'
      BY <1>1, <1>3, <2>1, <2>2 DEF Fine, Shaped, Placed, Finds
    <2>4. Own(k)' = Own(k)
      BY <1>2, SameIssues DEF Redmine
    <2>5. k = KeyOf[m] => k \in maker[m].locked /\ maker[m].key = k
      BY <1>1 DEF Fine, Placed
    <2>6. k = KeyOf[m] => Own(k) = {} \/ missed
      BY <1>1, <1>3, <2>5 DEF Fine, Knows
    <2>7. k = KeyOf[m] => Own(k)' = {} \/ missed'
      BY <1>2, <2>4, <2>6
    <2>8. Knows(m)'
      BY <2>1, <2>7 DEF Knows
    <2> QED BY <1>1, <1>2, <2>1, <2>2, <2>3, <2>8 DEF Keeps, Fine, Base, Store, Redmine
  <1>5. CASE Done(m)
    BY <1>1, <1>2, <1>5, DoneKeeps DEF Base
  <1> QED BY <1>3, <1>4, <1>5 DEF Canonicalises

LEMMA RechecksKeep == ASSUME IInv, NEW m \in Makers, Rechecks(m) PROVE Keeps(m)
  <1>1. Fine(m) /\ Base /\ maker[m].at = "recheck" /\ maker[m].key \in Keys
        /\ m \in Requests /\ maker[m].key = Canonical[KeyOf[m]] /\ KeyOf[m] \in Keys
    BY PlacedKey, MakerKeys DEF Rechecks, IInv, Fine, Placed
  <1>2. UNCHANGED <<Redmine, Store, missed>>
    BY DEF Rechecks
  <1>4. PICK k \in Keys : k = maker[m].key /\ Canonical[k] = k
    BY <1>1, KeyFacts
  <1>3. Own(k)' = Own(k)
    BY <1>2, SameIssues DEF Redmine
  <1>5. CASE k = KeyOf[m] /\ Go(m, "create") /\ UNCHANGED lock
    <2>1. k \in maker[m].locked /\ (Own(k) = {} \/ missed)
      BY <1>1, <1>4, <1>5 DEF Fine, Placed, Knows
    <2>2. Own(k)' = {} \/ missed'
      BY <1>2, <1>3, <2>1
    <2>3. Fine(m)' /\ DOMAIN maker' = Makers
          /\ \A n \in Makers \ {m} : maker'[n] = maker[n]
      BY <1>1, <1>4, <1>5, <2>1, <2>2, GoFine
    <2> QED BY <1>1, <1>2, <1>5, <2>3, GoesKeeps DEF Base
  <1>6. CASE Searching(m) /\ UNCHANGED lock
    <2>1. Fine(m)' /\ DOMAIN maker' = Makers /\ \A n \in Makers \ {m} : maker'[n] = maker[n]
      BY <1>1, <1>2, <1>6, SearchingFine
    <2> QED BY <1>1, <1>2, <1>6, <2>1, GoesKeeps DEF Base
  <1>7. ASSUME NEW i \in Verified(k), FoundTo(m, i), UNCHANGED lock
        PROVE  Keeps(m)
    <2>1. i \in Near(maker[m].key)
      BY <1>4, <1>7, GroupFacts DEF Near
    <2>2. PICK at \in {"update", "save"} : Found(m, at, i)
      BY <1>7 DEF FoundTo
    <2> QED BY <1>1, <1>2, <1>7, <2>1, <2>2, FoundKeeps
  <1>8. CASE Done(m)
    BY <1>1, <1>2, <1>8, DoneKeeps DEF Base
  <1> QED BY <1>4, <1>5, <1>6, <1>7, <1>8 DEF Rechecks

LEMMA LearnsKeeps == ASSUME IInv, NEW m \in Makers, Learns(m) PROVE Keeps(m)
  <1>1. Fine(m) /\ Base /\ maker[m].at = "create" /\ UNCHANGED <<Redmine, Store, missed>>
    BY DEF Learns, IInv
  <1>2. PICK k \in Keys : k = maker[m].key
    BY <1>1, PlacedKey DEF Fine
  <1>3. ASSUME NEW i \in Verified(k), Found(m, "update", i),
               UNCHANGED lock
        PROVE  Keeps(m)
    <2>1. i \in Near(maker[m].key)
      BY <1>2, <1>3, GroupFacts DEF Near
    <2> QED BY <1>1, <1>3, <2>1, FoundKeeps
  <1>4. CASE Done(m)
    BY <1>1, <1>4, DoneKeeps DEF Base
  <1> QED BY <1>2, <1>3, <1>4 DEF Learns

-----------------------------------------------------------------------------
(* The steps that write links. *)

\* Issues stay, and links lead to issues of their ticket or nowhere.
LEMMA StoreStep ==
    ASSUME IInv, NEW m \in Makers, Base', Fine(m)', UNCHANGED <<Redmine, missed>>,
           \A k \in Keys : \A h \in {cached'[k].issue, stored'[k].issue} :
               h \in {0, cached[k].issue, stored[k].issue},
           \A n \in Makers \ {m} : maker'[n] = maker[n]
                                   /\ \A k \in Keys : lock'[k] = n <=> lock[k] = n
    PROVE  IInv'
  <1>1. \A k \in Keys : Issues(k)' = Issues(k) /\ Own(k)' = Own(k) /\ Near(k)' = Near(k)
    BY SameIssues DEF Redmine
  <1>2. (\A n \in Makers : Fine(n))' /\ DuplicatesWereMissed'
    BY <1>1, QuietStep
  <1>3. LinksMatch'
    <2> SUFFICES ASSUME NEW k \in Keys, NEW h \in {cached'[k].issue, stored'[k].issue}, h # 0
                 PROVE  h \in Issues(k)' \cup taken'
      BY DEF LinksMatch
    <2>1. h \in {cached[k].issue, stored[k].issue}
      OBVIOUS
    <2>2. h \in Issues(k) \cup taken
      BY <2>1 DEF IInv, LinksMatch
    <2> QED BY <1>1, <2>2 DEF Redmine
  <1> QED BY <1>2, <1>3 DEF IInv

LEMMA ReloadsFacts ==
    ASSUME Base, NEW k \in Keys, Reloads(k)
    PROVE  /\ DOMAIN cached' = Keys /\ DOMAIN stored' = Keys
           /\ \A j \in Keys : \A h \in {cached'[j].issue, stored'[j].issue} :
                  h \in {0, cached[j].issue, stored[j].issue}
  <1>1. DOMAIN stored' = Keys /\ \A j \in Keys : stored'[j] \in {cached[j], stored[j]}
    BY DEF Reloads
  <1>2. DOMAIN cached' = Keys /\ \A j \in Keys : cached'[j] \in {cached[j], stored'[j]}
    BY DEF Reloads, Base
  <1> QED BY <1>1, <1>2

LEMMA SyncWaitsKeeps == ASSUME IInv, NEW m \in Makers, SyncWaits(m) PROVE IInv'
  <1>1. Fine(m) /\ Base /\ maker[m].at = "wait" /\ maker[m].locked = {}
        /\ UNCHANGED <<Redmine, lock, missed>>
    BY DEF SyncWaits, IInv, Fine, Placed
  <1>2. PICK k \in Keys : k = maker[m].key
    BY <1>1, PlacedKey DEF Fine
  <1>3. /\ DOMAIN cached' = Keys /\ DOMAIN stored' = Keys
        /\ \A j \in Keys : \A h \in {cached'[j].issue, stored'[j].issue} :
               h \in {0, cached[j].issue, stored[j].issue}
    BY <1>1, <1>2, ReloadsFacts DEF SyncWaits
  <1>4. Fine(m)' /\ DOMAIN maker' = Makers /\ \A n \in Makers \ {m} : maker'[n] = maker[n]
    <2>1. CASE Go(m, "check")
      BY <1>1, <1>2, <2>1, GoFine
    <2>2. CASE maker' = [maker EXCEPT ![m] = Idle]
      <3>1. maker'[m] = Idle /\ DOMAIN maker' = Makers
            /\ \A n \in Makers \ {m} : maker'[n] = maker[n]
        BY <1>1, <2>2 DEF Base
      <3>2. \A j \in Keys : lock'[j] # m
        BY <1>1 DEF Fine, Shaped
      <3> QED BY <3>1, <3>2, IdleFine
    <2> QED BY <2>1, <2>2 DEF SyncWaits
  <1>5. Base'
    BY <1>1, <1>3, <1>4 DEF Base, Redmine
  <1> QED BY <1>1, <1>3, <1>4, <1>5, StoreStep

LEMMA SyncLocksKeeps == ASSUME IInv, NEW m \in Makers, SyncLocks(m) PROVE IInv'
  <1>1. Fine(m) /\ Base /\ maker[m].at = "wait" /\ maker[m].locked = {} /\ m # "free"
        /\ m \in Syncs /\ ~maker[m].persists /\ UNCHANGED <<Redmine, missed>>
    BY MakerKeys DEF SyncLocks, IInv, Fine, Placed
  <1>2. PICK k \in Keys : k = maker[m].key
    BY <1>1, PlacedKey DEF Fine
  <1>3. /\ DOMAIN cached' = Keys /\ DOMAIN stored' = Keys
        /\ \A j \in Keys : \A h \in {cached'[j].issue, stored'[j].issue} :
               h \in {0, cached[j].issue, stored[j].issue}
    BY <1>1, <1>2, ReloadsFacts DEF SyncLocks
  <1>4. /\ Fine(m)' /\ DOMAIN maker' = Makers /\ \A n \in Makers \ {m} : maker'[n] = maker[n]
        /\ DOMAIN lock' = Keys /\ \A j \in Keys : lock'[j] \in Makers \cup {"free"}
        /\ \A n \in Makers \ {m}, j \in Keys : lock'[j] = n <=> lock[j] = n
    <2>1. CASE maker' = [maker EXCEPT ![m] = Idle] /\ UNCHANGED lock
      <3>1. maker'[m] = Idle /\ DOMAIN maker' = Makers
            /\ \A n \in Makers \ {m} : maker'[n] = maker[n]
        BY <1>1, <2>1 DEF Base
      <3>2. \A j \in Keys : lock'[j] # m
        BY <1>1, <2>1 DEF Fine, Shaped
      <3> QED BY <1>1, <2>1, <3>1, <3>2, IdleFine DEF Base
    <2>2. CASE /\ lock' = [lock EXCEPT ![k] = m] /\ lock[k] = "free"
               /\ maker' = [maker EXCEPT ![m].at = "check", ![m].locked = {k}]
      <3>1. /\ maker'[m].at = "check" /\ maker'[m].key = k
            /\ maker'[m].locked = {k} /\ DOMAIN maker'[m] = DOMAIN maker[m]
            /\ maker'[m].search = maker[m].search /\ maker'[m].persists = maker[m].persists
            /\ DOMAIN maker' = Makers /\ \A n \in Makers \ {m} : maker'[n] = maker[n]
        BY <1>1, <1>2, <2>2 DEF Base, Fine, Shaped
      <3>2. /\ DOMAIN lock' = Keys /\ \A j \in Keys : lock'[j] \in Makers \cup {"free"}
            /\ \A n \in Makers \ {m}, j \in Keys : lock'[j] = n <=> lock[j] = n
            /\ \A j \in Keys : lock'[j] = m <=> j = k
        BY <1>1, <2>2, MakerKeys DEF Base, Fine, Shaped
      <3>3. Fine(m)'
        BY <1>1, <1>2, <3>1, <3>2 DEF Fine, Shaped, Placed, Finds, Knows
      <3> QED BY <3>1, <3>2, <3>3
    <2> QED BY <1>2, <2>1, <2>2 DEF SyncLocks, UnderLock
  <1>5. Base'
    BY <1>1, <1>3, <1>4 DEF Base, Redmine
  <1> QED BY <1>1, <1>3, <1>4, <1>5, StoreStep

\* A record that is written has the new link, an old one or none.
LEMMA WritesFacts ==
    ASSUME Base, NEW k \in Keys, NEW i, Writes(k, i)
    PROVE  /\ DOMAIN cached' = Keys /\ DOMAIN stored' = Keys
           /\ \A j \in Keys : \A h \in {cached'[j].issue, stored'[j].issue} :
                  h \in {0, cached[j].issue, stored[j].issue} \/ (j = k /\ h = i)
  <1> DEFINE links == Linked(cached, k, i)
  <1>1. DOMAIN links = Keys /\ links[k].issue = i
    BY DEF Linked
  <1>2. \A j \in Keys : j # k => links[j] \in {NoLink, cached[j]}
    BY DEF Linked
  <1>3. PICK ok \in BOOLEAN :
            stored' = IF ok THEN [j \in Keys |-> IF j \in dirty \/ links[j] # cached[j]
                                                 THEN links[j] ELSE stored[j]] ELSE stored
    BY DEF Writes
  <1>4. cached' = links
    BY DEF Writes
  <1> HIDE DEF links
  <1>5. DOMAIN stored' = Keys /\ \A j \in Keys : stored'[j] \in {links[j], stored[j]}
    BY <1>3 DEF Base
  <1>6. \A j \in Keys : links[j].issue \in {0, cached[j].issue} \/ (j = k /\ links[j].issue = i)
    BY <1>1, <1>2 DEF NoLink
  <1> QED BY <1>1, <1>4, <1>5, <1>6

LEMMA ForgetsKeeps == ASSUME IInv, NEW m \in Makers, Forgets(m) PROVE IInv'
  <1>1. Fine(m) /\ Base /\ maker[m].at \in {"missing", "unverified"} /\ maker[m].locked = {}
        /\ m \in Syncs /\ UNCHANGED <<Redmine, missed>>
    BY DEF Forgets, IInv, Fine, Placed
  <1>2. PICK k \in Keys : k = maker[m].key
    BY <1>1, PlacedKey DEF Fine
  <1>3. /\ DOMAIN cached' = Keys /\ DOMAIN stored' = Keys
        /\ \A j \in Keys : \A h \in {cached'[j].issue, stored'[j].issue} :
               h \in {0, cached[j].issue, stored[j].issue}
    BY <1>1, <1>2, WritesFacts DEF Forgets
  <1>4. /\ Fine(m)' /\ DOMAIN maker' = Makers
        /\ DOMAIN lock' = Keys /\ \A j \in Keys : lock'[j] \in Makers \cup {"free"}
        /\ \A n \in Makers \ {m} : maker'[n] = maker[n]
                                   /\ \A j \in Keys : lock'[j] = n <=> lock[j] = n
    <2>1. CASE Done(m)
      BY <1>1, <2>1, DoneFine
    <2>2. CASE maker' = [maker EXCEPT ![m].at = "wait", ![m].persists = FALSE] /\ UNCHANGED lock
      <3>1. /\ maker'[m].at = "wait" /\ maker'[m].key = maker[m].key
            /\ maker'[m].locked = maker[m].locked /\ DOMAIN maker'[m] = DOMAIN maker[m]
            /\ maker'[m].search = maker[m].search /\ maker'[m].persists = FALSE
            /\ DOMAIN maker' = Makers /\ \A n \in Makers \ {m} : maker'[n] = maker[n]
        BY <1>1, <2>2 DEF Base, Fine, Shaped
      <3>2. Shaped(m)' /\ Placed(m)' /\ Finds(m)' /\ Knows(m)'
        BY <1>1, <2>2, <3>1 DEF Fine, Shaped, Placed, Finds, Knows
      <3> QED BY <1>1, <2>2, <3>1, <3>2 DEF Fine, Base
    <2> QED BY <2>1, <2>2 DEF Forgets
  <1>5. Base'
    BY <1>1, <1>3, <1>4 DEF Base, Redmine
  <1> QED BY <1>1, <1>3, <1>4, <1>5, StoreStep

\* A link is saved; a closed issue is rewritten for its ticket before.
LEMMA SavesKeeps == ASSUME IInv, NEW m \in Makers, Saves(m) PROVE IInv'
  <1>1. Fine(m) /\ Base /\ maker[m].at \in {"update", "save"} /\ Done(m) /\ UNCHANGED missed
    BY DEF Saves, IInv
  <1>2. PICK k \in Keys : k = maker[m].key
    BY <1>1, PlacedKey DEF Fine
  <1>3. PICK i \in Near(k) : i = maker[m].found
    BY <1>1, <1>2 DEF Fine, Finds
  <1>4. /\ DOMAIN cached' = Keys /\ DOMAIN stored' = Keys
        /\ \A j \in Keys : \A h \in {cached'[j].issue, stored'[j].issue} :
               h \in {0, cached[j].issue, stored[j].issue} \/ (j = k /\ h = i)
    BY <1>1, <1>2, <1>3, WritesFacts DEF Saves
  <1> DEFINE rewritten ==
                /\ issue' = [issue EXCEPT ![i] = [@ EXCEPT !.key = k, !.findings = Canonical[k]]]
                /\ taken' = taken \cup {h \in {i} : \E j \in Keys : Canonical[j] # Canonical[k]
                                                                     /\ h \in Issues(j)}
  <1>5. rewritten \/ UNCHANGED Redmine
    BY <1>2, <1>3 DEF Saves
  <1>6. /\ issue' \in Seq(IssueType)
        /\ \A j \in Keys : Own(j)' \subseteq Own(j) /\ Near(j) \subseteq Near(j)'
    <2>1. CASE UNCHANGED Redmine
      BY <1>1, <2>1, SameIssues DEF Redmine, Base
    <2>2. CASE rewritten
      <3>1. /\ issue' \in Seq(IssueType) /\ DOMAIN issue' = DOMAIN issue
            /\ \A h \in DOMAIN issue :
                  \/ issue'[h].key = issue[h].key /\ issue'[h].findings = issue[h].findings
                  \/ h = i /\ issue'[h].key = k /\ issue'[h].findings = Canonical[k]
        <4>1. CASE i \in DOMAIN issue
          <5>1. PICK one : one = issue[i] /\ one \in IssueType
            BY <1>1, <4>1 DEF Base
          <5>2. PICK new : new = [one EXCEPT !.key = k, !.findings = Canonical[k]]
            OBVIOUS
          <5>3. new \in IssueType /\ new.key = k /\ new.findings = Canonical[k]
            BY <5>1, <5>2, KeyFacts DEF IssueType
          <5>4. issue' = [issue EXCEPT ![i] = new]
            BY <2>2, <5>1, <5>2
          <5> QED BY <1>1, <4>1, <5>3, <5>4 DEF Base
        <4>2. CASE i \notin DOMAIN issue
          <5>1. issue' = issue
            BY <1>1, <2>2, <4>2 DEF Base
          <5> QED BY <1>1, <5>1 DEF Base
        <4> QED BY <4>1, <4>2
      <3>2. taken \subseteq taken'
            /\ \A j \in Keys : Canonical[j] # Canonical[k] /\ i \in Issues(j) => i \in taken'
        BY <2>2
      <3> QED BY <3>1, <3>2, IssuesFrame
    <2> QED BY <1>5, <2>1, <2>2
  <1>7. Fine(m)' /\ DOMAIN maker' = Makers
        /\ DOMAIN lock' = Keys /\ (\A j \in Keys : lock'[j] \in Makers \cup {"free"})
        /\ \A n \in Makers \ {m} :
              maker'[n] = maker[n] /\ \A j \in Keys : lock'[j] = n <=> lock[j] = n
    BY <1>1, DoneFine
  <1>8. Base'
    BY <1>1, <1>4, <1>6, <1>7 DEF Base
  <1>9. (\A n \in Makers : Fine(n))' /\ DuplicatesWereMissed'
    BY <1>1, <1>6, <1>7, <1>8, QuietStep
  <1>10. LinksMatch'
    <2> SUFFICES ASSUME NEW j \in Keys, NEW h \in {cached'[j].issue, stored'[j].issue}, h # 0
                 PROVE  h \in Near(j)'
      BY DEF LinksMatch, Near
    <2>1. h \in {cached[j].issue, stored[j].issue} \/ (j = k /\ h = i)
      BY <1>4
    <2>2. h \in Near(j)
      BY <1>3, <2>1 DEF IInv, LinksMatch, Near
    <2> QED BY <1>6, <2>2
  <1> QED BY <1>8, <1>9, <1>10 DEF IInv

-----------------------------------------------------------------------------
(* The other steps. *)

\* A new issue of a ticket whose key is canonical and locked.
LEMMA CreatesKeeps == ASSUME IInv, NEW m \in Makers, Creates(m) PROVE IInv'
  <1>1. Fine(m) /\ Base /\ maker[m].at = "create" /\ UNCHANGED <<Store, taken, missed>>
    BY DEF Creates, IInv
  <1>2. PICK k \in Keys : k = maker[m].key
    BY <1>1, PlacedKey DEF Fine
  <1>3. Canonical[k] = k /\ k \in maker[m].locked /\ lock[k] = m /\ (Own(k) = {} \/ missed)
    BY <1>1, <1>2 DEF Fine, Placed, Shaped, Knows
  <1>5. CASE Done(m) /\ UNCHANGED Redmine
    BY <1>1, <1>5, DoneKeeps, KeepsInvariant DEF Base
  <1> DEFINE id == Len(issue) + 1
  <1>6. ASSUME issue' = Append(issue, [key |-> k, findings |-> Canonical[k], open |-> TRUE]),
               \/ Found(m, "save", id) /\ UNCHANGED lock
               \/ Done(m)
        PROVE  IInv'
    <2>1. /\ issue' \in Seq(IssueType) /\ DOMAIN issue' = DOMAIN issue \cup {id}
          /\ id \notin DOMAIN issue /\ issue'[id].key = k /\ issue'[id].findings = k
          /\ \A h \in DOMAIN issue : issue'[h] = issue[h]
      BY <1>1, <1>3, <1>6 DEF Base, IssueType
    <2> HIDE DEF id
    <2>2. \A j \in Keys : Canonical[j] # k => Issues(j)' = Issues(j)
      <3> SUFFICES ASSUME NEW j \in Keys, Canonical[j] # k PROVE Issues(j)' = Issues(j)
        OBVIOUS
      <3>1. k \notin Answers(Canonical[j]) /\ k # Canonical[Canonical[j]]
        BY <1>3, KeyFacts
      <3> QED BY <2>1, <3>1 DEF Issues, Matching, ByKey, ByFindings
    <2>3. \A j \in Keys : Canonical[j] = k => Issues(j)' = Issues(j) \cup {id}
      <3> SUFFICES ASSUME NEW j \in Keys, Canonical[j] = k PROVE Issues(j)' = Issues(j) \cup {id}
        OBVIOUS
      <3>1. k \in Answers(Canonical[j])
        BY <1>3, KeyFacts
      <3> QED BY <2>1, <3>1 DEF Issues, Matching, ByKey, ByFindings
    <2>9. \A j \in Keys : Near(j) \subseteq Near(j)' /\ (Canonical[j] # k => Own(j)' = Own(j))
      BY <1>1, <2>2, <2>3 DEF Near, Own
    <2>4. Fine(m)' /\ DOMAIN maker' = Makers
          /\ DOMAIN lock' = Keys /\ (\A j \in Keys : lock'[j] \in Makers \cup {"free"})
          /\ \A n \in Makers \ {m} :
                maker'[n] = maker[n] /\ \A j \in Keys : lock'[j] = n <=> lock[j] = n
      <3>1. CASE Done(m)
        BY <1>1, <3>1, DoneFine
      <3>2. CASE Found(m, "save", id) /\ UNCHANGED lock
        <4>1. PICK i : i = id
          OBVIOUS
        <4>2. i \in Near(k)' /\ Found(m, "save", i)
          BY <1>3, <2>3, <3>2, <4>1 DEF Near
        <4>3. Fine(m)' /\ DOMAIN maker' = Makers
              /\ \A n \in Makers \ {m} : maker'[n] = maker[n]
          BY <1>1, <1>2, <3>2, <4>2, FoundFine
        <4> QED BY <1>1, <3>2, <4>3 DEF Base
      <3> QED BY <1>6, <3>1, <3>2
    <2>5. \A n \in Makers \ {m} : Fine(n)'
      <3> SUFFICES ASSUME NEW n \in Makers \ {m} PROVE Fine(n)'
        OBVIOUS
      <3>2. \A j \in Keys : lock[j] = n /\ Canonical[j] = j => Own(j)' = Own(j)
        BY <1>3, <2>9
      <3> QED BY <1>1, <2>4, <2>9, <3>2, OthersFine DEF IInv
    <2>6. Base'
      BY <1>1, <2>1, <2>4 DEF Base, Store
    <2>7. LinksMatch'
      BY <1>1, <2>9 DEF IInv, LinksMatch, Near, Store
    <2>8. DuplicatesWereMissed'
      <3> SUFFICES ASSUME NEW j \in Keys, ~missed
                   PROVE  ~(Cardinality(Own(j)') > 1)
        BY <1>1 DEF DuplicatesWereMissed, Own
      <3>1. CASE Canonical[j] # k
        <4>1. PICK own : own = Own(j) /\ own = Own(j)'
          BY <2>9, <3>1
        <4>2. ~(Cardinality(own) > 1)
          BY <4>1 DEF IInv, DuplicatesWereMissed, Own
        <4> QED BY <4>1, <4>2
      <3>2. CASE Canonical[j] = k
        <4>1. Issues(j) = Issues(k)
          BY <1>3, <3>2, GroupFacts
        <4>2. Own(j)' \subseteq {id}
          BY <1>1, <1>3, <2>3, <3>2, <4>1 DEF Own
        <4>3. PICK own, one : own = Own(j)' /\ one = {id} /\ own \in SUBSET one
          BY <4>2
        <4>4. IsFiniteSet(one) /\ Cardinality(one) = 1
          BY <4>3, FS_Singleton
        <4>5. IsFiniteSet(own) /\ Cardinality(own) <= Cardinality(one)
          BY <4>3, <4>4, FS_Subset
        <4>6. Cardinality(own) \in Nat
          BY <4>5, FS_CardinalityType
        <4> QED BY <4>3, <4>4, <4>5, <4>6
      <3> QED BY <3>1, <3>2
    <2> QED BY <2>4, <2>5, <2>6, <2>7, <2>8 DEF IInv
  <1> QED BY <1>1, <1>2, <1>5, <1>6 DEF Creates, Redmine

\* Other people do not change keys and findings.
LEMMA UpdatesKeep ==
    ASSUME IInv, NEW i \in DOMAIN issue, EngineerUpdates(i)
    PROVE  IInv'
  <1>1. PICK open \in BOOLEAN : issue' = [issue EXCEPT ![i].open = open]
    BY DEF EngineerUpdates
  <1>2. UNCHANGED <<Store, lock, maker, missed, taken>>
    BY DEF EngineerUpdates, Store
  <1>8. issue \in Seq(IssueType) /\ issue[i] \in IssueType
    BY DEF IInv, Base
  <1>3. issue' \in Seq(IssueType) /\ DOMAIN issue' = DOMAIN issue
        /\ \A h \in DOMAIN issue : issue'[h].key = issue[h].key /\ issue'[h].findings = issue[h].findings
    BY <1>1, <1>8 DEF IssueType
  <1>4. \A j \in Keys : Issues(j)' = Issues(j)
    BY <1>3 DEF Issues, Matching, ByKey, ByFindings
  <1>9. \A j \in Keys : Own(j)' = Own(j) /\ Near(j)' = Near(j)
    BY <1>2, <1>4 DEF Own, Near
  <1>5. \A n \in Makers : Fine(n)'
    BY <1>2, <1>9, OthersFine DEF IInv
  <1>6. Base'
    BY <1>2, <1>3 DEF IInv, Base, Store
  <1>7. LinksMatch' /\ DuplicatesWereMissed'
    BY <1>2, <1>4 DEF IInv, LinksMatch, DuplicatesWereMissed, Store
  <1> QED BY <1>5, <1>6, <1>7 DEF IInv

LEMMA CrashKeeps == ASSUME IInv, Crash PROVE IInv'
  <1>1. /\ maker' = [m \in Makers |-> Idle] /\ lock' = [k \in Keys |-> "free"]
        /\ cached' = stored /\ UNCHANGED <<issue, taken, stored, missed>>
    BY DEF Crash, Redmine
  <1>2. \A j \in Keys : Issues(j)' = Issues(j)
    BY <1>1, SameIssues
  <1>3. \A m \in Makers : Fine(m)'
    BY <1>1, MakerKeys, IdleFine
  <1>4. LinksMatch' /\ DuplicatesWereMissed'
    BY <1>1, <1>2 DEF IInv, LinksMatch, DuplicatesWereMissed
  <1>5. Base'
    BY <1>1 DEF IInv, Base
  <1> QED BY <1>3, <1>4, <1>5 DEF IInv

-----------------------------------------------------------------------------

LEMMA InitInvariant == Init => IInv
  <1> SUFFICES ASSUME Init PROVE IInv
    OBVIOUS
  <1>1. PICK says \in [1 .. Foreign -> Given], open \in BOOLEAN :
            /\ \A i, j \in 1 .. Foreign : {says[i].key, says[i].findings} \cap Keys # {}
                                         /\ {says[j].key, says[j].findings} \cap Keys # {} => i = j
            /\ issue = [i \in 1 .. Foreign |-> [key |-> says[i].key, findings |-> says[i].findings,
                                                open |-> open]]
    BY Zenon DEF Init
  <1>2. Foreign \in Nat
    BY TicketsAssumption
  <1>3. issue \in Seq(IssueType) /\ DOMAIN issue = 1 .. Foreign
    BY <1>1, <1>2, GivenAssumption DEF IssueType, Descriptions
  <1>4. DOMAIN stored = Keys /\ cached = stored /\ taken = {} /\ missed = FALSE
        /\ lock = [k \in Keys |-> "free"] /\ maker = [m \in Makers |-> Idle]
        /\ \A k \in Keys : stored[k].issue # 0 => stored[k].issue \in Issues(k)
    <2>1. PICK linked \in BOOLEAN :
            stored = [k \in Keys |->
                IF linked /\ \E i \in DOMAIN issue : issue[i].key = k
                THEN [issue |-> CHOOSE i \in DOMAIN issue : issue[i].key = k, closed |-> FALSE]
                ELSE NoLink]
      BY Zenon DEF Init
    <2>2. ASSUME NEW k \in Keys, stored[k].issue # 0 PROVE stored[k].issue \in Issues(k)
      <3>1. (\E i \in DOMAIN issue : issue[i].key = k)
            /\ stored[k].issue = CHOOSE i \in DOMAIN issue : issue[i].key = k
        BY <2>1, <2>2 DEF NoLink
      <3>2. stored[k].issue \in DOMAIN issue /\ issue[stored[k].issue].key = k
        BY <3>1, Zenon
      <3>3. k \in Answers(Canonical[k])
        BY KeyFacts
      <3> QED BY <3>2, <3>3 DEF Issues, Matching, ByKey
    <2> QED BY <2>1, <2>2 DEF Init
  <1>5. Base
    BY <1>3, <1>4 DEF Base
  <1>6. \A m \in Makers : Fine(m)
    BY <1>4, MakerKeys DEF Fine, Shaped, Placed, Finds, Knows, Idle, NoSearch
  <1>7. LinksMatch
    BY <1>4 DEF LinksMatch
  <1>8. DuplicatesWereMissed
    <2> SUFFICES ASSUME NEW k \in Keys PROVE ~(Cardinality(Own(k)) > 1)
      BY DEF DuplicatesWereMissed, Own
    <2>1. ASSUME NEW i \in Own(k) PROVE i \in 1 .. Foreign /\ {says[i].key, says[i].findings} \cap Keys # {}
      <3>1. i \in DOMAIN issue /\ (issue[i].key \in Keys \/ issue[i].findings \in Keys)
        BY <2>1, KeyFacts DEF Own, Issues, Matching, ByKey, ByFindings
      <3>2. i \in 1 .. Foreign /\ (says[i].key \in Keys \/ says[i].findings \in Keys)
        BY <1>1, <1>3, <3>1
      <3> QED BY <3>2
    <2>2. \A i, j \in Own(k) : i = j
      BY <1>1, <2>1
    <2>3. PICK own : own = Own(k)
      OBVIOUS
    <2>4. own = {} \/ \E i : own = {i}
      BY <2>2, <2>3
    <2>5. Cardinality(own) \in {0, 1}
      BY <2>4, FS_EmptySet, FS_Singleton
    <2> QED BY <2>3, <2>5
  <1> QED BY <1>5, <1>6, <1>7, <1>8 DEF IInv

LEMMA InvariantStep == IInv /\ [Next]_vars => IInv'
  <1> SUFFICES ASSUME IInv, [Next]_vars PROVE IInv'
    OBVIOUS
  <1>1. ASSUME NEW i \in DOMAIN issue, EngineerUpdates(i) PROVE IInv'
    BY <1>1, UpdatesKeep
  <1>2. ASSUME NEW m \in Makers, Starts(m) PROVE IInv'
    BY <1>2, StartsKeep, KeepsInvariant
  <1>3. ASSUME NEW m \in Makers, Progress(m) PROVE IInv'
    <2>1. CASE Checks(m)
      BY <2>1, ChecksKeep, KeepsInvariant
    <2>2. ASSUME NEW l \in Lists, ReadsPage(m, l) PROVE IInv'
      BY <2>2, ReadsPageKeeps, KeepsInvariant
    <2>3. CASE SearchFinds(m)
      BY <2>3, SearchFindsKeeps, KeepsInvariant
    <2>4. CASE SearchFails(m)
      BY <2>4, SearchFailsKeeps, KeepsInvariant
    <2>5. CASE Forgets(m)
      BY <2>5, ForgetsKeeps
    <2>6. CASE SyncLocks(m)
      BY <2>6, SyncLocksKeeps
    <2>7. CASE SyncWaits(m)
      BY <2>7, SyncWaitsKeeps
    <2>8. CASE Canonicalises(m)
      BY <2>8, CanonicalisesKeep, KeepsInvariant
    <2>9. CASE Rechecks(m)
      BY <2>9, RechecksKeep, KeepsInvariant
    <2>10. CASE Learns(m)
      BY <2>10, LearnsKeeps, KeepsInvariant
    <2>11. CASE Creates(m)
      BY <2>11, CreatesKeeps
    <2>12. CASE Saves(m)
      BY <2>12, SavesKeeps
    <2> QED BY <1>3, <2>1, <2>2, <2>3, <2>4, <2>5, <2>6, <2>7, <2>8, <2>9, <2>10, <2>11, <2>12
            DEF Progress
  <1>4. ASSUME NEW m \in Makers, Fails(m) PROVE IInv'
    BY <1>4, DoneKeeps, KeepsInvariant DEF Fails, IInv, Base
  <1>5. CASE Crash
    BY <1>5, CrashKeeps
  <1>6. CASE UNCHANGED vars
    <2>1. \A j \in Keys : Issues(j)' = Issues(j) /\ Own(j)' = Own(j) /\ Near(j)' = Near(j)
      BY <1>6, SameIssues DEF vars
    <2>2. \A n \in Makers : Fine(n)'
      BY <1>6, <2>1, OthersFine DEF IInv, vars
    <2> QED BY <1>6, <2>1, <2>2
            DEF IInv, Base, LinksMatch, DuplicatesWereMissed, vars
  <1> QED BY <1>1, <1>2, <1>3, <1>4, <1>5, <1>6 DEF Next

\* The inductive invariant of makers, locks and links.
THEOREM TicketsInvariant == Spec => []IInv
  BY InitInvariant, InvariantStep, PTL DEF Spec

\* A second issue of a ticket means that a search overlooked the first one
\* (createRedmineTicketWithLock, POST /redmine/issues), however many runs and requests
\* there are, under whichever keys, and whatever fails; issues that were rewritten for
\* another ticket do not count.
THEOREM SecondIssuesWereMissed == Spec => []DuplicatesWereMissed
  <1>1. IInv => DuplicatesWereMissed
    BY DEF IInv
  <1> QED BY <1>1, TicketsInvariant, PTL

\* Links lead to issues of their ticket, matched by a key or by their findings, or to one
\* that has been rewritten for another ticket since (findIssueMatchInList,
\* syncKnownRedmineIssue, writeStoredRedmineSyncRecord).
THEOREM LinksLeadRight == Spec => []LinksMatch
  <1>1. IInv => LinksMatch
    BY DEF IInv
  <1> QED BY <1>1, TicketsInvariant, PTL

=============================================================================
