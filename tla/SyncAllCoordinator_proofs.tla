---------------------- MODULE SyncAllCoordinator_proofs ----------------------
(***************************************************************************)
(* The registry stays exclusive for any number of requests, processes and  *)
(* scopes, any stale limit, and any interleaving, failure or crash of the  *)
(* registry sections.                                                      *)
(*                                                                         *)
(* RegistryExclusive alone is not inductive: Save copies the view of the   *)
(* section into the registry, so the view must be exclusive as well, and   *)
(* the view of a registration is exclusive because it was checked against  *)
(* the entries it was loaded with (ViewExclusive).  That a section belongs *)
(* to a request or process of the right kind (Owned) gives the types.      *)
(***************************************************************************)
EXTENDS SyncAllCoordinator, TLAPS

-----------------------------------------------------------------------------
(* The scopes and the entries of runs, for any products and engagements and any *)
(* stale limit.                                                                 *)

\* syncAllScopesOverlap does not depend on the order of its arguments.
LEMMA OverlapSymmetric ==
    ASSUME NEW l, NEW r
    PROVE  Overlap(l, r) <=> Overlap(r, l)
  BY DEF Overlap

\* The scope of a selection that is not global keeps the selection.
LEMMA ScopeKeepsSelection ==
    ASSUME NEW f \in Filters, f.products # {}
    PROVE  /\ CoordinatorScope(f).products = f.products
           /\ CoordinatorScope(f).engagements = f.engagements
  BY DEF CoordinatorScope, DeriveScope, EffectiveProducts

\* A selection without products is global and overlaps every other.
LEMMA GlobalOverlaps ==
    ASSUME NEW f \in Filters, NEW g \in Filters, f.products = {} \/ g.products = {}
    PROVE  Overlap(CoordinatorScope(f), CoordinatorScope(g))
  <1>1. CoordinatorScope(f).type = "global" \/ CoordinatorScope(g).type = "global"
    BY DEF CoordinatorScope, DeriveScope, EffectiveProducts
  <1> QED BY <1>1 DEF Overlap

\* Selections that keep tickets of a common engagement have overlapping scopes.
LEMMA CommonTicketsOverlap ==
    ASSUME NEW f \in Filters, NEW g \in Filters,
           Tickets(f) \cap Tickets(g) # {}
    PROVE  Overlap(CoordinatorScope(f), CoordinatorScope(g))
  <1>1. CASE f.products = {} \/ g.products = {}
    BY <1>1, GlobalOverlaps
  <1>2. CASE f.products # {} /\ g.products # {}
    <2>1. PICK e \in Engagements : e \in Tickets(f) /\ e \in Tickets(g)
      BY DEF Tickets
    <2>2. ProductOf[e] \in f.products /\ ProductOf[e] \in g.products
      BY <1>2, <2>1 DEF Tickets
    <2>3. CASE f.engagements # {} /\ g.engagements # {}
      <3>1. e \in f.engagements /\ e \in g.engagements
        BY <2>1, <2>3 DEF Tickets
      <3> QED BY <1>2, <3>1, ScopeKeepsSelection DEF Overlap
    <2>4. CASE f.engagements = {} \/ g.engagements = {}
      BY <1>2, <2>2, <2>4, ScopeKeepsSelection DEF Overlap, ProductOnly
    <2> QED BY <2>3, <2>4
  <1> QED BY <1>1, <1>2

\* Selections that pull the findings of a common engagement have overlapping
\* scopes, unless one of them names it outside its products.
LEMMA CommonPullsOverlap ==
    ASSUME NEW f \in Filters, NEW g \in Filters, NEW e \in Pulls(f) \cap Pulls(g),
           e \notin Strays(f), e \notin Strays(g)
    PROVE  Overlap(CoordinatorScope(f), CoordinatorScope(g))
  <1>1. CASE f.products = {} \/ g.products = {}
    BY <1>1, GlobalOverlaps
  <1>2. CASE f.products # {} /\ g.products # {}
    <2>1. ASSUME NEW h \in Filters, h.products # {}, e \in Pulls(h), e \notin Strays(h)
          PROVE  ProductOf[e] \in h.products /\ (h.engagements # {} => e \in h.engagements)
      BY <2>1 DEF Pulls, Strays
    <2>2. /\ ProductOf[e] \in f.products /\ (f.engagements # {} => e \in f.engagements)
          /\ ProductOf[e] \in g.products /\ (g.engagements # {} => e \in g.engagements)
      BY <1>2, <2>1
    <2>3. CASE f.engagements # {} /\ g.engagements # {}
      BY <1>2, <2>2, <2>3, ScopeKeepsSelection DEF Overlap
    <2>4. CASE f.engagements = {} \/ g.engagements = {}
      BY <1>2, <2>2, <2>4, ScopeKeepsSelection DEF Overlap, ProductOnly
    <2> QED BY <2>3, <2>4
  <1> QED BY <1>1, <1>2

\* Scopes that compete for an advisory lock overlap.
LEMMA CommonLockOverlaps ==
    ASSUME NEW f \in Filters, NEW g \in Filters,
           ScopeLocks(CoordinatorScope(f)) \cap ScopeLocks(CoordinatorScope(g)) # {}
    PROVE  Overlap(CoordinatorScope(f), CoordinatorScope(g))
  <1> DEFINE l == CoordinatorScope(f)
             r == CoordinatorScope(g)
  <1>1. CASE l.type = "global" \/ r.type = "global"
    BY <1>1 DEF Overlap
  <1>2. CASE l.type # "global" /\ r.type # "global"
    <2>1. /\ l.products # {} /\ r.products # {}
          /\ l.type = IF l.engagements # {} THEN "engagement" ELSE "product"
          /\ r.type = IF r.engagements # {} THEN "engagement" ELSE "product"
      BY <1>2 DEF CoordinatorScope, DeriveScope
    <2>2. PICK k : k \in ScopeLocks(l) /\ k \in ScopeLocks(r)
      OBVIOUS
    <2>3. ASSUME NEW s, s.type = "engagement"
          PROVE  ScopeLocks(s) = {<<"engagement", e>> : e \in s.engagements}
      BY <2>3 DEF ScopeLocks
    <2>4. ASSUME NEW s, s.type = "product"
          PROVE  ScopeLocks(s) = {<<"product", p>> : p \in s.products}
      BY <2>4 DEF ScopeLocks
    <2>5. CASE l.type = "engagement" /\ r.type = "engagement"
      <3>1. l.engagements \cap r.engagements # {}
        BY <2>2, <2>3, <2>5
      <3> QED BY <3>1 DEF Overlap
    <2>6. CASE l.type = "product" /\ r.type = "product"
      <3>1. l.products \cap r.products # {}
        BY <2>2, <2>4, <2>6
      <3>2. ProductOnly(l)
        BY <2>1, <2>6 DEF ProductOnly
      <3> QED BY <3>1, <3>2 DEF Overlap
    <2>7. CASE l.type # r.type
      BY <2>1, <2>2, <2>3, <2>4, <2>7
    <2> QED BY <2>1, <2>5, <2>6, <2>7
  <1> QED BY <1>1, <1>2

-----------------------------------------------------------------------------
\* Runs that the coordinator judges independent never keep a common ticket, never want the same
\* lock and are judged the same in both orders, whatever the selections name; and they pull the
\* findings of a common engagement only when one of them names it outside its own products.
THEOREM SelectionsJudgedRight == \A f, g \in Filters : JudgedRight(f, g)
  BY CommonTicketsOverlap, CommonPullsOverlap, CommonLockOverlaps, OverlapSymmetric
  DEF JudgedRight

-----------------------------------------------------------------------------
(* Facts about entries. *)

LEMMA OlderType == ASSUME NEW age \in Ages PROVE Older(age) \in Ages
  BY StaleAgeAssumption DEF Ages, Older

LEMMA ZeroAge == 0 \in Ages
  BY StaleAgeAssumption DEF Ages

LEMMA AgedType ==
    ASSUME NEW S \in SUBSET Entries
    PROVE  Aged(S) \in SUBSET Entries
  <1> SUFFICES ASSUME NEW n \in S
               PROVE  [n EXCEPT !.age = Older(@)] \in Entries
    BY DEF Aged
  <1>1. n.req \in Requests /\ n.age \in Ages /\ n = [req |-> n.req, age |-> n.age]
    BY DEF Entries
  <1>2. Older(n.age) \in Ages
    BY <1>1, OlderType
  <1> QED BY <1>1, <1>2 DEF Entries

LEMMA RefreshedType ==
    ASSUME NEW S \in SUBSET Entries, NEW q \in Requests, NEW age \in Ages
    PROVE  Refreshed(S, q, age) \in SUBSET Entries
  BY DEF Refreshed, Entries

\* Conflicts do not depend on who came first.
LEMMA ConflictSymmetric ==
    ASSUME NEW q, NEW r
    PROVE  Conflict(q, r) <=> Conflict(r, q)
  BY DEF Conflict, Overlap

LEMMA ExclusiveSubset ==
    ASSUME NEW S, Exclusive(S), NEW T \in SUBSET S
    PROVE  Exclusive(T)
  BY DEF Exclusive

\* Restamping entries keeps them exclusive: only the requests matter.
LEMMA ExclusiveAged ==
    ASSUME NEW S \in SUBSET Entries, Exclusive(S)
    PROVE  Exclusive(Aged(S))
  <1> SUFFICES ASSUME NEW n \in S, NEW m \in S,
                      [n EXCEPT !.age = Older(@)] # [m EXCEPT !.age = Older(@)]
               PROVE  n.req # m.req /\ ~Conflict(n.req, m.req)
    BY DEF Aged, Exclusive, Entries
  <1>1. n # m
    OBVIOUS
  <1> QED BY <1>1 DEF Exclusive

LEMMA ExclusiveRefreshed ==
    ASSUME NEW S \in SUBSET Entries, Exclusive(S), NEW q, NEW age
    PROVE  Exclusive(Refreshed(S, q, age))
  <1> DEFINE New(n) == IF RunIdOf[n.req] = RunIdOf[q]
                       THEN [n EXCEPT !.age = age] ELSE n
  <1>1. \A n \in S : New(n).req = n.req
    BY DEF Entries
  <1>2. ASSUME NEW n \in S, NEW m \in S, New(n) # New(m)
        PROVE  New(n).req # New(m).req /\ ~Conflict(New(n).req, New(m).req)
    <2>1. n # m
      BY <1>2
    <2> QED BY <1>1, <2>1 DEF Exclusive
  <1>3. Refreshed(S, q, age) = {New(n) : n \in S}
    BY DEF Refreshed
  <1> HIDE DEF New
  <1> QED BY <1>2, <1>3 DEF Exclusive

\* A registration that found no conflict may be added to what it loaded.
LEMMA ExclusiveEnrolled ==
    ASSUME NEW S \in SUBSET Entries, Exclusive(S), NEW q \in Requests,
           NEW age \in Ages, \A n \in S : ~Conflict(q, n.req)
    PROVE  Exclusive(S \cup {[req |-> q, age |-> age]})
  <1> DEFINE own == [req |-> q, age |-> age]
  <1>1. \A n \in S : n.req # q /\ ~Conflict(n.req, q)
    BY ConflictSymmetric DEF Conflict
  <1>2. own.req = q
    OBVIOUS
  <1> HIDE DEF own
  <1> QED BY <1>1, <1>2 DEF Exclusive

LEMMA FreshSubset == ASSUME NEW S PROVE Fresh(S) \in SUBSET S
  BY DEF Fresh

LEMMA EmptyExclusive == Exclusive({})
  BY DEF Exclusive

-----------------------------------------------------------------------------
\* Who may be inside the section.
Owned ==
    /\ section.op = "none" => section = Outside
    /\ section.op \in {"register", "heartbeat", "finish"}
            => section.who \in Requests
    /\ section.op = "cleanup" => section.who \in Processes
    /\ section.stage = "claiming" => section.op = "register"

ViewExclusive == Exclusive(section.view)

IInv == TypeOK /\ Owned /\ ViewExclusive /\ RegistryExclusive

-----------------------------------------------------------------------------
(* The inductive step, one step of the proof per action. *)

LEMMA InitIInv == Init => IInv
  <1> SUFFICES ASSUME Init PROVE IInv
    OBVIOUS
  <1>1. TypeOK
    BY ZeroAge, BoundAssumption
    DEF Init, TypeOK, Outside, Sections, Actors
  <1>2. Owned
    BY DEF Init, Owned, Outside
  <1>3. ViewExclusive /\ RegistryExclusive
    BY EmptyExclusive DEF Init, ViewExclusive, RegistryExclusive, Outside
  <1> QED BY <1>1, <1>2, <1>3 DEF IInv

\* What entering, leaving and moving on inside the section do to it.
LEMMA EnterSection ==
    ASSUME IInv, NEW op \in {"register", "heartbeat", "finish", "cleanup"},
           NEW who \in Actors, Enter(op, who), registry' = registry,
           op = "cleanup" <=> who \in Processes
    PROVE  section' \in Sections /\ Owned' /\ ViewExclusive' /\ RegistryExclusive'
  <1>1. section' \in Sections
    BY DEF Enter, Sections
  <1>2. Owned'
    BY DEF Enter, Owned, Outside, Actors
  <1> QED BY <1>1, <1>2, EmptyExclusive
          DEF IInv, Enter, ViewExclusive, RegistryExclusive

LEMMA ExitSection ==
    ASSUME IInv, Exit, registry' = registry
    PROVE  section' \in Sections /\ Owned' /\ ViewExclusive' /\ RegistryExclusive'
  BY EmptyExclusive
  DEF IInv, Exit, Outside, Sections, Owned, ViewExclusive, RegistryExclusive

LEMMA ProceedSection ==
    ASSUME IInv, section.op # "none",
           NEW stage \in {"claiming", "saving", "saved", "leaving"},
           NEW view \in SUBSET Entries, Exclusive(view),
           stage = "claiming" => section.op = "register",
           Proceed(stage, view), registry' = registry
    PROVE  section' \in Sections /\ Owned' /\ ViewExclusive' /\ RegistryExclusive'
  <1>1. /\ section'.op = section.op /\ section'.who = section.who
        /\ section'.stage = stage /\ section'.view = view
    BY DEF IInv, TypeOK, Sections, Proceed
  <1>2. section' \in Sections
    BY DEF IInv, TypeOK, Sections, Proceed
  <1>3. Owned'
    BY <1>1 DEF IInv, Owned
  <1> QED BY <1>1, <1>2, <1>3 DEF IInv, ViewExclusive, RegistryExclusive

\* The components of TypeOK other than the registry and the section.
PlainTypes ==
    /\ phase \in [Requests -> {"idle", "requested", "running", "finishing",
                               "releasing", "over"}]
    /\ startAge \in [Requests -> Ages]
    /\ held \in [Requests -> SUBSET LockKeys]
    /\ tries \in [Actors -> 0 .. MaxTries - 1]
    /\ beats \in [Requests -> 0 .. MaxBeats]
    /\ process \in [Processes -> {"up", "down", "booting"}]

Sectional ==
    section' \in Sections /\ Owned' /\ ViewExclusive' /\ RegistryExclusive'

LEMMA Assemble ==
    ASSUME IInv, PlainTypes', Sectional, registry' \in SUBSET Entries
    PROVE  IInv'
  BY DEF IInv, PlainTypes, TypeOK, Sectional

\* A step that touches neither the registry nor the section.
LEMMA Aside ==
    ASSUME IInv, PlainTypes', UNCHANGED <<registry, section>>
    PROVE  IInv'
  BY DEF IInv, PlainTypes, TypeOK, Owned, ViewExclusive, RegistryExclusive

LEMMA RegisterStep ==
    ASSUME IInv, NEW q \in Requests, Register(q)
    PROVE  IInv'
  <1> USE DEF IInv, TypeOK, PlainTypes
  <1>1. CASE RegisterEnter(q)
    <2>1. Sectional
      BY <1>1, EnterSection, ProcessAssumption
      DEF RegisterEnter, Sectional, Actors
    <2> QED BY <1>1, <2>1, Assemble DEF RegisterEnter
  <1>2. CASE RegisterBusy(q)
    BY <1>2, Aside DEF RegisterBusy
  <1>3. CASE RegisterLoad(q)
    <2> DEFINE loaded == Fresh(registry)
               own == [req |-> q, age |-> startAge[q]]
    <2>1. loaded \in SUBSET Entries /\ Exclusive(loaded)
      BY FreshSubset, ExclusiveSubset DEF RegistryExclusive
    <2>2. section.op = "register" /\ registry' = registry
      BY <1>3 DEF RegisterLoad, In
    <2>3. Sectional
      <3>1. CASE \E n \in loaded : Conflict(q, n.req)
        BY <1>3, <2>2, <3>1, ProceedSection, EmptyExclusive
        DEF RegisterLoad, Sectional
      <3>2. CASE ~\E n \in loaded : Conflict(q, n.req)
        <4>1. Exclusive(loaded \cup {own})
          BY <2>1, <3>2, ExclusiveEnrolled
        <4>2. loaded \cup {own} \in SUBSET Entries
          BY <2>1 DEF Entries
        <4>3. Proceed("claiming", loaded \cup {own})
          BY <1>3, <3>2 DEF RegisterLoad
        <4> HIDE DEF loaded, own
        <4> QED BY <2>2, <4>1, <4>2, <4>3, ProceedSection DEF Sectional
      <3> QED BY <3>1, <3>2
    <2> QED BY <1>3, <2>3, Assemble DEF RegisterLoad
  <1>4. ASSUME NEW key \in LockKeys, Claim(q, key)
        PROVE  IInv'
    <2>1. CASE LockedBy(key) = {}
      <3>1. UNCHANGED section
        BY <1>4, <2>1 DEF Claim
      <3>2. PlainTypes'
        BY <1>4, <2>1 DEF Claim
      <3> QED BY <1>4, <3>1, <3>2, Aside DEF Claim
    <2>2. CASE LockedBy(key) # {}
      <3>1. Sectional
        BY <1>4, <2>2, ProceedSection, EmptyExclusive DEF Claim, Sectional, In
      <3> QED BY <1>4, <2>2, <3>1, Assemble DEF Claim
    <2> QED BY <2>1, <2>2
  <1>5. CASE Claimed(q)
    <2>1. section.view \in SUBSET Entries
      BY DEF Sections
    <2>2. Sectional
      BY <1>5, <2>1, ProceedSection DEF Claimed, Sectional, In, ViewExclusive
    <2> QED BY <1>5, <2>2, Assemble DEF Claimed
  <1>6. CASE RegisterExit(q)
    <2>1. Sectional
      BY <1>6, ExitSection DEF RegisterExit, Sectional
    <2> QED BY <1>6, <2>1, Assemble DEF RegisterExit
  <1> QED BY <1>1, <1>2, <1>3, <1>4, <1>5, <1>6 DEF Register

LEMMA HeartbeatStep ==
    ASSUME IInv, NEW q \in Requests, Heartbeat(q) \/ SendHeartbeat(q)
    PROVE  IInv'
  <1> USE BoundAssumption DEF IInv, TypeOK, PlainTypes
  <1>1. CASE SendHeartbeat(q)
    <2>1. beats'[q] \in 0 .. MaxBeats
      BY <1>1 DEF SendHeartbeat
    <2> QED BY <1>1, <2>1, Aside DEF SendHeartbeat
  <1>2. CASE HeartbeatEnter(q)
    <2>1. Sectional
      BY <1>2, EnterSection, ProcessAssumption
      DEF HeartbeatEnter, Sectional, Actors
    <2> QED BY <1>2, <2>1, Assemble DEF HeartbeatEnter
  <1>3. CASE HeartbeatLost(q)
    BY <1>3, Aside DEF HeartbeatLost
  <1>4. CASE HeartbeatLoad(q)
    <2> DEFINE loaded == Fresh(registry)
    <2>1. loaded \in SUBSET Entries /\ Exclusive(loaded)
      BY FreshSubset, ExclusiveSubset DEF RegistryExclusive
    <2>2. section.op = "heartbeat" /\ registry' = registry
      BY <1>4 DEF HeartbeatLoad, In
    <2>3. /\ Refreshed(loaded, q, 0) \in SUBSET Entries
          /\ Exclusive(Refreshed(loaded, q, 0))
      BY <2>1, ZeroAge, RefreshedType, ExclusiveRefreshed
    <2>4. Proceed("saving", Refreshed(loaded, q, 0)) \/ Proceed("leaving", {})
      BY <1>4 DEF HeartbeatLoad
    <2> HIDE DEF loaded
    <2>5. Sectional
      BY <2>2, <2>3, <2>4, ProceedSection, EmptyExclusive DEF Sectional
    <2> QED BY <1>4, <2>5, Assemble DEF HeartbeatLoad
  <1>5. CASE HeartbeatExit(q)
    <2>1. Sectional
      BY <1>5, ExitSection DEF HeartbeatExit, Sectional
    <2> QED BY <1>5, <2>1, Assemble DEF HeartbeatExit
  <1> QED BY <1>1, <1>2, <1>3, <1>4, <1>5 DEF Heartbeat

LEMMA ReleaseStep ==
    ASSUME IInv, NEW q \in Requests, Release(q)
    PROVE  IInv'
  <1> USE BoundAssumption DEF IInv, TypeOK, PlainTypes
  <1>0. q \in Actors
    BY DEF Actors
  <1>1. CASE FinishEnter(q)
    <2>1. Sectional
      BY <1>1, EnterSection, ProcessAssumption DEF FinishEnter, Sectional, Actors
    <2> QED BY <1>0, <1>1, <2>1, Assemble DEF FinishEnter
  <1>2. CASE FinishBusy(q)
    <2>1. CASE tries[q] + 1 < MaxTries
      <3>1. tries[q] + 1 \in 0 .. MaxTries - 1
        BY <1>0, <2>1
      <3> QED BY <1>0, <1>2, <2>1, <3>1, Aside DEF FinishBusy
    <2>2. CASE ~(tries[q] + 1 < MaxTries)
      BY <1>0, <1>2, <2>2, Aside DEF FinishBusy
    <2> QED BY <2>1, <2>2
  <1>3. CASE FinishLoad(q)
    <2> DEFINE loaded == Fresh(registry)
    <2>1. WithoutRun(loaded, q) \in SUBSET registry
      BY DEF WithoutRun, Fresh
    <2>2. /\ WithoutRun(loaded, q) \in SUBSET Entries
          /\ Exclusive(WithoutRun(loaded, q))
      BY <2>1, ExclusiveSubset DEF RegistryExclusive
    <2>3. section.op = "finish" /\ registry' = registry
      BY <1>3 DEF FinishLoad, In
    <2>4. Proceed("saving", WithoutRun(loaded, q)) \/ Proceed("leaving", {})
      BY <1>3 DEF FinishLoad
    <2> HIDE DEF loaded
    <2>5. Sectional
      BY <2>2, <2>3, <2>4, ProceedSection, EmptyExclusive DEF Sectional
    <2> QED BY <1>3, <2>5, Assemble DEF FinishLoad
  <1>4. CASE FinishExit(q)
    <2>1. Sectional
      BY <1>4, ExitSection DEF FinishExit, Sectional
    <2> QED BY <1>4, <2>1, Assemble DEF FinishExit
  <1>5. ASSUME NEW key \in LockKeys, ReleaseLock(q, key)
        PROVE  IInv'
    BY <1>5, Aside DEF ReleaseLock
  <1>6. CASE Released(q)
    BY <1>6, Aside DEF Released
  <1> QED BY <1>1, <1>2, <1>3, <1>4, <1>5, <1>6 DEF Release

LEMMA CleanupStep ==
    ASSUME IInv, NEW p \in Processes, Cleanup(p)
    PROVE  IInv'
  <1> USE BoundAssumption DEF IInv, TypeOK, PlainTypes
  <1>0. p \in Actors
    BY DEF Actors
  <1>1. CASE CleanupEnter(p)
    <2>1. Sectional
      BY <1>0, <1>1, EnterSection DEF CleanupEnter, Sectional
    <2> QED BY <1>0, <1>1, <2>1, Assemble DEF CleanupEnter
  <1>2. CASE CleanupBusy(p)
    <2>1. CASE tries[p] + 1 < MaxTries
      <3>1. tries[p] + 1 \in 0 .. MaxTries - 1
        BY <1>0, <2>1
      <3> QED BY <1>0, <1>2, <2>1, <3>1, Aside DEF CleanupBusy
    <2>2. CASE ~(tries[p] + 1 < MaxTries)
      BY <1>0, <1>2, <2>2, Aside DEF CleanupBusy
    <2> QED BY <2>1, <2>2
  <1>3. CASE CleanupLoad(p)
    <2>1. Fresh(registry) \in SUBSET Entries /\ Exclusive(Fresh(registry))
      BY FreshSubset, ExclusiveSubset DEF RegistryExclusive
    <2>2. section.op = "cleanup" /\ registry' = registry
      BY <1>3 DEF CleanupLoad, In
    <2>3. Proceed("saving", Fresh(registry)) \/ Proceed("leaving", {})
      BY <1>3 DEF CleanupLoad
    <2>4. Sectional
      BY <2>1, <2>2, <2>3, ProceedSection, EmptyExclusive DEF Sectional
    <2> QED BY <1>3, <2>4, Assemble DEF CleanupLoad
  <1>4. CASE CleanupExit(p)
    <2>1. Sectional
      BY <1>4, ExitSection DEF CleanupExit, Sectional
    <2> QED BY <1>4, <2>1, Assemble DEF CleanupExit
  <1> QED BY <1>1, <1>2, <1>3, <1>4 DEF Cleanup

LEMMA SaveStep ==
    ASSUME IInv, Save
    PROVE  IInv'
  <1> USE DEF IInv, TypeOK, PlainTypes
  <1>1. registry' = section.view /\ section.view \in SUBSET Entries
    BY DEF Save, Sections
  <1>2. section' = [section EXCEPT !.stage = "saved", !.view = {}]
    BY DEF Save, Proceed
  <1>3. section.op # "none"
    BY DEF Save, Owned, Outside
  <1>4. section' \in Sections
    BY <1>2 DEF Sections
  <1>5. /\ section'.op = section.op /\ section'.who = section.who
        /\ section'.stage = "saved" /\ section'.view = {}
    BY <1>2 DEF Sections
  <1>6. Owned'
    BY <1>3, <1>5 DEF Owned
  <1>7. ViewExclusive' /\ RegistryExclusive'
    BY <1>1, <1>5, EmptyExclusive DEF ViewExclusive, RegistryExclusive
  <1> QED BY <1>1, <1>4, <1>6, <1>7, Assemble DEF Save, Sectional

LEMMA FailureStep ==
    ASSUME IInv, NEW applied \in BOOLEAN, SectionFails(applied)
    PROVE  IInv'
  <1> USE DEF IInv, TypeOK, PlainTypes
  <1>1. registry' \in SUBSET Entries /\ Exclusive(registry')
    BY DEF SectionFails, Sections, ViewExclusive, RegistryExclusive
  <1>2. section' = Outside
    BY DEF SectionFails, Exit
  <1>3. Sectional
    BY <1>1, <1>2, EmptyExclusive
    DEF Sectional, Sections, Outside, Owned, ViewExclusive, RegistryExclusive
  <1>4. PlainTypes'
    BY DEF SectionFails, Owned
  <1> QED BY <1>1, <1>3, <1>4, Assemble

LEMMA CrashStep ==
    ASSUME IInv, NEW p \in Processes, Crash(p)
    PROVE  IInv'
  <1> USE BoundAssumption DEF IInv, TypeOK, PlainTypes
  <1>1. section' = Outside \/ section' = section
    BY DEF Crash
  <1>2. Sectional
    <2>1. CASE section' = Outside
      BY <2>1, EmptyExclusive
      DEF Crash, Sectional, Sections, Outside, Owned, ViewExclusive,
          RegistryExclusive
    <2>2. CASE section' = section
      BY <2>2 DEF Crash, Sectional, Owned, ViewExclusive, RegistryExclusive
    <2> QED BY <1>1, <2>1, <2>2
  <1>3. phase' \in [Requests -> {"idle", "requested", "running", "finishing",
                                 "releasing", "over"}]
    BY DEF Crash
  <1>4. held' \in [Requests -> SUBSET LockKeys]
    BY DEF Crash
  <1>5. beats' \in [Requests -> 0 .. MaxBeats]
    BY DEF Crash
  <1>6. tries' \in [Actors -> 0 .. MaxTries - 1]
    BY DEF Crash
  <1> QED BY <1>2, <1>3, <1>4, <1>5, <1>6, Assemble DEF Crash

LEMMA TickStep ==
    ASSUME IInv, Tick
    PROVE  IInv'
  <1> USE DEF IInv, TypeOK, PlainTypes
  <1>1. registry' \in SUBSET Entries /\ Exclusive(registry')
    BY AgedType, ExclusiveAged DEF Tick, RegistryExclusive
  <1>2. section.view \in SUBSET Entries
    BY DEF Sections
  <1>3. Aged(section.view) \in SUBSET Entries /\ Exclusive(Aged(section.view))
    BY <1>2, AgedType, ExclusiveAged DEF ViewExclusive
  <1>4. section' = [section EXCEPT !.view = Aged(section.view)]
    BY DEF Tick
  <1>5. section' \in Sections /\ section'.view = Aged(section.view)
        /\ section'.op = section.op /\ section'.who = section.who
        /\ section'.stage = section.stage
    BY <1>3, <1>4 DEF Sections
  <1>6. Owned'
    <2>1. Outside.view = {} /\ Aged({}) = {}
      BY DEF Outside, Aged
    <2>2. section = Outside => section' = Outside
      BY <1>4, <2>1 DEF Outside
    <2> QED BY <1>5, <2>2 DEF Owned
  <1>7. startAge' \in [Requests -> Ages]
    <2>1. \A q \in Requests : Older(startAge[q]) \in Ages
      BY OlderType
    <2> QED BY <2>1 DEF Tick
  <1> QED BY <1>1, <1>3, <1>5, <1>6, <1>7, Assemble
          DEF Tick, Sectional, ViewExclusive, RegistryExclusive

LEMMA NextIInv == IInv /\ [Next]_vars => IInv'
  <1> SUFFICES ASSUME IInv, [Next]_vars PROVE IInv'
    OBVIOUS
  <1>1. ASSUME NEW q \in Requests, Request(q) \/ WorkEnds(q) \/ ConnectionFails(q)
        PROVE  IInv'
    BY <1>1, Aside, ZeroAge
    DEF Request, WorkEnds, ConnectionFails, IInv, TypeOK, PlainTypes
  <1>2. ASSUME NEW p \in Processes, Restart(p)
        PROVE  IInv'
    BY <1>2, Aside DEF Restart, IInv, TypeOK, PlainTypes
  <1>3. CASE UNCHANGED vars
    BY <1>3, Aside DEF vars, IInv, TypeOK, PlainTypes
  <1> QED
    BY <1>1, <1>2, <1>3, RegisterStep, HeartbeatStep, ReleaseStep, CleanupStep,
       SaveStep, FailureStep, CrashStep, TickStep
    DEF Next

\* IInv holds in every state of every behaviour of the coordinator.
THEOREM CoordinatorInvariant == Spec => []IInv
  BY InitIInv, NextIInv, PTL DEF Spec

\* Every variable keeps its type; in particular a waiting finish or cleanup
\* never counts past its last attempt.
THEOREM CoordinatorTypes == Spec => []TypeOK
  <1>1. IInv => TypeOK
    BY DEF IInv
  <1> QED BY <1>1, CoordinatorInvariant, PTL

\* The saved registry never lists overlapping runs or one runId twice,
\* whatever interleaves with the registry sections and however they fail.
THEOREM CoordinatorExclusive == Spec => []RegistryExclusive
  <1>1. IInv => RegistryExclusive
    BY DEF IInv
  <1> QED BY <1>1, CoordinatorInvariant, PTL

\* The runs in the registry are judged right against whatever is selected next.
THEOREM CoordinatorScopes == Spec => []OverlapIsSound
  <1>1. TypeOK => OverlapIsSound
    <2> SUFFICES ASSUME TypeOK, NEW n \in registry, NEW f \in Filters
                 PROVE  JudgedRight(FilterOf[n.req], f)
      BY DEF OverlapIsSound
    <2>1. FilterOf[n.req] \in Filters
      BY RequestAssumption DEF TypeOK, Entries
    <2> QED BY <2>1, SelectionsJudgedRight
  <1> QED BY <1>1, CoordinatorTypes, PTL

-----------------------------------------------------------------------------
(***************************************************************************)
(* The scope advisory locks.  The induction has to say where locks may be  *)
(* between the grant and the end: a registering request holds locks only   *)
(* while it is inside the registry section past its load (Registering),    *)
(* and the section of a registration or a finish belongs to a request in   *)
(* the matching phase (Matched), so that no other step can end the request *)
(* under it.                                                               *)
(***************************************************************************)


Disjoint == \A q, r \in Requests : q # r => held[q] \cap held[r] = {}

Settled ==
    \A q \in Requests :
        /\ phase[q] \in {"idle", "over"} => held[q] = {}
        /\ phase[q] \in {"running", "finishing"} => held[q] = ScopeLocks(ScopeOf(q))

Within == \A q \in Requests : held[q] \subseteq ScopeLocks(ScopeOf(q))

Matched ==
    /\ section.op = "register" => phase[section.who] = "requested"
    /\ section.op = "finish" => phase[section.who] = "finishing"
    /\ section.op = "none" => section.who \notin Requests

Registering ==
    /\ \A q \in Requests :
            phase[q] = "requested" =>
                \/ held[q] = {}
                \/ section.op = "register" /\ section.who = q
    /\ section.op = "register" =>
        /\ section.stage = "locked" => held[section.who] = {}
        /\ section.stage \in {"saving", "saved"} =>
                held[section.who] = ScopeLocks(ScopeOf(section.who))

LockInv == Disjoint /\ Settled /\ Within /\ Matched /\ Registering

LEMMA LockInvImplies == IInv /\ LockInv => ScopeLocksHeld
  BY DEF IInv, Owned, LockInv, Disjoint, Settled, Registering, ScopeLocksHeld,
         LiveRequests, In

LEMMA InitLockInv == Init => LockInv
  BY ProcessAssumption
  DEF Init, LockInv, Disjoint, Settled, Within, Matched, Registering, Outside,
      Actors

LEMMA ProceedFields ==
    ASSUME section \in Sections, NEW stage, NEW view, Proceed(stage, view)
    PROVE  /\ section'.op = section.op /\ section'.who = section.who
           /\ section'.stage = stage
  BY DEF Sections, Proceed

\* The locks and the phase of every request, seen by one step.
LEMMA LockStep ==
    ASSUME IInv, LockInv, Next
    PROVE  LockInv'
  <1> USE ProcessAssumption
      DEF IInv, TypeOK, Owned, LockInv, Disjoint, Settled, Within, Matched,
          Registering
  <1>0. /\ section.op \in {"none", "register", "heartbeat", "finish", "cleanup"}
        /\ Outside.op = "none" /\ Outside.who = Nobody /\ Nobody \notin Requests
    BY DEF Sections, Outside, Actors
  <1>1. ASSUME NEW q \in Requests, Request(q)
        PROVE  LockInv'
    BY <1>0, <1>1 DEF Request
  <1>2. ASSUME NEW q \in Requests, RegisterEnter(q)
        PROVE  LockInv'
    BY <1>0, <1>2 DEF RegisterEnter, Enter, Free
  <1>3. ASSUME NEW q \in Requests, RegisterBusy(q)
        PROVE  LockInv'
    BY <1>0, <1>3 DEF RegisterBusy
  <1>4. ASSUME NEW q \in Requests, RegisterLoad(q)
        PROVE  LockInv'
    <2>1. /\ section.op = "register" /\ section.who = q
          /\ section.stage = "locked"
          /\ UNCHANGED <<phase, held>>
          /\ section'.op = section.op /\ section'.who = section.who
          /\ section'.stage \in {"claiming", "leaving"}
      <3>1. \E view : Proceed("leaving", view) \/ Proceed("claiming", view)
        BY <1>4 DEF RegisterLoad
      <3> QED BY <1>4, <3>1, ProceedFields DEF RegisterLoad, In
    <2> QED BY <1>0, <2>1
  <1>5. ASSUME NEW q \in Requests, NEW key \in LockKeys, Claim(q, key)
        PROVE  LockInv'
    <2>1. /\ section.op = "register" /\ section.who = q
          /\ section.stage = "claiming" /\ phase' = phase
      BY <1>5 DEF Claim, In
    <2>2. CASE LockedBy(key) = {}
      <3>1. section' = section /\ held' = [held EXCEPT ![q] = @ \cup {key}]
        BY <1>5, <2>2 DEF Claim
      <3>2. key \in ScopeLocks(ScopeOf(q))
        BY <1>5 DEF Claim, Unclaimed
      <3>3. \A r \in Requests : key \notin held[r]
        BY <2>2 DEF LockedBy
      <3>4. Disjoint'
        BY <3>1, <3>3
      <3>5. phase[q] = "requested"
        BY <2>1
      <3> QED BY <1>0, <2>1, <3>1, <3>2, <3>4, <3>5
    <2>3. CASE LockedBy(key) # {}
      <3>1. /\ UNCHANGED <<phase, held>>
            /\ section'.op = section.op /\ section'.who = section.who
            /\ section'.stage = "leaving"
        BY <1>5, <2>3, ProceedFields DEF Claim
      <3> QED BY <1>0, <2>1, <3>1
    <2> QED BY <2>2, <2>3
  <1>6. ASSUME NEW q \in Requests, Claimed(q)
        PROVE  LockInv'
    <2>1. /\ section.op = "register" /\ section.who = q
          /\ UNCHANGED <<phase, held>>
          /\ section'.op = section.op /\ section'.who = section.who
          /\ section'.stage = "saving"
      BY <1>6 DEF Claimed, In, Proceed, Sections
    <2>2. held[q] = ScopeLocks(ScopeOf(q))
      BY <1>6 DEF Claimed, Unclaimed
    <2> QED BY <1>0, <2>1, <2>2
  <1>7. ASSUME NEW q \in Requests, RegisterExit(q)
        PROVE  LockInv'
    BY <1>0, <1>7 DEF RegisterExit, Exit
  <1>8. ASSUME NEW q \in Requests, SendHeartbeat(q) \/ HeartbeatLost(q)
        PROVE  LockInv'
    BY <1>0, <1>8 DEF SendHeartbeat, HeartbeatLost
  <1>9. ASSUME NEW q \in Requests, HeartbeatEnter(q)
        PROVE  LockInv'
    BY <1>0, <1>9 DEF HeartbeatEnter, Enter, Free
  <1>10. ASSUME NEW q \in Requests, HeartbeatLoad(q)
         PROVE  LockInv'
    <2>1. /\ section.op = "heartbeat"
          /\ UNCHANGED <<phase, held>>
          /\ section'.op = section.op /\ section'.who = section.who
      <3>1. \E stage, view : Proceed(stage, view)
        BY <1>10 DEF HeartbeatLoad
      <3> QED BY <1>10, <3>1, ProceedFields DEF HeartbeatLoad, In
    <2> QED BY <1>0, <2>1
  <1>11. ASSUME NEW q \in Requests, HeartbeatExit(q)
         PROVE  LockInv'
    BY <1>0, <1>11 DEF HeartbeatExit, Exit
  <1>12. ASSUME NEW q \in Requests, WorkEnds(q)
         PROVE  LockInv'
    BY <1>0, <1>12 DEF WorkEnds
  <1>13. ASSUME NEW q \in Requests, FinishEnter(q)
         PROVE  LockInv'
    BY <1>0, <1>13 DEF FinishEnter, Enter, Free
  <1>14. ASSUME NEW q \in Requests, FinishBusy(q)
         PROVE  LockInv'
    <2>1. CASE tries[q] + 1 < MaxTries
      BY <1>0, <1>14, <2>1 DEF FinishBusy
    <2>2. CASE ~(tries[q] + 1 < MaxTries)
      BY <1>0, <1>14, <2>2 DEF FinishBusy
    <2> QED BY <2>1, <2>2
  <1>15. ASSUME NEW q \in Requests, FinishLoad(q)
         PROVE  LockInv'
    <2>1. /\ section.op = "finish"
          /\ UNCHANGED <<phase, held>>
          /\ section'.op = section.op /\ section'.who = section.who
      <3>1. \E stage, view : Proceed(stage, view)
        BY <1>15 DEF FinishLoad
      <3> QED BY <1>15, <3>1, ProceedFields DEF FinishLoad, In
    <2> QED BY <1>0, <2>1
  <1>16. ASSUME NEW q \in Requests, FinishExit(q)
         PROVE  LockInv'
    BY <1>0, <1>16 DEF FinishExit, Exit
  <1>17. ASSUME NEW q \in Requests, NEW key \in LockKeys, ReleaseLock(q, key)
         PROVE  LockInv'
    BY <1>0, <1>17 DEF ReleaseLock
  <1>18. ASSUME NEW q \in Requests, Released(q)
         PROVE  LockInv'
    BY <1>0, <1>18 DEF Released
  <1>19. ASSUME NEW q \in Requests, ConnectionFails(q)
         PROVE  LockInv'
    BY <1>0, <1>19 DEF ConnectionFails
  <1>20. ASSUME NEW p \in Processes, Restart(p)
         PROVE  LockInv'
    BY <1>0, <1>20 DEF Restart
  <1>21. ASSUME NEW p \in Processes, Cleanup(p)
         PROVE  LockInv'
    <2>1. CASE CleanupEnter(p)
      BY <1>0, <2>1 DEF CleanupEnter, Enter, Free
    <2>2. CASE CleanupBusy(p)
      BY <1>0, <2>2 DEF CleanupBusy
    <2>3. CASE CleanupLoad(p)
      <3>1. /\ section.op = "cleanup"
            /\ UNCHANGED <<phase, held>>
            /\ section'.op = section.op /\ section'.who = section.who
        <4>1. \E stage, view : Proceed(stage, view)
          BY <2>3 DEF CleanupLoad
        <4> QED BY <2>3, <4>1, ProceedFields DEF CleanupLoad, In
      <3> QED BY <1>0, <3>1
    <2>4. CASE CleanupExit(p)
      BY <1>0, <2>4 DEF CleanupExit, Exit
    <2> QED BY <1>21, <2>1, <2>2, <2>3, <2>4 DEF Cleanup
  <1>22. ASSUME NEW p \in Processes, Crash(p)
         PROVE  LockInv'
    <2>1. /\ \A q \in Requests : ServedBy[q] = p =>
                /\ held'[q] = {}
                /\ phase'[q] \in {"idle", "over"}
          /\ \A q \in Requests : ServedBy[q] # p =>
                held'[q] = held[q] /\ phase'[q] = phase[q]
      BY <1>22 DEF Crash
    <2>2. \/ section' = Outside /\ section.who \in Actors
          \/ /\ section' = section
             /\ section.who \in Requests => ServedBy[section.who] # p
      BY <1>22 DEF Crash, Actors
    <2>3. \A q \in Requests : ServedBy[q] # p /\ section.who = q
                => section' = section
      BY <1>22 DEF Crash
    <2> QED BY <1>0, <2>1, <2>2, <2>3
  <1>23. CASE Save
    <2>1. /\ UNCHANGED <<phase, held>>
          /\ section.stage = "saving"
          /\ section'.op = section.op /\ section'.who = section.who
          /\ section'.stage = "saved"
      BY <1>23 DEF Save, Proceed, Sections
    <2> QED BY <1>0, <2>1
  <1>24. ASSUME NEW applied \in BOOLEAN, SectionFails(applied)
         PROVE  LockInv'
    <2>1. section' = Outside /\ held' = held
      BY <1>24 DEF SectionFails, Exit
    <2>2. CASE section.op \in {"register", "finish"}
      BY <1>0, <1>24, <2>1, <2>2 DEF SectionFails
    <2>3. CASE section.op \notin {"register", "finish"}
      BY <1>0, <1>24, <2>1, <2>3 DEF SectionFails
    <2> QED BY <2>2, <2>3
  <1>25. CASE Tick
    <2>1. /\ UNCHANGED <<phase, held>>
          /\ section'.op = section.op /\ section'.who = section.who
          /\ section'.stage = section.stage
      BY <1>25 DEF Tick, Sections
    <2> QED BY <1>0, <2>1
  <1> QED
    BY <1>1, <1>2, <1>3, <1>4, <1>5, <1>6, <1>7, <1>8, <1>9, <1>10, <1>11,
       <1>12, <1>13, <1>14, <1>15, <1>16, <1>17, <1>18, <1>19, <1>20, <1>21,
       <1>22, <1>23, <1>24, <1>25
    DEF Next, Register, Heartbeat, Release

LEMMA NextLockInv == IInv /\ LockInv /\ [Next]_vars => LockInv'
  <1>1. CASE UNCHANGED vars
    BY <1>1 DEF vars, LockInv, Disjoint, Settled, Within, Matched, Registering
  <1> QED BY <1>1, LockStep

\* A granted run holds every lock of its scope, exclusively, and an ended
\* request holds none: refusals, failures and crashes leak no lock.
THEOREM CoordinatorLocks == Spec => []ScopeLocksHeld
  <1>1. Spec => []LockInv
    BY InitLockInv, NextLockInv, CoordinatorInvariant, PTL DEF Spec
  <1> QED BY <1>1, LockInvImplies, CoordinatorInvariant, PTL

-----------------------------------------------------------------------------
(***************************************************************************)
(* The coordinator implements the atomic registry, for any number of       *)
(* requests and processes: what takes a section several steps happens for  *)
(* SyncRegistry when its view is saved, and everything before and after is *)
(* a stutter.                                                              *)
(*                                                                         *)
(* The registry is only changed by the holder of the section, or aged with *)
(* its view.  So a view that was computed from the registry of its load is *)
(* still what the operation makes of the registry it overwrites (ViewDue), *)
(* and the scope locks (LockInv) make a granted run disjoint from others.  *)
(***************************************************************************)

\* What the operation of the section makes of a registry.
Enrolled(entries, q, view) ==
    \E kept \in Kept(entries), age \in Ages :
        /\ \A n \in kept : ~Conflict(q, n.req)
        /\ view = kept \cup {[req |-> q, age |-> age]}

Beaten(entries, q, view) ==
    \E kept \in Kept(entries), age \in Ages : view = Refreshed(kept, q, age)

Removed(entries, q, view) == \E kept \in Kept(entries) : view = WithoutRun(kept, q)

ViewDue ==
    /\ section.op = "register" /\ section.stage \in {"claiming", "saving"} =>
            Enrolled(registry, section.who, section.view)
    /\ section.stage = "saving" =>
        /\ section.op = "heartbeat" => Beaten(registry, section.who, section.view)
        /\ section.op = "finish" => Removed(registry, section.who, section.view)
        /\ section.op = "cleanup" => section.view \in Kept(registry)

-----------------------------------------------------------------------------
(* Aging the registry and the view together. *)

LEMMA AgedEntry ==
    ASSUME NEW n \in Entries
    PROVE  /\ [n EXCEPT !.age = Older(n.age)].req = n.req
           /\ [n EXCEPT !.age = Older(n.age)].age = Older(n.age)
           /\ IsStale(n) => IsStale([n EXCEPT !.age = Older(n.age)])
  BY StaleAgeAssumption DEF Entries, Older, IsStale, Ages

LEMMA AgedKept ==
    ASSUME NEW S \in SUBSET Entries, NEW kept \in Kept(S)
    PROVE  Aged(kept) \in Kept(Aged(S))
  <1>1. kept \subseteq S /\ Fresh(S) \subseteq kept
    BY DEF Kept
  <1>2. Aged(kept) \subseteq Aged(S)
    BY <1>1 DEF Aged
  <1>3. ASSUME NEW m \in Aged(S), ~IsStale(m) PROVE m \in Aged(kept)
    <2>1. PICK n \in S : m = [n EXCEPT !.age = Older(n.age)]
      BY DEF Aged
    <2>2. ~IsStale(n)
      BY <1>3, <2>1, AgedEntry
    <2>3. n \in kept
      BY <1>1, <2>2 DEF Fresh
    <2> QED BY <2>1, <2>3 DEF Aged
  <1> QED BY <1>2, <1>3 DEF Kept, Fresh

LEMMA AgedEnrolled ==
    ASSUME NEW S \in SUBSET Entries, NEW q \in Requests, NEW view, Enrolled(S, q, view)
    PROVE  Enrolled(Aged(S), q, Aged(view))
  <1>1. PICK kept \in Kept(S), age \in Ages :
            /\ \A n \in kept : ~Conflict(q, n.req)
            /\ view = kept \cup {[req |-> q, age |-> age]}
    BY DEF Enrolled
  <1>2. Aged(kept) \in Kept(Aged(S)) /\ Older(age) \in Ages /\ kept \subseteq Entries
    BY AgedKept, OlderType DEF Kept
  <1>3. \A m \in Aged(kept) : ~Conflict(q, m.req)
    BY <1>1, <1>2, AgedEntry DEF Aged
  <1>4. Aged(view) = Aged(kept) \cup {[req |-> q, age |-> Older(age)]}
    <2> DEFINE own == [req |-> q, age |-> age]
    <2>1. [own EXCEPT !.age = Older(own.age)] = [req |-> q, age |-> Older(age)]
      OBVIOUS
    <2>2. view = kept \cup {own}
      BY <1>1
    <2> HIDE DEF own
    <2> QED BY <2>1, <2>2 DEF Aged
  <1> QED BY <1>2, <1>3, <1>4 DEF Enrolled

LEMMA AgedBeaten ==
    ASSUME NEW S \in SUBSET Entries, NEW q \in Requests, NEW view, Beaten(S, q, view)
    PROVE  Beaten(Aged(S), q, Aged(view))
  <1>1. PICK kept \in Kept(S), age \in Ages : view = Refreshed(kept, q, age)
    BY DEF Beaten
  <1>2. Aged(kept) \in Kept(Aged(S)) /\ Older(age) \in Ages /\ kept \subseteq Entries
    BY AgedKept, OlderType DEF Kept
  <1> DEFINE New(n) == IF RunIdOf[n.req] = RunIdOf[q] THEN [n EXCEPT !.age = age] ELSE n
             Old(n) == [n EXCEPT !.age = Older(n.age)]
             Newer(n) == IF RunIdOf[n.req] = RunIdOf[q] THEN [n EXCEPT !.age = Older(age)] ELSE n
  <1>3. ASSUME NEW n \in kept PROVE Old(New(n)) = Newer(Old(n))
    <2>1. n \in Entries
      BY <1>2
    <2>2. PICK r \in Requests, a \in Ages : n = [req |-> r, age |-> a]
      BY <2>1 DEF Entries
    <2>3. ASSUME NEW b, NEW x
          PROVE  [[req |-> b, age |-> x] EXCEPT !.age = Older(age)]
                    = [req |-> b, age |-> Older(age)]
      OBVIOUS
    <2>4. n.req = r /\ n.age = a /\ Old(n) = [req |-> r, age |-> Older(a)]
      BY <2>2
    <2>5. CASE RunIdOf[r] = RunIdOf[q]
      <3>1. New(n) = [req |-> r, age |-> age]
        BY <2>2, <2>4, <2>5
      <3>2. Old(New(n)) = [req |-> r, age |-> Older(age)]
        BY <3>1
      <3>3. Newer(Old(n)) = [req |-> r, age |-> Older(age)]
        BY <2>3, <2>4, <2>5
      <3> QED BY <3>2, <3>3
    <2>6. CASE RunIdOf[r] # RunIdOf[q]
      <3>1. New(n) = n
        BY <2>4, <2>6
      <3>2. Old(n).req = r
        BY <2>4
      <3>3. Newer(Old(n)) = Old(n)
        BY <2>6, <3>2
      <3>4. Old(New(n)) = Old(n)
        BY <3>1
      <3> QED BY <3>3, <3>4
    <2> QED BY <2>5, <2>6
  <1>4. view = {New(n) : n \in kept} /\ Aged(view) = {Old(n) : n \in view}
    BY <1>1 DEF Aged, Refreshed
  <1>5. /\ Aged(kept) = {Old(n) : n \in kept}
        /\ Refreshed(Aged(kept), q, Older(age)) = {Newer(n) : n \in Aged(kept)}
    BY DEF Aged, Refreshed
  <1> HIDE DEF New, Old, Newer
  <1>6. Aged(view) = Refreshed(Aged(kept), q, Older(age))
    <2>1. \A x : x \in Aged(view) <=> \E n \in kept : x = Old(New(n))
      BY <1>4
    <2>2. \A x : x \in Refreshed(Aged(kept), q, Older(age))
                    <=> \E n \in kept : x = Newer(Old(n))
      BY <1>5
    <2>3. \A x : x \in Aged(view) <=> x \in Refreshed(Aged(kept), q, Older(age))
      BY <1>3, <2>1, <2>2
    <2> QED BY <2>3
  <1> QED BY <1>2, <1>6 DEF Beaten

LEMMA AgedRemoved ==
    ASSUME NEW S \in SUBSET Entries, NEW q, NEW view, Removed(S, q, view)
    PROVE  Removed(Aged(S), q, Aged(view))
  <1>1. PICK kept \in Kept(S) : view = WithoutRun(kept, q)
    BY DEF Removed
  <1>2. Aged(kept) \in Kept(Aged(S)) /\ kept \subseteq Entries
    BY AgedKept DEF Kept
  <1>3. Aged(view) = WithoutRun(Aged(kept), q)
    <2>1. \A n \in kept : [n EXCEPT !.age = Older(n.age)].req = n.req
      BY <1>2, AgedEntry
    <2> QED BY <1>1, <2>1 DEF Aged, WithoutRun
  <1> QED BY <1>2, <1>3 DEF Removed

-----------------------------------------------------------------------------
(* ViewDue is an invariant. *)

LEMMA FreshKept == ASSUME NEW S PROVE Fresh(S) \in Kept(S)
  BY DEF Fresh, Kept

\* A section that is entered, left or refused has no view.
LEMMA NoViewDue ==
    ASSUME section'.stage \in {"out", "locked", "saved", "leaving"}
    PROVE  ViewDue'
  BY DEF ViewDue

LEMMA ProceedView ==
    ASSUME IInv, NEW stage, NEW view, Proceed(stage, view)
    PROVE  /\ section'.op = section.op /\ section'.who = section.who
           /\ section'.stage = stage /\ section'.view = view
  BY DEF IInv, TypeOK, Sections, Proceed

LEMMA ViewStep ==
    ASSUME IInv, ViewDue, [Next]_vars PROVE ViewDue'
  <1>1. CASE UNCHANGED <<registry, section>>
    BY <1>1 DEF ViewDue
  <1>2. CASE section' = Outside \/ \E op, who : Enter(op, who)
    BY <1>2, NoViewDue DEF Outside, Enter
  <1>3. CASE \E view : Proceed("leaving", view) \/ Proceed("saved", view)
    BY <1>3, ProceedView, NoViewDue
  <1>4. ASSUME NEW q \in Requests, RegisterLoad(q) PROVE ViewDue'
    <2> DEFINE view == Fresh(registry) \cup {[req |-> q, age |-> startAge[q]]}
    <2>1. CASE \E n \in Fresh(registry) : Conflict(q, n.req)
      BY <1>3, <1>4, <2>1 DEF RegisterLoad
    <2>2. CASE ~\E n \in Fresh(registry) : Conflict(q, n.req)
      <3>1. Proceed("claiming", view) /\ section.op = "register" /\ section.who = q
            /\ UNCHANGED registry
        BY <1>4, <2>2 DEF RegisterLoad, In
      <3>2. startAge[q] \in Ages /\ Fresh(registry) \in Kept(registry)
        BY FreshKept DEF IInv, TypeOK
      <3>3. Enrolled(registry, q, view)
        BY <2>2, <3>2 DEF Enrolled
      <3> HIDE DEF view
      <3> QED BY <3>1, <3>3, ProceedView DEF ViewDue
    <2> QED BY <2>1, <2>2
  <1>5. ASSUME NEW q \in Requests, NEW key, Claim(q, key) PROVE ViewDue'
    <2>1. UNCHANGED registry /\ (UNCHANGED section \/ Proceed("leaving", {}))
      BY <1>5 DEF Claim
    <2> QED BY <1>1, <1>3, <2>1
  <1>6. ASSUME NEW q \in Requests, Claimed(q) PROVE ViewDue'
    <2>1. Proceed("saving", section.view) /\ UNCHANGED registry /\ section.op = "register"
          /\ section.stage = "claiming"
      BY <1>6 DEF Claimed, In
    <2> QED BY <2>1, ProceedView DEF ViewDue
  <1>7. ASSUME NEW q \in Requests, HeartbeatLoad(q) PROVE ViewDue'
    <2>1. Proceed("saving", Refreshed(Fresh(registry), q, 0)) \/ Proceed("leaving", {})
      BY <1>7 DEF HeartbeatLoad
    <2>2. UNCHANGED registry /\ section.op = "heartbeat" /\ section.who = q
      BY <1>7 DEF HeartbeatLoad, In
    <2>3. Beaten(registry, q, Refreshed(Fresh(registry), q, 0))
      BY FreshKept, ZeroAge DEF Beaten
    <2> QED BY <1>3, <2>1, <2>2, <2>3, ProceedView DEF ViewDue
  <1>8. ASSUME NEW q \in Requests, FinishLoad(q) PROVE ViewDue'
    <2>1. Proceed("saving", WithoutRun(Fresh(registry), q)) \/ Proceed("leaving", {})
      BY <1>8 DEF FinishLoad
    <2>2. UNCHANGED registry /\ section.op = "finish" /\ section.who = q
      BY <1>8 DEF FinishLoad, In
    <2>3. Removed(registry, q, WithoutRun(Fresh(registry), q))
      BY FreshKept DEF Removed
    <2> QED BY <1>3, <2>1, <2>2, <2>3, ProceedView DEF ViewDue
  <1>9. ASSUME NEW p \in Processes, CleanupLoad(p) PROVE ViewDue'
    <2>1. Proceed("saving", Fresh(registry)) \/ Proceed("leaving", {})
      BY <1>9 DEF CleanupLoad
    <2>2. UNCHANGED registry /\ section.op = "cleanup"
      BY <1>9 DEF CleanupLoad, In
    <2> QED BY <1>3, <2>1, <2>2, FreshKept, ProceedView DEF ViewDue
  <1>10. CASE Tick
    <2>1. registry' = Aged(registry) /\ section' = [section EXCEPT !.view = Aged(section.view)]
      BY <1>10 DEF Tick
    <2>2. /\ section'.op = section.op /\ section'.who = section.who
          /\ section'.stage = section.stage /\ section'.view = Aged(section.view)
      BY <2>1 DEF IInv, TypeOK, Sections
    <2>3. registry \in SUBSET Entries
      BY DEF IInv, TypeOK
    <2>4. section.op \in {"register", "heartbeat", "finish"} => section.who \in Requests
      BY DEF IInv, Owned
    <2> QED BY <2>1, <2>2, <2>3, <2>4, AgedEnrolled, AgedBeaten, AgedRemoved, AgedKept
            DEF ViewDue
  <1>11. ASSUME NEW p \in Processes, Crash(p) PROVE ViewDue'
    BY <1>1, <1>2, <1>11 DEF Crash
  <1>12. ASSUME NEW applied \in BOOLEAN, SectionFails(applied) PROVE ViewDue'
    BY <1>2, <1>12 DEF SectionFails, Exit
  <1>13. CASE Save
    BY <1>3, <1>13 DEF Save
  <1>14. ASSUME NEW q \in Requests,
                \/ Request(q) \/ RegisterBusy(q) \/ SendHeartbeat(q) \/ HeartbeatLost(q)
                \/ WorkEnds(q) \/ FinishBusy(q) \/ Released(q) \/ ConnectionFails(q)
                \/ (\E key \in LockKeys : ReleaseLock(q, key))
         PROVE  ViewDue'
    BY <1>1, <1>14 DEF Request, RegisterBusy, SendHeartbeat, HeartbeatLost, WorkEnds,
       FinishBusy, Released, ConnectionFails, ReleaseLock
  <1>15. ASSUME NEW q \in Requests,
                \/ RegisterEnter(q) \/ RegisterExit(q) \/ HeartbeatEnter(q)
                \/ HeartbeatExit(q) \/ FinishEnter(q) \/ FinishExit(q)
         PROVE  ViewDue'
    BY <1>2, <1>15 DEF RegisterEnter, RegisterExit, HeartbeatEnter, HeartbeatExit,
       FinishEnter, FinishExit, Exit
  <1>16. ASSUME NEW p \in Processes, Restart(p) \/ CleanupBusy(p)
         PROVE  ViewDue'
    BY <1>1, <1>16 DEF Restart, CleanupBusy
  <1>17. ASSUME NEW p \in Processes, CleanupEnter(p) \/ CleanupExit(p)
         PROVE  ViewDue'
    BY <1>2, <1>17 DEF CleanupEnter, CleanupExit, Exit
  <1>18. CASE UNCHANGED vars
    BY <1>1, <1>18 DEF vars
  <1> QED BY <1>4, <1>5, <1>6, <1>7, <1>8, <1>9, <1>10, <1>11, <1>12, <1>13, <1>14, <1>15,
             <1>16, <1>17, <1>18
          DEF Next, Register, Heartbeat, Release, Cleanup

-----------------------------------------------------------------------------
(* Every step maps to a step of the registry. *)

\* The instance has the operators on runs and entries for its own.
LEMMA SameOperators ==
    /\ Registry!Ages = Ages
    /\ \A S : Registry!Kept(S) = Kept(S)
    /\ \A S : Registry!Aged(S) = Aged(S)
    /\ \A S, q : Registry!WithoutRun(S, q) = WithoutRun(S, q)
    /\ \A S, q, age : Registry!Refreshed(S, q, age) = Refreshed(S, q, age)
    /\ \A q : Registry!ScopeLocks(Registry!ScopeOf(q)) = ScopeLocks(ScopeOf(q))
    /\ \A q, r : Registry!Conflict(q, r) <=> Conflict(q, r)
  <1>1. Registry!Ages = Ages
    BY DEF Registry!Ages, Ages
  <1>2. \A S : Registry!Kept(S) = Kept(S)
    <2>1. \A S : Registry!Fresh(S) = Fresh(S)
      BY DEF Registry!Fresh, Fresh, Registry!IsStale, IsStale
    <2> QED BY <2>1 DEF Registry!Kept, Kept
  <1>3. \A S : Registry!Aged(S) = Aged(S)
    <2>1. \A x : Registry!Older(x) = Older(x)
      BY DEF Registry!Older, Older
    <2> QED BY <2>1 DEF Registry!Aged, Aged
  <1>4. \A S, q : Registry!WithoutRun(S, q) = WithoutRun(S, q)
    BY DEF Registry!WithoutRun, WithoutRun
  <1>5. \A S, q, age : Registry!Refreshed(S, q, age) = Refreshed(S, q, age)
    BY DEF Registry!Refreshed, Refreshed
  <1>6. \A q : Registry!ScopeOf(q) = ScopeOf(q)
    BY DEF Registry!ScopeOf, ScopeOf, Registry!CoordinatorScope, CoordinatorScope,
       Registry!DeriveScope, DeriveScope, Registry!EffectiveProducts, EffectiveProducts
  <1>7. \A s : Registry!ScopeLocks(s) = ScopeLocks(s)
    BY DEF Registry!ScopeLocks, ScopeLocks
  <1>8. \A q, r : Registry!Conflict(q, r) <=> Conflict(q, r)
    BY <1>6 DEF Registry!Conflict, Conflict, Registry!Overlap, Overlap,
       Registry!ProductOnly, ProductOnly
  <1> QED BY <1>1, <1>2, <1>3, <1>4, <1>5, <1>6, <1>7, <1>8

AbstractStep == Registry!Next \/ UNCHANGED <<registry, LiveRequests>>

LEMMA SavedLive ==
    ASSUME IInv, LockInv
    PROVE  \A q \in Requests :
             /\ q \in LiveRequests => held[q] = ScopeLocks(ScopeOf(q))
             /\ section.op = "finish" /\ section.who = q => q \notin LiveRequests
             /\ section.op = "register" /\ section.who = q /\ section.stage # "saved"
                    => q \notin LiveRequests
  BY DEF LockInv, Settled, Matched, Registering, LiveRequests, In

\* The step that makes a view the registry.
LEMMA WriteMaps ==
    ASSUME IInv, LockInv, ViewDue, section.stage = "saving", registry' = section.view,
           \/ UNCHANGED LiveRequests
           \/ /\ section.op = "register"
              /\ LiveRequests' = LiveRequests \cup {section.who}
    PROVE  AbstractStep
  <1>1. section.op \in {"register", "heartbeat", "finish", "cleanup"}
    BY DEF IInv, TypeOK, Owned, Sections, Outside
  <1>2. CASE section.op = "register"
    <2> DEFINE q == section.who
    <2>1. q \in Requests /\ q \notin LiveRequests
      BY <1>2, SavedLive DEF IInv, Owned
    <2>2. Enrolled(registry, q, registry')
      BY <1>2 DEF ViewDue
    <2>3. Registry!Enroll(q)
      BY <2>2, SameOperators DEF Registry!Enroll, Enrolled
    <2>4. CASE UNCHANGED LiveRequests
      <3>1. Registry!AdmitLost(q)
        BY <2>1, <2>3, <2>4 DEF Registry!AdmitLost
      <3> QED BY <2>1, <3>1 DEF AbstractStep, Registry!Next
    <2>5. CASE LiveRequests' = LiveRequests \cup {q}
      <3>1. held[q] = ScopeLocks(ScopeOf(q))
        BY <1>2 DEF LockInv, Registering
      <3>2. \A r \in LiveRequests : r \in Requests /\ r # q
                                    /\ held[r] = ScopeLocks(ScopeOf(r))
        BY <2>1, SavedLive DEF LiveRequests
      <3>3. \A r \in LiveRequests : ScopeLocks(ScopeOf(q)) \cap ScopeLocks(ScopeOf(r)) = {}
        BY <2>1, <3>1, <3>2 DEF LockInv, Disjoint
      <3>4. Registry!Admit(q)
        BY <2>1, <2>3, <2>5, <3>3, SameOperators DEF Registry!Admit
      <3> QED BY <2>1, <3>4 DEF AbstractStep, Registry!Next
    <2> QED BY <2>4, <2>5
  <1>3. CASE section.op = "heartbeat"
    <2>1. section.who \in Requests /\ Beaten(registry, section.who, registry')
      BY <1>3 DEF ViewDue, IInv, Owned
    <2>2. Registry!Beat(section.who)
      BY <1>3, <2>1, SameOperators DEF Registry!Beat, Beaten
    <2> QED BY <2>1, <2>2 DEF AbstractStep, Registry!Next
  <1>4. CASE section.op = "finish"
    <2>1. section.who \in Requests /\ Removed(registry, section.who, registry')
      BY <1>4 DEF ViewDue, IInv, Owned
    <2>2. Registry!Remove(section.who)
      BY <1>4, <2>1, SavedLive, SameOperators DEF Registry!Remove, Removed
    <2> QED BY <2>1, <2>2 DEF AbstractStep, Registry!Next
  <1>5. CASE section.op = "cleanup"
    <2>1. Registry!Prune
      BY <1>5, SameOperators DEF ViewDue, Registry!Prune
    <2> QED BY <2>1 DEF AbstractStep, Registry!Next
  <1> QED BY <1>1, <1>2, <1>3, <1>4, <1>5

\* A step that leaves the registry alone, and grants nothing.
LEMMA LeaveMaps ==
    ASSUME UNCHANGED registry, LiveRequests' \subseteq LiveRequests
    PROVE  AbstractStep
  BY DEF AbstractStep, Registry!Next, Registry!Leave

LEMMA EnterMaps ==
    ASSUME IInv, NEW op, NEW who, Enter(op, who), UNCHANGED <<registry, phase>>
    PROVE  AbstractStep
  BY LeaveMaps DEF Enter, LiveRequests, In

LEMMA ProceedMaps ==
    ASSUME IInv, NEW stage \in {"claiming", "saving", "leaving"}, NEW view,
           Proceed(stage, view), UNCHANGED <<registry, phase>>
    PROVE  AbstractStep
  BY ProceedView, LeaveMaps DEF LiveRequests, In

LEMMA RegisterMaps ==
    ASSUME IInv, LockInv, NEW q \in Requests, Register(q) \/ Request(q)
    PROVE  AbstractStep
  <1>1. CASE Request(q) \/ RegisterBusy(q)
    <2>1. UNCHANGED <<registry, section>>
          /\ \E p \in {"requested", "over"} : phase' = [phase EXCEPT ![q] = p]
      BY <1>1 DEF Request, RegisterBusy
    <2>2. LiveRequests' \subseteq LiveRequests
      BY <2>1 DEF LiveRequests, In, IInv, TypeOK
    <2> QED BY <2>1, <2>2, LeaveMaps
  <1>2. CASE RegisterEnter(q)
    BY <1>2, EnterMaps DEF RegisterEnter
  <1>3. CASE RegisterLoad(q)
    <2>1. \E view : Proceed("leaving", view) \/ Proceed("claiming", view)
      BY <1>3 DEF RegisterLoad
    <2> QED BY <1>3, <2>1, ProceedMaps DEF RegisterLoad
  <1>4. ASSUME NEW key, Claim(q, key) PROVE AbstractStep
    <2>1. UNCHANGED section \/ Proceed("leaving", {})
      BY <1>4 DEF Claim
    <2>2. UNCHANGED <<registry, phase>>
      BY <1>4 DEF Claim
    <2>3. CASE UNCHANGED section
      BY <2>2, <2>3, LeaveMaps DEF LiveRequests, In
    <2> QED BY <2>1, <2>2, <2>3, ProceedMaps
  <1>5. CASE Claimed(q)
    BY <1>5, ProceedMaps DEF Claimed
  <1>6. CASE RegisterExit(q)
    <2>1. section' = Outside /\ UNCHANGED registry
      BY <1>6 DEF RegisterExit, Exit
    <2>2. \A r \in Requests : phase'[r] = "running" => r \in LiveRequests
      BY <1>6 DEF RegisterExit, LiveRequests, In, IInv, TypeOK
    <2>3. LiveRequests' \subseteq LiveRequests
      BY <2>1, <2>2 DEF LiveRequests, In, Outside
    <2> QED BY <2>1, <2>3, LeaveMaps
  <1> QED BY <1>1, <1>2, <1>3, <1>4, <1>5, <1>6 DEF Register

LEMMA ReleaseMaps ==
    ASSUME IInv, LockInv, NEW q \in Requests,
           \/ SendHeartbeat(q) \/ Heartbeat(q) \/ WorkEnds(q) \/ Release(q)
           \/ ConnectionFails(q)
    PROVE  AbstractStep
  <1>1. CASE SendHeartbeat(q) \/ HeartbeatLost(q) \/ (\E key \in LockKeys : ReleaseLock(q, key))
    BY <1>1, LeaveMaps DEF SendHeartbeat, HeartbeatLost, ReleaseLock, LiveRequests, In
  <1>2. CASE HeartbeatEnter(q) \/ FinishEnter(q)
    BY <1>2, EnterMaps DEF HeartbeatEnter, FinishEnter
  <1>3. CASE HeartbeatLoad(q) \/ FinishLoad(q)
    <2>1. \E view : Proceed("leaving", view) \/ Proceed("saving", view)
      BY <1>3 DEF HeartbeatLoad, FinishLoad
    <2> QED BY <1>3, <2>1, ProceedMaps DEF HeartbeatLoad, FinishLoad
  <1>4. CASE HeartbeatExit(q)
    BY <1>4, LeaveMaps DEF HeartbeatExit, Exit, Outside, LiveRequests, In
  <1>5. CASE WorkEnds(q) \/ Released(q) \/ ConnectionFails(q) \/ FinishBusy(q) \/ FinishExit(q)
    <2>1. UNCHANGED registry /\ (UNCHANGED section \/ section' = Outside)
      BY <1>5 DEF WorkEnds, Released, ConnectionFails, FinishBusy, FinishExit, Exit
    <2>2. \/ UNCHANGED phase
          \/ \E p \in {"finishing", "over", "releasing"} : phase' = [phase EXCEPT ![q] = p]
      BY <1>5 DEF WorkEnds, Released, ConnectionFails, FinishBusy, FinishExit
    <2>3. LiveRequests' \subseteq LiveRequests
      BY <2>1, <2>2 DEF LiveRequests, In, Outside, IInv, TypeOK
    <2> QED BY <2>1, <2>3, LeaveMaps
  <1> QED BY <1>1, <1>2, <1>3, <1>4, <1>5 DEF Heartbeat, Release

LEMMA CleanupMaps ==
    ASSUME IInv, LockInv, NEW p \in Processes, Restart(p) \/ Cleanup(p) \/ Crash(p)
    PROVE  AbstractStep
  <1>1. CASE Restart(p) \/ CleanupBusy(p)
    BY <1>1, LeaveMaps DEF Restart, CleanupBusy, LiveRequests, In
  <1>2. CASE CleanupEnter(p)
    BY <1>2, EnterMaps DEF CleanupEnter
  <1>3. CASE CleanupLoad(p)
    <2>1. \E view : Proceed("leaving", view) \/ Proceed("saving", view)
      BY <1>3 DEF CleanupLoad
    <2> QED BY <1>3, <2>1, ProceedMaps DEF CleanupLoad
  <1>4. CASE CleanupExit(p)
    BY <1>4, LeaveMaps DEF CleanupExit, Exit, Outside, LiveRequests, In
  <1>5. CASE Crash(p)
    <2>1. UNCHANGED registry /\ (UNCHANGED section \/ section' = Outside)
      BY <1>5 DEF Crash
    <2>2. \A q \in Requests : phase'[q] = "running" => phase[q] = "running"
      BY <1>5 DEF Crash
    <2>3. LiveRequests' \subseteq LiveRequests
      BY <2>1, <2>2 DEF LiveRequests, In, Outside
    <2> QED BY <2>1, <2>3, LeaveMaps
  <1> QED BY <1>1, <1>2, <1>3, <1>4, <1>5 DEF Cleanup

LEMMA SaveMaps ==
    ASSUME IInv, LockInv, ViewDue, Save
    PROVE  AbstractStep
  <1>1. section.stage = "saving" /\ registry' = section.view /\ UNCHANGED phase
    BY DEF Save
  <1>2. section'.op = section.op /\ section'.who = section.who /\ section'.stage = "saved"
    BY ProceedView DEF Save
  <1>3. \A q \in Requests : In("register", q, "saved")'
            <=> section.op = "register" /\ section.who = q
    BY <1>2 DEF In
  <1>4. \A q \in Requests : ~In("register", q, "saved")
    BY <1>1 DEF In
  <1>5. CASE section.op = "register"
    <2>1. section.who \in Requests
      BY <1>5 DEF IInv, Owned
    <2>2. LiveRequests' = LiveRequests \cup {section.who}
      BY <1>1, <1>3, <1>4, <1>5, <2>1 DEF LiveRequests
    <2> QED BY <1>1, <1>5, <2>2, WriteMaps
  <1>6. CASE section.op # "register"
    <2>1. LiveRequests' = LiveRequests
      BY <1>1, <1>3, <1>4, <1>6 DEF LiveRequests
    <2> QED BY <1>1, <2>1, WriteMaps
  <1> QED BY <1>5, <1>6

LEMMA FailureMaps ==
    ASSUME IInv, LockInv, ViewDue, NEW applied \in BOOLEAN, SectionFails(applied)
    PROVE  AbstractStep
  <1>1. section' = Outside /\ section.stage \in {"locked", "claiming", "saving"}
    BY DEF SectionFails, Exit
  <1>2. \A q \in Requests : phase'[q] = "running" <=> phase[q] = "running"
    <2>1. CASE section.op \in {"register", "finish"}
      <3>1. phase' = [phase EXCEPT ![section.who] = "releasing"]
        BY <2>1 DEF SectionFails
      <3>2. section.who \in Requests => phase[section.who] \in {"requested", "finishing"}
        BY <2>1 DEF LockInv, Matched
      <3> QED BY <3>1, <3>2 DEF IInv, TypeOK
    <2>2. CASE section.op \notin {"register", "finish"}
      BY <2>2 DEF SectionFails
    <2> QED BY <2>1, <2>2
  <1>3. LiveRequests' = LiveRequests
    BY <1>1, <1>2 DEF LiveRequests, In, Outside
  <1>4. CASE applied
    BY <1>3, <1>4, WriteMaps DEF SectionFails
  <1>5. CASE ~applied
    BY <1>3, <1>5, LeaveMaps DEF SectionFails
  <1> QED BY <1>4, <1>5

LEMMA NextMaps ==
    ASSUME IInv, LockInv, ViewDue, [Next]_vars
    PROVE  AbstractStep
  <1>1. CASE Tick
    <2>1. /\ section'.op = section.op /\ section'.who = section.who
          /\ section'.stage = section.stage /\ UNCHANGED phase
      BY <1>1 DEF Tick, IInv, TypeOK, Sections
    <2>2. LiveRequests' = LiveRequests
      BY <2>1 DEF LiveRequests, In
    <2>3. registry' = Aged(registry)
      BY <1>1 DEF Tick
    <2> QED BY <2>2, <2>3, SameOperators DEF AbstractStep, Registry!Next, Registry!Time
  <1>2. CASE UNCHANGED vars
    BY <1>2, LeaveMaps DEF vars, LiveRequests, In
  <1> QED BY <1>1, <1>2, RegisterMaps, ReleaseMaps, CleanupMaps, SaveMaps, FailureMaps DEF Next

\* The read-modify-write sections of registerRun, heartbeatRun, finishRun and
\* cleanupStaleRuns, run by concurrent requests and processes that may fail
\* or die between any two steps, are as good as a registry whose operations
\* are atomic.
THEOREM CoordinatorImplementsRegistry == Spec => ImplementsRegistry
  <1>1. Init => Registry!Init /\ ViewDue
    BY ProcessAssumption
       DEF Init, Registry!Init, LiveRequests, In, ViewDue, Outside
  <1>2. IInv /\ ViewDue /\ [Next]_vars => ViewDue'
    BY ViewStep
  <1>3. IInv /\ LockInv /\ ViewDue /\ [Next]_vars
            => [Registry!Next]_(Registry!registryVars)
    BY NextMaps DEF AbstractStep, Registry!registryVars
  <1> QED
    BY <1>1, <1>2, <1>3, InitLockInv, NextLockInv, CoordinatorInvariant, PTL
    DEF Spec, ImplementsRegistry, Registry!Spec


-----------------------------------------------------------------------------
(***************************************************************************)
(* No entry is lost.  A view carries every fresh entry of the registry it  *)
(* is to replace, except that a finish leaves out the entry with the run   *)
(* identifier of its request (ViewDue).  That the entry left out is the    *)
(* one of that request is another matter: the registry is keyed by run     *)
(* identifiers, a client may choose them, and a run whose entry went stale *)
(* may find its identifier taken.  It cannot when requests that use one    *)
(* identifier share a scope lock, since a run keeps its locks until it has *)
(* finished.                                                               *)
(***************************************************************************)

IdsShareLocks ==
    \A q, r \in Requests :
        q # r /\ RunIdOf[q] = RunIdOf[r]
            => ScopeLocks(ScopeOf(q)) \cap ScopeLocks(ScopeOf(r)) # {}

\* The requests that have been granted and have not finished.
Unfinished == LiveRequests \cup {q \in Requests : phase[q] = "finishing"}

\* Another's entry under the identifier of q.
Usurps(n, q) == RunIdOf[n.req] = RunIdOf[q] /\ n.req # q /\ ~IsStale(n)

\* The identifier of an unfinished request is not taken, and the view of the
\* section takes it for the request that is registering at most.
IdsKept ==
    \A q \in Unfinished :
        /\ \A n \in registry : ~Usurps(n, q)
        /\ \A n \in section.view :
                Usurps(n, q) => section.op = "register" /\ section.who = n.req

\* A step that keeps the registry, and drops the view or keeps the section.
LEMMA CalmKeeps ==
    ASSUME IdsKept, UNCHANGED registry, Unfinished' \subseteq Unfinished,
           \/ section'.view = {}
           \/ /\ section'.view = section.view /\ section'.op = section.op
              /\ section'.who = section.who
    PROVE  IdsKept'
  BY DEF IdsKept, Usurps

\* A view that takes no identifier, or takes one for who is registering.
LEMMA LoadKeeps ==
    ASSUME IInv, IdsKept, NEW stage, NEW view, Proceed(stage, view), UNCHANGED registry,
           Unfinished' \subseteq Unfinished,
           \A q \in Unfinished : \A n \in view :
                Usurps(n, q) => section.op = "register" /\ section.who = n.req
    PROVE  IdsKept'
  BY ProceedView DEF IdsKept, Usurps

\* Only a save lets a request join the unfinished ones.
LEMMA UnfinishedStep ==
    ASSUME IInv, [Next]_vars, ~Save
    PROVE  Unfinished' \subseteq Unfinished
  <1> DEFINE granted(q) == phase[q] \in {"running", "finishing"} \/ In("register", q, "saved")
  <1>1. phase \in [Requests -> {"idle", "requested", "running", "finishing",
                               "releasing", "over"}]
    BY DEF IInv, TypeOK
  <1>2. Unfinished = {q \in Requests : granted(q)}
    BY DEF Unfinished, LiveRequests
  <1>3. Unfinished' = {q \in Requests : granted(q)'}
    BY DEF Unfinished, LiveRequests
  <1>4. SUFFICES ASSUME NEW q \in Requests, granted(q)' PROVE granted(q)
    BY <1>2, <1>3
  <1> HIDE <1>2, <1>3
  <1>5. CASE UNCHANGED section /\ UNCHANGED phase
    BY <1>4, <1>5 DEF In
  <1>6. CASE section'.stage # "saved" /\ UNCHANGED phase
    BY <1>4, <1>6 DEF In
  <1>7. ASSUME NEW r \in Requests, NEW p \in {"requested", "over", "releasing"},
               phase' = [phase EXCEPT ![r] = p], UNCHANGED section \/ section' = Outside
        PROVE  granted(q)
    BY <1>1, <1>4, <1>7 DEF In, Outside
  <1>8. ASSUME NEW r \in Requests, Request(r) \/ RegisterBusy(r) \/ Released(r)
                                   \/ ConnectionFails(r)
        PROVE  granted(q)
    BY <1>7, <1>8 DEF Request, RegisterBusy, Released, ConnectionFails
  <1>9. ASSUME NEW r \in Requests, RegisterExit(r)
        PROVE  granted(q)
    <2>1. CASE section.stage = "saved"
      BY <1>1, <1>4, <1>9, <2>1 DEF RegisterExit, Exit, Outside, In
    <2>2. CASE section.stage # "saved"
      BY <1>7, <1>9, <2>2 DEF RegisterExit, Exit
    <2> QED BY <2>1, <2>2
  <1>10. ASSUME NEW r \in Requests, WorkEnds(r)
         PROVE  granted(q)
    BY <1>1, <1>4, <1>10 DEF WorkEnds, In
  <1>11. ASSUME NEW r \in Requests, FinishBusy(r)
         PROVE  granted(q)
    BY <1>5, <1>7, <1>11 DEF FinishBusy
  <1>12. ASSUME NEW r \in Requests, FinishExit(r)
         PROVE  granted(q)
    BY <1>7, <1>12 DEF FinishExit, Exit
  <1>13. ASSUME NEW p \in Processes, Crash(p)
         PROVE  granted(q)
    <2>1. phase'[q] \in {"running", "finishing"} => phase[q] \in {"running", "finishing"}
      BY <1>13 DEF Crash
    <2>2. section' = Outside \/ section' = section
      BY <1>13 DEF Crash
    <2> QED BY <1>4, <2>1, <2>2 DEF In, Outside
  <1>14. ASSUME NEW applied \in BOOLEAN, SectionFails(applied)
         PROVE  granted(q)
    <2>1. section' = Outside
      BY <1>14 DEF SectionFails, Exit
    <2>2. phase'[q] \in {"running", "finishing"} => phase[q] \in {"running", "finishing"}
      BY <1>1, <1>14 DEF SectionFails
    <2> QED BY <1>4, <2>1, <2>2 DEF In, Outside
  <1>15. CASE Tick
    BY <1>4, <1>15 DEF Tick, In, IInv, TypeOK, Sections
  <1>16. CASE \E op, who : Enter(op, who) /\ UNCHANGED phase
    BY <1>6, <1>16 DEF Enter
  <1>17. CASE \E view : \/ Proceed("leaving", view) /\ UNCHANGED phase
                        \/ Proceed("claiming", view) /\ UNCHANGED phase
                        \/ Proceed("saving", view) /\ UNCHANGED phase
    BY <1>6, <1>17, ProceedView
  <1>18. ASSUME NEW r \in Requests, RegisterEnter(r) \/ HeartbeatEnter(r) \/ FinishEnter(r)
         PROVE  granted(q)
    BY <1>16, <1>18 DEF RegisterEnter, HeartbeatEnter, FinishEnter
  <1>19. ASSUME NEW r \in Requests, RegisterLoad(r) \/ Claimed(r) \/ HeartbeatLoad(r)
                                    \/ FinishLoad(r)
         PROVE  granted(q)
    BY <1>17, <1>19 DEF RegisterLoad, Claimed, HeartbeatLoad, FinishLoad
  <1>20. ASSUME NEW r \in Requests, NEW key \in LockKeys, Claim(r, key) \/ ReleaseLock(r, key)
         PROVE  granted(q)
    BY <1>5, <1>17, <1>20 DEF Claim, ReleaseLock
  <1>21. ASSUME NEW r \in Requests, SendHeartbeat(r) \/ HeartbeatLost(r)
         PROVE  granted(q)
    BY <1>5, <1>21 DEF SendHeartbeat, HeartbeatLost
  <1>22. ASSUME NEW r \in Requests, HeartbeatExit(r)
         PROVE  granted(q)
    BY <1>6, <1>22 DEF HeartbeatExit, Exit, Outside
  <1>23. ASSUME NEW p \in Processes, Restart(p) \/ Cleanup(p)
         PROVE  granted(q)
    <2>1. CASE Restart(p) \/ CleanupBusy(p)
      BY <1>5, <2>1 DEF Restart, CleanupBusy
    <2>2. CASE CleanupEnter(p)
      BY <1>16, <2>2 DEF CleanupEnter
    <2>3. CASE CleanupLoad(p)
      BY <1>17, <2>3 DEF CleanupLoad
    <2>4. CASE CleanupExit(p)
      BY <1>6, <2>4 DEF CleanupExit, Exit, Outside
    <2> QED BY <1>23, <2>1, <2>2, <2>3, <2>4 DEF Cleanup
  <1>24. CASE UNCHANGED vars
    BY <1>5, <1>24 DEF vars
  <1> HIDE DEF granted
  <1> QED BY <1>8, <1>9, <1>10, <1>11, <1>12, <1>13, <1>14, <1>15, <1>18, <1>19, <1>20,
             <1>21, <1>22, <1>23, <1>24
          DEF Next, Register, Heartbeat, Release

\* What a section saves, or is found to have saved, is what it loaded; nobody
\* who is unfinished shares an identifier with who has just been granted.
LEMMA WriteKeeps ==
    ASSUME IInv, LockInv, ViewDue, IdsKept, IdsShareLocks, section.stage = "saving",
           registry' = section.view, section'.view = {},
           Unfinished' \subseteq Unfinished \cup
                (IF section.op = "register" THEN {section.who} ELSE {})
    PROVE  IdsKept'
  <1> SUFFICES ASSUME NEW q \in Unfinished', NEW n \in section.view, Usurps(n, q)
               PROVE  FALSE
    BY DEF IdsKept, Usurps
  <1>1. CASE q \in Unfinished /\ section.op = "register" /\ section.who = n.req
    <2>1. n.req \in Requests /\ q \in Requests /\ RunIdOf[n.req] = RunIdOf[q] /\ n.req # q
      BY <1>1 DEF Usurps, IInv, Owned, Unfinished, LiveRequests
    <2>2. held[q] = ScopeLocks(ScopeOf(q))
      <3>1. CASE q \in LiveRequests
        BY <2>1, <3>1, SavedLive
      <3>2. CASE phase[q] = "finishing"
        BY <2>1, <3>2 DEF LockInv, Settled
      <3> QED BY <1>1, <3>1, <3>2 DEF Unfinished
    <2>3. held[n.req] = ScopeLocks(ScopeOf(n.req))
      BY <1>1 DEF LockInv, Registering
    <2>4. held[n.req] \cap held[q] = {}
      BY <2>1 DEF LockInv, Disjoint
    <2> QED BY <2>1, <2>2, <2>3, <2>4 DEF IdsShareLocks
  <1>2. CASE q \notin Unfinished
    <2>1. section.op = "register" /\ section.who = q
      BY <1>2
    <2>2. PICK kept \in Kept(registry), age \in Ages :
                /\ \A m \in kept : ~Conflict(q, m.req)
                /\ section.view = kept \cup {[req |-> q, age |-> age]}
      BY <2>1 DEF ViewDue, Enrolled
    <2>3. n \in kept
      BY <2>2 DEF Usurps
    <2> QED BY <2>2, <2>3 DEF Usurps, Conflict
  <1> QED BY <1>1, <1>2 DEF IdsKept

LEMMA KeepsStep ==
    ASSUME IInv, LockInv, ViewDue, IdsKept, IdsShareLocks, [Next]_vars
    PROVE  IdsKept'
  <1>1. CASE Save
    <2>1. /\ section.stage = "saving" /\ registry' = section.view /\ UNCHANGED phase
          /\ section'.op = section.op /\ section'.who = section.who
          /\ section'.stage = "saved" /\ section'.view = {}
      BY <1>1, ProceedView DEF Save
    <2>2. Unfinished' \subseteq Unfinished \cup
                (IF section.op = "register" THEN {section.who} ELSE {})
      BY <2>1 DEF Unfinished, LiveRequests, In
    <2> QED BY <2>1, <2>2, WriteKeeps
  <1> SUFFICES ASSUME ~Save PROVE IdsKept'
    BY <1>1
  <1>2. Unfinished' \subseteq Unfinished
    BY UnfinishedStep
  <1>3. CASE UNCHANGED <<registry, section>>
    BY <1>2, <1>3, CalmKeeps
  <1>4. CASE UNCHANGED registry /\ section'.view = {}
    BY <1>2, <1>4, CalmKeeps
  <1>5. CASE \E view : Proceed("leaving", {}) /\ UNCHANGED registry
    BY <1>4, <1>5, ProceedView
  <1>6. ASSUME NEW q \in Requests, RegisterLoad(q) PROVE IdsKept'
    <2> DEFINE view == Fresh(registry) \cup {[req |-> q, age |-> startAge[q]]}
    <2>1. CASE \E n \in Fresh(registry) : Conflict(q, n.req)
      BY <1>5, <1>6, <2>1 DEF RegisterLoad
    <2>2. CASE ~\E n \in Fresh(registry) : Conflict(q, n.req)
      <3>1. Proceed("claiming", view) /\ section.op = "register" /\ section.who = q
            /\ UNCHANGED registry
        BY <1>6, <2>2 DEF RegisterLoad, In
      <3>2. \A n \in view : n \in registry \/ n.req = q
        BY DEF Fresh
      <3> HIDE DEF view
      <3> QED BY <1>2, <3>1, <3>2, LoadKeeps DEF IdsKept
    <2> QED BY <2>1, <2>2
  <1>7. ASSUME NEW q \in Requests, NEW key, Claim(q, key) PROVE IdsKept'
    BY <1>3, <1>5, <1>7 DEF Claim
  <1>8. ASSUME NEW q \in Requests, Claimed(q) PROVE IdsKept'
    <2>1. /\ UNCHANGED registry /\ section'.view = section.view
          /\ section'.op = section.op /\ section'.who = section.who
      BY <1>8, ProceedView DEF Claimed
    <2> QED BY <1>2, <2>1, CalmKeeps
  <1>9. ASSUME NEW q \in Requests, HeartbeatLoad(q) PROVE IdsKept'
    <2> DEFINE view == Refreshed(Fresh(registry), q, 0)
    <2>1. Proceed("saving", view) \/ Proceed("leaving", {})
      BY <1>9 DEF HeartbeatLoad
    <2>2. UNCHANGED registry
      BY <1>9 DEF HeartbeatLoad
    <2>3. \A n \in view : \E m \in Fresh(registry) : n.req = m.req
      BY DEF Refreshed, IInv, TypeOK, Entries, Fresh
    <2>4. \A r \in Unfinished, n \in view : ~Usurps(n, r)
      BY <2>3 DEF IdsKept, Usurps, Fresh
    <2> HIDE DEF view
    <2> QED BY <1>2, <1>5, <2>1, <2>2, <2>4, LoadKeeps
  <1>10. ASSUME NEW q \in Requests, FinishLoad(q) PROVE IdsKept'
    <2> DEFINE view == WithoutRun(Fresh(registry), q)
    <2>1. (Proceed("saving", view) \/ Proceed("leaving", {})) /\ UNCHANGED registry
      BY <1>10 DEF FinishLoad
    <2>2. view \subseteq registry
      BY DEF WithoutRun, Fresh
    <2> HIDE DEF view
    <2> QED BY <1>2, <1>5, <2>1, <2>2, LoadKeeps DEF IdsKept
  <1>11. ASSUME NEW p \in Processes, CleanupLoad(p) PROVE IdsKept'
    <2> DEFINE view == Fresh(registry)
    <2>1. (Proceed("saving", view) \/ Proceed("leaving", {})) /\ UNCHANGED registry
      BY <1>11 DEF CleanupLoad
    <2>2. view \subseteq registry
      BY DEF Fresh
    <2> HIDE DEF view
    <2> QED BY <1>2, <1>5, <2>1, <2>2, LoadKeeps DEF IdsKept
  <1>12. CASE Tick
    <2>1. /\ registry' = Aged(registry) /\ section'.view = Aged(section.view)
          /\ section'.op = section.op /\ section'.who = section.who
      BY <1>12 DEF Tick, IInv, TypeOK, Sections
    <2>2. registry \in SUBSET Entries /\ section.view \in SUBSET Entries
      BY DEF IInv, TypeOK, Sections
    <2>3. ASSUME NEW S \in SUBSET Entries, NEW n \in Aged(S), NEW q, Usurps(n, q)
          PROVE  \E m \in S : m.req = n.req /\ Usurps(m, q)
      <3>1. PICK m \in S : n = [m EXCEPT !.age = Older(m.age)]
        BY DEF Aged
      <3>2. n.req = m.req /\ (IsStale(m) => IsStale(n))
        BY <3>1, AgedEntry
      <3> QED BY <2>3, <3>2 DEF Usurps
    <2> QED BY <1>2, <2>1, <2>2, <2>3 DEF IdsKept, Usurps
  <1>13. ASSUME NEW p \in Processes, Crash(p) PROVE IdsKept'
    BY <1>3, <1>4, <1>13 DEF Crash, Outside
  <1>14. ASSUME NEW applied \in BOOLEAN, SectionFails(applied) PROVE IdsKept'
    <2>1. section'.view = {}
      BY <1>14 DEF SectionFails, Exit, Outside
    <2>2. CASE applied
      BY <1>2, <1>14, <2>1, <2>2, WriteKeeps DEF SectionFails
    <2> QED BY <1>4, <1>14, <2>1, <2>2 DEF SectionFails
  <1>15. ASSUME NEW q \in Requests,
                \/ Request(q) \/ RegisterBusy(q) \/ SendHeartbeat(q) \/ HeartbeatLost(q)
                \/ WorkEnds(q) \/ FinishBusy(q) \/ Released(q) \/ ConnectionFails(q)
                \/ (\E key \in LockKeys : ReleaseLock(q, key))
         PROVE  IdsKept'
    BY <1>3, <1>15 DEF Request, RegisterBusy, SendHeartbeat, HeartbeatLost, WorkEnds,
       FinishBusy, Released, ConnectionFails, ReleaseLock
  <1>16. ASSUME NEW q \in Requests,
                \/ RegisterEnter(q) \/ RegisterExit(q) \/ HeartbeatEnter(q)
                \/ HeartbeatExit(q) \/ FinishEnter(q) \/ FinishExit(q)
         PROVE  IdsKept'
    BY <1>4, <1>16 DEF RegisterEnter, RegisterExit, HeartbeatEnter, HeartbeatExit,
       FinishEnter, FinishExit, Exit, Enter, Outside
  <1>17. ASSUME NEW p \in Processes, Restart(p) \/ CleanupBusy(p)
         PROVE  IdsKept'
    BY <1>3, <1>17 DEF Restart, CleanupBusy
  <1>18. ASSUME NEW p \in Processes, CleanupEnter(p) \/ CleanupExit(p)
         PROVE  IdsKept'
    BY <1>4, <1>18 DEF CleanupEnter, CleanupExit, Enter, Exit, Outside
  <1>19. CASE UNCHANGED vars
    BY <1>3, <1>19 DEF vars
  <1> QED BY <1>6, <1>7, <1>8, <1>9, <1>10, <1>11, <1>12, <1>13, <1>14, <1>15, <1>16, <1>17,
             <1>18, <1>19
          DEF Next, Register, Heartbeat, Release, Cleanup

\* An entry that a step takes from the registry is due to leave.
DueToLeave ==
    \A n \in registry :
        \/ \E m \in registry' : m.req = n.req
        \/ IsStale(n)
        \/ phase[n.req] = "finishing"

LEMMA WriteDue ==
    ASSUME IInv, LockInv, ViewDue, IdsKept, section.stage = "saving",
           registry' = section.view
    PROVE  DueToLeave
  <1> SUFFICES ASSUME NEW n \in registry, ~IsStale(n), phase[n.req] # "finishing"
               PROVE  \E m \in section.view : m.req = n.req
    BY DEF DueToLeave
  <1>1. \A kept \in Kept(registry) : n \in kept
    BY DEF Kept, Fresh
  <1>2. CASE section.op = "register"
    BY <1>1, <1>2 DEF ViewDue, Enrolled
  <1>3. CASE section.op = "heartbeat"
    <2>1. PICK kept \in Kept(registry), age \in Ages :
                section.view = Refreshed(kept, section.who, age)
      BY <1>3 DEF ViewDue, Beaten
    <2>2. \A m \in Entries : [m EXCEPT !.age = age].req = m.req
      BY DEF Entries
    <2> QED BY <1>1, <2>1, <2>2 DEF Refreshed, IInv, TypeOK
  <1>4. CASE section.op = "finish"
    <2>1. PICK kept \in Kept(registry) : section.view = WithoutRun(kept, section.who)
      BY <1>4 DEF ViewDue, Removed
    <2>2. section.who \in Unfinished /\ phase[section.who] = "finishing"
      BY <1>4 DEF LockInv, Matched, IInv, Owned, Unfinished
    <2>3. RunIdOf[n.req] # RunIdOf[section.who]
      BY <2>2 DEF IdsKept, Usurps
    <2> QED BY <1>1, <2>1, <2>3 DEF WithoutRun
  <1>5. CASE section.op = "cleanup"
    BY <1>1, <1>5 DEF ViewDue
  <1> QED BY <1>2, <1>3, <1>4, <1>5 DEF IInv, TypeOK, Owned, Sections, Outside

LEMMA NextDue ==
    ASSUME IInv, LockInv, ViewDue, IdsKept, [Next]_vars
    PROVE  DueToLeave
  <1>1. CASE UNCHANGED registry
    BY <1>1 DEF DueToLeave
  <1>2. CASE section.stage = "saving" /\ registry' = section.view
    BY <1>2, WriteDue
  <1>3. CASE Tick
    BY <1>3, AgedEntry DEF Tick, Aged, DueToLeave, IInv, TypeOK
  <1>4. ASSUME ~Tick, registry' # registry
        PROVE  section.stage = "saving" /\ registry' = section.view
    BY <1>4 DEF Next, vars, Register, Heartbeat, Release, Cleanup, Request, RegisterEnter,
       RegisterBusy, RegisterLoad, Claim, Claimed, RegisterExit, SendHeartbeat,
       HeartbeatEnter, HeartbeatLost, HeartbeatLoad, HeartbeatExit, WorkEnds, FinishEnter,
       FinishBusy, FinishLoad, FinishExit, ReleaseLock, Released, ConnectionFails, Restart,
       CleanupEnter, CleanupBusy, CleanupLoad, CleanupExit, Crash, Save, SectionFails
  <1> QED BY <1>1, <1>2, <1>3, <1>4

\* No update of the registry is lost: while requests that use one run
\* identifier share a scope lock, an entry disappears only when its own
\* request is finishing or its heartbeat is stale.
THEOREM CoordinatorLosesNoEntry ==
    ASSUME IdsShareLocks
    PROVE  Spec => EntriesLeaveOnlyWhenDue
  <1>1. Init => ViewDue /\ IdsKept
    BY ProcessAssumption
       DEF Init, ViewDue, IdsKept, Unfinished, LiveRequests, In, Outside
  <1>2. IInv /\ ViewDue /\ [Next]_vars => ViewDue'
    BY ViewStep
  <1>3. IInv /\ LockInv /\ ViewDue /\ IdsKept /\ [Next]_vars => IdsKept'
    BY KeepsStep
  <1>4. IInv /\ LockInv /\ ViewDue /\ IdsKept /\ [Next]_vars
            => [DueToLeave]_vars
    BY NextDue
  <1>5. Spec => [][DueToLeave]_vars
    BY <1>1, <1>2, <1>3, <1>4, InitLockInv, NextLockInv, CoordinatorInvariant, PTL
    DEF Spec
  <1> QED BY <1>5, PTL DEF EntriesLeaveOnlyWhenDue, DueToLeave

=============================================================================
