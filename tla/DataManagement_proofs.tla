------------------------ MODULE DataManagement_proofs ------------------------
(***************************************************************************)
(* For any engagements, archives and requests: what a committed deletion   *)
(* deletes is in its archive, a deletion is done or undone as a whole, and *)
(* no policy changes under a Sync All.                                     *)
(***************************************************************************)
EXTENDS DataManagement, TLAPS

Fields == {"kind", "at", "archive", "engs", "purpose", "record", "seen", "todo", "disable",
           "before", "broken", "stuck", "mixed"}

Kinds == {"none", "export", "import", "promote", "policy", "safe", "reset", "remove", "delete",
          "commit", "browse", "download", "list", "view"}

Removing == {"finding", "removing", "unlinking"}
Undoing == {"candidates", "transaction", "policies", "loading", "findings", "records",
            "manifest", "unregistering", "referring", "restoring", "undoing"}

\* How far a request of each kind can have come.
Stages(kind) ==
    CASE kind = "none" -> {"idle"}
      [] kind = "export" -> {"entering", "working", "reading", "saving", "leaving"}
      [] kind = "import" -> {"entering", "working", "saving", "leaving"}
      [] kind = "promote" -> {"entering", "working", "moving", "saving", "leaving"}
      [] kind \in {"policy", "safe"} -> {"entering", "working", "leaving"}
      [] kind = "reset" -> {"entering", "working", "sweeping", "clearing", "leaving"} \cup Removing
      [] kind = "remove" -> {"entering", "leaving"} \cup Removing
      [] kind = "delete" -> {"entering", "working", "settings", "auditing", "leaving"} \cup Undoing
      [] kind = "commit" -> {"entering", "working", "settings", "auditing", "leaving"} \cup Undoing
                            \cup Removing
      [] kind = "browse" -> {"saving"}
      [] kind = "download" -> {"streaming", "marking", "saving"} \cup Removing
      [] kind = "list" -> Removing
      [] kind = "view" -> {"registering", "storing", "judging", "pruning"}

Shape(o) == DOMAIN o = Fields /\ o.kind \in Kinds /\ o.at \in Stages(o.kind)

\* The requests that have the maintenance lock.
Holding(o) ==
    /\ o.kind \notin {"none", "browse", "download", "list", "view"} /\ o.at # "entering"
    /\ ~(o.kind = "commit" /\ o.at \in Removing)

Shaped == DOMAIN op = Requests /\ \A r \in Requests : Shape(op[r])
LockExact ==
    /\ holder \in Requests \cup {Nobody}
    /\ \A r \in Requests : holder = r <=> Holding(op[r])

\* A stage of the deletion belongs to one kind of storage, and no Sync All is under way
\* while the lock is held.
JsonOnly == {"policies", "storing", "restoring"} \cup JsonSteps
PostgresOnly == {"candidates", "transaction"}
OfStorage(o) ==
    /\ o.at \in JsonOnly => storage = "json"
    /\ o.at \in PostgresOnly => storage = "postgresql"
    /\ o.mixed => storage = "json"
Apart ==
    /\ storage \in {"postgresql", "json"}
    /\ holder # Nobody => syncing = {}
    /\ \A r \in Requests : OfStorage(op[r])

-----------------------------------------------------------------------------
(* Requests, the lock, and the storage that a stage belongs to. *)

Mine(r) == \A p \in Requests \ {r} : op'[p] = op[p]

\* A request becomes another one; it takes the lock, leaves it or does neither.
Becomes(r, new) ==
    /\ op' = [op EXCEPT ![r] = new] /\ Shape(new)
    /\ \/ holder' = holder /\ (Holding(new) <=> Holding(op[r]))
       \/ holder = Nobody /\ holder' = r /\ Holding(new)
       \/ holder = r /\ holder' = Nobody /\ ~Holding(new)

LEMMA BecomesShaped ==
    ASSUME Shaped, LockExact, NEW r \in Requests, NEW new, Becomes(r, new)
    PROVE  Shaped' /\ LockExact' /\ op'[r] = new /\ Mine(r)
  <1>1. DOMAIN op' = Requests /\ op'[r] = new /\ Mine(r)
    BY DEF Becomes, Shaped, Mine
  <1>2. Shaped'
    BY <1>1 DEF Becomes, Shaped, Mine
  <1>3. LockExact'
    BY <1>1, DataAssumption DEF Becomes, LockExact, Mine
  <1> QED BY <1>1, <1>2, <1>3

LEMMA IdleShape == Shape(Idle) /\ ~Holding(Idle) /\ Idle.kind = "none" /\ Idle.at = "idle"
  BY DEF Shape, Idle, Fields, Kinds, Stages, Holding

LEMMA AtShape ==
    ASSUME NEW o, Shape(o), NEW at \in Stages(o.kind)
    PROVE  LET t == [o EXCEPT !.at = at] IN
           Shape(t) /\ t.at = at /\ \A x \in Fields \ {"at"} : t[x] = o[x]
  BY DEF Shape, Fields

LEMMA GoShaped ==
    ASSUME Shaped, LockExact, NEW r \in Requests, NEW at \in Stages(op[r].kind), Go(r, at),
           UNCHANGED holder, at # "entering", op[r].at # "entering",
           op[r].kind = "commit" => (at \in Removing <=> op[r].at \in Removing)
    PROVE  Shaped' /\ LockExact' /\ op'[r] = [op[r] EXCEPT !.at = at] /\ Mine(r)
  <1> DEFINE t == [op[r] EXCEPT !.at = at]
  <1>1. Shape(t) /\ t.at = at /\ t.kind = op[r].kind
    BY AtShape DEF Shaped, Fields
  <1>2. op' = [op EXCEPT ![r] = t]
    BY DEF Go
  <1> HIDE DEF t
  <1>3. Becomes(r, t)
    BY <1>1, <1>2 DEF Becomes, Holding
  <1>4. Shaped' /\ LockExact' /\ op'[r] = t /\ Mine(r)
    BY <1>3, BecomesShaped
  <1> QED BY <1>4 DEF t

LEMMA EndsShaped ==
    ASSUME Shaped, LockExact, NEW r \in Requests, Ends(r),
           \/ UNCHANGED holder /\ ~Holding(op[r])
           \/ holder = r /\ holder' = Nobody
    PROVE  Shaped' /\ LockExact' /\ op'[r] = Idle /\ Mine(r)
  BY IdleShape, BecomesShaped DEF Becomes, Ends

LEMMA StagesOf ==
    ASSUME NEW o, Shape(o)
    PROVE  /\ o.at = "idle" => o.kind = "none"
           /\ o.kind = "none" => o.at = "idle"
           /\ o.at \in {"registering", "storing", "judging", "pruning"} => o.kind = "view"
           /\ o.at \in Undoing \cup {"settings", "auditing"} => o.kind \in {"delete", "commit"}
           /\ o.at \in Removing => o.kind \in {"reset", "remove", "commit", "download", "list"}
           /\ o.at = "saving" => o.kind \in {"export", "import", "promote", "browse", "download"}
           /\ o.at \in {"entering", "leaving"} => o.kind \notin {"none", "browse", "download", "list", "view"}
           /\ Holding(o) => "leaving" \in Stages(o.kind)
  BY DEF Shape, Kinds, Stages, Holding, Removing, Undoing

-----------------------------------------------------------------------------
(* Requests that start. *)

Begins(r) ==
    Exports(r) \/ Locked(r) \/ Commits(r) \/ Browses(r) \/ Downloads(r) \/ Lists(r) \/ Views(r)

\* What a request starts with.
NewRequest(n) ==
    /\ Shape(n) /\ ~Holding(n) /\ n.seen = Absent /\ n.before = Absent /\ n.todo = {}
    /\ ~n.stuck /\ ~n.mixed /\ n.engs \subseteq Engagements
    /\ n.purpose \in {"export", "export-delete"}
    /\ n.at \in {"entering", "saving", "streaming", "finding", "registering"}
    /\ n.at = "entering" <=> n.kind \notin {"browse", "download", "list", "view"}
    /\ n.at = "saving" => n.kind = "browse"
    /\ n.at = "finding" => n.kind = "list"
    /\ n.at = "streaming" => n.kind = "download"
    /\ n.kind \in {"export", "import"} => n.archive \in Archives /\ Unused(n.archive)
    /\ n.kind \in {"promote", "remove", "list"} => n.archive \in Archives /\ catalog[n.archive] # Absent
    /\ n.kind = "commit" => n.archive \in Archives /\ Committable(n.archive)
    /\ n.kind \in {"browse", "download"} => n.archive \in Archives /\ Found(n.archive)
    /\ n.kind = "browse" => n.record = Touched(catalog[n.archive])
    /\ n.kind \in {"view", "browse", "download", "list", "export", "import", "promote", "policy",
                   "safe", "reset", "remove", "delete", "commit"}

LEMMA SelectionsOK ==
    ASSUME NEW engs \in Selections
    PROVE  engs \subseteq Engagements
  BY DEF Selections

LEMMA BeginsLemma ==
    ASSUME NEW r \in Requests, Begins(r)
    PROVE  \E n : Start(r, n) /\ NewRequest(n)
  <1>1. CASE Exports(r)
    <2>1. PICK engs \in Selections, purpose \in {"export", "export-delete"}, a \in Archives :
            /\ Unused(a)
            /\ Start(r, [Idle EXCEPT !.kind = "export", !.at = "entering", !.engs = engs,
                                     !.purpose = purpose, !.archive = a])
      BY <1>1 DEF Exports
    <2> DEFINE n == [Idle EXCEPT !.kind = "export", !.at = "entering", !.engs = engs,
                                 !.purpose = purpose, !.archive = a]
    <2>2. Shape(n)
      BY DEF Shape, Idle, Fields, Kinds, Stages
    <2>3. NewRequest(n)
      BY <2>1, <2>2, SelectionsOK DEF NewRequest, Idle, Holding
    <2> QED BY <2>1, <2>3
  <1>2. ASSUME NEW kind \in {"safe", "reset"},
               Start(r, [Idle EXCEPT !.kind = kind, !.at = "entering"])
        PROVE  \E n : Start(r, n) /\ NewRequest(n)
    <2> DEFINE n == [Idle EXCEPT !.kind = kind, !.at = "entering"]
    <2>1. Shape(n)
      BY DEF Shape, Idle, Fields, Kinds, Stages
    <2>2. NewRequest(n)
      BY <2>1 DEF NewRequest, Idle, Holding
    <2> QED BY <1>2, <2>2
  <1>3. ASSUME NEW kind \in {"policy", "delete"}, NEW engs \in Selections, NEW disable \in BOOLEAN,
               Start(r, [Idle EXCEPT !.kind = kind, !.at = "entering", !.engs = engs,
                                     !.disable = disable])
        PROVE  \E n : Start(r, n) /\ NewRequest(n)
    <2> DEFINE n == [Idle EXCEPT !.kind = kind, !.at = "entering", !.engs = engs,
                                 !.disable = disable]
    <2>1. Shape(n)
      BY DEF Shape, Idle, Fields, Kinds, Stages
    <2>2. NewRequest(n)
      BY <2>1, SelectionsOK DEF NewRequest, Idle, Holding
    <2> QED BY <1>3, <2>2
  <1>4. ASSUME NEW kind \in {"promote", "remove"}, NEW a \in Archives, catalog[a] # Absent,
               Start(r, [Idle EXCEPT !.kind = kind, !.at = "entering", !.archive = a])
        PROVE  \E n : Start(r, n) /\ NewRequest(n)
    <2> DEFINE n == [Idle EXCEPT !.kind = kind, !.at = "entering", !.archive = a]
    <2>1. Shape(n)
      BY DEF Shape, Idle, Fields, Kinds, Stages
    <2>2. NewRequest(n)
      BY <1>4, <2>1 DEF NewRequest, Idle, Holding
    <2> QED BY <1>4, <2>2
  <1>5. ASSUME NEW a \in Archives, Unused(a),
               Start(r, [Idle EXCEPT !.kind = "import", !.at = "entering", !.archive = a])
        PROVE  \E n : Start(r, n) /\ NewRequest(n)
    <2> DEFINE n == [Idle EXCEPT !.kind = "import", !.at = "entering", !.archive = a]
    <2>1. Shape(n)
      BY DEF Shape, Idle, Fields, Kinds, Stages
    <2>2. NewRequest(n)
      BY <1>5, <2>1 DEF NewRequest, Idle, Holding
    <2> QED BY <1>5, <2>2
  <1>6. CASE Commits(r)
    <2>1. PICK a \in Archives, disable \in BOOLEAN :
            /\ Committable(a)
            /\ Start(r, [Idle EXCEPT !.kind = "commit", !.at = "entering", !.archive = a,
                                     !.disable = disable])
      BY <1>6 DEF Commits
    <2> DEFINE n == [Idle EXCEPT !.kind = "commit", !.at = "entering", !.archive = a,
                                 !.disable = disable]
    <2>2. Shape(n)
      BY DEF Shape, Idle, Fields, Kinds, Stages
    <2>3. NewRequest(n)
      BY <2>1, <2>2 DEF NewRequest, Idle, Holding
    <2> QED BY <2>1, <2>3
  <1>7. CASE Browses(r)
    <2>1. PICK a \in Archives :
            /\ Found(a)
            /\ Start(r, [Idle EXCEPT !.kind = "browse", !.at = "saving", !.archive = a,
                                     !.record = Touched(catalog[a])])
      BY <1>7 DEF Browses
    <2> DEFINE t == Touched(catalog[a])
    <2> DEFINE n == [Idle EXCEPT !.kind = "browse", !.at = "saving", !.archive = a, !.record = t]
    <2>0. t = Touched(catalog[a])
      OBVIOUS
    <2> HIDE DEF t
    <2>2. Shape(n)
      BY DEF Shape, Idle, Fields, Kinds, Stages
    <2>3. NewRequest(n)
      BY <2>0, <2>1, <2>2 DEF NewRequest, Idle, Holding
    <2>4. Start(r, n)
      BY <2>0, <2>1
    <2> QED BY <2>3, <2>4
  <1>8. CASE Downloads(r) \/ Lists(r)
    <2>1. PICK a \in Archives, kind \in {"download", "list"}, at \in {"streaming", "finding"} :
            /\ catalog[a] # Absent /\ (kind = "download" => Found(a))
            /\ kind = "download" <=> at = "streaming"
            /\ Start(r, [Idle EXCEPT !.kind = kind, !.at = at, !.archive = a])
      BY <1>8 DEF Downloads, Lists, Found
    <2> DEFINE n == [Idle EXCEPT !.kind = kind, !.at = at, !.archive = a]
    <2>2. Shape(n)
      BY <2>1 DEF Shape, Idle, Fields, Kinds, Stages, Removing
    <2>3. NewRequest(n)
      BY <2>1, <2>2 DEF NewRequest, Idle, Holding
    <2> QED BY <2>1, <2>3
  <1>9. CASE Views(r)
    <2> DEFINE n == [Idle EXCEPT !.kind = "view", !.at = "registering"]
    <2>1. Shape(n)
      BY DEF Shape, Idle, Fields, Kinds, Stages
    <2>2. NewRequest(n)
      BY <2>1 DEF NewRequest, Idle, Holding
    <2> QED BY <1>9, <2>2 DEF Views
  <1> QED BY <1>1, <1>2, <1>3, <1>4, <1>5, <1>6, <1>7, <1>8, <1>9 DEF Begins, Locked

-----------------------------------------------------------------------------
(* Steps of a request: the lock, and the stages of its kind. *)

LEMMA StepShaped ==
    ASSUME Shaped, LockExact, Apart, NEW r \in Requests, Step(r)
    PROVE  Shaped' /\ LockExact' /\ Mine(r) /\ OfStorage(op'[r])
  <1> DEFINE o == op[r]
  <1>o. Shape(o) /\ DOMAIN o = Fields /\ OfStorage(o)
    BY DEF Shaped, Shape, Apart
  <1>h. holder = r <=> Holding(o)
    BY DEF LockExact
  <1>b. ASSUME NEW new, Becomes(r, new), OfStorage(new)
        PROVE  Shaped' /\ LockExact' /\ Mine(r) /\ OfStorage(op'[r])
    <2>1. Shaped' /\ LockExact' /\ op'[r] = new /\ Mine(r)
      BY <1>b, BecomesShaped
    <2> QED BY <1>b, <2>1
  <1>g. ASSUME NEW at \in Stages(o.kind), Go(r, at), UNCHANGED holder, at # "entering",
               o.at # "entering", o.kind = "commit" => (at \in Removing <=> o.at \in Removing),
               at \in JsonOnly => storage = "json", at \in PostgresOnly => storage = "postgresql"
        PROVE  Shaped' /\ LockExact' /\ Mine(r) /\ OfStorage(op'[r])
    <2>1. Shaped' /\ LockExact' /\ op'[r] = [o EXCEPT !.at = at] /\ Mine(r)
      BY <1>g, GoShaped
    <2>2. op'[r].at = at /\ op'[r].mixed = o.mixed
      BY <2>1, <1>o DEF Fields
    <2> QED BY <1>g, <1>o, <2>1, <2>2 DEF OfStorage
  <1>e. ASSUME Ends(r), UNCHANGED holder, ~Holding(o)
        PROVE  Shaped' /\ LockExact' /\ Mine(r) /\ OfStorage(op'[r])
    <2>1. Shaped' /\ LockExact' /\ op'[r] = Idle /\ Mine(r)
      BY <1>e, EndsShaped
    <2> QED BY <2>1 DEF OfStorage, Idle, JsonOnly, JsonSteps, PostgresOnly
  <1>1. CASE Begins(r)
    <2>1. PICK n : Start(r, n) /\ NewRequest(n)
      BY <1>1, BeginsLemma
    <2>2. ~Holding(o)
      BY <2>1, <1>o, StagesOf DEF Start, Holding
    <2>3. Becomes(r, n)
      BY <2>1, <2>2 DEF Start, Becomes, NewRequest
    <2> QED BY <2>1, <2>3, <1>b DEF NewRequest, OfStorage, JsonOnly, JsonSteps, PostgresOnly
  <1>2. CASE Enters(r)
    <2>1. o.at = "entering" /\ ~Holding(o)
      BY <1>2 DEF Enters, Holding
    <2>2. CASE Ends(r) /\ UNCHANGED holder
      BY <2>1, <2>2, <1>e
    <2>3. CASE Free /\ holder' = r /\ Go(r, IF o.kind = "remove" THEN "finding" ELSE "working")
      <3> DEFINE at == IF o.kind = "remove" THEN "finding" ELSE "working"
      <3>1. at \in Stages(o.kind) /\ at \in {"finding", "working"} /\ (at = "finding" => o.kind = "remove")
            /\ o.kind \notin {"none", "browse", "download", "list", "view"}
        BY <2>1, <1>o DEF Shape, Kinds, Stages, Removing
      <3> DEFINE t == [o EXCEPT !.at = at]
      <3>2. op' = [op EXCEPT ![r] = t] /\ holder = Nobody /\ holder' = r
        BY <2>3 DEF Go, Free
      <3> HIDE DEF at
      <3>3. Shape(t) /\ t.at = at /\ t.kind = o.kind /\ t.mixed = o.mixed
        BY <3>1, <1>o, AtShape DEF Fields
      <3> HIDE DEF t
      <3>4. Holding(t)
        BY <3>1, <3>3 DEF Holding, Removing
      <3> QED BY <3>1, <3>2, <3>3, <3>4, <1>o, <1>b DEF Becomes, OfStorage, JsonOnly, JsonSteps, PostgresOnly
    <2> QED BY <1>2, <2>2, <2>3 DEF Enters
  <1>3. CASE Leaves(r)
    <2>1. o.at = "leaving" /\ holder' = Nobody
      BY <1>3 DEF Leaves
    <2>2. Holding(o)
      BY <2>1, <1>o, StagesOf DEF Holding, Removing
    <2>3. CASE Ends(r)
      <3>1. Shaped' /\ LockExact' /\ op'[r] = Idle /\ Mine(r)
        BY <2>1, <2>2, <2>3, <1>h, EndsShaped
      <3> QED BY <3>1 DEF OfStorage, Idle, JsonOnly, JsonSteps, PostgresOnly
    <2>4. CASE op' = [op EXCEPT ![r] = [Idle EXCEPT !.kind = "commit", !.at = "finding",
                                                     !.archive = op[r].archive]]
      <3> DEFINE a == op[r].archive
      <3> DEFINE t == [Idle EXCEPT !.kind = "commit", !.at = "finding", !.archive = a]
      <3>1. op' = [op EXCEPT ![r] = t]
        BY <2>4
      <3> HIDE DEF a
      <3>2. Shape(t) /\ ~Holding(t) /\ OfStorage(t)
        BY DEF Shape, Idle, Fields, Kinds, Stages, Holding, Removing, OfStorage, JsonOnly, JsonSteps,
               PostgresOnly
      <3> HIDE DEF t
      <3> QED BY <3>1, <3>2, <2>1, <2>2, <1>h, <1>b DEF Becomes
    <2> QED BY <1>3, <2>3, <2>4 DEF Leaves
  <1>4. CASE Fails(r)
    <2>1. CASE holder = r
      <3> DEFINE t == [o EXCEPT !.at = "leaving", !.broken = TRUE]
      <3>1. op' = [op EXCEPT ![r] = t] /\ UNCHANGED holder
        BY <1>4, <2>1 DEF Fails, Breaks
      <3>2. Holding(o) /\ "leaving" \in Stages(o.kind)
        BY <2>1, <1>h, <1>o, StagesOf
      <3>3. Shape(t) /\ t.at = "leaving" /\ t.kind = o.kind /\ t.mixed = o.mixed
        BY <3>2, <1>o DEF Shape, Fields
      <3> HIDE DEF t
      <3>4. Holding(t) /\ OfStorage(t)
        BY <3>2, <3>3, <1>o DEF Holding, Removing, OfStorage, JsonOnly, JsonSteps, PostgresOnly
      <3> QED BY <3>1, <3>2, <3>3, <3>4, <1>b DEF Becomes
    <2>2. CASE holder # r
      BY <1>4, <2>2, <1>h, <1>e DEF Fails
    <2> QED BY <2>1, <2>2
  <1>u. ASSUME NEW new, op' = [op EXCEPT ![r] = new], DOMAIN new = Fields, new.kind = o.kind,
               new.at \in Stages(o.kind), new.mixed = o.mixed, UNCHANGED holder,
               o.at # "entering", new.at # "entering",
               o.kind = "commit" => (new.at \in Removing <=> o.at \in Removing),
               new.at \in JsonOnly => storage = "json",
               new.at \in PostgresOnly => storage = "postgresql"
        PROVE  Shaped' /\ LockExact' /\ Mine(r) /\ OfStorage(op'[r])
    <2>1. Shape(new) /\ (Holding(new) <=> Holding(o)) /\ OfStorage(new)
      BY <1>u, <1>o DEF Shape, Holding, OfStorage
    <2> QED BY <1>u, <2>1, <1>b DEF Becomes
  <1>5. CASE Resolves(r)
    <2> DEFINE engs == IF o.kind = "commit" THEN content[o.archive].engs \cap registry'
                       ELSE IF o.engs = {} THEN registry' ELSE o.engs \cap registry'
    <2> DEFINE t == [o EXCEPT !.engs = engs,
                              !.at = IF engs = {} THEN "leaving"
                                     ELSE IF o.kind = "export" THEN "reading" ELSE "settings",
                              !.broken = (engs = {})]
    <2>1. op' = [op EXCEPT ![r] = t] /\ UNCHANGED holder
      BY <1>5 DEF Resolves
    <2>2. o.kind \in {"export", "delete", "commit"} /\ o.at = "working"
      BY <1>5 DEF Resolves, At
    <2> HIDE DEF engs
    <2>3. /\ DOMAIN t = Fields /\ t.kind = o.kind /\ t.mixed = o.mixed
          /\ t.at \in {"leaving", "reading", "settings"}
          /\ t.at = "reading" => o.kind = "export"
          /\ t.at = "settings" => o.kind # "export"
      BY <1>o DEF Fields
    <2> HIDE DEF t
    <2>4. t.at \in Stages(o.kind)
      BY <2>2, <2>3 DEF Stages
    <2> QED BY <2>1, <2>2, <2>3, <2>4, <1>u DEF Removing, JsonOnly, JsonSteps, PostgresOnly
  <1>6. CASE ExportReads(r) \/ Imports(r) \/ Promotes(r) \/ Marks(r)
    <2>1. PICK at \in {"saving", "moving"} :
            \E record :
              \/ /\ op' = [op EXCEPT ![r] = [o EXCEPT !.at = at, !.record = record]]
                 /\ at = "moving" <=> o.kind = "promote"
              \/ Go(r, "leaving") /\ o.kind = "promote"
              \/ Ends(r) /\ o.kind = "download"
      <3>1. CASE ExportReads(r)
        BY <3>1 DEF ExportReads, At
      <3>2. CASE Imports(r)
        BY <3>2 DEF Imports, At
      <3>3. CASE Promotes(r)
        BY <3>3 DEF Promotes, At
      <3>4. CASE Marks(r)
        BY <3>4 DEF Marks, At
      <3> QED BY <1>6, <3>1, <3>2, <3>3, <3>4
    <2>a. PICK record :
            \/ /\ op' = [op EXCEPT ![r] = [o EXCEPT !.at = at, !.record = record]]
               /\ at = "moving" <=> o.kind = "promote"
            \/ Go(r, "leaving") /\ o.kind = "promote"
            \/ Ends(r) /\ o.kind = "download"
      BY <2>1
    <2>2. /\ UNCHANGED holder /\ o.kind \in {"export", "import", "promote", "download"}
          /\ o.at \in {"reading", "working", "marking"}
      BY <1>6 DEF ExportReads, Imports, Promotes, Marks, At
    <2>3. CASE Go(r, "leaving") /\ o.kind = "promote"
      <3>1. "leaving" \in Stages(o.kind)
        BY <2>3 DEF Stages
      <3> QED BY <2>2, <2>3, <3>1, <1>g DEF JsonOnly, JsonSteps, PostgresOnly
    <2>4. CASE Ends(r) /\ o.kind = "download"
      BY <2>2, <2>4, <1>e DEF Holding
    <2>5. CASE /\ op' = [op EXCEPT ![r] = [o EXCEPT !.at = at, !.record = record]]
               /\ at = "moving" <=> o.kind = "promote"
      <3> DEFINE t == [o EXCEPT !.at = at, !.record = record]
      <3>1. DOMAIN t = Fields /\ t.kind = o.kind /\ t.mixed = o.mixed /\ t.at = at
        BY <1>o DEF Fields
      <3>2. op' = [op EXCEPT ![r] = t]
        BY <2>5
      <3> HIDE DEF t
      <3>3. at \in Stages(o.kind)
        BY <2>2, <2>5 DEF Stages
      <3> QED BY <2>2, <2>5, <3>1, <3>2, <3>3, <1>u DEF JsonOnly, JsonSteps, PostgresOnly
    <2> QED BY <2>a, <2>3, <2>4, <2>5
  <1>7. CASE Loads(r)
    <2> DEFINE t == [o EXCEPT !.seen = catalog]
    <2>1. op' = [op EXCEPT ![r] = t] /\ UNCHANGED holder /\ o.at \in {"saving", "removing"}
      BY <1>7 DEF Loads
    <2>2. DOMAIN t = Fields /\ t.kind = o.kind /\ t.mixed = o.mixed /\ t.at = o.at
      BY <1>o DEF Fields
    <2> HIDE DEF t
    <2> QED BY <2>1, <2>2, <1>o, <1>u DEF Shape, JsonOnly, JsonSteps, PostgresOnly
  <1>8. CASE Saves(r)
    <2>1. o.kind \in {"export", "import", "promote", "browse", "download"} /\ o.at = "saving"
          /\ UNCHANGED holder
      BY <1>8, <1>o, StagesOf DEF Saves
    <2>2. \/ Ends(r) /\ o.kind \in {"browse", "download"}
          \/ /\ o.kind = "download"
             /\ op' = [op EXCEPT ![r] = [o EXCEPT !.at = "finding", !.seen = Absent]]
          \/ /\ o.kind \in {"export", "import", "promote"}
             /\ op' = [op EXCEPT ![r] = [o EXCEPT !.at = "leaving", !.seen = Absent]]
      BY <1>8, <2>1 DEF Saves, Ends
    <2>3. CASE Ends(r) /\ o.kind \in {"browse", "download"}
      BY <2>1, <2>3, <1>e DEF Holding
    <2>4. ASSUME NEW at \in {"finding", "leaving"}, at \in Stages(o.kind),
                 op' = [op EXCEPT ![r] = [o EXCEPT !.at = at, !.seen = Absent]]
          PROVE  Shaped' /\ LockExact' /\ Mine(r) /\ OfStorage(op'[r])
      <3> DEFINE t == [o EXCEPT !.at = at, !.seen = Absent]
      <3>1. DOMAIN t = Fields /\ t.kind = o.kind /\ t.mixed = o.mixed /\ t.at = at
        BY <1>o DEF Fields
      <3>2. op' = [op EXCEPT ![r] = t]
        BY <2>4
      <3> HIDE DEF t
      <3> QED BY <2>1, <2>4, <3>1, <3>2, <1>u DEF JsonOnly, JsonSteps, PostgresOnly
    <2>5. /\ o.kind = "download" => "finding" \in Stages(o.kind)
          /\ o.kind \in {"export", "import", "promote"} => "leaving" \in Stages(o.kind)
      BY DEF Stages, Removing
    <2> QED BY <2>2, <2>3, <2>4, <2>5
  <1>9. CASE Streams(r) \/ MoveFails(r) \/ SetsPolicies(r) \/ ClearsFindings(r) \/ ClearsAll(r)
    <2>1. PICK at \in {"marking", "leaving"} :
            /\ Go(r, at) /\ UNCHANGED holder /\ o.at # "entering"
            /\ o.kind \in {"download", "promote", "policy", "safe", "reset"}
            /\ at = "marking" <=> o.kind = "download"
      BY <1>9 DEF Streams, MoveFails, SetsPolicies, ClearsFindings, ClearsAll, At
    <2>2. at \in Stages(o.kind)
      BY <2>1 DEF Stages
    <2> QED BY <2>1, <2>2, <1>g DEF JsonOnly, JsonSteps, PostgresOnly
  <1>10. CASE Moves(r)
    <2> DEFINE new == [o.record EXCEPT !.place = "permanent"]
    <2> DEFINE t == [o EXCEPT !.at = "saving", !.record = new]
    <2>1. op' = [op EXCEPT ![r] = t] /\ UNCHANGED holder /\ o.kind = "promote" /\ o.at = "moving"
      BY <1>10, <1>o DEF Moves, At, Fields, Shaped
    <2> HIDE DEF new
    <2>2. DOMAIN t = Fields /\ t.kind = o.kind /\ t.mixed = o.mixed /\ t.at = "saving"
      BY <1>o DEF Fields
    <2> HIDE DEF t
    <2>3. "saving" \in Stages(o.kind)
      BY <2>1 DEF Stages
    <2> QED BY <2>1, <2>2, <2>3, <1>u DEF JsonOnly, JsonSteps, PostgresOnly
  <1>11. CASE Finds(r) \/ Removes(r) \/ Unlinks(r)
    <2>1. o.at \in Removing /\ o.kind \in {"reset", "remove", "commit", "download", "list"}
          /\ UNCHANGED holder
      BY <1>11, <1>o, StagesOf DEF Finds, Removes, Unlinks, Removing
    <2>2. PICK at \in {"removing", "unlinking"} :
            \/ op' = [op EXCEPT ![r] = [o EXCEPT !.at = at, !.record = catalog[o.archive]]]
            \/ Go(r, at)
            \/ op' = [op EXCEPT ![r] = Deleted(o)]
      BY <1>11 DEF Finds, Removes, Unlinks
    <2>3. at \in Stages(o.kind) /\ at \in Removing
      BY <2>1 DEF Stages, Removing
    <2>4. CASE op' = [op EXCEPT ![r] = [o EXCEPT !.at = at, !.record = catalog[o.archive]]]
      <3> DEFINE t == [o EXCEPT !.at = at, !.record = catalog[o.archive]]
      <3>1. DOMAIN t = Fields /\ t.kind = o.kind /\ t.mixed = o.mixed /\ t.at = at
        BY <1>o DEF Fields
      <3>2. op' = [op EXCEPT ![r] = t]
        BY <2>4
      <3> HIDE DEF t
      <3> QED BY <2>1, <2>3, <3>1, <3>2, <1>u DEF JsonOnly, JsonSteps, PostgresOnly, Removing
    <2>5. CASE Go(r, at)
      BY <2>1, <2>3, <2>5, <1>g DEF JsonOnly, JsonSteps, PostgresOnly, Removing
    <2>6. CASE op' = [op EXCEPT ![r] = Deleted(o)]
      <3>1. CASE o.kind \in {"reset", "remove"}
        <4> DEFINE t == Deleted(o)
        <4>1. DOMAIN t = Fields /\ t.kind = o.kind /\ t.mixed = o.mixed
              /\ t.at = IF o.kind = "reset" THEN "sweeping" ELSE "leaving"
          BY <3>1, <1>o DEF Fields, Deleted
        <4>2. op' = [op EXCEPT ![r] = t]
          BY <2>6
        <4> HIDE DEF t
        <4>3. t.at \in Stages(o.kind)
          BY <3>1, <4>1 DEF Stages
        <4> QED BY <2>1, <3>1, <4>1, <4>2, <4>3, <1>u DEF JsonOnly, JsonSteps, PostgresOnly, Removing
      <3>2. CASE o.kind \notin {"reset", "remove"}
        <4>1. Ends(r) /\ ~Holding(o)
          BY <2>1, <2>6, <3>2 DEF Deleted, Ends, Holding
        <4> QED BY <2>1, <4>1, <1>e
      <3> QED BY <3>1, <3>2
    <2> QED BY <2>2, <2>4, <2>5, <2>6
  <1>12. CASE ListsAll(r) \/ Sweeps(r)
    <2>1. o.kind = "reset" /\ o.at \in {"working", "sweeping"} /\ UNCHANGED holder
      BY <1>12 DEF ListsAll, Sweeps, At
    <2>2. {"sweeping", "finding", "clearing"} \subseteq Stages(o.kind)
      BY <2>1 DEF Stages, Removing
    <2>3. ASSUME NEW t, op' = [op EXCEPT ![r] = t], DOMAIN t = Fields, t.kind = o.kind,
                 t.mixed = o.mixed, t.at \in {"sweeping", "finding", "clearing"}
          PROVE  Shaped' /\ LockExact' /\ Mine(r) /\ OfStorage(op'[r])
      BY <2>1, <2>2, <2>3, <1>u DEF JsonOnly, JsonSteps, PostgresOnly
    <2>4. CASE ListsAll(r)
      <3> DEFINE todo == {a \in Archives : catalog[a] # Absent}
      <3> DEFINE t == [o EXCEPT !.at = "sweeping", !.todo = todo]
      <3>1. op' = [op EXCEPT ![r] = t]
        BY <2>4 DEF ListsAll
      <3> HIDE DEF todo
      <3>2. DOMAIN t = Fields /\ t.kind = o.kind /\ t.mixed = o.mixed /\ t.at = "sweeping"
        BY <1>o DEF Fields
      <3> HIDE DEF t
      <3> QED BY <3>1, <3>2, <2>3
    <2>5. ASSUME NEW a \in o.todo,
                 op' = [op EXCEPT ![r].at = "finding", ![r].archive = a, ![r].todo = @ \ {a}]
          PROVE  Shaped' /\ LockExact' /\ Mine(r) /\ OfStorage(op'[r])
      <3> DEFINE t == [o EXCEPT !.at = "finding", !.archive = a, !.todo = @ \ {a}]
      <3>1. op' = [op EXCEPT ![r] = t]
        BY <2>5, <1>o DEF Fields, Shaped
      <3>2. DOMAIN t = Fields /\ t.kind = o.kind /\ t.mixed = o.mixed /\ t.at = "finding"
        BY <1>o DEF Fields
      <3> HIDE DEF t
      <3> QED BY <3>1, <3>2, <2>3
    <2>6. CASE Go(r, "clearing")
      BY <2>1, <2>2, <2>6, <1>g DEF JsonOnly, JsonSteps, PostgresOnly
    <2> QED BY <1>12, <2>4, <2>5, <2>6 DEF Sweeps
  <1>d. ASSUME o.at \in Undoing \cup {"settings", "auditing"}, UNCHANGED holder,
               NEW at \in Undoing \cup {"auditing", "leaving"},
               at \in JsonOnly => storage = "json", at \in PostgresOnly => storage = "postgresql",
               NEW t, op' = [op EXCEPT ![r] = t], DOMAIN t = Fields, t.kind = o.kind,
               t.mixed = o.mixed, t.at = at
        PROVE  Shaped' /\ LockExact' /\ Mine(r) /\ OfStorage(op'[r])
    <2>1. o.kind \in {"delete", "commit"}
      BY <1>d, <1>o, StagesOf
    <2>2. at \in Stages(o.kind) /\ at # "entering" /\ at \notin Removing
      BY <2>1, <1>d DEF Stages, Undoing, Removing
    <2>3. o.at \notin Removing /\ o.at # "entering"
      BY <1>d DEF Undoing, Removing
    <2> QED BY <2>1, <2>2, <2>3, <1>d, <1>u
  <1>v. ASSUME o.at \in Undoing \cup {"settings", "auditing"}, UNCHANGED holder,
               NEW at \in Undoing \cup {"auditing", "leaving"},
               at \in JsonOnly => storage = "json", at \in PostgresOnly => storage = "postgresql",
               Go(r, at)
        PROVE  Shaped' /\ LockExact' /\ Mine(r) /\ OfStorage(op'[r])
    <2> DEFINE t == [o EXCEPT !.at = at]
    <2>1. DOMAIN t = Fields /\ t.kind = o.kind /\ t.mixed = o.mixed /\ t.at = at
      BY <1>o DEF Fields
    <2>2. op' = [op EXCEPT ![r] = t]
      BY <1>v DEF Go
    <2> HIDE DEF t
    <2> QED BY <2>1, <2>2, <1>v, <1>d
  <1>s. /\ o.at \in JsonOnly => storage = "json"
        /\ o.at \in PostgresOnly => storage = "postgresql"
    BY <1>o DEF OfStorage
  <1>13. CASE Settings(r)
    <2>1. PICK at \in {"candidates", "policies"} :
            /\ op' = [op EXCEPT ![r] = [o EXCEPT !.before = Stored, !.at = at]]
            /\ UNCHANGED holder /\ o.at = "settings"
            /\ at = "candidates" => storage = "postgresql"
            /\ at = "policies" => storage = "json"
      BY <1>13 DEF Settings, At, Apart
    <2> DEFINE t == [o EXCEPT !.before = Stored, !.at = at]
    <2>2. DOMAIN t = Fields /\ t.kind = o.kind /\ t.mixed = o.mixed /\ t.at = at
      BY <1>o DEF Fields
    <2>3. op' = [op EXCEPT ![r] = t]
      BY <2>1
    <2> HIDE DEF t
    <2>4. /\ at \in Undoing \cup {"auditing", "leaving"}
          /\ (at \in JsonOnly => storage = "json") /\ (at \in PostgresOnly => storage = "postgresql")
      BY <2>1 DEF Undoing, JsonOnly, JsonSteps, PostgresOnly
    <2>5. o.at \in Undoing \cup {"settings", "auditing"}
      BY <2>1
    <2> QED BY <2>1, <2>2, <2>3, <2>4, <2>5, <1>d
  <1>14. CASE DropsCandidates(r)
    <2>1. o.at = "candidates" /\ Go(r, "transaction") /\ UNCHANGED holder
      BY <1>14 DEF DropsCandidates
    <2> QED BY <2>1, <1>s, <1>v DEF Undoing, JsonOnly, JsonSteps, PostgresOnly
  <1>15. CASE Deletes(r) \/ Audits(r) \/ AddsReference(r)
    <2>1. /\ UNCHANGED holder /\ o.at \in {"transaction", "auditing", "referring"}
          /\ Go(r, "auditing") \/ Go(r, "leaving")
      BY <1>15 DEF Deletes, Erases, Audits, AddsReference
    <2>2. o.at \in Undoing \cup {"settings", "auditing"}
          /\ {"auditing", "leaving"} \cap (JsonOnly \cup PostgresOnly) = {}
      BY <2>1 DEF Undoing, JsonOnly, JsonSteps, PostgresOnly
    <2> QED BY <2>1, <2>2, <1>v
  <1>16. CASE Snapshots(r) \/ LoadsStores(r)
    <2>1. PICK at \in {"loading", "findings"}, f \in {"before", "seen"},
               x \in {[Stored EXCEPT !.target = o.before.target], Without(o.engs, Stored)} :
            /\ o.at \in {"policies", "loading"} /\ UNCHANGED holder
            /\ op' = [op EXCEPT ![r] = [o EXCEPT !.at = at, ![f] = x]]
      BY <1>16 DEF Snapshots, LoadsStores
    <2> DEFINE t == [o EXCEPT !.at = at, ![f] = x]
    <2>2. DOMAIN t = Fields /\ t.kind = o.kind /\ t.mixed = o.mixed /\ t.at = at
      BY <1>o DEF Fields
    <2>3. op' = [op EXCEPT ![r] = t]
      BY <2>1
    <2> HIDE DEF t
    <2>4. o.at \in Undoing /\ at \in Undoing /\ o.at \in JsonOnly /\ at \notin PostgresOnly
      BY <2>1 DEF Undoing, JsonOnly, JsonSteps, PostgresOnly
    <2> QED BY <2>1, <2>2, <2>3, <2>4, <1>s, <1>d
  <1>17. CASE WritesFindings(r) \/ WritesRecords(r) \/ WritesManifest(r) \/ Unregisters(r)
    <2>1. /\ UNCHANGED holder /\ o.at \in {"findings", "records", "manifest", "unregistering"}
          /\ \E at \in {"records", "manifest", "unregistering", "referring"} : Go(r, at)
      BY <1>17 DEF WritesFindings, WritesRecords, WritesManifest, Unregisters
    <2>2. o.at \in Undoing /\ o.at \in JsonOnly
          /\ \A at \in {"records", "manifest", "unregistering", "referring"} :
                at \in Undoing /\ at \notin PostgresOnly
      BY <2>1 DEF Undoing, JsonOnly, JsonSteps, PostgresOnly
    <2> QED BY <2>1, <2>2, <1>s, <1>v
  <1>18. CASE DeleteFails(r)
    <2>1. PICK at \in {"restoring", "undoing"} :
            /\ o.at \in {"candidates", "transaction", "policies"} \cup JsonSteps /\ UNCHANGED holder
            /\ Go(r, at) /\ (at = "restoring" => o.at \in JsonSteps)
      BY <1>18 DEF DeleteFails
    <2>2. /\ o.at \in Undoing /\ at \in Undoing /\ at \notin PostgresOnly
          /\ at \in JsonOnly => o.at \in JsonOnly
      BY <2>1 DEF Undoing, JsonOnly, JsonSteps, PostgresOnly
    <2> QED BY <2>1, <2>2, <1>s, <1>v
  <1>19. CASE Restores(r)
    <2>1. o.at = "restoring" /\ Go(r, "undoing") /\ UNCHANGED holder
      BY <1>19 DEF Restores
    <2> QED BY <2>1, <1>v DEF Undoing, JsonOnly, JsonSteps, PostgresOnly
  <1>20. CASE Undoes(r) \/ UndoFails(r) \/ CommitLost(r) \/ RollbackFails(r)
    <2>1. PICK at \in {"undoing", "leaving"} :
            /\ o.at \in {"restoring", "undoing", "transaction", "policies"} \cup JsonSteps
            /\ UNCHANGED holder
            /\ \/ op' = [op EXCEPT ![r] = [o EXCEPT !.at = at, !.broken = TRUE]]
               \/ op' = [op EXCEPT ![r] = [o EXCEPT !.at = at, !.broken = TRUE, !.stuck = TRUE]]
      BY <1>20 DEF Undoes, UndoFails, CommitLost, RollbackFails, Erases, Strands, Breaks
    <2>2. /\ o.at \in Undoing /\ at \in Undoing \cup {"auditing", "leaving"}
          /\ at \notin JsonOnly \cup PostgresOnly
      BY <2>1 DEF Undoing, JsonOnly, JsonSteps, PostgresOnly
    <2>3. CASE op' = [op EXCEPT ![r] = [o EXCEPT !.at = at, !.broken = TRUE]]
      <3> DEFINE t == [o EXCEPT !.at = at, !.broken = TRUE]
      <3>1. DOMAIN t = Fields /\ t.kind = o.kind /\ t.mixed = o.mixed /\ t.at = at
        BY <1>o DEF Fields
      <3>2. op' = [op EXCEPT ![r] = t]
        BY <2>3
      <3> HIDE DEF t
      <3> QED BY <2>1, <2>2, <3>1, <3>2, <1>d
    <2>4. CASE op' = [op EXCEPT ![r] = [o EXCEPT !.at = at, !.broken = TRUE, !.stuck = TRUE]]
      <3> DEFINE t == [o EXCEPT !.at = at, !.broken = TRUE, !.stuck = TRUE]
      <3>1. DOMAIN t = Fields /\ t.kind = o.kind /\ t.mixed = o.mixed /\ t.at = at
        BY <1>o DEF Fields
      <3>2. op' = [op EXCEPT ![r] = t]
        BY <2>4
      <3> HIDE DEF t
      <3> QED BY <2>1, <2>2, <3>1, <3>2, <1>d
    <2> QED BY <2>1, <2>3, <2>4
  <1>21. CASE ViewRegisters(r) \/ ViewStores(r) \/ ViewJudges(r) \/ ViewPrunes(r)
    <2>1. o.kind = "view" /\ o.at # "entering" /\ UNCHANGED holder
      BY <1>21 DEF ViewRegisters, ViewStores, ViewJudges, ViewPrunes, At
    <2>2. {"storing", "judging", "pruning"} \subseteq Stages(o.kind)
      BY <2>1 DEF Stages
    <2>3. CASE Ends(r)
      BY <2>1, <2>3, <1>e DEF Holding
    <2>4. CASE Go(r, "judging")
      BY <2>1, <2>2, <2>4, <1>g DEF JsonOnly, JsonSteps, PostgresOnly
    <2>5. ASSUME NEW at \in {"storing", "judging", "pruning"}, at = "storing" => storage = "json",
                 NEW t, op' = [op EXCEPT ![r] = t], DOMAIN t = Fields, t.kind = o.kind,
                 t.mixed = o.mixed, t.at = at
          PROVE  Shaped' /\ LockExact' /\ Mine(r) /\ OfStorage(op'[r])
      BY <2>1, <2>2, <2>5, <1>u DEF JsonOnly, JsonSteps, PostgresOnly
    <2>6. CASE ViewRegisters(r)
      <3> DEFINE at == IF storage = "json" THEN "storing" ELSE "judging"
      <3> DEFINE t == [o EXCEPT !.at = at, !.seen = policy]
      <3>1. op' = [op EXCEPT ![r] = t]
        BY <2>6 DEF ViewRegisters
      <3>2. DOMAIN t = Fields /\ t.kind = o.kind /\ t.mixed = o.mixed /\ t.at = at
        BY <1>o DEF Fields
      <3>3. at \in {"storing", "judging", "pruning"} /\ (at = "storing" => storage = "json")
        OBVIOUS
      <3> HIDE DEF t, at
      <3> QED BY <3>1, <3>2, <3>3, <2>5
    <2>7. CASE ViewJudges(r) /\ ~Ends(r)
      <3>1. PICK todo : op' = [op EXCEPT ![r] = [o EXCEPT !.at = "pruning", !.todo = todo]]
        BY <2>7 DEF ViewJudges
      <3> DEFINE t == [o EXCEPT !.at = "pruning", !.todo = todo]
      <3>2. DOMAIN t = Fields /\ t.kind = o.kind /\ t.mixed = o.mixed /\ t.at = "pruning"
        BY <1>o DEF Fields
      <3>3. op' = [op EXCEPT ![r] = t]
        BY <3>1
      <3> HIDE DEF t
      <3> QED BY <3>2, <3>3, <2>5
    <2> QED BY <1>21, <2>3, <2>4, <2>6, <2>7 DEF ViewStores, ViewPrunes
  <1> QED BY <1>1, <1>2, <1>3, <1>4, <1>5, <1>6, <1>7, <1>8, <1>9, <1>10, <1>11, <1>12, <1>13,
             <1>14, <1>15, <1>16, <1>17, <1>18, <1>19, <1>20, <1>21 DEF Step, Begins

-----------------------------------------------------------------------------
(* No policy changes under a Sync All. *)

\* What a step of a request leaves alone: Sync All, a pull, how much was stored; and in
\* PostgreSQL the policies, unless it has the lock.
LEMMA StepFrame ==
    ASSUME Shaped, LockExact, Apart, NEW r \in Requests, Step(r)
    PROVE  /\ UNCHANGED <<storage, written, pull, syncing, returned>>
           /\ policy' = policy \/ storage = "json" \/ holder = r
           /\ holder' = holder \/ holder' = Nobody \/ (holder = Nobody /\ syncing = {})
  <1>1. CASE Begins(r)
    <2>1. PICK n : Start(r, n)
      BY <1>1, BeginsLemma
    <2> QED BY <2>1 DEF Start, data, others, history
  <1>2. CASE Enters(r) \/ Leaves(r) \/ Fails(r) \/ Resolves(r) \/ ExportReads(r) \/ Loads(r)
             \/ Saves(r) \/ Imports(r) \/ Streams(r) \/ Marks(r)
    BY <1>2 DEF Enters, Leaves, Fails, Resolves, ExportReads, Loads, Saves, Imports, Streams, Marks,
                Free, data, others, history
  <1>3. CASE Promotes(r) \/ Moves(r) \/ MoveFails(r) \/ Finds(r) \/ Removes(r) \/ Unlinks(r)
             \/ ClearsFindings(r) \/ ListsAll(r) \/ Sweeps(r)
    BY <1>3 DEF Promotes, Moves, MoveFails, Finds, Removes, Unlinks, ClearsFindings, ListsAll, Sweeps,
                data, others, history
  <1>4. CASE SetsPolicies(r) \/ ClearsAll(r) \/ Deletes(r) \/ CommitLost(r)
    <2>1. Shape(op[r]) /\ op[r].at \in {"working", "clearing", "transaction"}
          /\ (op[r].at = "working" => op[r].kind = "policy")
          /\ (op[r].at = "clearing" => op[r].kind = "reset")
      BY <1>4 DEF SetsPolicies, ClearsAll, Deletes, CommitLost, Erases, At, Shaped
    <2>2. op[r].at = "transaction" => op[r].kind \in {"delete", "commit"}
      BY <2>1, StagesOf DEF Undoing
    <2>3. holder = r
      BY <2>1, <2>2 DEF LockExact, Holding, Removing
    <2> QED BY <1>4, <2>3 DEF SetsPolicies, ClearsAll, Deletes, CommitLost, Erases, data, others, history
  <1>5. CASE Snapshots(r) \/ ViewStores(r)
    <2>1. storage = "json"
      BY <1>5 DEF Snapshots, ViewStores, At, Apart, OfStorage, JsonOnly
    <2> QED BY <1>5, <2>1 DEF Snapshots, ViewStores, data, others, history
  <1>6. CASE DeleteFails(r) \/ RollbackFails(r)
    <2>1. storage = "json" \/ policy' = policy
      BY <1>6 DEF DeleteFails, RollbackFails, Apart, OfStorage, JsonOnly
    <2> QED BY <1>6, <2>1 DEF DeleteFails, RollbackFails, others, history
  <1>7. CASE Settings(r) \/ DropsCandidates(r) \/ LoadsStores(r) \/ WritesFindings(r)
             \/ WritesRecords(r) \/ WritesManifest(r) \/ Unregisters(r)
    BY <1>7 DEF Settings, DropsCandidates, LoadsStores, WritesFindings, WritesRecords,
                WritesManifest, Unregisters, data, others, history
  <1>8. CASE AddsReference(r) \/ Audits(r) \/ Restores(r) \/ Undoes(r) \/ UndoFails(r)
             \/ ViewRegisters(r) \/ ViewJudges(r) \/ ViewPrunes(r)
    BY <1>8 DEF AddsReference, Audits, Restores, Undoes, UndoFails, ViewRegisters, ViewJudges,
                ViewPrunes, data, others, history
  <1> QED BY <1>1, <1>2, <1>3, <1>4, <1>5, <1>6, <1>7, <1>8 DEF Step, Begins

\* Everything else that happens.
Elsewhere ==
    \/ \E a \in Archives : Expires(a)
    \/ SyncStarts \/ SyncEnds \/ \E e \in Engagements : SyncWrites(e)
    \/ PullStarts \/ PullFilters \/ PullLoads

LEMMA ElsewhereFrame ==
    ASSUME Elsewhere
    PROVE  UNCHANGED <<storage, op, holder, policy, candidates, target, references, content, answered,
                       purged, returned>>
  <1>1. CASE (\E a \in Archives : Expires(a)) \/ SyncStarts \/ SyncEnds \/ \E e \in Engagements : SyncWrites(e)
    BY <1>1 DEF Expires, SyncStarts, SyncEnds, SyncWrites, data, extra, archive, others, history
  <1>2. CASE PullStarts \/ PullFilters \/ PullLoads
    BY <1>2 DEF PullStarts, PullFilters, PullLoads, data, extra, archive, others, history
  <1> QED BY <1>1, <1>2 DEF Elsewhere

LockInv == Shaped /\ LockExact /\ Apart /\ SyncsObeyPolicies

LEMMA LockInit == Init => LockInv
  <1> SUFFICES ASSUME Init PROVE LockInv
    OBVIOUS
  <1>1. /\ op = [r \in Requests |-> Idle] /\ holder = Nobody /\ syncing = {}
        /\ storage \in {"postgresql", "json"}
    BY DEF Init
  <1>2. Shaped /\ LockExact
    BY <1>1, IdleShape, DataAssumption DEF Shaped, LockExact
  <1>3. \A r \in Requests : OfStorage(op[r])
    BY <1>1 DEF Idle, OfStorage, JsonOnly, JsonSteps, PostgresOnly
  <1> QED BY <1>1, <1>2, <1>3 DEF LockInv, Apart, SyncsObeyPolicies

LEMMA LockStep == LockInv /\ [Next]_vars => LockInv'
  <1> SUFFICES ASSUME LockInv, [Next]_vars PROVE LockInv'
    OBVIOUS
  <1>0. Shaped /\ LockExact /\ Apart /\ SyncsObeyPolicies
    BY DEF LockInv
  <1>1. ASSUME NEW r \in Requests, Step(r) PROVE LockInv'
    <2>1. Shaped' /\ LockExact' /\ Mine(r) /\ OfStorage(op'[r])
      BY <1>0, <1>1, StepShaped
    <2>2. /\ UNCHANGED <<storage, syncing>>
          /\ policy' = policy \/ storage = "json" \/ holder = r
          /\ holder' = holder \/ holder' = Nobody \/ (holder = Nobody /\ syncing = {})
      BY <1>0, <1>1, StepFrame
    <2>3. Apart'
      BY <1>0, <2>1, <2>2 DEF Apart, Mine, OfStorage
    <2>4. SyncsObeyPolicies'
      BY <1>0, <2>2, DataAssumption DEF Apart, SyncsObeyPolicies
    <2> QED BY <2>1, <2>3, <2>4 DEF LockInv
  <1>2. CASE Elsewhere
    <2>1. UNCHANGED <<storage, op, holder, policy>>
      BY <1>2, ElsewhereFrame
    <2>2. Shaped' /\ LockExact'
      BY <1>0, <2>1 DEF Shaped, LockExact
    <2>3. \/ syncing' = syncing \/ syncing' = {}
          \/ holder = Nobody /\ syncing' = {e \in Engagements : policy[e] # "disabled"}
      <3>1. CASE (\E a \in Archives : Expires(a)) \/ SyncStarts \/ SyncEnds \/ \E e \in Engagements : SyncWrites(e)
        BY <3>1 DEF Expires, SyncStarts, SyncEnds, SyncWrites, others
      <3>2. CASE PullStarts \/ PullFilters \/ PullLoads
        BY <3>2 DEF PullStarts, PullFilters, PullLoads, others
      <3> QED BY <1>2, <3>1, <3>2 DEF Elsewhere
    <2>4. Apart' /\ SyncsObeyPolicies'
      BY <1>0, <2>1, <2>3 DEF Apart, OfStorage, SyncsObeyPolicies
    <2> QED BY <2>2, <2>4 DEF LockInv
  <1>3. CASE PullSaves
    <2>1. UNCHANGED <<storage, holder, policy, syncing>>
      BY <1>3 DEF PullSaves, extra, archive
    <2>2. op' = [p \in Requests |-> [op[p] EXCEPT !.mixed = storage = "json"]]
      BY <1>3 DEF PullSaves
    <2>3. ASSUME NEW p \in Requests
          PROVE  Shape(op'[p]) /\ (Holding(op'[p]) <=> Holding(op[p])) /\ OfStorage(op'[p])
      <3> DEFINE mixed == (storage = "json")
      <3> DEFINE t == [op[p] EXCEPT !.mixed = mixed]
      <3>1. op'[p] = t
        BY <2>2
      <3>2. mixed => storage = "json"
        OBVIOUS
      <3> HIDE DEF mixed
      <3>3. DOMAIN t = Fields /\ t.kind = op[p].kind /\ t.at = op[p].at /\ t.mixed = mixed
        BY <1>0 DEF Shaped, Shape, Fields
      <3> HIDE DEF t
      <3> QED BY <1>0, <3>1, <3>2, <3>3 DEF Shaped, Shape, Apart, OfStorage, Holding
    <2>4. Shaped' /\ LockExact'
      BY <1>0, <2>1, <2>2, <2>3 DEF Shaped, LockExact
    <2>5. (\A p \in Requests : OfStorage(op[p]))'
      BY <2>1, <2>3 DEF OfStorage
    <2> QED BY <1>0, <2>1, <2>4, <2>5 DEF LockInv, Apart, SyncsObeyPolicies
  <1>4. CASE Crash
    <2>1. /\ op' = [p \in Requests |-> Idle] /\ holder' = Nobody /\ syncing' = {}
          /\ storage' = storage
      BY <1>4 DEF Crash
    <2>2. Shaped' /\ LockExact'
      BY <2>1, IdleShape, DataAssumption DEF Shaped, LockExact
    <2>3. (\A p \in Requests : OfStorage(op[p]))'
      BY <2>1 DEF Idle, OfStorage, JsonOnly, JsonSteps, PostgresOnly
    <2> QED BY <1>0, <2>1, <2>2, <2>3 DEF LockInv, Apart, SyncsObeyPolicies
  <1>5. CASE UNCHANGED vars
    <2>1. UNCHANGED <<storage, op, holder, policy, syncing>>
      BY <1>5 DEF vars, data, others
    <2> QED BY <1>0, <2>1 DEF LockInv, Shaped, LockExact, Apart, OfStorage, SyncsObeyPolicies
  <1> QED BY <1>1, <1>2, <1>3, <1>4, <1>5 DEF Next, Elsewhere

LEMMA LockHolds == Spec => []LockInv
  BY LockInit, LockStep, PTL DEF Spec

\* No policy of an engagement is switched off while Sync All writes it: a step that changes the
\* policies in PostgreSQL has the lock, and nobody gets the lock beside Sync All.
THEOREM SyncsObeyPoliciesAlways == Spec => []SyncsObeyPolicies
  BY LockHolds, PTL DEF LockInv

-----------------------------------------------------------------------------
(* Archives, the stored data, and what requests know of them. *)

\* An archive that was made elsewhere, or whose download was answered.
Sent(a) == content[a] # Absent /\ (content[a].home => a \in answered)

\* A catalog whose archives were made, and those made here are marked as downloaded only after
\* their download was answered.
Recorded(cat) ==
    /\ cat \in [Archives -> Records \cup {Absent}]
    /\ \A a \in Archives : cat[a] # Absent =>
          content[a] # Absent /\ (cat[a].downloaded => Sent(a))

Founded ==
    /\ content \in [Archives -> Contents \cup {Absent}] /\ answered \subseteq Archives
    /\ Recorded(catalog)
    /\ \A a \in answered : content[a] # Absent
    /\ files \subseteq Archives \X {"temporary", "permanent"}

\* A request that has still to make its archive is the only one with this archive.
Creating(o) ==
    \/ o.kind = "export" /\ o.at \in {"entering", "working", "reading"}
    \/ o.kind = "import" /\ o.at \in {"entering", "working"}
Reserved ==
    \A r \in Requests : Creating(op[r]) =>
        /\ content[op[r].archive] = Absent
        /\ \A p \in Requests \ {r} : Creating(op[p]) => op[p].archive # op[r].archive

Unseen == {"entering", "working", "reading", "streaming", "marking", "moving", "sweeping", "finding"}

\* What a request knows of the archives.
Filed(o) ==
    /\ o.at \in Unseen => o.seen = Absent
    /\ o.at \in {"saving", "removing"} /\ o.seen # Absent => Recorded(o.seen)
    /\ o.kind \in {"export", "import", "promote", "remove", "commit", "browse", "download", "list"}
          \/ o.at \in {"saving", "moving", "streaming", "marking"} \cup Removing
       => o.archive \in Archives
    /\ o.engs \subseteq Engagements /\ o.purpose \in {"export", "export-delete"}
    /\ o.kind = "reset" => o.todo \subseteq Archives
    /\ o.at \in {"saving", "moving"} =>
          /\ o.record \in Records /\ content[o.archive] # Absent
          /\ o.record.downloaded => Sent(o.archive)
    /\ o.at \in {"streaming", "marking"} => content[o.archive] # Absent
    /\ o.at = "marking" => o.archive \in answered
    /\ o.kind = "commit" => Sent(o.archive)
    /\ o.kind = "commit" /\ o.at \in Undoing \cup {"settings"} =>
          o.engs \subseteq content[o.archive].engs

\* Findings that were stored; and findings that every export of their engagement has, unless
\* they were stored, or put back by a pull, after it was made.
Rows(rows) == rows \subseteq Findings /\ \A f \in rows : f[2] <= written
Covered(rows) ==
    \A f \in rows, a \in Archives :
        content[a] # Absent /\ content[a].home /\ f[1] \in content[a].engs =>
            f \in content[a].rows \/ f[2] > content[a].upto \/ f \in returned
Known(rows) == Rows(rows) /\ Covered(rows)
Policies == [Engagements -> {"none", "enabled", "disabled"}]

Stock ==
    /\ written \in 1 .. MaxRows
    /\ {tickets, memory, registry, candidates, syncing} \subseteq SUBSET Engagements
    /\ policy \in Policies
    /\ Known(findings)
    /\ DOMAIN pull = {"at", "engs", "seen"} /\ pull.engs \subseteq Engagements
    /\ Rows(pull.seen)
    /\ \A a \in Archives : content[a] # Absent => content[a].upto <= written
    /\ purged \subseteq Archives \X Findings /\ \A p \in purged : content[p[1]] # Absent

\* What a request knows of the stored data.
Writing == {"findings", "records", "manifest"}
Saved(o) ==
    /\ o.at \in Undoing =>
          /\ Known(o.before.findings)
          /\ o.before.memory \subseteq Engagements /\ o.before.candidates \subseteq Engagements
          /\ o.before.policy \in Policies
    /\ o.at \in Writing =>
          /\ Known(o.seen.findings)
          /\ o.seen.memory \subseteq Engagements /\ o.seen.candidates \subseteq Engagements
    /\ o.at = "storing" => o.seen \in Policies

Filings == \A r \in Requests : Filed(op[r]) /\ Saved(op[r])
Stores == Founded /\ Reserved /\ Filings /\ Stock /\ DeletedWasArchived

\* Archives stay as they were made, and more is stored, put back and answered.
Grows ==
    /\ storage' = storage /\ written \in Nat /\ written' \in Nat /\ written <= written'
    /\ answered \subseteq answered' /\ returned \subseteq returned'
    /\ \A a \in Archives : content[a] # Absent => content'[a] = content[a]

\* A new archive holds what another one does, or was made elsewhere.
Copied ==
    \A a \in Archives :
        \/ content'[a] = content[a]
        \/ \E b \in Archives : content[b] # Absent /\ content'[a] = content[b]
        \/ ~content'[a].home

LEMMA RecordedStays ==
    ASSUME NEW cat, Recorded(cat), Grows
    PROVE  Recorded(cat)'
  BY DEF Recorded, Grows, Sent

LEMMA FiledStays ==
    ASSUME NEW o, Filed(o), Grows, answered \subseteq Archives, \A a \in answered : content[a] # Absent
    PROVE  Filed(o)'
  <1>1. o.at \in {"saving", "removing"} /\ o.seen # Absent => Recorded(o.seen)'
    BY RecordedStays DEF Filed
  <1>2. /\ o.at \in {"saving", "moving"} => content'[o.archive] # Absent
        /\ o.at \in {"streaming", "marking"} => content'[o.archive] # Absent
    <2>1. /\ o.at \in {"saving", "moving", "streaming", "marking"} => content[o.archive] # Absent
          /\ o.archive \in Archives /\ content[o.archive] # Absent
                => content'[o.archive] = content[o.archive]
      BY DEF Filed, Grows
    <2> QED BY <2>1 DEF Filed
  <1> QED BY <1>1, <1>2 DEF Filed, Grows, Sent

LEMMA KnownStays ==
    ASSUME NEW rows, Known(rows), Grows, Copied
    PROVE  Known(rows)'
  <1>1. Rows(rows)'
    BY DEF Known, Rows, Grows, Findings
  <1>2. Covered(rows)'
    BY DEF Known, Covered, Grows, Copied
  <1> QED BY <1>1, <1>2 DEF Known

LEMMA SavedStays ==
    ASSUME NEW o, Saved(o), Grows, Copied
    PROVE  Saved(o)'
  BY KnownStays DEF Saved

LEMMA PurgedStays ==
    ASSUME Stock, DeletedWasArchived, Grows, purged' = purged
    PROVE  DeletedWasArchived'
  <1> SUFFICES ASSUME NEW p \in purged
               PROVE  /\ p[2][1] \in content'[p[1]].engs
                      /\ content'[p[1]].home =>
                            /\ p[1] \in answered'
                            /\ \/ p[2] \in content'[p[1]].rows
                               \/ p[2][2] > content'[p[1]].upto
                               \/ p[2] \in returned'
    BY DEF DeletedWasArchived
  <1>1. content'[p[1]] = content[p[1]]
    BY DEF Stock, Grows
  <1> QED BY <1>1 DEF DeletedWasArchived, Grows

LEMMA Carried ==
    ASSUME Stores, NEW r \in Requests, Mine(r), Grows, Copied, Founded', Stock', Reserved',
           DeletedWasArchived', Filed(op[r])', Saved(op[r])'
    PROVE  Stores'
  <1>1. ASSUME NEW p \in Requests PROVE (Filed(op[p]) /\ Saved(op[p]))'
    <2>1. CASE p = r
      BY <2>1
    <2>2. CASE p # r
      <3>1. op'[p] = op[p] /\ Filed(op[p]) /\ Saved(op[p])
        BY <2>2 DEF Mine, Stores, Filings
      <3> QED BY <3>1, FiledStays, SavedStays DEF Stores, Founded
    <2> QED BY <2>1, <2>2
  <1> QED BY <1>1 DEF Stores, Filings

\* What a step of one request must do to keep all this, while no archive is made.
LEMMA Kept1 ==
    ASSUME Stores, NEW r \in Requests, Mine(r),
           UNCHANGED <<storage, content, answered, written, returned, pull, syncing>>,
           Recorded(catalog'), files' \subseteq Archives \X {"temporary", "permanent"},
           {tickets', memory', registry', candidates'} \subseteq SUBSET Engagements,
           policy' \in Policies, Known(findings'),
           \/ purged' = purged
           \/ \E a \in Archives : \E engs :
               /\ purged' = purged \cup ({a} \X Of(findings, engs))
               /\ Sent(a) /\ engs \subseteq content[a].engs,
           Filed(op'[r]), Saved(op'[r]),
           Creating(op'[r]) => \/ Creating(op[r]) /\ op'[r].archive = op[r].archive
                               \/ Unused(op'[r].archive)
    PROVE  Stores'
  <1>1. Grows /\ Copied
    BY DEF Grows, Copied, Stores, Stock
  <1>2. Founded'
    BY DEF Stores, Founded, Recorded, Sent
  <1>3. Reserved'
    <2> SUFFICES ASSUME NEW p \in Requests, Creating(op'[p])
                 PROVE  /\ content[op'[p].archive] = Absent
                        /\ \A q \in Requests \ {p} : Creating(op'[q]) => op'[q].archive # op'[p].archive
      BY DEF Reserved, Creating
    <2>1. ASSUME NEW q \in Requests, Creating(op'[q])
          PROVE  \/ Creating(op[q]) /\ op'[q].archive = op[q].archive
                 \/ q = r /\ Unused(op'[q].archive)
      BY <2>1 DEF Mine
    <2> QED BY <2>1 DEF Stores, Reserved, Unused, Mine
  <1>4. (Filed(op[r]) /\ Saved(op[r]))'
    BY DEF Filed, Saved, Recorded, Known, Rows, Covered, Sent
  <1>5. Known(findings)' /\ Rows(pull.seen)'
    BY DEF Stores, Stock, Known, Rows, Covered
  <1>6. CASE purged' = purged
    <2>1. DeletedWasArchived'
      BY <1>1, <1>6, PurgedStays DEF Stores
    <2>2. Stock'
      BY <1>5, <1>6 DEF Stores, Stock
    <2> QED BY <1>1, <1>2, <1>3, <1>4, <2>1, <2>2, Carried
  <1>7. ASSUME NEW a \in Archives, NEW engs, Sent(a), engs \subseteq content[a].engs,
               purged' = purged \cup ({a} \X Of(findings, engs))
        PROVE  Stores'
    <2>1. /\ content[a] # Absent /\ (content[a].home => a \in answered)
          /\ Known(findings) /\ findings \subseteq Findings
      BY <1>7 DEF Stores, Stock, Known, Rows, Sent
    <2>2. ASSUME NEW f \in Of(findings, engs)
          PROVE  /\ f \in Findings /\ f[1] \in content[a].engs
                 /\ content[a].home =>
                       f \in content[a].rows \/ f[2] > content[a].upto \/ f \in returned
      BY <1>7, <2>1 DEF Of, Known, Covered
    <2>3. DeletedWasArchived'
      <3> SUFFICES ASSUME NEW p \in purged'
                   PROVE  /\ p[2][1] \in content[p[1]].engs
                          /\ content[p[1]].home =>
                                /\ p[1] \in answered
                                /\ \/ p[2] \in content[p[1]].rows
                                   \/ p[2][2] > content[p[1]].upto
                                   \/ p[2] \in returned
        BY DEF DeletedWasArchived
      <3>1. CASE p \in purged
        BY <3>1 DEF Stores, DeletedWasArchived
      <3>2. CASE p \in {a} \X Of(findings, engs)
        <4>1. p[1] = a /\ p[2] \in Of(findings, engs)
          BY <3>2
        <4> QED BY <4>1, <2>1, <2>2
      <3> QED BY <1>7, <3>1, <3>2
    <2>4. purged' \subseteq Archives \X Findings /\ \A p \in purged' : content'[p[1]] # Absent
      BY <1>7, <2>1, <2>2 DEF Stores, Stock
    <2>5. Stock'
      BY <1>5, <2>4 DEF Stores, Stock
    <2> QED BY <1>1, <1>2, <1>3, <1>4, <2>3, <2>5, Carried
  <1> QED BY <1>6, <1>7

-----------------------------------------------------------------------------
(* The steps of a deletion. *)

Deletion(r) ==
    \/ Settings(r) \/ DropsCandidates(r) \/ Deletes(r) \/ Snapshots(r) \/ LoadsStores(r)
    \/ WritesFindings(r) \/ WritesRecords(r) \/ WritesManifest(r) \/ Unregisters(r)
    \/ AddsReference(r) \/ Audits(r) \/ DeleteFails(r) \/ CommitLost(r) \/ RollbackFails(r)
    \/ Restores(r) \/ Undoes(r) \/ UndoFails(r)

\* What such a step makes of its request.
Moved(o, t) ==
    /\ DOMAIN t = Fields /\ \A x \in {"kind", "archive", "engs", "purpose", "record", "todo", "mixed"} : t[x] = o[x]
    /\ t.stuck = o.stuck \/ t.stuck = TRUE
    /\ o.at \in Undoing \cup {"settings", "auditing"}
    /\ t.at \in Undoing \cup {"auditing", "leaving"}
    /\ o.at = "auditing" => t.at = "leaving"
    /\ \/ t.before = o.before /\ o.at \notin {"settings", "policies"}
       \/ o.at = "policies" /\ t.before = o.before /\ t.at = "undoing"
       \/ o.at = "settings" /\ t.before = Stored
       \/ o.at = "policies" /\ t.before = [Stored EXCEPT !.target = o.before.target]
    /\ t.at \in Writing => \/ o.at \in Writing /\ t.seen = o.seen
                           \/ t.seen = Without(o.engs, Stored)

LEMMA MovedByGo ==
    ASSUME NEW o, Shape(o), NEW at \in Undoing \cup {"auditing", "leaving"},
           o.at \in Undoing \cup {"auditing"}, o.at = "auditing" => at = "leaving",
           o.at = "policies" => at = "undoing",
           at \in Writing => o.at \in Writing,
           NEW t, t = [o EXCEPT !.at = at] \/ t = [o EXCEPT !.at = at, !.broken = TRUE]
                  \/ t = [o EXCEPT !.at = at, !.broken = TRUE, !.stuck = TRUE]
    PROVE  Moved(o, t)
  <1>1. DOMAIN t = Fields /\ t.at = at /\ t.before = o.before /\ t.seen = o.seen
        /\ (t.stuck = o.stuck \/ t.stuck = TRUE)
        /\ \A x \in {"kind", "archive", "engs", "purpose", "record", "todo", "mixed"} : t[x] = o[x]
    BY DEF Shape, Fields
  <1> QED BY <1>1 DEF Moved, Undoing

LEMMA DeletionMoves ==
    ASSUME Shaped, NEW r \in Requests, Deletion(r)
    PROVE  Moved(op[r], op'[r])
  <1> DEFINE o == op[r]
  <1>o. Shape(o) /\ DOMAIN op = Requests
    BY DEF Shaped
  <1>g. ASSUME NEW at \in Undoing \cup {"auditing", "leaving"}, Go(r, at),
               o.at \in Undoing \cup {"auditing"}, o.at = "auditing" => at = "leaving",
               o.at = "policies" => at = "undoing", at \in Writing => o.at \in Writing
        PROVE  Moved(o, op'[r])
    <2>1. op'[r] = [o EXCEPT !.at = at]
      BY <1>o, <1>g DEF Go
    <2> QED BY <1>o, <1>g, <2>1, MovedByGo
  <1>1. CASE Settings(r)
    <2>1. PICK at \in {"candidates", "policies"} :
            op'[r] = [o EXCEPT !.before = Stored, !.at = at] /\ o.at = "settings"
      BY <1>1, <1>o DEF Settings, At
    <2> DEFINE x == Stored
    <2> DEFINE t == [o EXCEPT !.before = x, !.at = at]
    <2>2. x = Stored
      OBVIOUS
    <2> HIDE DEF x
    <2>3. /\ DOMAIN t = Fields /\ t.at = at /\ t.before = x
          /\ \A f \in {"kind", "archive", "engs", "purpose", "record", "todo", "mixed", "stuck"} : t[f] = o[f]
      BY <1>o DEF Shape, Fields
    <2>4. op'[r] = t
      BY <2>1, <2>2
    <2> HIDE DEF t
    <2> QED BY <2>1, <2>2, <2>3, <2>4 DEF Moved, Undoing, Writing
  <1>2. CASE Snapshots(r)
    <2> DEFINE x == [Stored EXCEPT !.target = o.before.target]
    <2> DEFINE t == [o EXCEPT !.at = "loading", !.before = x]
    <2>1. op'[r] = t /\ o.at = "policies"
      BY <1>2, <1>o DEF Snapshots
    <2>2. x = [Stored EXCEPT !.target = o.before.target]
      OBVIOUS
    <2> HIDE DEF x
    <2>3. /\ DOMAIN t = Fields /\ t.at = "loading" /\ t.before = x
          /\ \A f \in {"kind", "archive", "engs", "purpose", "record", "todo", "mixed", "stuck"} : t[f] = o[f]
      BY <1>o DEF Shape, Fields
    <2> HIDE DEF t
    <2> QED BY <2>1, <2>2, <2>3 DEF Moved, Undoing, Writing
  <1>3. CASE LoadsStores(r)
    <2> DEFINE x == Without(o.engs, Stored)
    <2> DEFINE t == [o EXCEPT !.at = "findings", !.seen = x]
    <2>1. op'[r] = t /\ o.at = "loading"
      BY <1>3, <1>o DEF LoadsStores
    <2>2. x = Without(o.engs, Stored)
      OBVIOUS
    <2> HIDE DEF x
    <2>3. /\ DOMAIN t = Fields /\ t.at = "findings" /\ t.seen = x /\ t.before = o.before
          /\ \A f \in {"kind", "archive", "engs", "purpose", "record", "todo", "mixed", "stuck"} : t[f] = o[f]
      BY <1>o DEF Shape, Fields
    <2> HIDE DEF t
    <2> QED BY <2>1, <2>2, <2>3 DEF Moved, Undoing, Writing
  <1>4. CASE DropsCandidates(r) \/ Deletes(r) \/ WritesFindings(r) \/ WritesRecords(r) \/ WritesManifest(r)
    <2>1. PICK at \in {"transaction", "auditing", "records", "manifest", "unregistering"} :
            /\ Go(r, at) /\ o.at \in {"candidates", "transaction", "findings", "records", "manifest"}
            /\ at \in Writing => o.at \in Writing
      BY <1>4 DEF DropsCandidates, Deletes, Erases, WritesFindings, WritesRecords, WritesManifest, Writing
    <2> QED BY <2>1, <1>g DEF Undoing
  <1>5. CASE Unregisters(r) \/ AddsReference(r) \/ Audits(r) \/ Restores(r)
    <2>1. PICK at \in {"referring", "auditing", "leaving", "undoing"} :
            /\ Go(r, at) /\ o.at \in {"unregistering", "referring", "auditing", "restoring"}
            /\ o.at = "auditing" => at = "leaving"
      BY <1>5 DEF Unregisters, AddsReference, Audits, Restores
    <2> QED BY <2>1, <1>g DEF Undoing, Writing
  <1>6. CASE DeleteFails(r)
    <2>1. PICK at \in {"restoring", "undoing"} :
            /\ Go(r, at) /\ o.at \in {"candidates", "transaction", "policies"} \cup JsonSteps
            /\ o.at = "policies" => at = "undoing"
      BY <1>6 DEF DeleteFails, JsonSteps
    <2> QED BY <2>1, <1>g DEF Undoing, Writing, JsonSteps
  <1>7. CASE Undoes(r) \/ UndoFails(r) \/ CommitLost(r) \/ RollbackFails(r)
    <2>1. PICK at \in {"undoing", "leaving"} :
            /\ o.at \in {"restoring", "undoing", "transaction", "policies"} \cup JsonSteps
            /\ o.at = "policies" => at = "undoing"
            /\ op'[r] = [o EXCEPT !.at = at, !.broken = TRUE]
               \/ op'[r] = [o EXCEPT !.at = at, !.broken = TRUE, !.stuck = TRUE]
      BY <1>7, <1>o DEF Undoes, UndoFails, CommitLost, RollbackFails, Erases, Strands, Breaks
    <2>2. /\ at \in Undoing \cup {"auditing", "leaving"} /\ at \notin Writing
          /\ o.at \in Undoing \cup {"auditing"} /\ o.at # "auditing"
      BY <2>1 DEF Undoing, Writing, JsonSteps
    <2> QED BY <1>o, <2>1, <2>2, MovedByGo
  <1> QED BY <1>1, <1>2, <1>3, <1>4, <1>5, <1>6, <1>7 DEF Deletion

\* What such a step does to the stored data.
Effect(o) ==
    /\ UNCHANGED <<storage, archive, written, others, returned, starts>>
    /\ registry' \subseteq registry
    /\ \/ findings' \subseteq findings
       \/ o.at = "findings" /\ findings' = o.seen.findings
       \/ o.at = "restoring" /\ findings' = o.before.findings
    /\ \/ tickets' \subseteq tickets
       \/ o.at = "records" /\ tickets' = o.seen.memory
       \/ o.at = "restoring" /\ tickets' = o.before.memory
    /\ \/ memory' = memory
       \/ o.at = "manifest" /\ memory' = o.seen.memory
       \/ o.at = "restoring" /\ memory' = o.before.memory
    /\ \/ candidates' \subseteq candidates
       \/ o.at = "manifest" /\ candidates' = o.seen.candidates
       \/ o.at \in {"restoring", "undoing"} /\ candidates' = o.before.candidates
    /\ \/ purged' = purged
       \/ /\ o.kind = "commit" /\ o.at \in {"transaction", "findings"}
          /\ purged' = purged \cup ({o.archive} \X Of(findings, o.engs))

LEMMA DeletionEffect ==
    ASSUME NEW r \in Requests, Deletion(r)
    PROVE  Effect(op[r])
  <1>1. CASE Settings(r) \/ DropsCandidates(r) \/ Snapshots(r) \/ LoadsStores(r)
    BY <1>1 DEF Settings, DropsCandidates, Snapshots, LoadsStores, Effect, data, extra, others,
                history, bounds
  <1>2. CASE Deletes(r) \/ CommitLost(r)
    <2>1. Erases(r)
      BY <1>2 DEF Deletes, CommitLost
    <2> QED BY <2>1 DEF Erases, Purges, Effect
  <1>3. CASE WritesFindings(r)
    BY <1>3 DEF WritesFindings, Purges, Effect, bounds, extra
  <1>4. CASE WritesRecords(r) \/ WritesManifest(r) \/ Unregisters(r) \/ AddsReference(r) \/ Audits(r)
    BY <1>4 DEF WritesRecords, WritesManifest, Unregisters, AddsReference, Audits, Effect, data,
                extra, history, bounds
  <1>5. CASE DeleteFails(r) \/ RollbackFails(r) \/ Restores(r) \/ Undoes(r)
    BY <1>5 DEF DeleteFails, RollbackFails, Restores, Undoes, Effect, data, extra, history, bounds
  <1>6. CASE UndoFails(r)
    BY <1>6 DEF UndoFails, Effect, extra, history, bounds
  <1> QED BY <1>1, <1>2, <1>3, <1>4, <1>5, <1>6 DEF Deletion

LEMMA DeletionPolicies ==
    ASSUME NEW r \in Requests, Deletion(r), policy \in Policies,
           op[r].at \in Undoing => op[r].before.policy \in Policies
    PROVE  policy' \in Policies
  <1>1. Switched(r) \in Policies
    BY DEF Switched, Chosen, Policies
  <1>2. ASSUME NEW old \in Policies PROVE Rollback(r, old) \in Policies
    BY DEF Rollback, Policies
  <1>3. CASE Deletes(r) \/ CommitLost(r) \/ Snapshots(r)
    BY <1>1, <1>3 DEF Deletes, CommitLost, Erases, Snapshots
  <1>4. CASE DeleteFails(r)
    <2>1. op[r].at \in JsonSteps => op[r].before.policy \in Policies
      BY DEF JsonSteps, Undoing
    <2>2. policy' \in {policy, Rollback(r, policy)}
          \/ (op[r].at \in JsonSteps /\ policy' = Rollback(r, op[r].before.policy))
      BY <1>4 DEF DeleteFails
    <2> QED BY <1>2, <2>1, <2>2
  <1>5. CASE RollbackFails(r)
    BY <1>5 DEF RollbackFails, Policies
  <1>6. Deletion(r) => \/ Deletes(r) \/ CommitLost(r) \/ Snapshots(r) \/ DeleteFails(r)
                       \/ RollbackFails(r) \/ UNCHANGED policy
    BY DEF Deletion, Settings, DropsCandidates, LoadsStores, WritesFindings, WritesRecords,
           WritesManifest, Unregisters, AddsReference, Audits, Restores, Undoes, UndoFails, data
  <1> QED BY <1>3, <1>4, <1>5, <1>6

LEMMA KnownSubset ==
    ASSUME NEW rows, Known(rows), NEW some, some \subseteq rows
    PROVE  Known(some)
  BY DEF Known, Rows, Covered

LEMMA DeletionStores ==
    ASSUME Shaped, Stores, NEW r \in Requests, Deletion(r), Mine(r)
    PROVE  Stores'
  <1> DEFINE o == op[r]
  <1> DEFINE t == op'[r]
  <1>1. Moved(o, t) /\ Effect(o)
    BY DeletionMoves, DeletionEffect
  <1>2. Filed(o) /\ Saved(o) /\ Shape(o) /\ o.kind \in {"delete", "commit"}
    <2>1. Shape(o) /\ o.at \in Undoing \cup {"settings", "auditing"}
      BY <1>1 DEF Shaped, Moved
    <2> QED BY <2>1, StagesOf DEF Stores, Filings
  <1>3. /\ Known(findings) /\ policy \in Policies
        /\ {tickets, memory, registry, candidates} \subseteq SUBSET Engagements
    BY DEF Stores, Stock
  <1> HIDE DEF o, t
  <1>4. Filed(t)
    BY <1>1, <1>2 DEF Moved, Filed, Undoing, Unseen, Removing
  <1>5. Saved(t)
    <2>1. t.at \in Undoing => \/ t.before = o.before /\ o.at \in Undoing
                              \/ /\ t.before.findings = findings /\ t.before.memory = memory
                                 /\ t.before.candidates = candidates /\ t.before.policy = policy
      BY <1>1 DEF Moved, Stored, Undoing
    <2>2. t.at \in Writing => \/ o.at \in Writing /\ t.seen = o.seen
                              \/ /\ t.seen.findings = findings \ Of(findings, o.engs)
                                 /\ t.seen.memory = memory \ o.engs
                                 /\ t.seen.candidates = candidates \ o.engs
      BY <1>1 DEF Moved, Stored, Without
    <2>3. Known(findings \ Of(findings, o.engs))
      BY <1>3, KnownSubset
    <2>4. t.at # "storing"
      BY <1>1 DEF Moved, Undoing
    <2> QED BY <1>2, <1>3, <2>1, <2>2, <2>3, <2>4 DEF Saved
  <1>6. o.at \in {"restoring", "undoing"} => o.at \in Undoing
    BY DEF Undoing
  <1>7. Known(findings')
    BY <1>1, <1>2, <1>3, <1>6, KnownSubset DEF Effect, Saved, Writing
  <1>8. {tickets', memory', registry', candidates'} \subseteq SUBSET Engagements
    BY <1>1, <1>2, <1>3, <1>6 DEF Effect, Saved, Writing
  <1>9. policy' \in Policies
    BY <1>2, <1>3, DeletionPolicies DEF Saved, o
  <1>10. \/ purged' = purged
         \/ \E a \in Archives : \E engs :
               /\ purged' = purged \cup ({a} \X Of(findings, engs))
               /\ Sent(a) /\ engs \subseteq content[a].engs
    BY <1>1, <1>2 DEF Effect, Filed, Undoing
  <1>11. ~Creating(t)
    BY <1>1, <1>2 DEF Moved, Creating
  <1>12. /\ UNCHANGED <<storage, content, answered, written, returned, pull, syncing>>
         /\ Recorded(catalog') /\ files' \subseteq Archives \X {"temporary", "permanent"}
    BY <1>1 DEF Effect, archive, others, Stores, Founded, Recorded
  <1> QED BY <1>4, <1>5, <1>7, <1>8, <1>9, <1>10, <1>11, <1>12, Kept1 DEF t

-----------------------------------------------------------------------------
(* The steps of the other requests. *)

\* Steps that change no stored data but the registry and the catalog.
LEMMA Kept2 ==
    ASSUME Stores, NEW r \in Requests, Mine(r),
           UNCHANGED <<storage, findings, written, tickets, memory, policy, candidates, content, answered,
                       others, history>>,
           registry' \subseteq Engagements, Recorded(catalog'),
           files' \subseteq Archives \X {"temporary", "permanent"},
           Filed(op'[r]), Saved(op'[r]),
           Creating(op'[r]) => \/ Creating(op[r]) /\ op'[r].archive = op[r].archive
                               \/ Unused(op'[r].archive)
    PROVE  Stores'
  <1>1. /\ {tickets', memory', registry', candidates'} \subseteq SUBSET Engagements
        /\ policy' \in Policies /\ Known(findings') /\ purged' = purged
        /\ UNCHANGED <<storage, content, answered, written, returned, pull, syncing>>
    BY DEF Stores, Stock, others, history
  <1> QED BY <1>1, Kept1

LEMMA StoresNow ==
    ASSUME Stores
    PROVE  /\ registry \subseteq Engagements /\ Recorded(catalog)
           /\ files \subseteq Archives \X {"temporary", "permanent"}
           /\ Inputs \subseteq Engagements
  BY DEF Stores, Stock, Founded, Inputs, Homes, Known, Rows, Findings

LEMMA IdleFiled == Filed(Idle) /\ Saved(Idle) /\ ~Creating(Idle)
  BY DEF Filed, Saved, Creating, Idle, Unseen, Removing, Undoing, Writing

LEMMA BeginsStores ==
    ASSUME Shaped, Stores, NEW r \in Requests, Begins(r)
    PROVE  Stores'
  <1>1. PICK n : Start(r, n) /\ NewRequest(n)
    BY BeginsLemma
  <1>2. op'[r] = n /\ Mine(r)
    BY <1>1 DEF Start, Shaped, Mine
  <1>3. Recorded(catalog) /\ answered \subseteq Archives
    BY DEF Stores, Founded
  <1>4. n.kind = "commit" => Sent(n.archive)
    BY <1>1, <1>3 DEF NewRequest, Committable, Found, Recorded
  <1>5. n.at = "saving" => /\ n.record \in Records /\ content[n.archive] # Absent
                           /\ n.record.downloaded => Sent(n.archive)
    <2> SUFFICES ASSUME n.at = "saving"
                 PROVE  /\ n.record \in Records /\ content[n.archive] # Absent
                        /\ n.record.downloaded => Sent(n.archive)
      OBVIOUS
    <2> DEFINE c == catalog[n.archive]
    <2>1. n.kind = "browse" /\ n.archive \in Archives /\ c # Absent /\ n.record = Touched(c)
      BY <1>1 DEF NewRequest, Found
    <2>2. c \in Records /\ content[n.archive] # Absent /\ (c.downloaded => Sent(n.archive))
      BY <1>3, <2>1 DEF Recorded
    <2> HIDE DEF c
    <2>3. Touched(c) \in Records /\ Touched(c).downloaded = c.downloaded
      BY <2>2 DEF Touched, Records
    <2> QED BY <2>1, <2>2, <2>3
  <1>6. n.at = "streaming" => content[n.archive] # Absent
    BY <1>1, <1>3 DEF NewRequest, Found, Recorded
  <1>7. Filed(n)
    BY <1>1, <1>3, <1>4, <1>5, <1>6 DEF Filed, NewRequest, Unseen, Removing, Undoing
  <1>8. Saved(n)
    BY <1>1 DEF Saved, NewRequest, Undoing, Writing
  <1>9. Creating(n) => Unused(n.archive)
    BY <1>1 DEF Creating, NewRequest
  <1>10. UNCHANGED <<storage, findings, written, tickets, memory, policy, candidates, content, answered,
                     others, history, registry, catalog, files>>
    BY <1>1 DEF Start, data, extra, archive
  <1> QED BY <1>2, <1>7, <1>8, <1>9, <1>10, StoresNow, Kept2

\* The lock, failures, policies, and the selection.
LEMMA LockStores ==
    ASSUME Shaped, Stores, NEW r \in Requests, Mine(r), Enters(r) \/ Leaves(r) \/ Fails(r) \/ Resolves(r)
    PROVE  Stores'
  <1> DEFINE o == op[r]
  <1>1. Filed(o) /\ DOMAIN o = Fields /\ DOMAIN op = Requests /\ Shape(o)
    BY DEF Stores, Filings, Shaped, Shape
  <1>k. ASSUME NEW t, op'[r] = t, Filed(t), Saved(t), Creating(t) => Creating(o) /\ t.archive = o.archive,
               UNCHANGED <<storage, findings, written, tickets, memory, policy, candidates, content,
                           answered, others, history, catalog>>,
               registry' \in {registry, registry \cup Inputs},
               files' \subseteq files
        PROVE  Stores'
    BY <1>k, StoresNow, Kept2
  <1>2. CASE Enters(r)
    <2>1. UNCHANGED <<storage, findings, written, tickets, memory, policy, candidates, content,
                      answered, others, history, catalog, registry, files>> /\ o.at = "entering"
      BY <1>2 DEF Enters, data, extra, archive
    <2>2. CASE Ends(r)
      <3>1. op'[r] = Idle
        BY <1>1, <2>2 DEF Ends
      <3> QED BY <2>1, <3>1, IdleFiled, <1>k
    <2>3. CASE Go(r, IF o.kind = "remove" THEN "finding" ELSE "working")
      <3> DEFINE at == IF o.kind = "remove" THEN "finding" ELSE "working"
      <3> DEFINE t == [o EXCEPT !.at = at]
      <3>1. op'[r] = t
        BY <1>1, <2>3 DEF Go
      <3>2. at \in {"working", "finding"} /\ (at = "finding" => o.kind = "remove")
        OBVIOUS
      <3> HIDE DEF at
      <3>3. t.at = at /\ \A x \in Fields \ {"at"} : t[x] = o[x]
        BY <1>1 DEF Fields
      <3> HIDE DEF t
      <3>4. Filed(t) /\ Saved(t) /\ (Creating(t) => Creating(o) /\ t.archive = o.archive)
        BY <1>1, <2>1, <3>2, <3>3 DEF Filed, Saved, Creating, Unseen, Removing, Undoing, Writing, Fields
      <3> QED BY <2>1, <3>1, <3>4, <1>k
    <2> QED BY <1>2, <2>2, <2>3 DEF Enters
  <1>3. CASE Leaves(r)
    <2>1. UNCHANGED <<storage, findings, written, tickets, memory, policy, candidates, content,
                      answered, others, history, catalog, registry, files>>
      BY <1>3 DEF Leaves, data, extra, archive
    <2>2. CASE Ends(r)
      <3>1. op'[r] = Idle
        BY <1>1, <2>2 DEF Ends
      <3> QED BY <2>1, <3>1, IdleFiled, <1>k
    <2>3. CASE o.kind = "commit" /\ op' = [op EXCEPT ![r] = [Idle EXCEPT !.kind = "commit",
                                               !.at = "finding", !.archive = op[r].archive]]
      <3> DEFINE a == o.archive
      <3> DEFINE t == [Idle EXCEPT !.kind = "commit", !.at = "finding", !.archive = a]
      <3>1. op'[r] = t
        BY <1>1, <2>3
      <3>2. a \in Archives /\ Sent(a)
        BY <1>1, <2>3 DEF Filed
      <3> HIDE DEF a
      <3>3. Filed(t) /\ Saved(t) /\ ~Creating(t)
        BY <3>2 DEF Idle, Filed, Saved, Creating, Unseen, Removing, Undoing, Writing
      <3> HIDE DEF t
      <3> QED BY <2>1, <3>1, <3>3, <1>k
    <2> QED BY <1>3, <2>2, <2>3 DEF Leaves
  <1>4. CASE Fails(r)
    <2>1. UNCHANGED <<storage, findings, written, tickets, memory, policy, candidates, content,
                      answered, others, history, catalog, registry>> /\ files' \subseteq files
      BY <1>4 DEF Fails, data, extra
    <2>2. CASE Ends(r)
      <3>1. op'[r] = Idle
        BY <1>1, <2>2 DEF Ends
      <3> QED BY <2>1, <3>1, IdleFiled, <1>k
    <2>3. CASE Breaks(r)
      <3> DEFINE t == [o EXCEPT !.at = "leaving", !.broken = TRUE]
      <3>1. op'[r] = t
        BY <1>1, <2>3 DEF Breaks, Fields
      <3>2. t.at = "leaving" /\ \A x \in Fields \ {"at", "broken"} : t[x] = o[x]
        BY <1>1 DEF Fields
      <3> HIDE DEF t
      <3>3. Filed(t) /\ Saved(t) /\ ~Creating(t)
        BY <1>1, <3>2 DEF Filed, Saved, Creating, Unseen, Removing, Undoing, Writing, Fields
      <3> QED BY <2>1, <3>1, <3>3, <1>k
    <2> QED BY <1>4, <2>2, <2>3 DEF Fails
  <1>5. CASE Resolves(r)
    <2>1. UNCHANGED <<storage, findings, written, tickets, memory, policy, candidates, content,
                      answered, others, history, catalog, files>>
          /\ registry' = registry \cup Inputs /\ registry' \subseteq Engagements
      BY <1>5, StoresNow DEF Resolves, archive, extra
    <2> DEFINE engs == IF o.kind = "commit" THEN content[o.archive].engs \cap registry'
                       ELSE IF o.engs = {} THEN registry' ELSE o.engs \cap registry'
    <2> DEFINE t == [o EXCEPT !.engs = engs,
                              !.at = IF engs = {} THEN "leaving"
                                     ELSE IF o.kind = "export" THEN "reading" ELSE "settings",
                              !.broken = (engs = {})]
    <2>2. op'[r] = t
      BY <1>1, <1>5 DEF Resolves
    <2>3. /\ engs \subseteq Engagements
          /\ o.kind = "commit" => engs \subseteq content[o.archive].engs
      BY <1>1, <2>1 DEF Filed
    <2>4. o.kind \in {"export", "delete", "commit"} /\ o.at = "working"
      BY <1>5 DEF Resolves, At
    <2> HIDE DEF engs
    <2>5. /\ t.engs = engs /\ t.at \in {"leaving", "reading", "settings"}
          /\ \A x \in Fields \ {"engs", "at", "broken"} : t[x] = o[x]
      BY <1>1 DEF Fields
    <2> HIDE DEF t
    <2>6. Filed(t) /\ Saved(t) /\ (Creating(t) => Creating(o) /\ t.archive = o.archive)
      BY <1>1, <2>3, <2>4, <2>5 DEF Filed, Saved, Creating, Unseen, Removing, Undoing, Writing, Fields
    <2> QED BY <2>1, <2>2, <2>6, <1>k
  <1> QED BY <1>2, <1>3, <1>4, <1>5

\* The catalog and the files of archives.
LEMMA CatalogStores ==
    ASSUME Shaped, Stores, NEW r \in Requests, Mine(r),
           Loads(r) \/ Saves(r) \/ Marks(r) \/ Promotes(r) \/ Moves(r) \/ MoveFails(r)
           \/ Finds(r) \/ Removes(r) \/ Unlinks(r) \/ ListsAll(r) \/ Sweeps(r)
    PROVE  Stores'
  <1> DEFINE o == op[r]
  <1>1. Filed(o) /\ DOMAIN o = Fields /\ DOMAIN op = Requests /\ Shape(o)
    BY DEF Stores, Filings, Shaped, Shape
  <1>2. UNCHANGED <<storage, findings, written, tickets, memory, policy, candidates, content, answered,
                    others, history, registry>>
    <2>1. CASE Loads(r) \/ Saves(r) \/ Marks(r) \/ Promotes(r) \/ Moves(r) \/ MoveFails(r)
      BY <2>1 DEF Loads, Saves, Marks, Promotes, Moves, MoveFails, data, extra, archive
    <2>2. CASE Finds(r) \/ Removes(r) \/ Unlinks(r) \/ ListsAll(r) \/ Sweeps(r)
      BY <2>2 DEF Finds, Removes, Unlinks, ListsAll, Sweeps, data, extra, archive
    <2> QED BY <2>1, <2>2
  <1>k. ASSUME NEW t, op'[r] = t, Filed(t), Saved(t), ~Creating(t), Recorded(catalog'),
               files' \subseteq Archives \X {"temporary", "permanent"}
        PROVE  Stores'
    BY <1>k, <1>2, StoresNow, Kept2
  <1>n. Recorded(catalog) /\ files \subseteq Archives \X {"temporary", "permanent"}
    BY StoresNow
  <1>i. ASSUME Ends(r), Recorded(catalog'), files' \subseteq Archives \X {"temporary", "permanent"}
        PROVE  Stores'
    <2>1. op'[r] = Idle
      BY <1>1, <1>i DEF Ends
    <2> QED BY <1>i, <2>1, IdleFiled, <1>k
  <1>3. CASE Loads(r)
    <2> DEFINE t == [o EXCEPT !.seen = catalog]
    <2>1. op'[r] = t /\ UNCHANGED <<catalog, files>> /\ o.at \in {"saving", "removing"}
      BY <1>1, <1>3 DEF Loads, archive
    <2>2. t.seen = catalog /\ \A x \in Fields \ {"seen"} : t[x] = o[x]
      BY <1>1 DEF Fields
    <2> HIDE DEF t
    <2>3. Filed(t) /\ Saved(t) /\ ~Creating(t)
      BY <1>1, <1>n, <2>1, <2>2 DEF Filed, Saved, Creating, Unseen, Removing, Undoing, Writing, Fields
    <2> QED BY <1>n, <2>1, <2>3, <1>k
  <1>b. o.at \in {"saving", "removing"} /\ Loaded(r) => Recorded(Base(r))
    BY <1>1, <1>n DEF Loaded, Base, Filed
  <1>4. CASE Saves(r)
    <2>1. o.at = "saving" /\ catalog' = [Base(r) EXCEPT ![o.archive] = o.record] /\ files' = files
      BY <1>4 DEF Saves
    <2>2. o.record \in Records /\ content[o.archive] # Absent /\ (o.record.downloaded => Sent(o.archive))
      BY <1>1, <2>1 DEF Filed
    <2>3. Recorded(Base(r))
      BY <1>4, <2>1, <1>b DEF Saves
    <2>4. Recorded(catalog')
      BY <2>1, <2>2, <2>3 DEF Recorded
    <2>5. PICK at \in {"finding", "leaving"} :
            \/ Ends(r)
            \/ /\ op'[r] = [o EXCEPT !.at = at, !.seen = Absent]
               /\ at = "finding" => o.kind = "download"
      BY <1>1, <1>4 DEF Saves, Ends
    <2>6. CASE op'[r] = [o EXCEPT !.at = at, !.seen = Absent] /\ (at = "finding" => o.kind = "download")
      <3> DEFINE t == [o EXCEPT !.at = at, !.seen = Absent]
      <3>1. t.at = at /\ t.seen = Absent /\ \A x \in Fields \ {"at", "seen"} : t[x] = o[x]
        BY <1>1 DEF Fields
      <3>2. op'[r] = t
        BY <2>6
      <3> HIDE DEF t
      <3>3. Filed(t) /\ Saved(t) /\ ~Creating(t)
        BY <1>1, <2>6, <3>1 DEF Filed, Saved, Creating, Unseen, Removing, Undoing, Writing, Fields
      <3> QED BY <1>n, <2>1, <2>4, <3>2, <3>3, <1>k
    <2>7. files' \subseteq Archives \X {"temporary", "permanent"}
      BY <1>n, <2>1
    <2> QED BY <2>4, <2>5, <2>6, <2>7, <1>i
  <1>5. CASE Marks(r)
    <2>1. o.at = "marking" /\ o.kind = "download" /\ UNCHANGED <<catalog, files>>
      BY <1>5 DEF Marks, At, archive
    <2>2. CASE Ends(r)
      BY <1>n, <2>1, <2>2, <1>i
    <2>3. CASE Found(o.archive) /\ op' = [op EXCEPT ![r].at = "saving",
                ![r].record = [Touched(catalog[o.archive]) EXCEPT !.downloaded = TRUE]]
      <3> DEFINE c == catalog[o.archive]
      <3> DEFINE rec == [Touched(c) EXCEPT !.downloaded = TRUE]
      <3>1. o.archive \in Archives /\ Sent(o.archive) /\ content[o.archive] # Absent /\ o.seen = Absent
        BY <1>1, <2>1 DEF Filed, Unseen, Sent
      <3>2. c \in Records
        BY <1>n, <2>3, <3>1 DEF Found, Recorded
      <3>3. rec \in Records
        BY <3>2 DEF Records, Touched
      <3> DEFINE t == [o EXCEPT !.at = "saving", !.record = rec]
      <3>4. op'[r] = t
        BY <1>1, <2>3 DEF Fields
      <3> HIDE DEF rec
      <3>5. t.at = "saving" /\ t.record = rec /\ \A x \in Fields \ {"at", "record"} : t[x] = o[x]
        BY <1>1 DEF Fields
      <3> HIDE DEF t
      <3>6. Filed(t) /\ Saved(t) /\ ~Creating(t)
        BY <1>1, <2>1, <3>1, <3>3, <3>5 DEF Filed, Saved, Creating, Unseen, Removing, Undoing, Writing, Fields
      <3> QED BY <1>n, <2>1, <3>4, <3>6, <1>k
    <2> QED BY <1>5, <2>2, <2>3 DEF Marks
  <1>l. ASSUME Go(r, "leaving"), UNCHANGED <<catalog, files>>
        PROVE  Stores'
    <2> DEFINE t == [o EXCEPT !.at = "leaving"]
    <2>1. op'[r] = t
      BY <1>1, <1>l DEF Go
    <2>2. t.at = "leaving" /\ \A x \in Fields \ {"at"} : t[x] = o[x]
      BY <1>1 DEF Fields
    <2> HIDE DEF t
    <2>3. Filed(t) /\ Saved(t) /\ ~Creating(t)
      BY <1>1, <2>2 DEF Filed, Saved, Creating, Unseen, Removing, Undoing, Writing, Fields
    <2> QED BY <1>n, <1>l, <2>1, <2>3, <1>k
  <1>6. CASE Promotes(r)
    <2>1. o.at = "working" /\ o.kind = "promote" /\ UNCHANGED <<catalog, files>>
      BY <1>6 DEF Promotes, At, archive
    <2>2. CASE Found(o.archive) /\ op' = [op EXCEPT ![r].at = "moving",
                ![r].record = [Touched(catalog[o.archive]) EXCEPT !.mode = "permanent"]]
      <3> DEFINE c == catalog[o.archive]
      <3> DEFINE rec == [Touched(c) EXCEPT !.mode = "permanent"]
      <3>1. o.archive \in Archives /\ o.seen = Absent
        BY <1>1, <2>1 DEF Filed, Unseen
      <3>2. c \in Records /\ content[o.archive] # Absent /\ (c.downloaded => Sent(o.archive))
        BY <1>n, <2>2, <3>1 DEF Found, Recorded
      <3>3. rec \in Records /\ rec.downloaded = c.downloaded
        BY <3>2 DEF Records, Touched
      <3> DEFINE t == [o EXCEPT !.at = "moving", !.record = rec]
      <3>4. op'[r] = t
        BY <1>1, <2>2 DEF Fields
      <3> HIDE DEF rec
      <3>5. t.at = "moving" /\ t.record = rec /\ \A x \in Fields \ {"at", "record"} : t[x] = o[x]
        BY <1>1 DEF Fields
      <3> HIDE DEF t
      <3> HIDE DEF c
      <3>6. Filed(t) /\ Saved(t) /\ ~Creating(t)
        BY <1>1, <2>1, <3>1, <3>2, <3>3, <3>5 DEF Filed, Saved, Creating, Unseen, Removing, Undoing, Writing, Fields
      <3> QED BY <1>n, <2>1, <3>4, <3>6, <1>k
    <2> QED BY <1>6, <2>1, <2>2, <1>l DEF Promotes
  <1>7. CASE Moves(r)
    <2> DEFINE rec == [o.record EXCEPT !.place = "permanent"]
    <2> DEFINE t == [o EXCEPT !.at = "saving", !.record = rec]
    <2>1. /\ o.at = "moving" /\ o.kind = "promote" /\ catalog' = catalog
          /\ \E from : files' = (files \ {from}) \cup {<<o.archive, "permanent">>}
      BY <1>7 DEF Moves, At
    <2>2. op'[r] = t
      BY <1>1, <1>7 DEF Moves, Fields
    <2>3. /\ o.archive \in Archives /\ o.seen = Absent /\ o.record \in Records
          /\ content[o.archive] # Absent /\ (o.record.downloaded => Sent(o.archive))
      BY <1>1, <2>1 DEF Filed, Unseen
    <2>4. rec \in Records /\ rec.downloaded = o.record.downloaded
      BY <2>3 DEF Records
    <2> HIDE DEF rec
    <2>5. t.at = "saving" /\ t.record = rec /\ \A x \in Fields \ {"at", "record"} : t[x] = o[x]
      BY <1>1 DEF Fields
    <2> HIDE DEF t
    <2>6. Filed(t) /\ Saved(t) /\ ~Creating(t)
      BY <1>1, <2>1, <2>3, <2>4, <2>5 DEF Filed, Saved, Creating, Unseen, Removing, Undoing, Writing, Fields
    <2>7. files' \subseteq Archives \X {"temporary", "permanent"}
      BY <1>n, <2>1, <2>3
    <2> QED BY <1>n, <2>1, <2>2, <2>6, <2>7, <1>k
  <1>8. CASE MoveFails(r)
    BY <1>8, <1>l DEF MoveFails, archive
  <1>d. ASSUME op' = [op EXCEPT ![r] = Deleted(o)], o.at \in Removing, Recorded(catalog'),
               files' \subseteq Archives \X {"temporary", "permanent"}
        PROVE  Stores'
    <2>1. CASE o.kind \in {"reset", "remove"}
      <3> DEFINE t == Deleted(o)
      <3>1. /\ t.at = IF o.kind = "reset" THEN "sweeping" ELSE "leaving"
            /\ o.kind = "reset" => t.seen = Absent
            /\ o.kind = "remove" => t.seen = o.seen
            /\ \A x \in Fields \ {"at", "record", "seen"} : t[x] = o[x]
        BY <1>1, <2>1 DEF Deleted, Fields
      <3>2. op'[r] = t
        BY <1>1, <1>d
      <3> HIDE DEF t
      <3>3. Filed(t) /\ Saved(t) /\ ~Creating(t)
        BY <1>1, <2>1, <3>1 DEF Filed, Saved, Creating, Unseen, Removing, Undoing, Writing, Fields
      <3> QED BY <1>d, <3>2, <3>3, <1>k
    <2>2. CASE o.kind \notin {"reset", "remove"}
      <3>1. Ends(r)
        BY <1>d, <2>2 DEF Deleted, Ends
      <3> QED BY <1>d, <3>1, <1>i
    <2> QED BY <2>1, <2>2
  <1>9. CASE Finds(r)
    <2>1. o.at = "finding" /\ UNCHANGED <<catalog, files>> /\ o.at \in Removing
      BY <1>9 DEF Finds, archive, Removing
    <2>2. \/ op' = [op EXCEPT ![r] = Deleted(o)]
          \/ \E c : op'[r] = [o EXCEPT !.at = "removing", !.record = c]
      BY <1>1, <1>9 DEF Finds
    <2>3. ASSUME NEW c, op'[r] = [o EXCEPT !.at = "removing", !.record = c]
          PROVE  Stores'
      <3> DEFINE t == [o EXCEPT !.at = "removing", !.record = c]
      <3>1. t.at = "removing" /\ \A x \in Fields \ {"at", "record"} : t[x] = o[x]
        BY <1>1 DEF Fields
      <3>2. op'[r] = t
        BY <2>3
      <3> HIDE DEF t
      <3>3. Filed(t) /\ Saved(t) /\ ~Creating(t)
        BY <1>1, <2>1, <3>1 DEF Filed, Saved, Creating, Unseen, Removing, Undoing, Writing, Fields
      <3> QED BY <1>n, <2>1, <3>2, <3>3, <1>k
    <2> QED BY <1>n, <2>1, <2>2, <2>3, <1>d
  <1>10. CASE Removes(r)
    <2>1. /\ o.at = "removing" /\ catalog' = [Base(r) EXCEPT ![o.archive] = Absent] /\ files' = files
          /\ Go(r, "unlinking")
      BY <1>10 DEF Removes
    <2>2. Recorded(catalog')
      BY <1>10, <2>1, <1>b DEF Removes, Recorded
    <2> DEFINE t == [o EXCEPT !.at = "unlinking"]
    <2>3. op'[r] = t
      BY <1>1, <2>1 DEF Go
    <2>4. t.at = "unlinking" /\ \A x \in Fields \ {"at"} : t[x] = o[x]
      BY <1>1 DEF Fields
    <2> HIDE DEF t
    <2>5. Filed(t) /\ Saved(t) /\ ~Creating(t)
      BY <1>1, <2>1, <2>4 DEF Filed, Saved, Creating, Unseen, Removing, Undoing, Writing, Fields
    <2> QED BY <1>n, <2>1, <2>2, <2>3, <2>5, <1>k
  <1>11. CASE Unlinks(r)
    <2>1. /\ op' = [op EXCEPT ![r] = Deleted(o)] /\ o.at \in Removing /\ catalog' = catalog
          /\ files' \subseteq files
      BY <1>11 DEF Unlinks, Removing
    <2> QED BY <1>n, <2>1, <1>d
  <1>12. CASE ListsAll(r)
    <2> DEFINE todo == {a \in Archives : catalog[a] # Absent}
    <2> DEFINE t == [o EXCEPT !.at = "sweeping", !.todo = todo]
    <2>1. op'[r] = t /\ UNCHANGED <<catalog, files>> /\ o.kind = "reset" /\ o.at = "working"
      BY <1>1, <1>12 DEF ListsAll, At, archive, Fields
    <2>2. todo \subseteq Archives
      OBVIOUS
    <2> HIDE DEF todo
    <2>3. t.at = "sweeping" /\ t.todo = todo /\ \A x \in Fields \ {"at", "todo"} : t[x] = o[x]
      BY <1>1 DEF Fields
    <2> HIDE DEF t
    <2>4. Filed(t) /\ Saved(t) /\ ~Creating(t)
      BY <1>1, <2>1, <2>2, <2>3 DEF Filed, Saved, Creating, Unseen, Removing, Undoing, Writing, Fields
    <2> QED BY <1>n, <2>1, <2>4, <1>k
  <1>13. CASE Sweeps(r)
    <2>1. o.kind = "reset" /\ o.at = "sweeping" /\ UNCHANGED <<catalog, files>>
      BY <1>13 DEF Sweeps, At, archive
    <2>2. o.todo \subseteq Archives /\ o.seen = Absent
      BY <1>1, <2>1 DEF Filed, Unseen
    <2>3. ASSUME NEW a \in o.todo,
                 op' = [op EXCEPT ![r].at = "finding", ![r].archive = a, ![r].todo = @ \ {a}]
          PROVE  Stores'
      <3> DEFINE t == [o EXCEPT !.at = "finding", !.archive = a, !.todo = @ \ {a}]
      <3>1. op'[r] = t
        BY <1>1, <2>3 DEF Fields
      <3>2. t.at = "finding" /\ t.archive = a /\ t.todo = o.todo \ {a}
            /\ \A x \in Fields \ {"at", "archive", "todo"} : t[x] = o[x]
        BY <1>1 DEF Fields
      <3> HIDE DEF t
      <3>3. Filed(t) /\ Saved(t) /\ ~Creating(t)
        BY <1>1, <2>1, <2>2, <3>2 DEF Filed, Saved, Creating, Unseen, Removing, Undoing, Writing, Fields
      <3> QED BY <1>n, <2>1, <3>1, <3>3, <1>k
    <2>4. CASE Go(r, "clearing")
      <3> DEFINE t == [o EXCEPT !.at = "clearing"]
      <3>1. op'[r] = t
        BY <1>1, <2>4 DEF Go
      <3>2. t.at = "clearing" /\ \A x \in Fields \ {"at"} : t[x] = o[x]
        BY <1>1 DEF Fields
      <3> HIDE DEF t
      <3>3. Filed(t) /\ Saved(t) /\ ~Creating(t)
        BY <1>1, <2>1, <3>2 DEF Filed, Saved, Creating, Unseen, Removing, Undoing, Writing, Fields
      <3> QED BY <1>n, <2>1, <3>1, <3>3, <1>k
    <2> QED BY <1>13, <2>3, <2>4 DEF Sweeps
  <1> QED BY <1>3, <1>4, <1>5, <1>6, <1>7, <1>8, <1>9, <1>10, <1>11, <1>12, <1>13

\* An archive is made, imported, or its download is answered.
LEMMA MakesStores ==
    ASSUME Shaped, LockExact, Stores, NEW r \in Requests, Mine(r),
           ExportReads(r) \/ Imports(r) \/ Streams(r)
    PROVE  Stores'
  <1> DEFINE o == op[r]
  <1> DEFINE a == o.archive
  <1>1. Filed(o) /\ DOMAIN o = Fields /\ DOMAIN op = Requests /\ Shape(o)
    BY DEF Stores, Filings, Shaped, Shape
  <1>2. UNCHANGED <<storage, data, others, extra, history, holder, catalog>>
    BY DEF ExportReads, Imports, Streams
  <1>3. a \in Archives
    BY <1>1 DEF ExportReads, Imports, Streams, At, Filed
  <1>4. /\ content \in [Archives -> Contents \cup {Absent}] /\ answered \subseteq Archives
        /\ \A b \in answered : content[b] # Absent
        /\ Recorded(catalog) /\ Known(findings) /\ written \in 1 .. MaxRows
        /\ files \subseteq Archives \X {"temporary", "permanent"}
        /\ \A b \in Archives : content[b] # Absent => content[b].upto <= written
    BY DEF Stores, Founded, Stock
  <1>m. ASSUME NEW c \in Contents, o.kind \in {"export", "import"}, Creating(o),
               content' = [content EXCEPT ![a] = c], answered' = answered, c.upto <= written,
               NEW mode \in {"temporary", "permanent"}, files' = files \cup {<<a, mode>>},
               NEW rec \in Records, rec.downloaded => ~c.home,
               op' = [op EXCEPT ![r].at = "saving", ![r].record = rec],
               \/ ~c.home \/ \E old \in Archives : content[old] # Absent /\ c = content[old]
               \/ /\ c.rows = Of(findings, c.engs)
                  /\ o.kind = "export" /\ o.at = "reading"
        PROVE  Stores'
    <2>1. content[a] = Absent /\ c # Absent
      BY <1>m, DataAssumption DEF Stores, Reserved
    <2>2. /\ content' \in [Archives -> Contents \cup {Absent}] /\ content'[a] = c
          /\ \A b \in Archives \ {a} : content'[b] = content[b]
      BY <1>m, <1>3, <1>4
    <2>3. Grows
      BY <1>2, <1>m, <1>4, <2>1, <2>2 DEF Grows, data, history
    <2>3a. PICK t : t = [o EXCEPT !.at = "saving", !.record = rec]
      OBVIOUS
    <2>4. op'[r] = t
      BY <1>1, <1>m, <2>3a DEF Fields
    <2>6. t.at = "saving" /\ t.record = rec /\ \A x \in Fields \ {"at", "record"} : t[x] = o[x]
      BY <1>1, <2>3a DEF Fields
    <2>7. o.seen = Absent
      BY <1>1, <1>m DEF Creating, Filed, Unseen
    <2>8. Filed(op[r])' /\ Saved(op[r])' /\ ~Creating(t)
      <3>1. content'[t.archive] # Absent /\ t.archive \in Archives
        BY <1>3, <2>1, <2>2, <2>6 DEF Fields
      <3>1a. t.record.downloaded => Sent(t.archive)'
        <4>1. t.archive = a /\ t.record = rec
          BY <2>6 DEF Fields
        <4> QED BY <1>m, <2>1, <2>2, <4>1 DEF Sent
      <3>2. Filed(t)'
        BY <1>1, <1>m, <2>6, <2>7, <3>1, <3>1a
           DEF Filed, Creating, Unseen, Removing, Undoing, Fields
      <3>3. Saved(t)' /\ ~Creating(t)
        BY <2>6 DEF Saved, Creating, Undoing, Writing
      <3> QED BY <2>4, <3>2, <3>3
    <2>9. Founded'
      <3>1. Recorded(catalog)'
        <4>1. Recorded(catalog)
          BY <1>4
        <4> QED BY <1>2, <2>3, <4>1 DEF Recorded, Grows, Sent
      <3> QED BY <1>3, <1>4, <1>m, <2>1, <2>2, <3>1 DEF Founded
    <2>10. Reserved'
      <3> SUFFICES ASSUME NEW p \in Requests, Creating(op'[p])
                   PROVE  /\ content'[op'[p].archive] = Absent
                          /\ \A q \in Requests \ {p} : Creating(op'[q]) => op'[q].archive # op'[p].archive
        BY DEF Reserved, Creating
      <3>1. ASSUME NEW q \in Requests, Creating(op'[q])
            PROVE  q # r /\ op'[q] = op[q] /\ op[q].archive # a /\ op[q].archive \in Archives
        <4>1. q # r /\ op'[q] = op[q]
          BY <2>4, <2>8, <3>1 DEF Mine
        <4>2. Filed(op[q])
          BY DEF Stores, Filings
        <4> QED BY <1>m, <3>1, <4>1, <4>2 DEF Stores, Reserved, Creating, Filed
      <3> QED BY <2>2, <3>1 DEF Stores, Reserved
    <2>11. Covered(findings)'
      <3> SUFFICES ASSUME NEW f \in findings, NEW b \in Archives, content'[b] # Absent,
                          content'[b].home, f[1] \in content'[b].engs
                   PROVE  f \in content'[b].rows \/ f[2] > content'[b].upto \/ f \in returned
        BY <1>2 DEF Covered, data, history
      <3>1. CASE b # a
        BY <2>2, <3>1, <1>4 DEF Known, Covered
      <3>2. CASE b = a /\ c.rows = Of(findings, c.engs)
        BY <2>2, <3>2 DEF Of
      <3>3. CASE b = a /\ \E old \in Archives : content[old] # Absent /\ c = content[old]
        BY <2>2, <3>3, <1>4 DEF Known, Covered
      <3> QED BY <1>m, <2>2, <3>1, <3>2, <3>3
    <2>12. Stock'
      <3>1. \A b \in Archives : content'[b] # Absent => content'[b].upto <= written
        BY <1>4, <1>m, <2>2
      <3>2. Known(findings)' /\ Rows(pull.seen)'
        BY <1>2, <1>4, <2>11 DEF Known, Rows, data, others, Stores, Stock
      <3>3. \A p \in purged : content'[p[1]] # Absent
        BY <2>3 DEF Stores, Stock, Grows
      <3> QED BY <1>2, <3>1, <3>2, <3>3 DEF Stores, Stock, data, others, extra, history
    <2>13. DeletedWasArchived'
      BY <1>2, <2>3, PurgedStays DEF Stores, history
    <2>14. ASSUME NEW p \in Requests PROVE (Filed(op[p]) /\ Saved(op[p]))'
      <3>1. CASE p = r
        BY <2>8, <3>1
      <3>2. CASE p # r
        <4>1. op'[p] = op[p] /\ Filed(op[p]) /\ Saved(op[p]) /\ Shape(op[p])
          BY <3>2 DEF Mine, Stores, Filings, Shaped
        <4>2. Filed(op[p])'
          BY <1>4, <2>3, <4>1, FiledStays
        <4>3. CASE ~c.home \/ \E old \in Archives : content[old] # Absent /\ c = content[old]
          <5>1. Copied
            BY <1>3, <2>2, <4>3 DEF Copied
          <5> QED BY <2>3, <4>1, <4>2, <5>1, SavedStays
        <4>4. CASE o.kind = "export" /\ o.at = "reading"
          <5>1. holder = r
            BY <4>4 DEF LockExact, Holding
          <5>2. op[p].at \notin Undoing
            <6>1. op[p].at \in Undoing => op[p].kind \in {"delete", "commit"}
              BY <4>1, StagesOf
            <6> QED BY <3>2, <5>1, <6>1 DEF LockExact, Holding, Undoing, Removing
          <5>3. Saved(op[p])'
            BY <4>1, <5>2 DEF Saved, Undoing, Writing
          <5> QED BY <4>2, <5>3
        <4> QED BY <1>m, <4>3, <4>4
      <3> QED BY <3>1, <3>2
    <2> QED BY <2>9, <2>10, <2>12, <2>13, <2>14 DEF Stores, Filings
  <1>5. CASE ExportReads(r)
    <2> DEFINE c == [purpose |-> o.purpose, engs |-> o.engs, rows |-> Of(findings, o.engs),
                     upto |-> written, home |-> TRUE]
    <2>1. c \in Contents
      BY <1>1, <1>4 DEF Contents, Filed, Of, Known, Rows
    <2>2. Creating(o) /\ o.kind = "export" /\ o.at = "reading"
      BY <1>5 DEF ExportReads, At, Creating
    <2>3. c.upto <= written /\ c.rows = Of(findings, c.engs)
      BY <1>4
    <2> DEFINE rec == Fresh("temporary", "temporary")
    <2>4. /\ content' = [content EXCEPT ![a] = c] /\ answered' = answered
          /\ files' = files \cup {<<a, "temporary">>}
          /\ op' = [op EXCEPT ![r].at = "saving", ![r].record = rec]
      BY <1>5 DEF ExportReads
    <2>5. rec \in Records /\ ~rec.downloaded
      BY DEF Fresh, Records
    <2> HIDE DEF c, rec
    <2> QED BY <2>1, <2>2, <2>3, <2>4, <2>5, <1>m
  <1>6. CASE Imports(r)
    <2>1. PICK mode \in {"temporary", "permanent"},
               c \in Foreign \cup {content[b] : b \in answered}, downloaded \in BOOLEAN :
            /\ c.home => ~downloaded
            /\ content' = [content EXCEPT ![a] = c]
            /\ files' = files \cup {<<a, mode>>}
            /\ op' = [op EXCEPT ![r].at = "saving",
                        ![r].record = [Fresh(mode, mode) EXCEPT !.downloaded = downloaded]]
      BY <1>6 DEF Imports
    <2>2. /\ c \in Contents /\ c.upto <= written
          /\ ~c.home \/ \E old \in Archives : content[old] # Absent /\ c = content[old]
      <3>1. CASE c \in Foreign
        <4>1. PICK purpose \in {"export", "export-delete"}, engs \in SUBSET Engagements \ {{}} :
                c = [purpose |-> purpose, engs |-> engs, rows |-> {}, upto |-> 0, home |-> FALSE]
          BY <3>1 DEF Foreign
        <4>2. c \in Contents
          BY <4>1 DEF Contents
        <4>3. c.upto = 0 /\ c.home = FALSE
          BY <4>1
        <4> QED BY <1>4, <4>2, <4>3
      <3>2. CASE c \in {content[b] : b \in answered}
        BY <1>4, <3>2
      <3> QED BY <3>1, <3>2
    <2>3. Creating(o) /\ o.kind = "import" /\ answered' = answered
      BY <1>6 DEF Imports, At, Creating
    <2> DEFINE rec == [Fresh(mode, mode) EXCEPT !.downloaded = downloaded]
    <2>4. rec \in Records /\ rec.downloaded = downloaded
      BY DEF Fresh, Records
    <2>5. op' = [op EXCEPT ![r].at = "saving", ![r].record = rec]
      BY <2>1
    <2> HIDE DEF rec
    <2> QED BY <2>1, <2>2, <2>3, <2>4, <2>5, <1>m
  <1>7. CASE Streams(r)
    <2>1. o.kind = "download" /\ o.at = "streaming" /\ Go(r, "marking")
          /\ answered' = answered \cup {a} /\ UNCHANGED <<files, content>>
      BY <1>7 DEF Streams, At
    <2>2. content[a] # Absent /\ o.seen = Absent
      BY <1>1, <2>1 DEF Filed, Unseen
    <2>3. Grows /\ Copied
      BY <1>2, <1>4, <2>1 DEF Grows, Copied, data, history
    <2>3a. PICK t : t = [o EXCEPT !.at = "marking"]
      OBVIOUS
    <2>4. op'[r] = t
      BY <1>1, <2>1, <2>3a DEF Go
    <2>5. t.at = "marking" /\ \A x \in Fields \ {"at"} : t[x] = o[x]
      BY <1>1, <2>3a DEF Fields
    <2>6. Filed(op[r])' /\ Saved(op[r])'
      <3>1. Filed(t)' /\ Saved(t)'
        BY <1>1, <1>3, <2>1, <2>2, <2>5 DEF Filed, Saved, Unseen, Removing, Undoing, Writing, Fields, Sent
      <3> QED BY <2>4, <3>1
    <2>7. ~Creating(op'[r])
      BY <2>4, <2>5 DEF Creating
    <2>8. Reserved'
      <3> SUFFICES ASSUME NEW p \in Requests, Creating(op'[p])
                   PROVE  /\ content[op'[p].archive] = Absent
                          /\ \A q \in Requests \ {p} : Creating(op'[q]) => op'[q].archive # op'[p].archive
        BY <2>1 DEF Reserved, Creating
      <3>1. \A q \in Requests : Creating(op'[q]) => op'[q] = op[q]
        BY <2>7 DEF Mine
      <3> QED BY <3>1 DEF Stores, Reserved
    <2>9. Founded'
      <3>1. Recorded(catalog)'
        BY <1>2, <1>4, <2>3 DEF Recorded, Grows, Sent
      <3> QED BY <1>3, <1>4, <2>1, <2>2, <3>1 DEF Founded
    <2>10. Stock'
      BY <1>2, <2>1 DEF Stores, Stock, Known, Rows, Covered, data, others, extra, history
    <2>11. DeletedWasArchived'
      BY <1>2, <2>3, PurgedStays DEF Stores, history
    <2> QED BY <2>3, <2>6, <2>8, <2>9, <2>10, <2>11, Carried
  <1> QED BY <1>5, <1>6, <1>7

\* Policies, clearing, the factory reset and the hierarchy view.
LEMMA PlainStores ==
    ASSUME Shaped, Stores, NEW r \in Requests, Mine(r),
           SetsPolicies(r) \/ ClearsFindings(r) \/ ClearsAll(r)
           \/ ViewRegisters(r) \/ ViewStores(r) \/ ViewJudges(r) \/ ViewPrunes(r)
    PROVE  Stores'
  <1> DEFINE o == op[r]
  <1>1. Filed(o) /\ Saved(o) /\ DOMAIN o = Fields /\ DOMAIN op = Requests /\ Shape(o)
    BY DEF Stores, Filings, Shaped, Shape
  <1>2. /\ UNCHANGED <<storage, content, answered, written, returned, pull, syncing, purged>>
        /\ files' = files
    BY DEF SetsPolicies, ClearsFindings, ClearsAll, ViewRegisters, ViewStores, ViewJudges, ViewPrunes,
           archive, others, history
  <1>3. /\ Known(findings) /\ policy \in Policies /\ Known({})
        /\ {tickets, memory, registry, candidates} \subseteq SUBSET Engagements
    BY DEF Stores, Stock, Known, Rows, Covered
  <1>k. ASSUME NEW t, op'[r] = t, Filed(t), Saved(t), ~Creating(t), Recorded(catalog'),
               {tickets', memory', registry', candidates'} \subseteq SUBSET Engagements,
               policy' \in Policies, Known(findings')
        PROVE  Stores'
    BY <1>k, <1>2, StoresNow, Kept1
  <1>g. ASSUME NEW at \in {"leaving", "judging"}, Go(r, at), Recorded(catalog'),
               {tickets', memory', registry', candidates'} \subseteq SUBSET Engagements,
               policy' \in Policies, Known(findings')
        PROVE  Stores'
    <2> DEFINE t == [o EXCEPT !.at = at]
    <2>1. op'[r] = t
      BY <1>1, <1>g DEF Go
    <2>2. t.at = at /\ \A x \in Fields \ {"at"} : t[x] = o[x]
      BY <1>1 DEF Fields
    <2> HIDE DEF t
    <2>3. Filed(t) /\ Saved(t) /\ ~Creating(t)
      BY <1>1, <2>2 DEF Filed, Saved, Creating, Unseen, Removing, Undoing, Writing, Fields
    <2> QED BY <1>g, <2>1, <2>3, <1>k
  <1>4. CASE SetsPolicies(r)
    <2>1. Switched(r) \in Policies
      BY <1>3 DEF Switched, Chosen, Policies
    <2>2. /\ UNCHANGED <<findings, tickets, memory, registry, candidates, catalog>>
          /\ policy' = Switched(r) /\ Go(r, "leaving")
      BY <1>4 DEF SetsPolicies, extra, archive
    <2> QED BY <1>3, <2>1, <2>2, <1>g, StoresNow
  <1>5. CASE ClearsFindings(r)
    <2>1. /\ UNCHANGED <<tickets, memory, registry, candidates, catalog, policy>>
          /\ findings' = {} /\ Go(r, "leaving")
      BY <1>5 DEF ClearsFindings, extra, archive
    <2> QED BY <1>3, <2>1, <1>g, StoresNow
  <1>6. CASE ClearsAll(r)
    <2>1. /\ findings' = {} /\ tickets' = {} /\ memory' = {} /\ registry' = {} /\ candidates' = {}
          /\ policy' = [e \in Engagements |-> "none"] /\ Go(r, "leaving")
          /\ catalog' = [a \in Archives |-> Absent] \/ catalog' = catalog
      BY <1>6 DEF ClearsAll
    <2>2. Recorded(catalog') /\ policy' \in Policies
      BY <2>1, StoresNow DEF Recorded, Policies
    <2> QED BY <1>3, <2>1, <2>2, <1>g
  <1>7. CASE ViewStores(r)
    <2>1. /\ UNCHANGED <<findings, tickets, memory, registry, candidates, catalog>>
          /\ policy' = o.seen /\ o.at = "storing" /\ Go(r, "judging")
      BY <1>7 DEF ViewStores, At, extra, archive
    <2>2. policy' \in Policies
      BY <1>1, <2>1 DEF Saved
    <2> QED BY <1>3, <2>1, <2>2, <1>g, StoresNow
  <1>8. CASE ViewRegisters(r)
    <2>1. /\ UNCHANGED <<findings, tickets, memory, policy, candidates, catalog>>
          /\ registry' = registry \cup Inputs
      BY <1>8 DEF ViewRegisters, extra, archive
    <2>2. PICK at \in {"storing", "judging"} : op'[r] = [o EXCEPT !.at = at, !.seen = policy]
      BY <1>1, <1>8 DEF ViewRegisters
    <2> DEFINE t == [o EXCEPT !.at = at, !.seen = policy]
    <2>3. op'[r] = t
      BY <2>2
    <2>4. t.at = at /\ t.seen = policy /\ \A x \in Fields \ {"at", "seen"} : t[x] = o[x]
      BY <1>1 DEF Fields
    <2> HIDE DEF t
    <2>5. Filed(t) /\ Saved(t) /\ ~Creating(t)
      BY <1>1, <1>3, <2>4 DEF Filed, Saved, Creating, Unseen, Removing, Undoing, Writing, Fields
    <2> QED BY <1>3, <2>1, <2>3, <2>5, <1>k, StoresNow
  <1>9. CASE ViewJudges(r) \/ ViewPrunes(r)
    <2>1. UNCHANGED <<findings, tickets, memory, policy, candidates, catalog>>
      BY <1>9 DEF ViewJudges, ViewPrunes, extra, archive
    <2>2. registry' \subseteq Engagements
      BY <1>3, <1>9 DEF ViewJudges, ViewPrunes
    <2>3. \/ op'[r] = Idle
          \/ o.kind = "view" /\ \E todo : op'[r] = [o EXCEPT !.at = "pruning", !.todo = todo]
      BY <1>1, <1>9 DEF ViewJudges, ViewPrunes, Ends, At
    <2>4. CASE op'[r] = Idle
      BY <1>3, <2>1, <2>2, <2>4, <1>k, IdleFiled, StoresNow
    <2>5. ASSUME NEW todo, o.kind = "view", op'[r] = [o EXCEPT !.at = "pruning", !.todo = todo]
          PROVE  Stores'
      <3> DEFINE t == [o EXCEPT !.at = "pruning", !.todo = todo]
      <3>1. op'[r] = t
        BY <2>5
      <3>2. t.at = "pruning" /\ \A x \in Fields \ {"at", "todo"} : t[x] = o[x]
        BY <1>1 DEF Fields
      <3> HIDE DEF t
      <3>3. Filed(t) /\ Saved(t) /\ ~Creating(t)
        BY <1>1, <2>5, <3>2 DEF Filed, Saved, Creating, Unseen, Removing, Undoing, Writing, Fields
      <3> QED BY <1>3, <2>1, <2>2, <3>1, <3>3, <1>k, StoresNow
    <2> QED BY <2>3, <2>4, <2>5
  <1> QED BY <1>4, <1>5, <1>6, <1>7, <1>8, <1>9

\* Sync All, pulls, a crash, and the passing of time.
LEMMA Kept3 ==
    ASSUME Stores, Grows, Copied, Founded', Stock', Reserved', purged' = purged,
           \A p \in Requests : Filed(op'[p]) /\ Saved(op'[p])
    PROVE  Stores'
  <1>1. \A p \in Requests : (Filed(op[p]) /\ Saved(op[p]))'
    BY FiledStays, SavedStays DEF Stores, Founded
  <1>2. DeletedWasArchived'
    BY PurgedStays DEF Stores
  <1> QED BY <1>1, <1>2 DEF Stores, Filings

LEMMA ElsewhereStores ==
    ASSUME Stores, Elsewhere
    PROVE  Stores'
  <1>1. UNCHANGED <<storage, op, holder, policy, candidates, target, references, content, answered,
                    purged, returned>>
    BY ElsewhereFrame
  <1>2. Recorded(catalog) /\ written \in 1 .. MaxRows /\ Known(findings)
    BY DEF Stores, Founded, Stock
  <1>3. \/ catalog' = catalog
        \/ \E a \in Archives : catalog[a] # Absent /\ catalog' = [catalog EXCEPT ![a].expired = TRUE]
    <2>1. CASE \E a \in Archives : Expires(a)
      BY <2>1 DEF Expires
    <2>2. CASE SyncStarts \/ SyncEnds \/ (\E e \in Engagements : SyncWrites(e)) \/ PullStarts
               \/ PullFilters \/ PullLoads
      BY <2>2 DEF SyncStarts, SyncEnds, SyncWrites, PullStarts, PullFilters, PullLoads, archive
    <2> QED BY <2>1, <2>2 DEF Elsewhere
  <1>4. Recorded(catalog')
    <2>1. CASE catalog' = catalog
      BY <1>2, <2>1
    <2>2. ASSUME NEW a \in Archives, catalog[a] # Absent, catalog' = [catalog EXCEPT ![a].expired = TRUE]
          PROVE  Recorded(catalog')
      <3> DEFINE c == [catalog[a] EXCEPT !.expired = TRUE]
      <3>1. catalog[a] \in Records
        BY <1>2, <2>2 DEF Recorded
      <3>2. c \in Records /\ c.downloaded = catalog[a].downloaded
        BY <3>1 DEF Records
      <3>3. catalog' = [catalog EXCEPT ![a] = c]
        BY <2>2
      <3> HIDE DEF c
      <3> QED BY <1>2, <2>2, <3>2, <3>3 DEF Recorded
    <2> QED BY <1>3, <2>1, <2>2
  <1>5. files' = files
    <2>1. CASE (\E a \in Archives : Expires(a)) \/ SyncStarts \/ SyncEnds \/ \E e \in Engagements : SyncWrites(e)
      BY <2>1 DEF Expires, SyncStarts, SyncEnds, SyncWrites, archive
    <2>2. CASE PullStarts \/ PullFilters \/ PullLoads
      BY <2>2 DEF PullStarts, PullFilters, PullLoads, archive
    <2> QED BY <2>1, <2>2 DEF Elsewhere
  <1>6. Founded'
    BY <1>1, <1>4, <1>5 DEF Stores, Founded, Recorded, Sent
  <1>7. Reserved'
    BY <1>1 DEF Stores, Reserved, Creating
  <1>8. Stock' /\ written' \in Nat /\ written <= written'
    <2>1. CASE \E a \in Archives : Expires(a)
      BY <1>1, <2>1 DEF Expires, Stores, Stock, data, others, Known, Rows, Covered
    <2>2. CASE SyncStarts \/ SyncEnds
      <3>1. syncing' \subseteq Engagements /\ UNCHANGED <<data, pull>>
        BY <2>2 DEF SyncStarts, SyncEnds
      <3> QED BY <1>1, <3>1 DEF Stores, Stock, data, Known, Rows, Covered
    <2>3. ASSUME NEW e \in Engagements, SyncWrites(e)
          PROVE  Stock' /\ written' \in Nat /\ written <= written'
      <3>1. /\ written < MaxRows /\ written' = written + 1 /\ findings' = findings \cup {<<e, written + 1>>}
            /\ tickets' = tickets \cup {e} /\ memory' = memory \cup {e} /\ registry' = registry \cup {e}
            /\ UNCHANGED <<pull, syncing>>
        BY <2>3 DEF SyncWrites, New, others
      <3>2. written' \in 1 .. MaxRows /\ written < written'
        BY <1>2, <3>1, DataAssumption
      <3>3. Rows(findings)' /\ Rows(pull.seen)'
        BY <1>2, <3>1, <3>2 DEF Known, Rows, Findings, Stores, Stock
      <3>4. Covered(findings)'
        BY <1>1, <1>2, <3>1 DEF Known, Covered, Stores, Stock, Founded, Contents
      <3>5. \A a \in Archives : content[a] # Absent => content[a].upto <= written'
        BY <1>2, <3>1 DEF Stores, Stock, Founded, Contents
      <3> QED BY <1>1, <3>1, <3>2, <3>3, <3>4, <3>5 DEF Stores, Stock, Known
    <2>4. CASE PullStarts \/ PullFilters \/ PullLoads
      <3>1. UNCHANGED <<findings, written, tickets, memory, syncing>> /\ registry' \subseteq Engagements
        <4>1. registry \subseteq Engagements
          BY DEF Stores, Stock
        <4>2. CASE PullStarts \/ PullLoads
          BY <4>1, <4>2 DEF PullStarts, PullLoads, data
        <4>3. CASE PullFilters
          BY <4>1, <4>3, SelectionsOK DEF PullFilters
        <4> QED BY <2>4, <4>2, <4>3
      <3>2. Rows({}) /\ Rows(findings) /\ Rows(pull.seen)
            /\ DOMAIN pull = {"at", "engs", "seen"} /\ pull.engs \subseteq Engagements
        BY DEF Stores, Stock, Rows, Known
      <3>3. DOMAIN pull' = {"at", "engs", "seen"} /\ pull'.engs \subseteq Engagements /\ Rows(pull'.seen)
        <4>1. CASE PullStarts
          BY <3>2, <4>1 DEF PullStarts, NoPull
        <4>2. CASE PullFilters
          <5>1. PICK engs \in Selections, at \in {"loading", "saving"} :
                  pull' = [pull EXCEPT !.at = at, !.engs = {e \in engs : policy[e] # "disabled"}]
            BY <4>2 DEF PullFilters
          <5> DEFINE some == {e \in engs : policy[e] # "disabled"}
          <5>2. some \subseteq Engagements
            BY SelectionsOK
          <5> HIDE DEF some
          <5>3. pull' = [pull EXCEPT !.at = at, !.engs = some]
            BY <5>1 DEF some
          <5> QED BY <3>2, <5>2, <5>3
        <4>3. CASE PullLoads
          BY <3>2, <4>3 DEF PullLoads
        <4> QED BY <2>4, <4>1, <4>2, <4>3
      <3> QED BY <1>1, <1>2, <3>1, <3>3 DEF Stores, Stock, Known, Rows, Covered
    <2> QED BY <2>1, <2>2, <2>3, <2>4 DEF Elsewhere
  <1>9. Grows /\ Copied
    BY <1>1, <1>2, <1>8 DEF Grows, Copied
  <1>10. \A p \in Requests : Filed(op'[p]) /\ Saved(op'[p])
    BY <1>1 DEF Stores, Filings
  <1> QED BY <1>1, <1>6, <1>7, <1>8, <1>9, <1>10, Kept3

LEMMA PullSavesStores ==
    ASSUME Shaped, Stores, PullSaves
    PROVE  Stores'
  <1>1. /\ UNCHANGED <<storage, tickets, memory, registry, policy, candidates, content, answered, catalog,
                       files, syncing, purged>>
        /\ written < MaxRows /\ written' = written + 1 /\ pull' = NoPull
        /\ returned' = returned \cup (pull.seen \ findings)
        /\ op' = [p \in Requests |-> [op[p] EXCEPT !.mixed = storage = "json"]]
    BY DEF PullSaves, extra, archive
  <1>2. /\ Recorded(catalog) /\ written \in 1 .. MaxRows /\ Known(findings)
        /\ Rows(pull.seen) /\ pull.engs \subseteq Engagements
    BY DEF Stores, Founded, Stock
  <1>3. written' \in 1 .. MaxRows /\ written' \in Nat /\ written <= written'
    BY <1>1, <1>2, DataAssumption
  <1>4. Grows /\ Copied
    BY <1>1, <1>2, <1>3 DEF Grows, Copied
  <1>5. ASSUME NEW p \in Requests
        PROVE  /\ Filed(op'[p]) /\ Saved(op'[p]) /\ (Creating(op'[p]) <=> Creating(op[p]))
               /\ op'[p].archive = op[p].archive
    <2> DEFINE mixed == (storage = "json")
    <2> DEFINE t == [op[p] EXCEPT !.mixed = mixed]
    <2>1. op'[p] = t
      BY <1>1
    <2> HIDE DEF mixed
    <2>2. \A x \in Fields \ {"mixed"} : t[x] = op[p][x]
      BY DEF Shaped, Shape, Fields
    <2> HIDE DEF t
    <2>3. Filed(op[p]) /\ Saved(op[p])
      BY DEF Stores, Filings
    <2> QED BY <2>1, <2>2, <2>3 DEF Filed, Saved, Creating, Fields
  <1>6. Founded'
    BY <1>1 DEF Stores, Founded, Recorded, Sent
  <1>7. Reserved'
    <2> SUFFICES ASSUME NEW p \in Requests, Creating(op'[p])
                 PROVE  /\ content[op'[p].archive] = Absent
                        /\ \A q \in Requests \ {p} : Creating(op'[q]) => op'[q].archive # op'[p].archive
      BY <1>1 DEF Reserved, Creating
    <2> QED BY <1>5 DEF Stores, Reserved
  <1>8. Stock'
    <2>1. findings' \subseteq findings \cup pull.seen \cup (pull.engs \X {written + 1})
      BY DEF PullSaves, New
    <2>2. Rows(findings)'
      <3> SUFFICES ASSUME NEW f \in findings' PROVE f \in Findings /\ f[2] <= written'
        BY DEF Rows
      <3>1. CASE f \in findings \cup pull.seen
        BY <1>1, <1>2, <3>1 DEF Known, Rows, Findings
      <3>2. CASE f \in pull.engs \X {written + 1}
        BY <1>1, <1>2, <1>3, <3>2 DEF Findings
      <3> QED BY <2>1, <3>1, <3>2
    <2>3. Covered(findings)'
      <3> SUFFICES ASSUME NEW f \in findings', NEW a \in Archives, content[a] # Absent,
                          content[a].home, f[1] \in content[a].engs
                   PROVE  f \in content[a].rows \/ f[2] > content[a].upto \/ f \in returned'
        BY <1>1 DEF Covered
      <3>1. CASE f \in findings
        BY <1>1, <1>2, <3>1 DEF Known, Covered
      <3>2. CASE f \in pull.seen \ findings
        BY <1>1, <3>2
      <3>3. CASE f \in pull.engs \X {written + 1}
        BY <1>2, <3>3 DEF Stores, Stock, Founded, Contents
      <3> QED BY <2>1, <3>1, <3>2, <3>3
    <2>4. \A a \in Archives : content[a] # Absent => content[a].upto <= written'
      BY <1>1, <1>2 DEF Stores, Stock, Founded, Contents
    <2>5. DOMAIN pull' = {"at", "engs", "seen"} /\ pull'.engs \subseteq Engagements /\ Rows(pull.seen)'
      BY <1>1 DEF NoPull, Rows
    <2> QED BY <1>1, <1>3, <2>2, <2>3, <2>4, <2>5 DEF Stores, Stock, Known
  <1> QED BY <1>1, <1>4, <1>5, <1>6, <1>7, <1>8, Kept3

LEMMA CrashStores ==
    ASSUME Stores, Crash
    PROVE  Stores'
  <1>1. /\ UNCHANGED <<storage, findings, written, tickets, registry, policy, candidates, content, answered,
                       catalog, files, purged, returned>>
        /\ op' = [p \in Requests |-> Idle] /\ pull' = NoPull /\ syncing' = {} /\ memory' = tickets
    BY DEF Crash, extra, archive, history
  <1>2. Grows /\ Copied
    BY <1>1 DEF Grows, Copied, Stores, Stock
  <1>3. \A p \in Requests : Filed(op'[p]) /\ Saved(op'[p]) /\ ~Creating(op'[p])
    BY <1>1, IdleFiled
  <1>4. Founded'
    BY <1>1 DEF Stores, Founded, Recorded, Sent
  <1>5. Reserved'
    BY <1>3 DEF Reserved, Creating
  <1>6. Stock'
    BY <1>1 DEF Stores, Stock, Known, Rows, Covered, NoPull
  <1> QED BY <1>1, <1>2, <1>3, <1>4, <1>5, <1>6, Kept3

LEMMA SameStores == Stores /\ UNCHANGED vars => Stores'
  <1> SUFFICES ASSUME Stores, UNCHANGED vars PROVE Stores'
    OBVIOUS
  <1>1. UNCHANGED <<storage, data, extra, archive, op, others, history>>
    BY DEF vars
  <1>2. UNCHANGED <<storage, findings, written, tickets, registry, policy, candidates, content, answered,
                    catalog, files, purged, returned, op, pull, syncing, memory>>
    BY <1>1 DEF data, extra, archive, others, history
  <1>3. Grows /\ Copied
    BY <1>2 DEF Grows, Copied, Stores, Stock
  <1>4. Founded'
    BY <1>2 DEF Stores, Founded, Recorded, Sent
  <1>5. Reserved'
    BY <1>2 DEF Stores, Reserved, Creating
  <1>6. Stock'
    BY <1>2 DEF Stores, Stock, Known, Rows, Covered
  <1>7. \A p \in Requests : Filed(op'[p]) /\ Saved(op'[p])
    BY <1>2 DEF Stores, Filings
  <1> QED BY <1>2, <1>3, <1>4, <1>5, <1>6, <1>7, Kept3

LEMMA StepStores ==
    ASSUME LockInv, Stores, NEW r \in Requests, Step(r)
    PROVE  Stores'
  <1>1. Shaped /\ LockExact /\ Mine(r)
    BY StepShaped DEF LockInv
  <1>2. CASE Begins(r)
    BY <1>1, <1>2, BeginsStores
  <1>3. CASE Deletion(r)
    BY <1>1, <1>3, DeletionStores
  <1>4. CASE Enters(r) \/ Leaves(r) \/ Fails(r) \/ Resolves(r)
    BY <1>1, <1>4, LockStores
  <1>5. CASE Loads(r) \/ Saves(r) \/ Marks(r) \/ Promotes(r) \/ Moves(r) \/ MoveFails(r)
             \/ Finds(r) \/ Removes(r) \/ Unlinks(r) \/ ListsAll(r) \/ Sweeps(r)
    BY <1>1, <1>5, CatalogStores
  <1>6. CASE ExportReads(r) \/ Imports(r) \/ Streams(r)
    BY <1>1, <1>6, MakesStores
  <1>7. CASE SetsPolicies(r) \/ ClearsFindings(r) \/ ClearsAll(r)
             \/ ViewRegisters(r) \/ ViewStores(r) \/ ViewJudges(r) \/ ViewPrunes(r)
    BY <1>1, <1>7, PlainStores
  <1> QED BY <1>2, <1>3, <1>4, <1>5, <1>6, <1>7 DEF Step, Begins, Deletion

LEMMA StoresInit == Init => Stores
  <1> SUFFICES ASSUME Init PROVE Stores
    OBVIOUS
  <1>1. /\ written = 1 /\ findings = {<<e, 1>> : e \in Engagements}
        /\ tickets = Engagements /\ memory = Engagements /\ candidates = Engagements
        /\ policy = [e \in Engagements |-> "none"] /\ op = [r \in Requests |-> Idle]
        /\ pull = NoPull /\ syncing = {} /\ purged = {}
    BY DEF Init
  <1>2. PICK exported \in {{}} \cup {{a} : a \in Archives} :
        /\ answered \in {{}, exported}
        /\ registry = IF exported = {} THEN {} ELSE Engagements
        /\ catalog = [a \in Archives |-> IF a \in exported
                THEN [Fresh("temporary", "temporary") EXCEPT !.downloaded = a \in answered] ELSE Absent]
        /\ content = [a \in Archives |-> IF a \in exported
                THEN [purpose |-> "export-delete", engs |-> Engagements, rows |-> findings,
                      upto |-> written, home |-> TRUE] ELSE Absent]
        /\ files = exported \X {"temporary"}
    BY DEF Init
  <1>3. exported \subseteq Archives /\ answered \subseteq exported
    BY <1>2
  <1>4. 1 \in 1 .. MaxRows
    BY DataAssumption
  <1>5. findings \subseteq Findings /\ \A f \in findings : f[2] = 1
    BY <1>1, <1>4 DEF Findings
  <1> DEFINE c == [purpose |-> "export-delete", engs |-> Engagements, rows |-> findings, upto |-> written,
                   home |-> TRUE]
  <1>6. c \in Contents /\ c # Absent
    <2>1. written \in Nat /\ findings \in SUBSET Findings
      BY <1>1, <1>5
    <2>2. c \in Contents
      BY <2>1 DEF Contents
    <2> QED BY <2>2, DataAssumption
  <1>7. /\ content \in [Archives -> Contents \cup {Absent}]
        /\ \A a \in Archives : content[a] # Absent => content[a] = c
        /\ \A a \in exported : content[a] # Absent
    BY <1>2, <1>3, <1>6
  <1>8. ASSUME NEW downloaded \in BOOLEAN
        PROVE  /\ [Fresh("temporary", "temporary") EXCEPT !.downloaded = downloaded] \in Records
               /\ [Fresh("temporary", "temporary") EXCEPT !.downloaded = downloaded].downloaded = downloaded
    BY DEF Fresh, Records
  <1>9. Recorded(catalog)
    <2>1. \A a \in Archives : (a \in answered) \in BOOLEAN
      OBVIOUS
    <2>2. ASSUME NEW a \in Archives
          PROVE  \/ a \notin exported /\ catalog[a] = Absent
                 \/ /\ a \in exported /\ catalog[a] \in Records
                    /\ catalog[a].downloaded = (a \in answered)
      <3> DEFINE downloaded == (a \in answered)
      <3>1. downloaded \in BOOLEAN
        OBVIOUS
      <3>2. catalog[a] = IF a \in exported
                         THEN [Fresh("temporary", "temporary") EXCEPT !.downloaded = downloaded] ELSE Absent
        BY <1>2
      <3>3. downloaded = (a \in answered)
        OBVIOUS
      <3> HIDE DEF downloaded
      <3> QED BY <1>8, <3>1, <3>2, <3>3
    <2>3. catalog \in [Archives -> Records \cup {Absent}]
      <3>1. DOMAIN catalog = Archives /\ catalog = [a \in Archives |-> catalog[a]]
        BY <1>2
      <3> QED BY <2>2, <3>1
    <2> QED BY <1>3, <1>7, <2>2, <2>3 DEF Recorded, Sent
  <1>10. Founded
    BY <1>2, <1>3, <1>7, <1>9 DEF Founded
  <1>11. Filings /\ Reserved
    BY <1>1, IdleFiled DEF Filings, Reserved
  <1>12. Covered(findings)
    BY <1>7 DEF Covered
  <1>13. Stock
    <2>1. Rows(findings) /\ Rows({})
      BY <1>1, <1>5 DEF Rows
    <2>2. policy \in Policies /\ registry \subseteq Engagements
      BY <1>1, <1>2 DEF Policies
    <2>3. \A a \in Archives : content[a] # Absent => content[a].upto <= written
      BY <1>1, <1>7
    <2> QED BY <1>1, <1>4, <1>12, <2>1, <2>2, <2>3 DEF Stock, Known, NoPull
  <1> QED BY <1>1, <1>10, <1>11, <1>13 DEF Stores, DeletedWasArchived

LEMMA StoresHold == Spec => [](LockInv /\ Stores)
  <1>1. Init => LockInv /\ Stores
    BY LockInit, StoresInit
  <1>2. LockInv /\ Stores /\ [Next]_vars => (LockInv /\ Stores)'
    <2> SUFFICES ASSUME LockInv, Stores, [Next]_vars PROVE Stores'
      BY LockStep
    <2>1. Shaped
      BY DEF LockInv
    <2>2. CASE Elsewhere
      BY <2>2, ElsewhereStores
    <2>3. CASE PullSaves
      BY <2>1, <2>3, PullSavesStores
    <2>4. CASE Crash
      BY <2>4, CrashStores
    <2>5. CASE \E r \in Requests : Step(r)
      BY <2>5, StepStores
    <2>6. CASE UNCHANGED vars
      BY <2>6, SameStores
    <2> QED BY <2>2, <2>3, <2>4, <2>5, <2>6 DEF Next, Elsewhere
  <1> QED BY <1>1, <1>2, PTL DEF Spec

\* The stored data, the archives and the lock are what TypeOK says they are.
THEOREM DataTyped == Spec => []TypeOK
  <1>1. LockInv /\ Stores => TypeOK
    BY DEF LockInv, LockExact, Stores, Founded, Recorded, Stock, Known, Rows, Policies, TypeOK
  <1> QED BY <1>1, StoresHold, PTL

\* What an Export & Delete deletes is of the engagements of its archive, and, unless that was
\* made elsewhere, covered by it after its download was answered. Such an archive covers whatever is stored of its engagements from its making on, but for findings that
\* are stored, or put back by a pull, later; and the engagements that a commit resolves to are
\* among those of the archive that it checked before it waited for the lock.
THEOREM DeletionsWereArchived == Spec => []DeletedWasArchived
  BY StoresHold, PTL DEF Stores

-----------------------------------------------------------------------------
(* How far a deletion has come, and that it ends with all done or all undone. *)

Deleting(o) == o.kind \in {"delete", "commit"}

\* The rows that a deletion is to delete; that they and the rest are as they were; that all is gone.
Asked(o) == Of(o.before.findings, o.engs)
Untouched(o) ==
    /\ Asked(o) \subseteq findings /\ references = o.before.references
    /\ storage = "json" => memory = o.before.memory
Kept(o) == Untouched(o) /\ candidates = o.before.candidates /\ target = o.before.target
Gone(o) ==
    /\ Asked(o) \cap findings = {} /\ (candidates \cup tickets) \cap o.engs = {}
    /\ storage = "json" => memory \cap o.engs = {}
    /\ o.kind = "commit" => o.archive \in references

\* How far a deletion has come.
Progress(o) ==
    /\ o.at \in {"candidates", "policies", "loading"} => Untouched(o) /\ candidates = o.before.candidates
    /\ o.at \in {"transaction", "undoing"} => Untouched(o)
    /\ o.at = "undoing" /\ storage = "json" => candidates = o.before.candidates
    /\ o.at = "transaction" => candidates \cap o.engs = {}
    /\ o.at \in JsonSteps \cup {"restoring"} => references = o.before.references
    /\ o.at \in Writing => /\ Of(o.seen.findings, o.engs) = {}
                           /\ o.seen.candidates \cap o.engs = {} /\ o.seen.memory \cap o.engs = {}
    /\ o.at \in {"records", "manifest", "unregistering", "referring"} => Asked(o) \cap findings = {}
    /\ o.at \in {"manifest", "unregistering", "referring"} => tickets \cap o.engs = {}
    /\ o.at \in {"unregistering", "referring"} =>
          candidates \cap o.engs = {} /\ memory \cap o.engs = {}
    /\ o.at = "auditing" => Gone(o)
    /\ o.at = "leaving" => o.before = Absent \/ Gone(o) \/ (o.broken /\ Kept(o))

Progressing(o) ==
    Deleting(o) =>
        /\ o.at \in {"entering", "working", "settings"} => o.before = Absent
        /\ o.at = "auditing" \/ (o.at = "leaving" /\ o.before # Absent) => Rows(o.before.findings)
        /\ ~o.stuck /\ ~o.mixed => Progress(o)
Progresses == \A r \in Requests : Progressing(op[r])

\* The progress of the request that takes a step of its deletion.
LEMMA DeletionProgress ==
    ASSUME LockInv, NEW r \in Requests, Deletion(r), NEW o, o = op[r], NEW t, t = op'[r],
           Deleting(o), Progress(o), ~t.stuck
    PROVE  Progress(t)'
  <1>1. Shape(o) /\ DOMAIN o = Fields /\ DOMAIN op = Requests /\ OfStorage(o) /\ Apart
    BY DEF LockInv, Shaped, Shape, Apart
  <1>g. ASSUME NEW at, Go(r, at)
        PROVE  t.at = at /\ \A x \in Fields \ {"at"} : t[x] = o[x]
    <2>1. t = [o EXCEPT !.at = at]
      BY <1>1, <1>g DEF Go
    <2> QED BY <1>1, <2>1 DEF Fields
  <1>2. CASE Settings(r)
    <2>1. PICK at \in {"candidates", "policies"} : t = [o EXCEPT !.before = Stored, !.at = at]
      BY <1>1, <1>2 DEF Settings
    <2>2. UNCHANGED <<findings, candidates, references, memory, storage>>
      BY <1>2 DEF Settings, data
    <2>3. t.at = at /\ t.before = Stored
      BY <1>1, <2>1 DEF Fields
    <2>4. /\ t.before.findings = findings /\ t.before.candidates = candidates
          /\ t.before.references = references /\ t.before.memory = memory
      BY <2>3 DEF Stored
    <2> QED BY <2>1, <2>2, <2>3, <2>4 DEF Progress, Untouched, Asked, Of, JsonSteps, Writing
  <1>3. CASE DropsCandidates(r)
    <2>1. /\ o.at = "candidates" /\ candidates' = candidates \ o.engs
          /\ UNCHANGED <<findings, references, memory, storage>> /\ Go(r, "transaction")
      BY <1>3 DEF DropsCandidates, data
    <2>2. t.at = "transaction" /\ \A x \in Fields \ {"at"} : t[x] = o[x]
      BY <2>1, <1>g
    <2>3. Untouched(o)
      BY <2>1 DEF Progress
    <2> QED BY <2>1, <2>2, <2>3 DEF Progress, Untouched, Asked, JsonSteps, Writing, Fields
  <1>4. CASE Deletes(r)
    <2>1. /\ o.at = "transaction" /\ findings' = findings \ Of(findings, o.engs)
          /\ tickets' = tickets \ o.engs /\ UNCHANGED <<candidates, memory, storage>>
          /\ references' = IF o.kind = "commit" THEN references \cup {o.archive} ELSE references
          /\ Go(r, "auditing")
      BY <1>4 DEF Deletes, Erases, Refers
    <2>2. t.at = "auditing" /\ \A x \in Fields \ {"at"} : t[x] = o[x]
      BY <2>1, <1>g
    <2>3. candidates \cap o.engs = {} /\ storage = "postgresql"
      BY <1>1, <2>1 DEF Progress, OfStorage, PostgresOnly
    <2>4. Gone(t)'
      BY <2>1, <2>2, <2>3 DEF Gone, Asked, Of, Fields
    <2> QED BY <2>2, <2>4 DEF Progress, JsonSteps, Writing
  <1>5. CASE Snapshots(r)
    <2>1. /\ t = [o EXCEPT !.at = "loading", !.before = [Stored EXCEPT !.target = o.before.target]]
          /\ UNCHANGED <<findings, candidates, references, memory, storage>>
      BY <1>1, <1>5 DEF Snapshots, extra
    <2>2. t.at = "loading" /\ t.before = [Stored EXCEPT !.target = o.before.target]
      BY <1>1, <2>1 DEF Fields
    <2>3. /\ t.before.findings = findings /\ t.before.candidates = candidates
          /\ t.before.references = references /\ t.before.memory = memory
      BY <2>2 DEF Stored
    <2> QED BY <2>1, <2>2, <2>3 DEF Progress, Untouched, Asked, Of, JsonSteps, Writing
  <1>6. CASE LoadsStores(r)
    <2>1. /\ o.at = "loading" /\ t = [o EXCEPT !.at = "findings", !.seen = Without(o.engs, Stored)]
          /\ UNCHANGED references
      BY <1>1, <1>6 DEF LoadsStores, extra
    <2>2. t.at = "findings" /\ t.seen = Without(o.engs, Stored)
          /\ \A x \in Fields \ {"at", "seen"} : t[x] = o[x]
      BY <1>1, <2>1 DEF Fields
    <2>3. /\ t.seen.findings = findings \ Of(findings, o.engs)
          /\ t.seen.candidates = candidates \ o.engs /\ t.seen.memory = memory \ o.engs
      BY <2>2 DEF Without, Stored
    <2>4. references = o.before.references
      BY <2>1 DEF Progress, JsonSteps
    <2> QED BY <2>1, <2>2, <2>3, <2>4 DEF Progress, Of, JsonSteps, Writing, Fields
  <1>7. CASE WritesFindings(r)
    <2>1. /\ o.at = "findings" /\ findings' = o.seen.findings /\ UNCHANGED references /\ Go(r, "records")
      BY <1>7 DEF WritesFindings, extra
    <2>2. t.at = "records" /\ \A x \in Fields \ {"at"} : t[x] = o[x]
      BY <2>1, <1>g
    <2>3. /\ Of(o.seen.findings, o.engs) = {} /\ references = o.before.references
          /\ o.seen.candidates \cap o.engs = {} /\ o.seen.memory \cap o.engs = {}
      BY <2>1 DEF Progress, JsonSteps, Writing
    <2>4. (Asked(t) \cap findings = {})'
      BY <2>1, <2>2, <2>3 DEF Asked, Of, Fields
    <2> QED BY <2>1, <2>2, <2>3, <2>4 DEF Progress, JsonSteps, Writing, Fields
  <1>8. CASE WritesRecords(r)
    <2>1. /\ o.at = "records" /\ tickets' = o.seen.memory /\ UNCHANGED <<references, findings>>
          /\ Go(r, "manifest")
      BY <1>8 DEF WritesRecords, extra
    <2>2. t.at = "manifest" /\ \A x \in Fields \ {"at"} : t[x] = o[x]
      BY <2>1, <1>g
    <2>3. /\ Of(o.seen.findings, o.engs) = {} /\ references = o.before.references
          /\ o.seen.candidates \cap o.engs = {} /\ o.seen.memory \cap o.engs = {}
          /\ Asked(o) \cap findings = {}
      BY <2>1 DEF Progress, JsonSteps, Writing
    <2> QED BY <2>1, <2>2, <2>3 DEF Progress, JsonSteps, Writing, Fields, Asked
  <1>9. CASE WritesManifest(r)
    <2>1. /\ o.at = "manifest" /\ candidates' = o.seen.candidates /\ memory' = o.seen.memory
          /\ UNCHANGED <<references, findings, tickets>> /\ Go(r, "unregistering")
      BY <1>9 DEF WritesManifest
    <2>2. t.at = "unregistering" /\ \A x \in Fields \ {"at"} : t[x] = o[x]
      BY <2>1, <1>g
    <2>3. /\ o.seen.candidates \cap o.engs = {} /\ o.seen.memory \cap o.engs = {}
          /\ Asked(o) \cap findings = {} /\ tickets \cap o.engs = {} /\ references = o.before.references
      BY <2>1 DEF Progress, JsonSteps, Writing
    <2> QED BY <2>1, <2>2, <2>3 DEF Progress, JsonSteps, Writing, Fields, Asked
  <1>10. CASE Unregisters(r)
    <2>1. /\ o.at = "unregistering" /\ UNCHANGED <<references, findings, tickets, candidates, memory>>
          /\ Go(r, "referring")
      BY <1>10 DEF Unregisters, extra
    <2>2. t.at = "referring" /\ \A x \in Fields \ {"at"} : t[x] = o[x]
      BY <2>1, <1>g
    <2>3. /\ candidates \cap o.engs = {} /\ memory \cap o.engs = {}
          /\ Asked(o) \cap findings = {} /\ tickets \cap o.engs = {} /\ references = o.before.references
      BY <2>1 DEF Progress, JsonSteps, Writing
    <2> QED BY <2>1, <2>2, <2>3 DEF Progress, JsonSteps, Writing, Fields, Asked
  <1>11. CASE AddsReference(r)
    <2>1. /\ o.at = "referring" /\ UNCHANGED <<findings, tickets, candidates, memory, storage>>
          /\ references' = IF o.kind = "commit" THEN references \cup {o.archive} ELSE references
          /\ Go(r, "auditing")
      BY <1>11 DEF AddsReference, Refers, data
    <2>2. t.at = "auditing" /\ \A x \in Fields \ {"at"} : t[x] = o[x]
      BY <2>1, <1>g
    <2>3. /\ candidates \cap o.engs = {} /\ memory \cap o.engs = {}
          /\ Asked(o) \cap findings = {} /\ tickets \cap o.engs = {}
      BY <2>1 DEF Progress
    <2>4. Gone(t)'
      BY <2>1, <2>2, <2>3 DEF Gone, Asked, Fields
    <2> QED BY <2>2, <2>4 DEF Progress, JsonSteps, Writing
  <1>12. CASE Audits(r)
    <2>1. /\ o.at = "auditing" /\ UNCHANGED <<storage, findings, tickets, candidates, memory, references>>
          /\ Go(r, "leaving")
      BY <1>12 DEF Audits, data, extra
    <2>2. t.at = "leaving" /\ \A x \in Fields \ {"at"} : t[x] = o[x]
      BY <2>1, <1>g
    <2>3. Gone(t)'
      BY <2>1, <2>2 DEF Progress, Gone, Asked, Fields
    <2> QED BY <2>2, <2>3 DEF Progress, JsonSteps, Writing
  <1>13. CASE DeleteFails(r)
    <2>1. /\ o.at \in {"candidates", "transaction", "policies"} \cup JsonSteps
          /\ UNCHANGED <<storage, findings, memory, references, candidates>>
          /\ Go(r, IF o.at \in JsonSteps THEN "restoring" ELSE "undoing")
      BY <1>13 DEF DeleteFails, JsonSteps, extra
    <2>2. t.at = (IF o.at \in JsonSteps THEN "restoring" ELSE "undoing")
          /\ \A x \in Fields \ {"at"} : t[x] = o[x]
      BY <2>1, <1>g
    <2>3. CASE o.at \in JsonSteps
      <3>1. references = o.before.references
        BY <2>3 DEF Progress
      <3> QED BY <2>1, <2>2, <2>3, <3>1 DEF Progress, JsonSteps, Writing, Fields
    <2>4. CASE o.at \notin JsonSteps
      <3>1. Untouched(o) /\ (storage = "json" => candidates = o.before.candidates)
        BY <1>1, <2>1, <2>4 DEF Progress, OfStorage, PostgresOnly
      <3>2. Untouched(t)' /\ (storage' = "json" => candidates' = t.before.candidates)
        BY <2>1, <2>2, <3>1 DEF Untouched, Asked, Fields
      <3> QED BY <2>2, <2>4, <3>2 DEF Progress, JsonSteps, Writing
    <2> QED BY <2>3, <2>4
  <1>14. CASE Restores(r)
    <2>1. /\ o.at = "restoring" /\ findings' = o.before.findings /\ memory' = o.before.memory
          /\ references' = o.before.references /\ candidates' = o.before.candidates
          /\ Go(r, "undoing")
      BY <1>14 DEF Restores
    <2>2. t.at = "undoing" /\ \A x \in Fields \ {"at"} : t[x] = o[x]
      BY <2>1, <1>g
    <2>3. Untouched(t)' /\ candidates' = t.before.candidates
      BY <2>1, <2>2 DEF Untouched, Asked, Of, Fields
    <2> QED BY <2>2, <2>3 DEF Progress, JsonSteps, Writing
  <1>15. CASE Undoes(r)
    <2>1. /\ o.at = "undoing" /\ target' = o.before.target
          /\ candidates' = IF storage = "postgresql" THEN o.before.candidates ELSE candidates
          /\ UNCHANGED <<storage, findings, memory, references>>
          /\ t = [o EXCEPT !.at = "leaving", !.broken = TRUE]
      BY <1>1, <1>15 DEF Undoes, Breaks, data, Fields
    <2>2. t.at = "leaving" /\ t.broken = TRUE /\ \A x \in Fields \ {"at", "broken"} : t[x] = o[x]
      BY <1>1, <2>1 DEF Fields
    <2>3. Untouched(o) /\ candidates' = o.before.candidates
      BY <1>1, <2>1 DEF Progress, Apart
    <2>4. Kept(t)'
      BY <2>1, <2>2, <2>3 DEF Kept, Untouched, Asked, Fields
    <2> QED BY <2>2, <2>4 DEF Progress, JsonSteps, Writing
  <1>16. CASE UndoFails(r) \/ CommitLost(r) \/ RollbackFails(r)
    <2>1. PICK at : t = [o EXCEPT !.at = at, !.broken = TRUE, !.stuck = TRUE]
      BY <1>1, <1>16 DEF UndoFails, CommitLost, RollbackFails, Strands
    <2>2. t.stuck = TRUE
      BY <1>1, <2>1 DEF Fields
    <2> QED BY <2>2
  <1> QED BY <1>2, <1>3, <1>4, <1>5, <1>6, <1>7, <1>8, <1>9, <1>10, <1>11, <1>12, <1>13, <1>14,
             <1>15, <1>16 DEF Deletion

LEMMA DeletionProgresses ==
    ASSUME LockInv, Stores, NEW r \in Requests, Progressing(op[r]), Deletion(r)
    PROVE  Progressing(op[r])'
  <1>1. PICK o : o = op[r]
    OBVIOUS
  <1>2. PICK t : t = op'[r]
    OBVIOUS
  <1>3. Moved(o, t) /\ written' = written
    BY <1>1, <1>2, DeletionMoves, DeletionEffect DEF LockInv, Effect
  <1>4. Shape(o) /\ Saved(o) /\ Progressing(o)
    BY <1>1 DEF LockInv, Shaped, Stores, Filings
  <1>5. Deleting(o)
    BY <1>3, <1>4, StagesOf DEF Moved, Deleting
  <1>6. t.at \notin {"entering", "working", "settings"}
    BY <1>3 DEF Moved, Undoing
  <1>7. t.at \in {"auditing", "leaving"} => Rows(t.before.findings)
    <2>1. CASE o.at = "auditing"
      BY <1>3, <1>4, <1>5, <2>1 DEF Moved, Progressing
    <2>2. CASE o.at \in Undoing /\ t.before = o.before
      BY <1>4, <2>2 DEF Saved, Known
    <2>3. CASE t.before.findings = findings
      BY <2>3 DEF Stores, Stock, Known
    <2>4. t.before = o.before \/ t.before.findings = findings
      BY <1>3 DEF Moved, Stored
    <2>5. o.at = "settings" => t.before.findings = findings
      BY <1>3 DEF Moved, Stored
    <2> QED BY <1>3, <2>1, <2>2, <2>3, <2>4, <2>5 DEF Moved
  <1>8. ASSUME ~t.stuck, ~t.mixed PROVE Progress(t)'
    <2>1. ~o.stuck /\ ~o.mixed
      BY <1>3, <1>8 DEF Moved
    <2> QED BY <1>1, <1>2, <1>4, <1>5, <1>8, <2>1, DeletionProgress DEF Progressing
  <1>9. Progressing(t)'
    BY <1>3, <1>6, <1>7, <1>8 DEF Progressing, Rows
  <1> QED BY <1>2, <1>9

\* Who is in the middle of a deletion has the lock, and whoever has not got it leaves alone
\* what the deletion looks at.
Amid(o) == Deleting(o) /\ o.at \in Undoing \cup {"auditing", "leaving"}

LEMMA AmidHolds ==
    ASSUME LockExact, NEW p \in Requests, Amid(op[p])
    PROVE  holder = p
  BY DEF LockExact, Amid, Deleting, Holding, Undoing, Removing

LEMMA NotAmid ==
    ASSUME NEW o, Shape(o), Deleting(o), ~Amid(o)
    PROVE  o.at \in {"entering", "working", "settings"} \cup Removing
  BY DEF Shape, Stages, Amid, Deleting

Looked == <<storage, findings, tickets, memory, candidates, target, references>>

LEMMA ProgressStays ==
    ASSUME NEW o, Progressing(o), UNCHANGED Looked, written \in Nat, written' \in Nat,
           written <= written'
    PROVE  Progressing(o)'
  <1>1. Progress(o) => Progress(o)'
    BY DEF Looked, Progress, Untouched, Kept, Gone, Asked
  <1>2. ASSUME NEW rows, Rows(rows) PROVE Rows(rows)'
    BY <1>2 DEF Rows, Findings
  <1> QED BY <1>1, <1>2 DEF Progressing

\* Not in the middle of a deletion, a request knows of nothing yet.
LEMMA EarlyProgress ==
    ASSUME NEW o, Shape(o), ~Amid(o),
           Deleting(o) /\ o.at \in {"entering", "working", "settings"} => o.before = Absent
    PROVE  Progressing(o)
  <1>1. CASE Deleting(o)
    <2>1. o.at \in {"entering", "working", "settings"} \cup Removing
      BY <1>1, NotAmid
    <2>2. Progress(o)
      BY <2>1 DEF Progress, Removing, JsonSteps, Writing
    <2> QED BY <1>1, <2>1, <2>2 DEF Progressing, Removing
  <1>2. CASE ~Deleting(o)
    BY <1>2 DEF Progressing
  <1> QED BY <1>1, <1>2

Others(r) ==
    \/ ExportReads(r) \/ Loads(r) \/ Saves(r) \/ Imports(r) \/ Streams(r) \/ Marks(r)
    \/ Promotes(r) \/ Moves(r) \/ MoveFails(r) \/ Finds(r) \/ Removes(r) \/ Unlinks(r)
    \/ SetsPolicies(r) \/ ClearsFindings(r) \/ ListsAll(r) \/ Sweeps(r) \/ ClearsAll(r)
    \/ ViewRegisters(r) \/ ViewStores(r) \/ ViewJudges(r) \/ ViewPrunes(r)

LEMMA LookedFrame ==
    ASSUME LockExact, NEW r \in Requests,
           Begins(r) \/ Enters(r) \/ Leaves(r) \/ Fails(r) \/ Resolves(r) \/ Others(r)
    PROVE  \/ UNCHANGED Looked
           \/ holder = r /\ op[r].kind \in {"safe", "reset"}
  <1>1. CASE Begins(r)
    <2>1. PICK n : Start(r, n)
      BY <1>1, BeginsLemma
    <2> QED BY <2>1 DEF Start, data, extra, Looked
  <1>2. CASE Enters(r) \/ Leaves(r) \/ Fails(r) \/ Resolves(r)
    BY <1>2 DEF Enters, Leaves, Fails, Resolves, data, extra, Looked
  <1>3. CASE ExportReads(r) \/ Loads(r) \/ Saves(r) \/ Imports(r) \/ Streams(r) \/ Marks(r)
    BY <1>3 DEF ExportReads, Loads, Saves, Imports, Streams, Marks, data, extra, Looked
  <1>4. CASE Promotes(r) \/ Moves(r) \/ MoveFails(r) \/ Finds(r) \/ Removes(r) \/ Unlinks(r)
             \/ ListsAll(r) \/ Sweeps(r)
    BY <1>4 DEF Promotes, Moves, MoveFails, Finds, Removes, Unlinks, ListsAll, Sweeps, data, extra, Looked
  <1>5. CASE SetsPolicies(r) \/ ViewRegisters(r) \/ ViewStores(r) \/ ViewJudges(r) \/ ViewPrunes(r)
    BY <1>5 DEF SetsPolicies, ViewRegisters, ViewStores, ViewJudges, ViewPrunes, extra, Looked
  <1>6. CASE ClearsFindings(r) \/ ClearsAll(r)
    BY <1>6 DEF ClearsFindings, ClearsAll, At, LockExact, Holding
  <1> QED BY <1>1, <1>2, <1>3, <1>4, <1>5, <1>6 DEF Others

LEMMA IdleProgress == Progressing(Idle)
  BY DEF Progressing, Idle, Deleting

\* The other steps of a request that deletes: it waits for the lock, resolves what to delete,
\* fails before or after the deletion, leaves, and removes the archive.
LEMMA BesideProgress ==
    ASSUME Shaped, LockExact, NEW r \in Requests, Progressing(op[r]),
           Enters(r) \/ Leaves(r) \/ Fails(r) \/ Resolves(r)
    PROVE  Progressing(op'[r])
  <1> DEFINE o == op[r]
  <1>1. Shape(o) /\ DOMAIN o = Fields /\ DOMAIN op = Requests /\ Progressing(o)
    BY DEF Shaped, Shape
  <1>2. CASE Ends(r)
    <2>1. op'[r] = Idle
      BY <1>1, <1>2 DEF Ends
    <2> QED BY <2>1, IdleProgress
  <1>3. CASE Enters(r) /\ ~Ends(r)
    <2>1. PICK at \in {"finding", "working"} : op'[r] = [o EXCEPT !.at = at] /\ o.at = "entering"
                                               /\ (at = "finding" => o.kind = "remove")
      BY <1>1, <1>3 DEF Enters, Go
    <2> DEFINE t == [o EXCEPT !.at = at]
    <2>2. op'[r] = t
      BY <2>1
    <2>3. t.at = at /\ \A x \in Fields \ {"at"} : t[x] = o[x]
      BY <1>1 DEF Fields
    <2> HIDE DEF t
    <2> QED BY <1>1, <2>1, <2>2, <2>3 DEF Progressing, Deleting, Progress, JsonSteps, Writing, Fields
  <1>4. CASE Leaves(r) /\ ~Ends(r)
    <2> DEFINE a == o.archive
    <2> DEFINE t == [Idle EXCEPT !.kind = "commit", !.at = "finding", !.archive = a]
    <2>1. op'[r] = t
      BY <1>1, <1>4 DEF Leaves
    <2>2. Progressing(t)
      BY DEF Progressing, Progress, Idle, JsonSteps, Writing
    <2> QED BY <2>1, <2>2
  <1>5. CASE Fails(r) /\ ~Ends(r)
    <2>1. /\ Breaks(r) /\ holder = r
          /\ o.at \in {"working", "reading", "settings", "moving", "saving", "sweeping", "finding",
                       "removing", "unlinking", "clearing", "streaming", "marking", "auditing",
                       "registering", "pruning"}
      BY <1>5 DEF Fails
    <2> DEFINE t == [o EXCEPT !.at = "leaving", !.broken = TRUE]
    <2>2. op'[r] = t
      BY <1>1, <2>1 DEF Breaks, Fields
    <2>3. t.at = "leaving" /\ \A x \in Fields \ {"at", "broken"} : t[x] = o[x]
      BY <1>1 DEF Fields
    <2> HIDE DEF t
    <2>4. CASE Deleting(o)
      <3>1. o.at \in {"working", "settings", "auditing"}
        BY <1>1, <2>1, <2>4 DEF LockExact, Holding, Shape, Stages, Deleting, Removing, Undoing
      <3>2. CASE o.at \in {"working", "settings"}
        <4>1. t.before = Absent
          BY <1>1, <2>3, <2>4, <3>2 DEF Progressing, Fields
        <4> QED BY <2>2, <2>3, <4>1 DEF Progressing, Progress, JsonSteps, Writing
      <3>3. CASE o.at = "auditing"
        <4>1. ~o.stuck /\ ~o.mixed => Gone(o)
          BY <1>1, <2>4, <3>3 DEF Progressing, Progress
        <4>2. ~t.stuck /\ ~t.mixed => Gone(t)
          BY <2>3, <4>1 DEF Gone, Asked, Fields
        <4>3. t.before # Absent => Rows(t.before.findings)
          BY <1>1, <2>3, <2>4, <3>3 DEF Progressing, Fields
        <4>4. ~t.stuck /\ ~t.mixed => Progress(t)
          BY <2>3, <4>2 DEF Progress, JsonSteps, Writing
        <4> QED BY <2>2, <2>3, <4>3, <4>4 DEF Progressing
      <3> QED BY <3>1, <3>2, <3>3
    <2>5. CASE ~Deleting(o)
      BY <2>2, <2>3, <2>5 DEF Progressing, Deleting, Fields
    <2> QED BY <2>4, <2>5
  <1>6. CASE Resolves(r)
    <2> DEFINE engs == IF o.kind = "commit" THEN content[o.archive].engs \cap registry'
                       ELSE IF o.engs = {} THEN registry' ELSE o.engs \cap registry'
    <2> DEFINE t == [o EXCEPT !.engs = engs,
                              !.at = IF engs = {} THEN "leaving"
                                     ELSE IF o.kind = "export" THEN "reading" ELSE "settings",
                              !.broken = (engs = {})]
    <2>1. op'[r] = t /\ o.at = "working"
      BY <1>1, <1>6 DEF Resolves, At
    <2>2. op'[r] = t
      BY <2>1
    <2> HIDE DEF engs
    <2>3. /\ t.at \in {"leaving", "reading", "settings"}
          /\ \A x \in Fields \ {"at", "engs", "broken"} : t[x] = o[x]
      BY <1>1 DEF Fields
    <2> HIDE DEF t
    <2>4. Deleting(o) => t.before = Absent
      BY <1>1, <2>1, <2>3 DEF Progressing, Fields
    <2> QED BY <2>1, <2>2, <2>3, <2>4 DEF Progressing, Progress, Deleting, JsonSteps, Writing, Fields
  <1> QED BY <1>2, <1>3, <1>4, <1>5, <1>6

\* The steps of requests that do not delete, and of one that removes its archive.
LEMMA OthersProgress ==
    ASSUME Shaped, Shaped', NEW r \in Requests, Others(r), Progressing(op[r])
    PROVE  Progressing(op'[r])
  <1> DEFINE o == op[r]
  <1> DEFINE t == op'[r]
  <1>1. Shape(o) /\ DOMAIN o = Fields /\ DOMAIN op = Requests /\ Shape(t)
    BY DEF Shaped, Shape
  <1>2. t.kind = o.kind \/ t = Idle
    <2>0. CASE ExportReads(r) \/ Imports(r)
      BY <1>1, <2>0 DEF ExportReads, Imports, Fields
    <2>1. CASE Loads(r) \/ Saves(r) \/ Streams(r) \/ Marks(r)
      <3>1. CASE Loads(r) \/ Streams(r)
        BY <1>1, <3>1 DEF Loads, Streams, Go, Fields
      <3>2. CASE Saves(r)
        BY <1>1, <3>2 DEF Saves, Fields
      <3>3. CASE Marks(r)
        BY <1>1, <3>3 DEF Marks, Ends, Fields
      <3> QED BY <2>1, <3>1, <3>2, <3>3
    <2>2. CASE Promotes(r) \/ Moves(r) \/ MoveFails(r) \/ Finds(r) \/ Removes(r) \/ Unlinks(r)
      BY <1>1, <2>2 DEF Promotes, Moves, MoveFails, Finds, Removes, Unlinks, Deleted, Go, Ends, Fields
    <2>3. CASE ListsAll(r) \/ Sweeps(r) \/ SetsPolicies(r) \/ ClearsFindings(r) \/ ClearsAll(r)
      BY <1>1, <2>3 DEF ListsAll, Sweeps, SetsPolicies, ClearsFindings, ClearsAll, Go, Fields
    <2>4. CASE ViewRegisters(r) \/ ViewStores(r) \/ ViewJudges(r) \/ ViewPrunes(r)
      BY <1>1, <2>4 DEF ViewRegisters, ViewStores, ViewJudges, ViewPrunes, Go, Ends, Fields
    <2> QED BY <2>0, <2>1, <2>2, <2>3, <2>4 DEF Others
  <1>3. Deleting(o) => \/ t = Idle
                       \/ o.at \in Removing /\ t.at \in Removing
    <2>1. CASE Loads(r) \/ Finds(r) \/ Removes(r) \/ Unlinks(r)
      <3>1. CASE o.at \in Removing
        BY <1>1, <2>1, <3>1 DEF Loads, Finds, Removes, Unlinks, Deleted, Go, Deleting, Removing, Fields
      <3>2. CASE o.at \notin Removing
        <4>1. o.at = "saving"
          BY <2>1, <3>2 DEF Loads, Finds, Removes, Unlinks, Removing
        <4> QED BY <1>1, <4>1, StagesOf DEF Deleting
      <3> QED BY <3>1, <3>2
    <2>2. CASE Saves(r)
      BY <1>1, <2>2, StagesOf DEF Saves, Deleting
    <2>3. CASE ~(Loads(r) \/ Finds(r) \/ Removes(r) \/ Unlinks(r) \/ Saves(r))
      BY <2>3 DEF Others, ExportReads, Imports, Streams, Marks, Promotes, Moves, MoveFails, SetsPolicies,
                  ClearsFindings, ListsAll, Sweeps, ClearsAll, ViewRegisters, ViewStores, ViewJudges,
                  ViewPrunes, At, Deleting
    <2> QED BY <2>1, <2>2, <2>3
  <1> HIDE DEF o, t
  <1>4. CASE t = Idle
    BY <1>4, IdleProgress DEF t
  <1>5. CASE t # Idle /\ Deleting(o)
    <2>1. ~Amid(t) /\ t.at \notin {"entering", "working", "settings"}
      BY <1>3, <1>5 DEF Amid, Removing, Undoing
    <2> QED BY <1>1, <2>1, EarlyProgress DEF t
  <1>6. CASE t # Idle /\ ~Deleting(o)
    BY <1>2, <1>6 DEF Progressing, Deleting, t
  <1> QED BY <1>4, <1>5, <1>6

LEMMA StepProgresses ==
    ASSUME LockInv, Stores, Progresses, NEW r \in Requests, Step(r)
    PROVE  Progresses'
  <1>1. Shaped /\ LockExact /\ Shaped' /\ Mine(r)
    BY StepShaped DEF LockInv
  <1>2. written \in Nat /\ written' = written
    BY StepFrame DEF LockInv, Stores, Stock
  <1>3. Deletion(r) \/ Begins(r) \/ Enters(r) \/ Leaves(r) \/ Fails(r) \/ Resolves(r) \/ Others(r)
    BY DEF Step, Deletion, Begins, Others
  <1>4. ASSUME NEW p \in Requests, p # r
        PROVE  Progressing(op[p])'
    <2>1. op'[p] = op[p] /\ Progressing(op[p]) /\ Shape(op[p])
      BY <1>1, <1>4 DEF Mine, Progresses, Shaped
    <2>2. CASE Amid(op[p])
      <3>1. holder = p
        BY <1>1, <2>2, AmidHolds
      <3>2. ~Deletion(r)
        <4>1. Deletion(r) => Moved(op[r], op'[r]) /\ Shape(op[r])
          BY <1>1, DeletionMoves DEF Shaped
        <4>2. Deletion(r) => Holding(op[r])
          BY <4>1, StagesOf DEF Moved, Holding, Undoing, Removing
        <4> QED BY <1>1, <1>4, <3>1, <4>2 DEF LockExact
      <3>3. UNCHANGED Looked
        BY <1>1, <1>3, <1>4, <3>1, <3>2, LookedFrame
      <3>4. Progressing(op[p])'
        <4>1. PICK o : o = op[p]
          OBVIOUS
        <4>2. Progressing(o)'
          BY <1>2, <2>1, <3>3, <4>1, ProgressStays
        <4> QED BY <2>1, <4>1, <4>2
      <3> QED BY <3>4
    <2>3. CASE ~Amid(op[p])
      <3>1. PICK o : o = op[p]
        OBVIOUS
      <3>2. Deleting(o) /\ o.at \in {"entering", "working", "settings"} => o.before = Absent
        BY <2>1, <3>1 DEF Progressing
      <3>3. Progressing(o)'
        <4>1. CASE Deleting(o)
          <5>1. o.at \in {"entering", "working", "settings"} \cup Removing
            BY <2>1, <2>3, <3>1, <4>1, NotAmid
          <5>2. Progress(o)'
            BY <5>1 DEF Progress, Removing, JsonSteps, Writing
          <5> QED BY <3>2, <4>1, <5>1, <5>2 DEF Progressing, Removing
        <4>2. CASE ~Deleting(o)
          BY <4>2 DEF Progressing
        <4> QED BY <4>1, <4>2
      <3> QED BY <2>1, <3>1, <3>3
    <2> QED BY <2>2, <2>3
  <1>5. Progressing(op[r])'
    <2>1. Progressing(op[r])
      BY DEF Progresses
    <2>2. CASE Deletion(r)
      BY <2>1, <2>2, DeletionProgresses
    <2>3. CASE ~Deletion(r)
      <3>1. Progressing(op'[r])
        <4>1. CASE Begins(r)
          <5>1. PICK n : Start(r, n) /\ NewRequest(n)
            BY <4>1, BeginsLemma
          <5>2. op'[r] = n
            BY <1>1, <5>1 DEF Start, Shaped
          <5>3. ~Amid(n) /\ n.before = Absent /\ Shape(n)
            BY <5>1 DEF NewRequest, Amid, Undoing
          <5> QED BY <5>2, <5>3, EarlyProgress
        <4>2. CASE Enters(r) \/ Leaves(r) \/ Fails(r) \/ Resolves(r)
          BY <1>1, <2>1, <4>2, BesideProgress
        <4>3. CASE Others(r)
          BY <1>1, <2>1, <4>3, OthersProgress
        <4> QED BY <1>3, <2>3, <4>1, <4>2, <4>3
      <3>2. CASE UNCHANGED Looked
        <4>1. PICK t : t = op'[r]
          OBVIOUS
        <4>2. Progressing(t)'
          BY <1>2, <3>1, <3>2, <4>1, ProgressStays
        <4> QED BY <4>1, <4>2
      <3>3. CASE op[r].kind \in {"safe", "reset"} /\ holder = r /\ ~UNCHANGED Looked
        <4>1. ~Enters(r) /\ ~Leaves(r) /\ ~Fails(r) /\ ~Resolves(r) /\ ~Begins(r)
          <5>1. ~Begins(r)
            <6>1. Begins(r) => \E n : Start(r, n)
              BY BeginsLemma
            <6> QED BY <3>3, <6>1 DEF Start, data, extra, Looked
          <5> QED BY <3>3, <5>1 DEF Enters, Leaves, Fails, Resolves, data, extra, Looked
        <4>2. ClearsFindings(r) \/ ClearsAll(r)
          <5>1. ~(ExportReads(r) \/ Loads(r) \/ Saves(r) \/ Imports(r) \/ Streams(r) \/ Marks(r))
            BY <3>3 DEF ExportReads, Loads, Saves, Imports, Streams, Marks, data, extra, Looked
          <5>2. ~(Promotes(r) \/ Moves(r) \/ MoveFails(r) \/ Finds(r) \/ Removes(r) \/ Unlinks(r)
                  \/ ListsAll(r) \/ Sweeps(r))
            BY <3>3 DEF Promotes, Moves, MoveFails, Finds, Removes, Unlinks, ListsAll, Sweeps, data, extra, Looked
          <5>3. ~(SetsPolicies(r) \/ ViewRegisters(r) \/ ViewStores(r) \/ ViewJudges(r) \/ ViewPrunes(r))
            BY <3>3 DEF SetsPolicies, ViewRegisters, ViewStores, ViewJudges, ViewPrunes, extra, Looked
          <5> QED BY <1>3, <2>3, <4>1, <5>1, <5>2, <5>3 DEF Others
        <4>3. op'[r] = [op[r] EXCEPT !.at = "leaving"]
          BY <1>1, <4>2 DEF ClearsFindings, ClearsAll, Go, Shaped
        <4>4. op'[r].kind = op[r].kind
          BY <1>1, <4>3 DEF Shaped, Shape, Fields
        <4> QED BY <3>3, <4>4 DEF Progressing, Deleting
      <3> QED BY <1>1, <1>3, <2>3, <3>2, <3>3, LookedFrame
    <2> QED BY <2>2, <2>3
  <1> QED BY <1>4, <1>5 DEF Progresses

LEMMA RestProgresses ==
    ASSUME LockInv, Stores, Stores', Progresses, Elsewhere \/ PullSaves \/ Crash \/ UNCHANGED vars
    PROVE  Progresses'
  <1>0. Shaped /\ LockExact /\ written \in Nat /\ written' \in Nat
    BY DEF LockInv, Stores, Stock
  <1>p. ASSUME UNCHANGED Looked, UNCHANGED op, written <= written'
        PROVE  Progresses'
    <2> SUFFICES ASSUME NEW p \in Requests PROVE Progressing(op[p])'
      BY DEF Progresses
    <2>1. PICK o : o = op[p]
      OBVIOUS
    <2>2. Progressing(o)'
      BY <1>0, <1>p, <2>1, ProgressStays DEF Progresses
    <2> QED BY <1>p, <2>1, <2>2
  <1>e. ASSUME UNCHANGED op, \A p \in Requests : ~Amid(op[p])
        PROVE  Progresses'
    <2> SUFFICES ASSUME NEW p \in Requests PROVE Progressing(op[p])'
      BY DEF Progresses
    <2>1. PICK o : o = op[p]
      OBVIOUS
    <2>2. Progressing(o) /\ Shape(o) /\ ~Amid(o)
      BY <1>0, <1>e, <2>1 DEF Progresses, Shaped
    <2>3. CASE Deleting(o)
      <3>1. o.at \in {"entering", "working", "settings"} \cup Removing
        BY <2>2, <2>3, NotAmid
      <3>2. Progress(o)'
        BY <3>1 DEF Progress, Removing, JsonSteps, Writing
      <3>3. Progressing(o)'
        BY <2>2, <2>3, <3>1, <3>2 DEF Progressing, Removing
      <3> QED BY <1>e, <2>1, <3>3
    <2>4. CASE ~Deleting(o)
      BY <1>e, <2>1, <2>4 DEF Progressing
    <2> QED BY <2>3, <2>4
  <1>1. CASE \E e \in Engagements : SyncWrites(e)
    <2>1. op' = op /\ syncing # {}
      BY <1>1 DEF SyncWrites
    <2>2. \A p \in Requests : ~Amid(op[p])
      <3> SUFFICES ASSUME NEW p \in Requests, Amid(op[p]) PROVE FALSE
        OBVIOUS
      <3>1. holder = p
        BY <1>0, AmidHolds
      <3> QED BY <2>1, <3>1, DataAssumption DEF LockInv, Apart
    <2> QED BY <2>1, <2>2, <1>e
  <1>2. CASE (\E a \in Archives : Expires(a)) \/ SyncStarts \/ SyncEnds
    BY <1>2, <1>0, <1>p DEF Expires, SyncStarts, SyncEnds, data, extra, Looked
  <1>6. CASE UNCHANGED vars
    <2>1. UNCHANGED <<storage, data, extra, op>>
      BY <1>6 DEF vars
    <2> QED BY <1>0, <2>1, <1>p DEF data, extra, Looked
  <1>3. CASE PullStarts \/ PullFilters \/ PullLoads
    <2>1. /\ UNCHANGED <<storage, findings, tickets, memory, candidates, target, references, op>>
          /\ written' = written
      BY <1>3 DEF PullStarts, PullFilters, PullLoads, data, extra
    <2> QED BY <1>0, <2>1, <1>p DEF Looked
  <1>4. CASE Crash
    <2>1. op' = [p \in Requests |-> Idle]
      BY <1>4 DEF Crash
    <2>2. Progressing(Idle)'
      BY DEF Progressing, Idle, Deleting
    <2> QED BY <2>1, <2>2 DEF Progresses
  <1>5. CASE PullSaves
    <2>1. /\ op' = [p \in Requests |-> [op[p] EXCEPT !.mixed = storage = "json"]]
          /\ UNCHANGED <<storage, tickets, memory, candidates, target, references>>
          /\ written' = written + 1
          /\ storage = "postgresql" => findings' = findings \cup New(pull.engs)
      BY <1>5 DEF PullSaves, extra
    <2> SUFFICES ASSUME NEW p \in Requests PROVE Progressing(op[p])'
      BY DEF Progresses
    <2>2. PICK o : o = op[p]
      OBVIOUS
    <2>3. PICK t : t = op'[p]
      OBVIOUS
    <2>4. PICK mixed : mixed = (storage = "json")
      OBVIOUS
    <2>5. t = [o EXCEPT !.mixed = mixed]
      BY <2>1, <2>2, <2>3, <2>4
    <2>6. Shape(o) /\ Progressing(o) /\ Saved(o)
      BY <1>0, <2>2 DEF Shaped, Progresses, Stores, Filings
    <2>7. t.mixed = mixed /\ \A x \in Fields \ {"mixed"} : t[x] = o[x]
      BY <2>5, <2>6 DEF Shape, Fields
    <2>8. t.kind = o.kind /\ t.at = o.at /\ t.before = o.before /\ t.stuck = o.stuck
          /\ t.engs = o.engs /\ t.archive = o.archive /\ t.seen = o.seen /\ t.broken = o.broken
      BY <2>7 DEF Fields
    <2>9. \A rows : Rows(rows) => Rows(rows)'
      BY <1>0, <2>1 DEF Rows, Findings
    <2>10. ASSUME Deleting(o), ~t.stuck, ~t.mixed PROVE Progress(t)'
      <3>1. storage = "postgresql"
        BY <2>4, <2>7, <2>10 DEF LockInv, Apart
      <3>2. ~o.mixed /\ ~o.stuck
        <4>1. o.mixed => storage = "json"
          BY <2>2 DEF LockInv, Apart, OfStorage
        <4> QED BY <3>1, <4>1, <2>8, <2>10
      <3>3. Progress(o)
        BY <2>6, <2>10, <3>2 DEF Progressing
      <3>4. o.at \notin JsonOnly
        BY <2>2, <3>1 DEF LockInv, Apart, OfStorage
      <3>5. Rows(o.before.findings) => Asked(o) \cap New(pull.engs) = {}
        BY <1>0 DEF Rows, Asked, Of, New, Findings
      <3>6. Asked(t) = Asked(o)
        BY <2>8 DEF Asked
      <3>7. Untouched(o) => Untouched(t)'
        BY <2>1, <2>8, <3>1, <3>6 DEF Untouched, Asked
      <3>8. Gone(o) /\ Rows(o.before.findings) => Gone(t)'
        BY <2>1, <2>8, <3>1, <3>5, <3>6 DEF Gone, Asked
      <3>9. Kept(o) => Kept(t)'
        BY <2>1, <2>8, <3>7 DEF Kept
      <3>10. o.at \in {"auditing", "leaving"} /\ o.before # Absent => Rows(o.before.findings)
        BY <2>6, <2>10 DEF Progressing
      <3>a. o.at = "auditing" => Rows(o.before.findings)
        BY <2>6, <2>10 DEF Progressing
      <3>11. CASE o.at \in {"candidates", "transaction", "undoing"}
        BY <2>1, <2>8, <3>3, <3>7, <3>11 DEF Progress, JsonSteps, Writing
      <3>12. CASE o.at = "leaving"
        BY <2>8, <3>3, <3>8, <3>9, <3>10, <3>12 DEF Progress, JsonSteps, Writing
      <3>13. CASE o.at = "auditing"
        <4>1. Gone(o)
          BY <3>3, <3>13 DEF Progress
        <4> QED BY <2>8, <3>8, <3>a, <3>13, <4>1 DEF Progress, JsonSteps, Writing
      <3>14. CASE o.at \notin {"candidates", "transaction", "undoing", "auditing", "leaving"}
        <4>1. o.at \notin JsonSteps \cup {"restoring", "policies"}
          BY <3>4 DEF JsonOnly
        <4> QED BY <2>8, <3>14, <4>1 DEF Progress, JsonSteps, Writing
      <3> QED BY <3>11, <3>12, <3>13, <3>14
    <2>11. Progressing(t)'
      BY <2>6, <2>8, <2>9, <2>10 DEF Progressing, Deleting
    <2> QED BY <2>3, <2>11
  <1> QED BY <1>1, <1>2, <1>3, <1>4, <1>5, <1>6 DEF Elsewhere

\* A deletion that ends has either deleted all it was asked to, or answers an error and has left
\* what DeletesAreAtomic lists as it was, but for the exceptions named there. While it is under way it has the lock, so nothing that it looks at changes
\* but by its own steps; a pull, which takes no lock, stores findings under new numbers.
THEOREM DeletionsAreAtomic == Spec => []DeletesAreAtomic
  <1>1. Init => Progresses
    BY IdleProgress DEF Init, Progresses
  <1>2. LockInv /\ Stores /\ (LockInv /\ Stores)' /\ Progresses /\ [Next]_vars => Progresses'
    BY StepProgresses, RestProgresses DEF Next, Elsewhere
  <1>3. LockInv /\ Progresses => DeletesAreAtomic
    <2> SUFFICES ASSUME LockInv, Progresses, NEW r \in Requests, At(r, {"delete", "commit"}, "leaving"),
                        op[r].before # Absent, ~op[r].stuck, ~op[r].mixed
                 PROVE  Gone(op[r]) \/ (op[r].broken /\ Kept(op[r]))
      BY DEF DeletesAreAtomic, Gone, Kept, Untouched, Asked
    <2> QED BY DEF Progresses, Progressing, Progress, Deleting, At
  <1> QED BY <1>1, <1>2, <1>3, StoresHold, PTL DEF Spec

=============================================================================
