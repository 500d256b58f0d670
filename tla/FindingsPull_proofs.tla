-------------------------- MODULE FindingsPull_proofs --------------------------
(***************************************************************************)
(* For any findings, engagements and number of overlapping pulls: a pull   *)
(* that nothing overtook leaves the store as DefectDojo is, a generation   *)
(* is earned by a reactivation, and in PostgreSQL it never goes back.      *)
(*                                                                         *)
(* PullsMirror speaks of the end of a pull. The strengthening says what a  *)
(* pull that was not overtaken knows at each of its steps (Informed): the  *)
(* pages it has received are the first findings of the list as it is now,  *)
(* and the rows that carry its id, which no other row does (Fresh), are    *)
(* the ones it has seen. A generation may be raised once more only when    *)
(* the row is inactive and DefectDojo is not, so Earned also says that     *)
(* such a row is one reactivation behind.                                  *)
(***************************************************************************)
EXTENDS FindingsPull, FiniteSetTheorems, TLAPS

\* What DefectDojo answers about a finding.
Answer(f) == <<f, remote[f] = "active">>
Answers(fs) == {Answer(f) : f \in fs}

Rank(p, f) == Cardinality({g \in Listed(p) : g < f})
Received(p) == {f \in Listed(p) : Rank(p, f) < pull[p].offset}
LetIn(p) == {f \in Listed(p) : Home[f] \in enabled}

\* Where a pull can be, in each kind of storage.
Kinds ==
    \A p \in Pulls :
        /\ pull[p].at = "loading" => storage = "json"
        /\ pull[p].at = "saving" /\ storage = "json" => pull[p].base \in Stores
        /\ pull[p].at = "marking" => storage = "postgresql" /\ pull[p].filter = "active"

Begun(p) == pull[p].at \in {"fetching", "loading", "saving"}

\* Ids were given out, each to one pull, and no row has the id of a pull before its save.
Fresh ==
    storage = "postgresql" =>
        /\ \A p \in Pulls : pull[p].at # "idle" => pull[p].id \in 1 .. ids
        /\ \A p, q \in Pulls : p # q /\ Begun(p) /\ Begun(q) => pull[p].id # pull[q].id
        /\ recheck.id <= ids
        /\ \A p \in Pulls : Begun(p) /\ recheck.finding # Absent => recheck.id # pull[p].id
        /\ \A f \in Findings : stored[f] # Absent =>
            /\ stored[f].last <= ids
            /\ \A p \in Pulls : Begun(p) => stored[f].last # pull[p].id

\* The row of a finding is as DefectDojo says.
Mirrored(f) == stored[f] # Absent /\ (stored[f].active <=> remote[f] = "active")

Informed(p) ==
    /\ pull[p].at = "fetching" => pull[p].got = Answers(Received(p))
    /\ pull[p].at \in {"loading", "saving"} => pull[p].got = Answers(LetIn(p))
    /\ pull[p].at = "saving" /\ storage = "json" => pull[p].base = stored
    /\ pull[p].at = "marking" =>
        \A f \in Findings : /\ f \in LetIn(p) => Mirrored(f)
                            /\ stored[f] # Absent => (stored[f].last = pull[p].id <=> f \in LetIn(p))
    /\ pull[p].at = "done" =>
        \A f \in Findings : Home[f] \in pull[p].scope =>
            IF f \in LetIn(p) THEN Mirrored(f)
            ELSE storage = "postgresql" /\ pull[p].filter = "active" => ~Active(f)

PullsInformed == \A p \in Pulls : pull[p].overtaken \/ Informed(p)

RecheckInformed ==
    recheck.finding # Absent /\ ~recheck.overtaken =>
        /\ recheck.active <=> remote[recheck.finding] = "active"
        /\ recheck.base # Absent => storage = "json" /\ recheck.base = stored

Earned(f) ==
    stored[f] # Absent =>
        /\ stored[f].generation <= 1 + earned[f]
        /\ ~stored[f].active /\ remote[f] = "active" /\ Home[f] \in enabled
               => stored[f].generation <= earned[f]

GenerationsEarned == \A f \in Findings : f \in touched \/ Earned(f)

IInv == TypeOK /\ Kinds /\ Fresh /\ PullsInformed /\ RecheckInformed /\ GenerationsEarned

-----------------------------------------------------------------------------
(* Rows and stores. *)

LEMMA UpsertedFacts ==
    ASSUME NEW row \in Rows \cup {Absent}, NEW active \in BOOLEAN, NEW id \in Nat
    PROVE  LET new == Upserted(row, active, id) IN
           /\ new \in Rows /\ new # Absent
           /\ new.active = active /\ new.last = id
           /\ row = Absent => new.generation <= 1
           /\ row # Absent => new.generation >= row.generation
           /\ row # Absent /\ (row.active \/ ~active) =>
                    new.generation = row.generation \/ new.generation <= 1
           /\ row # Absent => new.generation <= row.generation + 1
  BY PullAssumption DEF Upserted, Row, Rows

LEMMA MergedFacts ==
    ASSUME NEW rows \in Stores, NEW got \in SUBSET (Findings \X BOOLEAN), NEW id \in Nat
    PROVE  /\ Merged(rows, got, id) \in Stores
           /\ \A f \in Findings :
                LET new == Merged(rows, got, id)[f] IN
                /\ new # rows[f] => new # Absent /\ new.last = id
                /\ rows[f] # Absent => new # Absent /\ new.generation >= rows[f].generation
  <1>1. \A f \in Findings : Merged(rows, got, id)[f] =
            IF \E g \in got : g[1] = f THEN Upserted(rows[f], <<f, TRUE>> \in got, id) ELSE rows[f]
    BY DEF Merged
  <1>2. \A f \in Findings : rows[f] \in Rows \cup {Absent}
    BY DEF Stores
  <1>3. \A f \in Findings : rows[f] # Absent => rows[f].generation >= rows[f].generation
    BY <1>2 DEF Rows
  <1>4. ASSUME NEW f \in Findings
        PROVE  LET new == Merged(rows, got, id)[f] IN
                /\ new \in Rows \cup {Absent}
                /\ new # rows[f] => new # Absent /\ new.last = id
                /\ rows[f] # Absent => new # Absent /\ new.generation >= rows[f].generation
    <2>1. PICK active \in BOOLEAN : active <=> <<f, TRUE>> \in got
      OBVIOUS
    <2>2. CASE \E g \in got : g[1] = f
      <3>1. Merged(rows, got, id)[f] = Upserted(rows[f], <<f, TRUE>> \in got, id)
        BY <1>1, <2>2, Zenon
      <3>2. (<<f, TRUE>> \in got) = active
        BY <2>1
      <3>3. Merged(rows, got, id)[f] = Upserted(rows[f], active, id)
        BY <3>1, <3>2, Zenon
      <3> QED BY <1>2, <3>3, UpsertedFacts
    <2>3. CASE ~\E g \in got : g[1] = f
      BY <1>1, <1>2, <1>3, <2>3
    <2> QED BY <2>2, <2>3
  <1>5. Merged(rows, got, id) \in Stores
    BY <1>4 DEF Merged, Stores
  <1> QED BY <1>4, <1>5

LEMMA AnswersSay ==
    ASSUME NEW fs \in SUBSET Findings, NEW f \in Findings
    PROVE  /\ (\E g \in Answers(fs) : g[1] = f) <=> f \in fs
           /\ <<f, TRUE>> \in Answers(fs) <=> f \in fs /\ remote[f] = "active"
  <1>1. \A g \in Answers(fs) : g[1] = f => g = Answer(f)
    BY DEF Answers, Answer
  <1>2. f \in fs => Answer(f) \in Answers(fs) /\ Answer(f)[1] = f
    BY DEF Answers, Answer
  <1>3. (\E g \in Answers(fs) : g[1] = f) => f \in fs
    BY DEF Answers, Answer
  <1>4. <<f, TRUE>> = Answer(f) <=> remote[f] = "active"
    BY DEF Answer
  <1> QED BY <1>1, <1>2, <1>3, <1>4

\* What a save of everything that is let in makes of the store.
LEMMA MergedAnswers ==
    ASSUME NEW fs \in SUBSET Findings, NEW rows, NEW id, NEW f \in Findings
    PROVE  Merged(rows, Answers(fs), id)[f] =
                IF f \in fs THEN Upserted(rows[f], remote[f] = "active", id) ELSE rows[f]
  <1>1. Merged(rows, Answers(fs), id)[f] =
            IF \E g \in Answers(fs) : g[1] = f
            THEN Upserted(rows[f], <<f, TRUE>> \in Answers(fs), id) ELSE rows[f]
    BY DEF Merged
  <1>2. CASE f \in fs
    <2>1. (<<f, TRUE>> \in Answers(fs)) = (remote[f] = "active")
      <3>1. <<f, TRUE>> \in Answers(fs) <=> remote[f] = "active"
        BY <1>2, AnswersSay
      <3> QED BY <3>1
    <2>2. \E g \in Answers(fs) : g[1] = f
      BY <1>2, AnswersSay
    <2>3. Merged(rows, Answers(fs), id)[f] =
                Upserted(rows[f], <<f, TRUE>> \in Answers(fs), id)
      BY <1>1, <2>2, Zenon
    <2>4. Merged(rows, Answers(fs), id)[f] = Upserted(rows[f], remote[f] = "active", id)
      BY <2>1, <2>3, Zenon
    <2> QED BY <1>2, <2>4, Zenon
  <1> QED BY <1>1, <1>2, AnswersSay


-----------------------------------------------------------------------------
(* Types, and where a pull can be. *)

LEMMA InitFacts == Init => IInv
  <1> SUFFICES ASSUME Init PROVE IInv
    OBVIOUS
  <1>1. TypeOK
    <2>1. stored \in Stores
      <3>1. Absent \in Rows \cup {Absent} /\ Row(TRUE, 1, 0) \in Rows \cup {Absent}
        BY DEF Row, Rows
      <3>2. [f \in Findings |-> Absent] \in Stores /\ [f \in Findings |-> Row(TRUE, 1, 0)] \in Stores
        BY <3>1 DEF Stores
      <3> QED BY <3>2 DEF Init
    <2>2. pull \in [Pulls -> Pulling] /\ recheck \in Rechecking
      BY DEF Init, NoPull, Pulling, NoRecheck, Rechecking
    <2>3. remote \in [Findings -> Statuses] /\ earned \in [Findings -> Nat]
      BY DEF Init, Statuses
    <2> QED BY <2>1, <2>2, <2>3 DEF Init, TypeOK
  <1>2. \A p \in Pulls : pull[p].at = "idle"
    BY DEF Init, NoPull
  <1>3. Kinds /\ PullsInformed
    BY <1>2 DEF Kinds, PullsInformed, Informed
  <1>4. \A f \in Findings : stored[f] # Absent => stored[f] = Row(TRUE, 1, 0)
    BY DEF Init
  <1>5. Fresh
    BY <1>2, <1>4, PullAssumption DEF Fresh, Begun, Init, NoRecheck, Row
  <1>6. RecheckInformed
    BY DEF Init, RecheckInformed, NoRecheck
  <1>7. GenerationsEarned
    BY <1>4 DEF Init, GenerationsEarned, Earned, Row
  <1> QED BY <1>1, <1>3, <1>5, <1>6, <1>7 DEF IInv

\* Marking other pulls as overtaken leaves the rest of them as it was.
LEMMA SavedFacts ==
    ASSUME TypeOK, NEW q, NEW p \in Pulls
    PROVE  /\ Saved(q)[p] \in Pulling
           /\ Saved(q)[p].at = pull[p].at /\ Saved(q)[p].id = pull[p].id
           /\ Saved(q)[p].scope = pull[p].scope /\ Saved(q)[p].filter = pull[p].filter
           /\ Saved(q)[p].offset = pull[p].offset /\ Saved(q)[p].got = pull[p].got
           /\ Saved(q)[p].base = pull[p].base
           /\ p = q => Saved(q)[p].overtaken = pull[p].overtaken
           /\ pull[p].overtaken => Saved(q)[p].overtaken
           /\ p # q /\ pull[p].at \in {"marking", "done"} => Saved(q)[p].overtaken
           /\ p # q /\ pull[p].at = "saving" /\ storage = "json" => Saved(q)[p].overtaken
  <1>1. pull[p] \in Pulling
    BY DEF TypeOK
  <1> QED BY <1>1 DEF Saved, Pulling

LEMMA AllowedTyped ==
    ASSUME TypeOK, NEW p \in Pulls
    PROVE  Allowed(p) \in SUBSET (Findings \X BOOLEAN)
  BY DEF TypeOK, Pulling, Allowed

LEMMA NoPullTyped == NoPull \in Pulling
  BY DEF NoPull, Pulling

\* What a page, and the save, make of the record of a pull.
Receiving(r, offset, got) == [r EXCEPT !.offset = offset, !.got = got]
Landed(r, at) == [r EXCEPT !.base = Absent, !.got = {}, !.at = at]

LEMMA PullingUpdates ==
    ASSUME NEW r \in Pulling
    PROVE  /\ \A offset \in Nat, got \in SUBSET (Findings \X BOOLEAN) :
                LET new == Receiving(r, offset, got) IN
                /\ new \in Pulling /\ new.at = r.at /\ new.base = r.base /\ new.id = r.id
                /\ new.scope = r.scope /\ new.filter = r.filter /\ new.overtaken = r.overtaken
                /\ new.offset = offset /\ new.got = got
           /\ \A at \in {"marking", "done"} :
                LET new == Landed(r, at) IN
                /\ new \in Pulling /\ new.at = at /\ new.id = r.id
                /\ new.scope = r.scope /\ new.filter = r.filter /\ new.overtaken = r.overtaken
  BY DEF Pulling, Receiving, Landed

LEMMA SavesMoves ==
    ASSUME TypeOK, NEW p \in Pulls, Saves(p)
    PROVE  /\ \A q \in Pulls : q # p => pull'[q] = Saved(p)[q]
           /\ pull' = [q \in Pulls |-> pull'[q]]
           /\ pull'[p] \in Pulling
           /\ pull'[p].at = IF Marking(p) THEN "marking" ELSE "done"
           /\ pull'[p].id = pull[p].id /\ pull'[p].scope = pull[p].scope
           /\ pull'[p].filter = pull[p].filter /\ pull'[p].overtaken = pull[p].overtaken
  <1> DEFINE at == IF Marking(p) THEN "marking" ELSE "done"
             r == Saved(p)[p]
             new == Landed(r, at)
  <1>1. pull' = [Saved(p) EXCEPT ![p] = new]
    BY DEF Saves, Saved, Landed
  <1>2. DOMAIN Saved(p) = Pulls
    BY DEF Saved
  <1>3. /\ pull'[p] = new /\ \A q \in Pulls : q # p => pull'[q] = Saved(p)[q]
        /\ pull' = [q \in Pulls |-> pull'[q]]
    BY <1>1, <1>2 DEF Saved
  <1>4. at \in {"marking", "done"}
    OBVIOUS
  <1>5. /\ r \in Pulling /\ r.id = pull[p].id /\ r.scope = pull[p].scope
        /\ r.filter = pull[p].filter /\ r.overtaken = pull[p].overtaken
    BY SavedFacts
  <1>6. /\ new \in Pulling /\ new.at = at /\ new.id = r.id /\ new.scope = r.scope
        /\ new.filter = r.filter /\ new.overtaken = r.overtaken
    <2> HIDE DEF at, r
    <2> QED BY <1>4, <1>5, PullingUpdates
  <1> HIDE DEF new, r
  <1> QED BY <1>3, <1>5, <1>6, Zenon

\* A step of one pull.
LEMMA PullReplaced ==
    ASSUME TypeOK, NEW p \in Pulls, NEW new \in Pulling, pull' = [pull EXCEPT ![p] = new]
    PROVE  /\ pull' \in [Pulls -> Pulling] /\ pull'[p] = new
           /\ \A q \in Pulls : q # p => pull'[q] = pull[q]
  BY DEF TypeOK

\* What a step of one pull leaves to be shown.
LEMMA PullStep ==
    ASSUME TypeOK, Kinds, NEW p \in Pulls, NEW new \in Pulling,
           pull' = [pull EXCEPT ![p] = new],
           UNCHANGED <<storage, source, stored, recheck, touched, changes, rechecks>>,
           ids' \in Nat,
           new.at = "loading" => storage = "json",
           new.at = "saving" /\ storage = "json" => new.base \in Stores,
           new.at # "marking"
    PROVE  TypeOK' /\ Kinds'
  <1>1. TypeOK'
    BY PullReplaced DEF TypeOK, source
  <1>2. Kinds'
    BY PullReplaced DEF Kinds, source
  <1> QED BY <1>1, <1>2

\* What a recheck makes its rows of.
LEMMA RecheckRows ==
    ASSUME TypeOK, RecheckSaves
    PROVE  \E rows \in Stores, got \in SUBSET (Findings \X BOOLEAN), id \in Nat :
                /\ rows = IF storage = "json" THEN recheck.base ELSE stored
                /\ got = {<<recheck.finding, recheck.active>>} /\ id = recheck.id
                /\ stored' = Merged(rows, got, id)
  <1> DEFINE rows == IF storage = "json" THEN recheck.base ELSE stored
             got == {<<recheck.finding, recheck.active>>}
  <1>1. rows \in Stores /\ got \in SUBSET (Findings \X BOOLEAN) /\ recheck.id \in Nat
    BY DEF RecheckSaves, TypeOK, Rechecking
  <1>2. stored' = Merged(rows, got, recheck.id)
    BY DEF RecheckSaves
  <1> HIDE DEF rows, got
  <1>3. \E rs \in Stores, gs \in SUBSET (Findings \X BOOLEAN), id \in Nat :
            rs = rows /\ gs = got /\ id = recheck.id /\ stored' = Merged(rs, gs, id)
    BY <1>1, <1>2
  <1> QED BY <1>3 DEF rows, got

LEMMA TypesKept ==
    ASSUME TypeOK, Kinds, [Next]_vars
    PROVE  TypeOK' /\ Kinds'
  <1> USE DEF source, bounds
  <1>1. CASE UNCHANGED vars
    BY <1>1 DEF vars, TypeOK, Kinds
  <1>2. ASSUME Overtakes, UNCHANGED <<storage, stored, ids, touched, rechecks>>,
               remote' \in [Findings -> Statuses], enabled' \subseteq Engagements,
               earned' \in [Findings -> Nat], changes' \in Nat
        PROVE  TypeOK' /\ Kinds'
    <2>1. /\ \A p \in Pulls : /\ pull'[p] \in Pulling /\ pull'[p].at = pull[p].at
                             /\ pull'[p].base = pull[p].base /\ pull'[p].filter = pull[p].filter
          /\ pull' \in [Pulls -> Pulling]
      <3>1. ASSUME NEW p \in Pulls, NEW b \in BOOLEAN
            PROVE  LET new == [pull[p] EXCEPT !.overtaken = b] IN
                   /\ new \in Pulling /\ new.at = pull[p].at
                   /\ new.base = pull[p].base /\ new.filter = pull[p].filter
        BY DEF TypeOK, Pulling
      <3>2. \A p \in Pulls : \E b \in BOOLEAN : pull'[p] = [pull[p] EXCEPT !.overtaken = b]
        BY <1>2 DEF Overtakes
      <3> QED BY <1>2, <3>1, <3>2 DEF Overtakes
    <2>2. recheck' \in Rechecking
      BY <1>2 DEF Overtakes, TypeOK, Rechecking
    <2>3. TypeOK'
      BY <1>2, <2>1, <2>2 DEF TypeOK
    <2>4. Kinds'
      BY <1>2, <2>1 DEF Kinds
    <2> QED BY <2>3, <2>4
  <1>3. ASSUME NEW reopened \in SUBSET Findings, Earns(reopened)
        PROVE  earned' \in [Findings -> Nat]
    BY <1>3 DEF Earns, TypeOK
  <1>4. ASSUME NEW f \in Findings, RemoteChanges(f) PROVE TypeOK' /\ Kinds'
    <2>1. earned' \in [Findings -> Nat]
      BY <1>3, <1>4 DEF RemoteChanges
    <2>2. remote' \in [Findings -> Statuses]
      BY <1>4 DEF RemoteChanges, TypeOK
    <2>3. changes' \in Nat /\ enabled' \subseteq Engagements
      BY <1>4 DEF RemoteChanges, TypeOK
    <2> QED BY <1>2, <1>4, <2>1, <2>2, <2>3 DEF RemoteChanges
  <1>5. ASSUME NEW e \in Engagements, Switches(e) PROVE TypeOK' /\ Kinds'
    <2>1. earned' \in [Findings -> Nat]
      BY <1>3, <1>5 DEF Switches
    <2> QED BY <1>2, <1>5, <2>1 DEF Switches, TypeOK
  <1>6. ASSUME NEW p \in Pulls, Starts(p) PROVE TypeOK' /\ Kinds'
    <2>1. PICK scope \in SUBSET Engagements, filter \in {"active", "all"} :
            pull' = [pull EXCEPT ![p] = [NoPull EXCEPT !.at = "fetching", !.scope = scope,
                                                       !.filter = filter, !.id = Stamp(ids + 1)]]
      <3>1. \A scope \in {Engagements} \cup {{e} : e \in Engagements} : scope \in SUBSET Engagements
        OBVIOUS
      <3> QED BY <1>6, <3>1 DEF Starts
    <2> DEFINE new == [NoPull EXCEPT !.at = "fetching", !.scope = scope, !.filter = filter,
                                     !.id = Stamp(ids + 1)]
    <2>2. ids + 1 \in Nat /\ Stamp(ids + 1) \in Nat
      BY DEF TypeOK, Stamp
    <2>3. new \in Pulling /\ new.at = "fetching"
      BY <2>2 DEF NoPull, Pulling
    <2>4. pull' = [pull EXCEPT ![p] = new]
      BY <2>1
    <2> HIDE DEF new
    <2> QED BY <1>6, <2>2, <2>3, <2>4, PullStep DEF Starts, TypeOK
  <1>7. ASSUME NEW p \in Pulls, Fetches(p) PROVE TypeOK' /\ Kinds'
    <2>1. pull[p] \in Pulling
      BY DEF TypeOK
    <2>2. PICK f \in Findings :
            pull' = [pull EXCEPT ![p].offset = @ + 1,
                                 ![p].got = IF \E g \in @ : g[1] = f THEN @
                                            ELSE @ \cup {<<f, remote[f] = "active">>}]
      BY <1>7 DEF Fetches, Listed
    <2> DEFINE got == IF \E g \in pull[p].got : g[1] = f THEN pull[p].got
                      ELSE pull[p].got \cup {<<f, remote[f] = "active">>}
               new == Receiving(pull[p], pull[p].offset + 1, got)
    <2>3. got \in SUBSET (Findings \X BOOLEAN)
      <3>1. (remote[f] = "active") \in BOOLEAN
        OBVIOUS
      <3>2. <<f, remote[f] = "active">> \in Findings \X BOOLEAN
        BY <3>1, Zenon
      <3>3. pull[p].got \in SUBSET (Findings \X BOOLEAN)
        BY <2>1 DEF Pulling
      <3> QED BY <3>2, <3>3
    <2>4. pull' = [pull EXCEPT ![p] = new]
      BY <2>2 DEF Receiving
    <2> HIDE DEF got
    <2>5. new \in Pulling /\ new.at = pull[p].at /\ new.base = pull[p].base
      <3>1. pull[p].offset + 1 \in Nat
        BY <2>1 DEF Pulling
      <3> QED BY <2>1, <2>3, <3>1, PullingUpdates
    <2> HIDE DEF new
    <2> QED BY <1>7, <2>4, <2>5, PullStep DEF Fetches, TypeOK
  <1>8. ASSUME NEW p \in Pulls, NEW new \in Pulling, pull' = [pull EXCEPT ![p] = new],
               new = NoPull, UNCHANGED <<storage, source, stored, recheck, ids, touched, bounds>>
        PROVE  TypeOK' /\ Kinds'
    BY <1>8, PullStep DEF NoPull, TypeOK
  <1>9. ASSUME NEW p \in Pulls, Filters(p) PROVE TypeOK' /\ Kinds'
    <2>1. CASE pull' = [pull EXCEPT ![p] = NoPull]
      BY <1>8, <1>9, <2>1, NoPullTyped DEF Filters, TypeOK
    <2>2. CASE pull' = [pull EXCEPT ![p] = [pull[p] EXCEPT
                            !.at = IF storage = "json" THEN "loading" ELSE "saving",
                            !.offset = 0, !.got = Allowed(p)]]
      <3> DEFINE new == [pull[p] EXCEPT !.at = IF storage = "json" THEN "loading" ELSE "saving",
                                        !.offset = 0, !.got = Allowed(p)]
      <3>1. new \in Pulling
        BY AllowedTyped DEF TypeOK, Pulling
      <3>2. new.at = IF storage = "json" THEN "loading" ELSE "saving"
        BY DEF TypeOK, Pulling
      <3>3. pull' = [pull EXCEPT ![p] = new]
        BY <2>2
      <3>4. storage \in {"postgresql", "json"} /\ stored \in Stores /\ ids \in Nat
        BY DEF TypeOK
      <3> HIDE DEF new
      <3>5. new.at # "marking" /\ (new.at = "loading" <=> storage = "json")
        BY <3>2, <3>4
      <3> QED BY <1>9, <3>1, <3>3, <3>2, <3>4, <3>5, PullStep DEF Filters
    <2> QED BY <1>9, <2>1, <2>2 DEF Filters
  <1>10. ASSUME NEW p \in Pulls, Loads(p) PROVE TypeOK' /\ Kinds'
    <2> DEFINE new == [pull[p] EXCEPT !.at = "saving", !.base = stored]
    <2>1. new \in Pulling /\ new.at = "saving" /\ new.base = stored
      BY DEF TypeOK, Pulling
    <2>2. pull' = [pull EXCEPT ![p] = new]
      BY <1>10 DEF Loads
    <2> QED BY <1>10, <2>1, <2>2, PullStep DEF Loads, TypeOK
  <1>11. ASSUME NEW p \in Pulls, Finishes(p) PROVE TypeOK' /\ Kinds'
    BY <1>8, <1>11, NoPullTyped DEF Finishes, TypeOK
  <1>12. ASSUME NEW p \in Pulls, Fails(p) PROVE TypeOK' /\ Kinds'
    BY <1>8, <1>12, NoPullTyped DEF Fails, TypeOK
  <1>13. ASSUME NEW p \in Pulls, Saves(p) PROVE TypeOK' /\ Kinds'
    <2> DEFINE rows == IF storage = "json" THEN pull[p].base ELSE stored
    <2>1. rows \in Stores /\ pull[p].got \in SUBSET (Findings \X BOOLEAN) /\ pull[p].id \in Nat
      BY <1>13 DEF Saves, TypeOK, Pulling, Kinds
    <2>2. stored' \in Stores
      BY <1>13, <2>1, MergedFacts DEF Saves
    <2>3. pull' \in [Pulls -> Pulling]
      BY <1>13, SavesMoves, SavedFacts
    <2>4. TypeOK'
      <3>1. recheck' \in Rechecking
        BY <1>13 DEF Saves, TypeOK, Rechecking
      <3> QED BY <1>13, <2>2, <2>3, <3>1 DEF Saves, TypeOK
    <2>5. Kinds'
      <3>1. \A q \in Pulls : q # p => /\ pull'[q].at = pull[q].at /\ pull'[q].base = pull[q].base
                                     /\ pull'[q].filter = pull[q].filter
        BY <1>13, SavesMoves, SavedFacts
      <3>2. /\ pull'[p].at = IF Marking(p) THEN "marking" ELSE "done"
            /\ pull'[p].filter = pull[p].filter /\ storage' = storage
        BY <1>13, SavesMoves DEF Saves
      <3> QED BY <3>1, <3>2 DEF Kinds, Marking
    <2> QED BY <2>4, <2>5
  <1>14. ASSUME NEW p \in Pulls, Marks(p) PROVE TypeOK' /\ Kinds'
    <2>1. \A f \in Findings : stored[f] \in Rows \cup {Absent} /\ (Unseen(p, f) => stored[f] \in Rows)
      BY DEF TypeOK, Stores, Unseen, Active
    <2>2. stored' \in Stores
      BY <1>14, <2>1 DEF Marks, Stores, Rows
    <2>3. \A q \in Pulls : Saved(p)[q] \in Pulling
      BY SavedFacts
    <2>4. /\ pull'[p] = [Saved(p)[p] EXCEPT !.at = "done"]
          /\ \A q \in Pulls : q # p => pull'[q] = Saved(p)[q]
          /\ pull' = [q \in Pulls |-> pull'[q]]
      BY <1>14 DEF Marks, Saved
    <2>5. pull'[p] \in Pulling /\ pull'[p].at = "done"
      BY <2>3, <2>4 DEF Pulling
    <2>6. pull' \in [Pulls -> Pulling]
      BY <2>3, <2>4, <2>5
    <2>7. TypeOK'
      BY <1>14, <2>2, <2>6 DEF Marks, TypeOK
    <2>8. Kinds'
      BY <1>14, <2>4, <2>5, SavedFacts DEF Marks, Kinds
    <2> QED BY <2>7, <2>8
  <1>15. ASSUME NEW f \in Findings, Rechecks(f) PROVE TypeOK' /\ Kinds'
    <2>1. recheck' \in Rechecking
      <3>1. PICK id \in {0} \cup 1 .. ids, active \in BOOLEAN :
                recheck' = [NoRecheck EXCEPT !.finding = f, !.active = active, !.id = id]
        BY <1>15 DEF Rechecks, Stamp
      <3>2. id \in Nat
        BY DEF TypeOK
      <3> QED BY <3>1, <3>2 DEF NoRecheck, Rechecking
    <2>2. TypeOK'
      BY <1>15, <2>1 DEF Rechecks, TypeOK
    <2>3. Kinds'
      BY <1>15 DEF Rechecks, Kinds
    <2> QED BY <2>2, <2>3
  <1>16. CASE RecheckSaves
    <2>2. stored' \in Stores
      <3>1. PICK rows \in Stores, got \in SUBSET (Findings \X BOOLEAN), id \in Nat :
                stored' = Merged(rows, got, id)
        BY <1>16, RecheckRows
      <3> QED BY <3>1, MergedFacts
    <2>3. \A q \in Pulls : pull'[q] = Saved(Absent)[q] /\ pull'[q] \in Pulling
      BY <1>16, SavedFacts DEF RecheckSaves
    <2>4. pull' \in [Pulls -> Pulling]
      BY <1>16, <2>3 DEF RecheckSaves, Saved
    <2>5. recheck' \in Rechecking /\ touched' \subseteq Findings
      BY <1>16 DEF RecheckSaves, NoRecheck, TypeOK, Rechecking
    <2>6. TypeOK'
      BY <1>16, <2>2, <2>4, <2>5 DEF RecheckSaves, TypeOK
    <2>7. Kinds'
      BY <1>16, <2>3, SavedFacts DEF RecheckSaves, Kinds
    <2> QED BY <2>6, <2>7
  <1>17. CASE RecheckLoads
    <2>1. recheck' \in Rechecking
      BY <1>17 DEF RecheckLoads, TypeOK, Rechecking
    <2> QED BY <1>17, <2>1 DEF RecheckLoads, TypeOK, Kinds
  <1> QED
    BY <1>1, <1>4, <1>5, <1>6, <1>7, <1>9, <1>10, <1>11, <1>12, <1>13, <1>14, <1>15, <1>16, <1>17
    DEF Next

-----------------------------------------------------------------------------
(* Ids. *)

\* A step that gives out no id, and writes no row with the id of a pull before its save.
LEMMA FreshStep ==
    ASSUME Fresh, UNCHANGED <<storage, ids>>,
           \A q \in Pulls : /\ pull'[q].at # "idle" => pull[q].at # "idle" /\ pull'[q].id = pull[q].id
                            /\ Begun(q)' => Begun(q),
           recheck'.finding # Absent => recheck.finding # Absent,
           recheck'.id = recheck.id,
           \A f \in Findings : stored'[f] # Absent =>
                \/ stored[f] # Absent /\ stored'[f].last = stored[f].last
                \/ /\ stored'[f].last <= ids
                   /\ \A q \in Pulls : Begun(q)' => stored'[f].last # pull[q].id
    PROVE  Fresh'
  <1>1. \A q \in Pulls : Begun(q)' => pull'[q].id = pull[q].id
    BY DEF Begun
  <1> QED BY <1>1 DEF Fresh

LEMMA StorageStays == [Next]_vars => storage' = storage
  BY DEF Next, vars, RemoteChanges, Switches, Starts, Fetches, Filters, Loads, Saves, Marks,
         Finishes, Fails, Rechecks, RecheckLoads, RecheckSaves

LEMMA FreshKept ==
    ASSUME TypeOK, Kinds, Fresh, [Next]_vars
    PROVE  Fresh'
  <1> USE DEF source, bounds
  <1>0. CASE storage # "postgresql"
    BY <1>0, StorageStays DEF Fresh
  <1> SUFFICES ASSUME storage = "postgresql"
               PROVE  Fresh'
    BY <1>0
  <1>1. CASE UNCHANGED vars
    BY <1>1 DEF vars, Fresh, Begun
  <1>2. ASSUME Overtakes, UNCHANGED <<storage, stored, ids>>
        PROVE  Fresh'
    <2>1. \A q \in Pulls : pull'[q].at = pull[q].at /\ pull'[q].id = pull[q].id
      BY <1>2 DEF Overtakes, TypeOK, Pulling
    <2>2. recheck'.finding = recheck.finding /\ recheck'.id = recheck.id
      BY <1>2 DEF Overtakes, TypeOK, Rechecking
    <2> QED BY <1>2, <2>1, <2>2, FreshStep DEF Begun
  <1>3. ASSUME NEW p \in Pulls, UNCHANGED <<storage, stored, ids, recheck>>,
               \A q \in Pulls : q # p => pull'[q] = pull[q],
               pull'[p].at # "idle" => pull[p].at # "idle" /\ pull'[p].id = pull[p].id,
               Begun(p)' => Begun(p)
        PROVE  Fresh'
    BY <1>3, FreshStep DEF Begun
  <1>4. ASSUME NEW p \in Pulls, Starts(p) PROVE Fresh'
    <2>1. /\ pull'[p].id = ids + 1 /\ ids' = ids + 1
          /\ \A q \in Pulls : q # p => pull'[q] = pull[q]
          /\ UNCHANGED <<storage, stored, recheck>>
      BY <1>4 DEF Starts, NoPull, TypeOK, Stamp
    <2>2. ids \in Nat /\ recheck.id \in Nat
          /\ \A q \in Pulls : pull[q].id \in Nat
          /\ \A f \in Findings : stored[f] # Absent => stored[f].last \in Nat
      BY DEF TypeOK, Pulling, Rechecking, Stores, Rows
    <2>3. \A q \in Pulls : q # p => (Begun(q)' <=> Begun(q)) /\ (Begun(q) => pull[q].id <= ids)
      BY <2>1, <2>2 DEF Begun, Fresh
    <2>4. \A q, r \in Pulls : q # r /\ Begun(q)' /\ Begun(r)' => pull'[q].id # pull'[r].id
      BY <2>1, <2>2, <2>3 DEF Fresh
    <2>5. \A q \in Pulls : Begun(q)' /\ recheck'.finding # Absent => recheck'.id # pull'[q].id
      BY <2>1, <2>2, <2>3 DEF Fresh
    <2>6. \A f \in Findings : stored'[f] # Absent =>
            /\ stored'[f].last <= ids'
            /\ \A q \in Pulls : Begun(q)' => stored'[f].last # pull'[q].id
      BY <2>1, <2>2, <2>3 DEF Fresh
    <2>7. recheck'.id <= ids' /\ \A q \in Pulls : pull'[q].at # "idle" => pull'[q].id \in 1 .. ids'
      BY <2>1, <2>2 DEF Fresh
    <2> QED BY <2>4, <2>5, <2>6, <2>7 DEF Fresh
  <1>5. ASSUME NEW p \in Pulls, Fetches(p) PROVE Fresh'
    <2>1. pull'[p].at = pull[p].at /\ pull'[p].id = pull[p].id
          /\ \A q \in Pulls : q # p => pull'[q] = pull[q]
      BY <1>5 DEF Fetches, TypeOK, Pulling
    <2> QED BY <1>3, <1>5, <2>1 DEF Fetches, Begun
  <1>6. ASSUME NEW p \in Pulls, pull' = [pull EXCEPT ![p] = NoPull],
               UNCHANGED <<storage, stored, ids, recheck>>
        PROVE  Fresh'
    <2>1. pull'[p].at = "idle" /\ \A q \in Pulls : q # p => pull'[q] = pull[q]
      BY <1>6 DEF NoPull, TypeOK
    <2> QED BY <1>3, <1>6, <2>1 DEF Begun
  <1>7. ASSUME NEW p \in Pulls, Filters(p) PROVE Fresh'
    <2>1. CASE pull' = [pull EXCEPT ![p] = NoPull]
      BY <1>6, <1>7, <2>1 DEF Filters
    <2>2. CASE pull' = [pull EXCEPT ![p] = [pull[p] EXCEPT
                            !.at = IF storage = "json" THEN "loading" ELSE "saving",
                            !.offset = 0, !.got = Allowed(p)]]
      <3>1. pull'[p].id = pull[p].id /\ \A q \in Pulls : q # p => pull'[q] = pull[q]
        BY <2>2 DEF TypeOK, Pulling
      <3>2. pull[p].at = "fetching" /\ Begun(p)
        BY <1>7 DEF Filters, Begun
      <3> QED BY <1>3, <1>7, <3>1, <3>2 DEF Filters
    <2> QED BY <1>7, <2>1, <2>2 DEF Filters
  <1>8. ASSUME NEW p \in Pulls, Loads(p) PROVE Fresh'
    <2>1. pull'[p].id = pull[p].id /\ \A q \in Pulls : q # p => pull'[q] = pull[q]
      BY <1>8 DEF Loads, TypeOK, Pulling
    <2>2. pull[p].at = "loading" /\ Begun(p)
      BY <1>8 DEF Loads, Begun
    <2> QED BY <1>3, <1>8, <2>1, <2>2 DEF Loads
  <1>9. ASSUME NEW p \in Pulls, Finishes(p) \/ Fails(p) PROVE Fresh'
    BY <1>6, <1>9 DEF Finishes, Fails
  <1>10. ASSUME NEW p \in Pulls, Saves(p) PROVE Fresh'
    <2> DEFINE rows == IF storage = "json" THEN pull[p].base ELSE stored
    <2>1. rows \in Stores /\ pull[p].got \in SUBSET (Findings \X BOOLEAN) /\ pull[p].id \in Nat
      BY <1>10 DEF Saves, TypeOK, Pulling, Kinds
    <2>2. \A q \in Pulls : /\ q # p => pull'[q].at = pull[q].at
                           /\ pull'[q].id = pull[q].id
      BY <1>10, SavedFacts, SavesMoves
    <2>3. pull'[p].at \in {"marking", "done"}
      BY <1>10, SavesMoves
    <2>4. Begun(p) /\ \A q \in Pulls : Begun(q)' => Begun(q) /\ q # p
      BY <1>10, <2>2, <2>3 DEF Begun, Saves
    <2>5. \A f \in Findings : stored'[f] # stored[f] => stored'[f].last = pull[p].id
      BY <1>10, <2>1, MergedFacts DEF Saves
    <2>6. pull[p].id <= ids /\ \A q \in Pulls : Begun(q)' => pull[q].id # pull[p].id
      BY <1>10, <2>4 DEF Fresh, Saves
    <2>7. UNCHANGED <<storage, ids>> /\ recheck'.id = recheck.id /\ recheck'.finding = recheck.finding
      BY <1>10 DEF Saves, TypeOK, Rechecking
    <2>8. \A q \in Pulls : pull'[q].at # "idle" => pull[q].at # "idle"
      BY <1>10, <2>2 DEF Saves
    <2> QED BY <2>2, <2>4, <2>5, <2>6, <2>7, <2>8, FreshStep
  <1>11. ASSUME NEW p \in Pulls, Marks(p) PROVE Fresh'
    <2>1. \A q \in Pulls : /\ q # p => pull'[q].at = pull[q].at
                           /\ pull'[q].id = pull[q].id
      BY <1>11, SavedFacts DEF Marks, TypeOK, Saved, Pulling
    <2>2. pull'[p].at = "done"
      BY <1>11 DEF Marks, Saved, TypeOK, Pulling
    <2>3. \A f \in Findings : stored'[f] # Absent =>
            stored[f] # Absent /\ stored'[f].last = stored[f].last
      BY <1>11 DEF Marks, Unseen, Active, TypeOK, Stores, Rows
    <2> QED BY <1>11, <2>1, <2>2, <2>3, FreshStep DEF Marks, Begun
  <1>12. ASSUME NEW f \in Findings, Rechecks(f) PROVE Fresh'
    <2>1. PICK id \in {0} \cup ((1 .. ids) \ {pull[p].id : p \in Pulls}) :
            recheck' = [NoRecheck EXCEPT !.finding = f, !.active = remote[f] = "active", !.id = id]
      BY <1>12 DEF Rechecks, Stamp
    <2>2. ids \in Nat /\ recheck'.id = id /\ UNCHANGED <<storage, stored, pull, ids>>
      BY <1>12, <2>1 DEF TypeOK, NoRecheck, Rechecks
    <2> QED BY <2>1, <2>2 DEF Fresh, Begun
  <1>13. CASE RecheckSaves
    <2>3. \A f \in Findings : stored'[f] # stored[f] => stored'[f].last = recheck.id
      BY <1>13, RecheckRows, MergedFacts
    <2>4. \A q \in Pulls : pull'[q].at = pull[q].at /\ pull'[q].id = pull[q].id
      BY <1>13, SavedFacts DEF RecheckSaves
    <2>5. recheck.id <= ids /\ \A q \in Pulls : Begun(q) => recheck.id # pull[q].id
      BY <1>13 DEF RecheckSaves, Fresh
    <2>6. /\ recheck' = NoRecheck /\ UNCHANGED <<storage, ids>> /\ 0 <= ids
          /\ \A q \in Pulls : Begun(q)' <=> Begun(q)
      BY <1>13, <2>4 DEF RecheckSaves, TypeOK, Begun
    <2>7. recheck'.finding = Absent /\ recheck'.id = 0
      BY <2>6 DEF NoRecheck
    <2> QED BY <2>3, <2>4, <2>5, <2>6, <2>7 DEF Fresh
  <1>14. CASE RecheckLoads
    BY <1>14 DEF RecheckLoads
  <1> QED
    BY <1>1, <1>2, <1>4, <1>5, <1>7, <1>8, <1>9, <1>10, <1>11, <1>12, <1>13, <1>14
    DEF Next, RemoteChanges, Switches

-----------------------------------------------------------------------------
(* What a pull that was not overtaken knows. *)

LEMMA ListedFinite == \A p \in Pulls : Listed(p) \subseteq Findings /\ IsFiniteSet(Listed(p))
  BY PullAssumption, FS_Subset DEF Listed

LEMMA RankGrows ==
    ASSUME NEW p \in Pulls, NEW f \in Listed(p), NEW h \in Listed(p), f < h
    PROVE  Rank(p, f) \in Nat /\ Rank(p, h) \in Nat /\ Rank(p, f) < Rank(p, h)
  <1> DEFINE A == {g \in Listed(p) : g < f}
             B == {g \in Listed(p) : g < h}
  <1>1. Listed(p) \subseteq Nat /\ f \in Nat /\ h \in Nat
    BY ListedFinite, PullAssumption
  <1>2. A \subseteq B /\ f \in B /\ f \notin A
    BY <1>1
  <1>3. B \in SUBSET Listed(p) /\ A \in SUBSET B
    BY <1>2
  <1>4. IsFiniteSet(B) /\ IsFiniteSet(A)
    BY <1>3, ListedFinite, FS_Subset
  <1>5. Cardinality(A) \in Nat /\ Cardinality(B) \in Nat
    BY <1>4, FS_CardinalityType
  <1>6. Cardinality(A) <= Cardinality(B) /\ Cardinality(A) # Cardinality(B)
    BY <1>2, <1>3, <1>4, FS_Subset
  <1> QED BY <1>5, <1>6 DEF Rank

LEMMA RankBounded ==
    ASSUME NEW p \in Pulls, NEW f \in Listed(p)
    PROVE  /\ Rank(p, f) \in Nat /\ Cardinality(Listed(p)) \in Nat
           /\ Rank(p, f) < Cardinality(Listed(p))
  <1> DEFINE A == {g \in Listed(p) : g < f}
  <1>1. Listed(p) \subseteq Nat /\ f \in Nat
    BY ListedFinite, PullAssumption
  <1>2. A \in SUBSET Listed(p) /\ f \notin A
    BY <1>1
  <1>3. IsFiniteSet(A) /\ IsFiniteSet(Listed(p))
    BY <1>2, ListedFinite, FS_Subset
  <1>4. Cardinality(A) \in Nat /\ Cardinality(Listed(p)) \in Nat
    BY <1>3, FS_CardinalityType
  <1>5. Cardinality(A) <= Cardinality(Listed(p)) /\ Cardinality(A) # Cardinality(Listed(p))
    BY <1>2, <1>3, FS_Subset
  <1> QED BY <1>4, <1>5 DEF Rank

\* What a finding that was answered is stored as.
LEMMA AnswerStored ==
    ASSUME NEW f \in Findings, NEW row \in Rows \cup {Absent}, NEW id \in Nat
    PROVE  LET new == Upserted(row, remote[f] = "active", id) IN
           /\ new # Absent /\ (new.active <=> remote[f] = "active") /\ new.last = id
           /\ new \in Rows
           /\ row = Absent => new.generation <= 1
           /\ row # Absent /\ (row.active \/ remote[f] # "active") =>
                    new.generation = row.generation \/ new.generation <= 1
           /\ row # Absent => new.generation <= row.generation + 1
  <1>1. PICK b \in BOOLEAN : b <=> remote[f] = "active"
    OBVIOUS
  <1>2. (remote[f] = "active") = b
    BY <1>1
  <1>3. Upserted(row, remote[f] = "active", id) = Upserted(row, b, id)
    BY <1>2, Zenon
  <1>4. LET new == Upserted(row, b, id) IN
           /\ new # Absent /\ new.active = b /\ new.last = id /\ new \in Rows
           /\ row = Absent => new.generation <= 1
           /\ row # Absent /\ (row.active \/ ~b) =>
                    new.generation = row.generation \/ new.generation <= 1
           /\ row # Absent => new.generation <= row.generation + 1
    BY UpsertedFacts
  <1> QED BY <1>1, <1>3, <1>4

\* A pull stays informed while others take steps, or is overtaken.
LEMMA InformedElsewhere ==
    ASSUME NEW q \in Pulls, UNCHANGED <<storage, source>>,
           /\ pull'[q].at = pull[q].at /\ pull'[q].id = pull[q].id
           /\ pull'[q].scope = pull[q].scope /\ pull'[q].filter = pull[q].filter
           /\ pull'[q].offset = pull[q].offset /\ pull'[q].got = pull[q].got
           /\ pull'[q].base = pull[q].base,
           pull[q].overtaken => pull'[q].overtaken,
           \/ stored' = stored
           \/ pull[q].at \in {"marking", "done"} \/ (pull[q].at = "saving" /\ storage = "json")
                    => pull'[q].overtaken,
           pull[q].overtaken \/ Informed(q)
    PROVE  pull'[q].overtaken \/ Informed(q)'
  <1> SUFFICES ASSUME ~pull'[q].overtaken PROVE Informed(q)'
    OBVIOUS
  <1>1. Informed(q)
    OBVIOUS
  <1>2. Listed(q)' = Listed(q)
    BY DEF Listed, source
  <1>3. LetIn(q)' = LetIn(q) /\ Received(q)' = Received(q)
    BY <1>2 DEF LetIn, Received, Rank, source
  <1>4. Answers(LetIn(q))' = Answers(LetIn(q)) /\ Answers(Received(q))' = Answers(Received(q))
    BY <1>3 DEF Answers, Answer, source
  <1>5. CASE stored' = stored
    BY <1>1, <1>3, <1>4, <1>5 DEF Informed, Mirrored, Active, source
  <1>6. CASE stored' # stored
    BY <1>1, <1>3, <1>4, <1>6 DEF Informed
  <1> QED BY <1>5, <1>6

LEMMA StartInforms ==
    ASSUME TypeOK, NEW p \in Pulls, Starts(p)
    PROVE  Informed(p)'
  <1>1. pull'[p].at = "fetching" /\ pull'[p].got = {} /\ pull'[p].offset = 0
    BY DEF Starts, NoPull, TypeOK
  <1>2. \A f \in Listed(p)' : Rank(p, f)' \in Nat
    <2>1. Listed(p)' \subseteq Findings
      BY DEF Listed
    <2>2. \A f \in Listed(p)' : IsFiniteSet({g \in Listed(p)' : g < f})
      BY <2>1, PullAssumption, FS_Subset
    <2> QED BY <2>2, FS_CardinalityType DEF Rank
  <1>3. Received(p)' = {}
    BY <1>1, <1>2 DEF Received
  <1> QED BY <1>1, <1>3 DEF Informed, Answers

LEMMA FetchInforms ==
    ASSUME TypeOK, NEW p \in Pulls, Informed(p), Fetches(p)
    PROVE  Informed(p)'
  <1>1. pull[p].at = "fetching" /\ pull[p].got = Answers(Received(p)) /\ pull[p].offset \in Nat
    BY DEF Fetches, Informed, TypeOK, Pulling
  <1>2. PICK f \in Listed(p) :
            /\ Rank(p, f) = pull[p].offset
            /\ pull' = [pull EXCEPT ![p].offset = @ + 1,
                                    ![p].got = IF \E g \in @ : g[1] = f THEN @
                                               ELSE @ \cup {Answer(f)}]
    BY DEF Fetches, Rank, Answer
  <1>3. Received(p) \in SUBSET Findings /\ f \in Findings /\ f \notin Received(p)
    <2>1. Rank(p, f) = pull[p].offset /\ pull[p].offset \in Nat
      BY <1>1, <1>2
    <2>2. ~(Rank(p, f) < pull[p].offset)
      BY <2>1
    <2> QED BY <2>2, ListedFinite DEF Received
  <1>4. ~\E g \in pull[p].got : g[1] = f
    <2>1. ~\E g \in Answers(Received(p)) : g[1] = f
      BY <1>3, AnswersSay
    <2> QED BY <1>1, <2>1, Zenon
  <1>5. /\ pull'[p].got = pull[p].got \cup {Answer(f)} /\ pull'[p].at = "fetching"
        /\ pull'[p].offset = pull[p].offset + 1
        /\ pull'[p].scope = pull[p].scope /\ pull'[p].filter = pull[p].filter
    BY <1>1, <1>2, <1>4 DEF TypeOK, Pulling
  <1>6. UNCHANGED source
    BY DEF Fetches
  <1>7. Listed(p)' = Listed(p)
    BY <1>5, <1>6 DEF Listed, source
  <1>8. \A h \in Listed(p) : Rank(p, h)' = Rank(p, h)
    BY <1>7 DEF Rank
  <1>9. \A h \in Listed(p) : Rank(p, h) < pull[p].offset + 1 <=> Rank(p, h) < pull[p].offset \/ h = f
    <2> SUFFICES ASSUME NEW h \in Listed(p)
                 PROVE  Rank(p, h) < pull[p].offset + 1 <=> Rank(p, h) < pull[p].offset \/ h = f
      OBVIOUS
    <2>1. Rank(p, h) \in Nat
      BY RankBounded
    <2>2. h \in Nat /\ f \in Nat
      BY ListedFinite, PullAssumption
    <2>3. h # f => Rank(p, h) # Rank(p, f)
      BY <2>2, RankGrows
    <2> QED BY <1>1, <1>2, <2>1, <2>3
  <1>10. Received(p)' = Received(p) \cup {f}
    BY <1>5, <1>7, <1>8, <1>9 DEF Received
  <1>11. Answers(Received(p))' = Answers(Received(p)) \cup {Answer(f)}
    BY <1>6, <1>10 DEF Answers, Answer, source
  <1> QED BY <1>1, <1>5, <1>11 DEF Informed

LEMMA FilterInforms ==
    ASSUME TypeOK, NEW p \in Pulls, Informed(p), Filters(p)
    PROVE  Informed(p)'
  <1>1. pull[p].at = "fetching" /\ pull[p].got = Answers(Received(p))
        /\ pull[p].offset \in Nat /\ pull[p].offset >= Cardinality(Listed(p))
    BY DEF Filters, Informed, TypeOK, Pulling
  <1>2. Received(p) = Listed(p)
    BY <1>1, RankBounded DEF Received
  <1>3. Allowed(p) = Answers(LetIn(p))
    BY <1>1, <1>2 DEF Allowed, Answers, Answer, LetIn
  <1>4. CASE pull' = [pull EXCEPT ![p] = NoPull]
    <2>1. pull'[p].at = "idle"
      BY <1>4 DEF NoPull, TypeOK
    <2> QED BY <2>1 DEF Informed
  <1>5. CASE pull' = [pull EXCEPT ![p] = [pull[p] EXCEPT
                        !.at = IF storage = "json" THEN "loading" ELSE "saving",
                        !.offset = 0, !.got = Allowed(p)]]
    <2>1. /\ pull'[p].at = IF storage = "json" THEN "loading" ELSE "saving"
          /\ pull'[p].got = Allowed(p)
          /\ pull'[p].scope = pull[p].scope /\ pull'[p].filter = pull[p].filter
      BY <1>5 DEF TypeOK, Pulling
    <2>2. UNCHANGED <<storage, source>>
      BY DEF Filters
    <2>3. LetIn(p)' = LetIn(p)
      BY <2>1, <2>2 DEF LetIn, Listed, source
    <2>4. Answers(LetIn(p))' = Answers(LetIn(p))
      BY <2>2, <2>3 DEF Answers, Answer, source
    <2> QED BY <1>3, <2>1, <2>2, <2>4 DEF Informed
  <1> QED BY <1>4, <1>5 DEF Filters

LEMMA LoadInforms ==
    ASSUME TypeOK, NEW p \in Pulls, Informed(p), Loads(p)
    PROVE  Informed(p)'
  <1>1. /\ pull'[p].at = "saving" /\ pull'[p].base = stored /\ pull'[p].got = pull[p].got
        /\ pull'[p].scope = pull[p].scope /\ pull'[p].filter = pull[p].filter
        /\ UNCHANGED <<source, stored>>
    BY DEF Loads, TypeOK, Pulling
  <1>2. pull[p].got = Answers(LetIn(p))
    BY DEF Loads, Informed
  <1>3. LetIn(p)' = LetIn(p)
    BY <1>1 DEF LetIn, Listed, source
  <1>4. Answers(LetIn(p))' = Answers(LetIn(p))
    BY <1>1, <1>3 DEF Answers, Answer, source
  <1> QED BY <1>1, <1>2, <1>4 DEF Informed

\* The save of a pull that was not overtaken stores what DefectDojo says.
LEMMA SaveFacts ==
    ASSUME TypeOK, NEW p \in Pulls, Informed(p), Saves(p), NEW f \in Findings
    PROVE  stored'[f] = IF f \in LetIn(p) THEN Upserted(stored[f], remote[f] = "active", pull[p].id)
                        ELSE stored[f]
  <1> DEFINE rows == IF storage = "json" THEN pull[p].base ELSE stored
  <1>1. pull[p].got = Answers(LetIn(p)) /\ rows = stored
    BY DEF Saves, Informed
  <1>2. stored' = Merged(stored, Answers(LetIn(p)), pull[p].id)
    BY <1>1 DEF Saves
  <1>3. LetIn(p) \in SUBSET Findings
    BY ListedFinite DEF LetIn
  <1> QED BY <1>2, <1>3, MergedAnswers

LEMMA SaveInforms ==
    ASSUME TypeOK, Fresh, NEW p \in Pulls, Informed(p), Saves(p)
    PROVE  Informed(p)'
  <1>1. /\ pull'[p].at = IF Marking(p) THEN "marking" ELSE "done"
        /\ pull'[p].id = pull[p].id /\ pull'[p].scope = pull[p].scope
        /\ pull'[p].filter = pull[p].filter /\ UNCHANGED <<storage, source>>
    BY SavesMoves DEF Saves
  <1>2. LetIn(p)' = LetIn(p)
    BY <1>1 DEF LetIn, Listed, source
  <1>3. pull[p].id \in Nat /\ stored \in Stores /\ Begun(p)
    BY DEF TypeOK, Pulling, Saves, Begun
  <1>4. ASSUME NEW f \in Findings
        PROVE  /\ f \in LetIn(p) => Mirrored(f)' /\ stored'[f].last = pull[p].id
               /\ f \notin LetIn(p) => stored'[f] = stored[f]
    <2>1. CASE f \in LetIn(p)
      <3>1. stored[f] \in Rows \cup {Absent}
        BY <1>3 DEF Stores
      <3>2. stored'[f] = Upserted(stored[f], remote[f] = "active", pull[p].id)
        BY <2>1, SaveFacts
      <3>3. LET new == Upserted(stored[f], remote[f] = "active", pull[p].id) IN
            new # Absent /\ (new.active <=> remote[f] = "active") /\ new.last = pull[p].id
        BY <1>3, <3>1, AnswerStored
      <3> QED BY <1>1, <2>1, <3>2, <3>3 DEF Mirrored, source
    <2>2. CASE f \notin LetIn(p)
      BY <2>2, SaveFacts
    <2> QED BY <2>1, <2>2
  <1>5. ASSUME NEW f \in Findings, Marking(p), stored'[f] # Absent
        PROVE  stored'[f].last = pull[p].id <=> f \in LetIn(p)
    BY <1>3, <1>4, <1>5 DEF Fresh, Marking
  <1>6. CASE Marking(p)
    BY <1>1, <1>2, <1>4, <1>5, <1>6 DEF Informed
  <1>7. CASE ~Marking(p)
    BY <1>1, <1>2, <1>4, <1>7 DEF Informed, Marking
  <1> QED BY <1>6, <1>7

LEMMA MarkInforms ==
    ASSUME TypeOK, NEW p \in Pulls, Informed(p), Marks(p)
    PROVE  /\ Informed(p)'
           /\ \A f \in Findings : f \in LetIn(p) => stored'[f] = stored[f]
  <1>1. /\ pull'[p].at = "done" /\ pull'[p].scope = pull[p].scope
        /\ pull'[p].filter = pull[p].filter /\ UNCHANGED <<storage, source>>
    <2>1. /\ Saved(p)[p] \in Pulling /\ Saved(p)[p].scope = pull[p].scope
          /\ Saved(p)[p].filter = pull[p].filter
      BY SavedFacts
    <2>2. pull'[p] = [Saved(p)[p] EXCEPT !.at = "done"]
      BY DEF Marks, Saved
    <2> QED BY <2>1, <2>2 DEF Pulling, Marks
  <1>2. LetIn(p)' = LetIn(p)
    BY <1>1 DEF LetIn, Listed, source
  <1>3. \A f \in Findings : stored'[f] =
            IF Unseen(p, f) THEN [stored[f] EXCEPT !.active = FALSE] ELSE stored[f]
    BY DEF Marks
  <1>4. \A f \in Findings : /\ f \in LetIn(p) => Mirrored(f)
                            /\ stored[f] # Absent => (stored[f].last = pull[p].id <=> f \in LetIn(p))
    BY DEF Marks, Informed
  <1>5. \A f \in Findings : f \in LetIn(p) => stored'[f] = stored[f]
    BY <1>3, <1>4 DEF Unseen, Active
  <1>6. \A f \in Findings : f \in LetIn(p) => Mirrored(f)'
    BY <1>1, <1>4, <1>5 DEF Mirrored, source
  <1>7. ASSUME NEW f \in Findings, Home[f] \in pull[p].scope, f \notin LetIn(p)
        PROVE  ~Active(f)'
    <2>1. CASE Active(f)
      <3>1. Unseen(p, f) /\ stored[f] \in Rows
        BY <1>4, <1>7, <2>1 DEF Unseen, Active, TypeOK, Stores
      <3> QED BY <1>3, <3>1 DEF Active, Rows
    <2>2. CASE ~Active(f)
      BY <1>3, <2>2 DEF Unseen, Active
    <2> QED BY <2>1, <2>2
  <1>8. Informed(p)'
    BY <1>1, <1>2, <1>6, <1>7 DEF Informed
  <1> QED BY <1>5, <1>8

LEMMA InformedKept ==
    ASSUME TypeOK, Kinds, Fresh, PullsInformed, [Next]_vars
    PROVE  PullsInformed'
  <1> USE DEF source, bounds
  <1>1. CASE UNCHANGED vars
    BY <1>1, InformedElsewhere DEF vars, PullsInformed
  <1>2. ASSUME Overtakes PROVE PullsInformed'
    <2>1. \A q \in Pulls : IF pull[q].at = "idle" THEN pull'[q].at = "idle" ELSE pull'[q].overtaken
      BY <1>2 DEF Overtakes, TypeOK, Pulling
    <2> QED BY <2>1 DEF PullsInformed, Informed
  <1>3. ASSUME NEW p \in Pulls, UNCHANGED <<storage, source, stored>>,
               \A q \in Pulls : q # p => pull'[q] = pull[q],
               pull'[p].overtaken \/ Informed(p)'
        PROVE  PullsInformed'
    <2> SUFFICES ASSUME NEW q \in Pulls, q # p PROVE pull'[q].overtaken \/ Informed(q)'
      BY <1>3 DEF PullsInformed
    <2>1. pull[q].overtaken \/ Informed(q)
      BY DEF PullsInformed
    <2> QED BY <1>3, <2>1, InformedElsewhere
  <1>4. ASSUME NEW p \in Pulls, Starts(p) PROVE PullsInformed'
    <2>1. \A q \in Pulls : q # p => pull'[q] = pull[q]
      BY <1>4 DEF Starts, TypeOK
    <2> QED BY <1>3, <1>4, <2>1, StartInforms DEF Starts
  <1>5. ASSUME NEW p \in Pulls, Fetches(p) PROVE PullsInformed'
    <2>1. \A q \in Pulls : q # p => pull'[q] = pull[q]
      BY <1>5 DEF Fetches, TypeOK
    <2>2. pull[p].overtaken => pull'[p].overtaken
      BY <1>5 DEF Fetches, TypeOK, Pulling
    <2> QED BY <1>3, <1>5, <2>1, <2>2, FetchInforms DEF Fetches, PullsInformed
  <1>6. ASSUME NEW p \in Pulls, pull' = [pull EXCEPT ![p] = NoPull],
               UNCHANGED <<storage, source, stored>>
        PROVE  PullsInformed'
    <2>1. pull'[p].at = "idle" /\ \A q \in Pulls : q # p => pull'[q] = pull[q]
      BY <1>6 DEF NoPull, TypeOK
    <2>2. Informed(p)'
      BY <2>1 DEF Informed
    <2> QED BY <1>3, <1>6, <2>1, <2>2
  <1>7. ASSUME NEW p \in Pulls, Filters(p) PROVE PullsInformed'
    <2>1. CASE pull' = [pull EXCEPT ![p] = NoPull]
      BY <1>6, <1>7, <2>1 DEF Filters
    <2>2. CASE pull' = [pull EXCEPT ![p] = [pull[p] EXCEPT
                            !.at = IF storage = "json" THEN "loading" ELSE "saving",
                            !.offset = 0, !.got = Allowed(p)]]
      <3>1. \A q \in Pulls : q # p => pull'[q] = pull[q]
        BY <2>2 DEF TypeOK
      <3>2. pull[p].overtaken => pull'[p].overtaken
        BY <2>2 DEF TypeOK, Pulling
      <3> QED BY <1>3, <1>7, <3>1, <3>2, FilterInforms DEF Filters, PullsInformed
    <2> QED BY <1>7, <2>1, <2>2 DEF Filters
  <1>8. ASSUME NEW p \in Pulls, Loads(p) PROVE PullsInformed'
    <2>1. \A q \in Pulls : q # p => pull'[q] = pull[q]
      BY <1>8 DEF Loads, TypeOK
    <2>2. pull[p].overtaken => pull'[p].overtaken
      BY <1>8 DEF Loads, TypeOK, Pulling
    <2> QED BY <1>3, <1>8, <2>1, <2>2, LoadInforms DEF Loads, PullsInformed
  <1>9. ASSUME NEW p \in Pulls, Finishes(p) \/ Fails(p) PROVE PullsInformed'
    BY <1>6, <1>9 DEF Finishes, Fails
  <1>10. ASSUME NEW p, NEW q \in Pulls, p # q, pull'[q] = Saved(p)[q], UNCHANGED <<storage, source>>
         PROVE  pull'[q].overtaken \/ Informed(q)'
    <2>1. pull[q].overtaken \/ Informed(q)
      BY DEF PullsInformed
    <2> QED BY <1>10, <2>1, SavedFacts, InformedElsewhere
  <1>11. ASSUME NEW p \in Pulls, Saves(p) PROVE PullsInformed'
    <2>1. pull[p].overtaken => pull'[p].overtaken
      BY <1>11, SavesMoves
    <2>2. pull'[p].overtaken \/ Informed(p)'
      BY <1>11, <2>1, SaveInforms DEF PullsInformed
    <2>3. \A q \in Pulls : q # p => pull'[q].overtaken \/ Informed(q)'
      BY <1>10, <1>11, SavesMoves DEF Saves
    <2> QED BY <2>2, <2>3 DEF PullsInformed
  <1>12. ASSUME NEW p \in Pulls, Marks(p) PROVE PullsInformed'
    <2>1. pull'[p] = [Saved(p)[p] EXCEPT !.at = "done"]
          /\ \A q \in Pulls : q # p => pull'[q] = Saved(p)[q]
      BY <1>12 DEF Marks, Saved
    <2>2. pull[p].overtaken => pull'[p].overtaken
      BY <2>1, SavedFacts DEF Pulling
    <2>3. pull'[p].overtaken \/ Informed(p)'
      BY <1>12, <2>2, MarkInforms DEF PullsInformed
    <2>4. \A q \in Pulls : q # p => pull'[q].overtaken \/ Informed(q)'
      BY <1>10, <1>12, <2>1 DEF Marks
    <2> QED BY <2>3, <2>4 DEF PullsInformed
  <1>13. ASSUME NEW f \in Findings, Rechecks(f) PROVE PullsInformed'
    BY <1>13, InformedElsewhere DEF Rechecks, PullsInformed
  <1>14. CASE RecheckSaves
    <2>1. \A q \in Pulls : Absent # q /\ pull'[q] = Saved(Absent)[q]
      BY <1>14, PullAssumption DEF RecheckSaves
    <2>2. UNCHANGED <<storage, source>>
      BY <1>14 DEF RecheckSaves
    <2> QED BY <1>10, <2>1, <2>2 DEF PullsInformed
  <1>15. CASE RecheckLoads
    BY <1>15, InformedElsewhere DEF RecheckLoads, PullsInformed
  <1> QED
    BY <1>1, <1>2, <1>4, <1>5, <1>7, <1>8, <1>9, <1>11, <1>12, <1>13, <1>14, <1>15
    DEF Next, RemoteChanges, Switches

LEMMA RecheckKept ==
    ASSUME TypeOK, Kinds, RecheckInformed, [Next]_vars
    PROVE  RecheckInformed'
  <1> USE DEF source, bounds
  <1>1. ASSUME UNCHANGED <<storage, remote, stored, recheck>> PROVE RecheckInformed'
    BY <1>1 DEF RecheckInformed
  <1>2. ASSUME Overtakes PROVE RecheckInformed'
    <2>1. recheck'.finding # Absent => recheck'.overtaken
      BY <1>2 DEF Overtakes, TypeOK, Rechecking
    <2> QED BY <2>1 DEF RecheckInformed
  <1>3. ASSUME NEW f \in Findings, Rechecks(f) PROVE RecheckInformed'
    <2>1. PICK id : recheck' = [NoRecheck EXCEPT !.finding = f, !.active = remote[f] = "active",
                                                 !.id = id]
      BY <1>3, Zenon DEF Rechecks
    <2>2. recheck'.active <=> remote[f] = "active"
      BY <2>1 DEF NoRecheck
    <2>3. recheck'.finding = f /\ recheck'.base = Absent /\ UNCHANGED remote
      BY <1>3, <2>1 DEF Rechecks, NoRecheck
    <2> QED BY <2>2, <2>3 DEF RecheckInformed
  <1>4. CASE RecheckSaves
    BY <1>4 DEF RecheckSaves, NoRecheck, RecheckInformed
  <1>5. CASE UNCHANGED vars
    BY <1>1, <1>5 DEF vars
  <1>6. ASSUME NEW p \in Pulls, Starts(p) \/ Fetches(p) \/ Filters(p) \/ Loads(p)
                                \/ Finishes(p) \/ Fails(p)
        PROVE  RecheckInformed'
    BY <1>1, <1>6 DEF Starts, Fetches, Filters, Loads, Finishes, Fails
  <1>7. ASSUME NEW p \in Pulls, Saves(p) PROVE RecheckInformed'
    <2>1. /\ recheck'.finding = recheck.finding /\ recheck'.active = recheck.active
          /\ recheck'.base = recheck.base /\ UNCHANGED <<storage, remote>>
          /\ recheck'.overtaken <=> recheck.overtaken \/ recheck.base # Absent
      BY <1>7 DEF Saves, TypeOK, Rechecking
    <2> QED BY <2>1 DEF RecheckInformed
  <1>8. ASSUME NEW p \in Pulls, Marks(p) PROVE RecheckInformed'
    BY <1>8 DEF Marks, Kinds, RecheckInformed
  <1>9. CASE RecheckLoads
    <2>1. /\ recheck'.finding = recheck.finding /\ recheck'.active = recheck.active
          /\ recheck'.overtaken = recheck.overtaken /\ recheck'.base = stored
          /\ UNCHANGED <<storage, remote, stored>> /\ storage = "json"
      BY <1>9 DEF RecheckLoads, TypeOK, Rechecking
    <2> QED BY <2>1 DEF RecheckInformed
  <1> QED BY <1>2, <1>3, <1>4, <1>5, <1>6, <1>7, <1>8, <1>9 DEF Next, RemoteChanges, Switches

-----------------------------------------------------------------------------
(* Generations. *)

LEMMA EarnedKept ==
    ASSUME TypeOK, Kinds, PullsInformed, RecheckInformed, GenerationsEarned, [Next]_vars
    PROVE  GenerationsEarned'
  <1> USE DEF source, bounds
  <1>1. \A f \in Findings : /\ stored[f] \in Rows \cup {Absent} /\ earned[f] \in Nat
                            /\ stored[f] # Absent => stored[f].generation \in Nat
    BY DEF TypeOK, Stores, Rows
  <1>2. ASSUME UNCHANGED <<source, stored, touched>> PROVE GenerationsEarned'
    BY <1>2 DEF GenerationsEarned, Earned
  <1>3. ASSUME NEW g \in Findings, RemoteChanges(g) PROVE GenerationsEarned'
    <2> SUFFICES ASSUME NEW f \in Findings, f \notin touched, stored[f] # Absent
                 PROVE  Earned(f)'
      BY <1>3 DEF RemoteChanges, GenerationsEarned, Earned
    <2>1. Earned(f) /\ stored' = stored /\ enabled' = enabled
      BY <1>3 DEF RemoteChanges, GenerationsEarned
    <2>2. PICK status \in Statuses \ {remote[g]} :
            /\ remote' = [remote EXCEPT ![g] = status]
            /\ Earns(IF status = "active" /\ remote[g] = "inactive" THEN {g} ELSE {})
      BY <1>3 DEF RemoteChanges
    <2>3. remote[g] \in {"active", "inactive"}
      BY <1>3 DEF RemoteChanges, TypeOK, Statuses
    <2>4. CASE status = "active" /\ f = g
      <3>1. earned'[f] = earned[f] + 1
        BY <2>2, <2>3, <2>4 DEF Earns
      <3> QED BY <1>1, <2>1, <3>1 DEF Earned
    <2>5. CASE ~(status = "active" /\ f = g)
      <3>1. earned'[f] = earned[f]
        BY <1>1, <2>2, <2>5 DEF Earns
      <3>2. remote'[f] = "active" => remote[f] = "active"
        BY <2>2, <2>5 DEF TypeOK
      <3> QED BY <2>1, <3>1, <3>2 DEF Earned
    <2> QED BY <2>4, <2>5
  <1>4. ASSUME NEW e \in Engagements, Switches(e) PROVE GenerationsEarned'
    <2> SUFFICES ASSUME NEW f \in Findings, f \notin touched, stored[f] # Absent
                 PROVE  Earned(f)'
      BY <1>4 DEF Switches, GenerationsEarned, Earned
    <2>1. Earned(f) /\ stored' = stored /\ remote' = remote
      BY <1>4 DEF Switches, GenerationsEarned
    <2>2. CASE e \notin enabled /\ Home[f] = e
      <3>1. earned'[f] = earned[f] + 1
        BY <1>4, <2>2 DEF Switches, Earns
      <3> QED BY <1>1, <2>1, <3>1 DEF Earned
    <2>3. CASE ~(e \notin enabled /\ Home[f] = e)
      <3>1. earned'[f] = earned[f]
        BY <1>1, <1>4, <2>3 DEF Switches, Earns
      <3>2. Home[f] \in enabled' => Home[f] \in enabled
        BY <1>4, <2>3 DEF Switches
      <3> QED BY <2>1, <3>1, <3>2 DEF Earned
    <2> QED BY <2>2, <2>3
  <1>5. ASSUME NEW f \in Findings, NEW id \in Nat, Earned(f), UNCHANGED source,
               remote[f] = "active" => Home[f] \in enabled,
               stored'[f] = Upserted(stored[f], remote[f] = "active", id)
        PROVE  Earned(f)'
    <2> DEFINE new == Upserted(stored[f], remote[f] = "active", id)
    <2>1. /\ new \in Rows /\ (new.active <=> remote[f] = "active")
          /\ stored[f] = Absent => new.generation <= 1
          /\ stored[f] # Absent /\ (stored[f].active \/ remote[f] # "active") =>
                    new.generation = stored[f].generation \/ new.generation <= 1
          /\ stored[f] # Absent => new.generation <= stored[f].generation + 1
      BY <1>1, AnswerStored
    <2>2. new.generation \in Nat
      BY <2>1 DEF Rows
    <2>3. new.generation <= 1 + earned[f]
      <3> HIDE DEF new
      <3> QED BY <1>1, <1>5, <2>1, <2>2 DEF Earned
    <2> QED BY <1>5, <2>1, <2>3 DEF Earned
  <1>6. ASSUME NEW p \in Pulls, Saves(p) PROVE GenerationsEarned'
    <2>1. UNCHANGED source
      BY <1>6 DEF Saves
    <2>2. CASE pull[p].overtaken
      <3>1. \A f \in Findings : f \in touched' \/ (f \notin touched /\ stored'[f] = stored[f])
        BY <1>6, <2>2 DEF Saves
      <3> QED BY <2>1, <3>1 DEF GenerationsEarned, Earned
    <2>3. CASE ~pull[p].overtaken
      <3>1. Informed(p) /\ touched' = touched /\ pull[p].id \in Nat
        BY <1>6, <2>3 DEF Saves, PullsInformed, TypeOK, Pulling
      <3> SUFFICES ASSUME NEW f \in Findings, f \notin touched PROVE Earned(f)'
        BY <3>1 DEF GenerationsEarned
      <3>2. Earned(f)
        BY DEF GenerationsEarned
      <3>3. CASE f \in LetIn(p)
        <4>1. Home[f] \in enabled
          BY <3>3 DEF LetIn
        <4>2. stored'[f] = Upserted(stored[f], remote[f] = "active", pull[p].id)
          BY <1>6, <3>1, <3>3, SaveFacts
        <4> QED BY <1>5, <2>1, <3>1, <3>2, <4>1, <4>2
      <3>4. CASE f \notin LetIn(p)
        <4>1. stored'[f] = stored[f]
          BY <1>6, <3>1, <3>4, SaveFacts
        <4> QED BY <2>1, <3>2, <4>1 DEF Earned
      <3> QED BY <3>3, <3>4
    <2> QED BY <2>2, <2>3
  <1>7. ASSUME NEW p \in Pulls, Marks(p) PROVE GenerationsEarned'
    <2>1. UNCHANGED source
      BY <1>7 DEF Marks
    <2>2. \A f \in Findings : stored'[f] =
            IF Unseen(p, f) THEN [stored[f] EXCEPT !.active = FALSE] ELSE stored[f]
      BY <1>7 DEF Marks
    <2>3. CASE pull[p].overtaken
      <3>1. \A f \in Findings : f \in touched' \/ (f \notin touched /\ stored'[f] = stored[f])
        BY <1>7, <2>2, <2>3 DEF Marks
      <3> QED BY <2>1, <3>1 DEF GenerationsEarned, Earned
    <2>4. CASE ~pull[p].overtaken
      <3>1. Informed(p) /\ touched' = touched /\ pull[p].filter = "active"
        BY <1>7, <2>4 DEF Marks, PullsInformed, Kinds
      <3> SUFFICES ASSUME NEW f \in Findings, f \notin touched PROVE Earned(f)'
        BY <3>1 DEF GenerationsEarned
      <3>2. Earned(f)
        BY DEF GenerationsEarned
      <3>3. CASE ~Unseen(p, f) \/ f \in LetIn(p)
        <4>1. stored'[f] = stored[f]
          BY <1>7, <2>2, <3>1, <3>3, MarkInforms
        <4> QED BY <2>1, <3>2, <4>1 DEF Earned
      <3>4. CASE Unseen(p, f) /\ f \notin LetIn(p)
        <4>1. stored[f] \in Rows /\ Home[f] \in pull[p].scope
          BY <1>1, <3>4 DEF Unseen, Active
        <4>2. stored'[f].generation = stored[f].generation
          BY <2>2, <3>4, <4>1 DEF Rows
        <4>3. ~(remote[f] = "active" /\ Home[f] \in enabled)
          BY <3>1, <3>4, <4>1 DEF LetIn, Listed
        <4>4. stored[f] # Absent
          BY <3>4 DEF Unseen, Active
        <4> QED BY <2>1, <3>2, <4>2, <4>3, <4>4 DEF Earned
      <3> QED BY <3>3, <3>4
    <2> QED BY <2>3, <2>4
  <1>8. CASE RecheckSaves
    <2> DEFINE h == recheck.finding
               got == {<<h, recheck.active>>}
    <2>1. UNCHANGED source /\ recheck.id \in Nat
      BY <1>8 DEF RecheckSaves, TypeOK, Rechecking
    <2> SUFFICES ASSUME NEW f \in Findings, f \notin touched' PROVE Earned(f)'
      BY DEF GenerationsEarned
    <2>2. f \notin touched /\ Earned(f)
      BY <1>8 DEF RecheckSaves, GenerationsEarned
    <2>0. CASE stored'[f] = stored[f]
      BY <2>0, <2>1, <2>2 DEF Earned
    <2> SUFFICES ASSUME stored'[f] # stored[f] PROVE Earned(f)'
      BY <2>0
    <2>5. ~recheck.overtaken /\ Home[h] \in enabled /\ h # Absent
      BY <1>8 DEF RecheckSaves
    <2>6. stored' = Merged(stored, got, recheck.id)
      BY <1>8, <2>5 DEF RecheckSaves, RecheckInformed
    <2>3. CASE f # h
      <3>1. ~\E g \in got : g[1] = f
        BY <2>3
      <3> HIDE DEF got
      <3>2. stored'[f] = stored[f]
        BY <2>6, <3>1 DEF Merged
      <3> QED BY <3>2
    <2>4. CASE f = h
      <3>1. ~recheck.overtaken /\ Home[f] \in enabled /\ h # Absent
        BY <2>4, <2>5
      <3>2. recheck.active <=> remote[f] = "active"
        BY <2>4, <3>1 DEF RecheckInformed
      <3>3. got = Answers({f})
        <4>1. recheck.active \in BOOLEAN
          BY DEF TypeOK, Rechecking
        <4>2. PICK b \in BOOLEAN : b <=> remote[f] = "active"
          OBVIOUS
        <4>3. recheck.active = b
          BY <3>2, <4>1, <4>2
        <4>4. (remote[f] = "active") = b
          BY <4>2
        <4>5. got = {<<f, b>>}
          BY <2>4, <4>3
        <4>6. Answer(f) = <<f, b>>
          BY <4>4 DEF Answer
        <4> QED BY <4>5, <4>6 DEF Answers
      <3>4. stored'[f] = Upserted(stored[f], remote[f] = "active", recheck.id)
        <4> HIDE DEF got
        <4>1. stored' = Merged(stored, Answers({f}), recheck.id)
          BY <2>6, <3>3
        <4>2. {f} \in SUBSET Findings /\ f \in {f}
          OBVIOUS
        <4>3. Merged(stored, Answers({f}), recheck.id)[f] =
                IF f \in {f} THEN Upserted(stored[f], remote[f] = "active", recheck.id)
                ELSE stored[f]
          BY ONLY <4>2, MergedAnswers, f \in Findings
        <4> QED BY <4>1, <4>3
      <3> QED BY <1>5, <2>1, <2>2, <3>1, <3>4
    <2> QED BY <2>3, <2>4
  <1>9. ASSUME NEW p \in Pulls, Starts(p) \/ Fetches(p) \/ Filters(p) \/ Loads(p)
                                \/ Finishes(p) \/ Fails(p)
        PROVE  GenerationsEarned'
    BY <1>2, <1>9 DEF Starts, Fetches, Filters, Loads, Finishes, Fails
  <1>10. ASSUME NEW f \in Findings, Rechecks(f) PROVE GenerationsEarned'
    BY <1>2, <1>10 DEF Rechecks
  <1>11. CASE UNCHANGED vars
    BY <1>2, <1>11 DEF vars
  <1>12. CASE RecheckLoads
    BY <1>2, <1>12 DEF RecheckLoads
  <1> QED BY <1>3, <1>4, <1>6, <1>7, <1>8, <1>9, <1>10, <1>11, <1>12 DEF Next

-----------------------------------------------------------------------------

\* The inductive invariant of the pulls.
THEOREM PullsInvariant == Spec => []IInv
  <1>1. IInv /\ [Next]_vars => IInv'
    BY TypesKept, FreshKept, InformedKept, RecheckKept, EarnedKept DEF IInv
  <1> QED BY InitFacts, <1>1, PTL DEF Spec

\* Type correctness of findings, pulls and rechecks.
THEOREM PullsTyped == Spec => []TypeOK
  <1>1. IInv => TypeOK
    BY DEF IInv
  <1> QED BY PullsInvariant, <1>1, PTL

\* A pull that nothing overtook leaves the store as DefectDojo is (runDefectDojoPull), for any
\* number of findings, pages and other pulls.
THEOREM PullsAreMirrors == Spec => []PullsMirror
  <1>1. IInv => PullsMirror
    BY DEF IInv, PullsInformed, Informed, LetIn, Mirrored, PullsMirror
  <1> QED BY PullsInvariant, <1>1, PTL

\* A generation is earned by a reactivation (upsertFindingsForSync), unless the row was written
\* by a pull or recheck that was overtaken.
THEOREM PullsEarnGenerations == Spec => []GenerationsAreEarned
  <1>1. IInv => GenerationsAreEarned
    BY DEF IInv, GenerationsEarned, Earned, GenerationsAreEarned
  <1> QED BY PullsInvariant, <1>1, PTL

\* No step in PostgreSQL takes a generation back.
THEOREM GenerationsNeverShrink == Spec => GenerationsGrow
  <1> DEFINE Grow == \A f \in Findings : storage = "postgresql" /\ stored[f] # Absent =>
                        stored'[f] # Absent /\ stored'[f].generation >= stored[f].generation
  <1>1. ASSUME IInv, [Next]_vars PROVE Grow
    <2>1. TypeOK /\ Kinds /\ stored \in Stores
          /\ \A f \in Findings : stored[f] # Absent => stored[f] \in Rows
      BY <1>1 DEF IInv, TypeOK, Stores
    <2>2. CASE stored' = stored
      BY <2>1, <2>2 DEF Rows
    <2>3. ASSUME NEW got \in SUBSET (Findings \X BOOLEAN), NEW id \in Nat,
                 stored' = Merged(stored, got, id)
          PROVE  Grow
      BY <2>1, <2>3, MergedFacts
    <2>4. ASSUME NEW p \in Pulls, Saves(p) PROVE Grow
      <3>1. pull[p].got \in SUBSET (Findings \X BOOLEAN) /\ pull[p].id \in Nat
        BY <2>1 DEF TypeOK, Pulling
      <3>2. storage = "postgresql" => stored' = Merged(stored, pull[p].got, pull[p].id)
        BY <2>4 DEF Saves
      <3> QED BY <2>3, <3>1, <3>2
    <2>5. ASSUME NEW p \in Pulls, Marks(p) PROVE Grow
      <3>1. \A f \in Findings : stored'[f] =
                IF Unseen(p, f) THEN [stored[f] EXCEPT !.active = FALSE] ELSE stored[f]
        BY <2>5 DEF Marks
      <3> SUFFICES ASSUME NEW f \in Findings, stored[f] # Absent
                   PROVE  stored'[f] # Absent /\ stored'[f].generation >= stored[f].generation
        OBVIOUS
      <3>2. stored[f] \in Rows /\ stored[f].generation \in Nat
        BY <2>1 DEF Rows
      <3>3. CASE Unseen(p, f)
        <4>1. stored'[f] = [stored[f] EXCEPT !.active = FALSE]
          BY <3>1, <3>3
        <4>2. [stored[f] EXCEPT !.active = FALSE] \in Rows
          BY <3>2 DEF Rows
        <4>3. stored'[f] # Absent
          BY <4>1, <4>2, PullAssumption DEF Rows
        <4>4. stored'[f].generation = stored[f].generation
          BY <3>2, <4>1 DEF Rows
        <4> QED BY <3>2, <4>3, <4>4
      <3>4. CASE ~Unseen(p, f)
        <4>1. stored'[f] = stored[f]
          BY <3>1, <3>4
        <4> QED BY <3>2, <4>1
      <3> QED BY <3>3, <3>4
    <2>6. CASE RecheckSaves
      <3> SUFFICES ASSUME storage = "postgresql" PROVE Grow
        OBVIOUS
      <3>1. PICK rows \in Stores, got \in SUBSET (Findings \X BOOLEAN), id \in Nat :
                rows = stored /\ stored' = Merged(rows, got, id)
        BY <2>1, <2>6, RecheckRows
      <3> QED BY <2>3, <3>1
    <2> QED BY <1>1, <2>2, <2>4, <2>5, <2>6
            DEF Next, vars, RemoteChanges, Switches, Starts, Fetches, Filters, Loads, Finishes,
                Fails, Rechecks, RecheckLoads
  <1> QED BY PullsInvariant, <1>1, PTL DEF Spec, GenerationsGrow

=============================================================================
