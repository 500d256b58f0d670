------------------------- MODULE EmailOutbox_proofs -------------------------
(***************************************************************************)
(* For any number of deliveries and workers, any bound on the attempts and *)
(* any interleaving of requests, workers, crashes and expiring leases: a   *)
(* settled delivery has lost its secret, and 'sent' means that SMTP took   *)
(* the mail.                                                               *)
(*                                                                         *)
(* SentMeansMailed is not inductive: a worker writes 'sent' long after     *)
(* SMTP answered it.  What it carries between the two is the strengthening:*)
(* a busy worker has a delivery in hand (InHand), and a verdict 'sent' is  *)
(* about a mail that was accepted with the secret the worker holds, which  *)
(* for setup mail is not empty (VerdictsTrue).                             *)
(***************************************************************************)
EXTENDS EmailOutbox, TLAPS

InHand ==
    \A w \in Workers : task[w].stage \notin {"idle", "down"} => task[w].job \in Jobs

VerdictsTrue ==
    \A w \in Workers : task[w].verdict = "sent" =>
        /\ task[w].job \in Jobs
        /\ <<task[w].job, task[w].secret>> \in mails
        /\ TypeOf[task[w].job] = "mfa_setup" => task[w].secret

IInv == TypeOK /\ InHand /\ VerdictsTrue /\ SecretsScrubbed /\ SentMeansMailed

-----------------------------------------------------------------------------
(* The statements of the store. *)

LEMMA CancelFacts ==
    ASSUME NEW jobs, outbox \in [Jobs -> Rows], SecretsScrubbed, Cancel(jobs)
    PROVE  /\ outbox' \in [Jobs -> Rows]
           /\ SecretsScrubbed'
           /\ \A j \in Jobs : outbox'[j].status = "sent" => outbox[j].status = "sent"
  BY DEF Cancel, Rows, Statuses, SecretsScrubbed, Settled

LEMMA RecoveredFacts ==
    ASSUME outbox \in [Jobs -> Rows], SecretsScrubbed
    PROVE  /\ Recovered \in [Jobs -> Rows]
           /\ \A j \in Jobs : Recovered[j].status \in Settled => ~Recovered[j].secret
           /\ \A j \in Jobs : Recovered[j].status = "sent" => outbox[j].status = "sent"
  BY DEF Recovered, Rows, Statuses, SecretsScrubbed, Settled

LEMMA NoteFacts ==
    ASSUME TypeOK, NEW j, NEW new \in {"queued", "sending", "sent", "failed"},
           Note(j, new)
    PROVE  /\ notification' \in {"none", "queued", "sending", "sent", "failed"}
           /\ notification' = "sent" =>
                \/ notification = "sent"
                \/ new = "sent" /\ generation = j /\ TypeOf[j] = "mfa_setup"
  BY DEF Note, TypeOK

\* What 'sent' says survives a step that only adds mails, and writes 'sent'
\* only where a mail was accepted.
LEMMA SentFrame ==
    ASSUME SentMeansMailed, mails \subseteq mails',
           \A j \in Jobs : outbox'[j].status = "sent" =>
                outbox[j].status = "sent" \/ \E s \in BOOLEAN : <<j, s>> \in mails',
           generation' # Nothing /\ notification' = "sent" =>
                \/ generation' = generation /\ notification = "sent"
                \/ <<generation', TRUE>> \in mails'
    PROVE  SentMeansMailed'
  BY DEF SentMeansMailed

LEMMA OutcomeFacts ==
    ASSUME NEW w
    PROVE  /\ Outcome(w) \in {"sent", "failed", "queued"}
           /\ Outcome(w) = "sent" <=> task[w].verdict = "sent"
  BY DEF Outcome

-----------------------------------------------------------------------------
(* Writing one row. *)

\* The row of j is written over the table t, the other rows of t stay.
Writes(t, j, row) ==
    /\ outbox' \in [Jobs -> Rows]
    /\ outbox'[j] = row
    /\ \A k \in Jobs \ {j} : outbox'[k] = t[k]

LEMMA WriteFacts ==
    ASSUME NEW t \in [Jobs -> Rows], NEW j \in Jobs, NEW row \in Rows,
           outbox' = [t EXCEPT ![j] = row]
    PROVE  Writes(t, j, row)
  BY DEF Writes

LEMMA InsertFacts ==
    ASSUME TypeOK, NEW j \in Jobs, RequestInserts(j)
    PROVE  /\ Writes(outbox, j, outbox'[j])
           /\ outbox'[j].status = "queued"
  <1> DEFINE row == [outbox[j] EXCEPT !.status = "queued", !.secret = TRUE]
  <1>1. row \in Rows /\ row.status = "queued"
    BY DEF TypeOK, Rows, Statuses
  <1>2. outbox' = [outbox EXCEPT ![j] = row]
    BY DEF RequestInserts
  <1> HIDE DEF row
  <1> QED BY <1>1, <1>2, WriteFacts DEF TypeOK, Writes

LEMMA LeaseFacts ==
    ASSUME TypeOK, NEW j \in Jobs, LeaseExpires(j)
    PROVE  /\ Writes(outbox, j, outbox'[j])
           /\ outbox'[j].status = outbox[j].status
           /\ outbox'[j].secret = outbox[j].secret
  <1> DEFINE row == [outbox[j] EXCEPT !.lease = "expired"]
  <1>1. row \in Rows /\ row.status = outbox[j].status /\ row.secret = outbox[j].secret
    BY DEF TypeOK, Rows, Statuses
  <1>2. outbox' = [outbox EXCEPT ![j] = row]
    BY DEF LeaseExpires
  <1> HIDE DEF row
  <1> QED BY <1>1, <1>2, WriteFacts DEF TypeOK, Writes

LEMMA DueFacts ==
    ASSUME TypeOK, NEW j \in Jobs, Due(j)
    PROVE  /\ Writes(outbox, j, outbox'[j])
           /\ outbox'[j].status = outbox[j].status
           /\ outbox'[j].secret = outbox[j].secret
  <1> DEFINE row == [outbox[j] EXCEPT !.waiting = FALSE]
  <1>1. row \in Rows /\ row.status = outbox[j].status /\ row.secret = outbox[j].secret
    BY DEF TypeOK, Rows, Statuses
  <1>2. outbox' = [outbox EXCEPT ![j] = row]
    BY DEF Due
  <1> HIDE DEF row
  <1> QED BY <1>1, <1>2, WriteFacts DEF TypeOK, Writes

LEMMA ClaimFacts ==
    ASSUME TypeOK, SecretsScrubbed, NEW w \in Workers, WorkerClaims(w)
    PROVE  /\ \E j \in Jobs :
                /\ Writes(Recovered, j, outbox'[j])
                /\ outbox'[j].status = "sending"
                /\ task'[w].job = j
           /\ task' \in [Workers -> Tasks]
           /\ task'[w].verdict = "none"
           /\ \A v \in Workers \ {w} : task'[v] = task[v]
  <1> DEFINE tried(j) == IF outbox[j].attempts < MaxAttempts
                         THEN outbox[j].attempts + 1 ELSE MaxAttempts
             row(j) == [Recovered[j] EXCEPT !.status = "sending",
                            !.attempts = tried(j), !.lease = "held"]
             claim(j) == [stage |-> "claimed", job |-> j, secret |-> outbox[j].secret,
                          last |-> tried(j) = MaxAttempts, verdict |-> "none"]
  <1>1. PICK j \in Jobs : /\ outbox' = [Recovered EXCEPT ![j] = row(j)]
                          /\ task' = [task EXCEPT ![w] = claim(j)]
    BY DEF WorkerClaims, Oldest
  <1>2. outbox[j] \in Rows /\ Recovered \in [Jobs -> Rows]
    BY RecoveredFacts DEF TypeOK
  <1>3. tried(j) \in 0 .. MaxAttempts
    BY <1>2, OutboxAssumption DEF Rows
  <1>4. row(j) \in Rows /\ row(j).status = "sending"
    BY <1>2, <1>3 DEF Rows, Statuses
  <1>5. claim(j) \in Tasks
    BY <1>2 DEF Tasks, Rows
  <1>6. Writes(Recovered, j, row(j))
    <2> HIDE DEF row
    <2> QED BY <1>1, <1>2, <1>4, WriteFacts
  <1>7. claim(j).job = j /\ claim(j).verdict = "none"
    OBVIOUS
  <1>8. task' \in [Workers -> Tasks] /\ task'[w] = claim(j)
        /\ \A v \in Workers \ {w} : task'[v] = task[v]
    <2> HIDE DEF claim
    <2> QED BY <1>1, <1>5 DEF TypeOK
  <1> HIDE DEF row, claim
  <1> QED BY <1>4, <1>6, <1>7, <1>8 DEF Writes

LEMMA FinishFacts ==
    ASSUME TypeOK, NEW w \in Workers, task[w].job \in Jobs, WorkerFinishes(w)
    PROVE  /\ Writes(outbox, task[w].job, outbox'[task[w].job])
           /\ outbox'[task[w].job].status = Outcome(w)
           /\ outbox'[task[w].job].secret => Outcome(w) = "queued"
  <1> DEFINE j == task[w].job
             row == [outbox[j] EXCEPT !.status = Outcome(w),
                        !.waiting = (Outcome(w) = "queued"), !.lease = "none",
                        !.secret = (outbox[j].secret /\ Outcome(w) = "queued")]
  <1>1. outbox' = [outbox EXCEPT ![j] = row]
    BY DEF WorkerFinishes
  <1>2. outbox[j] \in Rows
    BY DEF TypeOK
  <1>3. row \in Rows /\ row.status = Outcome(w) /\ (row.secret => Outcome(w) = "queued")
    BY <1>2, OutcomeFacts DEF Rows, Statuses
  <1> HIDE DEF row
  <1> QED BY <1>1, <1>3, WriteFacts DEF TypeOK, Writes

-----------------------------------------------------------------------------
(* What a worker does with the delivery it holds. *)

\* The worker keeps its delivery and goes on with a verdict.
Proceeds(w, stage, verdict) ==
    /\ task' \in [Workers -> Tasks]
    /\ task'[w].stage = stage /\ task'[w].verdict = verdict
    /\ task'[w].job = task[w].job /\ task'[w].secret = task[w].secret
    /\ \A v \in Workers \ {w} : task'[v] = task[v]

\* The worker has nothing in hand any more.
Rests(w) ==
    /\ task' \in [Workers -> Tasks]
    /\ task'[w].stage \in {"idle", "down"} /\ task'[w].verdict = "none"
    /\ \A v \in Workers \ {w} : task'[v] = task[v]

LEMMA GoesFacts ==
    ASSUME TypeOK, NEW w \in Workers,
           NEW stage \in {"checking", "cancelled", "sending", "reporting"},
           Goes(w, stage)
    PROVE  Proceeds(w, stage, task[w].verdict)
  BY DEF TypeOK, Goes, Proceeds, Tasks

LEMMA ConcludesFacts ==
    ASSUME TypeOK, NEW w \in Workers, NEW verdict \in {"sent", "transient", "permanent"},
           Concludes(w, verdict)
    PROVE  Proceeds(w, "finishing", verdict)
  BY DEF TypeOK, Concludes, Proceeds, Tasks

LEMMA RestsFacts ==
    ASSUME TypeOK, NEW w \in Workers,
           \/ task' = [task EXCEPT ![w] = Idle]
           \/ task' = [task EXCEPT ![w] = [Idle EXCEPT !.stage = "down"]]
    PROVE  Rests(w)
  <1> DEFINE down == [Idle EXCEPT !.stage = "down"]
  <1>1. /\ Idle \in Tasks /\ Idle.stage = "idle" /\ Idle.verdict = "none"
        /\ down \in Tasks /\ down.stage = "down" /\ down.verdict = "none"
    BY DEF Idle, Tasks
  <1> HIDE DEF down
  <1> QED BY <1>1 DEF TypeOK, Rests, down

LEMMA RestsFrame ==
    ASSUME InHand, VerdictsTrue, NEW w \in Workers, Rests(w), mails \subseteq mails'
    PROVE  InHand' /\ VerdictsTrue'
  BY DEF InHand, VerdictsTrue, Rests

LEMMA ProceedsFrame ==
    ASSUME InHand, VerdictsTrue, NEW w \in Workers, NEW stage, NEW verdict,
           Proceeds(w, stage, verdict), mails \subseteq mails', task[w].job \in Jobs,
           verdict = "sent" =>
                \/ task[w].verdict = "sent"
                \/ /\ <<task[w].job, task[w].secret>> \in mails'
                   /\ TypeOf[task[w].job] = "mfa_setup" => task[w].secret
    PROVE  InHand' /\ VerdictsTrue'
  BY DEF InHand, VerdictsTrue, Proceeds

LEMMA OthersFrame ==
    ASSUME InHand, VerdictsTrue, UNCHANGED <<task, mails>>
    PROVE  InHand' /\ VerdictsTrue'
  BY DEF InHand, VerdictsTrue

LEMMA WritesFrame ==
    ASSUME NEW t, NEW j \in Jobs, Writes(t, j, outbox'[j]),
           \A k \in Jobs : t[k].status \in Settled => ~t[k].secret,
           \A k \in Jobs : t[k].status = "sent" => outbox[k].status = "sent",
           outbox'[j].status \in Settled => ~outbox'[j].secret
    PROVE  /\ SecretsScrubbed'
           /\ \A k \in Jobs : outbox'[k].status = "sent" =>
                outbox[k].status = "sent" \/ k = j
  BY DEF Writes, SecretsScrubbed

-----------------------------------------------------------------------------
(* Requests, settings and the end of an enrollment: no worker moves. *)

LEMMA RequestStep ==
    ASSUME IInv, NEW j \in Jobs,
           RequestStarts(j) \/ Request(j) \/ RequestFails(j)
    PROVE  IInv'
  <1> USE DEF Asks, user, controls
  <1>1. InHand' /\ VerdictsTrue'
    BY OthersFrame DEF IInv, RequestStarts, Request, RequestFails, RequestCancels,
       RequestInvalidates, RequestSetsPolicy, RequestSearches, RequestInserts, RequestNotes
  <1>2. CASE \/ RequestStarts(j) \/ RequestInvalidates(j) \/ RequestSetsPolicy(j)
             \/ RequestSearches(j) \/ RequestNotes(j) \/ RequestFails(j)
    <2>1. SecretsScrubbed'
      BY <1>2 DEF IInv, SecretsScrubbed, RequestStarts, RequestInvalidates,
         RequestSetsPolicy, RequestSearches, RequestNotes, RequestFails
    <2>2. notification' \in {"none", "queued", "sending", "sent", "failed"}
          /\ (generation' # Nothing /\ notification' = "sent" =>
                generation' = generation /\ notification = "sent")
      BY <1>2, NoteFacts DEF IInv, TypeOK, RequestStarts, RequestInvalidates,
         RequestSetsPolicy, RequestSearches, RequestNotes, RequestFails
    <2>3. SentMeansMailed'
      BY <1>2, <2>2, SentFrame DEF IInv, RequestStarts, RequestInvalidates,
         RequestSetsPolicy, RequestSearches, RequestNotes, RequestFails
    <2>4. TypeOK'
      BY <1>2, <2>2 DEF IInv, TypeOK, RequestStarts, RequestInvalidates,
         RequestSetsPolicy, RequestSearches, RequestNotes, RequestFails
    <2> QED BY <1>1, <2>1, <2>3, <2>4 DEF IInv
  <1>3. CASE RequestCancels(j)
    <2>1. /\ outbox' \in [Jobs -> Rows] /\ SecretsScrubbed'
          /\ \A k \in Jobs : outbox'[k].status = "sent" => outbox[k].status = "sent"
      BY <1>3, CancelFacts DEF IInv, TypeOK, RequestCancels
    <2>2. SentMeansMailed'
      BY <1>3, <2>1, SentFrame DEF IInv, RequestCancels
    <2>3. TypeOK'
      BY <1>3, <2>1 DEF IInv, TypeOK, RequestCancels
    <2> QED BY <1>1, <2>1, <2>2, <2>3 DEF IInv
  <1>4. CASE RequestInserts(j)
    <2>1. Writes(outbox, j, outbox'[j]) /\ outbox'[j].status = "queued"
      BY <1>4, InsertFacts DEF IInv
    <2>2. /\ SecretsScrubbed'
          /\ \A k \in Jobs : outbox'[k].status = "sent" => outbox[k].status = "sent"
      BY <2>1, WritesFrame DEF IInv, SecretsScrubbed, Settled
    <2>3. SentMeansMailed'
      BY <1>4, <2>2, SentFrame DEF IInv, RequestInserts
    <2>4. TypeOK'
      BY <1>4, <2>1 DEF IInv, TypeOK, RequestInserts, Writes
    <2> QED BY <1>1, <2>2, <2>3, <2>4 DEF IInv
  <1> QED BY <1>2, <1>3, <1>4 DEF Request

LEMMA EnrollmentStep ==
    ASSUME IInv, EnrollmentCompletes \/ EnrollmentInvalidated \/ EnrollmentCleanup
    PROVE  IInv'
  <1>1. InHand' /\ VerdictsTrue'
    BY OthersFrame DEF IInv, EnrollmentCompletes, EnrollmentInvalidated, EnrollmentCleanup
  <1>2. /\ outbox' \in [Jobs -> Rows] /\ SecretsScrubbed'
        /\ \A k \in Jobs : outbox'[k].status = "sent" => outbox[k].status = "sent"
    <2>1. CASE UNCHANGED outbox
      BY <2>1 DEF IInv, TypeOK, SecretsScrubbed
    <2>2. CASE Cancel(ActiveOf("mfa_setup"))
      BY <2>2, CancelFacts DEF IInv, TypeOK
    <2> QED BY <2>1, <2>2 DEF EnrollmentCompletes, EnrollmentInvalidated, EnrollmentCleanup
  <1>3. SentMeansMailed'
    BY <1>2, SentFrame DEF IInv, EnrollmentCompletes, EnrollmentInvalidated,
       EnrollmentCleanup
  <1>4. TypeOK'
    BY <1>2 DEF IInv, TypeOK, EnrollmentCompletes, EnrollmentInvalidated, EnrollmentCleanup
  <1> QED BY <1>1, <1>2, <1>3, <1>4 DEF IInv

LEMMA AdminStep ==
    ASSUME IInv, NEW j \in Jobs, NEW t \in Types,
           \/ AdminCancels(j) \/ NoteCancelled(j) \/ RevokeInvitation(j)
           \/ SwitchOn(t) \/ SwitchOff(t) \/ CancelQueued(t)
    PROVE  IInv'
  <1> USE DEF user
  <1>1. InHand' /\ VerdictsTrue'
    BY OthersFrame DEF IInv, AdminCancels, NoteCancelled, RevokeInvitation, SwitchOn,
       SwitchOff, CancelQueued
  <1>2. /\ outbox' \in [Jobs -> Rows] /\ SecretsScrubbed'
        /\ \A k \in Jobs : outbox'[k].status = "sent" => outbox[k].status = "sent"
    <2>1. CASE UNCHANGED outbox
      BY <2>1 DEF IInv, TypeOK, SecretsScrubbed
    <2>2. CASE Cancel({j}) \/ Cancel(QueuedOf(t))
      BY <2>2, CancelFacts DEF IInv, TypeOK
    <2> QED BY <2>1, <2>2 DEF AdminCancels, NoteCancelled, RevokeInvitation, SwitchOn,
               SwitchOff, CancelQueued
  <1>3. /\ notification' \in {"none", "queued", "sending", "sent", "failed"}
        /\ notification' = "sent" => notification = "sent"
    <2>1. CASE NoteCancelled(j)
      BY <2>1, NoteFacts DEF IInv, NoteCancelled
    <2>2. CASE UNCHANGED notification
      BY <2>2 DEF IInv, TypeOK
    <2> QED BY <2>1, <2>2 DEF AdminCancels, RevokeInvitation, SwitchOn, SwitchOff,
               CancelQueued
  <1>4. SentMeansMailed'
    BY <1>2, <1>3, SentFrame DEF IInv, AdminCancels, NoteCancelled, RevokeInvitation,
       SwitchOn, SwitchOff, CancelQueued
  <1>5. TypeOK'
    <2>1. followups' \subseteq {"note", "revoke"} \X Jobs
      <3>1. followups \subseteq {"note", "revoke"} \X Jobs
        BY DEF IInv, TypeOK
      <3>2. CASE \E jobs : FollowUp(jobs)
        BY <3>1, <3>2 DEF FollowUp, OfType
      <3>3. CASE NoteCancelled(j)
        BY <3>1, <3>3 DEF NoteCancelled
      <3>4. CASE followups' \subseteq followups
        BY <3>1, <3>4
      <3> QED BY <3>2, <3>3, <3>4 DEF AdminCancels, RevokeInvitation, SwitchOn,
                 SwitchOff, CancelQueued
    <2> QED BY <1>2, <1>3, <2>1 DEF IInv, TypeOK, AdminCancels, NoteCancelled,
               RevokeInvitation, SwitchOn, SwitchOff, CancelQueued
  <1> QED BY <1>1, <1>2, <1>4, <1>5 DEF IInv

\* The two timers: a lease runs out, a retry becomes due.
LEMMA TimeStep ==
    ASSUME IInv, NEW j \in Jobs, LeaseExpires(j) \/ Due(j)
    PROVE  IInv'
  <1> USE DEF user, controls
  <1>1. InHand' /\ VerdictsTrue'
    BY OthersFrame DEF IInv, LeaseExpires, Due
  <1>2. /\ Writes(outbox, j, outbox'[j])
        /\ outbox'[j].status = outbox[j].status /\ outbox'[j].secret = outbox[j].secret
    BY LeaseFacts, DueFacts DEF IInv
  <1>3. /\ SecretsScrubbed'
        /\ \A k \in Jobs : outbox'[k].status = "sent" => outbox[k].status = "sent"
    BY <1>2, WritesFrame DEF IInv, SecretsScrubbed
  <1>4. SentMeansMailed'
    BY <1>3, SentFrame DEF IInv, LeaseExpires, Due
  <1>5. TypeOK'
    BY <1>2 DEF IInv, TypeOK, LeaseExpires, Due, Writes
  <1> QED BY <1>1, <1>3, <1>4, <1>5 DEF IInv

-----------------------------------------------------------------------------
(* The worker. *)

\* Everything but the queue, the worker's task and the notification, for a
\* step that writes no row, or only rows that end up not 'sent'.
LEMMA WorkerFrame ==
    ASSUME IInv, task' \in [Workers -> Tasks], InHand', VerdictsTrue',
           outbox' \in [Jobs -> Rows], SecretsScrubbed',
           \A j \in Jobs : outbox'[j].status = "sent" =>
                outbox[j].status = "sent" \/ \E s \in BOOLEAN : <<j, s>> \in mails',
           notification' \in {"none", "queued", "sending", "sent", "failed"},
           generation' # Nothing /\ notification' = "sent" =>
                notification = "sent" \/ <<generation', TRUE>> \in mails',
           mails \subseteq mails', mails' \subseteq Jobs \X BOOLEAN,
           faults' \in 0 .. MaxFaults,
           UNCHANGED <<order, request, generation, controls>>
    PROVE  IInv'
  <1>1. SentMeansMailed'
    BY SentFrame DEF IInv
  <1>2. TypeOK'
    BY DEF IInv, TypeOK, controls
  <1> QED BY <1>1, <1>2 DEF IInv

\* Steps that only change what the worker does.
LEMMA TaskStep ==
    ASSUME IInv, task' \in [Workers -> Tasks], InHand', VerdictsTrue',
           mails \subseteq mails', mails' \subseteq Jobs \X BOOLEAN,
           faults' \in 0 .. MaxFaults,
           UNCHANGED <<outbox, order, request, user, controls>>
    PROVE  IInv'
  <1>1. outbox' \in [Jobs -> Rows] /\ SecretsScrubbed'
    BY DEF IInv, TypeOK, SecretsScrubbed
  <1>2. notification' \in {"none", "queued", "sending", "sent", "failed"}
        /\ UNCHANGED <<generation, notification>>
    BY DEF IInv, TypeOK, user
  <1> QED BY <1>1, <1>2, WorkerFrame

LEMMA PollStep ==
    ASSUME IInv, NEW w \in Workers, WorkerFindsNothing(w) \/ WorkerClaims(w)
    PROVE  IInv'
  <1> USE DEF user, controls
  <1>1. /\ Recovered \in [Jobs -> Rows]
        /\ \A j \in Jobs : Recovered[j].status \in Settled => ~Recovered[j].secret
        /\ \A j \in Jobs : Recovered[j].status = "sent" => outbox[j].status = "sent"
    BY RecoveredFacts DEF IInv, TypeOK
  <1>2. /\ UNCHANGED <<order, request, generation, notification, controls, mails, faults>>
        /\ notification \in {"none", "queued", "sending", "sent", "failed"}
        /\ mails \subseteq Jobs \X BOOLEAN /\ faults \in 0 .. MaxFaults
    BY DEF IInv, TypeOK, WorkerFindsNothing, WorkerClaims
  <1>3. CASE WorkerFindsNothing(w)
    <2>1. outbox' \in [Jobs -> Rows] /\ SecretsScrubbed'
      BY <1>1, <1>3 DEF WorkerFindsNothing, SecretsScrubbed
    <2>2. \A j \in Jobs : outbox'[j].status = "sent" => outbox[j].status = "sent"
      BY <1>1, <1>3 DEF WorkerFindsNothing
    <2>3. task' \in [Workers -> Tasks] /\ InHand' /\ VerdictsTrue'
      BY <1>3, OthersFrame DEF IInv, TypeOK, WorkerFindsNothing
    <2> QED BY <1>2, <2>1, <2>2, <2>3, WorkerFrame
  <1>4. CASE WorkerClaims(w)
    <2>1. PICK j \in Jobs : /\ Writes(Recovered, j, outbox'[j])
                            /\ outbox'[j].status = "sending"
                            /\ task'[w].job = j
      BY <1>4, ClaimFacts DEF IInv
    <2>2. /\ SecretsScrubbed'
          /\ \A k \in Jobs : outbox'[k].status = "sent" => outbox[k].status = "sent"
      BY <1>1, <2>1, WritesFrame DEF Settled
    <2>3. /\ task' \in [Workers -> Tasks] /\ task'[w].verdict = "none"
          /\ \A v \in Workers \ {w} : task'[v] = task[v]
      BY <1>4, ClaimFacts DEF IInv
    <2>4. InHand' /\ VerdictsTrue'
      BY <1>2, <2>1, <2>3 DEF IInv, InHand, VerdictsTrue
    <2> QED BY <1>2, <2>1, <2>2, <2>3, <2>4, WorkerFrame DEF Writes
  <1> QED BY <1>3, <1>4

\* A busy worker goes on with its delivery without writing anything.
LEMMA BusyStep ==
    ASSUME IInv, NEW w \in Workers,
           \/ WorkerPrepares(w) \/ WorkerRejects(w) \/ WorkerSends(w)
           \/ WorkerHasNoToken(w) \/ WorkerStumbles(w)
    PROVE  IInv'
  <1>1. PICK verdict \in {"none", "sent", "transient", "permanent"},
             stage \in {"sending", "finishing"} : Proceeds(w, stage, verdict)
             /\ (verdict = "sent" => \/ task[w].verdict = "sent"
                                     \/ WorkerSends(w))
    <2>1. CASE WorkerPrepares(w)
      <3>1. Proceeds(w, "sending", task[w].verdict)
        BY <2>1, GoesFacts DEF IInv, WorkerPrepares
      <3>2. task[w].verdict \in {"none", "sent", "transient", "permanent"}
        BY DEF IInv, TypeOK, Tasks
      <3> QED BY <3>1, <3>2
    <2>2. CASE WorkerRejects(w) \/ WorkerHasNoToken(w)
      BY <2>2, ConcludesFacts DEF IInv, WorkerRejects, WorkerHasNoToken
    <2>3. CASE WorkerStumbles(w)
      BY <2>3, ConcludesFacts DEF IInv, WorkerStumbles
    <2>4. CASE WorkerSends(w)
      BY <2>4, ConcludesFacts DEF IInv, WorkerSends
    <2> QED BY <2>1, <2>2, <2>3, <2>4
  <1>2. task[w].job \in Jobs /\ task[w].secret \in BOOLEAN
    BY DEF IInv, InHand, TypeOK, Tasks, At, WorkerPrepares, WorkerRejects, WorkerSends,
       WorkerHasNoToken, WorkerStumbles
  <1>3. /\ mails \subseteq mails' /\ mails' \subseteq Jobs \X BOOLEAN
        /\ WorkerSends(w) => /\ <<task[w].job, task[w].secret>> \in mails'
                             /\ TypeOf[task[w].job] = "mfa_setup" => task[w].secret
    BY <1>2 DEF IInv, TypeOK, WorkerPrepares, WorkerRejects, WorkerSends,
       WorkerHasNoToken, WorkerStumbles
  <1>4. InHand' /\ VerdictsTrue'
    BY <1>1, <1>2, <1>3, ProceedsFrame DEF IInv
  <1>5. faults' \in 0 .. MaxFaults /\ UNCHANGED <<outbox, order, request, user, controls>>
    BY DEF IInv, TypeOK, WorkerPrepares, WorkerRejects, WorkerSends, WorkerHasNoToken,
       WorkerStumbles
  <1> QED BY <1>1, <1>3, <1>4, <1>5, TaskStep DEF Proceeds

\* The worker loses or lays down what it has in hand, or comes back.
LEMMA RestStep ==
    ASSUME IInv, NEW w \in Workers, WorkerLosesClaim(w) \/ Crash(w) \/ Restart(w)
    PROVE  IInv'
  <1>1. Rests(w)
    BY RestsFacts DEF IInv, WorkerLosesClaim, Crash, Restart
  <1>2. /\ mails' = mails /\ mails \subseteq Jobs \X BOOLEAN
        /\ faults' \in 0 .. MaxFaults
        /\ UNCHANGED <<outbox, order, request, user, controls>>
    BY OutboxAssumption DEF IInv, TypeOK, WorkerLosesClaim, Crash, Restart
  <1>3. InHand' /\ VerdictsTrue'
    BY <1>1, <1>2, RestsFrame DEF IInv
  <1> QED BY <1>1, <1>2, <1>3, TaskStep DEF Rests

\* Notes in the MFA policy, and the end of a cancelled delivery.
LEMMA NoteStep ==
    ASSUME IInv, NEW w \in Workers,
           WorkerNotesClaim(w) \/ WorkerNotesCancelled(w) \/ WorkerReports(w)
    PROVE  IInv'
  <1> DEFINE j == task[w].job
  <1>1. j \in Jobs
    BY DEF IInv, InHand, At, WorkerNotesClaim, WorkerNotesCancelled, WorkerReports
  <1>2. PICK new \in {"queued", "sending", "sent", "failed"} :
          Note(j, new) /\ (new = "sent" => task[w].verdict = "sent")
    BY OutcomeFacts DEF WorkerNotesClaim, WorkerNotesCancelled, WorkerReports
  <1>3. /\ UNCHANGED <<outbox, order, request, generation, controls, mails, faults>>
        /\ mails \subseteq Jobs \X BOOLEAN /\ faults \in 0 .. MaxFaults
        /\ outbox \in [Jobs -> Rows]
    BY DEF IInv, TypeOK, WorkerNotesClaim, WorkerNotesCancelled, WorkerReports
  <1>4. notification' \in {"none", "queued", "sending", "sent", "failed"}
    BY <1>2, NoteFacts DEF IInv
  <1>5. generation' # Nothing /\ notification' = "sent" =>
          notification = "sent" \/ <<generation', TRUE>> \in mails'
    BY <1>2, <1>3, NoteFacts DEF IInv, VerdictsTrue, TypeOK, Tasks
  <1>6. task' \in [Workers -> Tasks] /\ InHand' /\ VerdictsTrue'
    <2>1. CASE WorkerNotesClaim(w)
      <3>1. Proceeds(w, "checking", task[w].verdict)
        BY <2>1, GoesFacts DEF IInv, WorkerNotesClaim
      <3> QED BY <1>1, <1>3, <3>1, ProceedsFrame DEF IInv, Proceeds
    <2>2. CASE WorkerNotesCancelled(w) \/ WorkerReports(w)
      <3>1. Rests(w)
        BY <2>2, RestsFacts DEF IInv, WorkerNotesCancelled, WorkerReports
      <3> QED BY <1>3, <3>1, RestsFrame DEF IInv, Rests
    <2> QED BY <2>1, <2>2
  <1>7. SecretsScrubbed'
    BY <1>3 DEF IInv, SecretsScrubbed
  <1> QED BY <1>3, <1>4, <1>5, <1>6, <1>7, WorkerFrame

LEMMA CancelStep ==
    ASSUME IInv, NEW w \in Workers, WorkerCancels(w)
    PROVE  IInv'
  <1>1. task[w].job \in Jobs
    BY DEF IInv, InHand, At, WorkerCancels
  <1>2. /\ UNCHANGED <<order, request, generation, notification, controls, mails, faults>>
        /\ notification \in {"none", "queued", "sending", "sent", "failed"}
        /\ mails \subseteq Jobs \X BOOLEAN /\ faults \in 0 .. MaxFaults
    BY DEF IInv, TypeOK, WorkerCancels, user
  <1>3. /\ outbox' \in [Jobs -> Rows] /\ SecretsScrubbed'
        /\ \A k \in Jobs : outbox'[k].status = "sent" => outbox[k].status = "sent"
    <2>1. CASE UNCHANGED outbox
      BY <2>1 DEF IInv, TypeOK, SecretsScrubbed
    <2>2. CASE Cancel({task[w].job})
      BY <2>2, CancelFacts DEF IInv, TypeOK
    <2> QED BY <2>1, <2>2 DEF WorkerCancels
  <1>4. task' \in [Workers -> Tasks] /\ InHand' /\ VerdictsTrue'
    <2>1. CASE Goes(w, "cancelled")
      <3>1. Proceeds(w, "cancelled", task[w].verdict)
        BY <2>1, GoesFacts DEF IInv
      <3> QED BY <1>1, <1>2, <3>1, ProceedsFrame DEF IInv, Proceeds
    <2>2. CASE task' = [task EXCEPT ![w] = Idle]
      <3>1. Rests(w)
        BY <2>2, RestsFacts DEF IInv
      <3> QED BY <1>2, <3>1, RestsFrame DEF IInv, Rests
    <2> QED BY <2>1, <2>2 DEF WorkerCancels
  <1> QED BY <1>2, <1>3, <1>4, WorkerFrame

LEMMA FinishStep ==
    ASSUME IInv, NEW w \in Workers, WorkerFinishes(w)
    PROVE  IInv'
  <1> DEFINE j == task[w].job
  <1>1. j \in Jobs
    BY DEF IInv, InHand, At, WorkerFinishes
  <1>2. /\ UNCHANGED <<order, request, generation, notification, controls, mails, faults>>
        /\ notification \in {"none", "queued", "sending", "sent", "failed"}
        /\ mails \subseteq Jobs \X BOOLEAN /\ faults \in 0 .. MaxFaults
    BY DEF IInv, TypeOK, WorkerFinishes, user
  <1>3. /\ Writes(outbox, j, outbox'[j])
        /\ outbox'[j].status = Outcome(w)
        /\ outbox'[j].secret => Outcome(w) = "queued"
    BY <1>1, FinishFacts DEF IInv
  <1>4. outbox'[j].status \in Settled => ~outbox'[j].secret
    BY <1>3 DEF Settled
  <1>5. /\ SecretsScrubbed'
        /\ \A k \in Jobs : outbox'[k].status = "sent" => outbox[k].status = "sent" \/ k = j
    BY <1>1, <1>3, <1>4, WritesFrame DEF IInv, SecretsScrubbed
  <1>6. outbox'[j].status = "sent" => \E s \in BOOLEAN : <<j, s>> \in mails'
    BY <1>2, <1>3, OutcomeFacts DEF IInv, VerdictsTrue, TypeOK, Tasks
  <1>7. Proceeds(w, "reporting", task[w].verdict)
    BY GoesFacts DEF IInv, WorkerFinishes
  <1>8. InHand' /\ VerdictsTrue'
    BY <1>1, <1>2, <1>7, ProceedsFrame DEF IInv
  <1> QED BY <1>1, <1>2, <1>3, <1>5, <1>6, <1>7, <1>8, WorkerFrame DEF Writes, Proceeds

LEMMA FinishFailsStep ==
    ASSUME IInv, NEW w \in Workers, WorkerFinishFails(w)
    PROVE  IInv'
  <1>1. task[w].job \in Jobs
    BY DEF IInv, InHand, WorkerFinishFails
  <1>2. /\ UNCHANGED <<outbox, order, request, generation, controls, mails>>
        /\ outbox \in [Jobs -> Rows] /\ mails \subseteq Jobs \X BOOLEAN
        /\ faults' \in 0 .. MaxFaults
    BY OutboxAssumption DEF IInv, TypeOK, WorkerFinishFails
  <1>3. task' \in [Workers -> Tasks] /\ InHand' /\ VerdictsTrue'
    <2>1. CASE Concludes(w, "transient")
      <3>1. Proceeds(w, "finishing", "transient")
        BY <2>1, ConcludesFacts DEF IInv
      <3> QED BY <1>1, <1>2, <3>1, ProceedsFrame DEF IInv, Proceeds
    <2>2. CASE task' = [task EXCEPT ![w] = [Idle EXCEPT !.stage = "down"]]
      <3>1. Rests(w)
        BY <2>2, RestsFacts DEF IInv
      <3> QED BY <1>2, <3>1, RestsFrame DEF IInv, Rests
    <2> QED BY <2>1, <2>2 DEF WorkerFinishFails
  <1>4. /\ notification' \in {"none", "queued", "sending", "sent", "failed"}
        /\ generation' # Nothing /\ notification' = "sent" =>
             notification = "sent" \/ <<generation', TRUE>> \in mails'
    <2>1. CASE UNCHANGED notification
      BY <2>1 DEF IInv, TypeOK
    <2>2. CASE Note(task[w].job, Outcome(w))
      <3>1. PICK new \in {"queued", "sending", "sent", "failed"} :
              Note(task[w].job, new) /\ (new = "sent" => task[w].verdict = "sent")
        BY <2>2, OutcomeFacts
      <3>2. TypeOK
        BY DEF IInv
      <3>3. /\ notification' \in {"none", "queued", "sending", "sent", "failed"}
            /\ notification' = "sent" =>
                 \/ notification = "sent"
                 \/ new = "sent" /\ generation = task[w].job
                    /\ TypeOf[task[w].job] = "mfa_setup"
        BY <3>1, <3>2, NoteFacts
      <3> QED BY <1>2, <3>1, <3>3 DEF IInv, VerdictsTrue, TypeOK, Tasks
    <2> QED BY <2>1, <2>2 DEF WorkerFinishFails
  <1>5. SecretsScrubbed'
    BY <1>2 DEF IInv, SecretsScrubbed
  <1> QED BY <1>2, <1>3, <1>4, <1>5, WorkerFrame

-----------------------------------------------------------------------------
(* The invariant, and what follows from it. *)

LEMMA InitInvariant == Init => IInv
  <1> SUFFICES ASSUME Init PROVE IInv
    OBVIOUS
  <1>1. TypeOK
    <2>1. outbox \in [Jobs -> Rows]
      BY OutboxAssumption DEF Init, Rows, Statuses
    <2>2. task \in [Workers -> Tasks]
      BY DEF Init, Idle, Tasks
    <2> QED BY <2>1, <2>2, OutboxAssumption DEF Init, TypeOK
  <1>2. InHand /\ VerdictsTrue
    BY DEF Init, Idle, InHand, VerdictsTrue
  <1>3. SecretsScrubbed /\ SentMeansMailed
    BY DEF Init, SecretsScrubbed, SentMeansMailed
  <1> QED BY <1>1, <1>2, <1>3 DEF IInv

LEMMA InvariantStep == IInv /\ [Next]_vars => IInv'
  <1> SUFFICES ASSUME IInv, [Next]_vars PROVE IInv'
    OBVIOUS
  <1>1. ASSUME NEW j \in Jobs, RequestStarts(j) \/ Request(j) \/ RequestFails(j)
        PROVE  IInv'
    BY <1>1, RequestStep
  <1>2. ASSUME NEW j \in Jobs, AdminCancels(j) \/ NoteCancelled(j) \/ RevokeInvitation(j)
        PROVE  IInv'
    <2>1. TypeOf[j] \in Types
      BY OutboxAssumption
    <2> QED BY <1>2, <2>1, AdminStep
  <1>3. ASSUME NEW j \in Jobs, LeaseExpires(j) \/ Due(j)
        PROVE  IInv'
    BY <1>3, TimeStep
  <1>4. ASSUME NEW j \in Jobs, SwitchOn(TypeOf[j]) \/ SwitchOff(TypeOf[j])
                               \/ CancelQueued(TypeOf[j])
        PROVE  IInv'
    <2>1. TypeOf[j] \in Types
      BY OutboxAssumption
    <2> QED BY <1>4, <2>1, AdminStep
  <1>5. CASE EnrollmentCompletes \/ EnrollmentInvalidated \/ EnrollmentCleanup
    BY <1>5, EnrollmentStep
  <1>6. ASSUME NEW w \in Workers, Work(w) \/ WorkerFindsNothing(w)
        PROVE  IInv'
    BY <1>6, PollStep, BusyStep, NoteStep, CancelStep, FinishStep DEF Work
  <1>7. ASSUME NEW w \in Workers,
               WorkerLosesClaim(w) \/ WorkerFinishFails(w) \/ Crash(w) \/ Restart(w)
        PROVE  IInv'
    BY <1>7, RestStep, FinishFailsStep
  <1>8. CASE UNCHANGED vars
    BY <1>8 DEF vars, user, controls, IInv, TypeOK, InHand, VerdictsTrue, SecretsScrubbed,
       SentMeansMailed
  <1> QED BY <1>1, <1>2, <1>3, <1>4, <1>5, <1>6, <1>7, <1>8 DEF Next

\* The CHECK constraints that the migrations put on the status of a delivery and
\* on the notification status are never violated: no statement of a request, a
\* worker or the settings can fail for that reason.
THEOREM OutboxTypes == Spec => []TypeOK
  <1>1. IInv => TypeOK
    BY DEF IInv
  <1> QED BY <1>1, InitInvariant, InvariantStep, PTL DEF Spec

\* No order of cancellations, switches, failures and late workers leaves a
\* password or a token in a delivery that is over.
THEOREM OutboxSecrets == Spec => []SecretsScrubbed
  <1>1. IInv => SecretsScrubbed
    BY DEF IInv
  <1> QED BY <1>1, InitInvariant, InvariantStep, PTL DEF Spec

\* 'sent' in the queue, or in the policy of the current enrollment, is only
\* shown for mail that SMTP accepted.
THEOREM OutboxSent == Spec => []SentMeansMailed
  <1>1. IInv => SentMeansMailed
    BY DEF IInv
  <1> QED BY <1>1, InitInvariant, InvariantStep, PTL DEF Spec

-----------------------------------------------------------------------------
(***************************************************************************)
(* As long as no lease runs out under a worker that delivers, a delivery   *)
(* is in the hands of one worker.                                          *)
(*                                                                         *)
(* OneDeliverer is not inductive: a worker whose last query fails takes    *)
(* its delivery up again, from the stages after a cancellation and after   *)
(* the answer of SMTP.  The strengthening counts those stages as holding   *)
(* the delivery, and says what keeps it from being claimed meanwhile.      *)
(***************************************************************************)

Busy == {"claimed", "checking", "sending", "finishing"}

\* The worker delivers, or may take its delivery up again.
Holding(v) ==
    \/ task[v].stage \in Busy \cup {"cancelled"}
    \/ task[v].stage = "reporting" /\ task[v].verdict = "sent"

\* Nobody can claim what the worker holds.
Kept(v) ==
    LET row == outbox[task[v].job] IN
    /\ row.status \notin {"none", "queued"}
    /\ row.status = "sending" => row.lease = "held"
    /\ task[v].stage = "cancelled" => row.status = "cancelled"
    /\ task[v].stage = "reporting" => row.status = "sent"

HoldersKeep == \A v \in Workers : Holding(v) => Kept(v)

HoldersDiffer ==
    \A v, w \in Workers : Holding(v) /\ Holding(w) /\ task[v].job = task[w].job => v = w

Before == {"idle", "cancelling", "invalidating", "policy", "searching", "inserting"}

\* A row is inserted once.
InsertedOnce == \A j \in Jobs : request[j] \in Before => outbox[j].status = "none"

HInv == TimelyLease => HoldersKeep /\ HoldersDiffer /\ InsertedOnce

-----------------------------------------------------------------------------
(* Steps in which no worker moves. *)

\* What such a step may do to a row: to settle it, to insert it, or to move
\* its lease while nobody delivers it.
Benign(j) ==
    \/ /\ outbox'[j].status = outbox[j].status
       /\ outbox'[j].lease = outbox[j].lease \/ \A v \in Workers : ~Delivering(v, j)
    \/ outbox[j].status \in Active /\ outbox'[j].status = "cancelled"
    \/ outbox[j].status = "none"

LEMMA BenignFrame ==
    ASSUME IInv, HInv, TimelyLease, UNCHANGED task, \A j \in Jobs : Benign(j),
           InsertedOnce'
    PROVE  HInv'
  <1>1. HoldersDiffer'
    BY DEF HInv, HoldersDiffer, Holding
  <1>2. ASSUME NEW v \in Workers, Holding(v)'
        PROVE  Kept(v)'
    <2> DEFINE j == task[v].job
    <2>1. Holding(v) /\ task'[v] = task[v]
      BY <1>2 DEF Holding
    <2>2. j \in Jobs /\ Kept(v) /\ Benign(j)
      BY <2>1 DEF HInv, HoldersKeep, IInv, InHand, Holding, Busy
    <2>3. outbox'[j].status = outbox[j].status \/ outbox'[j].status = "cancelled"
      BY <2>2 DEF Benign, Kept
    <2>4. CASE outbox'[j].status = outbox[j].status /\ outbox[j].status # "sending"
      BY <2>1, <2>2, <2>4 DEF Kept
    <2>5. CASE outbox'[j].status = outbox[j].status /\ outbox[j].status = "sending"
      <3>1. Delivering(v, j)
        BY <2>1, <2>2, <2>5 DEF Kept, Holding, Busy, Delivering
      <3>2. outbox'[j].lease = outbox[j].lease
        BY <2>2, <2>5, <3>1 DEF Benign, Active
      <3> QED BY <2>1, <2>2, <2>5, <3>2 DEF Kept
    <2>6. CASE outbox'[j].status = "cancelled" /\ outbox[j].status # "cancelled"
      <3>1. outbox[j].status # "sent"
        BY <2>2, <2>6 DEF Benign, Kept, Active
      <3> QED BY <2>1, <2>2, <2>6, <3>1 DEF Kept
    <2> QED BY <2>3, <2>4, <2>5, <2>6
  <1> QED BY <1>1, <1>2 DEF HInv, HoldersKeep

LEMMA CancelBenign ==
    ASSUME IInv, NEW jobs, Cancel(jobs),
           \A j \in Jobs \cap jobs : outbox[j].status \in Active
    PROVE  \A j \in Jobs : Benign(j) /\ (outbox'[j].status = "none" <=> outbox[j].status = "none")
  BY DEF IInv, TypeOK, Rows, Statuses, Cancel, Benign, Active

LEMMA StaysBenign ==
    ASSUME UNCHANGED outbox
    PROVE  \A j \in Jobs : Benign(j)
  BY DEF Benign

LEMMA RequestHolds ==
    ASSUME IInv, HInv, NEW j \in Jobs,
           RequestStarts(j) \/ Request(j) \/ RequestFails(j)
    PROVE  HInv'
  <1> SUFFICES ASSUME TimelyLease PROVE HInv'
    BY DEF HInv
  <1> USE DEF user, controls
  <1>1. UNCHANGED task
    BY DEF RequestStarts, Request, RequestFails, RequestCancels, RequestInvalidates,
       RequestSetsPolicy, RequestSearches, RequestInserts, RequestNotes
  <1>2. PICK stage : request' = [request EXCEPT ![j] = stage]
                     /\ (request[j] \notin Before => stage \notin Before)
                     /\ (RequestInserts(j) => stage \notin Before)
    BY DEF Asks, Before, RequestStarts, Request, RequestFails, RequestCancels,
       RequestInvalidates, RequestSetsPolicy, RequestSearches, RequestInserts, RequestNotes
  <1>3. \A k \in Jobs \ {j} : request'[k] = request[k]
    BY <1>2 DEF IInv, TypeOK
  <1>4. request'[j] = stage
    BY <1>2 DEF IInv, TypeOK
  <1>5. CASE UNCHANGED outbox
    <2>1. InsertedOnce'
      BY <1>2, <1>3, <1>4, <1>5 DEF HInv, InsertedOnce
    <2> QED BY <1>1, <1>5, <2>1, StaysBenign, BenignFrame
  <1>6. CASE RequestCancels(j)
    <2>1. \A k \in Jobs : Benign(k) /\ (outbox'[k].status = "none" <=> outbox[k].status = "none")
      BY <1>6, CancelBenign DEF RequestCancels, ActiveOf
    <2>2. InsertedOnce'
      BY <1>2, <1>3, <1>4, <2>1 DEF HInv, InsertedOnce
    <2> QED BY <1>1, <2>1, <2>2, BenignFrame
  <1>7. CASE RequestInserts(j)
    <2>1. Writes(outbox, j, outbox'[j])
      BY <1>7, InsertFacts DEF IInv
    <2>2. outbox[j].status = "none"
      BY <1>7 DEF HInv, InsertedOnce, Before, RequestInserts
    <2>3. \A k \in Jobs : Benign(k)
      BY <2>1, <2>2 DEF Benign, Writes
    <2>4. InsertedOnce'
      BY <1>2, <1>3, <1>4, <1>7, <2>1 DEF HInv, InsertedOnce, Writes
    <2> QED BY <1>1, <2>3, <2>4, BenignFrame
  <1> QED BY <1>5, <1>6, <1>7 DEF RequestStarts, Request, RequestFails, RequestInvalidates,
             RequestSetsPolicy, RequestSearches, RequestNotes

\* The end of an enrollment, the Email Queue, the switches and time.
LEMMA OtherHolds ==
    ASSUME IInv, HInv, NEW j \in Jobs, NEW t,
           \/ EnrollmentCompletes \/ EnrollmentInvalidated \/ EnrollmentCleanup
           \/ AdminCancels(j) \/ NoteCancelled(j) \/ RevokeInvitation(j)
           \/ SwitchOn(t) \/ SwitchOff(t) \/ CancelQueued(t)
           \/ LeaseExpires(j) \/ Due(j)
    PROVE  HInv'
  <1> SUFFICES ASSUME TimelyLease PROVE HInv'
    BY DEF HInv
  <1> USE DEF user, controls
  <1>1. UNCHANGED <<task, request>>
    BY DEF EnrollmentCompletes, EnrollmentInvalidated, EnrollmentCleanup, AdminCancels,
       NoteCancelled, RevokeInvitation, SwitchOn, SwitchOff, CancelQueued, LeaseExpires, Due
  <1>2. ASSUME \A k \in Jobs : Benign(k) /\ (outbox'[k].status = "none" <=> outbox[k].status = "none")
        PROVE  HInv'
    <2>1. InsertedOnce'
      BY <1>1, <1>2 DEF HInv, InsertedOnce
    <2> QED BY <1>1, <1>2, <2>1, BenignFrame
  <1>3. CASE UNCHANGED outbox
    BY <1>2, <1>3, StaysBenign
  <1>4. CASE Cancel(ActiveOf("mfa_setup"))
    BY <1>2, <1>4, CancelBenign DEF ActiveOf
  <1>5. CASE AdminCancels(j) \/ CancelQueued(t)
    <2>1. PICK jobs : Cancel(jobs) /\ \A k \in Jobs \cap jobs : outbox[k].status \in Active
      BY <1>5 DEF AdminCancels, CancelQueued, QueuedOf, Active
    <2> QED BY <1>2, <2>1, CancelBenign
  <1>6. CASE LeaseExpires(j)
    BY <1>2, <1>6, LeaseFacts DEF IInv, LeaseExpires, Benign, Writes
  <1>7. CASE Due(j)
    <2> DEFINE row == [outbox[j] EXCEPT !.waiting = FALSE]
    <2>1. row.lease = outbox[j].lease /\ row.status = outbox[j].status
      BY DEF IInv, TypeOK, Rows
    <2>2. outbox' = [outbox EXCEPT ![j] = row]
      BY <1>7 DEF Due
    <2> HIDE DEF row
    <2>3. \A k \in Jobs : outbox'[k].lease = outbox[k].lease
                          /\ outbox'[k].status = outbox[k].status
      BY <2>1, <2>2 DEF IInv, TypeOK
    <2> QED BY <1>2, <2>3 DEF Benign
  <1> QED BY <1>3, <1>4, <1>5, <1>6, <1>7 DEF EnrollmentCompletes, EnrollmentInvalidated,
             EnrollmentCleanup, NoteCancelled, RevokeInvitation, SwitchOn, SwitchOff

-----------------------------------------------------------------------------
(* Steps of a worker. *)

LEMMA RestsHolds ==
    ASSUME HInv, NEW w \in Workers, Rests(w), UNCHANGED <<outbox, request>>
    PROVE  HInv'
  BY DEF HInv, HoldersKeep, HoldersDiffer, InsertedOnce, Holding, Kept, Rests, Busy

\* A worker goes on with a delivery that it held, and writes nothing.
LEMMA ProceedsHolds ==
    ASSUME HInv, NEW w \in Workers, NEW stage \in Busy, NEW verdict,
           Proceeds(w, stage, verdict), Holding(w), UNCHANGED <<outbox, request>>
    PROVE  HInv'
  <1> SUFFICES ASSUME TimelyLease PROVE HInv'
    BY DEF HInv
  <1>1. \A v \in Workers : task'[v].job = task[v].job /\ (Holding(v)' => Holding(v))
    BY DEF Proceeds, Holding
  <1>2. HoldersDiffer'
    BY <1>1 DEF HInv, HoldersDiffer
  <1>3. HoldersKeep'
    BY <1>1 DEF HInv, HoldersKeep, Kept, Proceeds, Busy
  <1>4. InsertedOnce'
    BY DEF HInv, InsertedOnce
  <1> QED BY <1>2, <1>3, <1>4 DEF HInv

LEMMA StepHolds ==
    ASSUME IInv, HInv, NEW w \in Workers,
           \/ WorkerPrepares(w) \/ WorkerRejects(w) \/ WorkerSends(w)
           \/ WorkerHasNoToken(w) \/ WorkerStumbles(w) \/ WorkerNotesClaim(w)
           \/ WorkerNotesCancelled(w) \/ WorkerReports(w) \/ WorkerFinishFails(w)
           \/ WorkerLosesClaim(w) \/ Crash(w) \/ Restart(w)
    PROVE  HInv'
  <1> USE DEF user
  <1>1. UNCHANGED <<outbox, request>>
    BY DEF WorkerPrepares, WorkerRejects, WorkerSends, WorkerHasNoToken, WorkerStumbles,
       WorkerNotesClaim, WorkerNotesCancelled, WorkerReports, WorkerFinishFails,
       WorkerLosesClaim, Crash, Restart
  <1>2. CASE \/ WorkerPrepares(w) \/ WorkerNotesClaim(w)
    <2>1. PICK stage \in {"sending", "checking"} : Goes(w, stage)
      BY <1>2 DEF WorkerPrepares, WorkerNotesClaim
    <2>2. Proceeds(w, stage, task[w].verdict) /\ Holding(w)
      BY <1>2, <2>1, GoesFacts DEF IInv, Holding, Busy, At, WorkerPrepares, WorkerNotesClaim
    <2> QED BY <1>1, <2>2, ProceedsHolds DEF Busy
  <1>3. CASE \E verdict \in {"sent", "transient", "permanent"} :
                Concludes(w, verdict) /\ Holding(w)
    <2>1. PICK verdict \in {"sent", "transient", "permanent"} :
            Concludes(w, verdict) /\ Holding(w)
      BY <1>3
    <2>2. Proceeds(w, "finishing", verdict)
      BY <2>1, ConcludesFacts DEF IInv
    <2> QED BY <1>1, <2>1, <2>2, ProceedsHolds DEF Busy
  <1>4. CASE \/ task' = [task EXCEPT ![w] = Idle]
             \/ task' = [task EXCEPT ![w] = [Idle EXCEPT !.stage = "down"]]
    BY <1>1, <1>4, RestsFacts, RestsHolds DEF IInv
  <1>5. CASE WorkerRejects(w) \/ WorkerSends(w) \/ WorkerHasNoToken(w) \/ WorkerStumbles(w)
    BY <1>3, <1>5 DEF WorkerRejects, WorkerSends, WorkerHasNoToken, WorkerStumbles, At,
       Holding, Busy
  <1>6. CASE WorkerFinishFails(w)
    BY <1>3, <1>4, <1>6 DEF WorkerFinishFails, Holding, Busy
  <1> QED BY <1>2, <1>4, <1>5, <1>6 DEF WorkerNotesCancelled, WorkerReports,
             WorkerLosesClaim, Crash, Restart

LEMMA CancelHolds ==
    ASSUME IInv, HInv, NEW w \in Workers, WorkerCancels(w)
    PROVE  HInv'
  <1> SUFFICES ASSUME TimelyLease PROVE HInv'
    BY DEF HInv
  <1> DEFINE j == task[w].job
  <1>1. UNCHANGED request
    BY DEF WorkerCancels
  <1>2. CASE UNCHANGED outbox /\ task' = [task EXCEPT ![w] = Idle]
    BY <1>1, <1>2, RestsFacts, RestsHolds DEF IInv
  <1>3. CASE Cancel({j}) /\ Goes(w, "cancelled") /\ outbox[j].status \in Active
    <2>1. j \in Jobs /\ Holding(w)
      BY DEF IInv, InHand, Holding, Busy, At, WorkerCancels
    <2>2. Proceeds(w, "cancelled", task[w].verdict)
      BY <1>3, GoesFacts DEF IInv
    <2>3. /\ outbox'[j].status = "cancelled"
          /\ \A k \in Jobs \ {j} : outbox'[k] = outbox[k]
      BY <1>3, <2>1 DEF Cancel, IInv, TypeOK, Rows
    <2>4. \A v \in Workers : task'[v].job = task[v].job /\ (Holding(v)' => Holding(v))
      BY <2>1, <2>2 DEF Proceeds, Holding
    <2>5. HoldersDiffer'
      BY <2>4 DEF HInv, HoldersDiffer
    <2>6. ASSUME NEW v \in Workers, Holding(v)' PROVE Kept(v)'
      <3>1. CASE v = w
        BY <2>2, <2>3, <3>1 DEF Kept, Proceeds
      <3>2. CASE v # w
        <4>1. task'[v] = task[v] /\ Holding(v) /\ task[v].job # j
          BY <2>1, <2>2, <2>4, <2>6, <3>2 DEF Proceeds, HInv, HoldersDiffer
        <4>2. task[v].job \in Jobs /\ Kept(v)
          BY <4>1 DEF IInv, InHand, Holding, Busy, HInv, HoldersKeep
        <4> QED BY <2>3, <4>1, <4>2 DEF Kept
      <3> QED BY <3>1, <3>2
    <2>7. InsertedOnce'
      BY <1>1, <1>3, <2>1, <2>3 DEF HInv, InsertedOnce, Active
    <2> QED BY <2>5, <2>6, <2>7 DEF HInv, HoldersKeep
  <1> QED BY <1>2, <1>3 DEF WorkerCancels

LEMMA FinishHolds ==
    ASSUME IInv, HInv, NEW w \in Workers, WorkerFinishes(w)
    PROVE  HInv'
  <1> SUFFICES ASSUME TimelyLease PROVE HInv'
    BY DEF HInv
  <1> DEFINE j == task[w].job
  <1>1. j \in Jobs /\ Holding(w) /\ UNCHANGED request
    BY DEF IInv, InHand, Holding, Busy, At, WorkerFinishes
  <1>2. Proceeds(w, "reporting", task[w].verdict)
    BY GoesFacts DEF IInv, WorkerFinishes
  <1>3. Writes(outbox, j, outbox'[j]) /\ outbox'[j].status = Outcome(w)
    BY <1>1, FinishFacts DEF IInv
  <1>4. \A v \in Workers : task'[v].job = task[v].job /\ (Holding(v)' => Holding(v))
    BY <1>1, <1>2 DEF Proceeds, Holding
  <1>5. HoldersDiffer'
    BY <1>4 DEF HInv, HoldersDiffer
  <1>6. ASSUME NEW v \in Workers, Holding(v)' PROVE Kept(v)'
    <2>1. CASE v = w
      <3>1. task'[w].job = j /\ task'[w].stage = "reporting" /\ task[w].verdict = "sent"
        BY <1>2, <1>6, <2>1 DEF Proceeds, Holding, Busy
      <3>2. outbox'[j].status = "sent"
        BY <1>3, <3>1, OutcomeFacts
      <3> QED BY <2>1, <3>1, <3>2 DEF Kept
    <2>2. CASE v # w
      <3>1. task'[v] = task[v] /\ Holding(v) /\ task[v].job # j
        BY <1>1, <1>2, <1>4, <1>6, <2>2 DEF Proceeds, HInv, HoldersDiffer
      <3>2. task[v].job \in Jobs /\ Kept(v)
        BY <3>1 DEF IInv, InHand, Holding, Busy, HInv, HoldersKeep
      <3> QED BY <1>3, <3>1, <3>2 DEF Kept, Writes
    <2> QED BY <2>1, <2>2
  <1>7. outbox[j].status # "none"
    BY <1>1 DEF HInv, HoldersKeep, Kept
  <1>8. InsertedOnce'
    BY <1>1, <1>3, <1>7 DEF HInv, InsertedOnce, Writes
  <1> QED BY <1>5, <1>6, <1>8 DEF HInv, HoldersKeep

-----------------------------------------------------------------------------
(* Claims. *)

LEMMA RecoveredHolds ==
    ASSUME IInv, NEW j \in Jobs
    PROVE  /\ Recovered[j] = outbox[j] \/ /\ outbox[j].status = "sending"
                                          /\ outbox[j].lease = "expired"
                                          /\ Recovered[j].status = "queued"
           /\ Recovered[j].status = "none" <=> outbox[j].status = "none"
  BY DEF IInv, TypeOK, Rows, Statuses, Recovered

LEMMA FindsNothingHolds ==
    ASSUME IInv, HInv, NEW w \in Workers, WorkerFindsNothing(w)
    PROVE  HInv'
  <1> SUFFICES ASSUME TimelyLease PROVE HInv'
    BY DEF HInv
  <1>1. outbox' = Recovered /\ UNCHANGED <<task, request>>
    BY DEF WorkerFindsNothing
  <1>2. HoldersDiffer' /\ InsertedOnce'
    BY <1>1, RecoveredHolds DEF HInv, HoldersDiffer, Holding, InsertedOnce
  <1>3. ASSUME NEW v \in Workers, Holding(v)' PROVE Kept(v)'
    <2>1. Holding(v) /\ task'[v] = task[v]
      BY <1>1, <1>3 DEF Holding
    <2>2. task[v].job \in Jobs /\ Kept(v)
      BY <2>1 DEF IInv, InHand, Holding, Busy, HInv, HoldersKeep
    <2>3. Recovered[task[v].job] = outbox[task[v].job]
      BY <2>2, RecoveredHolds DEF Kept
    <2> QED BY <1>1, <2>1, <2>2, <2>3 DEF Kept
  <1> QED BY <1>2, <1>3 DEF HInv, HoldersKeep

\* What a claim takes was in nobody's hands.
LEMMA ClaimTakes ==
    ASSUME IInv, NEW w \in Workers, WorkerClaims(w)
    PROVE  \E j \in Jobs :
                /\ Recovered[j].status = "queued"
                /\ \A k \in Jobs \ {j} : outbox'[k] = Recovered[k]
                /\ outbox'[j].status = "sending" /\ outbox'[j].lease = "held"
                /\ task'[w].job = j /\ task'[w].stage = "claimed"
                /\ \A v \in Workers \ {w} : task'[v] = task[v]
  <1> DEFINE tried(j) == IF outbox[j].attempts < MaxAttempts
                         THEN outbox[j].attempts + 1 ELSE MaxAttempts
             row(j) == [Recovered[j] EXCEPT !.status = "sending",
                            !.attempts = tried(j), !.lease = "held"]
             claim(j) == [stage |-> "claimed", job |-> j, secret |-> outbox[j].secret,
                          last |-> tried(j) = MaxAttempts, verdict |-> "none"]
  <1>1. PICK j \in Jobs : /\ Claimable(j)
                          /\ outbox' = [Recovered EXCEPT ![j] = row(j)]
                          /\ task' = [task EXCEPT ![w] = claim(j)]
    BY DEF WorkerClaims, Oldest
  <1>2. Recovered \in [Jobs -> Rows] /\ Recovered[j] \in Rows
    BY RecoveredFacts DEF IInv, TypeOK
  <1>3. row(j).status = "sending" /\ row(j).lease = "held"
    BY <1>2 DEF Rows
  <1>4. claim(j).job = j /\ claim(j).stage = "claimed"
    OBVIOUS
  <1> HIDE DEF row, claim
  <1>5. outbox'[j] = row(j) /\ \A k \in Jobs \ {j} : outbox'[k] = Recovered[k]
    BY <1>1, <1>2
  <1>6. task'[w] = claim(j) /\ \A v \in Workers \ {w} : task'[v] = task[v]
    BY <1>1 DEF IInv, TypeOK
  <1> QED BY <1>1, <1>3, <1>4, <1>5, <1>6 DEF Claimable

LEMMA ClaimHolds ==
    ASSUME IInv, HInv, NEW w \in Workers, WorkerClaims(w)
    PROVE  HInv'
  <1> SUFFICES ASSUME TimelyLease PROVE HInv'
    BY DEF HInv
  <1>1. PICK j \in Jobs :
            /\ Recovered[j].status = "queued"
            /\ \A k \in Jobs \ {j} : outbox'[k] = Recovered[k]
            /\ outbox'[j].status = "sending" /\ outbox'[j].lease = "held"
            /\ task'[w].job = j /\ task'[w].stage = "claimed"
            /\ \A v \in Workers \ {w} : task'[v] = task[v]
    BY ClaimTakes
  <1>2. ASSUME NEW v \in Workers \ {w}, Holding(v)'
        PROVE  /\ Holding(v) /\ task'[v] = task[v] /\ task[v].job \in Jobs \ {j}
               /\ Kept(v) /\ outbox'[task[v].job] = outbox[task[v].job]
    <2>1. Holding(v) /\ task'[v] = task[v]
      BY <1>1, <1>2 DEF Holding
    <2>2. task[v].job \in Jobs /\ Kept(v)
      BY <2>1 DEF IInv, InHand, Holding, Busy, HInv, HoldersKeep
    <2>3. Recovered[task[v].job] = outbox[task[v].job] /\ outbox[task[v].job].status # "queued"
      BY <2>2, RecoveredHolds DEF Kept
    <2> QED BY <1>1, <2>1, <2>2, <2>3
  <1>3. HoldersKeep'
    <2>1. ASSUME NEW v \in Workers, Holding(v)' PROVE Kept(v)'
      <3>1. CASE v = w
        BY <1>1, <3>1 DEF Kept
      <3>2. CASE v # w
        BY <1>2, <2>1, <3>2 DEF Kept
      <3> QED BY <3>1, <3>2
    <2> QED BY <2>1 DEF HoldersKeep
  <1>4. HoldersDiffer'
    <2>1. ASSUME NEW v \in Workers, NEW u \in Workers, Holding(v)', Holding(u)',
                 task'[v].job = task'[u].job
          PROVE  v = u
      <3>1. CASE v = w \/ u = w
        BY <1>1, <1>2, <2>1, <3>1
      <3>2. CASE v # w /\ u # w
        BY <1>2, <2>1, <3>2 DEF HInv, HoldersDiffer
      <3> QED BY <3>1, <3>2
    <2> QED BY <2>1 DEF HoldersDiffer
  <1>5. InsertedOnce'
    <2>1. UNCHANGED request
      BY DEF WorkerClaims
    <2>2. \A k \in Jobs : outbox[k].status = "none" => k # j /\ outbox'[k].status = "none"
      BY <1>1, RecoveredHolds
    <2> QED BY <2>1, <2>2 DEF HInv, InsertedOnce
  <1> QED BY <1>3, <1>4, <1>5 DEF HInv

-----------------------------------------------------------------------------
LEMMA HoldsStep == IInv /\ HInv /\ [Next]_vars => HInv'
  <1> SUFFICES ASSUME IInv, HInv, [Next]_vars PROVE HInv'
    OBVIOUS
  <1>1. ASSUME NEW j \in Jobs, RequestStarts(j) \/ Request(j) \/ RequestFails(j)
        PROVE  HInv'
    BY <1>1, RequestHolds
  <1>2. ASSUME NEW j \in Jobs,
               \/ AdminCancels(j) \/ NoteCancelled(j) \/ RevokeInvitation(j)
               \/ SwitchOn(TypeOf[j]) \/ SwitchOff(TypeOf[j]) \/ CancelQueued(TypeOf[j])
               \/ LeaseExpires(j) \/ Due(j)
        PROVE  HInv'
    BY <1>2, OtherHolds
  <1>3. CASE EnrollmentCompletes \/ EnrollmentInvalidated \/ EnrollmentCleanup
    <2>1. CASE Jobs = {}
      BY <1>3, <2>1 DEF IInv, HInv, HoldersKeep, HoldersDiffer, InsertedOnce, InHand,
         Holding, Busy, EnrollmentCompletes, EnrollmentInvalidated, EnrollmentCleanup
    <2>2. CASE Jobs # {}
      BY <1>3, <2>2, OtherHolds
    <2> QED BY <2>1, <2>2
  <1>4. ASSUME NEW w \in Workers, Work(w) \/ WorkerFindsNothing(w)
        PROVE  HInv'
    BY <1>4, ClaimHolds, FindsNothingHolds, StepHolds, CancelHolds, FinishHolds DEF Work
  <1>5. ASSUME NEW w \in Workers,
               WorkerLosesClaim(w) \/ WorkerFinishFails(w) \/ Crash(w) \/ Restart(w)
        PROVE  HInv'
    BY <1>5, StepHolds
  <1>6. CASE UNCHANGED vars
    BY <1>6 DEF vars, HInv, HoldersKeep, HoldersDiffer, InsertedOnce, Holding, Kept
  <1> QED BY <1>1, <1>2, <1>3, <1>4, <1>5, <1>6 DEF Next

\* Two workers never have the same mail in hand, and nothing requeues it meanwhile,
\* through retries, cancellations, failed queries and crashes, as long as a
\* worker is done before its lease is over.
THEOREM OutboxOneDeliverer == Spec => []OneDeliverer
  <1>1. Init => HInv
    BY DEF Init, Idle, HInv, HoldersKeep, HoldersDiffer, InsertedOnce, Holding, Busy
  <1>2. IInv /\ HInv => OneDeliverer
    <2> SUFFICES ASSUME HInv, TimelyLease, NEW j \in Jobs, NEW v \in Workers,
                        NEW w \in Workers, Delivering(v, j)
                 PROVE  (Delivering(w, j) => v = w) /\ outbox[j].status # "queued"
      BY DEF OneDeliverer
    <2>1. \A u \in Workers : Delivering(u, j) => Holding(u) /\ task[u].job = j
      BY DEF Delivering, Holding, Busy
    <2> QED BY <2>1 DEF HInv, HoldersKeep, HoldersDiffer, Kept
  <1> QED BY <1>1, <1>2, InitInvariant, InvariantStep, HoldsStep, PTL DEF Spec

=============================================================================
