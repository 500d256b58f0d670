----------------------------- MODULE EmailOutbox -----------------------------
(***************************************************************************)
(* The durable email outbox of the auth service, for one user:             *)
(*   - the outbox operations of admin-security-store.cjs (enqueueEmail,    *)
(*     claimNextEmail, finishEmail, cancelEmail, cancelEmails,             *)
(*     cancelQueuedEmailsByType), each SQL statement or transaction a step;*)
(*   - the delivery worker of mailer.cjs (createEmailWorker), one in each  *)
(*     auth process;                                                       *)
(*   - the requests that fill and empty the outbox: MFA enrollment         *)
(*     (queueMfaEnrollmentInvitation) and temporary passwords of           *)
(*     profile-routes.cjs, the Email Queue and the email settings.         *)
(* A delivery is written in one statement and the notification status of   *)
(* the user's MFA policy in another; SMTP, the database and the processes  *)
(* may fail between any two.                                               *)
(***************************************************************************)
EXTENDS Naturals, Sequences, FiniteSets

CONSTANTS
    Jobs,            \* deliveries that requests may enqueue
    TypeOf,          \* the email type of a delivery
    Workers,         \* the workers, one per auth process
    Nothing,         \* no delivery, or no enrollment generation
    MaxAttempts,     \* attempts before a failure is final (5)
    MaxFaults,       \* bound: crashes and lost claims
    TimelyLease      \* TRUE: no lease expires while a worker delivers

Types == {"mfa_setup", "temporary_password"}

ASSUME OutboxAssumption ==
    /\ TypeOf \in [Jobs -> Types]
    /\ Nothing \notin Jobs
    /\ MaxAttempts \in Nat \ {0} /\ MaxFaults \in Nat /\ TimelyLease \in BOOLEAN

VARIABLES
    outbox,          \* the rows of auth_email_outbox
    order,           \* the rows in the order of their created_at
    task,            \* what each worker does
    request,         \* progress of the request that enqueues a delivery
    generation,      \* enrollment generation of the MFA policy, named by its delivery
    notification,    \* notification status of the MFA policy
    enabled,         \* the email switches
    disabling,       \* types switched off whose queued mail is not yet cancelled
    followups,       \* setup mail cancelled by hand or by a switch: what is
                     \* still to do about its MFA policy and its invitation
    revoked,         \* generations whose invitation was cancelled on its own
    cleanup,         \* an enrollment ended and its mail is not yet cancelled
    mails,           \* history: what SMTP accepted, and whether it held the secret
    faults           \* bound: crashes and lost claims so far

user == <<generation, notification>>
controls == <<enabled, disabling, followups, revoked, cleanup>>
vars == <<outbox, order, task, request, user, controls, mails, faults>>

Statuses == {"none", "queued", "sending", "sent", "failed", "cancelled"}
Active == {"queued", "sending"}
Settled == {"sent", "failed", "cancelled"}

Rows == [status : Statuses, attempts : 0 .. MaxAttempts, waiting : BOOLEAN,
         lease : {"none", "held", "expired"}, secret : BOOLEAN]

Tasks == [stage : {"idle", "claimed", "checking", "cancelled", "sending",
                   "finishing", "reporting", "down"},
          job : Jobs \cup {Nothing}, secret : BOOLEAN, last : BOOLEAN,
          verdict : {"none", "sent", "transient", "permanent"}]

Idle == [stage |-> "idle", job |-> Nothing, secret |-> FALSE, last |-> FALSE,
         verdict |-> "none"]

\* The CHECK constraints of the migrations on the two status columns, and the
\* shapes of the rest.
TypeOK ==
    /\ outbox \in [Jobs -> Rows]
    /\ order \in Seq(Jobs)
    /\ task \in [Workers -> Tasks]
    /\ request \in [Jobs -> {"idle", "cancelling", "invalidating", "policy",
                             "searching", "inserting", "noting", "done", "over"}]
    /\ generation \in Jobs \cup {Nothing}
    /\ notification \in {"none", "queued", "sending", "sent", "failed"}
    /\ enabled \in [Types -> BOOLEAN]
    /\ disabling \subseteq Types
    /\ followups \subseteq {"note", "revoke"} \X Jobs
    /\ revoked \subseteq Jobs
    /\ cleanup \in {"none", "completed", "invalidated"}
    /\ mails \subseteq Jobs \X BOOLEAN
    /\ faults \in 0 .. MaxFaults

Init ==
    /\ outbox = [j \in Jobs |-> [status |-> "none", attempts |-> 0,
                    waiting |-> FALSE, lease |-> "none", secret |-> FALSE]]
    /\ order = <<>>
    /\ task = [w \in Workers |-> Idle]
    /\ request = [j \in Jobs |-> "idle"]
    /\ generation = Nothing
    /\ notification = "none"
    /\ enabled = [t \in Types |-> TRUE]
    /\ disabling = {}
    /\ followups = {}
    /\ revoked = {}
    /\ cleanup = "none"
    /\ mails = {}
    /\ faults = 0

-----------------------------------------------------------------------------
(* Statements on the outbox and on the MFA policy. *)

OfType(t) == {j \in Jobs : TypeOf[j] = t}
ActiveOf(t) == {j \in OfType(t) : outbox[j].status \in Active}
QueuedOf(t) == {j \in OfType(t) : outbox[j].status = "queued"}

Cancel(jobs) ==
    outbox' = [j \in Jobs |->
        IF j \in jobs
        THEN [outbox[j] EXCEPT !.status = "cancelled", !.secret = FALSE,
                               !.lease = "none"]
        ELSE outbox[j]]

\* updateMfaNotificationForJob: only for the generation of the delivery.
Note(j, new) ==
    notification' = IF TypeOf[j] = "mfa_setup" /\ generation = j
                    THEN new ELSE notification

Asks(j, stage) == request' = [request EXCEPT ![j] = stage]

-----------------------------------------------------------------------------
(* Requests: an MFA enrollment runs under the user's mutation lock, a       *)
(* temporary password need not.  The administrator's retry of a settled     *)
(* delivery is a new request; a resend that finds the mail of the current   *)
(* generation active changes nothing and is no request here.                *)

Enrolling(j) == TypeOf[j] = "mfa_setup" /\ request[j] \notin {"idle", "done", "over"}
MutationLockFree == cleanup # "invalidated" /\ \A j \in Jobs : ~Enrolling(j)

RequestStarts(j) ==
    /\ request[j] = "idle"
    /\ enabled[TypeOf[j]]
    /\ TypeOf[j] = "mfa_setup" => MutationLockFree
    /\ Asks(j, "cancelling")
    /\ UNCHANGED <<outbox, order, task, user, controls, mails, faults>>

\* cancelEmails: the earlier mail of the type, a delivery in progress included.
RequestCancels(j) ==
    /\ request[j] = "cancelling"
    /\ Cancel(ActiveOf(TypeOf[j]))
    /\ Asks(j, IF TypeOf[j] = "mfa_setup" THEN "invalidating" ELSE "inserting")
    /\ UNCHANGED <<order, task, user, controls, mails, faults>>

RequestInvalidates(j) ==
    /\ request[j] = "invalidating"
    /\ generation' = Nothing
    /\ Asks(j, "policy")
    /\ UNCHANGED <<outbox, order, task, notification, controls, mails, faults>>

RequestSetsPolicy(j) ==
    /\ request[j] = "policy"
    /\ generation' = j
    /\ notification' = "queued"
    /\ Asks(j, "searching")
    /\ UNCHANGED <<outbox, order, task, controls, mails, faults>>

\* enqueueEmail takes an active setup mail for its own.
RequestSearches(j) ==
    /\ request[j] = "searching"
    /\ Asks(j, IF ActiveOf("mfa_setup") = {} THEN "inserting" ELSE "done")
    /\ UNCHANGED <<outbox, order, task, user, controls, mails, faults>>

RequestInserts(j) ==
    /\ request[j] = "inserting"
    /\ outbox' = [outbox EXCEPT ![j] = [@ EXCEPT !.status = "queued", !.secret = TRUE]]
    /\ order' = Append(order, j)
    /\ Asks(j, "noting")
    /\ UNCHANGED <<task, user, controls, mails, faults>>

RequestNotes(j) ==
    /\ request[j] = "noting"
    /\ Note(j, "queued")
    /\ Asks(j, "done")
    /\ UNCHANGED <<outbox, order, task, generation, controls, mails, faults>>

\* A query fails.  From the new policy on, an enrollment tries to invalidate
\* what it has set up.
RequestFails(j) ==
    /\ request[j] \in {"cancelling", "invalidating", "policy", "searching",
                       "inserting", "noting"}
    /\ \/ UNCHANGED user
       \/ /\ TypeOf[j] = "mfa_setup"
          /\ request[j] \in {"searching", "inserting", "noting"}
          /\ generation' = Nothing
          /\ notification' \in {notification, "failed"}
    /\ Asks(j, "over")
    /\ UNCHANGED <<outbox, order, task, controls, mails, faults>>

-----------------------------------------------------------------------------
(* The end of an enrollment. *)

\* The user opens the link and confirms: completeMfaInvitation.  The mail is
\* cancelled after the mutation lock was given back.
EnrollmentCompletes ==
    /\ <<generation, TRUE>> \in mails /\ generation \notin revoked
    /\ MutationLockFree /\ cleanup = "none"
    /\ generation' = Nothing
    /\ cleanup' = "completed"
    /\ UNCHANGED <<outbox, order, task, request, notification, enabled, disabling,
                   followups, revoked, mails, faults>>

\* Suspension, a new email address or MFA switched off, which also resets the
\* status: the generation goes first (invalidateMfaInvitations).  Left out when
\* there is neither a generation nor mail that it could end.
EnrollmentInvalidated ==
    /\ generation # Nothing \/ ActiveOf("mfa_setup") # {}
    /\ MutationLockFree /\ cleanup = "none"
    /\ generation' = Nothing
    /\ notification' \in {notification, "none"}
    /\ cleanup' = "invalidated"
    /\ UNCHANGED <<outbox, order, task, request, enabled, disabling, followups,
                   revoked, mails, faults>>

\* cancelEmails, which may fail; suspension and a new address then set the
\* status themselves.
EnrollmentCleanup ==
    /\ cleanup # "none"
    /\ Cancel(ActiveOf("mfa_setup")) \/ UNCHANGED outbox
    /\ notification' \in {notification} \cup
                          (IF cleanup = "invalidated" THEN {"failed"} ELSE {})
    /\ cleanup' = "none"
    /\ UNCHANGED <<order, task, request, generation, enabled, disabling, followups,
                   revoked, mails, faults>>

-----------------------------------------------------------------------------
(* The Email Queue and the email settings. *)

\* Later statements note the cancellation in the policy and cancel the
\* invitation of the generation.
FollowUp(jobs) == followups' = followups \cup {<<"note", j>> : j \in jobs \cap OfType("mfa_setup")}

\* cancelEmail without allowSending.
AdminCancels(j) ==
    /\ outbox[j].status = "queued"
    /\ Cancel({j})
    /\ FollowUp({j})
    /\ UNCHANGED <<order, task, request, user, enabled, disabling, revoked, cleanup,
                   mails, faults>>

SwitchOn(t) ==
    /\ ~enabled[t] /\ t \notin disabling
    /\ enabled' = [enabled EXCEPT ![t] = TRUE]
    /\ UNCHANGED <<outbox, order, task, request, user, disabling, followups,
                   revoked, cleanup, mails, faults>>

SwitchOff(t) ==
    /\ enabled[t]
    /\ enabled' = [enabled EXCEPT ![t] = FALSE]
    /\ disabling' = disabling \cup {t}
    /\ UNCHANGED <<outbox, order, task, request, user, followups, revoked, cleanup,
                   mails, faults>>

\* Mutant: the queue is emptied without the secrets.
CancelQueuedKeepingSecrets(t) ==
    /\ t \in disabling
    /\ outbox' = [j \in Jobs |-> IF j \in QueuedOf(t)
                                 THEN [outbox[j] EXCEPT !.status = "cancelled"]
                                 ELSE outbox[j]]
    /\ disabling' = disabling \ {t}
    /\ FollowUp(QueuedOf(t))
    /\ UNCHANGED <<order, task, request, user, enabled, revoked, cleanup, mails, faults>>

\* cancelQueuedEmailsByType, once the settings are saved.
CancelQueued(t) ==
    /\ t \in disabling
    /\ Cancel(QueuedOf(t))
    /\ disabling' = disabling \ {t}
    /\ FollowUp(QueuedOf(t))
    /\ UNCHANGED <<order, task, request, user, enabled, revoked, cleanup, mails, faults>>

NoteCancelled(j) ==
    /\ <<"note", j>> \in followups
    /\ followups' = (followups \ {<<"note", j>>}) \cup {<<"revoke", j>>}
    /\ Note(j, "failed")
    /\ UNCHANGED <<outbox, order, task, request, generation, enabled, disabling,
                   revoked, cleanup, mails, faults>>

\* cancelMfaInvitationGeneration.
RevokeInvitation(j) ==
    /\ <<"revoke", j>> \in followups
    /\ followups' = followups \ {<<"revoke", j>>}
    /\ revoked' = revoked \cup {j}
    /\ UNCHANGED <<outbox, order, task, request, user, enabled, disabling, cleanup,
                   mails, faults>>

-----------------------------------------------------------------------------
(* The worker: processOne. *)

At(w, stage) == task[w].stage = stage
Goes(w, stage) == task' = [task EXCEPT ![w].stage = stage]

\* Mutant: what any worker is sending is put back.
RecoveredAnyLease ==
    [j \in Jobs |->
        IF outbox[j].status = "sending" THEN [outbox[j] EXCEPT !.status = "queued"]
                                        ELSE outbox[j]]

\* A claim puts back what an expired lease holds, then takes the oldest row.
Recovered ==
    [j \in Jobs |->
        IF outbox[j].status = "sending" /\ outbox[j].lease = "expired"
        THEN [outbox[j] EXCEPT !.status = "queued", !.lease = "none"]
        ELSE outbox[j]]

Claimable(j) == Recovered[j].status = "queued" /\ ~Recovered[j].waiting
Oldest(jobs) ==
    {j \in jobs : \E n \in DOMAIN order :
        order[n] = j /\ \A m \in 1 .. n - 1 : order[m] \notin jobs}

WorkerFindsNothing(w) ==
    /\ At(w, "idle")
    /\ \A j \in Jobs : ~Claimable(j)
    /\ outbox' = Recovered
    /\ UNCHANGED <<order, task, request, user, controls, mails, faults>>

\* The attempts are counted up to the last one: past it, as after a lease that
\* ran out on the last attempt, nothing depends on their number.
WorkerClaims(w) ==
    /\ At(w, "idle")
    /\ \E j \in Oldest({j \in Jobs : Claimable(j)}) :
        LET tried == IF outbox[j].attempts < MaxAttempts
                     THEN outbox[j].attempts + 1 ELSE MaxAttempts
        IN  /\ outbox' = [Recovered EXCEPT
                    ![j] = [@ EXCEPT !.status = "sending", !.attempts = tried,
                                     !.lease = "held"]]
            /\ task' = [task EXCEPT ![w] =
                    [stage |-> "claimed", job |-> j, secret |-> outbox[j].secret,
                     last |-> tried = MaxAttempts, verdict |-> "none"]]
    /\ UNCHANGED <<order, request, user, controls, mails, faults>>

WorkerNotesClaim(w) ==
    /\ At(w, "claimed")
    /\ Note(task[w].job, "sending")
    /\ Goes(w, "checking")
    /\ UNCHANGED <<outbox, order, request, generation, controls, mails, faults>>

\* The note fails after the claim was committed: the worker does not know that
\* it holds the delivery, and the lease has to run out.
WorkerLosesClaim(w) ==
    /\ At(w, "claimed") /\ faults < MaxFaults
    /\ faults' = faults + 1
    /\ task' = [task EXCEPT ![w] = Idle]
    /\ UNCHANGED <<outbox, order, request, user, controls, mails>>

Concludes(w, verdict) ==
    task' = [task EXCEPT ![w].stage = "finishing", ![w].verdict = verdict]

WorkerPrepares(w) ==
    /\ At(w, "checking") /\ enabled[TypeOf[task[w].job]]
    /\ Goes(w, "sending")
    /\ UNCHANGED <<outbox, order, request, user, controls, mails, faults>>

\* The credential or the invitation has expired, or SMTP is not configured.
WorkerRejects(w) ==
    /\ At(w, "checking")
    /\ Concludes(w, "permanent")
    /\ UNCHANGED <<outbox, order, request, user, controls, mails, faults>>

\* Mutant: cancelEmail without allowSending.
WorkerCancelsQueuedOnly(w) ==
    /\ At(w, "checking") /\ ~enabled[TypeOf[task[w].job]]
    /\ IF outbox[task[w].job].status = "queued"
       THEN Cancel({task[w].job}) /\ Goes(w, "cancelled")
       ELSE UNCHANGED outbox /\ task' = [task EXCEPT ![w] = Idle]
    /\ UNCHANGED <<order, request, user, controls, mails, faults>>

\* The type is switched off: cancelEmail with allowSending.
WorkerCancels(w) ==
    /\ At(w, "checking") /\ ~enabled[TypeOf[task[w].job]]
    /\ IF outbox[task[w].job].status \in Active
       THEN Cancel({task[w].job}) /\ Goes(w, "cancelled")
       ELSE UNCHANGED outbox /\ task' = [task EXCEPT ![w] = Idle]
    /\ UNCHANGED <<order, request, user, controls, mails, faults>>

WorkerNotesCancelled(w) ==
    /\ At(w, "cancelled")
    /\ Note(task[w].job, "failed")
    /\ task' = [task EXCEPT ![w] = Idle]
    /\ UNCHANGED <<outbox, order, request, generation, controls, mails, faults>>

\* Mutant: the answer of SMTP is taken for its acceptance.
WorkerSendsNothing(w) ==
    /\ At(w, "sending")
    /\ \E verdict \in {"sent", "transient"} : Concludes(w, verdict)
    /\ UNCHANGED <<outbox, order, request, user, controls, mails, faults>>

\* buildMessage refuses a setup mail without its token, and only that; SMTP
\* may accept a message and fail to say so.
WorkerSends(w) ==
    LET j == task[w].job IN
    /\ At(w, "sending")
    /\ TypeOf[j] = "mfa_setup" => task[w].secret
    /\ mails' = mails \cup {<<j, task[w].secret>>}
    /\ \E verdict \in {"sent", "transient"} : Concludes(w, verdict)
    /\ UNCHANGED <<outbox, order, request, user, controls, faults>>

WorkerHasNoToken(w) ==
    /\ At(w, "sending")
    /\ TypeOf[task[w].job] = "mfa_setup" /\ ~task[w].secret
    /\ Concludes(w, "permanent")
    /\ UNCHANGED <<outbox, order, request, user, controls, mails, faults>>

\* SMTP or a query fails before the message is accepted.
WorkerStumbles(w) ==
    /\ task[w].stage \in {"checking", "cancelled", "sending"}
    /\ Concludes(w, "transient")
    /\ UNCHANGED <<outbox, order, request, user, controls, mails, faults>>

\* Mutant: the attempts are not counted.
OutcomeRetryingForever(w) ==
    CASE task[w].verdict = "sent" -> "sent"
      [] task[w].verdict = "permanent" -> "failed"
      [] OTHER -> "queued"

Outcome(w) ==
    CASE task[w].verdict = "sent" -> "sent"
      [] task[w].verdict = "permanent" -> "failed"
      [] OTHER -> IF task[w].last THEN "failed" ELSE "queued"

\* finishEmail: by the id of the delivery, whatever has become of it.
WorkerFinishes(w) ==
    LET j == task[w].job IN
    /\ At(w, "finishing")
    /\ outbox' = [outbox EXCEPT ![j] =
            [@ EXCEPT !.status = Outcome(w), !.waiting = (Outcome(w) = "queued"),
                      !.lease = "none",
                      !.secret = (outbox[j].secret /\ Outcome(w) = "queued")]]
    /\ Goes(w, "reporting")
    /\ UNCHANGED <<order, request, user, controls, mails, faults>>

WorkerReports(w) ==
    /\ At(w, "reporting")
    /\ Note(task[w].job, Outcome(w))
    /\ task' = [task EXCEPT ![w] = Idle]
    /\ UNCHANGED <<outbox, order, request, generation, controls, mails, faults>>

\* A query of finishEmail fails, before the policy is noted or after: once the
\* message was accepted that counts as a failed attempt, else it ends the
\* process.
WorkerFinishFails(w) ==
    /\ task[w].stage \in {"finishing", "reporting"}
    /\ IF task[w].verdict = "sent"
       THEN Concludes(w, "transient") /\ UNCHANGED faults
       ELSE /\ faults < MaxFaults /\ faults' = faults + 1
            /\ task' = [task EXCEPT ![w] = [Idle EXCEPT !.stage = "down"]]
    /\ \/ UNCHANGED notification
       \/ At(w, "reporting") /\ Note(task[w].job, Outcome(w))
    /\ UNCHANGED <<outbox, order, request, generation, controls, mails>>

-----------------------------------------------------------------------------
(* Crashes and time. *)

Crash(w) ==
    /\ ~At(w, "down") /\ faults < MaxFaults
    /\ faults' = faults + 1
    /\ task' = [task EXCEPT ![w] = [Idle EXCEPT !.stage = "down"]]
    /\ UNCHANGED <<outbox, order, request, user, controls, mails>>

Restart(w) ==
    /\ At(w, "down")
    /\ task' = [task EXCEPT ![w] = Idle]
    /\ UNCHANGED <<outbox, order, request, user, controls, mails, faults>>

\* A worker has the delivery in hand.
Delivering(w, j) ==
    /\ task[w].job = j
    /\ task[w].stage \in {"claimed", "checking", "sending", "finishing"}

LeaseExpires(j) ==
    /\ outbox[j].lease = "held"
    /\ TimelyLease => \A w \in Workers : ~Delivering(w, j)
    /\ outbox' = [outbox EXCEPT ![j].lease = "expired"]
    /\ UNCHANGED <<order, task, request, user, controls, mails, faults>>

\* The delay before a retry has passed.
Due(j) ==
    /\ outbox[j].waiting
    /\ outbox' = [outbox EXCEPT ![j].waiting = FALSE]
    /\ UNCHANGED <<order, task, request, user, controls, mails, faults>>

-----------------------------------------------------------------------------
Request(j) ==
    \/ RequestCancels(j) \/ RequestInvalidates(j) \/ RequestSetsPolicy(j)
    \/ RequestSearches(j) \/ RequestInserts(j) \/ RequestNotes(j)

Work(w) ==
    \/ WorkerClaims(w) \/ WorkerNotesClaim(w) \/ WorkerPrepares(w) \/ WorkerRejects(w)
    \/ WorkerCancels(w) \/ WorkerNotesCancelled(w) \/ WorkerSends(w)
    \/ WorkerHasNoToken(w) \/ WorkerStumbles(w) \/ WorkerFinishes(w) \/ WorkerReports(w)

Next ==
    \/ \E j \in Jobs :
            \/ RequestStarts(j) \/ Request(j) \/ RequestFails(j)
            \/ AdminCancels(j) \/ NoteCancelled(j) \/ RevokeInvitation(j)
            \/ LeaseExpires(j) \/ Due(j)
    \/ EnrollmentCompletes \/ EnrollmentInvalidated \/ EnrollmentCleanup
    \/ \E t \in {TypeOf[j] : j \in Jobs} : SwitchOn(t) \/ SwitchOff(t) \/ CancelQueued(t)
    \/ \E w \in Workers :
            \/ Work(w) \/ WorkerFindsNothing(w) \/ WorkerLosesClaim(w)
            \/ WorkerFinishFails(w) \/ Crash(w) \/ Restart(w)

Spec == Init /\ [][Next]_vars

\* Workers poll, what was sent to SMTP or the database is answered, a dead
\* process is restarted, and leases and retry delays run out.
Fairness ==
    /\ \A j \in Jobs : WF_vars(LeaseExpires(j)) /\ WF_vars(Due(j))
    /\ \A w \in Workers :
            WF_vars(Work(w)) /\ WF_vars(WorkerFindsNothing(w)) /\ WF_vars(Restart(w))

FairSpec == Spec /\ Fairness

-----------------------------------------------------------------------------
(* Properties. *)

\* No delivery that is over keeps its encrypted password or token, whatever
\* order cancellations, switches, workers and failures come in.
SecretsScrubbed ==
    \A j \in Jobs : outbox[j].status \in Settled => ~outbox[j].secret

\* 'sent' is never shown for mail that SMTP did not accept: neither in the
\* queue nor, for the current enrollment, in the user's MFA policy, whose
\* invitation was in that mail.
SentMeansMailed ==
    /\ \A j \in Jobs : outbox[j].status = "sent" => \E s \in BOOLEAN : <<j, s>> \in mails
    /\ generation # Nothing /\ notification = "sent" => <<generation, TRUE>> \in mails

\* While no lease expires under a working worker, a delivery is in the hands
\* of one worker, and nothing puts it back in the queue meanwhile.
OneDeliverer ==
    TimelyLease => \A j \in Jobs : \A v, w \in Workers :
        Delivering(v, j) => /\ Delivering(w, j) => v = w
                            /\ outbox[j].status # "queued"

\* Every queued delivery comes to an end for good, through retries, crashes,
\* lost claims and duplicated attempts.
DeliveriesSettle ==
    \A j \in Jobs : outbox[j].status = "queued" ~> [](outbox[j].status \in Settled)

\* Once a type is switched off, and until it is switched on again, its mail
\* leaves the queue: what a request, a retry or an expired lease still queues
\* is not kept for later.
DisabledTypeDrains ==
    \A t \in Types : ~enabled[t] ~> (enabled[t] \/ ActiveOf(t) = {})

=============================================================================
