------------------------------ MODULE AuthAccounts ------------------------------
(***************************************************************************)
(* One account of the auth service: its password and temporary credential, *)
(* the enrollment of an authenticator by an invitation that is mailed,     *)
(* challenges, sessions, and the administrators' requests that change all  *)
(* of these while the user signs in. PostgreSQL storage.                   *)
(* A request is a sequence of database calls; other requests come between  *)
(* any two of them. Requests that change the enrollment hold the user's    *)
(* mutation lock, an advisory lock, but read the account before they have  *)
(* it.                                                                     *)
(***************************************************************************)
EXTENDS Integers, FiniteSets, Sequences

CONSTANTS
    Requests,        \* what can be under way at the same time
    Providers,       \* authenticator apps
    MaxAttempts,     \* wrong codes that a challenge or an invitation survives, and one
    Codes,           \* bound: the time steps of one-time codes
    MaxGenerations,  \* bound: invitations
    MaxChallenges,   \* bound: challenges
    MaxSessions,     \* bound: sessions
    MaxStarts,       \* bound: requests
    MaxFaults        \* bound: failed calls

ASSUME AccountsAssumption ==
    /\ MaxAttempts \in Nat \ {0}
    /\ {MaxChallenges, MaxSessions, MaxStarts, MaxFaults} \subseteq Nat
    /\ MaxGenerations \in Nat \ {0} /\ Codes \subseteq Nat \ {0}
    /\ "none" \notin Providers /\ "free" \notin Requests

Generations == 1 .. MaxGenerations
Statuses == {"active", "suspended", "deleted"}

VARIABLES
    account,     \* status, the kind of the password, the temporary credential
    policy,      \* auth_mfa_policy: the authenticator that the user is to have
    config,      \* auth_mfa_config: the invitation it came from, the last code used
    invitation,  \* auth_mfa_enrollment_invitations, by generation
    mail,        \* the invitations' mails
    challenge,   \* auth_mfa_challenges
    session,     \* auth_sessions
    lock,        \* the user's mutation lock
    request,
    undone,      \* has a write undone what another one made of the password?
    overtaken,   \* requests past their checks when a credential was last set
    starts, faults

vars == <<account, policy, config, invitation, mail, challenge, session, lock, request,
          undone, overtaken, starts, faults>>

Idle == [op |-> "none", at |-> "idle", gen |-> 0, app |-> "none", challenge |-> 0, code |-> 0,
         clears |-> FALSE, seen |-> "none", to |-> "none", rotates |-> FALSE]

NoConfig == [gen |-> 0, used |-> 0]
NoPolicy == [mode |-> "disabled", app |-> "none", gen |-> 0]

\* A new account, one that is in use, one whose password has an old hash, one whose
\* invitation was mailed, and one with an authenticator whose user is signed in and
\* about to sign in again.
Histories == {"new", "used", "legacy", "invited", "enrolled"}
Plain == {"new", "used", "legacy"}

Init ==
    /\ \E h \in Histories, app \in Providers :
        /\ account = [status |-> "active",
                      password |-> IF h = "new" THEN "temporary"
                                   ELSE IF h = "legacy" THEN "legacy" ELSE "own",
                      temporary |-> IF h = "new" THEN "valid" ELSE "none"]
        /\ policy = IF h \in Plain THEN NoPolicy
                    ELSE [mode |-> "authenticator", app |-> app, gen |-> IF h = "invited" THEN 1 ELSE 0]
        /\ config = IF h = "enrolled" THEN [gen |-> 1, used |-> 0] ELSE NoConfig
        /\ invitation = [g \in Generations |->
               [state |-> IF g > 1 \/ h \in Plain THEN "none"
                          ELSE IF h = "invited" THEN "live" ELSE "consumed",
                app |-> app, attempts |-> 0]]
        /\ mail = [g \in Generations |->
               IF g > 1 \/ h \in Plain THEN "none" ELSE "sent"]
        /\ challenge = IF h = "enrolled"
                       THEN <<[purpose |-> "login", state |-> "live", attempts |-> 0]>> ELSE <<>>
        /\ session = IF h = "enrolled"
                     THEN <<[live |-> TRUE, challenge |-> 0, gen |-> 0, code |-> 0, late |-> FALSE]>> ELSE <<>>
    /\ lock = "free" /\ request = [q \in Requests |-> Idle]
    /\ undone = FALSE /\ overtaken = {} /\ starts = 0 /\ faults = 0

-----------------------------------------------------------------------------
(* The tables. *)

Live == {s \in DOMAIN session : session[s].live}

\* revokeUserSessions
Revoked == [s \in DOMAIN session |-> [session[s] EXCEPT !.live = FALSE]]

\* clearMfa: the configuration goes, and with it every challenge of the user.
Cleared == [c \in DOMAIN challenge |-> [challenge[c] EXCEPT !.state = "gone"]]

\* invalidateMfaInvitations, and the invitations that a new one replaces.
Cancelled ==
    [g \in Generations |-> IF invitation[g].state = "live"
                           THEN [invitation[g] EXCEPT !.state = "cancelled"] ELSE invitation[g]]

\* cancelEmails
Unmailed == [g \in Generations |-> IF mail[g] = "queued" THEN "cancelled" ELSE mail[g]]

\* Mutant: an invitation is good as long as its code was not used up.
UsableOnce(g) == invitation[g].state \in {"live", "cancelled"}

\* invitationStatus "active": live, for the policy as it is now.
Usable(g) ==
    /\ invitation[g].state = "live" /\ invitation[g].attempts < MaxAttempts
    /\ policy = [mode |-> "authenticator", app |-> invitation[g].app, gen |-> g]

Mail == <<invitation, mail>>
Factor == <<policy, config>>
Signs == <<challenge, session>>
Bounds == <<undone, overtaken, starts>>

-----------------------------------------------------------------------------
(* Requests. *)

Go(q, at) == request' = [request EXCEPT ![q].at = at]

\* The request ends; its lock is released.
End(q) == /\ request' = [request EXCEPT ![q] = Idle]
          /\ lock' = IF lock = q THEN "free" ELSE lock

\* A request starts: it has read what it decides on.
Start(q, r) ==
    /\ request[q].at = "idle" /\ starts < MaxStarts /\ starts' = starts + 1
    /\ request' = [request EXCEPT ![q] = r] /\ overtaken' = overtaken \ {q}
    /\ UNCHANGED <<account, Factor, Mail, Signs, lock, undone, faults>>

Login(q) ==
    /\ account.status = "active"
    /\ Start(q, [Idle EXCEPT !.op = "login",
                             !.at = IF account.password = "legacy" THEN "upgrade" ELSE "factor"])

Generated == account.password = "temporary"

\* The password that was verified gets a new hash, whatever the password is by now.
Upgrades(q) ==
    /\ request[q].at = "upgrade"
    /\ account' = [account EXCEPT !.password = "own"]
    /\ undone' = (undone \/ Generated)
    /\ Go(q, "factor")
    /\ UNCHANGED <<Factor, Mail, Signs, lock, overtaken, starts, faults>>

\* With an authenticator the user gets a challenge, unless the account is gone.
LoginFactor(q) ==
    /\ request[q].at = "factor"
    /\ Go(q, IF config # NoConfig THEN "challenge" ELSE "temporary")
    /\ UNCHANGED <<account, Factor, Mail, Signs, lock, Bounds, faults>>

\* createMfaChallenge
OpensChallenge(q) ==
    /\ request[q].at \in {"challenge", "newPassword"}
    /\ IF account.status = "deleted" THEN UNCHANGED challenge
       ELSE /\ Len(challenge) < MaxChallenges
            /\ challenge' = Append(challenge,
                   [purpose |-> IF request[q].at = "challenge" THEN "login" ELSE "change",
                    state |-> "live", attempts |-> 0])
    /\ End(q)
    /\ UNCHANGED <<account, Factor, Mail, session, Bounds, faults>>

\* Mutant: the credential counts only for a login without a code.
MustChangeAtLogin(q) == account.temporary # "none" /\ request[q].op = "login"

MustChange(q) == account.temporary # "none"

\* A temporary credential leads to a change of the password, not to a session. Its
\* expiry stops a login by password; after a code the change of the password does.
ReadsTemporary(q) ==
    /\ request[q].at = "temporary"
    /\ IF ~MustChange(q) THEN Go(q, "session") /\ UNCHANGED lock
       ELSE IF account.temporary = "expired" /\ request[q].op = "login" THEN End(q)
       ELSE Go(q, "newPassword") /\ UNCHANGED lock
    /\ UNCHANGED <<account, Factor, Mail, Signs, Bounds, faults>>

\* issueSession
OpensSession(q) ==
    /\ request[q].at = "session"
    /\ IF account.status = "deleted" THEN UNCHANGED session
       ELSE /\ Len(session) < MaxSessions
            /\ session' = Append(session, [live |-> TRUE, challenge |-> request[q].challenge,
                                           gen |-> request[q].gen, code |-> request[q].code,
                                           late |-> q \in overtaken])
    /\ End(q)
    /\ UNCHANGED <<account, Factor, Mail, challenge, Bounds, faults>>

Logout(s) ==
    /\ s \in Live /\ session' = [session EXCEPT ![s].live = FALSE]
    /\ UNCHANGED <<account, Factor, Mail, challenge, lock, request, Bounds, faults>>

-----------------------------------------------------------------------------
(* Challenges: POST /login/mfa and POST /login/password-change. *)

\* getMfaChallenge; a request of a purpose finds only a challenge of that purpose.
Found(c, purpose) == /\ challenge[c].purpose = purpose /\ challenge[c].state = "live"
                     /\ challenge[c].attempts < MaxAttempts

\* The code is for the authenticator that the configuration has now, or is wrong (0).
Mfa(q, c) ==
    /\ Found(c, "login")
    /\ \E code \in Codes \cup {0} :
        Start(q, [Idle EXCEPT !.op = "mfa", !.at = IF config = NoConfig \/ code = 0
                                                   THEN "refused" ELSE "mark",
                              !.challenge = c, !.code = code, !.gen = config.gen])

\* The code is later than the last one that was used.
Unused(q) == config # NoConfig /\ config.used < request[q].code

\* markTotpUsed: one statement that accepts the code or leaves it.
MarksCode(q) ==
    /\ request[q].at = "mark"
    /\ IF Unused(q) THEN config' = [config EXCEPT !.used = request[q].code] /\ Go(q, "take")
                    ELSE UNCHANGED config /\ Go(q, "refused")
    /\ UNCHANGED <<account, policy, Mail, Signs, lock, Bounds, faults>>

\* recordMfaChallengeFailure
Refuses(q) ==
    LET c == request[q].challenge IN
    /\ request[q].at = "refused"
    /\ challenge' = IF challenge[c].state # "live" THEN challenge
                    ELSE [challenge EXCEPT ![c].attempts = @ + 1,
                              ![c].state = IF challenge[c].attempts + 1 >= MaxAttempts
                                           THEN "used" ELSE "live"]
    /\ End(q)
    /\ UNCHANGED <<account, Factor, Mail, session, Bounds, faults>>

\* Mutant: the challenge was valid when it was read.
TakenBefore(c) == challenge[c].state # "gone"

\* The challenge can be taken now.
Takes(c) == challenge[c].state = "live"

\* consumeMfaChallenge: of two requests with the same challenge one gets it.
TakesChallenge(q) ==
    LET c == request[q].challenge IN
    /\ request[q].at = "take"
    /\ IF Takes(c)
       THEN /\ challenge' = [challenge EXCEPT ![c].state = "used"]
            /\ Go(q, IF request[q].op = "change" THEN "password" ELSE "user") /\ UNCHANGED lock
       ELSE UNCHANGED challenge /\ End(q)
    /\ UNCHANGED <<account, Factor, Mail, session, Bounds, faults>>

ReadsUser(q) ==
    /\ request[q].at = "user"
    /\ IF account.status = "active" THEN Go(q, "temporary") /\ UNCHANGED lock ELSE End(q)
    /\ UNCHANGED <<account, Factor, Mail, Signs, Bounds, faults>>

\* A bad new password counts as a failed attempt.
Change(q, c) ==
    /\ Found(c, "change") /\ account.status # "deleted"
    /\ \E good \in BOOLEAN :
        /\ good => account.temporary = "valid"
        /\ Start(q, [Idle EXCEPT !.op = "change", !.at = IF good THEN "take" ELSE "refused",
                                 !.challenge = c])

SetsPassword(q) ==
    /\ request[q].at = "password"
    /\ account' = [account EXCEPT !.password = IF request[q].op = "change" THEN "own" ELSE "temporary"]
    /\ Go(q, "credential")
    /\ UNCHANGED <<Factor, Mail, Signs, lock, Bounds, faults>>

\* Mutant: a password that is generated for another mail address has no credential.
CredentialOfReset(q) == IF request[q].op = "reset" THEN "valid" ELSE "none"

\* clearTemporaryCredential; setTemporaryCredential
Credential(q) == IF request[q].op = "change" \/ account.status = "deleted" THEN "none" ELSE "valid"

\* Requests that will open a session without another look at the credential.
PastChecks == {p \in Requests : \/ request[p].at = "session"
                                \/ request[p].op = "change" /\ request[p].at = "revoke"}

\* The credential is set or cleared for the password that the request has written; there
\* may be another one by now.
SetsCredential(q) ==
    /\ request[q].at = "credential"
    /\ account' = [account EXCEPT !.temporary = Credential(q)]
    /\ undone' = (undone \/ (Generated <=> request[q].op = "change"))
    /\ overtaken' = IF request[q].op = "change" THEN overtaken ELSE PastChecks
    /\ Go(q, "revoke")
    /\ UNCHANGED <<Factor, Mail, Signs, lock, starts, faults>>

Revokes(q) ==
    /\ request[q].at = "revoke"
    /\ session' = Revoked
    /\ CASE request[q].op = "change" -> Go(q, "session") /\ UNCHANGED lock
         [] request[q].op = "setup" -> Go(q, "invite") /\ UNCHANGED lock
         [] OTHER -> End(q)
    /\ UNCHANGED <<account, Factor, Mail, challenge, Bounds, faults>>

\* POST /users/:username/password/reset: it takes no lock.
Reset(q) ==
    /\ account.status # "deleted"
    /\ Start(q, [Idle EXCEPT !.op = "reset", !.at = "password"])

-----------------------------------------------------------------------------
(* Enrollment: the administrators' requests. *)

Pending == policy.mode = "authenticator" /\ config = NoConfig

\* PATCH /users/:username/mfa with another provider, POST .../mfa/reset, and the
\* retry of a mail that failed or was cancelled.
Setup(q) ==
    /\ account.status # "deleted"
    /\ \E app \in Providers :
        /\ \/ ~Pending /\ config = NoConfig                       \* enable
           \/ Pending /\ policy.app # app                         \* change what is pending
           \/ config # NoConfig                                   \* change, or reset
           \/ /\ Pending /\ policy.app = app /\ account.status = "active"
              /\ \E g \in Generations : mail[g] \in {"failed", "cancelled"}
        /\ Start(q, [Idle EXCEPT !.op = "setup", !.at = "lock", !.app = app,
                                 !.clears = config # NoConfig])

\* POST .../mfa/resend
Resend(q) ==
    /\ account.status = "active" /\ Pending
    /\ Start(q, [Idle EXCEPT !.op = "setup", !.at = "lock", !.app = policy.app, !.seen = "resend"])

Disable(q) ==
    /\ account.status # "deleted"
    /\ Start(q, [Idle EXCEPT !.op = "disable", !.at = "lock"])

\* Under the lock a resend looks again: the enrollment must be pending for the same
\* app, and nothing is done when its mail is on its way.
Locks(q) ==
    /\ request[q].at = "lock" /\ lock = "free"
    /\ IF request[q].seen = "resend"
          /\ \/ ~Pending \/ policy.app # request[q].app
             \/ \E g \in Generations : mail[g] = "queued" /\ Usable(g)
       THEN End(q)
       ELSE /\ lock' = q
            /\ Go(q, CASE request[q].op = "confirm" -> "complete"
                       [] request[q].op = "disable" -> "policy"
                       [] request[q].op = "delete" -> "delete"
                       [] request[q].op = "setup" -> "unmail"
                       [] OTHER -> IF request[q].clears THEN "invalidate" ELSE "save")
    /\ UNCHANGED <<account, Factor, Mail, Signs, Bounds, faults>>

\* cancelEmails, before or after the invitations are cancelled.
Unmails(q) ==
    /\ request[q].at = "unmail"
    /\ mail' = Unmailed
    /\ CASE request[q].op = "setup" -> Go(q, "invalidate") /\ UNCHANGED lock
         [] request[q].op = "disable" -> Go(q, "clear") /\ UNCHANGED lock
         [] request[q].op = "patch" -> Go(q, "save") /\ UNCHANGED lock
         [] OTHER -> End(q)
    /\ UNCHANGED <<account, Factor, invitation, Signs, Bounds, faults>>

Invalidates(q) ==
    /\ request[q].at = "invalidate"
    /\ policy' = [policy EXCEPT !.gen = 0]
    /\ invitation' = Cancelled
    /\ Go(q, IF request[q].op = "setup" THEN "policy" ELSE "unmail")
    /\ UNCHANGED <<account, config, mail, Signs, lock, Bounds, faults>>

Fresh(g) == /\ invitation[g].state = "none"
            /\ \A q \in Requests : ~(request[q].gen = g /\ request[q].op = "setup")

\* The generation after the newest one.
Follows(g) == \A h \in Generations : IF h >= g THEN Fresh(h) ELSE h = g - 1 => ~Fresh(h)

\* setMfaPolicy: a new generation, or no authenticator at all.
SetsPolicy(q) ==
    /\ request[q].at = "policy"
    /\ IF request[q].op = "setup"
       THEN \E g \in Generations :
              /\ Follows(g)
              /\ policy' = IF account.status = "deleted" THEN policy
                           ELSE [mode |-> "authenticator", app |-> request[q].app, gen |-> g]
              /\ request' = [request EXCEPT ![q].gen = g,
                                 ![q].at = IF request[q].clears THEN "clear" ELSE "invite"]
       ELSE /\ policy' = NoPolicy
            /\ request' = [request EXCEPT ![q].at = "invalidate",
                                          ![q].clears = config # NoConfig \/ policy.mode = "authenticator"]
    /\ UNCHANGED <<account, config, Mail, Signs, lock, Bounds, faults>>

Clears(q) ==
    /\ request[q].at = "clear"
    /\ config' = NoConfig /\ challenge' = Cleared
    /\ IF request[q].clears THEN Go(q, "revoke") /\ UNCHANGED lock ELSE End(q)
    /\ UNCHANGED <<account, policy, Mail, session, Bounds, faults>>

\* createMfaInvitation: a transaction that insists on the current policy.
Invites(q) ==
    LET r == request[q] IN
    /\ r.at = "invite"
    /\ IF policy = [mode |-> "authenticator", app |-> r.app, gen |-> r.gen]
       THEN /\ invitation' = [Cancelled EXCEPT ![r.gen] =
                                 [state |-> "live", app |-> r.app, attempts |-> 0]]
            /\ Go(q, "mail")
       ELSE UNCHANGED invitation /\ Go(q, "undo")
    /\ UNCHANGED <<account, Factor, mail, Signs, lock, Bounds, faults>>

\* enqueueEmail: a mail that is still queued for the user is taken for this one.
Mails(q) ==
    /\ request[q].at = "mail"
    /\ mail' = IF \E g \in Generations : mail[g] = "queued" THEN mail
               ELSE [mail EXCEPT ![request[q].gen] = "queued"]
    /\ End(q)
    /\ UNCHANGED <<account, Factor, invitation, Signs, Bounds, faults>>

\* The catch of queueMfaEnrollmentInvitation.
Undoes(q) ==
    /\ request[q].at = "undo"
    /\ policy' = [policy EXCEPT !.gen = 0] /\ invitation' = Cancelled
    /\ End(q)
    /\ UNCHANGED <<account, config, mail, Signs, Bounds, faults>>

\* The administrator cancels the queued mail, then its invitation goes.
CancelMail(q) ==
    \E g \in Generations :
        /\ mail[g] = "queued"
        /\ Start(q, [Idle EXCEPT !.op = "cancel", !.at = "cancelMail", !.gen = g])

CancelsMail(q) ==
    LET g == request[q].gen IN
    /\ request[q].at \in {"cancelMail", "cancelInvitation"}
    /\ IF request[q].at = "cancelMail"
       THEN /\ UNCHANGED invitation
            /\ IF mail[g] = "queued"
               THEN mail' = [mail EXCEPT ![g] = "cancelled"] /\ Go(q, "cancelInvitation") /\ UNCHANGED lock
               ELSE UNCHANGED mail /\ End(q)
       ELSE /\ invitation' = IF invitation[g].state = "live"
                             THEN [invitation EXCEPT ![g].state = "cancelled"] ELSE invitation
            /\ UNCHANGED mail /\ End(q)
    /\ UNCHANGED <<account, Factor, Signs, Bounds, faults>>

-----------------------------------------------------------------------------
(* PATCH and DELETE /users/:username, POST /users. *)

\* What the request writes back is what it read, where it was not asked to change
\* it: the status and the password too.
Patch(q) ==
    /\ account.status # "deleted"
    /\ \E to \in {"active", "suspended"}, email, access \in BOOLEAN :
        LET suspends == account.status = "active" /\ to = "suspended"
            invalidates == Pending /\ (email \/ suspends)
            rotates == email /\ account.temporary # "none" IN
        Start(q, [Idle EXCEPT !.op = "patch", !.to = to, !.seen = account.password,
                              !.clears = invalidates, !.rotates = rotates,
                              !.code = IF suspends \/ rotates \/ access THEN 1 ELSE 0,
                              !.at = IF invalidates \/ suspends \/ rotates \/ access
                                     THEN "lock" ELSE "save"])

\* POST /users for an account that exists: without the lock, and the sessions end only
\* when the access changes.
Post(q) ==
    /\ account.status # "deleted"
    /\ \E to \in {"active", "suspended"}, access \in BOOLEAN :
        Start(q, [Idle EXCEPT !.op = "post", !.at = "save", !.to = to, !.seen = account.password,
                              !.code = IF access THEN 1 ELSE 0])

\* upsertUser; nothing comes of it when the account was deleted meanwhile but a new
\* account of the same name, which is left out here.
Saves(q) ==
    LET r == request[q] IN
    /\ r.at = "save"
    /\ account' = IF account.status = "deleted" THEN account
                  ELSE [account EXCEPT !.status = r.to,
                                       !.password = IF r.rotates THEN "temporary" ELSE r.seen]
    /\ undone' = (undone \/ (~r.rotates /\ (Generated <=> r.seen # "temporary")))
    /\ IF r.rotates THEN Go(q, "credential") /\ UNCHANGED lock
       ELSE IF r.code = 1 THEN Go(q, "revoke") /\ UNCHANGED lock
       ELSE End(q)
    /\ UNCHANGED <<Factor, Mail, Signs, overtaken, starts, faults>>

Delete(q) ==
    /\ account.status # "deleted"
    /\ Start(q, [Idle EXCEPT !.op = "delete", !.at = "lock"])

\* The mails are cancelled; the account goes with everything that refers to it.
Deletes(q) ==
    /\ request[q].at = "delete"
    /\ mail' = Unmailed
    /\ account' = [account EXCEPT !.status = "deleted", !.temporary = "none"]
    /\ policy' = NoPolicy /\ config' = NoConfig
    /\ invitation' = Cancelled /\ challenge' = Cleared /\ session' = Revoked
    /\ End(q)
    /\ UNCHANGED <<Bounds, faults>>

-----------------------------------------------------------------------------
(* Enrollment: the user. POST /mfa/enrollment/confirm. *)

\* loadValidInvitation, for an invitation that was mailed; the code is right or not.
Confirm(q) ==
    \E g \in Generations, code \in Codes \cup {0} :
        /\ mail[g] = "sent" /\ Usable(g) /\ account.status = "active" /\ config = NoConfig
        /\ Start(q, [Idle EXCEPT !.op = "confirm", !.gen = g, !.code = code,
                                 !.at = IF code = 0 THEN "failure" ELSE "lock"])

\* recordMfaInvitationFailure
CountsFailure(q) ==
    LET g == request[q].gen IN
    /\ request[q].at = "failure"
    /\ invitation' = IF ~Usable(g) THEN invitation
                     ELSE [invitation EXCEPT ![g].attempts = @ + 1,
                               ![g].state = IF invitation[g].attempts + 1 >= MaxAttempts
                                            THEN "consumed" ELSE "live"]
    /\ End(q)
    /\ UNCHANGED <<account, Factor, mail, Signs, Bounds, faults>>

\* completeMfaInvitation, one transaction; the lock is released, then the mails go.
Completes(q) ==
    LET g == request[q].gen IN
    /\ request[q].at = "complete"
    /\ IF Usable(g) /\ account.status = "active"
       THEN /\ config' = [gen |-> g, used |-> request[q].code]
            /\ policy' = [policy EXCEPT !.gen = 0]
            /\ invitation' = [invitation EXCEPT ![g].state = "consumed"]
            /\ session' = Revoked
            /\ Go(q, "unmail") /\ lock' = "free"
       ELSE UNCHANGED <<config, policy, invitation, session>> /\ End(q)
    /\ UNCHANGED <<account, mail, challenge, Bounds, faults>>

-----------------------------------------------------------------------------
(* Time, the mail worker and failures. *)

Expires ==
    /\ \/ \E g \in Generations : /\ invitation[g].state = "live"
                                 /\ invitation' = [invitation EXCEPT ![g].state = "expired"]
                                 /\ UNCHANGED <<account, challenge>>
       \/ /\ account.temporary = "valid" /\ account' = [account EXCEPT !.temporary = "expired"]
          /\ UNCHANGED <<invitation, challenge>>
       \/ \E c \in DOMAIN challenge : /\ challenge[c].state = "live"
                                      /\ challenge' = [challenge EXCEPT ![c].state = "gone"]
                                      /\ UNCHANGED <<account, invitation>>
    /\ UNCHANGED <<Factor, mail, session, lock, request, Bounds, faults>>

WorkerEnds(g) ==
    /\ mail[g] = "queued"
    /\ \E end \in {"sent", "failed"} : mail' = [mail EXCEPT ![g] = end]
    /\ UNCHANGED <<account, Factor, invitation, Signs, lock, request, Bounds, faults>>

\* A call fails: the request ends where it is, with its lock released; only the
\* request for an enrollment undoes what it did since it set the policy.
Fails(q) ==
    /\ request[q].at \notin {"idle", "undo"} /\ faults < MaxFaults /\ faults' = faults + 1
    /\ IF request[q].op = "setup" /\ request[q].gen # 0
       THEN Go(q, "undo") /\ UNCHANGED lock ELSE End(q)
    /\ UNCHANGED <<account, Factor, Mail, Signs, Bounds>>

-----------------------------------------------------------------------------

Begins(q) ==
    \/ Login(q) \/ (\E c \in DOMAIN challenge : Mfa(q, c) \/ Change(q, c))
    \/ Reset(q) \/ Setup(q) \/ Resend(q) \/ Disable(q) \/ Patch(q) \/ Post(q) \/ Delete(q)
    \/ CancelMail(q) \/ Confirm(q)

SignsIn(q) ==
    \/ Upgrades(q) \/ LoginFactor(q) \/ OpensChallenge(q) \/ ReadsTemporary(q) \/ OpensSession(q)
    \/ MarksCode(q) \/ Refuses(q) \/ TakesChallenge(q) \/ ReadsUser(q)
    \/ SetsPassword(q) \/ SetsCredential(q) \/ Revokes(q)

Enrolls(q) ==
    \/ Locks(q) \/ Unmails(q) \/ Invalidates(q) \/ SetsPolicy(q) \/ Clears(q) \/ Invites(q)
    \/ Mails(q) \/ Undoes(q) \/ CancelsMail(q) \/ Saves(q) \/ Deletes(q)
    \/ CountsFailure(q) \/ Completes(q)

Next ==
    \/ \E q \in Requests : Begins(q) \/ SignsIn(q) \/ Enrolls(q) \/ Fails(q)
    \/ \E s \in DOMAIN session : Logout(s)
    \/ \E g \in Generations : WorkerEnds(g)
    \/ Expires

Spec == Init /\ [][Next]_vars

-----------------------------------------------------------------------------
(* Properties. *)

TypeOK ==
    /\ account \in [status : Statuses, password : {"legacy", "own", "temporary"},
                    temporary : {"none", "valid", "expired"}]
    /\ policy \in [mode : {"disabled", "authenticator"}, app : Providers \cup {"none"},
                   gen : {0} \cup Generations]
    /\ config \in [gen : {0} \cup Generations, used : {0} \cup Codes]
    /\ \A g \in Generations : /\ invitation[g].state \in {"none", "live", "consumed", "cancelled", "expired"}
                              /\ invitation[g].attempts \in 0 .. MaxAttempts
                              /\ mail[g] \in {"none", "queued", "sent", "failed", "cancelled"}
    /\ lock \in Requests \cup {"free"}
    /\ \A q \in Requests : lock = q => request[q].op \in {"setup", "disable", "patch", "delete", "confirm"}

\* An authenticator is enrolled from the newest invitation there is, before it was
\* used, cancelled or tried too often, and for an account that is active; whatever
\* invitations, cancellations, resets and other confirmations come in between.
NewestEnrolls ==
    [][config'.gen # config.gen /\ config'.gen # 0 =>
        LET g == config'.gen IN
        /\ invitation[g].state = "live" /\ invitation[g].attempts < MaxAttempts
        /\ \A h \in Generations : h > g => invitation[h].state = "none"
        /\ account.status = "active"]_vars

\* Neither a challenge nor a code of an authenticator opens a second session, when
\* they are sent again before, during or after the first use.
FactorsUsedOnce ==
    \A s, t \in DOMAIN session : s # t =>
        /\ session[s].challenge # 0 => session[s].challenge # session[t].challenge
        /\ session[s].code # 0 => <<session[s].gen, session[s].code>> # <<session[t].gen, session[t].code>>

\* A session does not outlive what ends it, whatever sign-ins are under way. A deleted
\* account has none, and none is opened for it any more. Once a generated password has
\* its credential and the sessions were ended, there is none until the password is
\* changed: of the sign-ins under way only those past their last check, which the
\* credential came too late for, still open one.
SessionsEnd ==
    /\ account.status = "deleted" => Live = {}
    /\ account.temporary # "none" =>
        \/ \A s \in Live : session[s].late
        \/ faults > 0 \/ \E q \in Requests : request[q].at = "revoke"

\* The password and the credential that makes the user change it agree, whichever resets,
\* rotations, changes and old records that are written back overlap: a generated password
\* does not stay, and one the user chose does not expire. There is one exception beside a
\* failed call: a write that undoes another, by putting back a record it has read before,
\* or the credential of a password that another request has replaced.
TemporaryIsReplaced ==
    \/ Generated <=> account.temporary # "none"
    \/ account.status = "deleted" \/ undone \/ faults > 0
    \/ \E q \in Requests : request[q].at = "credential"

=============================================================================
