------------------------- MODULE AuthAccounts_proofs -------------------------
(***************************************************************************)
(* For any number of requests, invitations, challenges and sessions:       *)
(* factors are used once, the newest invitation enrolls, a generated       *)
(* password and its credential agree, and no session outlives what ends it.*)
(***************************************************************************)
EXTENDS AuthAccounts, TLAPS

ChallengeType == [purpose : {"login", "change"}, state : {"live", "used", "gone"}, attempts : Nat]
SessionType == [live : BOOLEAN, challenge : Nat, gen : Nat, code : Nat, late : BOOLEAN]
InvitationType ==
    [state : {"none", "live", "consumed", "cancelled", "expired"}, app : Providers,
     attempts : 0 .. MaxAttempts]
MailType == {"none", "queued", "sent", "failed", "cancelled"}
PolicyType == [mode : {"disabled", "authenticator"}, app : Providers \cup {"none"},
               gen : {0} \cup Generations]
Passwords == {"legacy", "own", "temporary"}
AccountType == [status : Statuses, password : Passwords,
                temporary : {"none", "valid", "expired"}]

\* How far a request of each kind can have come.
Stages(op) ==
    CASE op = "none" -> {"idle"}
      [] op = "login" -> {"upgrade", "factor", "challenge", "temporary", "newPassword", "session"}
      [] op = "mfa" -> {"refused", "mark", "take", "user", "temporary", "newPassword", "session"}
      [] op = "change" -> {"refused", "take", "password", "credential", "revoke", "session"}
      [] op = "reset" -> {"password", "credential", "revoke"}
      [] op = "patch" -> {"lock", "invalidate", "unmail", "save", "credential", "revoke"}
      [] op = "post" -> {"save", "revoke"}
      [] op = "delete" -> {"lock", "delete"}
      [] op = "setup" -> {"lock", "unmail", "invalidate", "policy", "clear", "revoke", "invite",
                          "mail", "undo"}
      [] op = "disable" -> {"lock", "policy", "invalidate", "unmail", "clear", "revoke"}
      [] op = "confirm" -> {"failure", "lock", "complete", "unmail"}
      [] op = "cancel" -> {"cancelMail", "cancelInvitation"}

Ops == {"none", "login", "mfa", "change", "reset", "patch", "post", "delete", "setup",
        "disable", "confirm", "cancel"}

Fields == {"op", "at", "gen", "app", "challenge", "code", "clears", "seen", "to", "rotates"}

\* What a request is, for the table of challenges and of sessions.
ReqOK(r, chs, ses) ==
    /\ DOMAIN r = Fields
    /\ r.op \in Ops /\ r.at \in Stages(r.op)
    /\ r.gen \in {0} \cup Generations
    /\ r.op \in {"confirm", "cancel"} => r.gen # 0
    /\ r.app \in Providers \cup {"none"} /\ (r.op = "setup" => r.app \in Providers)
    /\ r.code \in Nat
    /\ r.op \in {"mfa", "confirm"} => r.code \in {0} \cup Codes
    /\ r.op \in {"login", "change", "reset", "setup", "disable", "delete"} => r.code = 0
    /\ r.seen \in {"none", "resend"} \cup Passwords
    /\ r.op \in {"patch", "post"} => r.seen \in Passwords /\ r.to \in {"active", "suspended"}
    /\ r.rotates \in BOOLEAN /\ (r.op = "post" => ~r.rotates)
    /\ IF r.op \in {"mfa", "change"} THEN r.challenge \in DOMAIN chs ELSE r.challenge = 0

Requesting == \A q \in Requests : ReqOK(request[q], challenge, session)

LockHeld ==
    /\ lock \in Requests \cup {"free"}
    /\ \A q \in Requests : lock = q =>
        request[q].op \in {"setup", "disable", "patch", "delete", "confirm"}

Tables ==
    /\ account \in AccountType /\ policy \in PolicyType
    /\ policy.mode = "authenticator" => policy.app \in Providers
    /\ config \in [gen : {0} \cup Generations, used : {0} \cup Codes]
    /\ config.gen = 0 => config = NoConfig
    /\ invitation \in [Generations -> InvitationType] /\ mail \in [Generations -> MailType]
    /\ challenge \in Seq(ChallengeType) /\ session \in Seq(SessionType)

Typed == Tables /\ DOMAIN request = Requests /\ Requesting /\ LockHeld

-----------------------------------------------------------------------------
(* Steps of a request. *)

LEMMA IdleOK ==
    ASSUME NEW chs, NEW ses
    PROVE  ReqOK(Idle, chs, ses)
  BY DEF ReqOK, Idle, Fields, Ops, Stages

LEMMA StageOK ==
    ASSUME NEW r, NEW chs, NEW ses, ReqOK(r, chs, ses), NEW at \in Stages(r.op)
    PROVE  LET t == [r EXCEPT !.at = at] IN
           /\ ReqOK(t, chs, ses) /\ t.at = at
           /\ \A x \in Fields \ {"at"} : t[x] = r[x]
  BY DEF ReqOK, Fields

LEMMA LargerOK ==
    ASSUME NEW r, NEW chs, NEW ses, ReqOK(r, chs, ses), NEW chs2, NEW ses2,
           DOMAIN chs \subseteq DOMAIN chs2, DOMAIN ses \subseteq DOMAIN ses2
    PROVE  ReqOK(r, chs2, ses2)
  BY DEF ReqOK

Grow == DOMAIN challenge \subseteq DOMAIN challenge' /\ DOMAIN session \subseteq DOMAIN session'

\* A request becomes another one, as its kind allows.
LEMMA Becomes ==
    ASSUME Typed, Grow, NEW q \in Requests, NEW r,
           request' = [request EXCEPT ![q] = r], ReqOK(r, challenge', session'),
           \/ lock' \in {lock, "free"}
              /\ (lock' = q => r.op \in {"setup", "disable", "patch", "delete", "confirm"})
           \/ lock' = q /\ r.op \in {"setup", "disable", "patch", "delete", "confirm"}
    PROVE  /\ DOMAIN request' = Requests /\ Requesting' /\ LockHeld'
           /\ request'[q] = r /\ \A p \in Requests \ {q} : request'[p] = request[p]
  <1>1. /\ DOMAIN request' = Requests /\ request'[q] = r
        /\ \A p \in Requests \ {q} : request'[p] = request[p]
    BY DEF Typed
  <1>2. Requesting'
    BY <1>1, LargerOK DEF Typed, Requesting, Grow
  <1>3. LockHeld'
    BY <1>1, AccountsAssumption DEF Typed, LockHeld
  <1> QED BY <1>1, <1>2, <1>3

LEMMA GoStep ==
    ASSUME Typed, Grow, NEW q \in Requests, NEW at \in Stages(request[q].op), Go(q, at),
           UNCHANGED lock
    PROVE  /\ DOMAIN request' = Requests /\ Requesting' /\ LockHeld'
           /\ request'[q] = [request[q] EXCEPT !.at = at]
           /\ \A p \in Requests \ {q} : request'[p] = request[p]
  <1> DEFINE r == [request[q] EXCEPT !.at = at]
  <1>1. request' = [request EXCEPT ![q] = r]
    BY DEF Go, Typed
  <1>2. ReqOK(r, challenge, session) /\ r.op = request[q].op
    BY StageOK DEF Typed, Requesting, Fields
  <1> HIDE DEF r
  <1>3. ReqOK(r, challenge', session')
    BY <1>2, LargerOK DEF Grow
  <1>4. lock = q => r.op \in {"setup", "disable", "patch", "delete", "confirm"}
    BY <1>2 DEF Typed, LockHeld
  <1>5. /\ DOMAIN request' = Requests /\ Requesting' /\ LockHeld'
        /\ request'[q] = r /\ \A p \in Requests \ {q} : request'[p] = request[p]
    BY <1>1, <1>3, <1>4, Becomes
  <1> QED BY <1>5 DEF r

LEMMA EndStep ==
    ASSUME Typed, Grow, NEW q \in Requests, End(q)
    PROVE  /\ DOMAIN request' = Requests /\ Requesting' /\ LockHeld'
           /\ request'[q] = Idle /\ \A p \in Requests \ {q} : request'[p] = request[p]
  <1>1. q # "free"
    BY AccountsAssumption
  <1>2. lock' \in {lock, "free"} /\ lock' # q /\ request' = [request EXCEPT ![q] = Idle]
    BY <1>1 DEF End
  <1> QED BY <1>2, IdleOK, Becomes

LEMMA StartStep ==
    ASSUME Typed, NEW q \in Requests, NEW r, Start(q, r),
           ReqOK(r, challenge, session)
    PROVE  Typed'
  <1>1. request' = [request EXCEPT ![q] = r] /\ UNCHANGED <<account, Factor, Mail, Signs, lock>>
        /\ request[q].at = "idle"
    BY DEF Start
  <1>2. ReqOK(r, challenge', session') /\ Grow /\ Tables'
    BY <1>1 DEF Signs, Factor, Mail, Typed, Tables, Grow
  <1>3. lock # q
    BY <1>1 DEF Typed, LockHeld, Requesting, ReqOK, Stages
  <1> QED BY <1>1, <1>2, <1>3, Becomes DEF Typed

-----------------------------------------------------------------------------
(* Types: requests that start. *)

LEMMA BeginsTyped ==
    ASSUME Typed, NEW q \in Requests, Begins(q)
    PROVE  Typed'
  <1>0. ASSUME NEW r, Start(q, r), ReqOK(r, challenge, session) PROVE Typed'
    BY <1>0, StartStep
  <1>1. CASE Login(q)
    <2>1. PICK at \in {"upgrade", "factor"} : Start(q, [Idle EXCEPT !.op = "login", !.at = at])
      BY <1>1 DEF Login
    <2> DEFINE r == [Idle EXCEPT !.op = "login", !.at = at]
    <2>2. DOMAIN r = Fields /\ ReqOK(r, challenge, session)
      BY DEF ReqOK, Idle, Fields, Ops, Stages
    <2> QED BY <1>0, <2>1, <2>2
  <1>2. ASSUME NEW c \in DOMAIN challenge, Mfa(q, c) PROVE Typed'
    <2>1. PICK code \in Codes \cup {0}, at \in {"refused", "mark"} :
            Start(q, [Idle EXCEPT !.op = "mfa", !.at = at, !.challenge = c, !.code = code,
                                  !.gen = config.gen])
      BY <1>2 DEF Mfa
    <2> DEFINE r == [Idle EXCEPT !.op = "mfa", !.at = at, !.challenge = c, !.code = code,
                                 !.gen = config.gen]
    <2>2. config.gen \in {0} \cup Generations /\ code \in Nat
      BY AccountsAssumption DEF Typed, Tables
    <2>3. DOMAIN r = Fields /\ ReqOK(r, challenge, session)
      BY <2>2 DEF ReqOK, Idle, Fields, Ops, Stages
    <2> QED BY <1>0, <2>1, <2>3
  <1>3. ASSUME NEW c \in DOMAIN challenge, Change(q, c) PROVE Typed'
    <2>1. PICK at \in {"refused", "take"} :
            Start(q, [Idle EXCEPT !.op = "change", !.at = at, !.challenge = c])
      BY <1>3 DEF Change
    <2> DEFINE r == [Idle EXCEPT !.op = "change", !.at = at, !.challenge = c]
    <2>2. DOMAIN r = Fields /\ ReqOK(r, challenge, session)
      BY DEF ReqOK, Idle, Fields, Ops, Stages
    <2> QED BY <1>0, <2>1, <2>2
  <1>4. CASE Reset(q)
    <2> DEFINE r == [Idle EXCEPT !.op = "reset", !.at = "password"]
    <2>1. Start(q, r)
      BY <1>4 DEF Reset
    <2>2. DOMAIN r = Fields /\ ReqOK(r, challenge, session)
      BY DEF ReqOK, Idle, Fields, Ops, Stages
    <2> QED BY <1>0, <2>1, <2>2
  <1>5. CASE Setup(q)
    <2>1. PICK app \in Providers, clears \in BOOLEAN :
            Start(q, [Idle EXCEPT !.op = "setup", !.at = "lock", !.app = app, !.clears = clears])
      BY <1>5 DEF Setup
    <2> DEFINE r == [Idle EXCEPT !.op = "setup", !.at = "lock", !.app = app, !.clears = clears]
    <2>2. DOMAIN r = Fields /\ ReqOK(r, challenge, session)
      BY DEF ReqOK, Idle, Fields, Ops, Stages
    <2> QED BY <1>0, <2>1, <2>2
  <1>6. CASE Resend(q)
    <2> DEFINE r == [Idle EXCEPT !.op = "setup", !.at = "lock", !.app = policy.app, !.seen = "resend"]
    <2>1. Start(q, r) /\ policy.mode = "authenticator"
      BY <1>6 DEF Resend, Pending
    <2>2. policy.app \in Providers
      BY <2>1 DEF Typed, Tables
    <2>3. DOMAIN r = Fields /\ ReqOK(r, challenge, session)
      BY <2>2 DEF ReqOK, Idle, Fields, Ops, Stages
    <2> QED BY <1>0, <2>1, <2>3
  <1>7. CASE Disable(q)
    <2> DEFINE r == [Idle EXCEPT !.op = "disable", !.at = "lock"]
    <2>1. Start(q, r)
      BY <1>7 DEF Disable
    <2>2. DOMAIN r = Fields /\ ReqOK(r, challenge, session)
      BY DEF ReqOK, Idle, Fields, Ops, Stages
    <2> QED BY <1>0, <2>1, <2>2
  <1>8. CASE Patch(q)
    <2>1. PICK to \in {"active", "suspended"}, email \in BOOLEAN, access \in BOOLEAN :
            LET suspends == account.status = "active" /\ to = "suspended"
                invalidates == Pending /\ (email \/ suspends)
                rotates == email /\ account.temporary # "none" IN
            Start(q, [Idle EXCEPT !.op = "patch", !.to = to, !.seen = account.password,
                                  !.clears = invalidates, !.rotates = rotates,
                                  !.code = IF suspends \/ rotates \/ access THEN 1 ELSE 0,
                                  !.at = IF invalidates \/ suspends \/ rotates \/ access
                                         THEN "lock" ELSE "save"])
      BY <1>8, Zenon DEF Patch
    <2> DEFINE suspends == account.status = "active" /\ to = "suspended"
               invalidates == Pending /\ (email \/ suspends)
               rotates == email /\ account.temporary # "none"
               code == IF suspends \/ rotates \/ access THEN 1 ELSE 0
               at == IF invalidates \/ suspends \/ rotates \/ access THEN "lock" ELSE "save"
               r == [Idle EXCEPT !.op = "patch", !.to = to, !.seen = account.password,
                                 !.clears = invalidates, !.rotates = rotates, !.code = code,
                                 !.at = at]
    <2>2. Start(q, r)
      BY <2>1
    <2>3. /\ account.password \in Passwords /\ code \in {0, 1} /\ at \in {"lock", "save"}
          /\ rotates \in BOOLEAN
      BY DEF Typed, Tables, AccountType
    <2> HIDE DEF code, at, rotates, invalidates
    <2>4. /\ DOMAIN r = Fields /\ r.op = "patch" /\ r.at = at /\ r.seen = account.password
          /\ r.to = to /\ r.rotates = rotates
      BY DEF Idle, Fields
    <2>5. r.code = code /\ r.gen = 0 /\ r.app = "none" /\ r.challenge = 0
      BY DEF Idle, Fields
    <2> HIDE DEF r
    <2>6. r.at \in Stages(r.op)
      BY <2>3, <2>4 DEF Stages
    <2>7. ReqOK(r, challenge, session)
      BY <2>3, <2>4, <2>5, <2>6 DEF ReqOK, Ops
    <2> QED BY <1>0, <2>2, <2>7
  <1>9. CASE Delete(q)
    <2> DEFINE r == [Idle EXCEPT !.op = "delete", !.at = "lock"]
    <2>1. Start(q, r)
      BY <1>9 DEF Delete
    <2>2. DOMAIN r = Fields /\ ReqOK(r, challenge, session)
      BY DEF ReqOK, Idle, Fields, Ops, Stages
    <2> QED BY <1>0, <2>1, <2>2
  <1>10. CASE CancelMail(q)
    <2>1. PICK g \in Generations :
            Start(q, [Idle EXCEPT !.op = "cancel", !.at = "cancelMail", !.gen = g])
      BY <1>10 DEF CancelMail
    <2> DEFINE r == [Idle EXCEPT !.op = "cancel", !.at = "cancelMail", !.gen = g]
    <2>2. DOMAIN r = Fields /\ ReqOK(r, challenge, session)
      BY DEF ReqOK, Idle, Fields, Ops, Stages, Generations
    <2> QED BY <1>0, <2>1, <2>2
  <1>11. CASE Confirm(q)
    <2>1. PICK g \in Generations, code \in Codes \cup {0}, at \in {"failure", "lock"} :
            Start(q, [Idle EXCEPT !.op = "confirm", !.gen = g, !.code = code, !.at = at])
      BY <1>11 DEF Confirm
    <2> DEFINE r == [Idle EXCEPT !.op = "confirm", !.gen = g, !.code = code, !.at = at]
    <2>2. g # 0 /\ code \in Nat
      BY AccountsAssumption DEF Generations
    <2>3. DOMAIN r = Fields /\ ReqOK(r, challenge, session)
      BY <2>2 DEF ReqOK, Idle, Fields, Ops, Stages
    <2> QED BY <1>0, <2>1, <2>3
  <1>12. CASE Post(q)
    <2>1. PICK to \in {"active", "suspended"}, code \in {0, 1} :
            Start(q, [Idle EXCEPT !.op = "post", !.at = "save", !.to = to,
                                  !.seen = account.password, !.code = code])
      BY <1>12 DEF Post
    <2> DEFINE r == [Idle EXCEPT !.op = "post", !.at = "save", !.to = to,
                                 !.seen = account.password, !.code = code]
    <2>2. account.password \in Passwords
      BY DEF Typed, Tables, AccountType
    <2>3. DOMAIN r = Fields /\ ReqOK(r, challenge, session)
      BY <2>2 DEF ReqOK, Idle, Fields, Ops, Stages
    <2> QED BY <1>0, <2>1, <2>3
  <1> QED BY <1>1, <1>2, <1>3, <1>4, <1>5, <1>6, <1>7, <1>8, <1>9, <1>10, <1>11, <1>12 DEF Begins

-----------------------------------------------------------------------------
(* Types: the tables, and the requests that go on. *)

\* Which requests come to which calls.
LEMMA KindOf ==
    ASSUME NEW r, r.op \in Ops, r.at \in Stages(r.op)
    PROVE  /\ r.at = "idle" => r.op = "none"
           /\ r.at \in {"upgrade", "factor", "challenge"} => r.op = "login"
           /\ r.at \in {"temporary", "newPassword"} => r.op \in {"login", "mfa"}
           /\ r.at = "session" => r.op \in {"login", "mfa", "change"}
           /\ r.at \in {"mark", "user"} => r.op = "mfa"
           /\ r.at \in {"refused", "take"} => r.op \in {"mfa", "change"}
           /\ r.at = "password" => r.op \in {"change", "reset"}
           /\ r.at = "credential" => r.op \in {"change", "reset", "patch"}
           /\ r.at = "revoke" => r.op \in {"change", "reset", "patch", "post", "setup", "disable"}
           /\ r.at = "save" => r.op \in {"patch", "post"}
           /\ r.at = "lock" => r.op \in {"patch", "delete", "setup", "disable", "confirm"}
           /\ r.at = "unmail" => r.op \in {"patch", "setup", "disable", "confirm"}
           /\ r.at = "invalidate" => r.op \in {"patch", "setup", "disable"}
           /\ r.at \in {"policy", "clear"} => r.op \in {"setup", "disable"}
           /\ r.at \in {"invite", "mail", "undo"} => r.op = "setup"
           /\ r.at \in {"failure", "complete"} => r.op = "confirm"
           /\ r.at = "delete" => r.op = "delete"
           /\ r.at \in {"cancelMail", "cancelInvitation"} => r.op = "cancel"
  BY DEF Ops, Stages

LEMMA KindOfRequest ==
    ASSUME Typed, NEW q \in Requests
    PROVE  request[q].op \in Ops /\ request[q].at \in Stages(request[q].op)
  BY DEF Typed, Requesting, ReqOK

LEMMA RevokedOK ==
    ASSUME Tables
    PROVE  /\ Revoked \in Seq(SessionType) /\ DOMAIN Revoked = DOMAIN session
           /\ \A s \in DOMAIN session :
                /\ ~Revoked[s].live /\ Revoked[s].challenge = session[s].challenge
                /\ Revoked[s].gen = session[s].gen /\ Revoked[s].code = session[s].code
  <1>1. session \in Seq(SessionType) /\ DOMAIN session = 1 .. Len(session) /\ Len(session) \in Nat
    BY DEF Tables
  <1>2. \A s \in DOMAIN session : session[s] \in SessionType
    BY <1>1
  <1>3. \A s \in DOMAIN session : [session[s] EXCEPT !.live = FALSE] \in SessionType
    BY <1>2 DEF SessionType
  <1>4. Revoked \in [1 .. Len(session) -> SessionType]
    BY <1>1, <1>3 DEF Revoked
  <1>5. Revoked \in Seq(SessionType) /\ DOMAIN Revoked = DOMAIN session
    BY <1>1, <1>4
  <1>6. ASSUME NEW s \in DOMAIN session
        PROVE  /\ ~Revoked[s].live /\ Revoked[s].challenge = session[s].challenge
               /\ Revoked[s].gen = session[s].gen /\ Revoked[s].code = session[s].code
    BY <1>2 DEF Revoked, SessionType
  <1> QED BY <1>5, <1>6

LEMMA ClearedOK ==
    ASSUME Tables
    PROVE  /\ Cleared \in Seq(ChallengeType) /\ DOMAIN Cleared = DOMAIN challenge
           /\ \A c \in DOMAIN challenge : Cleared[c].state = "gone"
  <1>1. challenge \in Seq(ChallengeType) /\ DOMAIN challenge = 1 .. Len(challenge)
        /\ Len(challenge) \in Nat
    BY DEF Tables
  <1>2. \A c \in DOMAIN challenge : challenge[c] \in ChallengeType
    BY <1>1
  <1>3. \A c \in DOMAIN challenge : /\ [challenge[c] EXCEPT !.state = "gone"] \in ChallengeType
                                    /\ [challenge[c] EXCEPT !.state = "gone"].state = "gone"
    BY <1>2 DEF ChallengeType
  <1>4. Cleared \in [1 .. Len(challenge) -> ChallengeType]
    BY <1>1, <1>3 DEF Cleared
  <1>5. Cleared \in Seq(ChallengeType) /\ DOMAIN Cleared = DOMAIN challenge
    BY <1>1, <1>4
  <1>6. ASSUME NEW c \in DOMAIN challenge PROVE Cleared[c].state = "gone"
    BY <1>3 DEF Cleared
  <1> QED BY <1>5, <1>6

LEMMA CancelledOK ==
    ASSUME Tables
    PROVE  /\ Cancelled \in [Generations -> InvitationType]
           /\ \A g \in Generations :
                /\ Cancelled[g].state = "none" <=> invitation[g].state = "none"
                /\ Cancelled[g].state = "consumed" <=> invitation[g].state = "consumed"
                /\ Cancelled[g].state # "live"
  <1>1. \A g \in Generations : invitation[g] \in InvitationType
    BY DEF Tables
  <1>2. \A g \in Generations :
          /\ [invitation[g] EXCEPT !.state = "cancelled"] \in InvitationType
          /\ [invitation[g] EXCEPT !.state = "cancelled"].state = "cancelled"
    BY <1>1 DEF InvitationType
  <1> QED BY <1>1, <1>2 DEF Cancelled

LEMMA UnmailedOK ==
    ASSUME Tables
    PROVE  Unmailed \in [Generations -> MailType]
  BY DEF Tables, Unmailed, MailType

LEMMA SameTables ==
    ASSUME Typed, UNCHANGED <<account, Factor, Mail, Signs>>
    PROVE  Tables' /\ Grow
  BY DEF Typed, Tables, Factor, Mail, Signs, Grow


\* A request that goes on or ends, with the tables as they may become.
LEMMA StepTyped ==
    ASSUME Typed, Tables', Grow, NEW q \in Requests,
           \/ \E at \in Stages(request[q].op) : Go(q, at) /\ UNCHANGED lock
           \/ End(q)
    PROVE  Typed'
  BY GoStep, EndStep DEF Typed

LEMMA AttemptOK ==
    ASSUME Tables, NEW c \in DOMAIN challenge, NEW n \in Nat, NEW st \in {"live", "used", "gone"}
    PROVE  LET chs == [challenge EXCEPT ![c].attempts = n, ![c].state = st] IN
           /\ chs \in Seq(ChallengeType) /\ DOMAIN chs = DOMAIN challenge
           /\ chs[c].state = st /\ chs[c].purpose = challenge[c].purpose
           /\ \A d \in DOMAIN challenge \ {c} : chs[d] = challenge[d]
  <1>1. challenge \in Seq(ChallengeType) /\ challenge[c] \in ChallengeType
    BY DEF Tables
  <1> DEFINE e == [challenge[c] EXCEPT !.attempts = n, !.state = st]
             chs == [challenge EXCEPT ![c].attempts = n, ![c].state = st]
  <1>2. e \in ChallengeType /\ e.state = st /\ e.purpose = challenge[c].purpose
    BY <1>1 DEF ChallengeType
  <1>3. chs = [challenge EXCEPT ![c] = e]
    BY <1>1 DEF ChallengeType
  <1> HIDE DEF e, chs
  <1>4. /\ chs \in Seq(ChallengeType) /\ DOMAIN chs = DOMAIN challenge /\ chs[c] = e
        /\ \A d \in DOMAIN challenge \ {c} : chs[d] = challenge[d]
    BY <1>1, <1>2, <1>3
  <1> QED BY <1>2, <1>4 DEF chs

LEMMA TakenOK ==
    ASSUME Tables, NEW c \in DOMAIN challenge, NEW st \in {"live", "used", "gone"}
    PROVE  LET chs == [challenge EXCEPT ![c].state = st] IN
           /\ chs \in Seq(ChallengeType) /\ DOMAIN chs = DOMAIN challenge
           /\ chs[c].state = st /\ chs[c].purpose = challenge[c].purpose
           /\ \A d \in DOMAIN challenge \ {c} : chs[d] = challenge[d]
  <1>1. challenge \in Seq(ChallengeType) /\ challenge[c] \in ChallengeType
    BY DEF Tables
  <1> QED BY <1>1 DEF ChallengeType

LEMMA SignsInTyped ==
    ASSUME Typed, NEW q \in Requests, SignsIn(q)
    PROVE  Typed'
  <1> DEFINE r == request[q]
  <1>0. Tables /\ ReqOK(r, challenge, session)
    BY DEF Typed, Requesting
  <1>k. r.op \in Ops /\ r.at \in Stages(r.op)
    BY KindOfRequest
  <1>1. CASE LoginFactor(q)
    <2>1. r.op = "login"
      BY <1>1, <1>k, KindOf DEF LoginFactor
    <2>2. \E at \in Stages(r.op) : Go(q, at)
      BY <1>1, <2>1 DEF LoginFactor, Stages
    <2>3. UNCHANGED <<account, Factor, Mail, Signs, lock>>
      BY <1>1 DEF LoginFactor
    <2> QED BY <2>2, <2>3, SameTables, StepTyped
  <1>2. CASE OpensChallenge(q)
    <2>1. End(q) /\ UNCHANGED <<account, Factor, Mail, session>>
      BY <1>2 DEF OpensChallenge
    <2>2. challenge' \in Seq(ChallengeType) /\ DOMAIN challenge \subseteq DOMAIN challenge'
      <3>1. CASE UNCHANGED challenge
        BY <3>1, <1>0 DEF Tables
      <3>2. CASE account.status # "deleted"
        <4>1. PICK p \in {"login", "change"} :
                challenge' = Append(challenge, [purpose |-> p, state |-> "live", attempts |-> 0])
          BY <1>2, <3>2 DEF OpensChallenge
        <4> DEFINE e == [purpose |-> p, state |-> "live", attempts |-> 0]
        <4>2. e \in ChallengeType
          BY DEF ChallengeType
        <4> HIDE DEF e
        <4> QED BY <4>1, <4>2, <1>0 DEF Tables, e
      <3> QED BY <1>2, <3>1, <3>2 DEF OpensChallenge
    <2> QED BY <2>1, <2>2, <1>0, StepTyped DEF Tables, Grow, Factor, Mail
  <1>3. CASE ReadsTemporary(q)
    <2>1. r.op \in {"login", "mfa"}
      BY <1>3, <1>k, KindOf DEF ReadsTemporary
    <2>2. (\E at \in Stages(r.op) : Go(q, at) /\ UNCHANGED lock) \/ End(q)
      BY <1>3, <2>1 DEF ReadsTemporary, Stages
    <2>3. UNCHANGED <<account, Factor, Mail, Signs>>
      BY <1>3 DEF ReadsTemporary
    <2> QED BY <2>2, <2>3, SameTables, StepTyped
  <1>4. CASE OpensSession(q)
    <2>1. End(q) /\ UNCHANGED <<account, Factor, Mail, challenge>>
      BY <1>4 DEF OpensSession
    <2>2. session' \in Seq(SessionType) /\ DOMAIN session \subseteq DOMAIN session'
      <3>1. CASE UNCHANGED session
        BY <3>1, <1>0 DEF Tables
      <3>2. CASE account.status # "deleted"
        <4> DEFINE e == [live |-> TRUE, challenge |-> r.challenge, gen |-> r.gen, code |-> r.code,
                      late |-> q \in overtaken]
        <4>1. session' = Append(session, e)
          BY <1>4, <3>2 DEF OpensSession
        <4>2. r.challenge \in Nat /\ r.gen \in Nat /\ r.code \in Nat
          BY <1>0, AccountsAssumption DEF ReqOK, Generations, Tables
        <4>3. e \in SessionType
          BY <4>2 DEF SessionType
        <4> HIDE DEF e
        <4> QED BY <4>1, <4>3, <1>0 DEF Tables
      <3> QED BY <1>4, <3>1, <3>2 DEF OpensSession
    <2> QED BY <2>1, <2>2, <1>0, StepTyped DEF Tables, Grow, Factor, Mail
  <1>5. CASE MarksCode(q)
    <2>1. r.op = "mfa" /\ UNCHANGED <<account, policy, Mail, Signs, lock>>
      BY <1>5, <1>k, KindOf DEF MarksCode
    <2>2. \E at \in Stages(r.op) : Go(q, at)
      BY <1>5, <2>1 DEF MarksCode, Stages
    <2>3. config' \in [gen : {0} \cup Generations, used : {0} \cup Codes]
          /\ (config'.gen = 0 => config' = NoConfig)
      <3>1. r.code \in {0} \cup Codes
        BY <1>0, <2>1 DEF ReqOK
      <3>2. CASE UNCHANGED config
        BY <3>2, <1>0 DEF Tables
      <3>3. CASE Unused(q) /\ config' = [config EXCEPT !.used = r.code]
        BY <3>1, <3>3, <1>0 DEF Tables, Unused
      <3> QED BY <1>5, <3>2, <3>3 DEF MarksCode
    <2>4. Tables' /\ Grow
      BY <2>1, <2>3, <1>0 DEF Tables, Grow, Mail, Signs
    <2> QED BY <2>1, <2>2, <2>4, StepTyped
  <1>6. CASE Refuses(q)
    <2>1. r.op \in {"mfa", "change"}
      BY <1>6, <1>k, KindOf DEF Refuses
    <2>2. PICK c \in DOMAIN challenge : c = r.challenge
      BY <2>1, <1>0 DEF ReqOK
    <2>3. End(q) /\ UNCHANGED <<account, Factor, Mail, session>>
      BY <1>6 DEF Refuses
    <2>4. challenge[c].attempts \in Nat
      <3>1. challenge[c] \in ChallengeType
        BY <1>0 DEF Tables
      <3> QED BY <3>1 DEF ChallengeType
    <2>5. \/ UNCHANGED challenge
          \/ \E n \in Nat, st \in {"live", "used", "gone"} :
                challenge' = [challenge EXCEPT ![c].attempts = n, ![c].state = st]
      <3>1. CASE challenge[c].state # "live"
        BY <3>1, <1>6, <2>2 DEF Refuses
      <3>2. CASE challenge[c].state = "live"
        <4> DEFINE n == challenge[c].attempts + 1
                   st == IF n >= MaxAttempts THEN "used" ELSE "live"
        <4>1. challenge' = [challenge EXCEPT ![c].attempts = n, ![c].state = st]
          BY <3>2, <1>6, <2>2 DEF Refuses
        <4>2. n \in Nat /\ st \in {"live", "used", "gone"}
          BY <2>4
        <4> HIDE DEF n, st
        <4> QED BY <4>1, <4>2
      <3> QED BY <3>1, <3>2
    <2>6. challenge' \in Seq(ChallengeType) /\ DOMAIN challenge' = DOMAIN challenge
      <3>1. ASSUME NEW n \in Nat, NEW st \in {"live", "used", "gone"},
                   challenge' = [challenge EXCEPT ![c].attempts = n, ![c].state = st]
            PROVE  challenge' \in Seq(ChallengeType) /\ DOMAIN challenge' = DOMAIN challenge
        BY <3>1, <1>0, AttemptOK
      <3>2. UNCHANGED challenge =>
              challenge' \in Seq(ChallengeType) /\ DOMAIN challenge' = DOMAIN challenge
        BY <1>0 DEF Tables
      <3> QED BY <2>5, <3>1, <3>2
    <2> QED BY <2>3, <2>6, <1>0, StepTyped DEF Tables, Grow, Factor, Mail
  <1>7. CASE TakesChallenge(q)
    <2>1. r.op \in {"mfa", "change"}
      BY <1>7, <1>k, KindOf DEF TakesChallenge
    <2>2. PICK c \in DOMAIN challenge : c = r.challenge
      BY <2>1, <1>0 DEF ReqOK
    <2>3. UNCHANGED <<account, Factor, Mail, session>>
      BY <1>7 DEF TakesChallenge
    <2>4. (\E at \in Stages(r.op) : Go(q, at) /\ UNCHANGED lock) \/ End(q)
      BY <1>7, <2>1 DEF TakesChallenge, Stages
    <2>5. UNCHANGED challenge \/ challenge' = [challenge EXCEPT ![c].state = "used"]
      BY <1>7, <2>2 DEF TakesChallenge
    <2>6. challenge' \in Seq(ChallengeType) /\ DOMAIN challenge' = DOMAIN challenge
      <3>1. ASSUME NEW st \in {"live", "used", "gone"},
                   challenge' = [challenge EXCEPT ![c].state = st]
            PROVE  challenge' \in Seq(ChallengeType) /\ DOMAIN challenge' = DOMAIN challenge
        BY <3>1, <1>0, TakenOK
      <3>2. UNCHANGED challenge =>
              challenge' \in Seq(ChallengeType) /\ DOMAIN challenge' = DOMAIN challenge
        BY <1>0 DEF Tables
      <3> QED BY <2>5, <3>1, <3>2
    <2> QED BY <2>3, <2>4, <2>6, <1>0, StepTyped DEF Tables, Grow, Factor, Mail
  <1>8. CASE ReadsUser(q)
    <2>1. r.op = "mfa" /\ UNCHANGED <<account, Factor, Mail, Signs>>
      BY <1>8, <1>k, KindOf DEF ReadsUser
    <2>2. (\E at \in Stages(r.op) : Go(q, at) /\ UNCHANGED lock) \/ End(q)
      BY <1>8, <2>1 DEF ReadsUser, Stages
    <2> QED BY <2>1, <2>2, SameTables, StepTyped
  <1>9. CASE SetsPassword(q)
    <2>1. r.op \in {"change", "reset"} /\ UNCHANGED <<Factor, Mail, Signs, lock>> /\ Go(q, "credential")
      BY <1>9, <1>k, KindOf DEF SetsPassword
    <2>2. account' \in AccountType
      BY <1>9, <1>0 DEF SetsPassword, Tables, AccountType, Passwords
    <2>3. "credential" \in Stages(r.op)
      BY <2>1 DEF Stages
    <2>4. Tables' /\ Grow
      BY <2>1, <2>2, <1>0 DEF Tables, Grow, Factor, Mail, Signs
    <2> QED BY <2>1, <2>3, <2>4, StepTyped
  <1>10. CASE SetsCredential(q)
    <2>1. r.op \in {"change", "reset", "patch"} /\ UNCHANGED <<Factor, Mail, Signs, lock>> /\ Go(q, "revoke")
      BY <1>10, <1>k, KindOf DEF SetsCredential
    <2>2. account' \in AccountType
      BY <1>10, <1>0 DEF SetsCredential, Credential, Tables, AccountType
    <2>3. "revoke" \in Stages(r.op)
      BY <2>1 DEF Stages
    <2>4. Tables' /\ Grow
      BY <2>1, <2>2, <1>0 DEF Tables, Grow, Factor, Mail, Signs
    <2> QED BY <2>1, <2>3, <2>4, StepTyped
  <1>11. CASE Revokes(q)
    <2>1. r.op \in {"change", "reset", "patch", "post", "setup", "disable"}
          /\ UNCHANGED <<account, Factor, Mail, challenge>> /\ session' = Revoked
      BY <1>11, <1>k, KindOf DEF Revokes
    <2>2. (\E at \in Stages(r.op) : Go(q, at) /\ UNCHANGED lock) \/ End(q)
      BY <1>11, <2>1 DEF Revokes, Stages
    <2>3. Tables' /\ Grow
      BY <2>1, <1>0, RevokedOK DEF Tables, Grow, Factor, Mail
    <2> QED BY <2>2, <2>3, StepTyped
  <1>12. CASE Upgrades(q)
    <2>1. r.op = "login" /\ UNCHANGED <<Factor, Mail, Signs, lock>> /\ Go(q, "factor")
      BY <1>12, <1>k, KindOf DEF Upgrades
    <2>2. account' \in AccountType
      BY <1>12, <1>0 DEF Upgrades, Tables, AccountType, Passwords
    <2>3. "factor" \in Stages(r.op)
      BY <2>1 DEF Stages
    <2>4. Tables' /\ Grow
      BY <2>1, <2>2, <1>0 DEF Tables, Grow, Factor, Mail, Signs
    <2> QED BY <2>1, <2>3, <2>4, StepTyped
  <1> QED BY <1>1, <1>2, <1>3, <1>4, <1>5, <1>6, <1>7, <1>8, <1>9, <1>10, <1>11, <1>12 DEF SignsIn


LEMMA LockStep ==
    ASSUME Typed, Grow, NEW q \in Requests, NEW at \in Stages(request[q].op), Go(q, at),
           lock' = q, request[q].op \in {"patch", "delete", "setup", "disable", "confirm"}
    PROVE  /\ DOMAIN request' = Requests /\ Requesting' /\ LockHeld'
           /\ request'[q] = [request[q] EXCEPT !.at = at]
           /\ \A p \in Requests \ {q} : request'[p] = request[p]
  <1> DEFINE r == [request[q] EXCEPT !.at = at]
  <1>1. request' = [request EXCEPT ![q] = r]
    BY DEF Go, Typed
  <1>2. ReqOK(r, challenge, session) /\ r.op = request[q].op
    BY StageOK DEF Typed, Requesting, Fields
  <1> HIDE DEF r
  <1>3. ReqOK(r, challenge', session')
    BY <1>2, LargerOK DEF Grow
  <1>4. /\ DOMAIN request' = Requests /\ Requesting' /\ LockHeld'
        /\ request'[q] = r /\ \A p \in Requests \ {q} : request'[p] = request[p]
    BY <1>1, <1>2, <1>3, Becomes
  <1> QED BY <1>4 DEF r

LEMMA InvitationOK ==
    ASSUME Tables, NEW g \in Generations, NEW e \in InvitationType
    PROVE  LET inv == [invitation EXCEPT ![g] = e] IN
           /\ inv \in [Generations -> InvitationType] /\ inv[g] = e
           /\ \A h \in Generations \ {g} : inv[h] = invitation[h]
  BY DEF Tables

LEMMA InvitationStates ==
    ASSUME Tables, NEW g \in Generations, NEW st \in {"none", "live", "consumed", "cancelled", "expired"}
    PROVE  LET inv == [invitation EXCEPT ![g].state = st] IN
           /\ inv \in [Generations -> InvitationType]
           /\ inv[g].state = st /\ inv[g].attempts = invitation[g].attempts
           /\ \A h \in Generations \ {g} : inv[h] = invitation[h]
  <1> DEFINE e == [invitation[g] EXCEPT !.state = st]
             inv == [invitation EXCEPT ![g].state = st]
  <1>1. invitation[g] \in InvitationType
    BY DEF Tables
  <1>2. e \in InvitationType /\ e.state = st /\ e.attempts = invitation[g].attempts
    BY <1>1 DEF InvitationType
  <1>3. inv = [invitation EXCEPT ![g] = e]
    BY DEF Tables
  <1> HIDE DEF e, inv
  <1>4. /\ inv \in [Generations -> InvitationType] /\ inv[g] = e
        /\ \A h \in Generations \ {g} : inv[h] = invitation[h]
    BY <1>2, <1>3, InvitationOK
  <1> QED BY <1>2, <1>4 DEF inv

LEMMA FailureOK ==
    ASSUME Tables, NEW g \in Generations, Usable(g),
           NEW st \in {"live", "consumed"}
    PROVE  LET inv == [invitation EXCEPT ![g].attempts = @ + 1, ![g].state = st] IN
           /\ inv \in [Generations -> InvitationType] /\ inv[g].state = st
           /\ \A h \in Generations \ {g} : inv[h] = invitation[h]
  <1> DEFINE e == [invitation[g] EXCEPT !.attempts = @ + 1, !.state = st]
             inv == [invitation EXCEPT ![g].attempts = @ + 1, ![g].state = st]
  <1>1. invitation[g] \in InvitationType /\ invitation[g].attempts < MaxAttempts
    BY DEF Tables, Usable
  <1>2. invitation[g].attempts + 1 \in 0 .. MaxAttempts
    BY <1>1, AccountsAssumption DEF InvitationType
  <1>3. e \in InvitationType /\ e.state = st
    BY <1>1, <1>2 DEF InvitationType
  <1>4. inv = [invitation EXCEPT ![g] = e]
    BY <1>1 DEF Tables, InvitationType
  <1> HIDE DEF e, inv
  <1>5. /\ inv \in [Generations -> InvitationType] /\ inv[g] = e
        /\ \A h \in Generations \ {g} : inv[h] = invitation[h]
    BY <1>3, <1>4, InvitationOK
  <1> QED BY <1>3, <1>5 DEF inv


LEMMA ForgetsOK ==
    ASSUME Tables, policy' = [policy EXCEPT !.gen = 0]
    PROVE  /\ policy' \in PolicyType /\ policy'.gen = 0 /\ policy'.mode = policy.mode
           /\ policy'.mode = "authenticator" => policy'.app \in Providers
  BY DEF Tables, PolicyType

LEMMA EnrollsTyped ==
    ASSUME Typed, NEW q \in Requests, Enrolls(q)
    PROVE  Typed'
  <1> DEFINE r == request[q]
  <1>0. Tables /\ ReqOK(r, challenge, session)
    BY DEF Typed, Requesting
  <1>k. r.op \in Ops /\ r.at \in Stages(r.op)
    BY KindOfRequest
  <1>1. CASE Locks(q)
    <2>1. r.op \in {"patch", "delete", "setup", "disable", "confirm"}
          /\ UNCHANGED <<account, Factor, Mail, Signs>>
      BY <1>1, <1>k, KindOf DEF Locks
    <2>2. End(q) \/ (lock' = q /\ \E at \in Stages(r.op) : Go(q, at))
      BY <1>1, <2>1 DEF Locks, Stages
    <2> QED BY <2>1, <2>2, SameTables, EndStep, LockStep DEF Typed
  <1>2. CASE Unmails(q)
    <2>1. r.op \in {"patch", "setup", "disable", "confirm"}
          /\ UNCHANGED <<account, Factor, invitation, Signs>> /\ mail' = Unmailed
      BY <1>2, <1>k, KindOf DEF Unmails
    <2>2. (\E at \in Stages(r.op) : Go(q, at) /\ UNCHANGED lock) \/ End(q)
      BY <1>2, <2>1 DEF Unmails, Stages
    <2>3. Tables' /\ Grow
      BY <2>1, <1>0, UnmailedOK DEF Tables, Grow, Factor, Signs
    <2> QED BY <2>2, <2>3, StepTyped
  <1>3. CASE Invalidates(q)
    <2>1. /\ r.op \in {"patch", "setup", "disable"} /\ UNCHANGED <<account, config, mail, Signs, lock>>
          /\ policy' = [policy EXCEPT !.gen = 0] /\ invitation' = Cancelled
      BY <1>3, <1>k, KindOf DEF Invalidates
    <2>2. \E at \in Stages(r.op) : Go(q, at)
      BY <1>3, <2>1 DEF Invalidates, Stages
    <2>3. Tables' /\ Grow
      BY <2>1, <1>0, ForgetsOK, CancelledOK DEF Tables, Grow, Signs
    <2> QED BY <2>1, <2>2, <2>3, StepTyped
  <1>4. CASE SetsPolicy(q)
    <2>1. r.at = "policy" /\ r.op \in {"setup", "disable"} /\ UNCHANGED <<account, config, Mail, Signs, lock>>
      BY <1>4, <1>k, KindOf DEF SetsPolicy
    <2>2. CASE r.op = "setup"
      <3>1. PICK g \in Generations, at \in {"clear", "invite"} :
              /\ policy' = IF account.status = "deleted" THEN policy
                           ELSE [mode |-> "authenticator", app |-> r.app, gen |-> g]
              /\ request' = [request EXCEPT ![q].gen = g, ![q].at = at]
        BY <1>4, <2>2 DEF SetsPolicy
      <3> DEFINE t == [r EXCEPT !.gen = g, !.at = at]
      <3>2. ReqOK(t, challenge, session) /\ t.op = "setup"
        BY <2>2, <1>0 DEF ReqOK, Fields, Stages
      <3>3. request' = [request EXCEPT ![q] = t]
        BY <3>1, <1>0 DEF Typed, ReqOK, Fields
      <3> HIDE DEF t
      <3>4. r.app \in Providers
        BY <1>0, <2>2 DEF ReqOK
      <3>5. policy' \in PolicyType /\ (policy'.mode = "authenticator" => policy'.app \in Providers)
        BY <3>1, <3>4, <1>0 DEF PolicyType, Tables
      <3>6. Tables' /\ Grow
        BY <2>1, <3>5, <1>0 DEF Tables, Grow, Mail, Signs
      <3>7. ReqOK(t, challenge', session')
        BY <3>2, <2>1 DEF Signs
      <3>8. lock' = lock
        BY <2>1
      <3> QED BY <3>2, <3>3, <3>6, <3>7, <3>8, Becomes DEF Typed
    <2>3. CASE r.op # "setup"
      <3>1. PICK clears :
              request' = [request EXCEPT ![q].at = "invalidate", ![q].clears = clears]
        BY <1>4, <2>3, Zenon DEF SetsPolicy
      <3> DEFINE t == [r EXCEPT !.at = "invalidate", !.clears = clears]
      <3>2. ReqOK(t, challenge, session) /\ t.op = "disable"
        BY <2>1, <2>3, <1>0 DEF ReqOK, Fields, Stages
      <3>3. request' = [request EXCEPT ![q] = t]
        BY <3>1, <1>0 DEF Typed, ReqOK, Fields
      <3> HIDE DEF t
      <3>4. policy' = NoPolicy
        BY <1>4, <2>3 DEF SetsPolicy
      <3>6. Tables' /\ Grow
        BY <2>1, <3>4, <1>0 DEF Tables, Grow, Mail, Signs, PolicyType, NoPolicy
      <3>7. ReqOK(t, challenge', session')
        BY <3>2, <2>1 DEF Signs
      <3>8. lock' = lock
        BY <2>1
      <3> QED BY <3>2, <3>3, <3>6, <3>7, <3>8, Becomes DEF Typed
    <2> QED BY <2>2, <2>3
  <1>5. CASE Clears(q)
    <2>1. /\ r.op \in {"setup", "disable"} /\ UNCHANGED <<account, policy, Mail, session>>
          /\ config' = NoConfig /\ challenge' = Cleared
      BY <1>5, <1>k, KindOf DEF Clears
    <2>2. (\E at \in Stages(r.op) : Go(q, at) /\ UNCHANGED lock) \/ End(q)
      BY <1>5, <2>1 DEF Clears, Stages
    <2>3. Tables' /\ Grow
      BY <2>1, <1>0, ClearedOK DEF Tables, Grow, Mail, NoConfig
    <2> QED BY <2>2, <2>3, StepTyped
  <1>6. CASE Invites(q)
    <2>1. r.op = "setup" /\ UNCHANGED <<account, Factor, mail, Signs, lock>>
      BY <1>6, <1>k, KindOf DEF Invites
    <2>2. \E at \in Stages(r.op) : Go(q, at)
      BY <1>6, <2>1 DEF Invites, Stages
    <2>3. invitation' \in [Generations -> InvitationType]
      <3> DEFINE e == [state |-> "live", app |-> r.app, attempts |-> 0]
      <3>1. e \in InvitationType
        BY <1>0, <2>1, AccountsAssumption DEF ReqOK, InvitationType
      <3>2. UNCHANGED invitation \/ invitation' = [Cancelled EXCEPT ![r.gen] = e]
        BY <1>6 DEF Invites
      <3> HIDE DEF e
      <3> QED BY <3>1, <3>2, <1>0, CancelledOK DEF Tables
    <2>4. Tables' /\ Grow
      BY <2>1, <2>3, <1>0 DEF Tables, Grow, Factor, Signs
    <2> QED BY <2>1, <2>2, <2>4, StepTyped
  <1>7. CASE Mails(q)
    <2>1. UNCHANGED <<account, Factor, invitation, Signs>> /\ End(q)
      BY <1>7 DEF Mails
    <2>2. mail' \in [Generations -> MailType]
      BY <1>7, <1>0 DEF Mails, Tables, MailType
    <2> QED BY <2>1, <2>2, <1>0, StepTyped DEF Tables, Grow, Factor, Signs
  <1>8. CASE Undoes(q)
    <2>1. UNCHANGED <<account, config, mail, Signs>> /\ End(q) /\ invitation' = Cancelled
          /\ policy' = [policy EXCEPT !.gen = 0]
      BY <1>8 DEF Undoes
    <2>2. Tables' /\ Grow
      BY <2>1, <1>0, ForgetsOK, CancelledOK DEF Tables, Grow, Signs
    <2> QED BY <2>1, <2>2, StepTyped
  <1>9. CASE CancelsMail(q)
    <2>1. r.op = "cancel" /\ UNCHANGED <<account, Factor, Signs>>
      BY <1>9, <1>k, KindOf DEF CancelsMail
    <2>2. PICK g \in Generations : g = r.gen
      BY <1>0, <2>1 DEF ReqOK
    <2>3. (\E at \in Stages(r.op) : Go(q, at) /\ UNCHANGED lock) \/ End(q)
      BY <1>9, <2>1 DEF CancelsMail, Stages
    <2>4. mail' \in [Generations -> MailType]
      BY <1>9, <2>2, <1>0 DEF CancelsMail, Tables, MailType
    <2>5. UNCHANGED invitation \/ invitation' = [invitation EXCEPT ![g].state = "cancelled"]
      BY <1>9, <2>2 DEF CancelsMail
    <2>6. invitation' \in [Generations -> InvitationType]
      <3>1. ASSUME NEW st \in {"none", "live", "consumed", "cancelled", "expired"},
                   invitation' = [invitation EXCEPT ![g].state = st]
            PROVE  invitation' \in [Generations -> InvitationType]
        BY <3>1, <1>0, InvitationStates
      <3>2. UNCHANGED invitation => invitation' \in [Generations -> InvitationType]
        BY <1>0 DEF Tables
      <3> QED BY <2>5, <3>1, <3>2
    <2> QED BY <2>1, <2>3, <2>4, <2>6, <1>0, StepTyped DEF Tables, Grow, Factor, Signs
  <1>10. CASE Saves(q)
    <2>1. r.op \in {"patch", "post"} /\ UNCHANGED <<Factor, Mail, Signs>>
      BY <1>10, <1>k, KindOf DEF Saves
    <2>2. (\E at \in Stages(r.op) : Go(q, at) /\ UNCHANGED lock) \/ End(q)
      <3>1. r.rotates => r.op = "patch"
        BY <1>0, <2>1 DEF ReqOK
      <3>2. (Go(q, "credential") /\ UNCHANGED lock /\ r.rotates)
              \/ (Go(q, "revoke") /\ UNCHANGED lock) \/ End(q)
        BY <1>10 DEF Saves
      <3> QED BY <2>1, <3>1, <3>2 DEF Stages
    <2>3. \/ UNCHANGED account
          \/ \E password \in Passwords :
                account' = [account EXCEPT !.status = r.to, !.password = password]
      <3>1. r.seen \in Passwords
        BY <1>0, <2>1 DEF ReqOK
      <3> QED BY <3>1, <1>10 DEF Saves, Passwords
    <2>4. account' \in AccountType
      <3>1. r.to \in Statuses
        BY <1>0, <2>1 DEF ReqOK, Statuses
      <3> QED BY <2>3, <3>1, <1>0 DEF Tables, AccountType
    <2> QED BY <2>1, <2>2, <2>4, <1>0, StepTyped DEF Tables, Grow, Factor, Mail, Signs
  <1>11. CASE Deletes(q)
    <2>1. /\ End(q) /\ mail' = Unmailed
          /\ account' = [account EXCEPT !.status = "deleted", !.temporary = "none"]
          /\ policy' = NoPolicy /\ config' = NoConfig
          /\ invitation' = Cancelled /\ challenge' = Cleared /\ session' = Revoked
      BY <1>11 DEF Deletes
    <2>2. account' \in AccountType
      BY <2>1, <1>0 DEF Tables, AccountType, Statuses
    <2>3. policy' \in PolicyType /\ policy'.mode # "authenticator"
          /\ config' \in [gen : {0} \cup Generations, used : {0} \cup Codes]
      BY <2>1 DEF PolicyType, NoPolicy, NoConfig
    <2>4. Tables' /\ Grow
      BY <2>1, <2>2, <2>3, <1>0, UnmailedOK, CancelledOK, ClearedOK, RevokedOK DEF Tables, Grow
    <2> QED BY <2>1, <2>4, StepTyped
  <1>12. CASE CountsFailure(q)
    <2>1. r.op = "confirm" /\ UNCHANGED <<account, Factor, mail, Signs>> /\ End(q)
      BY <1>12, <1>k, KindOf DEF CountsFailure
    <2>2. PICK g \in Generations : g = r.gen
      BY <1>0, <2>1 DEF ReqOK
    <2>3. invitation' \in [Generations -> InvitationType]
      <3>1. CASE ~Usable(g)
        BY <3>1, <2>2, <1>12, <1>0 DEF CountsFailure, Tables
      <3>2. CASE Usable(g)
        <4> DEFINE st == IF invitation[g].attempts + 1 >= MaxAttempts THEN "consumed" ELSE "live"
        <4>1. invitation' = [invitation EXCEPT ![g].attempts = @ + 1, ![g].state = st]
          BY <3>2, <2>2, <1>12 DEF CountsFailure
        <4>2. st \in {"live", "consumed"}
          OBVIOUS
        <4> HIDE DEF st
        <4> QED BY <4>1, <4>2, <3>2, <1>0, FailureOK
      <3> QED BY <3>1, <3>2
    <2> QED BY <2>1, <2>3, <1>0, StepTyped DEF Tables, Grow, Factor, Signs
  <1>13. CASE Completes(q)
    <2>1. r.op = "confirm" /\ UNCHANGED <<account, mail, challenge>>
      BY <1>13, <1>k, KindOf DEF Completes
    <2>2. PICK g \in Generations : g = r.gen
      BY <1>0, <2>1 DEF ReqOK
    <2>3. CASE ~(Usable(g) /\ account.status = "active")
      <3>1. UNCHANGED <<config, policy, invitation, session>> /\ End(q)
        BY <2>2, <2>3, <1>13 DEF Completes
      <3> QED BY <2>1, <3>1, SameTables, StepTyped DEF Factor, Mail, Signs
    <2>4. CASE Usable(g) /\ account.status = "active"
      <3>1. /\ config' = [gen |-> g, used |-> r.code] /\ policy' = [policy EXCEPT !.gen = 0]
            /\ invitation' = [invitation EXCEPT ![g].state = "consumed"]
            /\ session' = Revoked /\ Go(q, "unmail") /\ lock' = "free"
        BY <2>2, <2>4, <1>13 DEF Completes
      <3>2. g # 0 /\ r.code \in {0} \cup Codes
        BY <1>0, <2>1 DEF Generations, ReqOK
      <3>3. Tables' /\ Grow
        BY <3>1, <3>2, <2>1, <1>0, InvitationStates, ForgetsOK, RevokedOK DEF Tables, Grow
      <3> DEFINE t == [r EXCEPT !.at = "unmail"]
      <3>4. "unmail" \in Stages(r.op)
        BY <2>1 DEF Stages
      <3>5. ReqOK(t, challenge, session) /\ request' = [request EXCEPT ![q] = t]
        BY <1>0, <3>4, <3>1, StageOK DEF Go, Typed
      <3> HIDE DEF t
      <3>6. ReqOK(t, challenge', session') /\ lock' # q
        BY <3>1, <3>3, <3>5, LargerOK, AccountsAssumption DEF Grow
      <3> QED BY <3>1, <3>3, <3>5, <3>6, Becomes DEF Typed
    <2> QED BY <2>3, <2>4
  <1> QED BY <1>1, <1>2, <1>3, <1>4, <1>5, <1>6, <1>7, <1>8, <1>9, <1>10, <1>11, <1>12, <1>13
       DEF Enrolls


LEMMA FailsTyped ==
    ASSUME Typed, NEW q \in Requests, Fails(q)
    PROVE  Typed'
  <1>1. request[q].op \in Ops /\ request[q].at \in Stages(request[q].op)
    BY KindOfRequest
  <1>2. (\E at \in Stages(request[q].op) : Go(q, at) /\ UNCHANGED lock) \/ End(q)
    BY <1>1 DEF Fails, Stages
  <1>3. UNCHANGED <<account, Factor, Mail, Signs>>
    BY DEF Fails
  <1> QED BY <1>2, <1>3, SameTables, StepTyped

LEMMA SessionEndsOK ==
    ASSUME Tables, NEW s \in DOMAIN session
    PROVE  LET ses == [session EXCEPT ![s].live = FALSE] IN
           /\ ses \in Seq(SessionType) /\ DOMAIN ses = DOMAIN session
           /\ \A t \in DOMAIN session :
                /\ ses[t].challenge = session[t].challenge
                /\ ses[t].gen = session[t].gen /\ ses[t].code = session[t].code
  <1> DEFINE e == [session[s] EXCEPT !.live = FALSE]
             ses == [session EXCEPT ![s].live = FALSE]
  <1>1. session \in Seq(SessionType) /\ session[s] \in SessionType
    BY DEF Tables
  <1>2. /\ e \in SessionType /\ e.challenge = session[s].challenge
        /\ e.gen = session[s].gen /\ e.code = session[s].code
    BY <1>1 DEF SessionType
  <1>3. ses = [session EXCEPT ![s] = e]
    BY <1>1
  <1> HIDE DEF e, ses
  <1>4. /\ ses \in Seq(SessionType) /\ DOMAIN ses = DOMAIN session /\ ses[s] = e
        /\ \A t \in DOMAIN session \ {s} : ses[t] = session[t]
    BY <1>1, <1>2, <1>3
  <1>5. ASSUME NEW t \in DOMAIN session
        PROVE  /\ ses[t].challenge = session[t].challenge
               /\ ses[t].gen = session[t].gen /\ ses[t].code = session[t].code
    BY <1>2, <1>4
  <1> QED BY <1>4, <1>5 DEF ses

LEMMA OthersTyped ==
    ASSUME Typed,
           \/ \E s \in DOMAIN session : Logout(s)
           \/ \E g \in Generations : WorkerEnds(g)
           \/ Expires
    PROVE  Typed'
  <1>0. Tables
    BY DEF Typed
  <1>q. ASSUME Tables', UNCHANGED <<lock, request>>, Grow PROVE Typed'
    <2>1. Requesting'
      BY <1>q, LargerOK DEF Typed, Requesting, Grow
    <2> QED BY <1>q, <2>1 DEF Typed, LockHeld
  <1>1. ASSUME NEW s \in DOMAIN session, Logout(s) PROVE Typed'
    <2>1. /\ session' = [session EXCEPT ![s].live = FALSE]
          /\ UNCHANGED <<account, Factor, Mail, challenge, lock, request>>
      BY <1>1 DEF Logout
    <2>2. Tables' /\ Grow
      BY <2>1, <1>0, SessionEndsOK DEF Tables, Factor, Mail, Grow
    <2> QED BY <2>1, <2>2, <1>q
  <1>2. ASSUME NEW g \in Generations, WorkerEnds(g) PROVE Typed'
    <2>1. UNCHANGED <<account, Factor, invitation, Signs, lock, request>>
      BY <1>2 DEF WorkerEnds
    <2>2. mail' \in [Generations -> MailType]
      BY <1>2, <1>0 DEF WorkerEnds, Tables, MailType
    <2>3. Tables' /\ Grow
      BY <2>1, <2>2, <1>0 DEF Tables, Factor, Signs, Grow
    <2> QED BY <2>1, <2>3, <1>q
  <1>3. CASE Expires
    <2>1. UNCHANGED <<Factor, mail, session, lock, request>>
      BY <1>3 DEF Expires
    <2>2. ASSUME NEW g \in Generations, invitation' = [invitation EXCEPT ![g].state = "expired"],
                 UNCHANGED <<account, challenge>>
          PROVE  Tables' /\ Grow
      BY <2>1, <2>2, <1>0, InvitationStates DEF Tables, Factor, Grow
    <2>3. ASSUME account' = [account EXCEPT !.temporary = "expired"],
                 UNCHANGED <<invitation, challenge>>
          PROVE  Tables' /\ Grow
      BY <2>1, <2>3, <1>0 DEF Tables, Factor, Grow, AccountType
    <2>4. ASSUME NEW c \in DOMAIN challenge, challenge' = [challenge EXCEPT ![c].state = "gone"],
                 UNCHANGED <<account, invitation>>
          PROVE  Tables' /\ Grow
      BY <2>1, <2>4, <1>0, TakenOK DEF Tables, Factor, Grow
    <2> QED BY <1>3, <2>1, <2>2, <2>3, <2>4, <1>q DEF Expires
  <1> QED BY <1>1, <1>2, <1>3

LEMMA Single ==
    ASSUME NEW S, NEW e \in S
    PROVE  <<>> \in Seq(S) /\ <<e>> \in Seq(S)
  <1>1. <<>> \in Seq(S)
    OBVIOUS
  <1>2. <<e>> \in Seq(S)
    OBVIOUS
  <1> QED BY <1>1, <1>2

LEMMA InitTyped ==
    ASSUME Init
    PROVE  Typed
  <1>1. PICK h \in Histories, app \in Providers :
        /\ account = [status |-> "active",
                      password |-> IF h = "new" THEN "temporary"
                                   ELSE IF h = "legacy" THEN "legacy" ELSE "own",
                      temporary |-> IF h = "new" THEN "valid" ELSE "none"]
        /\ policy = IF h \in Plain THEN NoPolicy
                    ELSE [mode |-> "authenticator", app |-> app, gen |-> IF h = "invited" THEN 1 ELSE 0]
        /\ config = IF h = "enrolled" THEN [gen |-> 1, used |-> 0] ELSE NoConfig
        /\ invitation = [g \in Generations |->
               [state |-> IF g > 1 \/ h \in Plain THEN "none"
                          ELSE IF h = "invited" THEN "live" ELSE "consumed",
                app |-> app, attempts |-> 0]]
        /\ mail = [g \in Generations |->
               IF g > 1 \/ h \in Plain THEN "none" ELSE "sent"]
        /\ challenge = IF h = "enrolled"
                       THEN <<[purpose |-> "login", state |-> "live", attempts |-> 0]>> ELSE <<>>
        /\ session = IF h = "enrolled"
                     THEN <<[live |-> TRUE, challenge |-> 0, gen |-> 0, code |-> 0, late |-> FALSE]>> ELSE <<>>
    BY DEF Init
  <1>2. 1 \in Generations
    BY AccountsAssumption DEF Generations
  <1>3. account \in AccountType
    BY <1>1 DEF AccountType, Passwords, Statuses
  <1>4. policy \in PolicyType /\ (policy.mode = "authenticator" => policy.app \in Providers)
    BY <1>1, <1>2 DEF PolicyType, NoPolicy
  <1>5. /\ config \in [gen : {0} \cup Generations, used : {0} \cup Codes]
        /\ config.gen = 0 => config = NoConfig
    BY <1>1, <1>2 DEF NoConfig
  <1>6. invitation \in [Generations -> InvitationType]
    BY <1>1, AccountsAssumption DEF InvitationType, Generations
  <1>7. mail \in [Generations -> MailType]
    BY <1>1 DEF MailType
  <1>8. challenge \in Seq(ChallengeType)
    <2> DEFINE e == [purpose |-> "login", state |-> "live", attempts |-> 0]
    <2>1. e \in ChallengeType
      BY DEF ChallengeType
    <2>2. challenge = <<>> \/ challenge = <<e>>
      BY <1>1
    <2> HIDE DEF e
    <2> QED BY <2>1, <2>2, Single
  <1>9. session \in Seq(SessionType)
    <2> DEFINE e == [live |-> TRUE, challenge |-> 0, gen |-> 0, code |-> 0, late |-> FALSE]
    <2>1. e \in SessionType
      BY DEF SessionType
    <2>2. session = <<>> \/ session = <<e>>
      BY <1>1
    <2> HIDE DEF e
    <2> QED BY <2>1, <2>2, Single
  <1>10. Tables
    BY <1>3, <1>4, <1>5, <1>6, <1>7, <1>8, <1>9 DEF Tables
  <1>11. /\ DOMAIN request = Requests /\ \A q \in Requests : request[q] = Idle
         /\ lock = "free" /\ \A q \in Requests : q # "free"
    BY AccountsAssumption DEF Init
  <1> QED BY <1>10, <1>11, IdleOK DEF Typed, Requesting, LockHeld

LEMMA NextTyped ==
    ASSUME Typed, [Next]_vars
    PROVE  Typed'
  <1>1. CASE UNCHANGED vars
    <2>1. Tables' /\ UNCHANGED <<request, lock, challenge, session>>
      BY <1>1 DEF vars, Typed, Tables
    <2> QED BY <2>1 DEF Typed, Requesting, LockHeld
  <1> QED BY <1>1, BeginsTyped, SignsInTyped, EnrollsTyped, FailsTyped, OthersTyped DEF Next

\* Every table holds only rows of its kind, a request has done no more than its kind
\* allows, and only the requests that change an enrollment or end sessions have the
\* user's lock.
THEOREM AccountsTyped == Spec => []Typed
  <1>1. Init => Typed
    BY InitTyped
  <1>2. Typed /\ [Next]_vars => Typed'
    BY NextTyped
  <1> QED BY <1>1, <1>2, PTL DEF Spec

-----------------------------------------------------------------------------
(* Enrollment. *)

\* No invitation is newer than the one that the policy names.
PolicyIsNewest ==
    \A h \in Generations : invitation[h].state # "none" => policy.gen = 0 \/ h <= policy.gen

\* What a request leaves of the policy and of the invitations when it begins or signs in.
LEMMA BeginsKeeps ==
    ASSUME NEW q \in Requests, Begins(q)
    PROVE  /\ UNCHANGED <<account, Factor, Mail, Signs, lock, faults>>
           /\ \E r : Start(q, r)
  <1>1. ASSUME NEW r, Start(q, r)
        PROVE  UNCHANGED <<account, Factor, Mail, Signs, lock, faults>> /\ \E x : Start(q, x)
    BY <1>1 DEF Start
  <1>2. CASE Patch(q)
    <2>1. PICK to \in {"active", "suspended"}, email \in BOOLEAN, access \in BOOLEAN :
            LET suspends == account.status = "active" /\ to = "suspended"
                invalidates == Pending /\ (email \/ suspends)
                rotates == email /\ account.temporary # "none" IN
            Start(q, [Idle EXCEPT !.op = "patch", !.to = to, !.seen = account.password,
                                  !.clears = invalidates, !.rotates = rotates,
                                  !.code = IF suspends \/ rotates \/ access THEN 1 ELSE 0,
                                  !.at = IF invalidates \/ suspends \/ rotates \/ access
                                         THEN "lock" ELSE "save"])
      BY <1>2, Zenon DEF Patch
    <2> QED BY <1>1, <2>1
  <1>3. ASSUME NEW c, Mfa(q, c) PROVE \E r : Start(q, r)
    BY <1>3 DEF Mfa
  <1>4. ASSUME NEW c, Change(q, c) PROVE \E r : Start(q, r)
    BY <1>4 DEF Change
  <1>5. CASE Setup(q)
    BY <1>1, <1>5 DEF Setup
  <1>6. CASE CancelMail(q)
    BY <1>1, <1>6 DEF CancelMail
  <1>7. CASE Confirm(q)
    BY <1>1, <1>7 DEF Confirm
  <1>8. CASE Login(q) \/ Reset(q) \/ Resend(q) \/ Disable(q) \/ Delete(q)
    BY <1>1, <1>8 DEF Login, Reset, Resend, Disable, Delete
  <1>9. CASE Post(q)
    BY <1>1, <1>9 DEF Post
  <1> QED BY <1>1, <1>2, <1>3, <1>4, <1>5, <1>6, <1>7, <1>8, <1>9 DEF Begins

LEMMA SignsInKeeps ==
    ASSUME Typed, NEW q \in Requests, SignsIn(q)
    PROVE  UNCHANGED <<policy, Mail, faults>> /\ config'.gen = config.gen
  <1>1. CASE MarksCode(q)
    <2>1. UNCHANGED <<policy, Mail, faults>>
      BY <1>1 DEF MarksCode
    <2>2. config'.gen = config.gen
      BY <1>1 DEF MarksCode, Typed, Tables
    <2> QED BY <2>1, <2>2
  <1>2. ASSUME UNCHANGED <<Factor, Mail, faults>>
        PROVE  UNCHANGED <<policy, Mail, faults>> /\ config'.gen = config.gen
    BY <1>2 DEF Factor
  <1>3. CASE LoginFactor(q) \/ OpensChallenge(q) \/ ReadsTemporary(q) \/ OpensSession(q)
    BY <1>2, <1>3 DEF LoginFactor, OpensChallenge, ReadsTemporary, OpensSession
  <1>4. CASE Refuses(q) \/ TakesChallenge(q) \/ ReadsUser(q)
    BY <1>2, <1>4 DEF Refuses, TakesChallenge, ReadsUser
  <1>5. CASE SetsPassword(q) \/ SetsCredential(q) \/ Revokes(q)
    BY <1>2, <1>5 DEF SetsPassword, SetsCredential, Revokes
  <1>6. CASE Upgrades(q)
    BY <1>2, <1>6 DEF Upgrades
  <1> QED BY <1>1, <1>3, <1>4, <1>5, <1>6 DEF SignsIn

\* The steps that tell the policy or an invitation something new.
EnrollsEffects(q) ==
    \/ /\ \A h \in Generations : invitation'[h].state = "none" <=> invitation[h].state = "none"
       /\ policy'.gen = 0 \/ UNCHANGED policy
       /\ config'.gen = config.gen \/ config' = NoConfig
    \/ /\ request[q].at = "policy" /\ request[q].op = "setup" /\ UNCHANGED <<invitation, config>>
       /\ Follows(policy'.gen) /\ policy'.gen \in Generations
    \/ /\ request[q].at = "invite" /\ UNCHANGED <<policy, config>>
       /\ policy.gen = request[q].gen
       /\ \A h \in Generations \ {request[q].gen} :
            invitation'[h].state = "none" <=> invitation[h].state = "none"
    \/ LET g == request[q].gen IN
       /\ request[q].at = "complete" /\ Usable(g) /\ account.status = "active"
       /\ config'.gen = g /\ policy'.gen = 0
       /\ \A h \in Generations : invitation'[h].state = "none" <=> invitation[h].state = "none"

LEMMA EnrollsStep ==
    ASSUME Typed, NEW q \in Requests, Enrolls(q)
    PROVE  EnrollsEffects(q)
  <1> DEFINE r == request[q]
  <1>0. Tables /\ ReqOK(r, challenge, session)
    BY DEF Typed, Requesting
  <1>k. r.op \in Ops /\ r.at \in Stages(r.op)
    BY KindOfRequest
  <1>s. ASSUME \A h \in Generations : invitation'[h].state = "none" <=> invitation[h].state = "none",
               policy'.gen = 0 \/ UNCHANGED policy,
               config'.gen = config.gen \/ config' = NoConfig
        PROVE  EnrollsEffects(q)
    BY <1>s DEF EnrollsEffects
  <1>1. CASE Locks(q) \/ Unmails(q) \/ Mails(q) \/ Saves(q)
    BY <1>1, <1>s DEF Locks, Unmails, Mails, Saves, Factor, Mail
  <1>2. CASE Invalidates(q) \/ Undoes(q)
    <2>1. policy' = [policy EXCEPT !.gen = 0] /\ invitation' = Cancelled /\ UNCHANGED config
      BY <1>2 DEF Invalidates, Undoes
    <2> QED BY <2>1, <1>0, <1>s, ForgetsOK, CancelledOK
  <1>3. CASE Clears(q)
    BY <1>3, <1>s DEF Clears, Mail
  <1>4. CASE SetsPolicy(q)
    <2>1. r.at = "policy" /\ UNCHANGED <<account, config, invitation>>
      BY <1>4 DEF SetsPolicy, Mail
    <2>2. CASE r.op # "setup"
      <3>1. policy' = NoPolicy
        BY <1>4, <2>2 DEF SetsPolicy
      <3> QED BY <3>1, <2>1, <1>s DEF NoPolicy
    <2>3. CASE r.op = "setup"
      <3>1. PICK g \in Generations :
              /\ Follows(g)
              /\ policy' = IF account.status = "deleted" THEN policy
                           ELSE [mode |-> "authenticator", app |-> r.app, gen |-> g]
        BY <1>4, <2>3 DEF SetsPolicy
      <3>2. CASE UNCHANGED policy
        BY <3>2, <2>1, <1>s
      <3>3. CASE policy' = [mode |-> "authenticator", app |-> r.app, gen |-> g]
        BY <3>1, <3>3, <2>1, <2>3 DEF EnrollsEffects
      <3> QED BY <3>1, <3>2, <3>3
    <2> QED BY <2>2, <2>3
  <1>5. CASE Invites(q)
    <2>1. r.at = "invite" /\ UNCHANGED <<policy, config>>
      BY <1>5 DEF Invites, Factor
    <2>2. CASE UNCHANGED invitation
      BY <2>1, <2>2, <1>s
    <2>3. CASE /\ policy = [mode |-> "authenticator", app |-> r.app, gen |-> r.gen]
               /\ invitation' = [Cancelled EXCEPT ![r.gen] =
                                    [state |-> "live", app |-> r.app, attempts |-> 0]]
      <3>1. \A h \in Generations \ {r.gen} : invitation'[h] = Cancelled[h]
        BY <2>3, <1>0, CancelledOK
      <3>2. policy.gen = r.gen
        BY <2>3
      <3> QED BY <2>1, <3>1, <3>2, <1>0, CancelledOK DEF EnrollsEffects
    <2> QED BY <1>5, <2>2, <2>3 DEF Invites
  <1>6. CASE CancelsMail(q)
    <2>1. r.op = "cancel" /\ UNCHANGED <<policy, config>>
      BY <1>6, <1>k, KindOf DEF CancelsMail, Factor
    <2>2. PICK g \in Generations : g = r.gen
      BY <1>0, <2>1 DEF ReqOK
    <2>3. \/ UNCHANGED invitation
          \/ invitation[g].state = "live" /\ invitation' = [invitation EXCEPT ![g].state = "cancelled"]
      BY <1>6, <2>2 DEF CancelsMail
    <2>4. ASSUME NEW st \in {"none", "live", "consumed", "cancelled", "expired"}, st # "none",
                 invitation[g].state = "live", invitation' = [invitation EXCEPT ![g].state = st]
          PROVE  \A h \in Generations : invitation'[h].state = "none" <=> invitation[h].state = "none"
      BY <2>4, <1>0, InvitationStates
    <2> QED BY <2>1, <2>3, <2>4, <1>s
  <1>7. CASE Deletes(q)
    <2>1. policy' = NoPolicy /\ config' = NoConfig /\ invitation' = Cancelled
      BY <1>7 DEF Deletes
    <2> QED BY <2>1, <1>0, <1>s, CancelledOK DEF NoPolicy
  <1>8. CASE CountsFailure(q)
    <2>1. r.op = "confirm" /\ UNCHANGED <<policy, config>>
      BY <1>8, <1>k, KindOf DEF CountsFailure, Factor
    <2>2. PICK g \in Generations : g = r.gen
      BY <1>0, <2>1 DEF ReqOK
    <2>3. CASE ~Usable(g)
      BY <2>1, <2>2, <2>3, <1>8, <1>s DEF CountsFailure
    <2>4. CASE Usable(g)
      <3> DEFINE st == IF invitation[g].attempts + 1 >= MaxAttempts THEN "consumed" ELSE "live"
      <3>1. invitation' = [invitation EXCEPT ![g].attempts = @ + 1, ![g].state = st]
        BY <2>4, <2>2, <1>8 DEF CountsFailure
      <3>2. st \in {"live", "consumed"} /\ st # "none" /\ invitation[g].state # "none"
        BY <2>4 DEF Usable
      <3> HIDE DEF st
      <3>3. \A h \in Generations : invitation'[h].state = "none" <=> invitation[h].state = "none"
        BY <3>1, <3>2, <2>4, <1>0, FailureOK
      <3> QED BY <3>3, <2>1, <1>s
    <2> QED BY <2>3, <2>4
  <1>9. CASE Completes(q)
    <2>1. r.op = "confirm" /\ r.at = "complete"
      BY <1>9, <1>k, KindOf DEF Completes
    <2>2. PICK g \in Generations : g = r.gen
      BY <1>0, <2>1 DEF ReqOK
    <2>3. CASE ~(Usable(g) /\ account.status = "active")
      BY <2>2, <2>3, <1>9, <1>s DEF Completes
    <2>4. CASE Usable(g) /\ account.status = "active"
      <3>1. /\ config' = [gen |-> g, used |-> r.code] /\ policy' = [policy EXCEPT !.gen = 0]
            /\ invitation' = [invitation EXCEPT ![g].state = "consumed"]
        BY <2>2, <2>4, <1>9 DEF Completes
      <3>2. ASSUME NEW st \in {"none", "live", "consumed", "cancelled", "expired"}, st # "none",
                   invitation[g].state = "live", invitation' = [invitation EXCEPT ![g].state = st]
            PROVE  \A h \in Generations : invitation'[h].state = "none" <=> invitation[h].state = "none"
        BY <3>2, <1>0, InvitationStates
      <3>3. \A h \in Generations : invitation'[h].state = "none" <=> invitation[h].state = "none"
        BY <3>1, <3>2, <2>4 DEF Usable
      <3>4. policy'.gen = 0 /\ config'.gen = g
        BY <3>1, <1>0, ForgetsOK
      <3> QED BY <2>1, <2>2, <2>4, <3>3, <3>4 DEF EnrollsEffects
    <2> QED BY <2>3, <2>4
  <1> QED BY <1>1, <1>2, <1>3, <1>4, <1>5, <1>6, <1>7, <1>8, <1>9 DEF Enrolls


LEMMA OthersKeep ==
    ASSUME Typed,
           \/ \E s \in DOMAIN session : Logout(s)
           \/ \E g \in Generations : WorkerEnds(g)
           \/ Expires
    PROVE  /\ UNCHANGED <<Factor, request, lock, faults, undone, overtaken>>
           /\ \A h \in Generations : invitation'[h].state = "none" <=> invitation[h].state = "none"
           /\ \A h \in Generations : invitation'[h].state = "consumed" <=> invitation[h].state = "consumed"
  <1>1. ASSUME UNCHANGED <<Factor, request, lock, faults, undone, overtaken, invitation>>
        PROVE  /\ UNCHANGED <<Factor, request, lock, faults, undone, overtaken>>
               /\ \A h \in Generations : invitation'[h].state = "none" <=> invitation[h].state = "none"
               /\ \A h \in Generations : invitation'[h].state = "consumed" <=> invitation[h].state = "consumed"
    BY <1>1
  <1>2. ASSUME NEW s \in DOMAIN session, Logout(s) PROVE UNCHANGED <<Factor, request, lock, faults, undone, overtaken, invitation>>
    BY <1>2 DEF Logout, Mail, Bounds
  <1>3. ASSUME NEW g \in Generations, WorkerEnds(g) PROVE UNCHANGED <<Factor, request, lock, faults, undone, overtaken, invitation>>
    BY <1>3 DEF WorkerEnds, Bounds
  <1>4. CASE Expires
    <2>1. UNCHANGED <<Factor, request, lock, faults, undone, overtaken>>
      BY <1>4 DEF Expires, Bounds
    <2>2. UNCHANGED invitation \/ \E g \in Generations :
            invitation[g].state = "live" /\ invitation' = [invitation EXCEPT ![g].state = "expired"]
      BY <1>4 DEF Expires
    <2>3. ASSUME NEW g \in Generations,
                 NEW st \in {"none", "live", "consumed", "cancelled", "expired"}, st = "expired",
                 invitation[g].state = "live", invitation' = [invitation EXCEPT ![g].state = st]
          PROVE  /\ \A h \in Generations : invitation'[h].state = "none" <=> invitation[h].state = "none"
                 /\ \A h \in Generations : invitation'[h].state = "consumed" <=> invitation[h].state = "consumed"
      BY <2>3, InvitationStates DEF Typed
    <2> QED BY <2>1, <2>2, <2>3
  <1> QED BY <1>1, <1>2, <1>3, <1>4

LEMMA InitNewest ==
    ASSUME Init
    PROVE  PolicyIsNewest
  <1>1. PICK h \in Histories, app \in Providers :
        /\ policy = IF h \in Plain THEN NoPolicy
                    ELSE [mode |-> "authenticator", app |-> app, gen |-> IF h = "invited" THEN 1 ELSE 0]
        /\ invitation = [g \in Generations |->
               [state |-> IF g > 1 \/ h \in Plain THEN "none"
                          ELSE IF h = "invited" THEN "live" ELSE "consumed",
                app |-> app, attempts |-> 0]]
    BY DEF Init
  <1> QED BY <1>1, AccountsAssumption DEF PolicyIsNewest, Generations, NoPolicy, Histories

LEMMA NewestStep ==
    ASSUME Typed, PolicyIsNewest, [Next]_vars
    PROVE  PolicyIsNewest'
  <1>s. ASSUME \A h \in Generations : invitation'[h].state = "none" <=> invitation[h].state = "none",
               policy'.gen = 0 \/ UNCHANGED policy
        PROVE  PolicyIsNewest'
    BY <1>s DEF PolicyIsNewest
  <1>1. CASE UNCHANGED vars
    BY <1>1, <1>s DEF vars
  <1>2. ASSUME NEW q \in Requests, Begins(q) \/ SignsIn(q) \/ Fails(q) PROVE PolicyIsNewest'
    BY <1>2, <1>s, BeginsKeeps, SignsInKeeps DEF Mail, Factor, Fails
  <1>3. CASE \/ \E s \in DOMAIN session : Logout(s)
             \/ \E g \in Generations : WorkerEnds(g)
             \/ Expires
    BY <1>3, <1>s, OthersKeep DEF Factor
  <1>4. ASSUME NEW q \in Requests, Enrolls(q) PROVE PolicyIsNewest'
    <2>1. CASE /\ \A h \in Generations : invitation'[h].state = "none" <=> invitation[h].state = "none"
               /\ policy'.gen = 0 \/ UNCHANGED policy
      BY <2>1, <1>s
    <2>2. CASE UNCHANGED invitation /\ Follows(policy'.gen) /\ policy'.gen \in Generations
      BY <2>2 DEF PolicyIsNewest, Follows, Fresh, Generations
    <2>3. CASE /\ UNCHANGED policy /\ policy.gen = request[q].gen
               /\ \A h \in Generations \ {request[q].gen} :
                    invitation'[h].state = "none" <=> invitation[h].state = "none"
      BY <2>3 DEF PolicyIsNewest, Generations
    <2> QED BY <1>4, <2>1, <2>2, <2>3, EnrollsStep DEF EnrollsEffects
  <1> QED BY <1>1, <1>2, <1>3, <1>4 DEF Next

LEMMA NewestAction ==
    ASSUME Typed, PolicyIsNewest, [Next]_vars, config'.gen # config.gen, config'.gen # 0
    PROVE  LET g == config'.gen IN
           /\ invitation[g].state = "live" /\ invitation[g].attempts < MaxAttempts
           /\ \A h \in Generations : h > g => invitation[h].state = "none"
           /\ account.status = "active"
  <1>1. ~UNCHANGED config
    OBVIOUS
  <1>2. PICK q \in Requests : Enrolls(q)
    <2>1. ASSUME NEW q \in Requests, Begins(q) \/ SignsIn(q) \/ Fails(q) PROVE FALSE
      BY <2>1, BeginsKeeps, SignsInKeeps DEF Factor, Fails
    <2>2. ~(\/ \E s \in DOMAIN session : Logout(s)
            \/ \E g \in Generations : WorkerEnds(g)
            \/ Expires)
      BY <1>1, OthersKeep DEF Factor
    <2> QED BY <1>1, <2>1, <2>2 DEF Next, vars
  <1>3. request[q].gen = config'.gen /\ Usable(config'.gen) /\ account.status = "active"
    BY <1>2, EnrollsStep DEF EnrollsEffects, NoConfig
  <1>4. config'.gen \in Generations
    BY <1>2, EnrollsTyped DEF Typed, Tables
  <1>5. policy.gen = config'.gen /\ policy.gen # 0
    BY <1>3 DEF Usable
  <1> QED BY <1>3, <1>4, <1>5 DEF Usable, PolicyIsNewest, Generations

\* An authenticator is enrolled from the newest invitation there is, while it is live,
\* has attempts left, and the account is active.
THEOREM NewestIsEnrolled == Spec => NewestEnrolls
  <1>1. Init => Typed /\ PolicyIsNewest
    BY InitTyped, InitNewest
  <1>2. Typed /\ PolicyIsNewest /\ [Next]_vars => (Typed /\ PolicyIsNewest)'
    BY NextTyped, NewestStep
  <1>3. Typed /\ PolicyIsNewest /\ [Next]_vars =>
          [config'.gen # config.gen /\ config'.gen # 0 =>
              LET g == config'.gen IN
              /\ invitation[g].state = "live" /\ invitation[g].attempts < MaxAttempts
              /\ \A h \in Generations : h > g => invitation[h].state = "none"
              /\ account.status = "active"]_vars
    BY NewestAction
  <1> QED BY <1>1, <1>2, <1>3, PTL DEF Spec, NewestEnrolls

-----------------------------------------------------------------------------
(* Whose a step is, and what it carries on. *)

\* A step of a request is no step of another one.
Mine(q) == \A p \in Requests \ {q} : request'[p] = request[p]

LEMMA GoMine ==
    ASSUME Typed, NEW q \in Requests,
           (\E at : Go(q, at)) \/ End(q) \/ (\E r : Start(q, r))
    PROVE  Mine(q)
  BY DEF Typed, Mine, Go, End, Start

LEMMA StepsAreMine ==
    ASSUME Typed, NEW q \in Requests, Begins(q) \/ SignsIn(q) \/ Enrolls(q) \/ Fails(q)
    PROVE  Mine(q)
  <1>1. CASE Begins(q)
    BY <1>1, BeginsKeeps, GoMine
  <1>2. CASE LoginFactor(q) \/ OpensChallenge(q) \/ ReadsTemporary(q) \/ OpensSession(q)
             \/ MarksCode(q) \/ Refuses(q)
    BY <1>2, GoMine DEF LoginFactor, OpensChallenge, ReadsTemporary, OpensSession, MarksCode, Refuses
  <1>3. CASE TakesChallenge(q) \/ ReadsUser(q) \/ SetsPassword(q) \/ SetsCredential(q)
    BY <1>3, GoMine DEF TakesChallenge, ReadsUser, SetsPassword, SetsCredential
  <1>4. CASE Revokes(q)
    BY <1>4, GoMine DEF Revokes
  <1>5. CASE Locks(q)
    BY <1>5, GoMine DEF Locks
  <1>6. CASE Unmails(q)
    BY <1>6, GoMine DEF Unmails
  <1>7. CASE Invalidates(q) \/ Clears(q) \/ Invites(q) \/ Mails(q) \/ Undoes(q)
    BY <1>7, GoMine DEF Invalidates, Clears, Invites, Mails, Undoes
  <1>8. CASE SetsPolicy(q)
    <2>1. request[q].op = "setup" => Mine(q)
      BY <1>8 DEF SetsPolicy, Typed, Mine
    <2>2. request[q].op # "setup" => \E x :
            request' = [request EXCEPT ![q].at = "invalidate", ![q].clears = x]
      BY <1>8, Zenon DEF SetsPolicy
    <2> QED BY <2>1, <2>2 DEF Typed, Mine
  <1>9. CASE CancelsMail(q) \/ Saves(q) \/ Deletes(q) \/ CountsFailure(q)
    BY <1>9, GoMine DEF CancelsMail, Saves, Deletes, CountsFailure
  <1>10. CASE Completes(q)
    BY <1>10, GoMine DEF Completes
  <1>11. CASE Fails(q)
    BY <1>11, GoMine DEF Fails
  <1>12. CASE Upgrades(q)
    BY <1>12, GoMine DEF Upgrades
  <1> QED BY <1>1, <1>2, <1>3, <1>4, <1>5, <1>6, <1>7, <1>8, <1>9, <1>10, <1>11, <1>12 DEF SignsIn, Enrolls

\* Failed calls are counted, and nothing else changes their number.
LEMMA EndsNoFault ==
    ASSUME NEW q \in Requests, SignsIn(q) \/ Enrolls(q)
    PROVE  UNCHANGED faults
  <1>1. CASE LoginFactor(q) \/ OpensChallenge(q) \/ ReadsTemporary(q) \/ OpensSession(q)
             \/ MarksCode(q) \/ Refuses(q)
    BY <1>1 DEF LoginFactor, OpensChallenge, ReadsTemporary, OpensSession, MarksCode, Refuses
  <1>2. CASE TakesChallenge(q) \/ ReadsUser(q) \/ SetsPassword(q) \/ SetsCredential(q) \/ Revokes(q)
    BY <1>2 DEF TakesChallenge, ReadsUser, SetsPassword, SetsCredential, Revokes
  <1>3. CASE Locks(q) \/ Unmails(q) \/ Invalidates(q) \/ SetsPolicy(q) \/ Clears(q) \/ Invites(q)
    BY <1>3 DEF Locks, Unmails, Invalidates, SetsPolicy, Clears, Invites
  <1>4. CASE Mails(q) \/ Undoes(q) \/ CancelsMail(q) \/ Saves(q) \/ Deletes(q)
             \/ CountsFailure(q) \/ Completes(q)
    BY <1>4 DEF Mails, Undoes, CancelsMail, Saves, Deletes, CountsFailure, Completes
  <1>5. CASE Upgrades(q)
    BY <1>5 DEF Upgrades
  <1> QED BY <1>1, <1>2, <1>3, <1>4, <1>5 DEF SignsIn, Enrolls

LEMMA FaultsStep ==
    ASSUME Typed, faults \in Nat, [Next]_vars
    PROVE  faults' \in Nat
  <1>1. CASE UNCHANGED vars
    BY <1>1 DEF vars
  <1>2. ASSUME NEW q \in Requests, Begins(q) \/ SignsIn(q) \/ Enrolls(q) \/ Fails(q)
        PROVE  faults' \in Nat
    BY <1>2, BeginsKeeps, EndsNoFault DEF Fails
  <1> QED BY <1>1, <1>2, OthersKeep DEF Next

\* What a step of a request that is under way leaves of the request.
Carried(q) ==
    \/ request'[q] = Idle
    \/ /\ \A x \in Fields \ {"at", "gen", "clears"} : request'[q][x] = request[q][x]
       /\ request[q].op = "setup" \/ request'[q].gen = request[q].gen

LEMMA GoCarries ==
    ASSUME Typed, NEW q \in Requests, (\E at : Go(q, at)) \/ End(q)
    PROVE  Carried(q)
  <1>1. DOMAIN request[q] = Fields
    BY DEF Typed, Requesting, ReqOK
  <1> QED BY <1>1 DEF Typed, Carried, Go, End, Fields

LEMMA StepsCarry ==
    ASSUME Typed, NEW q \in Requests, SignsIn(q) \/ Enrolls(q) \/ Fails(q)
    PROVE  Carried(q)
  <1>2. CASE LoginFactor(q) \/ OpensChallenge(q) \/ ReadsTemporary(q) \/ OpensSession(q)
             \/ MarksCode(q) \/ Refuses(q)
    BY <1>2, GoCarries DEF LoginFactor, OpensChallenge, ReadsTemporary, OpensSession, MarksCode, Refuses
  <1>3. CASE TakesChallenge(q) \/ ReadsUser(q) \/ SetsPassword(q) \/ SetsCredential(q)
    BY <1>3, GoCarries DEF TakesChallenge, ReadsUser, SetsPassword, SetsCredential
  <1>4. CASE Revokes(q)
    BY <1>4, GoCarries DEF Revokes
  <1>5. CASE Locks(q)
    BY <1>5, GoCarries DEF Locks
  <1>6. CASE Unmails(q)
    BY <1>6, GoCarries DEF Unmails
  <1>7. CASE Invalidates(q) \/ Clears(q) \/ Invites(q) \/ Mails(q) \/ Undoes(q)
    BY <1>7, GoCarries DEF Invalidates, Clears, Invites, Mails, Undoes
  <1>8. CASE SetsPolicy(q)
    <2>0. DOMAIN request[q] = Fields /\ DOMAIN request = Requests
      BY DEF Typed, Requesting, ReqOK
    <2>1. request[q].op = "setup" => Carried(q)
      BY <1>8, <2>0 DEF SetsPolicy, Carried, Fields
    <2>2. request[q].op # "setup" => \E x :
            request' = [request EXCEPT ![q].at = "invalidate", ![q].clears = x]
      BY <1>8, Zenon DEF SetsPolicy
    <2> QED BY <2>0, <2>1, <2>2 DEF Carried, Fields
  <1>9. CASE CancelsMail(q) \/ Saves(q) \/ Deletes(q) \/ CountsFailure(q)
    BY <1>9, GoCarries DEF CancelsMail, Saves, Deletes, CountsFailure
  <1>10. CASE Completes(q)
    BY <1>10, GoCarries DEF Completes
  <1>11. CASE Fails(q)
    BY <1>11, GoCarries DEF Fails
  <1>12. CASE Upgrades(q)
    BY <1>12, GoCarries DEF Upgrades
  <1> QED BY <1>2, <1>3, <1>4, <1>5, <1>6, <1>7, <1>8, <1>9, <1>10, <1>11, <1>12 DEF SignsIn, Enrolls

\* What a request decides on when it begins.
BeginsWith(n) ==
    /\ n.at \notin {"credential", "revoke", "session"}
    /\ n.op = "login" => n.at \in {"upgrade", "factor"}
    /\ n.op = "mfa" =>
         /\ n.at \in {"refused", "mark"} /\ n.gen = config.gen /\ Found(n.challenge, "login")
         /\ n.at = "mark" => config # NoConfig /\ n.code # 0
    /\ n.op = "change" => n.at \in {"refused", "take"} /\ Found(n.challenge, "change") /\ n.gen = 0
    /\ n.op = "patch" => n.at \in {"lock", "save"} /\ n.seen = account.password
    /\ n.op = "setup" => n.at = "lock" /\ n.gen = 0
    /\ n.op = "confirm" => n.at \in {"failure", "lock"} /\ Usable(n.gen) /\ config = NoConfig

LEMMA BeginsLemma ==
    ASSUME Typed, NEW q \in Requests, Begins(q)
    PROVE  BeginsWith(request'[q]) /\ request'[q].op # "none"
  <1>b. ASSUME NEW r, BeginsWith(r), r.op # "none", DOMAIN r = Fields, Start(q, r)
        PROVE  BeginsWith(request'[q]) /\ request'[q].op # "none"
    BY <1>b DEF Start, Typed
  <1>1. CASE Login(q)
    <2>1. PICK at \in {"upgrade", "factor"} : Start(q, [Idle EXCEPT !.op = "login", !.at = at])
      BY <1>1 DEF Login
    <2> DEFINE r == [Idle EXCEPT !.op = "login", !.at = at]
    <2>2. DOMAIN r = Fields /\ BeginsWith(r) /\ r.op # "none"
      BY DEF Idle, Fields, BeginsWith
    <2> QED BY <2>1, <2>2, <1>b
  <1>2. ASSUME NEW c \in DOMAIN challenge, Mfa(q, c)
        PROVE  BeginsWith(request'[q]) /\ request'[q].op # "none"
    <2>1. PICK code \in Codes \cup {0}, at \in {"refused", "mark"} :
            /\ Start(q, [Idle EXCEPT !.op = "mfa", !.at = at, !.challenge = c, !.code = code,
                                     !.gen = config.gen])
            /\ at = "mark" => config # NoConfig /\ code # 0
      BY <1>2 DEF Mfa
    <2> DEFINE r == [Idle EXCEPT !.op = "mfa", !.at = at, !.challenge = c, !.code = code,
                                 !.gen = config.gen]
    <2>2. Found(c, "login")
      BY <1>2 DEF Mfa
    <2>3. DOMAIN r = Fields /\ BeginsWith(r) /\ r.op # "none"
      BY <2>1, <2>2 DEF Idle, Fields, BeginsWith
    <2> QED BY <2>1, <2>3, <1>b
  <1>3. ASSUME NEW c \in DOMAIN challenge, Change(q, c)
        PROVE  BeginsWith(request'[q]) /\ request'[q].op # "none"
    <2>1. PICK at \in {"refused", "take"} :
            Start(q, [Idle EXCEPT !.op = "change", !.at = at, !.challenge = c])
      BY <1>3 DEF Change
    <2> DEFINE r == [Idle EXCEPT !.op = "change", !.at = at, !.challenge = c]
    <2>2. Found(c, "change")
      BY <1>3 DEF Change
    <2>3. DOMAIN r = Fields /\ BeginsWith(r) /\ r.op # "none"
      BY <2>2 DEF Idle, Fields, BeginsWith
    <2> QED BY <2>1, <2>3, <1>b
  <1>4. CASE Reset(q)
    <2> DEFINE r == [Idle EXCEPT !.op = "reset", !.at = "password"]
    <2>1. Start(q, r) /\ DOMAIN r = Fields /\ BeginsWith(r) /\ r.op # "none"
      BY <1>4 DEF Reset, Idle, Fields, BeginsWith
    <2> QED BY <2>1, <1>b
  <1>5. CASE Setup(q)
    <2>1. PICK app \in Providers, clears \in BOOLEAN :
            Start(q, [Idle EXCEPT !.op = "setup", !.at = "lock", !.app = app, !.clears = clears])
      BY <1>5 DEF Setup
    <2> DEFINE r == [Idle EXCEPT !.op = "setup", !.at = "lock", !.app = app, !.clears = clears]
    <2>2. DOMAIN r = Fields /\ BeginsWith(r) /\ r.op # "none"
      BY DEF Idle, Fields, BeginsWith
    <2> QED BY <2>1, <2>2, <1>b
  <1>6. CASE Resend(q)
    <2> DEFINE r == [Idle EXCEPT !.op = "setup", !.at = "lock", !.app = policy.app, !.seen = "resend"]
    <2>1. Start(q, r)
      BY <1>6 DEF Resend
    <2>2. DOMAIN r = Fields /\ BeginsWith(r) /\ r.op # "none"
      BY DEF Idle, Fields, BeginsWith
    <2> QED BY <2>1, <2>2, <1>b
  <1>7. CASE Disable(q)
    <2> DEFINE r == [Idle EXCEPT !.op = "disable", !.at = "lock"]
    <2>1. Start(q, r) /\ DOMAIN r = Fields /\ BeginsWith(r) /\ r.op # "none"
      BY <1>7 DEF Disable, Idle, Fields, BeginsWith
    <2> QED BY <2>1, <1>b
  <1>8. CASE Patch(q)
    <2>1. PICK to \in {"active", "suspended"}, email \in BOOLEAN, access \in BOOLEAN :
            LET suspends == account.status = "active" /\ to = "suspended"
                invalidates == Pending /\ (email \/ suspends)
                rotates == email /\ account.temporary # "none" IN
            Start(q, [Idle EXCEPT !.op = "patch", !.to = to, !.seen = account.password,
                                  !.clears = invalidates, !.rotates = rotates,
                                  !.code = IF suspends \/ rotates \/ access THEN 1 ELSE 0,
                                  !.at = IF invalidates \/ suspends \/ rotates \/ access
                                         THEN "lock" ELSE "save"])
      BY <1>8, Zenon DEF Patch
    <2> DEFINE suspends == account.status = "active" /\ to = "suspended"
               invalidates == Pending /\ (email \/ suspends)
               rotates == email /\ account.temporary # "none"
               code == IF suspends \/ rotates \/ access THEN 1 ELSE 0
               at == IF invalidates \/ suspends \/ rotates \/ access THEN "lock" ELSE "save"
               r == [Idle EXCEPT !.op = "patch", !.to = to, !.seen = account.password,
                                 !.clears = invalidates, !.rotates = rotates, !.code = code,
                                 !.at = at]
    <2>2. Start(q, r)
      BY <2>1
    <2>3. at \in {"lock", "save"}
      OBVIOUS
    <2> HIDE DEF code, at, rotates, invalidates
    <2>4. DOMAIN r = Fields /\ r.op = "patch" /\ r.at = at /\ r.seen = account.password
      BY DEF Idle, Fields
    <2> HIDE DEF r
    <2>5. BeginsWith(r) /\ r.op # "none"
      BY <2>3, <2>4 DEF BeginsWith
    <2> QED BY <2>2, <2>4, <2>5, <1>b
  <1>9. CASE Delete(q)
    <2> DEFINE r == [Idle EXCEPT !.op = "delete", !.at = "lock"]
    <2>1. Start(q, r) /\ DOMAIN r = Fields /\ BeginsWith(r) /\ r.op # "none"
      BY <1>9 DEF Delete, Idle, Fields, BeginsWith
    <2> QED BY <2>1, <1>b
  <1>10. CASE CancelMail(q)
    <2>1. PICK g \in Generations :
            Start(q, [Idle EXCEPT !.op = "cancel", !.at = "cancelMail", !.gen = g])
      BY <1>10 DEF CancelMail
    <2> DEFINE r == [Idle EXCEPT !.op = "cancel", !.at = "cancelMail", !.gen = g]
    <2>2. DOMAIN r = Fields /\ BeginsWith(r) /\ r.op # "none"
      BY DEF Idle, Fields, BeginsWith
    <2> QED BY <2>1, <2>2, <1>b
  <1>11. CASE Confirm(q)
    <2>1. PICK g \in Generations, code \in Codes \cup {0}, at \in {"failure", "lock"} :
            /\ Start(q, [Idle EXCEPT !.op = "confirm", !.gen = g, !.code = code, !.at = at])
            /\ Usable(g) /\ config = NoConfig
      BY <1>11 DEF Confirm
    <2> DEFINE r == [Idle EXCEPT !.op = "confirm", !.gen = g, !.code = code, !.at = at]
    <2>2. DOMAIN r = Fields /\ BeginsWith(r) /\ r.op # "none"
      BY <2>1 DEF Idle, Fields, BeginsWith
    <2> QED BY <2>1, <2>2, <1>b
  <1>12. CASE Post(q)
    <2>1. PICK to \in {"active", "suspended"}, code \in {0, 1} :
            Start(q, [Idle EXCEPT !.op = "post", !.at = "save", !.to = to,
                                  !.seen = account.password, !.code = code])
      BY <1>12 DEF Post
    <2> DEFINE r == [Idle EXCEPT !.op = "post", !.at = "save", !.to = to,
                                 !.seen = account.password, !.code = code]
    <2>2. DOMAIN r = Fields /\ BeginsWith(r) /\ r.op # "none"
      BY DEF Idle, Fields, BeginsWith
    <2> QED BY <2>1, <2>2, <1>b
  <1> QED BY <1>1, <1>2, <1>3, <1>4, <1>5, <1>6, <1>7, <1>8, <1>9, <1>10, <1>11, <1>12 DEF Begins

-----------------------------------------------------------------------------
(* Generated passwords. *)

\* What the requests of administrators and of enrollments leave of the account and of
\* the sessions.
LEMMA EnrollsTables ==
    ASSUME Typed, NEW q \in Requests, Enrolls(q)
    PROVE  /\ UNCHANGED <<overtaken, faults>>
           /\ request[q].op \in Ops \ {"none", "login", "mfa", "change", "reset"}
           /\ request[q].at \notin {"credential", "revoke", "session"}
           /\ UNCHANGED session \/ session' = Revoked
           /\ UNCHANGED <<account, undone>> \/ Saves(q) \/ Deletes(q)
  <1>k. request[q].op \in Ops /\ request[q].at \in Stages(request[q].op)
    BY KindOfRequest
  <1>1. /\ request[q].at \in {"lock", "unmail", "invalidate", "policy", "clear", "invite", "mail",
                              "undo", "cancelMail", "cancelInvitation", "save", "delete",
                              "failure", "complete"}
    BY DEF Enrolls, Locks, Unmails, Invalidates, SetsPolicy, Clears, Invites, Mails, Undoes,
         CancelsMail, Saves, Deletes, CountsFailure, Completes
  <1>2. request[q].op \in Ops \ {"none", "login", "mfa", "change", "reset"}
    BY <1>k, <1>1 DEF Ops, Stages
  <1>3. UNCHANGED <<overtaken, faults>>
    <2>1. CASE Locks(q) \/ Unmails(q) \/ Invalidates(q) \/ SetsPolicy(q) \/ Clears(q) \/ Invites(q)
      BY <2>1 DEF Locks, Unmails, Invalidates, SetsPolicy, Clears, Invites, Bounds
    <2>2. CASE Mails(q) \/ Undoes(q) \/ CancelsMail(q) \/ Saves(q) \/ Deletes(q)
               \/ CountsFailure(q) \/ Completes(q)
      BY <2>2 DEF Mails, Undoes, CancelsMail, Saves, Deletes, CountsFailure, Completes, Bounds
    <2> QED BY <2>1, <2>2 DEF Enrolls
  <1>4. UNCHANGED session \/ session' = Revoked
    <2>1. CASE Locks(q) \/ Unmails(q) \/ Invalidates(q) \/ SetsPolicy(q) \/ Clears(q) \/ Invites(q)
      BY <2>1 DEF Locks, Unmails, Invalidates, SetsPolicy, Clears, Invites, Signs
    <2>2. CASE Mails(q) \/ Undoes(q) \/ CancelsMail(q) \/ Saves(q) \/ Deletes(q)
               \/ CountsFailure(q) \/ Completes(q)
      BY <2>2 DEF Mails, Undoes, CancelsMail, Saves, Deletes, CountsFailure, Completes, Signs
    <2> QED BY <2>1, <2>2 DEF Enrolls
  <1>5. UNCHANGED <<account, undone>> \/ Saves(q) \/ Deletes(q)
    <2>1. CASE Locks(q) \/ Unmails(q) \/ Invalidates(q) \/ SetsPolicy(q) \/ Clears(q) \/ Invites(q)
      BY <2>1 DEF Locks, Unmails, Invalidates, SetsPolicy, Clears, Invites, Bounds
    <2>2. CASE Mails(q) \/ Undoes(q) \/ CancelsMail(q) \/ CountsFailure(q) \/ Completes(q)
      BY <2>2 DEF Mails, Undoes, CancelsMail, CountsFailure, Completes, Bounds
    <2> QED BY <2>1, <2>2 DEF Enrolls
  <1> QED BY <1>1, <1>2, <1>3, <1>4, <1>5

\* A step that touches neither the password nor its credential.
LEMMA QuietReplaced ==
    ASSUME TemporaryIsReplaced, UNCHANGED account, undone => undone', faults \in Nat,
           faults' >= faults, faults' \in Nat,
           \A p \in Requests : request[p].at = "credential" =>
                                   request'[p].at = "credential" \/ faults' > 0
    PROVE  TemporaryIsReplaced'
  BY DEF TemporaryIsReplaced, Generated

LEMMA SignsInReplaced ==
    ASSUME Typed, faults \in Nat, TemporaryIsReplaced, NEW q \in Requests, SignsIn(q)
    PROVE  TemporaryIsReplaced'
  <1>k. request[q].op \in Ops /\ request[q].at \in Stages(request[q].op)
    BY KindOfRequest
  <1>m. UNCHANGED faults /\ Mine(q)
    BY EndsNoFault, StepsAreMine
  <1>a. account \in AccountType /\ DOMAIN request = Requests /\ DOMAIN request[q] = Fields
    BY DEF Typed, Tables, Requesting, ReqOK
  <1>q. ASSUME UNCHANGED <<account, undone>>, request[q].at # "credential"
        PROVE  TemporaryIsReplaced'
    BY <1>q, <1>m, QuietReplaced DEF Mine
  <1>1. CASE LoginFactor(q) \/ OpensChallenge(q) \/ ReadsTemporary(q) \/ OpensSession(q)
    BY <1>1, <1>q DEF LoginFactor, OpensChallenge, ReadsTemporary, OpensSession, Bounds
  <1>2. CASE MarksCode(q) \/ Refuses(q) \/ TakesChallenge(q) \/ ReadsUser(q) \/ Revokes(q)
    BY <1>2, <1>q DEF MarksCode, Refuses, TakesChallenge, ReadsUser, Revokes, Bounds
  <1>3. CASE Upgrades(q)
    <2>1. CASE Generated
      BY <1>3, <2>1 DEF Upgrades, TemporaryIsReplaced
    <2>2. CASE ~Generated
      <3>1. /\ ~Generated' /\ account'.temporary = account.temporary
            /\ account'.status = account.status
        BY <1>3, <1>a DEF Upgrades, Generated, AccountType
      <3>2. /\ undone' <=> undone
            /\ \A p \in Requests : request[p].at = "credential" => request'[p].at = "credential"
        BY <1>3, <2>2, <1>m DEF Upgrades, Mine
      <3> QED BY <2>2, <3>1, <3>2, <1>m DEF TemporaryIsReplaced
    <2> QED BY <2>1, <2>2
  <1>4. CASE SetsPassword(q)
    <2>1. request'[q].at = "credential"
      BY <1>4, <1>a DEF SetsPassword, Go, Fields
    <2> QED BY <2>1 DEF TemporaryIsReplaced
  <1>5. CASE SetsCredential(q)
    <2>1. CASE undone \/ (Generated <=> request[q].op = "change")
      BY <1>5, <2>1 DEF SetsCredential, TemporaryIsReplaced
    <2>2. CASE ~(Generated <=> request[q].op = "change")
      <3>1. /\ account'.password = account.password /\ account'.status = account.status
            /\ account'.temporary = Credential(q)
        BY <1>5, <1>a DEF SetsCredential, AccountType
      <3>2. (Generated' <=> account'.temporary # "none") \/ account'.status = "deleted"
        BY <2>2, <3>1 DEF Generated, Credential
      <3> QED BY <3>2 DEF TemporaryIsReplaced
    <2> QED BY <2>1, <2>2
  <1> QED BY <1>1, <1>2, <1>3, <1>4, <1>5 DEF SignsIn

LEMMA EnrollsReplaced ==
    ASSUME Typed, faults \in Nat, TemporaryIsReplaced, NEW q \in Requests, Enrolls(q)
    PROVE  TemporaryIsReplaced'
  <1>1. request[q].at # "credential" /\ UNCHANGED faults /\ Mine(q)
    BY EnrollsTables, StepsAreMine
  <1>2. \A p \in Requests : request[p].at = "credential" => request'[p].at = "credential"
    BY <1>1 DEF Mine
  <1>a. account \in AccountType /\ DOMAIN request = Requests /\ DOMAIN request[q] = Fields
    BY DEF Typed, Tables, Requesting, ReqOK
  <1>3. CASE UNCHANGED <<account, undone>>
    BY <1>1, <1>2, <1>3, QuietReplaced
  <1>4. CASE Deletes(q)
    <2>1. account'.status = "deleted"
      BY <1>4, <1>a DEF Deletes, AccountType
    <2> QED BY <2>1 DEF TemporaryIsReplaced
  <1>5. CASE Saves(q)
    <2>1. CASE request[q].rotates
      <3>1. Go(q, "credential")
        BY <1>5, <2>1 DEF Saves
      <3>2. request'[q].at = "credential"
        BY <3>1, <1>a DEF Go, Fields
      <3> QED BY <3>2 DEF TemporaryIsReplaced
    <2>2. CASE account.status = "deleted"
      BY <1>5, <2>2 DEF Saves, TemporaryIsReplaced
    <2>3. CASE undone \/ (~request[q].rotates /\ (Generated <=> request[q].seen # "temporary"))
      BY <1>5, <2>3 DEF Saves, TemporaryIsReplaced
    <2>4. CASE /\ ~request[q].rotates /\ account.status # "deleted"
               /\ ~undone /\ ~(Generated <=> request[q].seen # "temporary")
      <3>1. account'.password = request[q].seen /\ account'.temporary = account.temporary
        BY <1>5, <2>4, <1>a DEF Saves, AccountType
      <3>2. Generated' <=> Generated
        BY <2>4, <3>1 DEF Generated
      <3> QED BY <2>4, <3>1, <3>2, <1>1, <1>2 DEF TemporaryIsReplaced
    <2> QED BY <2>1, <2>2, <2>3, <2>4
  <1> QED BY <1>3, <1>4, <1>5, EnrollsTables

LEMMA ReplacedStep ==
    ASSUME Typed, faults \in Nat, TemporaryIsReplaced, [Next]_vars
    PROVE  TemporaryIsReplaced'
  <1>1. CASE UNCHANGED vars
    BY <1>1 DEF vars, TemporaryIsReplaced, Generated
  <1>2. ASSUME NEW q \in Requests, Fails(q) PROVE TemporaryIsReplaced'
    <2>1. faults' > 0
      BY <1>2 DEF Fails
    <2> QED BY <2>1 DEF TemporaryIsReplaced
  <1>3. CASE \/ \E s \in DOMAIN session : Logout(s)
             \/ \E g \in Generations : WorkerEnds(g)
             \/ Expires
    <2>1. UNCHANGED <<request, undone, faults>>
      BY <1>3, OthersKeep
    <2>2. UNCHANGED account \/ (account.temporary = "valid" /\ account' = [account EXCEPT !.temporary = "expired"])
      BY <1>3 DEF Logout, WorkerEnds, Expires
    <2>3. /\ account'.password = account.password /\ account'.status = account.status
          /\ account'.temporary = "none" <=> account.temporary = "none"
      BY <2>2 DEF Typed, Tables, AccountType
    <2> QED BY <2>1, <2>3 DEF TemporaryIsReplaced, Generated
  <1>4. ASSUME NEW q \in Requests, Begins(q) PROVE TemporaryIsReplaced'
    <2>1. PICK r : Start(q, r)
      BY <1>4, BeginsKeeps
    <2>2. request[q].at = "idle" /\ UNCHANGED <<account, undone, faults>> /\ Mine(q)
      BY <1>4, <2>1, StepsAreMine DEF Start
    <2> QED BY <2>2, QuietReplaced DEF Mine
  <1> QED BY <1>1, <1>2, <1>3, <1>4, SignsInReplaced, EnrollsReplaced DEF Next

\* The password is generated exactly when there is a credential that makes the user
\* change it, whenever no request is between its two writes, unless a call failed or a
\* write undid another one.
THEOREM GeneratedPasswordsAreTemporary == Spec => []TemporaryIsReplaced
  <1> DEFINE Inv == Typed /\ faults \in Nat /\ TemporaryIsReplaced
  <1>1. Init => Inv
    <2> SUFFICES ASSUME Init PROVE Inv
      OBVIOUS
    <2>1. faults = 0 /\ (Generated <=> account.temporary # "none")
      BY DEF Init, Generated
    <2> QED BY <2>1, InitTyped DEF TemporaryIsReplaced
  <1>2. Inv /\ [Next]_vars => Inv'
    BY NextTyped, FaultsStep, ReplacedStep
  <1>3. Inv => TemporaryIsReplaced
    OBVIOUS
  <1> QED BY <1>1, <1>2, <1>3, PTL DEF Spec

-----------------------------------------------------------------------------
(* The end of sessions. *)

\* While a credential stands, the sign-ins that do not look at it any more are those
\* that it came too late for.
LateOnes == account.temporary # "none" => PastChecks \subseteq overtaken

LEMMA KeepsLate ==
    ASSUME LateOnes, NEW q \in Requests, Mine(q), UNCHANGED overtaken,
           account'.temporary # "none" => account.temporary # "none",
           q \in PastChecks' => q \in PastChecks
    PROVE  LateOnes'
  BY DEF LateOnes, PastChecks, Mine

\* No session comes to life, and no request is through with ending sessions.
LEMMA KeepsEnded ==
    ASSUME SessionsEnd, UNCHANGED faults,
           \A s \in DOMAIN session' : session'[s].live =>
              s \in DOMAIN session /\ session[s].live /\ session'[s].late = session[s].late,
           account'.status = "deleted" => account.status = "deleted",
           account'.temporary # "none" => account.temporary # "none",
           \A p \in Requests : request[p].at = "revoke" => request'[p].at = "revoke"
    PROVE  SessionsEnd'
  BY DEF SessionsEnd, Live

LEMMA NoneLeft ==
    ASSUME Typed, session' = Revoked
    PROVE  SessionsEnd'
  <1>1. \A s \in DOMAIN session' : ~session'[s].live
    BY RevokedOK DEF Typed
  <1> QED BY <1>1 DEF SessionsEnd, Live

LEMMA EnrollsEnds ==
    ASSUME Typed, LateOnes, SessionsEnd, NEW q \in Requests, Enrolls(q)
    PROVE  LateOnes' /\ SessionsEnd'
  <1>1. /\ UNCHANGED <<overtaken, faults>> /\ Mine(q) /\ Carried(q)
        /\ request[q].op \in Ops \ {"none", "login", "mfa", "change", "reset"}
        /\ request[q].at \notin {"credential", "revoke", "session"}
        /\ UNCHANGED session \/ session' = Revoked
    BY EnrollsTables, StepsAreMine, StepsCarry
  <1>2. q \notin PastChecks'
    <2>1. Typed'
      BY EnrollsTyped
    <2>2. request'[q].op \in Ops /\ request'[q].at \in Stages(request'[q].op)
      BY <2>1 DEF Typed, Requesting, ReqOK
    <2>3. request'[q].op \in Ops \ {"login", "mfa", "change", "reset"}
      BY <1>1 DEF Carried, Fields, Idle, Ops
    <2> QED BY <2>2, <2>3 DEF PastChecks, Stages, Ops
  <1>3. /\ account'.temporary # "none" => account.temporary # "none"
        /\ Deletes(q) \/ (account'.status = "deleted" => account.status = "deleted")
    <2>1. CASE UNCHANGED account
      BY <2>1
    <2>2. CASE Deletes(q)
      BY <2>2 DEF Deletes, Typed, Tables, AccountType
    <2>3. CASE Saves(q)
      <3>1. request[q].op \in {"patch", "post"}
        BY <2>3, KindOfRequest, KindOf DEF Saves
      <3>2. request[q].to \in {"active", "suspended"} /\ account \in AccountType
        BY <3>1 DEF Typed, Requesting, ReqOK, Tables
      <3> QED BY <2>3, <3>2 DEF Saves, AccountType
    <2> QED BY <2>1, <2>2, <2>3, EnrollsTables
  <1>4. LateOnes'
    BY <1>1, <1>2, <1>3, KeepsLate
  <1>5. CASE session' = Revoked
    BY <1>4, <1>5, NoneLeft
  <1>6. CASE UNCHANGED session /\ ~Deletes(q)
    <2>1. \A p \in Requests : request[p].at = "revoke" => request'[p].at = "revoke"
      BY <1>1 DEF Mine
    <2> QED BY <1>1, <1>3, <1>4, <1>6, <2>1, KeepsEnded
  <1> QED BY <1>1, <1>5, <1>6 DEF Deletes

LEMMA SignsInEnds ==
    ASSUME Typed, LateOnes, SessionsEnd, NEW q \in Requests, SignsIn(q)
    PROVE  LateOnes' /\ SessionsEnd'
  <1>k. request[q].op \in Ops /\ request[q].at \in Stages(request[q].op)
    BY KindOfRequest
  <1>m. UNCHANGED faults /\ Mine(q) /\ Carried(q)
    BY EndsNoFault, StepsAreMine, StepsCarry
  <1>a. account \in AccountType /\ DOMAIN request = Requests /\ DOMAIN request[q] = Fields
    BY DEF Typed, Tables, Requesting, ReqOK
  <1>g. ASSUME NEW at, Go(q, at) PROVE request'[q] = [request[q] EXCEPT !.at = at] /\ request'[q].at = at
    BY <1>g, <1>a DEF Go, Fields
  <1>e. ASSUME End(q) PROVE request'[q] = Idle /\ q \notin PastChecks'
    BY <1>e, <1>a DEF End, Idle, PastChecks
  <1>n. ASSUME request'[q].at \notin {"session", "revoke"} PROVE q \notin PastChecks'
    BY <1>n DEF PastChecks
  <1>q. ASSUME UNCHANGED <<overtaken, session>>, account'.status = account.status,
               account'.temporary = account.temporary, request[q].at # "revoke",
               q \in PastChecks' => q \in PastChecks
        PROVE  LateOnes' /\ SessionsEnd'
    <2>1. \A p \in Requests : request[p].at = "revoke" => request'[p].at = "revoke"
      BY <1>q, <1>m DEF Mine
    <2> QED BY <1>q, <1>m, <2>1, KeepsLate, KeepsEnded
  <1>1. CASE LoginFactor(q) \/ Upgrades(q) \/ SetsPassword(q)
    <2>1. request'[q].at \in {"challenge", "temporary", "factor", "credential"}
      BY <1>1, <1>g DEF LoginFactor, Upgrades, SetsPassword
    <2>2. /\ UNCHANGED <<overtaken, session>> /\ account'.status = account.status
          /\ account'.temporary = account.temporary /\ request[q].at # "revoke"
      BY <1>1, <1>a DEF LoginFactor, Upgrades, SetsPassword, AccountType, Signs, Bounds
    <2> QED BY <2>1, <2>2, <1>n, <1>q
  <1>2. CASE OpensChallenge(q) \/ MarksCode(q) \/ Refuses(q)
    <2>1. End(q) \/ request'[q].at \in {"take", "refused"}
      BY <1>2, <1>g DEF OpensChallenge, MarksCode, Refuses
    <2>2. UNCHANGED <<account, overtaken, session>> /\ request[q].at # "revoke"
      BY <1>2 DEF OpensChallenge, MarksCode, Refuses, Signs, Bounds
    <2> QED BY <2>1, <2>2, <1>n, <1>e, <1>q
  <1>3. CASE TakesChallenge(q) \/ ReadsUser(q)
    <2>1. End(q) \/ request'[q].at \in {"password", "user", "temporary"}
      BY <1>3, <1>g DEF TakesChallenge, ReadsUser
    <2>2. UNCHANGED <<account, overtaken, session>> /\ request[q].at # "revoke"
      BY <1>3 DEF TakesChallenge, ReadsUser, Signs, Bounds
    <2> QED BY <2>1, <2>2, <1>n, <1>e, <1>q
  <1>4. CASE ReadsTemporary(q)
    <2>1. UNCHANGED <<account, overtaken, session>> /\ request[q].at # "revoke"
      BY <1>4 DEF ReadsTemporary, Signs, Bounds
    <2>2. CASE account.temporary = "none"
      <3>1. \A p \in Requests : request[p].at = "revoke" => request'[p].at = "revoke"
        BY <2>1, <1>m DEF Mine
      <3> QED BY <2>1, <2>2, <3>1, <1>m, KeepsEnded DEF LateOnes
    <2>3. CASE account.temporary # "none"
      <3>1. End(q) \/ request'[q].at = "newPassword"
        BY <1>4, <2>3, <1>g DEF ReadsTemporary, MustChange
      <3> QED BY <2>1, <3>1, <1>n, <1>e, <1>q
    <2> QED BY <2>2, <2>3
  <1>5. CASE OpensSession(q)
    <2>1. UNCHANGED <<account, overtaken>> /\ End(q) /\ request[q].at = "session"
      BY <1>5 DEF OpensSession, Bounds
    <2>2. LateOnes'
      BY <2>1, <1>m, <1>e, KeepsLate
    <2>3. CASE UNCHANGED session
      BY <2>1, <2>3, <1>e, <1>q
    <2>4. CASE account.status # "deleted"
      <3> DEFINE e == [live |-> TRUE, challenge |-> request[q].challenge, gen |-> request[q].gen,
                       code |-> request[q].code, late |-> q \in overtaken]
                 n == Len(session) + 1
      <3>1. session' = Append(session, e) /\ session \in Seq(SessionType)
        BY <1>5, <2>4 DEF OpensSession, Typed, Tables
      <3>2. account.temporary # "none" => e.late
        BY <2>1 DEF LateOnes, PastChecks
      <3> HIDE DEF e
      <3>3. DOMAIN session' = 1 .. n /\ session'[n] = e /\ \A s \in DOMAIN session : session'[s] = session[s]
        BY <3>1
      <3>4. \A s \in DOMAIN session' : s = n \/ s \in DOMAIN session
        BY <3>1, <3>3
      <3>5. \A p \in Requests : request[p].at = "revoke" => request'[p].at = "revoke"
        BY <2>1, <1>m DEF Mine
      <3>6. (\A s \in Live : session[s].late) /\ account.temporary # "none" =>
               \A s \in Live' : session'[s].late
        BY <3>2, <3>3, <3>4 DEF Live
      <3> QED BY <2>1, <2>2, <2>4, <3>5, <3>6, <1>m DEF SessionsEnd
    <2> QED BY <1>5, <2>3, <2>4 DEF OpensSession
  <1>6. CASE Revokes(q)
    <2>1. UNCHANGED <<account, overtaken>> /\ session' = Revoked /\ request[q].at = "revoke"
      BY <1>6 DEF Revokes, Bounds
    <2>2. q \in PastChecks' => request[q].op = "change"
      <3>1. CASE request[q].op = "change"
        BY <3>1
      <3>2. CASE request[q].op # "change"
        <4>1. End(q) \/ Go(q, "invite")
          BY <1>6, <3>2 DEF Revokes
        <4>2. Go(q, "invite") => request'[q].at = "invite"
          BY <1>g
        <4> QED BY <4>1, <4>2, <1>e, <1>n
      <3> QED BY <3>1, <3>2
    <2>3. LateOnes'
      BY <2>1, <2>2, <1>m, KeepsLate DEF PastChecks
    <2> QED BY <2>1, <2>3, NoneLeft
  <1>7. CASE SetsCredential(q)
    <2>1. /\ request[q].at = "credential" /\ Go(q, "revoke") /\ UNCHANGED session
          /\ account'.status = account.status /\ account'.temporary = Credential(q)
          /\ overtaken' = IF request[q].op = "change" THEN overtaken ELSE PastChecks
      BY <1>7, <1>a DEF SetsCredential, AccountType, Signs
    <2>2. request'[q].at = "revoke" /\ request'[q].op = request[q].op
      BY <2>1, <1>g, <1>a DEF Fields
    <2>3. LateOnes'
      <3>1. CASE request[q].op = "change"
        BY <3>1, <2>1 DEF Credential, LateOnes
      <3>2. CASE request[q].op # "change"
        BY <3>2, <2>1, <2>2, <1>m DEF PastChecks, LateOnes, Mine
      <3> QED BY <3>1, <3>2
    <2>4. Live' = Live
      BY <2>1 DEF Live
    <2> QED BY <2>1, <2>2, <2>3, <2>4 DEF SessionsEnd
  <1> QED BY <1>1, <1>2, <1>3, <1>4, <1>5, <1>6, <1>7 DEF SignsIn

LEMMA EndedStep ==
    ASSUME Typed, faults \in Nat, LateOnes, SessionsEnd, [Next]_vars
    PROVE  LateOnes' /\ SessionsEnd'
  <1>1. CASE UNCHANGED vars
    BY <1>1 DEF vars, LateOnes, PastChecks, SessionsEnd, Live
  <1>2. ASSUME NEW q \in Requests, Fails(q) PROVE LateOnes' /\ SessionsEnd'
    <2>1. faults' > 0 /\ UNCHANGED <<account, session, overtaken>> /\ Mine(q)
      BY <1>2, StepsAreMine DEF Fails, Signs, Bounds
    <2>2. q \notin PastChecks'
      <3>1. DOMAIN request = Requests /\ DOMAIN request[q] = Fields
        BY DEF Typed, Requesting, ReqOK
      <3>2. request'[q].at \in {"undo", "idle"}
        BY <1>2, <3>1 DEF Fails, Go, End, Idle, Fields
      <3> QED BY <3>2 DEF PastChecks
    <2>3. LateOnes'
      BY <2>1, <2>2, KeepsLate
    <2> QED BY <2>1, <2>3 DEF SessionsEnd, Live
  <1>3. CASE \/ \E s \in DOMAIN session : Logout(s)
             \/ \E g \in Generations : WorkerEnds(g)
             \/ Expires
    <2>1. UNCHANGED <<request, overtaken, faults>>
      BY <1>3, OthersKeep
    <2>2. UNCHANGED account \/ (account.temporary = "valid" /\ account' = [account EXCEPT !.temporary = "expired"])
      BY <1>3 DEF Logout, WorkerEnds, Expires
    <2>3. /\ account'.status = account.status
          /\ account'.temporary = "none" <=> account.temporary = "none"
      BY <2>2 DEF Typed, Tables, AccountType
    <2>4. \A s \in DOMAIN session' : session'[s].live =>
              s \in DOMAIN session /\ session[s].live /\ session'[s].late = session[s].late
      <3>1. CASE UNCHANGED session
        BY <3>1
      <3>2. ASSUME NEW t \in DOMAIN session, session' = [session EXCEPT ![t].live = FALSE]
            PROVE  \A s \in DOMAIN session' : session'[s].live =>
                      s \in DOMAIN session /\ session[s].live /\ session'[s].late = session[s].late
        <4>1. session \in Seq(SessionType) /\ session[t] \in SessionType
          BY DEF Typed, Tables
        <4>2. ~session'[t].live /\ \A s \in DOMAIN session \ {t} : session'[s] = session[s]
          BY <3>2, <4>1 DEF SessionType
        <4> QED BY <3>2, <4>2
      <3> QED BY <1>3, <3>1, <3>2 DEF Logout, WorkerEnds, Expires, Signs
    <2> QED BY <2>1, <2>3, <2>4, KeepsEnded DEF LateOnes, PastChecks
  <1>4. ASSUME NEW q \in Requests, Begins(q) PROVE LateOnes' /\ SessionsEnd'
    <2>1. PICK r : Start(q, r)
      BY <1>4, BeginsKeeps
    <2>2. /\ request[q].at = "idle" /\ UNCHANGED <<account, session, faults>> /\ Mine(q)
          /\ overtaken' = overtaken \ {q}
      BY <1>4, <2>1, StepsAreMine DEF Start, Signs
    <2>3. q \notin PastChecks'
      BY <1>4, BeginsLemma DEF BeginsWith, PastChecks
    <2>4. LateOnes'
      BY <2>2, <2>3 DEF LateOnes, PastChecks, Mine
    <2>5. \A p \in Requests : request[p].at = "revoke" => request'[p].at = "revoke"
      BY <2>2 DEF Mine
    <2> QED BY <2>2, <2>4, <2>5, KeepsEnded
  <1> QED BY <1>1, <1>2, <1>3, <1>4, SignsInEnds, EnrollsEnds DEF Next

\* A deleted account has no session and gets none; and while a generated password has
\* its credential, the only live sessions are of sign-ins that had made their last check
\* before the credential was set, unless a call failed or sessions are being ended.
THEOREM SessionsAreEnded == Spec => []SessionsEnd
  <1> DEFINE Inv == Typed /\ faults \in Nat /\ LateOnes /\ SessionsEnd
  <1>1. Init => Inv
    <2> SUFFICES ASSUME Init PROVE Inv
      OBVIOUS
    <2>1. faults = 0 /\ account.status = "active" /\ \A q \in Requests : request[q] = Idle
      BY DEF Init
    <2>2. account.temporary # "none" => session = <<>>
      BY DEF Init
    <2>3. LateOnes
      BY <2>1 DEF LateOnes, PastChecks, Idle
    <2> QED BY <2>1, <2>2, <2>3, InitTyped DEF SessionsEnd, Live
  <1>2. Inv /\ [Next]_vars => Inv'
    BY NextTyped, FaultsStep, EndedStep
  <1>3. Inv => SessionsEnd
    OBVIOUS
  <1> QED BY <1>1, <1>2, <1>3, PTL DEF Spec

-----------------------------------------------------------------------------
(* Factors: challenges. *)

Spends(c) == c \in DOMAIN challenge /\ challenge[c].state # "live"
Took == {"user", "temporary", "newPassword", "session", "password", "credential", "revoke"}
Holds(q) == request[q].op \in {"mfa", "change"} /\ request[q].at \in Took

\* A challenge that a session came from, or that a request has taken, is nobody else's
\* and cannot be taken again.
ChallengesSpent ==
    /\ \A s \in DOMAIN session : session[s].challenge # 0 => Spends(session[s].challenge)
    /\ \A s, t \in DOMAIN session :
         s # t /\ session[s].challenge # 0 => session[s].challenge # session[t].challenge
    /\ \A q \in Requests : Holds(q) =>
         /\ Spends(request[q].challenge)
         /\ \A s \in DOMAIN session : session[s].challenge # request[q].challenge
         /\ \A p \in Requests \ {q} : Holds(p) => request[p].challenge # request[q].challenge

SameSessions ==
    /\ DOMAIN session' = DOMAIN session
    /\ \A s \in DOMAIN session :
         /\ session'[s].challenge = session[s].challenge
         /\ session'[s].gen = session[s].gen /\ session'[s].code = session[s].code

\* A challenge that is spent stays so.
SpentStay == \A c \in DOMAIN challenge : challenge[c].state # "live" =>
                 c \in DOMAIN challenge' /\ challenge'[c].state # "live"

LEMMA UnchangedSessions ==
    ASSUME UNCHANGED session
    PROVE  SameSessions
  BY DEF SameSessions

LEMMA EnrollsSigns ==
    ASSUME Typed, NEW q \in Requests, Enrolls(q) \/ Fails(q)
    PROVE  SameSessions /\ SpentStay
  <1>0. Tables
    BY DEF Typed
  <1>1. UNCHANGED session \/ session' = Revoked
    <2>1. CASE Locks(q) \/ Unmails(q) \/ Invalidates(q) \/ SetsPolicy(q) \/ Clears(q) \/ Invites(q)
      BY <2>1 DEF Locks, Unmails, Invalidates, SetsPolicy, Clears, Invites, Signs
    <2>2. CASE Mails(q) \/ Undoes(q) \/ CancelsMail(q) \/ Saves(q) \/ CountsFailure(q) \/ Fails(q)
      BY <2>2 DEF Mails, Undoes, CancelsMail, Saves, CountsFailure, Fails, Signs
    <2>3. CASE Deletes(q) \/ Completes(q)
      BY <2>3 DEF Deletes, Completes
    <2> QED BY <2>1, <2>2, <2>3 DEF Enrolls
  <1>2. UNCHANGED challenge \/ challenge' = Cleared
    <2>1. CASE Locks(q) \/ Unmails(q) \/ Invalidates(q) \/ SetsPolicy(q) \/ Clears(q) \/ Invites(q)
      BY <2>1 DEF Locks, Unmails, Invalidates, SetsPolicy, Clears, Invites, Signs
    <2>2. CASE Mails(q) \/ Undoes(q) \/ CancelsMail(q) \/ Saves(q) \/ CountsFailure(q) \/ Fails(q)
      BY <2>2 DEF Mails, Undoes, CancelsMail, Saves, CountsFailure, Fails, Signs
    <2>3. CASE Deletes(q) \/ Completes(q)
      BY <2>3 DEF Deletes, Completes
    <2> QED BY <2>1, <2>2, <2>3 DEF Enrolls
  <1>3. SameSessions
    BY <1>0, <1>1, RevokedOK DEF SameSessions
  <1>4. SpentStay
    BY <1>0, <1>2, ClearedOK DEF SpentStay
  <1> QED BY <1>3, <1>4

LEMMA OthersSigns ==
    ASSUME Typed,
           \/ \E s \in DOMAIN session : Logout(s)
           \/ \E g \in Generations : WorkerEnds(g)
           \/ Expires
    PROVE  SameSessions /\ SpentStay
  <1>0. Tables
    BY DEF Typed
  <1>1. ASSUME NEW s \in DOMAIN session, Logout(s) PROVE SameSessions /\ SpentStay
    <2>1. session' = [session EXCEPT ![s].live = FALSE] /\ UNCHANGED challenge
      BY <1>1 DEF Logout
    <2> QED BY <2>1, <1>0, SessionEndsOK DEF SameSessions, SpentStay
  <1>2. ASSUME NEW g \in Generations, WorkerEnds(g) PROVE SameSessions /\ SpentStay
    BY <1>2 DEF WorkerEnds, Signs, SameSessions, SpentStay
  <1>3. CASE Expires
    <2>1. SameSessions
      BY <1>3, UnchangedSessions DEF Expires
    <2>2. UNCHANGED challenge \/ \E c \in DOMAIN challenge : challenge' = [challenge EXCEPT ![c].state = "gone"]
      BY <1>3 DEF Expires
    <2>3. ASSUME NEW c \in DOMAIN challenge, NEW st \in {"live", "used", "gone"}, st # "live",
                 challenge' = [challenge EXCEPT ![c].state = st]
          PROVE  SpentStay
      BY <2>3, <1>0, TakenOK DEF SpentStay
    <2> QED BY <2>1, <2>2, <2>3 DEF SpentStay
  <1> QED BY <1>1, <1>2, <1>3

LEMMA SignsInSpent ==
    ASSUME Typed, NEW q \in Requests, SignsIn(q)
    PROVE  SpentStay
  <1>0. Tables /\ ReqOK(request[q], challenge, session)
    BY DEF Typed, Requesting
  <1>k. request[q].op \in Ops /\ request[q].at \in Stages(request[q].op)
    BY KindOfRequest
  <1>u. UNCHANGED challenge => SpentStay
    BY DEF SpentStay
  <1>1. CASE LoginFactor(q) \/ ReadsTemporary(q) \/ OpensSession(q) \/ MarksCode(q) \/ ReadsUser(q)
    BY <1>1, <1>u DEF LoginFactor, ReadsTemporary, OpensSession, MarksCode, ReadsUser, Signs
  <1>2. CASE Upgrades(q) \/ SetsPassword(q) \/ SetsCredential(q) \/ Revokes(q)
    BY <1>2, <1>u DEF Upgrades, SetsPassword, SetsCredential, Revokes, Signs
  <1>3. CASE OpensChallenge(q)
    <2>1. UNCHANGED challenge \/ \E e : challenge' = Append(challenge, e)
      BY <1>3 DEF OpensChallenge
    <2>2. ASSUME NEW e, challenge' = Append(challenge, e) PROVE SpentStay
      BY <2>2, <1>0 DEF SpentStay, Tables
    <2> QED BY <2>1, <2>2, <1>u
  <1>4. CASE Refuses(q)
    <2>1. request[q].op \in {"mfa", "change"}
      BY <1>4, <1>k, KindOf DEF Refuses
    <2>2. PICK c \in DOMAIN challenge : c = request[q].challenge
      BY <2>1, <1>0 DEF ReqOK
    <2>3. CASE challenge[c].state # "live"
      BY <2>2, <2>3, <1>4, <1>u DEF Refuses
    <2>4. CASE challenge[c].state = "live"
      <3>1. \A d \in DOMAIN challenge \ {c} : d \in DOMAIN challenge' /\ challenge'[d] = challenge[d]
        BY <2>2, <2>4, <1>4, <1>0 DEF Refuses, Tables
      <3> QED BY <3>1, <2>4 DEF SpentStay
    <2> QED BY <2>3, <2>4
  <1>5. CASE TakesChallenge(q)
    <2>1. request[q].op \in {"mfa", "change"}
      BY <1>5, <1>k, KindOf DEF TakesChallenge
    <2>2. PICK c \in DOMAIN challenge : c = request[q].challenge
      BY <2>1, <1>0 DEF ReqOK
    <2>3. UNCHANGED challenge \/ challenge' = [challenge EXCEPT ![c].state = "used"]
      BY <1>5, <2>2 DEF TakesChallenge
    <2>4. ASSUME NEW st \in {"live", "used", "gone"}, st # "live",
                 challenge' = [challenge EXCEPT ![c].state = st]
          PROVE  SpentStay
      BY <2>4, <1>0, TakenOK DEF SpentStay
    <2> QED BY <2>3, <2>4, <1>u
  <1> QED BY <1>1, <1>2, <1>3, <1>4, <1>5 DEF SignsIn


\* Only taking a challenge makes a request one that has taken it.
HoldsAsBefore(q) ==
    request'[q].op \in {"mfa", "change"} /\ request'[q].at \in Took =>
        /\ Holds(q) /\ request'[q].op = request[q].op
        /\ request'[q].challenge = request[q].challenge
        /\ request'[q].gen = request[q].gen /\ request'[q].code = request[q].code

LEMMA HoldsBack ==
    ASSUME Typed, NEW q \in Requests,
           \/ Begins(q) \/ SignsIn(q) \/ Enrolls(q) \/ Fails(q), ~TakesChallenge(q)
    PROVE  HoldsAsBefore(q)
  <1> DEFINE r == request[q]
  <1>k. r.op \in Ops /\ r.at \in Stages(r.op)
    BY KindOfRequest
  <1>o. DOMAIN r = Fields /\ DOMAIN request = Requests
    BY DEF Typed, Requesting, ReqOK
  <1>g. ASSUME NEW at, Go(q, at) PROVE request'[q].at = at
    BY <1>g, <1>o DEF Go, Fields
  <1>e. ASSUME End(q) PROVE request'[q].op = "none"
    BY <1>e, <1>o DEF End, Idle
  <1>c. ASSUME Carried(q), r.op \in {"mfa", "change"} => r.at \in Took \/ request'[q].at \notin Took
        PROVE  HoldsAsBefore(q)
    BY <1>c DEF Carried, HoldsAsBefore, Holds, Idle, Fields
  <1>1. CASE Begins(q)
    BY <1>1, BeginsLemma DEF BeginsWith, HoldsAsBefore, Took
  <1>2. CASE Enrolls(q)
    <2>1. r.op \notin {"mfa", "change"}
      BY <1>2, <1>k, KindOf DEF Enrolls, Locks, Unmails, Invalidates, SetsPolicy, Clears, Invites,
         Mails, Undoes, CancelsMail, Saves, Deletes, CountsFailure, Completes
    <2> QED BY <2>1, <1>2, <1>c, StepsCarry
  <1>3. CASE Fails(q)
    <2>1. End(q) \/ r.op = "setup"
      BY <1>3 DEF Fails
    <2> QED BY <2>1, <1>3, <1>c, <1>e, StepsCarry DEF HoldsAsBefore
  <1>4. CASE SignsIn(q)
    <2>c. Carried(q)
      BY <1>4, StepsCarry
    <2>1. CASE LoginFactor(q) \/ Upgrades(q)
      BY <2>1, <2>c, <1>c, <1>k, KindOf DEF LoginFactor, Upgrades
    <2>2. CASE OpensChallenge(q) \/ OpensSession(q) \/ Refuses(q)
      BY <2>2, <1>e DEF OpensChallenge, OpensSession, Refuses, HoldsAsBefore
    <2>3. CASE MarksCode(q)
      <3>1. request'[q].at \in {"take", "refused"}
        BY <2>3, <1>g DEF MarksCode
      <3> QED BY <3>1 DEF HoldsAsBefore, Took
    <2>4. CASE ReadsTemporary(q) \/ ReadsUser(q) \/ SetsPassword(q) \/ SetsCredential(q) \/ Revokes(q)
      <3>1. r.at \in Took
        BY <2>4 DEF ReadsTemporary, ReadsUser, SetsPassword, SetsCredential, Revokes, Took
      <3> QED BY <3>1, <2>c, <1>c
    <2> QED BY <1>4, <2>1, <2>2, <2>3, <2>4 DEF SignsIn
  <1> QED BY <1>1, <1>2, <1>3, <1>4

LEMMA TakenStep ==
    ASSUME Typed, NEW q \in Requests, TakesChallenge(q), NEW c \in DOMAIN challenge,
           c = request[q].challenge
    PROVE  \/ /\ challenge[c].state = "live" /\ challenge'[c].state = "used"
              /\ DOMAIN challenge' = DOMAIN challenge
              /\ request'[q].op = request[q].op /\ request'[q].challenge = c
              /\ request'[q].gen = request[q].gen /\ request'[q].code = request[q].code
              /\ request'[q].at = IF request[q].op = "change" THEN "password" ELSE "user"
           \/ request'[q] = Idle
  <1>0. Tables /\ DOMAIN request = Requests /\ DOMAIN request[q] = Fields
    BY DEF Typed, Requesting, ReqOK
  <1>1. CASE Takes(c)
    <2>1. /\ challenge[c].state = "live" /\ challenge' = [challenge EXCEPT ![c].state = "used"]
          /\ Go(q, IF request[q].op = "change" THEN "password" ELSE "user")
      BY <1>1 DEF TakesChallenge, Takes
    <2>2. challenge'[c].state = "used" /\ DOMAIN challenge' = DOMAIN challenge
      <3>1. challenge \in Seq(ChallengeType) /\ challenge[c] \in ChallengeType
        BY <1>0 DEF Tables
      <3> QED BY <3>1, <2>1 DEF ChallengeType
    <2> QED BY <2>1, <2>2, <1>0 DEF Go, Fields
  <1>2. CASE ~Takes(c)
    BY <1>2, <1>0 DEF TakesChallenge, End
  <1> QED BY <1>1, <1>2

LEMMA OpenedStep ==
    ASSUME Typed, NEW q \in Requests, OpensSession(q)
    PROVE  /\ request'[q] = Idle /\ UNCHANGED <<challenge, config, invitation>>
           /\ \/ UNCHANGED session
              \/ LET n == Len(session) + 1 IN
                 /\ n \notin DOMAIN session /\ DOMAIN session' = DOMAIN session \cup {n}
                 /\ session'[n].challenge = request[q].challenge
                 /\ session'[n].gen = request[q].gen /\ session'[n].code = request[q].code
                 /\ \A s \in DOMAIN session : session'[s] = session[s]
  <1>1. request'[q] = Idle /\ UNCHANGED <<challenge, config, invitation>>
    BY DEF OpensSession, End, Factor, Mail, Typed
  <1>2. CASE ~UNCHANGED session
    <2> DEFINE e == [live |-> TRUE, challenge |-> request[q].challenge, gen |-> request[q].gen,
                     code |-> request[q].code, late |-> q \in overtaken]
    <2>1. session' = Append(session, e)
      BY <1>2 DEF OpensSession
    <2>2. session \in Seq(SessionType)
      BY DEF Typed, Tables
    <2>3. e.challenge = request[q].challenge /\ e.gen = request[q].gen /\ e.code = request[q].code
      OBVIOUS
    <2> HIDE DEF e
    <2>4. /\ DOMAIN session = 1 .. Len(session) /\ Len(session) \in Nat
          /\ DOMAIN session' = 1 .. Len(session) + 1 /\ session'[Len(session) + 1] = e
          /\ \A s \in DOMAIN session : session'[s] = session[s]
      BY <2>1, <2>2
    <2> QED BY <2>3, <2>4, <1>1
  <1> QED BY <1>1, <1>2

LEMMA OtherSessions ==
    ASSUME Typed, NEW q \in Requests, SignsIn(q), ~OpensSession(q)
    PROVE  SameSessions
  <1>1. UNCHANGED session \/ session' = Revoked
    <2>1. CASE LoginFactor(q) \/ OpensChallenge(q) \/ ReadsTemporary(q) \/ MarksCode(q) \/ Refuses(q)
      BY <2>1 DEF LoginFactor, OpensChallenge, ReadsTemporary, MarksCode, Refuses, Signs
    <2>2. CASE TakesChallenge(q) \/ ReadsUser(q) \/ SetsPassword(q) \/ SetsCredential(q) \/ Revokes(q)
      BY <2>2 DEF TakesChallenge, ReadsUser, SetsPassword, SetsCredential, Revokes, Signs
    <2>3. CASE Upgrades(q)
      BY <2>3 DEF Upgrades, Signs
    <2> QED BY <2>1, <2>2, <2>3 DEF SignsIn
  <1> QED BY <1>1, RevokedOK DEF SameSessions, Typed

LEMMA SpentStep ==
    ASSUME Typed, ChallengesSpent, [Next]_vars
    PROVE  ChallengesSpent'
  <1>0. Typed'
    BY NextTyped
  <1>q. ASSUME SameSessions, SpentStay, \A q \in Requests : HoldsAsBefore(q)
        PROVE  ChallengesSpent'
    BY <1>q DEF ChallengesSpent, SameSessions, SpentStay, Spends, HoldsAsBefore, Holds
  <1>m. ASSUME NEW q \in Requests, Begins(q) \/ SignsIn(q) \/ Enrolls(q) \/ Fails(q), ~TakesChallenge(q)
        PROVE  \A p \in Requests : HoldsAsBefore(p)
    BY <1>m, HoldsBack, StepsAreMine DEF Mine, HoldsAsBefore, Holds
  <1>1. CASE UNCHANGED vars
    BY <1>1, <1>q DEF vars, SameSessions, SpentStay, HoldsAsBefore, Holds
  <1>2. CASE \/ \E s \in DOMAIN session : Logout(s)
             \/ \E g \in Generations : WorkerEnds(g)
             \/ Expires
    BY <1>2, <1>q, OthersSigns, OthersKeep DEF HoldsAsBefore, Holds
  <1>3. ASSUME NEW q \in Requests, Begins(q) PROVE ChallengesSpent'
    <2>1. SameSessions /\ SpentStay
      BY <1>3, BeginsKeeps DEF Signs, SameSessions, SpentStay
    <2>2. ~TakesChallenge(q)
      BY <1>3, BeginsKeeps DEF Start, TakesChallenge
    <2> QED BY <2>1, <2>2, <1>3, <1>m, <1>q
  <1>4. ASSUME NEW q \in Requests, Enrolls(q) \/ Fails(q), ~SignsIn(q) PROVE ChallengesSpent'
    BY <1>4, <1>m, <1>q, EnrollsSigns DEF SignsIn
  <1>5. ASSUME NEW q \in Requests, SignsIn(q), ~OpensSession(q), ~TakesChallenge(q)
        PROVE  ChallengesSpent'
    BY <1>5, <1>m, <1>q, OtherSessions, SignsInSpent
  <1>6. ASSUME NEW q \in Requests, TakesChallenge(q) PROVE ChallengesSpent'
    <2>1. SameSessions /\ SpentStay /\ Mine(q)
      BY <1>6, OtherSessions, SignsInSpent, StepsAreMine DEF SignsIn, TakesChallenge, OpensSession
    <2>2. request[q].op \in {"mfa", "change"}
      BY <1>6, KindOfRequest, KindOf DEF TakesChallenge
    <2>3. PICK c \in DOMAIN challenge : c = request[q].challenge
      BY <2>2 DEF Typed, Requesting, ReqOK
    <2>4. \A p \in Requests \ {q} : HoldsAsBefore(p)
      BY <2>1 DEF Mine, HoldsAsBefore, Holds
    <2>5. CASE request'[q] = Idle
      BY <2>1, <2>4, <2>5, <1>q DEF HoldsAsBefore, Idle
    <2>6. CASE /\ challenge[c].state = "live" /\ challenge'[c].state = "used"
               /\ DOMAIN challenge' = DOMAIN challenge /\ request'[q].challenge = c
      <3>1. \A s \in DOMAIN session : session[s].challenge # c
        <4>1. ASSUME NEW s \in DOMAIN session, session[s].challenge = c PROVE FALSE
          <5>1. c # 0
            BY DEF Typed, Tables
          <5> QED BY <4>1, <5>1, <2>6 DEF ChallengesSpent, Spends
        <4> QED BY <4>1
      <3>2. \A p \in Requests : Holds(p) => request[p].challenge # c
        BY <2>6 DEF ChallengesSpent, Spends
      <3> QED BY <2>1, <2>4, <2>6, <3>1, <3>2
          DEF ChallengesSpent, SameSessions, SpentStay, Spends, HoldsAsBefore, Holds
    <2> QED BY <1>6, <2>3, <2>5, <2>6, TakenStep
  <1>7. ASSUME NEW q \in Requests, OpensSession(q) PROVE ChallengesSpent'
    <2>1. SpentStay /\ Mine(q) /\ request'[q] = Idle
      BY <1>7, SignsInSpent, StepsAreMine, OpenedStep DEF SignsIn
    <2>2. \A p \in Requests : HoldsAsBefore(p)
      BY <2>1 DEF Mine, HoldsAsBefore, Holds, Idle
    <2>3. CASE UNCHANGED session
      BY <2>1, <2>2, <2>3, <1>q, UnchangedSessions
    <2>4. CASE ~UNCHANGED session
      <3> DEFINE n == Len(session) + 1
      <3>1. /\ n \notin DOMAIN session /\ DOMAIN session' = DOMAIN session \cup {n}
            /\ session'[n].challenge = request[q].challenge
            /\ \A s \in DOMAIN session : session'[s] = session[s]
        BY <1>7, <2>4, OpenedStep
      <3> HIDE DEF n
      <3>2. request[q].op \in {"login", "mfa", "change"} /\ request[q].at = "session"
        BY <1>7, KindOfRequest, KindOf DEF OpensSession
      <3>3. CASE request[q].op = "login"
        <4>1. request[q].challenge = 0
          BY <3>3 DEF Typed, Requesting, ReqOK
        <4>2. \A p \in Requests : Holds(p) => request[p].challenge # 0
          BY DEF Typed, Tables, Requesting, ReqOK, Holds
        <4> QED BY <2>1, <2>2, <3>1, <4>1, <4>2
            DEF ChallengesSpent, SpentStay, Spends, HoldsAsBefore, Holds, Mine, Idle
      <3>4. CASE Holds(q)
        <4>1. request[q].challenge # 0
          BY <3>4 DEF Typed, Tables, Requesting, ReqOK, Holds
        <4> QED BY <2>1, <2>2, <3>1, <3>4, <4>1
            DEF ChallengesSpent, SpentStay, Spends, HoldsAsBefore, Holds, Mine, Idle
      <3> QED BY <3>2, <3>3, <3>4 DEF Holds, Took
    <2> QED BY <2>3, <2>4
  <1> QED BY <1>1, <1>2, <1>3, <1>4, <1>5, <1>6, <1>7 DEF Next

-----------------------------------------------------------------------------
(* Factors: invitations. *)

Inviting == {"clear", "revoke", "invite"}
Confirms == {"lock", "complete"}

\* The generation that a request for an enrollment has taken is its own, and has no
\* invitation before the request makes it.
Setups ==
    \A q \in Requests : request[q].op = "setup" /\ request[q].gen # 0 =>
        /\ request[q].at \in Inviting => invitation[request[q].gen].state = "none"
        /\ \A p \in Requests \ {q} : request[p].op = "setup" => request[p].gen # request[q].gen

\* An authenticator came from an invitation that nobody can use again; while the one
\* that a confirmation is about is the user's, there is no authenticator.
Enrolled == config.gen # 0 => invitation[config.gen].state = "consumed"
Confirming ==
    \A q \in Requests : request[q].op = "confirm" /\ request[q].at \in Confirms =>
        /\ invitation[request[q].gen].state # "none"
        /\ policy.gen = request[q].gen => config.gen = 0

\* How a request for an enrollment, or a confirmation, goes on.
GoesOn(q) ==
    \/ request'[q] = Idle
    \/ /\ request'[q].op = request[q].op /\ request'[q].gen = request[q].gen
       /\ request[q].op = "setup" /\ request'[q].at \in Inviting => request[q].at \in Inviting
       /\ request[q].op = "confirm" /\ request'[q].at \in Confirms => request[q].at \in Confirms

LEMMA StepsGoOn ==
    ASSUME Typed, NEW q \in Requests, SignsIn(q) \/ Fails(q) \/ (Enrolls(q) /\ ~SetsPolicy(q))
    PROVE  GoesOn(q)
  <1> DEFINE r == request[q]
  <1>k. r.op \in Ops /\ r.at \in Stages(r.op)
    BY KindOfRequest
  <1>o. DOMAIN r = Fields /\ DOMAIN request = Requests
    BY DEF Typed, Requesting, ReqOK
  <1>e. ASSUME End(q) PROVE GoesOn(q)
    BY <1>e, <1>o DEF End, GoesOn
  <1>g. ASSUME NEW at, Go(q, at), r.op = "setup" /\ at \in Inviting => r.at \in Inviting,
               r.op = "confirm" /\ at \in Confirms => r.at \in Confirms
        PROVE GoesOn(q)
    <2>1. request'[q].at = at /\ request'[q].op = r.op /\ request'[q].gen = r.gen
      BY <1>g, <1>o DEF Go, Fields
    <2> QED BY <1>g, <2>1 DEF GoesOn
  <1>h. ASSUME NEW at, Go(q, at), at \notin Inviting, at \notin Confirms PROVE GoesOn(q)
    BY <1>h, <1>g
  <1>i. ASSUME NEW at, Go(q, at), r.op \notin {"setup", "confirm"} PROVE GoesOn(q)
    BY <1>i, <1>g
  <1>1. CASE Upgrades(q) \/ LoginFactor(q) \/ ReadsTemporary(q) \/ ReadsUser(q) \/ MarksCode(q)
    BY <1>1, <1>h, <1>e DEF Upgrades, LoginFactor, ReadsTemporary, ReadsUser, MarksCode, Inviting, Confirms
  <1>2. CASE OpensChallenge(q) \/ OpensSession(q) \/ Refuses(q)
    BY <1>2, <1>e DEF OpensChallenge, OpensSession, Refuses
  <1>3. CASE TakesChallenge(q)
    BY <1>3, <1>h, <1>e DEF TakesChallenge, Inviting, Confirms
  <1>4. CASE SetsPassword(q)
    BY <1>4, <1>h DEF SetsPassword, Inviting, Confirms
  <1>5. CASE SetsCredential(q)
    <2>1. r.op \notin {"setup", "confirm"}
      BY <1>5, <1>k, KindOf DEF SetsCredential
    <2> QED BY <2>1, <1>5, <1>i DEF SetsCredential
  <1>6. CASE Revokes(q)
    <2>1. r.op # "confirm" /\ r.at \in Inviting
      BY <1>6, <1>k, KindOf DEF Revokes, Inviting
    <2> QED BY <2>1, <1>6, <1>g, <1>e DEF Revokes
  <1>7. CASE Locks(q)
    <2>1. r.at \in Confirms
      BY <1>7 DEF Locks, Confirms
    <2>2. CASE End(q)
      BY <2>2, <1>e
    <2>3. CASE r.op = "setup" /\ Go(q, "unmail")
      BY <2>3, <1>h DEF Inviting, Confirms
    <2>4. CASE r.op # "setup" /\ \E at : Go(q, at)
      BY <2>1, <2>4, <1>g
    <2> QED BY <1>7, <2>2, <2>3, <2>4 DEF Locks
  <1>8. CASE Unmails(q)
    <2>1. CASE r.op = "setup" /\ Go(q, "invalidate")
      BY <2>1, <1>h DEF Inviting, Confirms
    <2>2. CASE r.op \in {"disable", "patch"} /\ \E at : Go(q, at)
      BY <2>2, <1>i
    <2> QED BY <1>8, <1>e, <2>1, <2>2 DEF Unmails
  <1>9. CASE Invalidates(q)
    BY <1>9, <1>h DEF Invalidates, Inviting, Confirms
  <1>10. CASE Clears(q) \/ Invites(q)
    <2>1. r.op # "confirm" /\ r.at \in Inviting
      BY <1>10, <1>k, KindOf DEF Clears, Invites, Inviting
    <2> QED BY <2>1, <1>10, <1>g, <1>e DEF Clears, Invites
  <1>11. CASE Mails(q) \/ Undoes(q) \/ Deletes(q) \/ CountsFailure(q)
    BY <1>11, <1>e DEF Mails, Undoes, Deletes, CountsFailure
  <1>12. CASE CancelsMail(q)
    BY <1>12, <1>h, <1>e DEF CancelsMail, Inviting, Confirms
  <1>13. CASE Saves(q)
    <2>1. r.op \notin {"setup", "confirm"}
      BY <1>13, <1>k, KindOf DEF Saves
    <2> QED BY <2>1, <1>13, <1>i, <1>e DEF Saves
  <1>14. CASE Completes(q)
    BY <1>14, <1>h, <1>e DEF Completes, Inviting, Confirms
  <1>15. CASE Fails(q)
    BY <1>15, <1>h, <1>e DEF Fails, Inviting, Confirms
  <1> QED BY <1>1, <1>2, <1>3, <1>4, <1>5, <1>6, <1>7, <1>8, <1>9, <1>10, <1>11, <1>12, <1>13,
             <1>14, <1>15 DEF SignsIn, Enrolls

\* What a step leaves of the invitations that nobody can use any more.
ConsumedStay == \A g \in Generations :
                    invitation[g].state = "consumed" => invitation'[g].state = "consumed"

LEMMA ConsumedStep ==
    ASSUME Typed, Setups, [Next]_vars
    PROVE  ConsumedStay
  <1>0. Tables
    BY DEF Typed
  <1>u. UNCHANGED invitation \/ invitation' = Cancelled => ConsumedStay
    BY <1>0, CancelledOK DEF ConsumedStay
  <1>s. ASSUME NEW g \in Generations, invitation[g].state = "live",
               \A h \in Generations \ {g} : invitation'[h] = invitation[h]
        PROVE  ConsumedStay
    BY <1>s DEF ConsumedStay
  <1>1. CASE UNCHANGED vars
    BY <1>1, <1>u DEF vars
  <1>2. CASE \/ \E s \in DOMAIN session : Logout(s)
             \/ \E g \in Generations : WorkerEnds(g)
             \/ Expires
    BY <1>2, OthersKeep DEF ConsumedStay
  <1>3. ASSUME NEW q \in Requests, Begins(q) \/ SignsIn(q) \/ Fails(q) PROVE ConsumedStay
    BY <1>3, <1>u, BeginsKeeps, SignsInKeeps DEF Fails, Mail
  <1>4. ASSUME NEW q \in Requests, Enrolls(q) PROVE ConsumedStay
    <2>0. ReqOK(request[q], challenge, session)
      BY DEF Typed, Requesting
    <2>k. request[q].op \in Ops /\ request[q].at \in Stages(request[q].op)
      BY KindOfRequest
    <2>1. CASE Locks(q) \/ Unmails(q) \/ Invalidates(q) \/ SetsPolicy(q) \/ Clears(q)
      BY <2>1, <1>u DEF Locks, Unmails, Invalidates, SetsPolicy, Clears, Mail
    <2>2. CASE Mails(q) \/ Undoes(q) \/ Saves(q) \/ Deletes(q)
      BY <2>2, <1>u DEF Mails, Undoes, Saves, Deletes, Mail
    <2>3. CASE Invites(q)
      <3>1. CASE UNCHANGED invitation
        BY <3>1, <1>u
      <3>2. CASE invitation' = [Cancelled EXCEPT ![request[q].gen] =
                                   [state |-> "live", app |-> request[q].app, attempts |-> 0]]
        <4>1. request[q].op = "setup" /\ request[q].at \in Inviting
          BY <2>3, <2>k, KindOf DEF Invites, Inviting
        <4>2. \A h \in Generations \ {request[q].gen} : invitation'[h] = Cancelled[h]
          BY <3>2, <1>0, CancelledOK
        <4>3. request[q].gen \in Generations => invitation[request[q].gen].state = "none"
          BY <4>1 DEF Setups, Generations
        <4> QED BY <4>2, <4>3, <1>0, CancelledOK DEF ConsumedStay
      <3> QED BY <2>3, <3>1, <3>2 DEF Invites
    <2>4. CASE CancelsMail(q)
      <3>1. request[q].op = "cancel"
        BY <2>4, <2>k, KindOf DEF CancelsMail
      <3>2. PICK g \in Generations : g = request[q].gen
        BY <3>1, <2>0 DEF ReqOK
      <3>3. CASE invitation[g].state = "live"
        <4>1. \A h \in Generations \ {g} : invitation'[h] = invitation[h]
          BY <2>4, <3>2, <1>0 DEF CancelsMail, Tables
        <4> QED BY <4>1, <3>3, <1>s
      <3>4. CASE invitation[g].state # "live"
        BY <2>4, <3>2, <3>4, <1>u DEF CancelsMail
      <3> QED BY <3>3, <3>4
    <2>5. CASE CountsFailure(q)
      <3>1. request[q].op = "confirm"
        BY <2>5, <2>k, KindOf DEF CountsFailure
      <3>2. PICK g \in Generations : g = request[q].gen
        BY <3>1, <2>0 DEF ReqOK
      <3>3. CASE Usable(g)
        <4>1. \A h \in Generations \ {g} : invitation'[h] = invitation[h]
          BY <2>5, <3>2, <3>3, <1>0 DEF CountsFailure, Tables
        <4> QED BY <4>1, <3>3, <1>s DEF Usable
      <3>4. CASE ~Usable(g)
        BY <2>5, <3>2, <3>4, <1>u DEF CountsFailure
      <3> QED BY <3>3, <3>4
    <2>6. CASE Completes(q)
      <3>1. request[q].op = "confirm"
        BY <2>6, <2>k, KindOf DEF Completes
      <3>2. PICK g \in Generations : g = request[q].gen
        BY <3>1, <2>0 DEF ReqOK
      <3>3. CASE Usable(g) /\ account.status = "active"
        <4>1. \A h \in Generations \ {g} : invitation'[h] = invitation[h]
          BY <2>6, <3>2, <3>3, <1>0 DEF Completes, Tables
        <4> QED BY <4>1, <3>3, <1>s DEF Usable
      <3>4. CASE ~(Usable(g) /\ account.status = "active")
        BY <2>6, <3>2, <3>4, <1>u DEF Completes
      <3> QED BY <3>3, <3>4
    <2> QED BY <1>4, <2>1, <2>2, <2>3, <2>4, <2>5, <2>6 DEF Enrolls
  <1> QED BY <1>1, <1>2, <1>3, <1>4 DEF Next


NoneStay == \A h \in Generations : invitation'[h].state = "none" <=> invitation[h].state = "none"

LEMMA SetupsStep ==
    ASSUME Typed, Setups, [Next]_vars
    PROVE  Setups'
  <1>t. \A q \in Requests : request[q].gen \in {0} \cup Generations
    BY DEF Typed, Requesting, ReqOK
  <1>u. ASSUME UNCHANGED request, NoneStay PROVE Setups'
    BY <1>u, <1>t DEF Setups, NoneStay
  <1>g. ASSUME NEW q \in Requests, Mine(q), GoesOn(q), NoneStay PROVE Setups'
    BY <1>g, <1>t DEF Setups, NoneStay, Mine, GoesOn, Idle
  <1>1. CASE UNCHANGED vars
    BY <1>1, <1>u DEF vars, NoneStay
  <1>2. CASE \/ \E s \in DOMAIN session : Logout(s)
             \/ \E g \in Generations : WorkerEnds(g)
             \/ Expires
    BY <1>2, <1>u, OthersKeep DEF NoneStay
  <1>3. ASSUME NEW q \in Requests, SignsIn(q) \/ Fails(q) PROVE Setups'
    <2>1. NoneStay
      BY <1>3, SignsInKeeps DEF Fails, Mail, NoneStay
    <2> QED BY <2>1, <1>3, <1>g, StepsGoOn, StepsAreMine
  <1>4. ASSUME NEW q \in Requests, Begins(q) PROVE Setups'
    <2>1. UNCHANGED invitation /\ Mine(q) /\ (request'[q].op = "setup" => request'[q].gen = 0)
      BY <1>4, BeginsKeeps, BeginsLemma, StepsAreMine DEF BeginsWith, Mail
    <2> QED BY <2>1 DEF Setups, Mine
  <1>5. ASSUME NEW q \in Requests, Enrolls(q) PROVE Setups'
    <2>m. Mine(q) /\ DOMAIN request = Requests /\ DOMAIN request[q] = Fields
      BY <1>5, StepsAreMine DEF Typed, Requesting, ReqOK
    <2>1. CASE SetsPolicy(q)
      <3>1. UNCHANGED invitation
        BY <2>1 DEF SetsPolicy, Mail
      <3>2. CASE request[q].op = "setup"
        <4>1. PICK g \in Generations : Follows(g) /\ request'[q].gen = g /\ request'[q].op = "setup"
          BY <2>1, <3>2, <2>m DEF SetsPolicy, Fields
        <4>2. Fresh(g)
          BY <4>1 DEF Follows, Generations
        <4> QED BY <2>m, <3>1, <4>1, <4>2 DEF Setups, Mine, Fresh
      <3>3. CASE request[q].op # "setup"
        <4>1. request'[q].op \in {"none", request[q].op}
          BY <1>5, StepsCarry DEF Carried, Idle, Fields
        <4>2. request'[q].op # "setup"
          BY <4>1, <3>3
        <4> QED BY <2>m, <3>1, <4>2 DEF Setups, Mine
      <3> QED BY <3>2, <3>3
    <2>2. CASE Invites(q)
      <3>1. request'[q].at \notin Inviting /\ GoesOn(q)
        <4>1. ~SetsPolicy(q)
          BY <2>2 DEF Invites, SetsPolicy
        <4>2. request'[q].at \in {"mail", "undo"}
          BY <2>2, <2>m DEF Invites, Go, Fields
        <4> QED BY <4>1, <4>2, <1>5, StepsGoOn DEF Inviting
      <3>2. \A h \in Generations \ {request[q].gen} :
              invitation'[h].state = "none" <=> invitation[h].state = "none"
        BY <1>5, EnrollsStep DEF EnrollsEffects
      <3>3. request[q].op = "setup"
        BY <2>2, KindOfRequest, KindOf DEF Invites
      <3>4. \A p \in Requests \ {q} : request[p].op = "setup" /\ request[p].gen # 0 =>
               request[p].gen \in Generations \ {request[q].gen}
        BY <3>3, <1>t DEF Setups
      <3> QED BY <2>m, <3>1, <3>2, <3>3, <3>4 DEF Setups, Mine, GoesOn, Idle
    <2>3. CASE ~SetsPolicy(q) /\ ~Invites(q)
      <3>1. request[q].at # "invite" /\ request[q].at # "policy"
        BY <2>3, <1>5 DEF Enrolls, Locks, Unmails, Invalidates, Clears, Mails, Undoes, CancelsMail,
           Saves, Deletes, CountsFailure, Completes
      <3>2. NoneStay
        BY <3>1, <1>5, EnrollsStep DEF EnrollsEffects, NoneStay
      <3> QED BY <3>2, <2>3, <2>m, <1>5, <1>g, StepsGoOn
    <2> QED BY <2>1, <2>2, <2>3
  <1> QED BY <1>1, <1>2, <1>3, <1>4, <1>5 DEF Next

LEMMA ConfirmingStep ==
    ASSUME Typed, Setups, Confirming, [Next]_vars
    PROVE  Confirming'
  <1>t. \A q \in Requests : request[q].gen \in {0} \cup Generations
                            /\ (request[q].op = "confirm" => request[q].gen # 0)
    BY DEF Typed, Requesting, ReqOK
  <1>u. ASSUME UNCHANGED <<request, policy>>, NoneStay, config.gen = 0 => config'.gen = 0
        PROVE  Confirming'
    BY <1>u, <1>t DEF Confirming, NoneStay
  <1>g. ASSUME NEW q \in Requests, Mine(q), GoesOn(q), NoneStay,
               \/ policy'.gen = 0
               \/ UNCHANGED policy /\ (config.gen = 0 => config'.gen = 0)
        PROVE  Confirming'
    BY <1>g, <1>t DEF Confirming, NoneStay, Mine, GoesOn, Idle
  <1>1. CASE UNCHANGED vars
    BY <1>1, <1>u DEF vars, NoneStay
  <1>2. CASE \/ \E s \in DOMAIN session : Logout(s)
             \/ \E g \in Generations : WorkerEnds(g)
             \/ Expires
    BY <1>2, <1>u, OthersKeep DEF NoneStay, Factor
  <1>3. ASSUME NEW q \in Requests, SignsIn(q) \/ Fails(q) PROVE Confirming'
    <2>1. NoneStay /\ UNCHANGED policy /\ config'.gen = config.gen
      BY <1>3, SignsInKeeps DEF Fails, Mail, Factor, NoneStay
    <2> QED BY <2>1, <1>3, <1>g, StepsGoOn, StepsAreMine
  <1>4. ASSUME NEW q \in Requests, Begins(q) PROVE Confirming'
    <2>1. UNCHANGED <<invitation, policy, config>> /\ Mine(q)
      BY <1>4, BeginsKeeps, StepsAreMine DEF Mail, Factor
    <2>2. request'[q].op = "confirm" => invitation[request'[q].gen].state = "live" /\ config = NoConfig
      BY <1>4, BeginsLemma DEF BeginsWith, Usable
    <2> QED BY <2>1, <2>2 DEF Confirming, Mine, NoConfig
  <1>5. ASSUME NEW q \in Requests, Enrolls(q) PROVE Confirming'
    <2>m. Mine(q) /\ DOMAIN request = Requests /\ DOMAIN request[q] = Fields
      BY <1>5, StepsAreMine DEF Typed, Requesting, ReqOK
    <2>n. request'[q].op = "confirm" => GoesOn(q)
      <3>1. CASE SetsPolicy(q)
        <4>1. request[q].op \in {"setup", "disable"}
          BY <3>1, KindOfRequest, KindOf DEF SetsPolicy
        <4> QED BY <4>1, <1>5, StepsCarry DEF Carried, Idle, Fields
      <3> QED BY <3>1, <1>5, StepsGoOn
    <2>g. ASSUME NoneStay, \/ policy'.gen = 0
                           \/ UNCHANGED policy /\ (config.gen = 0 => config'.gen = 0)
          PROVE  Confirming'
      BY <2>g, <2>m, <2>n, <1>t DEF Confirming, NoneStay, Mine, GoesOn, Idle
    <2>1. CASE NoneStay /\ (policy'.gen = 0 \/ UNCHANGED policy)
               /\ (config'.gen = config.gen \/ config' = NoConfig)
      BY <2>1, <2>g DEF NoConfig
    <2>2. CASE UNCHANGED <<invitation, config>> /\ Follows(policy'.gen) /\ policy'.gen \in Generations
      <3>1. invitation[policy'.gen].state = "none"
        BY <2>2 DEF Follows, Fresh, Generations
      <3> QED BY <2>2, <2>m, <2>n, <3>1 DEF Confirming, Mine, GoesOn, Idle
    <2>3. CASE /\ request[q].at = "invite" /\ UNCHANGED <<policy, config>>
               /\ \A h \in Generations \ {request[q].gen} :
                    invitation'[h].state = "none" <=> invitation[h].state = "none"
      <3>1. request[q].op = "setup" /\ request[q].at \in Inviting
        BY <2>3, KindOfRequest, KindOf DEF Inviting
      <3>2. \A p \in Requests : request[p].op = "confirm" /\ request[p].at \in Confirms =>
              request[p].gen \in Generations \ {request[q].gen}
        BY <3>1, <1>t DEF Setups, Confirming
      <3>3. request'[q].op # "confirm"
        BY <3>1, <1>5, StepsCarry DEF Carried, Idle, Fields
      <3> QED BY <2>3, <2>m, <3>2, <3>3 DEF Confirming, Mine
    <2>4. CASE NoneStay /\ policy'.gen = 0
      BY <2>4, <2>g
    <2> QED BY <1>5, <2>1, <2>2, <2>3, <2>4, EnrollsStep DEF EnrollsEffects, NoneStay
  <1> QED BY <1>1, <1>2, <1>3, <1>4, <1>5 DEF Next

-----------------------------------------------------------------------------
(* Factors: codes. *)

\* How a step may change the authenticator: its code is marked, it goes with all the
\* challenges, or there was none and one is enrolled from an invitation that was live.
ConfigStep ==
    \/ config'.gen = config.gen /\ config.used <= config'.used
    \/ config'.gen = 0 /\ \A c \in DOMAIN challenge : challenge'[c].state # "live"
    \/ /\ config.gen = 0 /\ config'.gen \in Generations
       /\ invitation[config'.gen].state = "live" /\ invitation'[config'.gen].state = "consumed"

LEMMA CodesAreNat ==
    ASSUME NEW k \in {0} \cup Codes
    PROVE  k \in Nat
  <1>1. \A c \in Codes : c \in Nat
    BY AccountsAssumption
  <1> QED BY <1>1

LEMMA ConfigSteps ==
    ASSUME Typed, Confirming, [Next]_vars
    PROVE  ConfigStep
  <1>0. Tables
    BY DEF Typed
  <1>n. config.used \in Nat
    <2>1. config.used \in {0} \cup Codes
      BY <1>0 DEF Tables
    <2> QED BY <2>1, CodesAreNat
  <1>u. UNCHANGED config => ConfigStep
    BY <1>n DEF ConfigStep
  <1>1. CASE UNCHANGED vars
    BY <1>1, <1>u DEF vars
  <1>2. CASE \/ \E s \in DOMAIN session : Logout(s)
             \/ \E g \in Generations : WorkerEnds(g)
             \/ Expires
    BY <1>2, <1>u, OthersKeep DEF Factor
  <1>3. ASSUME NEW q \in Requests, Begins(q) \/ Fails(q) PROVE ConfigStep
    BY <1>3, <1>u, BeginsKeeps DEF Fails, Factor
  <1>4. ASSUME NEW q \in Requests, SignsIn(q) PROVE ConfigStep
    <2>1. CASE MarksCode(q)
      <3>1. CASE ~Unused(q)
        BY <3>1, <2>1, <1>u DEF MarksCode
      <3>2. CASE Unused(q)
        <4>1. config' = [config EXCEPT !.used = request[q].code] /\ config.used < request[q].code
          BY <3>2, <2>1 DEF MarksCode, Unused
        <4>2. request[q].code \in Nat
          BY DEF Typed, Requesting, ReqOK
        <4> QED BY <4>1, <4>2, <1>0, <1>n DEF ConfigStep, Tables
      <3> QED BY <3>1, <3>2
    <2>2. CASE LoginFactor(q) \/ OpensChallenge(q) \/ ReadsTemporary(q) \/ OpensSession(q) \/ Refuses(q)
      BY <2>2, <1>u DEF LoginFactor, OpensChallenge, ReadsTemporary, OpensSession, Refuses, Factor
    <2>3. CASE TakesChallenge(q) \/ ReadsUser(q) \/ SetsPassword(q) \/ SetsCredential(q) \/ Revokes(q)
      BY <2>3, <1>u DEF TakesChallenge, ReadsUser, SetsPassword, SetsCredential, Revokes, Factor
    <2>4. CASE Upgrades(q)
      BY <2>4, <1>u DEF Upgrades, Factor
    <2> QED BY <1>4, <2>1, <2>2, <2>3, <2>4 DEF SignsIn
  <1>5. ASSUME NEW q \in Requests, Enrolls(q) PROVE ConfigStep
    <2>1. CASE Locks(q) \/ Unmails(q) \/ Invalidates(q) \/ SetsPolicy(q) \/ Invites(q) \/ Mails(q)
      BY <2>1, <1>u DEF Locks, Unmails, Invalidates, SetsPolicy, Invites, Mails, Factor
    <2>2. CASE Undoes(q) \/ CancelsMail(q) \/ Saves(q) \/ CountsFailure(q)
      BY <2>2, <1>u DEF Undoes, CancelsMail, Saves, CountsFailure, Factor
    <2>3. CASE Clears(q) \/ Deletes(q)
      <3>1. config' = NoConfig /\ challenge' = Cleared
        BY <2>3 DEF Clears, Deletes
      <3> QED BY <3>1, <1>0, ClearedOK DEF ConfigStep, NoConfig
    <2>4. CASE Completes(q)
      <3>1. request[q].op = "confirm" /\ request[q].at \in Confirms
        BY <2>4, KindOfRequest, KindOf DEF Completes, Confirms
      <3>2. PICK g \in Generations : g = request[q].gen
        BY <3>1 DEF Typed, Requesting, ReqOK
      <3>3. CASE ~(Usable(g) /\ account.status = "active")
        BY <2>4, <3>2, <3>3, <1>u DEF Completes
      <3>4. CASE Usable(g) /\ account.status = "active"
        <4>1. /\ config' = [gen |-> g, used |-> request[q].code]
              /\ invitation' = [invitation EXCEPT ![g].state = "consumed"]
          BY <2>4, <3>2, <3>4 DEF Completes
        <4>2. policy.gen = g /\ invitation[g].state = "live"
          BY <3>4 DEF Usable
        <4>3. config.gen = 0
          BY <3>1, <3>2, <4>2 DEF Confirming
        <4>4. invitation'[g].state = "consumed"
          <5>1. invitation[g] \in InvitationType /\ invitation \in [Generations -> InvitationType]
            BY <1>0 DEF Tables
          <5> QED BY <4>1, <5>1 DEF InvitationType
        <4> QED BY <4>1, <4>2, <4>3, <4>4 DEF ConfigStep
      <3> QED BY <3>3, <3>4
    <2> QED BY <1>5, <2>1, <2>2, <2>3, <2>4 DEF Enrolls
  <1> QED BY <1>1, <1>2, <1>3, <1>4, <1>5 DEF Next

LEMMA EnrolledStep ==
    ASSUME Typed, Setups, Confirming, Enrolled, [Next]_vars
    PROVE  Enrolled'
  <1>1. config.gen \in {0} \cup Generations
    BY DEF Typed, Tables
  <1> QED BY <1>1, ConfigSteps, ConsumedStep DEF ConfigStep, ConsumedStay, Enrolled, Generations

Marks(q) == request[q].op = "mfa" /\ request[q].at \in {"mark", "take"}

\* A request that has marked its code and may still open a session.
Bears(q) ==
    /\ request[q].op = "mfa"
    /\ \/ request[q].at \in {"user", "temporary", "newPassword", "session"}
       \/ request[q].at = "take" /\ challenge[request[q].challenge].state = "live"

\* The code is of no use any more, now and with any later authenticator.
Spent(gen, code) ==
    /\ gen \in Generations /\ invitation[gen].state = "consumed"
    /\ gen = config.gen => code <= config.used

Factors(r) == <<r.gen, r.code>>

\* While its challenge is live, a request is about the authenticator that there is. The
\* code of a session, or of a request that may still open one, is spent, and nobody else's.
CodesSpent ==
    /\ \A q \in Requests : Marks(q) =>
         /\ request[q].code # 0
         /\ challenge[request[q].challenge].state = "live" =>
                config.gen # 0 /\ request[q].gen = config.gen
    /\ \A s \in DOMAIN session : session[s].code # 0 =>
         /\ Spent(session[s].gen, session[s].code)
         /\ \A t \in DOMAIN session \ {s} : Factors(session[s]) # Factors(session[t])
    /\ \A q \in Requests : Bears(q) =>
         /\ request[q].code # 0 /\ Spent(request[q].gen, request[q].code)
         /\ \A s \in DOMAIN session : Factors(session[s]) # Factors(request[q])
         /\ \A p \in Requests \ {q} : Bears(p) => Factors(request[p]) # Factors(request[q])

\* A request that bears its code did so before, and one that has a code to mark either
\* had it or has begun with the authenticator that there is.
BearsAsBefore(q) ==
    Bears(q)' => /\ Bears(q) /\ request'[q].code = request[q].code
                 /\ request'[q].gen = request[q].gen
MarksAsBefore(q) ==
    Marks(q)' =>
        \/ /\ Marks(q) /\ request'[q].code = request[q].code
           /\ request'[q].gen = request[q].gen /\ request'[q].challenge = request[q].challenge
        \/ request'[q].code # 0 /\ config'.gen # 0 /\ request'[q].gen = config'.gen

LEMMA SpentStays ==
    ASSUME Typed, ConsumedStay, ConfigStep, NEW gen, NEW code \in Nat, Spent(gen, code)
    PROVE  /\ gen \in Generations /\ invitation'[gen].state = "consumed"
           /\ gen = config'.gen => config'.gen = config.gen /\ code <= config.used
                                   /\ config.used <= config'.used
  BY DEF ConsumedStay, ConfigStep, Spent, Generations

LEMMA SameFactors ==
    ASSUME SameSessions, NEW s \in DOMAIN session
    PROVE  Factors(session[s])' = Factors(session[s])
  BY DEF SameSessions, Factors

LEMMA NoNewMarks ==
    ASSUME Typed, NEW q \in Requests, SignsIn(q) \/ Enrolls(q) \/ Fails(q), ~MarksCode(q)
    PROVE  request'[q].op = "mfa" => request'[q].at \notin {"mark", "take"}
  <1> DEFINE r == request[q]
  <1>k. r.op \in Ops /\ r.at \in Stages(r.op)
    BY KindOfRequest
  <1>o. DOMAIN r = Fields /\ DOMAIN request = Requests
    BY DEF Typed, Requesting, ReqOK
  <1>g. ASSUME NEW at, Go(q, at), at \notin {"mark", "take"}
        PROVE  request'[q].at \notin {"mark", "take"}
    BY <1>g, <1>o DEF Go, Fields
  <1>e. ASSUME End(q) PROVE request'[q].op = "none"
    BY <1>e, <1>o DEF End, Idle
  <1>c. Carried(q)
    BY StepsCarry
  <1>1. CASE Enrolls(q)
    <2>1. r.op # "mfa"
      BY <1>1, <1>k, KindOf DEF Enrolls, Locks, Unmails, Invalidates, SetsPolicy, Clears, Invites,
         Mails, Undoes, CancelsMail, Saves, Deletes, CountsFailure, Completes
    <2> QED BY <2>1, <1>c DEF Carried, Idle, Fields
  <1>2. CASE Fails(q)
    <2>1. End(q) \/ r.op = "setup"
      BY <1>2 DEF Fails
    <2> QED BY <2>1, <1>c, <1>e DEF Carried, Idle, Fields
  <1>3. CASE SignsIn(q)
    <2>1. CASE OpensChallenge(q) \/ OpensSession(q) \/ Refuses(q)
      BY <2>1, <1>e DEF OpensChallenge, OpensSession, Refuses
    <2>2. CASE LoginFactor(q) \/ ReadsTemporary(q) \/ TakesChallenge(q) \/ ReadsUser(q)
      BY <2>2, <1>g, <1>e DEF LoginFactor, ReadsTemporary, TakesChallenge, ReadsUser
    <2>3. CASE Upgrades(q) \/ SetsPassword(q) \/ SetsCredential(q) \/ Revokes(q)
      BY <2>3, <1>g, <1>e DEF Upgrades, SetsPassword, SetsCredential, Revokes
    <2> QED BY <1>3, <2>1, <2>2, <2>3 DEF SignsIn
  <1> QED BY <1>1, <1>2, <1>3

LEMMA BearsBack ==
    ASSUME Typed, NEW q \in Requests, SignsIn(q) \/ Enrolls(q) \/ Fails(q), ~MarksCode(q)
    PROVE  BearsAsBefore(q) /\ MarksAsBefore(q)
  <1>1. request'[q].op = "mfa" => request'[q].at \notin {"mark", "take"}
    BY NoNewMarks
  <1>2. MarksAsBefore(q)
    BY <1>1 DEF MarksAsBefore, Marks
  <1>3. CASE ~TakesChallenge(q)
    <2>1. HoldsAsBefore(q)
      BY <1>3, HoldsBack
    <2>2. CASE request[q].op = "mfa" /\ request[q].at \in Took
      <3>1. request[q].at \in {"user", "temporary", "newPassword", "session"}
        BY <2>2, KindOfRequest, KindOf DEF Took
      <3>2. Bears(q)' => /\ request'[q].op = "mfa" /\ request'[q].at \in Took
        BY <1>1 DEF Bears, Took
      <3> QED BY <1>2, <2>1, <2>2, <3>1, <3>2 DEF HoldsAsBefore, Bears, BearsAsBefore
    <2>3. CASE ~(request[q].op = "mfa" /\ request[q].at \in Took)
      <3>1. Bears(q)' => request'[q].op = "mfa" /\ request'[q].at \in Took
        BY <1>1 DEF Bears, Took
      <3> QED BY <1>2, <2>1, <2>3, <3>1 DEF HoldsAsBefore, Holds, BearsAsBefore
    <2> QED BY <1>2, <2>2, <2>3
  <1>4. CASE TakesChallenge(q)
    <2>1. request[q].op \in {"mfa", "change"} /\ request[q].at = "take"
      BY <1>4, KindOfRequest, KindOf DEF TakesChallenge
    <2>2. PICK c \in DOMAIN challenge : c = request[q].challenge
      BY <2>1 DEF Typed, Requesting, ReqOK
    <2>3. CASE request'[q] = Idle
      BY <2>3, <1>2 DEF BearsAsBefore, Bears, Idle
    <2>4. CASE /\ challenge[c].state = "live" /\ request'[q].op = request[q].op
               /\ request'[q].gen = request[q].gen /\ request'[q].code = request[q].code
      BY <2>1, <2>2, <2>4, <1>2 DEF BearsAsBefore, Bears
    <2> QED BY <1>4, <2>2, <2>3, <2>4, TakenStep
  <1> QED BY <1>3, <1>4

\* The requests that a step leaves alone.
LEMMA OthersBear ==
    ASSUME Typed, SpentStay, NEW p \in Requests, request'[p] = request[p]
    PROVE  BearsAsBefore(p) /\ MarksAsBefore(p)
  <1>1. request[p].op = "mfa" => request[p].challenge \in DOMAIN challenge
    BY DEF Typed, Requesting, ReqOK
  <1> QED BY <1>1 DEF BearsAsBefore, MarksAsBefore, Bears, Marks, SpentStay

LEMMA CodesQuiet ==
    ASSUME Typed, CodesSpent, SameSessions, SpentStay, ConsumedStay, ConfigStep, Typed',
           \A p \in Requests : BearsAsBefore(p) /\ MarksAsBefore(p)
    PROVE  CodesSpent'
  <1>n. config.used \in Nat /\ config'.used \in Nat
    <2>1. config.used \in {0} \cup Codes /\ config'.used \in {0} \cup Codes
      BY DEF Typed, Tables
    <2> QED BY <2>1, CodesAreNat
  <1>s. ASSUME NEW gen, NEW code \in Nat, Spent(gen, code) PROVE Spent(gen, code)'
    <2>1. /\ gen \in Generations /\ invitation'[gen].state = "consumed"
          /\ gen = config'.gen => config'.gen = config.gen /\ code <= config.used
                                   /\ config.used <= config'.used
      BY <1>s, SpentStays
    <2> QED BY <2>1, <1>n DEF Spent
  <1>1. ASSUME NEW q \in Requests, Marks(q)'
        PROVE  /\ request'[q].code # 0
               /\ challenge'[request'[q].challenge].state = "live" =>
                      config'.gen # 0 /\ request'[q].gen = config'.gen
    <2>1. CASE /\ Marks(q) /\ request'[q].code = request[q].code
               /\ request'[q].gen = request[q].gen /\ request'[q].challenge = request[q].challenge
      <3>1. PICK c \in DOMAIN challenge : c = request[q].challenge
        BY <2>1 DEF Marks, Typed, Requesting, ReqOK
      <3>2. ASSUME challenge'[c].state = "live"
            PROVE  config'.gen # 0 /\ request[q].gen = config'.gen
        <4>1. challenge[c].state = "live"
          BY <3>2 DEF SpentStay
        <4>2. config.gen # 0 /\ request[q].gen = config.gen
          BY <2>1, <3>1, <4>1 DEF CodesSpent
        <4> QED BY <3>2, <4>2 DEF ConfigStep
      <3> QED BY <2>1, <3>1, <3>2 DEF CodesSpent
    <2> QED BY <1>1, <2>1 DEF MarksAsBefore
  <1>2. ASSUME NEW s \in DOMAIN session', session'[s].code # 0
        PROVE  /\ Spent(session[s].gen, session[s].code)'
               /\ \A t \in DOMAIN session' \ {s} : Factors(session[s])' # Factors(session[t])'
    <2>1. /\ s \in DOMAIN session /\ session'[s].code = session[s].code
          /\ session'[s].gen = session[s].gen /\ DOMAIN session' = DOMAIN session
      BY <1>2 DEF SameSessions
    <2>2. session[s].code \in Nat
      <3>1. session \in Seq(SessionType)
        BY DEF Typed, Tables
      <3>2. session[s] \in SessionType
        BY <2>1, <3>1
      <3> QED BY <3>2 DEF SessionType
    <2>3. Spent(session[s].gen, session[s].code)
      BY <2>1, <1>2 DEF CodesSpent
    <2>5. Spent(session[s].gen, session[s].code)'
      <3> DEFINE g == session[s].gen  k == session[s].code
      <3>1. /\ g \in Generations /\ invitation'[g].state = "consumed"
            /\ g = config'.gen => config'.gen = config.gen /\ k <= config.used
                                   /\ config.used <= config'.used
        BY <2>2, <2>3, SpentStays
      <3> HIDE DEF g, k
      <3>2. session'[s].gen = g /\ session'[s].code = k /\ k \in Nat
        BY <2>1, <2>2 DEF g, k
      <3>3. g = config'.gen => k <= config'.used
        BY <3>1, <3>2, <1>n
      <3> QED BY <3>1, <3>2, <3>3 DEF Spent
    <2>6. \A t \in DOMAIN session \ {s} : Factors(session[s]) # Factors(session[t])
      BY <2>1, <1>2 DEF CodesSpent
    <2> QED BY <2>1, <2>5, <2>6, SameFactors
  <1>3. ASSUME NEW q \in Requests, Bears(q)'
        PROVE  /\ request'[q].code # 0 /\ Spent(request[q].gen, request[q].code)'
               /\ \A s \in DOMAIN session' : Factors(session[s])' # Factors(request[q])'
               /\ \A p \in Requests \ {q} : Bears(p)' => Factors(request[p])' # Factors(request[q])'
    <2>1. \A p \in Requests : Bears(p)' => Bears(p) /\ Factors(request[p])' = Factors(request[p])
      BY DEF BearsAsBefore, Factors
    <2>2. Bears(q) /\ request'[q].code = request[q].code /\ request'[q].gen = request[q].gen
      BY <1>3 DEF BearsAsBefore
    <2>3. request[q].code \in Nat
      BY DEF Typed, Requesting, ReqOK
    <2>4. request[q].code # 0 /\ Spent(request[q].gen, request[q].code)
      BY <2>2 DEF CodesSpent
    <2>5. Spent(request[q].gen, request[q].code)'
      <3> DEFINE g == request[q].gen  k == request[q].code
      <3>1. /\ g \in Generations /\ invitation'[g].state = "consumed"
            /\ g = config'.gen => config'.gen = config.gen /\ k <= config.used
                                   /\ config.used <= config'.used
        BY <2>3, <2>4, SpentStays
      <3> HIDE DEF g, k
      <3>2. request'[q].gen = g /\ request'[q].code = k /\ k \in Nat
        BY <2>2, <2>3 DEF g, k
      <3> QED BY <3>1, <3>2, <1>n DEF Spent
    <2>6. /\ \A s \in DOMAIN session : Factors(session[s]) # Factors(request[q])
          /\ \A p \in Requests \ {q} : Bears(p) => Factors(request[p]) # Factors(request[q])
      BY <2>2 DEF CodesSpent
    <2>7. \A s \in DOMAIN session' : s \in DOMAIN session /\ Factors(session[s])' = Factors(session[s])
      BY SameFactors DEF SameSessions
    <2>8. Factors(request[q])' = Factors(request[q])
      BY <2>2 DEF Factors
    <2>9. \A s \in DOMAIN session' : Factors(session[s])' # Factors(request[q])'
      BY <2>6, <2>7, <2>8
    <2>10. \A p \in Requests \ {q} : Bears(p)' => Factors(request[p])' # Factors(request[q])'
      BY <2>1, <2>6, <2>8
    <2> QED BY <2>2, <2>4, <2>5, <2>9, <2>10
  <1> QED BY <1>1, <1>2, <1>3 DEF CodesSpent

\* A code that is accepted is later than every code of the authenticator that was, so no
\* session and no other request has it.
LEMMA MarksCodes ==
    ASSUME Typed, Typed', Enrolled, CodesSpent, ConsumedStay, ConfigStep,
           NEW q \in Requests, MarksCode(q)
    PROVE  CodesSpent'
  <1> DEFINE r == request[q]
  <1>0. Tables /\ DOMAIN request = Requests /\ DOMAIN r = Fields
    BY DEF Typed, Requesting, ReqOK
  <1>1. SameSessions /\ SpentStay /\ Mine(q) /\ UNCHANGED <<challenge, session, invitation>>
    BY StepsAreMine DEF SignsIn, MarksCode, Signs, Mail, SameSessions, SpentStay
  <1>2. \A p \in Requests \ {q} : BearsAsBefore(p) /\ MarksAsBefore(p)
    BY <1>1, OthersBear DEF Mine
  <1>3. r.op = "mfa" /\ r.at = "mark" /\ r.code \in Nat
    BY KindOfRequest, KindOf DEF MarksCode, Typed, Requesting, ReqOK
  <1>4. CASE ~Unused(q)
    <2>1. request'[q].at = "refused"
      BY <1>0, <1>4 DEF MarksCode, Go, Fields
    <2>2. BearsAsBefore(q) /\ MarksAsBefore(q)
      BY <2>1 DEF BearsAsBefore, MarksAsBefore, Bears, Marks
    <2> QED BY <1>1, <1>2, <2>2, CodesQuiet
  <1>5. CASE Unused(q)
    <2>1. /\ config' = [config EXCEPT !.used = r.code] /\ config.used < r.code
          /\ request'[q] = [r EXCEPT !.at = "take"]
      BY <1>0, <1>5 DEF MarksCode, Go, Unused
    <2>2. config'.gen = config.gen /\ config'.used = r.code
      BY <2>1, <1>0 DEF Tables
    <2>3. /\ request'[q].op = "mfa" /\ request'[q].at = "take" /\ request'[q].code = r.code
          /\ request'[q].gen = r.gen /\ request'[q].challenge = r.challenge
      BY <2>1, <1>0, <1>3 DEF Fields
    <2>4. Marks(q) /\ MarksAsBefore(q)
      BY <1>3, <2>3 DEF Marks, MarksAsBefore
    <2>5. CASE challenge[r.challenge].state # "live"
      <3>1. ~Bears(q)'
        BY <2>3, <2>5, <1>1 DEF Bears
      <3> QED BY <1>1, <1>2, <2>4, <3>1, CodesQuiet DEF BearsAsBefore
    <2>6. CASE challenge[r.challenge].state = "live"
      <3>1. r.code # 0 /\ config.gen # 0 /\ r.gen = config.gen
        BY <2>4, <2>6 DEF CodesSpent
      <3>n. config.used \in Nat /\ config.gen \in Generations
        <4>1. config.used \in {0} \cup Codes /\ config.gen \in {0} \cup Generations
          BY <1>0 DEF Tables
        <4> QED BY <4>1, <3>1, CodesAreNat
      <3>2. \A code \in Nat : Spent(r.gen, code) => code # r.code
        BY <1>3, <2>1, <3>1, <3>n DEF Spent
      <3>3. \A s \in DOMAIN session : Factors(session[s]) # Factors(r)
        <4>1. ASSUME NEW s \in DOMAIN session, Factors(session[s]) = Factors(r) PROVE FALSE
          <5>1. session[s].gen = r.gen /\ session[s].code = r.code
            BY <4>1 DEF Factors
          <5>2. Spent(r.gen, r.code)
            BY <5>1, <3>1 DEF CodesSpent
          <5> QED BY <5>2, <3>2, <1>3
        <4> QED BY <4>1
      <3>4. \A p \in Requests : Bears(p) => Factors(request[p]) # Factors(r)
        <4>1. ASSUME NEW p \in Requests, Bears(p), Factors(request[p]) = Factors(r) PROVE FALSE
          <5>1. request[p].gen = r.gen /\ request[p].code = r.code
            BY <4>1 DEF Factors
          <5>2. Spent(r.gen, r.code)
            BY <5>1, <4>1 DEF CodesSpent
          <5> QED BY <5>2, <3>2, <1>3
        <4> QED BY <4>1
      <3>5. ASSUME NEW gen, NEW code \in Nat, Spent(gen, code) PROVE Spent(gen, code)'
        BY <3>5, <1>1, <2>1, <2>2, <3>n, <1>3 DEF Spent
      <3>6. Spent(r.gen, r.code)'
        BY <3>1, <3>n, <1>1, <1>3, <2>2, <2>3 DEF Enrolled, Spent
      <3>7. \A p \in Requests : Marks(p)' =>
              /\ request'[p].code # 0
              /\ challenge'[request'[p].challenge].state = "live" =>
                     config'.gen # 0 /\ request'[p].gen = config'.gen
        BY <1>1, <1>2, <2>2, <2>4 DEF MarksAsBefore, CodesSpent
      <3>8. \A s \in DOMAIN session' : session'[s].code # 0 =>
              /\ Spent(session[s].gen, session[s].code)'
              /\ \A t \in DOMAIN session' \ {s} : Factors(session[s])' # Factors(session[t])'
        <4>1. ASSUME NEW s \in DOMAIN session PROVE session[s].code \in Nat
          <5>1. session[s] \in SessionType
            BY <1>0 DEF Tables
          <5> QED BY <5>1 DEF SessionType
        <4>2. ASSUME NEW s \in DOMAIN session, session[s].code # 0
              PROVE  Spent(session[s].gen, session[s].code)'
          <5> DEFINE g == session[s].gen  k == session[s].code
          <5>1. Spent(g, k) /\ k \in Nat
            BY <4>1, <4>2 DEF CodesSpent
          <5> HIDE DEF g, k
          <5>2. g \in Generations /\ invitation'[g].state = "consumed" /\ (g = config'.gen => k <= config'.used)
            BY <5>1, <1>1, <2>1, <2>2, <3>n, <1>3 DEF Spent
          <5>3. session'[s].gen = g /\ session'[s].code = k
            BY <1>1 DEF g, k
          <5> QED BY <5>2, <5>3 DEF Spent
        <4> QED BY <4>2, <1>1 DEF CodesSpent, Factors
      <3>9. ASSUME NEW p \in Requests \ {q}, Bears(p)'
            PROVE  /\ Bears(p) /\ Factors(request[p])' = Factors(request[p]) /\ request'[p].code # 0
                   /\ Spent(request[p].gen, request[p].code)'
        <4> DEFINE g == request[p].gen  k == request[p].code
        <4>1. Bears(p) /\ request'[p].code = k /\ request'[p].gen = g
          BY <1>2, <3>9 DEF BearsAsBefore
        <4>2. Spent(g, k) /\ k \in Nat /\ k # 0
          BY <4>1 DEF CodesSpent, Typed, Requesting, ReqOK
        <4>3. Factors(request[p])' = Factors(request[p])
          BY <4>1 DEF Factors
        <4> HIDE DEF g, k
        <4>4. g \in Generations /\ invitation'[g].state = "consumed" /\ (g = config'.gen => k <= config'.used)
          BY <4>2, <1>1, <2>1, <2>2, <3>n, <1>3 DEF Spent
        <4>5. Spent(request[p].gen, request[p].code)'
          BY <4>1, <4>4 DEF Spent
        <4> QED BY <4>1, <4>2, <4>3, <4>5
      <3>10. Factors(request[q])' = Factors(r) /\ request'[q].code # 0
        BY <2>3, <3>1 DEF Factors
      <3>11. \A s \in DOMAIN session' : s \in DOMAIN session /\ Factors(session[s])' = Factors(session[s])
        BY <1>1 DEF Factors
      <3>12. ASSUME NEW p \in Requests, Bears(p)'
             PROVE  /\ request'[p].code # 0 /\ Spent(request[p].gen, request[p].code)'
                    /\ \A s \in DOMAIN session' : Factors(session[s])' # Factors(request[p])'
                    /\ \A o \in Requests \ {p} : Bears(o)' => Factors(request[o])' # Factors(request[p])'
        <4>1. CASE p = q
          BY <4>1, <3>3, <3>4, <3>6, <3>9, <3>10, <3>11
        <4>2. CASE p # q
          <5>1. /\ Bears(p) /\ Factors(request[p])' = Factors(request[p]) /\ request'[p].code # 0
                /\ Spent(request[p].gen, request[p].code)'
            BY <4>2, <3>9, <3>12
          <5>2. \A s \in DOMAIN session' : Factors(session[s])' # Factors(request[p])'
            BY <5>1, <3>11 DEF CodesSpent
          <5>3. ASSUME NEW o \in Requests \ {p}, Bears(o)' PROVE Factors(request[o])' # Factors(request[p])'
            <6>1. CASE o = q
              BY <6>1, <5>1, <3>4, <3>10
            <6>2. CASE o # q
              BY <6>2, <5>1, <5>3, <3>9 DEF CodesSpent
            <6> QED BY <6>1, <6>2
          <5> QED BY <5>1, <5>2, <5>3
        <4> QED BY <4>1, <4>2
      <3> QED BY <3>7, <3>8, <3>12 DEF CodesSpent
    <2> QED BY <2>5, <2>6
  <1> QED BY <1>4, <1>5

\* A session gets the code of the request that opens it, which ends.
LEMMA OpensCodes ==
    ASSUME Typed, Typed', CodesSpent, NEW q \in Requests, OpensSession(q)
    PROVE  CodesSpent'
  <1> DEFINE r == request[q]
  <1>1. request'[q] = Idle /\ UNCHANGED <<challenge, config, invitation>> /\ Mine(q)
    BY OpenedStep, StepsAreMine DEF SignsIn
  <1>2. /\ ~Bears(q)' /\ ~Marks(q)'
        /\ \A p \in Requests \ {q} : (Bears(p)' <=> Bears(p)) /\ (Marks(p)' <=> Marks(p))
    BY <1>1 DEF Bears, Marks, Mine, Idle
  <1>3. \A p \in Requests \ {q} : /\ Factors(request[p])' = Factors(request[p])
                                  /\ Spent(request[p].gen, request[p].code)'
                                        <=> Spent(request[p].gen, request[p].code)
    BY <1>1 DEF Mine, Factors, Spent
  <1>4. \A p \in Requests : Marks(p)' =>
          /\ request'[p].code # 0
          /\ challenge'[request'[p].challenge].state = "live" =>
                 config'.gen # 0 /\ request'[p].gen = config'.gen
    BY <1>1, <1>2 DEF CodesSpent, Mine
  <1>5. ASSUME NEW p \in Requests, Bears(p)'
        PROVE  /\ p # q /\ Bears(p) /\ request'[p].code # 0
               /\ Spent(request[p].gen, request[p].code)'
               /\ \A o \in Requests \ {p} : Bears(o)' => Factors(request[o])' # Factors(request[p])'
    <2>1. p # q /\ Bears(p) /\ request'[p] = request[p]
      BY <1>5, <1>1, <1>2 DEF Mine
    <2>2. request[p].code # 0 /\ Spent(request[p].gen, request[p].code)
      BY <2>1 DEF CodesSpent
    <2>3. \A o \in Requests \ {p} : Bears(o)' => Factors(request[o])' # Factors(request[p])'
      BY <2>1, <1>2, <1>3 DEF CodesSpent
    <2> QED BY <2>1, <2>2, <2>3, <1>3
  <1>6. CASE UNCHANGED session
    <2>1. \A s \in DOMAIN session' : session'[s].code # 0 =>
            /\ Spent(session[s].gen, session[s].code)'
            /\ \A t \in DOMAIN session' \ {s} : Factors(session[s])' # Factors(session[t])'
      BY <1>1, <1>6 DEF CodesSpent, Spent, Factors
    <2>2. \A p \in Requests : Bears(p)' =>
            \A s \in DOMAIN session' : Factors(session[s])' # Factors(request[p])'
      BY <1>3, <1>5, <1>6 DEF CodesSpent, Factors
    <2> QED BY <1>4, <1>5, <2>1, <2>2 DEF CodesSpent
  <1>7. CASE ~UNCHANGED session
    <2>1. PICK n :
            /\ n \notin DOMAIN session /\ DOMAIN session' = DOMAIN session \cup {n}
            /\ session'[n].gen = r.gen /\ session'[n].code = r.code
            /\ \A s \in DOMAIN session : session'[s] = session[s]
      BY <1>7, OpenedStep
    <2>2. r.code = 0 \/ Bears(q)
      <3>1. r.op \in {"login", "mfa", "change"} /\ r.at = "session"
        BY KindOfRequest, KindOf DEF OpensSession
      <3> QED BY <3>1 DEF Bears, Typed, Requesting, ReqOK
    <2>3. Factors(session[n])' = Factors(r)
      BY <2>1 DEF Factors
    <2>4. \A s \in DOMAIN session : Factors(session[s])' = Factors(session[s])
      BY <2>1 DEF Factors
    <2>5. ASSUME r.code # 0
          PROVE  /\ Spent(session[n].gen, session[n].code)'
                 /\ \A s \in DOMAIN session : Factors(session[s]) # Factors(r)
      <3>1. Spent(r.gen, r.code) /\ \A s \in DOMAIN session : Factors(session[s]) # Factors(r)
        BY <2>2, <2>5 DEF CodesSpent
      <3> QED BY <3>1, <2>1, <1>1 DEF Spent
    <2>6. ASSUME NEW s \in DOMAIN session, session[s].code # 0
          PROVE  /\ Spent(session[s].gen, session[s].code)'
                 /\ Factors(session[s]) # Factors(r)
                 /\ \A t \in DOMAIN session \ {s} : Factors(session[s]) # Factors(session[t])
      <3>1. /\ Spent(session[s].gen, session[s].code)
            /\ \A t \in DOMAIN session \ {s} : Factors(session[s]) # Factors(session[t])
        BY <2>6 DEF CodesSpent
      <3>2. Spent(session[s].gen, session[s].code)'
        BY <3>1, <2>1, <1>1 DEF Spent
      <3>3. Factors(session[s]) # Factors(r)
        <4>1. CASE r.code = 0
          BY <4>1, <2>6 DEF Factors
        <4> QED BY <4>1, <2>5
      <3> QED BY <3>1, <3>2, <3>3
    <2>7. ASSUME NEW s \in DOMAIN session', session'[s].code # 0
          PROVE  /\ Spent(session[s].gen, session[s].code)'
                 /\ \A t \in DOMAIN session' \ {s} : Factors(session[s])' # Factors(session[t])'
      <3>1. CASE s = n
        BY <3>1, <2>7, <2>1, <2>3, <2>4, <2>5
      <3>2. CASE s # n
        <4>1. s \in DOMAIN session /\ session[s].code # 0
          BY <3>2, <2>7, <2>1
        <4> QED BY <4>1, <2>1, <2>3, <2>4, <2>6
      <3> QED BY <3>1, <3>2
    <2>8. ASSUME NEW p \in Requests, Bears(p)', NEW s \in DOMAIN session'
          PROVE  Factors(session[s])' # Factors(request[p])'
      <3>1. /\ p # q /\ Bears(p) /\ Factors(request[p])' = Factors(request[p])
            /\ request[p].code # 0
        BY <2>8, <1>3, <1>5 DEF CodesSpent
      <3>2. CASE s = n
        <4>1. Factors(request[p]) # Factors(r)
          BY <3>1, <2>2 DEF CodesSpent, Factors
        <4> QED BY <4>1, <3>1, <3>2, <2>3
      <3>3. CASE s # n
        <4>1. s \in DOMAIN session /\ Factors(session[s]) # Factors(request[p])
          BY <3>1, <3>3, <2>1 DEF CodesSpent
        <4> QED BY <4>1, <3>1, <2>4
      <3> QED BY <3>2, <3>3
    <2> QED BY <1>4, <1>5, <2>7, <2>8 DEF CodesSpent
  <1> QED BY <1>6, <1>7

LEMMA CodesStep ==
    ASSUME Typed, Setups, Confirming, Enrolled, CodesSpent, [Next]_vars
    PROVE  CodesSpent'
  <1>0. Typed' /\ ConsumedStay /\ ConfigStep
    BY NextTyped, ConsumedStep, ConfigSteps
  <1>1. CASE UNCHANGED vars
    <2>1. SameSessions /\ SpentStay /\ UNCHANGED request
      BY <1>1 DEF vars, SameSessions, SpentStay
    <2> QED BY <1>0, <2>1, OthersBear, CodesQuiet
  <1>2. CASE \/ \E s \in DOMAIN session : Logout(s)
             \/ \E g \in Generations : WorkerEnds(g)
             \/ Expires
    <2>1. SameSessions /\ SpentStay /\ UNCHANGED request
      BY <1>2, OthersSigns, OthersKeep
    <2> QED BY <1>0, <2>1, OthersBear, CodesQuiet
  <1>3. ASSUME NEW q \in Requests, Begins(q) PROVE CodesSpent'
    <2>1. SameSessions /\ SpentStay /\ Mine(q) /\ UNCHANGED config
      BY <1>3, BeginsKeeps, StepsAreMine DEF Signs, Factor, SameSessions, SpentStay
    <2>2. BeginsWith(request'[q])
      BY <1>3, BeginsLemma
    <2>3. config # NoConfig => config.gen # 0
      BY DEF Typed, Tables
    <2>4. BearsAsBefore(q) /\ MarksAsBefore(q)
      BY <2>1, <2>2, <2>3 DEF BeginsWith, BearsAsBefore, MarksAsBefore, Bears, Marks
    <2> QED BY <1>0, <2>1, <2>4, OthersBear, CodesQuiet DEF Mine
  <1>4. ASSUME NEW q \in Requests, SignsIn(q) \/ Enrolls(q) \/ Fails(q),
               ~MarksCode(q), ~OpensSession(q)
        PROVE  CodesSpent'
    <2>1. SameSessions /\ SpentStay /\ Mine(q)
      BY <1>4, OtherSessions, SignsInSpent, EnrollsSigns, StepsAreMine
    <2>2. BearsAsBefore(q) /\ MarksAsBefore(q)
      BY <1>4, BearsBack
    <2> QED BY <1>0, <2>1, <2>2, OthersBear, CodesQuiet DEF Mine
  <1> QED BY <1>0, <1>1, <1>2, <1>3, <1>4, MarksCodes, OpensCodes DEF Next

LEMMA InitFactors ==
    ASSUME Init
    PROVE  ChallengesSpent /\ Setups /\ Confirming /\ Enrolled /\ CodesSpent
  <1>1. PICK h \in Histories, app \in Providers :
        /\ config = IF h = "enrolled" THEN [gen |-> 1, used |-> 0] ELSE NoConfig
        /\ invitation = [g \in Generations |->
               [state |-> IF g > 1 \/ h \in Plain THEN "none"
                          ELSE IF h = "invited" THEN "live" ELSE "consumed",
                app |-> app, attempts |-> 0]]
        /\ session = IF h = "enrolled"
                     THEN <<[live |-> TRUE, challenge |-> 0, gen |-> 0, code |-> 0, late |-> FALSE]>> ELSE <<>>
    BY DEF Init
  <1>2. \A q \in Requests : request[q].op = "none"
    BY DEF Init, Idle
  <1>3. \A s \in DOMAIN session : s = 1 /\ session[s].challenge = 0 /\ session[s].code = 0
    <2> DEFINE e == [live |-> TRUE, challenge |-> 0, gen |-> 0, code |-> 0, late |-> FALSE]
    <2>1. e.challenge = 0 /\ e.code = 0
      OBVIOUS
    <2>2. session = <<e>> \/ session = <<>>
      BY <1>1
    <2> HIDE DEF e
    <2>3. \A s \in DOMAIN session : s = 1 /\ session[s] = e
      BY <2>2
    <2> QED BY <2>1, <2>3
  <1>4. Enrolled
    <2>1. 1 \in Generations
      BY AccountsAssumption DEF Generations
    <2> QED BY <1>1, <2>1 DEF Enrolled, NoConfig, Plain
  <1> QED BY <1>2, <1>3, <1>4
      DEF ChallengesSpent, Setups, Confirming, CodesSpent, Holds, Marks, Bears

\* Neither a challenge nor a code opens a second session, whatever requests come between
\* those of a sign-in: a challenge that was taken stays taken (consumeMfaChallenge), a
\* code is accepted only after every earlier one (markTotpUsed), and an authenticator
\* that is replaced takes every challenge of the user with it (clearMfa), so that no
\* code is accepted for one that is gone.
THEOREM FactorsAreUsedOnce == Spec => []FactorsUsedOnce
  <1> DEFINE Inv == /\ Typed /\ ChallengesSpent /\ Setups /\ Confirming /\ Enrolled
                    /\ CodesSpent
  <1>1. Init => Inv
    BY InitTyped, InitFactors
  <1>2. Inv /\ [Next]_vars => Inv'
    BY NextTyped, SpentStep, SetupsStep, ConfirmingStep, EnrolledStep, CodesStep
  <1>3. Inv => FactorsUsedOnce
    BY DEF ChallengesSpent, CodesSpent, FactorsUsedOnce, Factors
  <1> QED BY <1>1, <1>2, <1>3, PTL DEF Spec

=============================================================================
