---------------------------- MODULE SyncRegistry ----------------------------
(***************************************************************************)
(* What the Sync All registry promises, with every registry operation      *)
(* atomic: a run enters only beside entries it does not conflict with, and *)
(* an entry leaves when its own run finishes or once it is stale.          *)
(* SyncAllCoordinator shows that the read-modify-write sections of the     *)
(* code, run by concurrent requests and processes that may fail half way,  *)
(* implement it.                                                           *)
(***************************************************************************)
EXTENDS SyncRuns

VARIABLES
    registry,        \* the persisted activeRuns
    live             \* the requests that hold a registration

registryVars == <<registry, live>>

-----------------------------------------------------------------------------
Init == registry = {} /\ live = {}

\* A run enters the registry only beside entries it does not conflict with.
Enroll(q) ==
    \E kept \in Kept(registry), age \in Ages :
        /\ \A n \in kept : ~Conflict(q, n.req)
        /\ registry' = kept \cup {[req |-> q, age |-> age]}

\* A granted run holds the advisory locks of its scope; no live run does.
Admit(q) ==
    /\ q \notin live
    /\ \A r \in live : ScopeLocks(ScopeOf(q)) \cap ScopeLocks(ScopeOf(r)) = {}
    /\ Enroll(q)
    /\ live' = live \cup {q}

\* The entry is written but the registration is not granted: the write
\* succeeded and its acknowledgement was lost.
AdmitLost(q) == q \notin live /\ Enroll(q) /\ UNCHANGED live

\* Work ends or processes die; the entries stay until removed or stale.
Leave == live' \in SUBSET live /\ UNCHANGED registry

Remove(q) ==
    /\ q \notin live
    /\ \E kept \in Kept(registry) : registry' = WithoutRun(kept, q)
    /\ UNCHANGED live

Beat(q) ==
    /\ \E kept \in Kept(registry), age \in Ages :
            registry' = Refreshed(kept, q, age)
    /\ UNCHANGED live

Prune == registry' \in Kept(registry) /\ UNCHANGED live

Time == registry' = Aged(registry) /\ UNCHANGED live

Next ==
    \/ Leave
    \/ Prune
    \/ Time
    \/ \E q \in Requests : Admit(q) \/ AdmitLost(q) \/ Remove(q) \/ Beat(q)

Spec == Init /\ [][Next]_registryVars

=============================================================================
