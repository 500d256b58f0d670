-------------------------- MODULE MCRedmineTickets --------------------------
EXTENDS RedmineTickets, TLC

CONSTANTS old, new, far, s1, r1

MCCanonical == (old :> new) @@ (new :> new) @@ (far :> far)
MCKeyOf == (s1 :> new) @@ (r1 :> old)

\* An issue with the findings of the ticket, under any key; one whose findings have gone, to
\* another ticket or to none; one of the other ticket; and one of none.
MCGiven ==
    {[key |-> k, findings |-> new] : k \in Keys \cup {"other", "none"}}
    \cup {[key |-> k, findings |-> "other"] : k \in {old, new, "other"}}
    \cup {[key |-> k, findings |-> far] : k \in {new, far}}

=============================================================================
