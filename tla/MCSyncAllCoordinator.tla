------------------------ MODULE MCSyncAllCoordinator ------------------------
EXTENDS SyncAllCoordinator, TLC

CONSTANTS p1, p2, e1, e2, A, B, q1, q2, q3, x1, x2

MCProductOf == (e1 :> p1) @@ (e2 :> p2)

Select(products, engagements) ==
    [products |-> products, engagements |-> engagements]

\* A run of two products, an engagement run inside the first product, whose
\* locks are others, and a run of the second product, which the engagement
\* run does not touch.
MCFilterNested ==
    (q1 :> Select({p1, p2}, {})) @@ (q2 :> Select({p1}, {e1}))
        @@ (q3 :> Select({p2}, {}))

MCFilterPair ==
    (q1 :> Select({p1}, {})) @@ (q2 :> Select({p1}, {e1}))

\* Two clients chose the same runId.
MCSharedIds == (q1 :> x1) @@ (q2 :> x2) @@ (q3 :> x1)
MCPairIds == (q1 :> x1) @@ (q2 :> x2)

MCServedBy == (q1 :> A) @@ (q2 :> B) @@ (q3 :> A)
MCPairServedBy == (q1 :> A) @@ (q2 :> B)

=============================================================================
