---------------------------- MODULE SyncAllScope ----------------------------
(***************************************************************************)
(* The scope algebra of Sync All                                           *)
(* (apps/vulnerability/server/services/sync-all-coordinator-service.cjs).  *)
(*                                                                         *)
(* A request selects products and engagements of DefectDojo.  The          *)
(* coordinator turns the selection into a scope, decides from the scopes   *)
(* of two runs whether they may run at the same time, and takes one        *)
(* PostgreSQL advisory lock per lock key of the scope.                     *)
(***************************************************************************)
EXTENDS Integers, FiniteSets

CONSTANTS
    Products,        \* DefectDojo product ids
    Engagements,     \* DefectDojo engagement ids
    ProductOf        \* the product an engagement belongs to in DefectDojo

ASSUME ProductOfAssumption == ProductOf \in [Engagements -> Products]

\* The two pull filters that bear on the scope; an empty set is an absent one.
Filters == [products : SUBSET Products, engagements : SUBSET Engagements]

Scopes ==
    [type        : {"global", "product", "engagement"},
     products    : SUBSET Products,
     engagements : SUBSET Engagements]

LockKeys ==
       {<<"global", "all">>}
  \cup {<<"product", p>> : p \in Products}
  \cup {<<"engagement", e>> : e \in Engagements}

-----------------------------------------------------------------------------
(* deriveSyncAllScope.  "resolved" is what the optional engagement registry *)
(* lookup returns: it is consulted only for engagements without a product,  *)
(* and the coordinator itself never supplies it (CoordinatorScope).         *)

EffectiveProducts(f, resolved) ==
    IF f.products = {} /\ f.engagements # {} THEN resolved ELSE f.products

DeriveScope(f, resolved) ==
    LET products == EffectiveProducts(f, resolved) IN
    [type        |-> IF products = {} THEN "global"
                     ELSE IF f.engagements # {} THEN "engagement"
                     ELSE "product",
     products    |-> products,
     engagements |-> f.engagements]

CoordinatorScope(f) == DeriveScope(f, {})

\* The lockKeys of a scope, one advisory lock each.
ScopeLocks(s) ==
    CASE s.type = "global"     -> {<<"global", "all">>}
      [] s.type = "engagement" -> {<<"engagement", e>> : e \in s.engagements}
      [] s.type = "product"    -> {<<"product", p>> : p \in s.products}

-----------------------------------------------------------------------------
(* syncAllScopesOverlap *)

ProductOnly(s) == s.products # {} /\ s.engagements = {}

\* Mutant: only the left scope may be a product scope.
OverlapOneSided(l, r) ==
    \/ "global" \in {l.type, r.type}
    \/ l.engagements \cap r.engagements # {}
    \/ ProductOnly(l) /\ l.products \cap r.products # {}

Overlap(l, r) ==
    \/ "global" \in {l.type, r.type}
    \/ l.engagements \cap r.engagements # {}
    \/ /\ ProductOnly(l) \/ ProductOnly(r)
       /\ l.products \cap r.products # {}

-----------------------------------------------------------------------------
(* What a run works on, in engagements: one stands for its findings and for *)
(* the tickets routed to it.                                                *)

\* The findings the run's DefectDojo pull fetches and saves: those of the
\* selected engagements, without the product filter, or else those of the
\* selected products, or else all.
Pulls(f) ==
    IF f.engagements # {} THEN f.engagements
    ELSE {e \in Engagements : f.products = {} \/ ProductOf[e] \in f.products}

\* The ticket references the run keeps: both filters apply.
Tickets(f) ==
    {e \in Engagements :
        /\ f.products = {} \/ ProductOf[e] \in f.products
        /\ f.engagements = {} \/ e \in f.engagements}

-----------------------------------------------------------------------------
(* Properties. *)

\* The engagements a selection names outside the products it names: nothing on
\* the way to the coordinator refuses them.
Strays(f) ==
    {e \in f.engagements : f.products # {} /\ ProductOf[e] \notin f.products}

\* Two selections that are judged independent keep no ticket in common, compete
\* for no advisory lock, and are independent in the other order too.  They pull
\* the findings of a common engagement only where one of them names it outside
\* its products: the pull drops the product filter, the overlap check does not.
JudgedRight(f, g) ==
    LET l == CoordinatorScope(f)
        r == CoordinatorScope(g) IN
    ~Overlap(l, r) =>
        /\ Tickets(f) \cap Tickets(g) = {}
        /\ Pulls(f) \cap Pulls(g) \subseteq Strays(f) \cup Strays(g)
        /\ ScopeLocks(l) \cap ScopeLocks(r) = {}
        /\ ~Overlap(r, l)

=============================================================================
