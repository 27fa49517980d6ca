-------------------------- MODULE EntitlementWindows --------------------------
(***************************************************************************)
(* The windows of one user and one entitlement name in                     *)
(* billing.entitlements, and the queries and statements that EntitlementRepo*)
(* and EntitlementService run on them.                                     *)
(*                                                                         *)
(* A set of windows holds the rows that are not revoked: every query of    *)
(* the service filters on revoked_at IS NULL, so a revoked row is gone.    *)
(***************************************************************************)
EXTENDS Integers

NoTime == -1    \* a NULL timestamp
OneOff == 0     \* the source of a window that no subscription granted

\* The window from start to end, or with no end, granted by source.
Window(start, end, source) == [start |-> start, end |-> end, source |-> source]

Open(x) == x.end = NoTime

\* start_at <= at AND (end_at IS NULL OR end_at > at)
Covers(x, at) == x.start <= at /\ (Open(x) \/ x.end > at)

IsEntitled(W, at) == \E x \in W : Covers(x, at)

HasActiveIndefinite(W, at) == \E x \in W : Open(x) /\ x.start <= at

ExistsBySource(W, source) == \E x \in W : x.source = source

\* The latest end of the finite windows that cover this moment.
IsLatestFiniteEnd(W, at, end) ==
    LET Finite == {x \in W : ~ Open(x) /\ Covers(x, at)} IN
    /\ \E x \in Finite : x.end = end
    /\ \A x \in Finite : x.end <= end

\* Where a subscription that begins at this moment starts to entitle.
SubscriptionStarts(W, at) ==
    {t \in {at} \cup {x.end : x \in W} :
        IF \E x \in W : ~ Open(x) /\ Covers(x, at)
        THEN IsLatestFiniteEnd(W, at, t)
        ELSE t = at}

\* GetLatestActive orders by start_at: the last window may be over, or open.
AppendStarts(W, at) ==
    {t \in {at} \cup {x.end : x \in W} :
        IF W = {}
        THEN t = at
        ELSE \E last \in W :
                /\ \A x \in W : x.start <= last.start
                /\ t = IF Open(last) THEN at ELSE last.end}

\* The two partial unique indexes: one open window, and no two equal starts.
UniqueIndexes(W) ==
    \A x, y \in W :
        x # y => x.start # y.start /\ ~ (Open(x) /\ Open(y))

\* end_at and revoked_at are set on the open windows of this subscription.
EndActiveBySubscription(W, source) == {x \in W : ~ (x.source = source /\ Open(x))}

Overlap(x, y) ==
    /\ Open(x) \/ y.start < x.end
    /\ Open(y) \/ x.start < y.end
=============================================================================
