--------------------------- MODULE MCNotifications ---------------------------
(***************************************************************************)
(* Notifications for TLC.  The operations notify in several ways, and each *)
(* behaviour takes those of one group, or one handler at a time and no     *)
(* fault with all of them but the user's cancellation.                     *)
(***************************************************************************)
EXTENDS Notifications, TLC

ASSUME MCNotificationsAssumption == IsFiniteSet(Workers)

VARIABLE group  \* the operations of this behaviour

Groups == [
    committed |-> AfterCommit,
    delivered |-> {"ccbillCancel", "reactivate", "userCancel"},
    refunded  |-> {"refund", "userCancel"},
    serial    |-> Ops \ {"userCancel", "purchase"}]

MCInit == Init /\ group \in DOMAIN Groups

MCNext ==
    /\ Next
    /\ \A w \in Workers : task'[w].op \in Groups[group] \cup {"none"}
    /\ group = "serial" =>
          /\ Cardinality({w \in Workers : task'[w] # Idle}) <= 1
          /\ faults' = 0
    /\ UNCHANGED group

MCSpec == MCInit /\ [][MCNext]_<<vars, group>>

\* Handlers are interchangeable.
WorkerSymmetry == Permutations(Workers)

-----------------------------------------------------------------------------
(* Properties                                                              *)

\* A notification of a start, a renewal or an end that was inserted with the
\* change stays only if the change took place (lifecycle_service.go).
CommittedNoticeIsTrue == group = "committed" => NotifiedIsTrue

\* One handler at a time: the newest notification about the membership is not
\* contradicted by it.
SerialNewestIsRight == group = "serial" => NewestIsRight

-----------------------------------------------------------------------------
(* Not asked of the run: further properties that hold                      *)

\* An e-mail about a change that notifies after its commit shows the
\* subscription as that change has left it, or a later one (getEmailData).
CommittedEmailIsCurrent == group = "committed" => EmailIsCurrent

\* One handler at a time: no unread notification of an earlier end is left once
\* CreateAndDeliver has stored a start or a renewal.
SerialStaleIsCleaned == group = "serial" => StaleIsCleaned
=============================================================================
