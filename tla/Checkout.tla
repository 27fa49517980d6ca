------------------------------ MODULE Checkout ------------------------------
(***************************************************************************)
(* The NMI checkout and the payment methods it uses.  A request is a row   *)
(* of statements and calls to the gateway, each a step of its own: the     *)
(* gateway keeps vaults and recurring subscriptions, the database payment  *)
(* methods, subscriptions and idempotency records.  A client may hang up,  *)
(* after which every statement of its request fails and every call still   *)
(* goes through; a handler may die; the answer of a call may be lost.      *)
(***************************************************************************)
EXTENDS Integers, Sequences, FiniteSets

CONSTANTS
    Users, Prices,
    Providers,   \* configured NMI accounts
    Tokens,      \* Collect.js tokens, each good for one vault
    Requests,    \* handlers under way at a time
    MaxVaults,   \* bound on the vaults created
    MaxCharges,  \* bound on the recurring subscriptions created
    MaxFaults    \* bound on hang-ups, deaths and lost answers

Nobody == "nobody"

ASSUME CheckoutAssumption ==
    /\ MaxVaults \in Nat \ {0} /\ MaxCharges \in Nat \ {0} /\ MaxFaults \in Nat
    /\ Users # {} /\ Prices # {} /\ Providers # {}
    /\ Nobody \notin Users /\ Tokens \cap (1..MaxVaults) = {}

VARIABLES
    vaults,   \* the gateway's vaults; a vault's index is its id
    charges,  \* the gateway's recurring subscriptions
    methods,  \* billing.payment_methods, by vault
    subs,     \* billing.subscriptions, oldest first
    record,   \* idempotency records of Subscribe, by key
    task,     \* what each request is doing
    faults    \* faults so far

vars == <<vaults, charges, methods, subs, record, task, faults>>

VaultIds == 1..MaxVaults
Cards    == Tokens \cup VaultIds      \* a token, or a saved method
Keys     == [user : Users, price : Prices, card : Cards]

Vault  == [user : Users, at : Providers, token : Tokens, live : BOOLEAN]
Charge == [key : Keys, vault : VaultIds, at : Providers]
Method == [user : Users \cup {Nobody}, provider : Providers, active : BOOLEAN]
Row    == [key : Keys, method : 0..MaxVaults, provider : Providers,
           charge : 1..MaxCharges, status : {"pending", "active", "ended"}]

NoMethod == [user |-> Nobody, provider |-> CHOOSE a \in Providers : TRUE, active |-> FALSE]

Phase == {"idle", "validate", "begin", "vault", "store", "unstore", "charge",
          "complete", "insert", "fail", "cleanCheck", "cleanVault", "cleanMethod",
          "update", "updateMethod", "delete", "activate"}

\* saving: CreatePaymentMethod rather than Subscribe.  copy: the method as loaded.
Task == [phase : Phase, saving : BOOLEAN, key : Keys, at : Providers,
         vault : 0..MaxVaults, charge : 0..MaxCharges, copy : Method, gone : BOOLEAN]

NoTask == [phase |-> "idle", saving |-> FALSE, key |-> CHOOSE k \in Keys : TRUE,
           at |-> CHOOSE a \in Providers : TRUE, vault |-> 0, charge |-> 0,
           copy |-> NoMethod, gone |-> FALSE]

TypeOK ==
    /\ vaults \in Seq(Vault) /\ Len(vaults) <= MaxVaults
    /\ charges \in Seq(Charge) /\ Len(charges) <= MaxCharges
    /\ methods \in [VaultIds -> Method]
    /\ subs \in Seq(Row) /\ Len(subs) <= MaxCharges
    /\ record \in [Keys -> {"absent", "pending", "success", "failed"}]
    /\ task \in [Requests -> Task]
    /\ faults \in 0..MaxFaults

Init ==
    /\ vaults = <<>> /\ charges = <<>> /\ subs = <<>>
    /\ methods = [v \in VaultIds |-> NoMethod]
    /\ record = [k \in Keys |-> "absent"]
    /\ task = [r \in Requests |-> NoTask]
    /\ faults = 0

-----------------------------------------------------------------------------
(* Steps                                                                   *)

Go(r, phase) == task' = [task EXCEPT ![r].phase = phase]
End(r)       == task' = [task EXCEPT ![r] = NoTask]
Start(r, t)  == task[r] = NoTask /\ task' = [task EXCEPT ![r] = t]
At(r, phase) == task[r].phase = phase
Statement(r, phase) == At(r, phase) /\ ~task[r].gone

Fault == faults < MaxFaults /\ faults' = faults + 1

\* An account of the gateway knows its own vaults only.
Reachable(v, a) == v \in DOMAIN vaults /\ vaults[v].live /\ vaults[v].at = a

Indices(s) == DOMAIN s

\* ValidatePaymentMethodOperation
Usable(v, u) == methods[v].user = u /\ methods[v].active

-----------------------------------------------------------------------------
(* Subscribe and CreatePaymentMethod                                       *)

\* The latest row of the user: only an active one keeps Subscribe from going on.
Admitted(u) ==
    LET mine == {i \in Indices(subs) : subs[i].key.user = u} IN
    \A i \in mine : (\A j \in mine : j <= i) => subs[i].status # "active"

\* The account is the price's, the one asked for, or mobius.
Subscribe(r, k, a) ==
    /\ Admitted(k.user)
    /\ k.card \in Tokens \cup Indices(vaults)
    /\ Start(r, [NoTask EXCEPT !.phase = IF k.card \in Tokens THEN "begin" ELSE "validate",
                               !.key = k, !.at = a])
    /\ UNCHANGED <<vaults, charges, methods, subs, record, faults>>

CreatePaymentMethod(r, k, a) ==
    /\ k.card \in Tokens
    /\ Start(r, [NoTask EXCEPT !.phase = "vault", !.saving = TRUE, !.key = k, !.at = a])
    /\ UNCHANGED <<vaults, charges, methods, subs, record, faults>>

Validate(r) ==
    LET k == task[r].key IN
    /\ Statement(r, "validate")
    /\ IF Usable(k.card, k.user)
       THEN task' = [task EXCEPT ![r].phase = "begin", ![r].vault = k.card,
                                 ![r].copy = methods[k.card]]
       ELSE End(r)
    /\ UNCHANGED <<vaults, charges, methods, subs, record, faults>>

\* Faulty variant of Begin: a failed attempt may be repeated.
BeginAfterFailure(r) ==
    LET k == task[r].key IN
    /\ Statement(r, "begin")
    /\ IF record[k] \in {"absent", "failed"}
       THEN /\ record' = [record EXCEPT ![k] = "pending"]
            /\ Go(r, IF k.card \in Tokens THEN "vault" ELSE "charge")
       ELSE UNCHANGED record /\ End(r)
    /\ UNCHANGED <<vaults, charges, methods, subs, faults>>

\* A key that has been used is refused, whatever became of it.
Begin(r) ==
    LET k == task[r].key IN
    /\ Statement(r, "begin")
    /\ IF record[k] = "absent"
       THEN /\ record' = [record EXCEPT ![k] = "pending"]
            /\ Go(r, IF k.card \in Tokens THEN "vault" ELSE "charge")
       ELSE UNCHANGED record /\ End(r)
    /\ UNCHANGED <<vaults, charges, methods, subs, faults>>

\* CreateCustomerVault: it is refused, or the vault exists and its answer may be
\* lost.  On an error Subscribe leaves its idempotency record pending.
CreateVault(r) ==
    LET k == task[r].key IN
    /\ At(r, "vault")
    /\ \/ End(r) /\ UNCHANGED <<vaults, faults>>
       \/ /\ Len(vaults) < MaxVaults
          /\ \A v \in Indices(vaults) : vaults[v].token # k.card
          /\ vaults' = Append(vaults, [user |-> k.user, at |-> task[r].at,
                                       token |-> k.card, live |-> TRUE])
          /\ \/ /\ task' = [task EXCEPT ![r].phase = "store", ![r].vault = Len(vaults')]
                /\ UNCHANGED faults
             \/ Fault /\ End(r)
    /\ UNCHANGED <<charges, methods, subs, record>>

StoreMethod(r) ==
    LET m == [user |-> task[r].key.user, provider |-> task[r].at, active |-> TRUE] IN
    /\ Statement(r, "store")
    /\ methods' = [methods EXCEPT ![task[r].vault] = m]
    /\ IF task[r].saving THEN End(r)
                         ELSE task' = [task EXCEPT ![r].phase = "charge", ![r].copy = m]
    /\ UNCHANGED <<vaults, charges, subs, record, faults>>

\* DeleteCustomerVault, whose error stands for both outcomes.
DropVault(v) == vaults' = [vaults EXCEPT ![v].live = FALSE]

\* The insert has failed: the clean-up ignores its own error.
Unstore(r) ==
    /\ At(r, "unstore")
    /\ \/ DropVault(task[r].vault) /\ UNCHANGED faults
       \/ Fault /\ UNCHANGED vaults
    /\ End(r)
    /\ UNCHANGED <<charges, methods, subs, record>>

\* Faulty variant of ChargeVault: a declined charge passes for an approved one.
ChargeUnchecked(r) ==
    /\ At(r, "charge")
    /\ Len(charges) < MaxCharges
    /\ task' = [task EXCEPT ![r].phase = "complete", ![r].charge = Len(charges) + 1]
    /\ UNCHANGED <<vaults, charges, methods, subs, record, faults>>

\* AddRecurringSubscription: declined, or the gateway will charge the vault from
\* now on; when the answer is lost, Subscribe takes it for declined.
ChargeVault(r) ==
    LET t == task[r] IN
    /\ At(r, "charge")
    /\ \/ Go(r, "fail") /\ UNCHANGED <<charges, faults>>
       \/ /\ Reachable(t.vault, t.at)
          /\ Len(charges) < MaxCharges
          /\ charges' = Append(charges, [key |-> t.key, vault |-> t.vault, at |-> t.at])
          /\ \/ /\ task' = [task EXCEPT ![r].phase = "complete", ![r].charge = Len(charges')]
                /\ UNCHANGED faults
             \/ Fault /\ Go(r, "fail")
    /\ UNCHANGED <<vaults, methods, subs, record>>

CompleteRecord(r) ==
    /\ Statement(r, "complete")
    /\ record' = [record EXCEPT ![task[r].key] = "success"]
    /\ Go(r, "insert")
    /\ UNCHANGED <<vaults, charges, methods, subs, faults>>

\* Faulty variant of InsertRow: the row is not inserted.
InsertNothing(r) ==
    /\ Statement(r, "insert")
    /\ End(r)
    /\ UNCHANGED <<vaults, charges, methods, subs, record, faults>>

\* The foreign key refuses a method that has been deleted.
InsertRow(r) ==
    LET t == task[r] IN
    /\ Statement(r, "insert")
    /\ subs' = IF methods[t.vault] = NoMethod THEN subs
               ELSE Append(subs, [key |-> t.key, method |-> t.vault, charge |-> t.charge,
                                  provider |-> t.copy.provider, status |-> "pending"])
    /\ End(r)
    /\ UNCHANGED <<vaults, charges, methods, record, faults>>

\* A method created by this very request goes with it.
AfterFailure(r) == IF task[r].key.card \in Tokens THEN Go(r, "cleanCheck") ELSE End(r)

FailRecord(r) ==
    /\ Statement(r, "fail")
    /\ record' = [record EXCEPT ![task[r].key] = "failed"]
    /\ AfterFailure(r)
    /\ UNCHANGED <<vaults, charges, methods, subs, faults>>

-----------------------------------------------------------------------------
(* DeleteVault, which only the clean-up of Subscribe calls                 *)

InUse(v) == \E i \in Indices(subs) : subs[i].method = v /\ subs[i].status = "active"

CheckUse(r) ==
    /\ Statement(r, "cleanCheck")
    /\ IF InUse(task[r].vault) THEN End(r) ELSE Go(r, "cleanVault")
    /\ UNCHANGED <<vaults, charges, methods, subs, record, faults>>

\* Faulty variant of CleanVault: the row is deactivated also when the gateway has
\* not deleted the vault.
CleanRegardless(r) ==
    /\ At(r, "cleanVault")
    /\ \/ DropVault(task[r].vault) /\ UNCHANGED faults
       \/ Fault /\ (DropVault(task[r].vault) \/ UNCHANGED vaults)
    /\ Go(r, "cleanMethod")
    /\ UNCHANGED <<charges, methods, subs, record>>

CleanVault(r) ==
    /\ At(r, "cleanVault")
    /\ \/ DropVault(task[r].vault) /\ Go(r, "cleanMethod") /\ UNCHANGED faults
       \/ Fault /\ (DropVault(task[r].vault) \/ UNCHANGED vaults) /\ End(r)
    /\ UNCHANGED <<charges, methods, subs, record>>

\* Faulty variant of CleanMethod: the row is left as it is.
CleanNothing(r) == Statement(r, "cleanMethod") /\ End(r)
                   /\ UNCHANGED <<vaults, charges, methods, subs, record, faults>>

\* An update of a row that is gone is an error.
Overwrite(v, m) ==
    methods' = IF methods[v] = NoMethod THEN methods ELSE [methods EXCEPT ![v] = m]

CleanMethod(r) ==
    /\ Statement(r, "cleanMethod")
    /\ Overwrite(task[r].vault, [task[r].copy EXCEPT !.active = FALSE])
    /\ End(r)
    /\ UNCHANGED <<vaults, charges, subs, record, faults>>

-----------------------------------------------------------------------------
(* UpdatePaymentMethod, DeletePaymentMethod, ActivatePaymentMethod         *)

OnMethod(r, phase, u, v, a) ==
    Start(r, [NoTask EXCEPT !.phase = phase, !.key.user = u, !.vault = v, !.at = a,
                            !.copy = methods[v]])

UpdatePaymentMethod(r, u, v, a) ==
    /\ Usable(v, u)
    /\ OnMethod(r, "update", u, v, a)
    /\ UNCHANGED <<vaults, charges, methods, subs, record, faults>>

\* The gateway refuses a vault that the account asked for does not have.
UpdateVault(r) ==
    /\ At(r, "update")
    /\ IF Reachable(task[r].vault, task[r].at) THEN Go(r, "updateMethod") ELSE End(r)
    /\ UNCHANGED <<vaults, charges, methods, subs, record, faults>>

\* The whole row is written from the copy.
UpdateMethod(r) ==
    /\ Statement(r, "updateMethod")
    /\ Overwrite(task[r].vault,
                 [task[r].copy EXCEPT !.provider = task[r].at, !.active = TRUE])
    /\ End(r)
    /\ UNCHANGED <<vaults, charges, subs, record, faults>>

DeletePaymentMethod(r, u, v) ==
    /\ Usable(v, u)
    /\ OnMethod(r, "delete", u, v, methods[v].provider)
    /\ UNCHANGED <<vaults, charges, methods, subs, record, faults>>

\* The row goes; subscriptions that refer to it lose it (ON DELETE SET NULL).
DeleteMethod(r) ==
    LET v == task[r].vault IN
    /\ Statement(r, "delete")
    /\ methods' = [methods EXCEPT ![v] = NoMethod]
    /\ subs' = [i \in Indices(subs) |->
                  IF subs[i].method = v THEN [subs[i] EXCEPT !.method = 0] ELSE subs[i]]
    /\ End(r)
    /\ UNCHANGED <<vaults, charges, record, faults>>

ActivatePaymentMethod(r, u, v) ==
    /\ methods[v].user = u
    /\ OnMethod(r, "activate", u, v, methods[v].provider)
    /\ UNCHANGED <<vaults, charges, methods, subs, record, faults>>

\* What has passed the validation is active already.
Activate(r) ==
    LET v == task[r].vault IN
    /\ Statement(r, "activate")
    /\ methods' = IF Usable(v, task[r].key.user) /\ ~methods[v].active
                  THEN [methods EXCEPT ![v].active = TRUE]
                  ELSE methods
    /\ End(r)
    /\ UNCHANGED <<vaults, charges, subs, record, faults>>

-----------------------------------------------------------------------------
(* Faults, and the webhooks                                                *)

Disconnect(r) ==
    /\ task[r] # NoTask /\ ~task[r].gone
    /\ Fault
    /\ task' = [task EXCEPT ![r].gone = TRUE]
    /\ UNCHANGED <<vaults, charges, methods, subs, record>>

Gateway == {"vault", "unstore", "charge", "cleanVault", "update"}

\* A statement of a request whose client has gone.
StatementFails(r) ==
    /\ task[r].gone /\ task[r].phase \notin Gateway
    /\ CASE At(r, "store")    -> Go(r, "unstore")
         [] At(r, "complete") -> Go(r, "insert")
         [] At(r, "fail")     -> AfterFailure(r)
         [] OTHER             -> End(r)
    /\ UNCHANGED <<vaults, charges, methods, subs, record, faults>>

Crash(r) ==
    /\ task[r] # NoTask
    /\ Fault /\ End(r)
    /\ UNCHANGED <<vaults, charges, methods, subs, record>>

\* CreateMembership: one active row per user.
Confirm(i) ==
    /\ subs[i].status = "pending"
    /\ \A j \in Indices(subs) : subs[j].key.user = subs[i].key.user => subs[j].status # "active"
    /\ subs' = [subs EXCEPT ![i].status = "active"]
    /\ UNCHANGED <<vaults, charges, methods, record, task, faults>>

CancelRow(i) ==
    /\ subs[i].status = "active"
    /\ subs' = [subs EXCEPT ![i].status = "ended"]
    /\ UNCHANGED <<vaults, charges, methods, record, task, faults>>

-----------------------------------------------------------------------------

Handle(r) ==
    \/ \E k \in Keys, a \in Providers : Subscribe(r, k, a) \/ CreatePaymentMethod(r, k, a)
    \/ \E u \in Users, v \in VaultIds :
          \/ DeletePaymentMethod(r, u, v)
          \/ ActivatePaymentMethod(r, u, v)
          \/ \E a \in Providers : UpdatePaymentMethod(r, u, v, a)

Step(r) ==
    \/ Validate(r) \/ Begin(r)
    \/ CreateVault(r) \/ StoreMethod(r) \/ Unstore(r)
    \/ ChargeVault(r) \/ CompleteRecord(r) \/ InsertRow(r)
    \/ FailRecord(r) \/ CheckUse(r) \/ CleanVault(r) \/ CleanMethod(r)
    \/ UpdateVault(r) \/ UpdateMethod(r)
    \/ DeleteMethod(r) \/ Activate(r)
    \/ StatementFails(r)

Next ==
    \/ \E r \in Requests : Handle(r) \/ Step(r) \/ Disconnect(r) \/ Crash(r)
    \/ \E i \in Indices(subs) : Confirm(i) \/ CancelRow(i)

Spec == Init /\ [][Next]_vars

-----------------------------------------------------------------------------
(* Properties                                                              *)

\* The key of a checkout is charged at most once, however often it is sent, at
\* whatever point an attempt broke off, and whatever was lost on the way.
OneChargePerKey ==
    \A i, j \in Indices(charges) : charges[i].key = charges[j].key => i = j

\* The gateway charges a card that its own user has stored: the method is loaded
\* and checked (payment_method.go:207) before any other step of the request.
ChargedIsOwn == \A i \in Indices(charges) :
    vaults[charges[i].vault].user = charges[i].key.user

\* A subscription row stands for one recurring subscription of the gateway, at the
\* account the row names, so that its events find the row, and on the card it names.
RowIsCharged == \A i \in Indices(subs) :
    LET s == subs[i] IN
    /\ s.charge \in Indices(charges)
    /\ charges[s.charge].key = s.key
    /\ charges[s.charge].at = s.provider
    /\ s.method \in {0, charges[s.charge].vault}
    /\ \A j \in Indices(subs) : subs[j].charge = s.charge => i = j

Quiet == \A r \in Requests : task[r] = NoTask

\* A method is deactivated only after its vault is gone (vault_service.go:232):
\* the gateway charges no card that the user sees as inactive.
InactiveIsDead == \A v \in Indices(vaults) :
    methods[v] # NoMethod /\ ~methods[v].active => ~vaults[v].live

\* DeleteVault "deletes the vault remotely ...; deactivates locally": an active
\* method has a vault.  One request at a time and no faults.
ActiveHasVault == Quiet => \A v \in VaultIds : methods[v].active => vaults[v].live

\* What the gateway charges has a row once the request is over.  One request at a
\* time and no faults: a hang-up after subscription.go:314 leaves none.
ChargeHasRow ==
    Quiet => \A i \in Indices(charges) : \E j \in Indices(subs) : subs[j].charge = i

\* "after ensuring no active subscriptions use it": an active subscription keeps
\* its payment method.
ActiveHasMethod == \A i \in Indices(subs) : subs[i].status = "active" => subs[i].method # 0

\* "user already has an active subscription": Subscribe is refused to a user who
\* has one, and the gateway never charges a user for two that have not ended.
OneSubscriptionAtATime == \A i, j \in Indices(subs) :
    subs[i].key.user = subs[j].key.user /\ "ended" \notin {subs[i].status, subs[j].status}
        => i = j

\* "Marks the specified method as active after validation."
ActivateActivates ==
    [][\A r \in Requests :
          Statement(r, "activate") /\ task'[r] = NoTask
             /\ methods[task[r].vault].user = task[r].key.user
             => methods'[task[r].vault].active]_vars

\* "immediately available for future purchases": a saved method that is active is
\* not refused to a user who has no subscription.
SavedIsUsable ==
    [][\A r \in Requests :
          Statement(r, "begin") /\ task[r].key.card \in VaultIds
             /\ (\A i \in Indices(subs) : subs[i].status = "ended")
             => task'[r].phase # "idle"]_vars
=============================================================================
