--------------------------- MODULE CheckoutProofs ---------------------------
(***************************************************************************)
(* Proofs about the checkout, for any number of users, prices, accounts,   *)
(* tokens and concurrent requests, and for any bounds, and about the       *)
(* ledger, for any number of callers, transactions and amounts.            *)
(*                                                                         *)
(* The inductive invariant says what a request knows: from its record to   *)
(* its charge it has the key to itself, from its charge to its row it has  *)
(* the charge to itself, and the copy of a method that it holds names the  *)
(* account of the vault.  Every step is one request's: a lemma says that   *)
(* what changes around a request leaves its knowledge true.  Whose card is *)
(* charged, and what an inactive method stands for, build on it.           *)
(***************************************************************************)
EXTENDS MCCheckout, SequenceTheorems, FiniteSetTheorems, TLAPS

\* A vault of an account.
OfVault(v, a) == v \in Indices(vaults) /\ vaults[v].at = a

\* From its idempotency record to its charge an attempt has its key to itself.
Claiming(t) == ~ t.saving /\ t.phase \in {"vault", "store", "charge"}

\* From the charge to the row an attempt has the charge to itself.
Charged(t) == t.phase \in {"complete", "insert"}

\* What a request knows is true of the tables: the copy of a method is at the
\* account of the vault, the key that is claimed has a record and no charge, and a
\* charge that is made has no row.
Sound(t) ==
    /\ t.copy.user # Nobody => OfVault(t.vault, t.copy.provider)
    /\ t.phase = "validate" => t.key.card \in VaultIds
    /\ t.phase = "vault" => t.key.card \in Tokens
    /\ t.phase \in {"validate", "begin", "charge"} => ~ t.saving
    /\ t.phase \in {"store", "updateMethod"} => OfVault(t.vault, t.at)
    /\ t.phase = "charge" \/ (t.phase = "begin" /\ t.key.card \notin Tokens) => t.copy.user # Nobody
    /\ t.phase = "vault" \/ (t.phase = "begin" /\ t.key.card \in Tokens) => t.copy.user = Nobody
    /\ Claiming(t) => /\ record[t.key] # "absent"
                      /\ \A i \in Indices(charges) : charges[i].key # t.key
    /\ Charged(t) => /\ t.charge \in Indices(charges)
                     /\ charges[t.charge].key = t.key
                     /\ charges[t.charge].vault = t.vault
                     /\ charges[t.charge].at = t.copy.provider
                     /\ \A i \in Indices(subs) : subs[i].charge # t.charge

Apart(s, t) ==
    /\ Claiming(s) /\ Claiming(t) => s.key # t.key
    /\ Charged(s) /\ Charged(t) => s.charge # t.charge

\* TypeOK without the bound on the rows, which follows from RowIsCharged.
Types ==
    /\ vaults \in Seq(Vault) /\ Len(vaults) <= MaxVaults
    /\ charges \in Seq(Charge) /\ Len(charges) <= MaxCharges
    /\ methods \in [VaultIds -> Method]
    /\ subs \in Seq(Row)
    /\ record \in [Keys -> {"absent", "pending", "success", "failed"}]
    /\ task \in [Requests -> Task]
    /\ faults \in 0..MaxFaults

ChargedIsRecorded == \A i \in Indices(charges) : record[charges[i].key] # "absent"

MethodsFit == \A v \in VaultIds :
    methods[v].user # Nobody => OfVault(v, methods[v].provider)

IInv ==
    /\ Types
    /\ OneChargePerKey
    /\ RowIsCharged
    /\ ChargedIsRecorded
    /\ MethodsFit
    /\ \A r \in Requests : Sound(task[r])
    /\ \A q, r \in Requests : q # r => Apart(task[q], task[r])

-----------------------------------------------------------------------------
(* Sequences                                                               *)

LEMMA Entries ==
    ASSUME NEW S, NEW s \in Seq(S)
    PROVE  /\ Len(s) \in Nat /\ DOMAIN s = 1..Len(s)
           /\ \A i \in DOMAIN s : i \in Nat \ {0} /\ i <= Len(s) /\ s[i] \in S
  BY LenProperties

LEMMA Appended ==
    ASSUME NEW S, NEW s \in Seq(S), NEW e \in S, NEW u, u = Append(s, e)
    PROVE  /\ u \in Seq(S) /\ Len(u) = Len(s) + 1
           /\ DOMAIN u = DOMAIN s \cup {Len(u)} /\ Len(u) \notin DOMAIN s
           /\ u[Len(u)] = e /\ \A i \in DOMAIN s : u[i] = s[i]
<1>1. Len(s) \in Nat /\ DOMAIN s = 1..Len(s)
  BY LenProperties
<1>2. u \in Seq(S) /\ Len(u) = Len(s) + 1
  OBVIOUS
<1>3. DOMAIN u = 1..Len(u)
  BY <1>2, LenProperties
<1> QED
  BY <1>1, <1>2, <1>3

LEMMA ChargeEntries ==
    ASSUME Types
    PROVE  \A i \in Indices(charges) : charges[i] \in Charge /\ i \in 1..MaxCharges
<1> USE CheckoutAssumption
<1> QED
  BY Entries DEF Types, Indices

\* A function on the indices of a sequence is a sequence of the same length.
LEMMA Rewritten ==
    ASSUME NEW S, NEW s \in Seq(S), NEW u \in [DOMAIN s -> S]
    PROVE  u \in Seq(S) /\ Len(u) = Len(s) /\ DOMAIN u = DOMAIN s
<1>1. Len(s) \in Nat /\ DOMAIN s = 1..Len(s)
  BY LenProperties
<1> QED
  BY <1>1

-----------------------------------------------------------------------------
(* What changes around a request                                           *)

NothingTaken ==
    /\ IInv
    /\ vaults' \in Seq(Vault) /\ Len(vaults') <= MaxVaults
    /\ \A v \in Indices(vaults) : v \in Indices(vaults') /\ vaults'[v].at = vaults[v].at
    /\ methods' \in [VaultIds -> Method] /\ MethodsFit'
    /\ record' \in [Keys -> {"absent", "pending", "success", "failed"}]
    /\ \A k \in Keys : record[k] # "absent" => record'[k] # "absent"
    /\ faults' \in 0..MaxFaults

\* The rows keep everything but their status, and their method may be gone.
SameRows ==
    /\ subs' \in Seq(Row) /\ Indices(subs') = Indices(subs)
    /\ \A i \in Indices(subs) :
          /\ subs'[i].key = subs[i].key /\ subs'[i].charge = subs[i].charge
          /\ subs'[i].provider = subs[i].provider
          /\ subs'[i].method \in {0, subs[i].method}

LEMMA Unchanged ==
    ASSUME Types, UNCHANGED <<vaults, methods, record, faults>>, IInv
    PROVE  NothingTaken
  BY DEF NothingTaken, IInv, Types, MethodsFit, OfVault, Indices

LEMMA UnchangedRows == ASSUME Types, UNCHANGED subs PROVE SameRows
  BY Entries DEF SameRows, Types, Indices, Row

\* Only the requests' tables change, and no charge is made: what a request knew
\* stays true.
LEMMA KnowledgeStays ==
    ASSUME NothingTaken, SameRows, UNCHANGED charges, NEW t \in Task, Sound(t)
    PROVE  Sound(t)'
<1>1. t.copy.user # Nobody => OfVault(t.vault, t.copy.provider)'
  BY DEF Sound, OfVault, NothingTaken
<1>2. t.phase \in {"store", "updateMethod"} => OfVault(t.vault, t.at)'
  BY DEF Sound, OfVault, NothingTaken
<1>3. t.key \in Keys
  BY DEF Task
<1>4. Claiming(t) => /\ record'[t.key] # "absent"
                     /\ \A i \in Indices(charges') : charges'[i].key # t.key
  BY <1>3 DEF Sound, NothingTaken
<1>5. Charged(t) => /\ t.charge \in Indices(charges')
                    /\ charges'[t.charge].key = t.key
                    /\ charges'[t.charge].vault = t.vault
                    /\ charges'[t.charge].at = t.copy.provider
                    /\ \A i \in Indices(subs') : subs'[i].charge # t.charge
  BY DEF Sound, SameRows
<1>6. /\ t.phase = "validate" => t.key.card \in VaultIds
      /\ t.phase = "vault" => t.key.card \in Tokens
      /\ t.phase \in {"validate", "begin", "charge"} => ~ t.saving
      /\ t.phase = "vault" \/ (t.phase = "begin" /\ t.key.card \in Tokens) => t.copy.user = Nobody
  BY DEF Sound
<1> QED
  BY <1>1, <1>2, <1>4, <1>5, <1>6 DEF Sound, Claiming, Charged

LEMMA TablesStay ==
    ASSUME NothingTaken, SameRows, UNCHANGED charges
    PROVE  OneChargePerKey' /\ RowIsCharged' /\ ChargedIsRecorded' /\ MethodsFit'
<1>1. OneChargePerKey'
  BY DEF NothingTaken, IInv, OneChargePerKey, Indices
<1>2. RowIsCharged'
  BY DEF NothingTaken, SameRows, IInv, RowIsCharged
<1>3. ChargedIsRecorded'
  <2>1. \A i \in Indices(charges) : charges[i].key \in Keys
    BY ChargeEntries DEF NothingTaken, IInv, Charge
  <2> QED
    BY <2>1 DEF NothingTaken, IInv, ChargedIsRecorded
<1> QED
  BY <1>1, <1>2, <1>3 DEF NothingTaken

-----------------------------------------------------------------------------
(* What a request does                                                     *)

\* A request that goes on to know only what is true, and that takes no key or
\* charge but a key nobody has used.
LEMMA RequestMoves ==
    ASSUME NothingTaken, SameRows, UNCHANGED charges,
           NEW r \in Requests, NEW t \in Task, task' = [task EXCEPT ![r] = t],
           Sound(t)',
           Claiming(t) => record[t.key] = "absent"
                            \/ (Claiming(task[r]) /\ t.key = task[r].key),
           Charged(t) => Charged(task[r]) /\ t.charge = task[r].charge
    PROVE  IInv'
<1>1. /\ task \in [Requests -> Task] /\ task' \in [Requests -> Task]
      /\ task'[r] = t /\ \A q \in Requests : q # r => task'[q] = task[q]
  BY DEF NothingTaken, IInv, Types
<1>2. Types'
  BY <1>1 DEF NothingTaken, IInv, Types, SameRows
<1>3. \A q \in Requests : Sound(task[q])'
  <2>1. ASSUME NEW q \in Requests, q # r PROVE Sound(task[q])'
    <3>1. PICK s \in Task : s = task[q]
      BY <1>1
    <3>2. Sound(s)
      BY <3>1 DEF NothingTaken, IInv
    <3>3. Sound(s)'
      BY <3>2, KnowledgeStays
    <3>4. s = task'[q]
      BY <1>1, <2>1, <3>1
    <3> QED
      BY <3>3, <3>4
  <2>2. Sound(task[r])'
    BY <1>1
  <2> QED
    BY <2>1, <2>2
<1>4. \A p, q \in Requests : p # q => Apart(task'[p], task'[q])
  <2>1. ASSUME NEW q \in Requests, q # r PROVE Apart(t, task[q]) /\ Apart(task[q], t)
    <3>1. Apart(task[r], task[q]) /\ Sound(task[q])
      BY <2>1 DEF NothingTaken, IInv
    <3> QED
      BY <3>1 DEF Apart, Sound
  <2>2. \A p, q \in Requests : p # q => Apart(task[p], task[q])
    BY DEF NothingTaken, IInv
  <2> QED
    BY <1>1, <2>1, <2>2
<1> QED
  BY <1>2, <1>3, <1>4, TablesStay DEF IInv, Apart, Claiming, Charged

LEMMA VaultIdsFit == \A v \in VaultIds : v \in 0..MaxVaults /\ v \notin Tokens
  BY CheckoutAssumption DEF VaultIds

LEMMA NoTaskIsTask == NoTask \in Task /\ NoMethod \in Method
<1>1. NoMethod \in Method
  BY CheckoutAssumption DEF NoMethod, Method
<1>2. VaultIds # {}
  BY CheckoutAssumption DEF VaultIds
<1>3. Keys # {}
  <2>1. PICK u \in Users, p \in Prices, v \in VaultIds : TRUE
    BY <1>2, CheckoutAssumption
  <2>2. [user |-> u, price |-> p, card |-> v] \in Keys
    BY DEF Keys, Cards
  <2> QED
    BY <2>2
<1>4. (CHOOSE k \in Keys : TRUE) \in Keys /\ (CHOOSE a \in Providers : TRUE) \in Providers
  BY <1>3, CheckoutAssumption
<1>5. 0 \in 0..MaxVaults /\ 0 \in 0..MaxCharges
  BY CheckoutAssumption
<1> QED
  BY <1>1, <1>4, <1>5 DEF NoTask, Task, Phase

LEMMA Ends ==
    ASSUME NothingTaken, SameRows, UNCHANGED charges, NEW r \in Requests, End(r)
    PROVE  IInv'
<1>1. PICK t \in Task : t = NoTask
  BY NoTaskIsTask
<1>2. t.copy.user = Nobody /\ t.phase = "idle"
  BY <1>1 DEF NoTask, NoMethod
<1>3. Sound(t)' /\ ~ Claiming(t) /\ ~ Charged(t)
  BY <1>2 DEF Sound, Claiming, Charged
<1>4. task' = [task EXCEPT ![r] = t]
  BY <1>1 DEF End
<1> QED
  BY <1>3, <1>4, RequestMoves

\* A phase in which a request needs to know nothing.
LEMMA Goes ==
    ASSUME NothingTaken, SameRows, UNCHANGED charges, NEW r \in Requests,
           NEW phase \in {"unstore", "fail", "cleanCheck", "cleanVault", "cleanMethod"},
           Go(r, phase)
    PROVE  IInv'
<1>1. task[r] \in Task /\ Sound(task[r])
  BY DEF NothingTaken, IInv, Types
<1>2. PICK t \in Task : t = [task[r] EXCEPT !.phase = phase]
  BY <1>1 DEF Task, Phase
<1>3. t \in Task /\ t.phase = phase /\ t.copy = task[r].copy /\ t.vault = task[r].vault
  BY <1>1, <1>2 DEF Task
<1>4. Sound(t)
  BY <1>1, <1>3 DEF Sound, Claiming, Charged
<1>5. Sound(t)' /\ ~ Claiming(t) /\ ~ Charged(t)
  BY <1>3, <1>4, KnowledgeStays DEF Claiming, Charged
<1>6. task' = [task EXCEPT ![r] = t]
  BY <1>2 DEF Go
<1> QED
  BY <1>3, <1>5, <1>6, RequestMoves

LEMMA Starts ==
    ASSUME IInv, UNCHANGED <<vaults, methods, record, faults, subs, charges>>,
           NEW r \in Requests, NEW t \in Task, task' = [task EXCEPT ![r] = t],
           Sound(t), ~ Claiming(t), ~ Charged(t)
    PROVE  IInv'
<1>1. NothingTaken /\ SameRows
  BY Unchanged, UnchangedRows DEF IInv
<1>2. Sound(t)'
  BY <1>1, KnowledgeStays
<1> QED
  BY <1>1, <1>2, RequestMoves

-----------------------------------------------------------------------------
(* What a step does to the tables                                          *)

LEMMA RecordGrows ==
    ASSUME IInv, UNCHANGED <<vaults, methods, faults>>, NEW k \in Keys,
           NEW s \in {"pending", "success", "failed"}, record' = [record EXCEPT ![k] = s]
    PROVE  NothingTaken
  BY DEF NothingTaken, IInv, Types, MethodsFit, OfVault, Indices

LEMMA VaultDropped ==
    ASSUME IInv, UNCHANGED <<methods, record>>, faults' \in 0..MaxFaults, NEW v, DropVault(v)
    PROVE  NothingTaken
<1>1. ASSUME NEW w \in Indices(vaults)
      PROVE  vaults'[w] \in Vault /\ vaults'[w].at = vaults[w].at
  <2>1. vaults[w] \in Vault
    BY Entries DEF IInv, Types, Indices
  <2> QED
    BY <2>1 DEF DropVault, Vault, Indices
<1>2. vaults' \in [DOMAIN vaults -> Vault]
  BY <1>1 DEF DropVault, Indices
<1>3. vaults' \in Seq(Vault) /\ Len(vaults') = Len(vaults) /\ Indices(vaults') = Indices(vaults)
  BY <1>2, Rewritten DEF IInv, Types, Indices
<1> QED
  BY <1>1, <1>3 DEF NothingTaken, IInv, Types, MethodsFit, OfVault

LEMMA VaultCreated ==
    ASSUME IInv, UNCHANGED <<methods, record>>, faults' \in 0..MaxFaults,
           Len(vaults) < MaxVaults, NEW v \in Vault, vaults' = Append(vaults, v)
    PROVE  /\ NothingTaken
           /\ Len(vaults') \in VaultIds /\ Len(vaults') \in Indices(vaults')
           /\ vaults'[Len(vaults')] = v
<1>1. /\ vaults' \in Seq(Vault) /\ Len(vaults') = Len(vaults) + 1
      /\ DOMAIN vaults' = DOMAIN vaults \cup {Len(vaults')}
      /\ vaults'[Len(vaults')] = v /\ \A i \in DOMAIN vaults : vaults'[i] = vaults[i]
  BY Appended DEF IInv, Types
<1>2. Len(vaults) \in Nat
  BY Entries DEF IInv, Types
<1>3. Len(vaults') \in VaultIds /\ Len(vaults') <= MaxVaults
  BY <1>1, <1>2, CheckoutAssumption DEF VaultIds
<1> QED
  BY <1>1, <1>3 DEF NothingTaken, IInv, Types, MethodsFit, OfVault, Indices

LEMMA MethodWritten ==
    ASSUME IInv, UNCHANGED <<vaults, record, faults>>, NEW v, NEW m \in Method,
           m.user # Nobody => OfVault(v, m.provider), methods' = [methods EXCEPT ![v] = m]
    PROVE  NothingTaken
<1>1. ASSUME NEW w \in VaultIds PROVE methods'[w] = IF w = v THEN m ELSE methods[w]
  BY DEF IInv, Types
<1>2. MethodsFit'
  BY <1>1 DEF IInv, MethodsFit, OfVault, Indices
<1> QED
  BY <1>2 DEF NothingTaken, IInv, Types, Indices

LEMMA Overwritten ==
    ASSUME IInv, UNCHANGED <<vaults, record, faults>>, NEW v, NEW m \in Method,
           m.user # Nobody => OfVault(v, m.provider), Overwrite(v, m)
    PROVE  NothingTaken
<1>1. CASE methods' = methods
  BY <1>1, Unchanged DEF IInv
<1>2. CASE methods' = [methods EXCEPT ![v] = m]
  BY <1>2, MethodWritten
<1> QED
  BY <1>1, <1>2 DEF Overwrite

-----------------------------------------------------------------------------
(* The steps                                                               *)

\* Steps that change nothing but their own task.
LEMMA Quietly ==
    ASSUME IInv, UNCHANGED <<vaults, methods, record, faults, subs, charges>>
    PROVE  NothingTaken /\ SameRows /\ UNCHANGED charges
  BY Unchanged, UnchangedRows DEF IInv

LEMMA FaultsBound ==
    ASSUME IInv, Fault \/ UNCHANGED faults
    PROVE  faults' \in 0..MaxFaults
  BY CheckoutAssumption DEF Fault, IInv, Types

LEMMA SubscribeKeeps ==
    ASSUME IInv, NEW r \in Requests, NEW k \in Keys, NEW a \in Providers, Subscribe(r, k, a)
    PROVE  IInv'
<1> DEFINE phase == IF k.card \in Tokens THEN "begin" ELSE "validate"
<1>1. PICK t \in Task : t = [NoTask EXCEPT !.phase = phase, !.key = k, !.at = a]
  BY NoTaskIsTask DEF Task, Phase
<1>2. t.copy.user = Nobody /\ t.phase = phase /\ t.key = k /\ ~ t.saving
  BY <1>1, NoTaskIsTask DEF NoTask, NoMethod, Task
<1>3. Sound(t) /\ ~ Claiming(t) /\ ~ Charged(t)
  BY <1>2 DEF Sound, Claiming, Charged, Keys, Cards
<1>4. /\ task' = [task EXCEPT ![r] = t]
      /\ UNCHANGED <<vaults, methods, record, faults, subs, charges>>
  BY <1>1 DEF Subscribe, Start
<1> QED
  BY <1>3, <1>4, Starts

LEMMA CreatePaymentMethodKeeps ==
    ASSUME IInv, NEW r \in Requests, NEW k \in Keys, NEW a \in Providers,
           CreatePaymentMethod(r, k, a)
    PROVE  IInv'
<1>1. PICK t \in Task : t = [NoTask EXCEPT !.phase = "vault", !.saving = TRUE, !.key = k, !.at = a]
  BY NoTaskIsTask DEF Task, Phase
<1>2. t.copy.user = Nobody /\ t.phase = "vault" /\ t.saving /\ t.key.card \in Tokens
  BY <1>1, NoTaskIsTask DEF NoTask, NoMethod, Task, CreatePaymentMethod
<1>3. Sound(t) /\ ~ Claiming(t) /\ ~ Charged(t)
  BY <1>2 DEF Sound, Claiming, Charged
<1>4. /\ task' = [task EXCEPT ![r] = t]
      /\ UNCHANGED <<vaults, methods, record, faults, subs, charges>>
  BY <1>1 DEF CreatePaymentMethod, Start
<1> QED
  BY <1>3, <1>4, Starts

\* The requests on one method start with a copy of it.
LEMMA MethodTask ==
    ASSUME IInv, NEW r \in Requests, NEW u \in Users, NEW v \in VaultIds, NEW a \in Providers,
           NEW phase \in {"update", "delete", "activate"}, OnMethod(r, phase, u, v, a)
    PROVE  \E t \in Task : /\ Start(r, t) /\ t.phase = phase /\ t.vault = v
                           /\ t.copy = methods[v] /\ ~ t.gone
<1>1. PICK m \in Method : m = methods[v]
  BY DEF IInv, Types
<1>2. PICK k \in Keys : k = [NoTask.key EXCEPT !.user = u]
  BY NoTaskIsTask DEF Task, Keys
<1>3. PICK x \in Task : x = [NoTask EXCEPT !.phase = phase]
  BY NoTaskIsTask DEF Task, Phase
<1>4. x.key = NoTask.key /\ x.phase = phase
  BY <1>3, NoTaskIsTask DEF Task
<1>5. PICK t \in Task : t = [x EXCEPT !.key = k, !.vault = v, !.at = a, !.copy = m]
  <2>1. v \in 0..MaxVaults
    BY VaultIdsFit
  <2>2. PICK y \in Task : y = [x EXCEPT !.key = k]
    BY DEF Task
  <2>3. PICK z \in Task : z = [y EXCEPT !.vault = v]
    BY <2>1 DEF Task
  <2>4. PICK p \in Task : p = [z EXCEPT !.at = a]
    BY DEF Task
  <2>5. PICK t \in Task : t = [p EXCEPT !.copy = m]
    BY DEF Task
  <2> QED
    BY <2>2, <2>3, <2>4, <2>5
<1>6. t.copy = m /\ t.phase = phase /\ t.vault = v /\ ~ t.gone
  BY <1>3, <1>4, <1>5, NoTaskIsTask DEF Task, NoTask
<1>7. Start(r, t)
  <2>1. [x EXCEPT !.key.user = u] = [x EXCEPT !.key = k]
    BY <1>2, <1>4
  <2> QED
    BY <1>1, <1>3, <1>5, <2>1 DEF OnMethod, Start
<1> QED
  BY <1>1, <1>6, <1>7

LEMMA OnMethodKeeps ==
    ASSUME IInv, NEW r \in Requests, NEW u \in Users, NEW v \in VaultIds, NEW a \in Providers,
           NEW phase \in {"update", "delete", "activate"}, OnMethod(r, phase, u, v, a),
           UNCHANGED <<vaults, charges, methods, subs, record, faults>>
    PROVE  IInv'
<1>1. PICK t \in Task : /\ Start(r, t) /\ t.phase = phase /\ t.vault = v
                       /\ t.copy = methods[v] /\ ~ t.gone
  BY MethodTask
<1>2. Sound(t) /\ ~ Claiming(t) /\ ~ Charged(t)
  BY <1>1 DEF Sound, Claiming, Charged, IInv, MethodsFit
<1> QED
  BY <1>1, <1>2, Starts DEF Start

\* Only the phase changes.
LEMMA PhaseChanges ==
    ASSUME IInv, NEW r \in Requests, NEW phase \in Phase, Go(r, phase)
    PROVE  \E t \in Task :
              /\ task' = [task EXCEPT ![r] = t]
              /\ t.phase = phase /\ t.saving = task[r].saving /\ t.key = task[r].key
              /\ t.at = task[r].at /\ t.vault = task[r].vault /\ t.charge = task[r].charge
              /\ t.copy = task[r].copy
<1>1. task[r] \in Task
  BY DEF IInv, Types
<1>2. PICK t \in Task : t = [task[r] EXCEPT !.phase = phase]
  BY <1>1 DEF Task
<1> QED
  BY <1>1, <1>2 DEF Go, Task

LEMMA ValidateKeeps == ASSUME IInv, NEW r \in Requests, Validate(r) PROVE IInv'
<1>1. NothingTaken /\ SameRows /\ UNCHANGED charges
  BY Quietly DEF Validate
<1>2. CASE End(r)
  BY <1>1, <1>2, Ends
<1>3. CASE ~ End(r)
  <2>1. /\ task[r] \in Task /\ task[r].key.card \in VaultIds /\ task[r].phase = "validate"
        /\ ~ task[r].saving
    BY DEF IInv, Types, Sound, Validate, Statement, At
  <2>2. PICK v \in VaultIds : v = task[r].key.card
    BY <2>1
  <2>3. PICK m \in Method : m = methods[v]
    BY DEF IInv, Types
  <2>4. PICK x \in Task : x = [task[r] EXCEPT !.phase = "begin"]
    BY <2>1 DEF Task, Phase
  <2>5. PICK y \in Task : y = [x EXCEPT !.vault = v]
    BY VaultIdsFit DEF Task
  <2>6. PICK t \in Task : t = [y EXCEPT !.copy = m]
    BY DEF Task
  <2>7. /\ t.phase = "begin" /\ t.vault = v /\ t.copy = m /\ t.key.card \notin Tokens
        /\ ~ t.saving
    BY <2>1, <2>4, <2>5, <2>6, VaultIdsFit DEF Task
  <2>8. task' = [task EXCEPT ![r] = t] /\ m.user = task[r].key.user
    BY <1>3, <2>2, <2>3, <2>4, <2>5, <2>6 DEF Validate, Usable
  <2>9. m.user # Nobody /\ OfVault(v, m.provider)
    BY <2>1, <2>3, <2>8, CheckoutAssumption DEF Task, Keys, IInv, MethodsFit
  <2>10. Sound(t) /\ ~ Claiming(t) /\ ~ Charged(t)
    BY <2>7, <2>9 DEF Sound, Claiming, Charged
  <2> QED
    BY <1>1, <2>8, <2>10, Starts DEF Validate
<1> QED
  BY <1>2, <1>3

LEMMA BeginKeeps == ASSUME IInv, NEW r \in Requests, Begin(r) PROVE IInv'
<1>1. task[r] \in Task /\ task[r].phase = "begin" /\ Sound(task[r])
  BY DEF IInv, Types, Begin, Statement, At
<1>2. PICK k \in Keys : k = task[r].key
  BY <1>1 DEF Task
<1>3. CASE record[k] = "absent"
  <2> DEFINE phase == IF k.card \in Tokens THEN "vault" ELSE "charge"
  <2>1. /\ record' = [record EXCEPT ![k] = "pending"] /\ Go(r, phase)
        /\ UNCHANGED <<vaults, methods, faults, subs, charges>>
    BY <1>2, <1>3 DEF Begin
  <2>2. NothingTaken /\ SameRows /\ UNCHANGED charges
    BY <2>1, RecordGrows, UnchangedRows DEF IInv
  <2>3. phase \in Phase
    BY DEF Phase
  <2>4. PICK t \in Task :
              /\ task' = [task EXCEPT ![r] = t]
              /\ t.phase = phase /\ t.key = k /\ ~ t.saving
              /\ t.vault = task[r].vault /\ t.copy = task[r].copy
    BY <1>1, <1>2, <2>1, <2>3, PhaseChanges DEF Sound
  <2>5. record'[k] = "pending" /\ \A i \in Indices(charges') : charges'[i].key # k
    BY <1>3, <2>1 DEF IInv, Types, ChargedIsRecorded, Indices
  <2>6. t.copy.user # Nobody => OfVault(t.vault, t.copy.provider)'
    BY <1>1, <2>1, <2>4 DEF Sound, OfVault, Indices
  <2>7. IF phase = "charge" THEN task[r].copy.user # Nobody ELSE task[r].copy.user = Nobody
    BY <1>1, <1>2 DEF Sound
  <2>8. Sound(t)' /\ ~ Charged(t)
    BY <1>2, <2>4, <2>5, <2>6, <2>7 DEF Sound, Claiming, Charged, OfVault, Indices
  <2> QED
    BY <1>3, <2>2, <2>4, <2>8, RequestMoves
<1>4. CASE record[k] # "absent"
  <2>1. End(r) /\ UNCHANGED <<vaults, methods, record, faults, subs, charges>>
    BY <1>2, <1>4 DEF Begin
  <2> QED
    BY <2>1, Quietly, Ends
<1> QED
  BY <1>3, <1>4

LEMMA CreateVaultKeeps == ASSUME IInv, NEW r \in Requests, CreateVault(r) PROVE IInv'
<1>1. /\ task[r] \in Task /\ task[r].phase = "vault" /\ Sound(task[r])
      /\ UNCHANGED <<charges, methods, subs, record>> /\ SameRows
  BY UnchangedRows DEF IInv, Types, CreateVault, At
<1>2. CASE End(r) /\ UNCHANGED <<vaults, faults>>
  BY <1>1, <1>2, Quietly, Ends
<1>3. ASSUME Len(vaults) < MaxVaults, NEW v \in Vault, v.at = task[r].at,
             vaults' = Append(vaults, v), faults' \in 0..MaxFaults,
             \/ task' = [task EXCEPT ![r].phase = "store", ![r].vault = Len(vaults')]
             \/ End(r)
      PROVE  IInv'
  <2>1. /\ NothingTaken
        /\ Len(vaults') \in VaultIds /\ Len(vaults') \in Indices(vaults')
        /\ vaults'[Len(vaults')] = v
    BY <1>1, <1>3, VaultCreated
  <2>2. CASE End(r)
    BY <1>1, <2>1, <2>2, Ends
  <2>3. CASE task' = [task EXCEPT ![r].phase = "store", ![r].vault = Len(vaults')]
    <3>1. PICK n \in VaultIds : n = Len(vaults')
      BY <2>1
    <3>2. PICK x \in Task : x = [task[r] EXCEPT !.phase = "store"]
      BY <1>1 DEF Task, Phase
    <3>3. PICK t \in Task : t = [x EXCEPT !.vault = n]
      BY VaultIdsFit DEF Task
    <3>4. /\ t.phase = "store" /\ t.vault = n /\ t.copy = task[r].copy /\ t.key = task[r].key
          /\ t.at = task[r].at /\ t.saving = task[r].saving
      BY <1>1, <3>2, <3>3 DEF Task
    <3>5. task' = [task EXCEPT ![r] = t]
      BY <2>3, <3>1, <3>2, <3>3
    <3>6. t.copy.user = Nobody /\ OfVault(n, t.at)'
      BY <1>1, <1>3, <2>1, <3>1, <3>4 DEF Sound, OfVault
    <3>7. Claiming(t) => Claiming(task[r])
      BY <1>1, <3>4 DEF Claiming
    <3>8. Claiming(t) => /\ record'[t.key] # "absent"
                         /\ \A i \in Indices(charges') : charges'[i].key # t.key
      BY <1>1, <3>4, <3>7 DEF Sound, Indices
    <3>9. Sound(t)' /\ ~ Charged(t)
      BY <3>4, <3>6, <3>8 DEF Sound, Claiming, Charged, OfVault, Indices
    <3> QED
      BY <1>1, <2>1, <3>4, <3>5, <3>7, <3>9, RequestMoves
  <2> QED
    BY <1>3, <2>2, <2>3
<1>4. PICK v \in Vault : v = [user |-> task[r].key.user, at |-> task[r].at,
                             token |-> task[r].key.card, live |-> TRUE]
  BY <1>1 DEF Task, Keys, Vault, Sound
<1>5. CASE /\ Len(vaults) < MaxVaults /\ vaults' = Append(vaults, v)
           /\ \/ /\ task' = [task EXCEPT ![r].phase = "store", ![r].vault = Len(vaults')]
                 /\ UNCHANGED faults
              \/ Fault /\ End(r)
  <2>1. faults' \in 0..MaxFaults
    BY <1>5, FaultsBound
  <2>2. v.at = task[r].at
    BY <1>4
  <2> QED
    BY <1>3, <1>5, <2>1, <2>2
<1> QED
  BY <1>2, <1>4, <1>5 DEF CreateVault

LEMMA StoreMethodKeeps == ASSUME IInv, NEW r \in Requests, StoreMethod(r) PROVE IInv'
<1>1. /\ task[r] \in Task /\ task[r].phase = "store" /\ Sound(task[r])
      /\ UNCHANGED <<vaults, charges, subs, record, faults>> /\ SameRows
  BY UnchangedRows DEF IInv, Types, StoreMethod, Statement, At
<1>2. PICK m \in Method :
             m = [user |-> task[r].key.user, provider |-> task[r].at, active |-> TRUE]
  BY <1>1 DEF Task, Keys, Method
<1>3. PICK v : v = task[r].vault
  OBVIOUS
<1>4. OfVault(v, m.provider) /\ m.user # Nobody
  BY <1>1, <1>2, <1>3, CheckoutAssumption DEF Sound, Task, Keys
<1>5. methods' = [methods EXCEPT ![v] = m]
  BY <1>2, <1>3 DEF StoreMethod
<1>6. NothingTaken
  BY <1>1, <1>4, <1>5, MethodWritten
<1>7. CASE End(r)
  BY <1>1, <1>6, <1>7, Ends
<1>8. CASE ~ task[r].saving /\ task' = [task EXCEPT ![r].phase = "charge", ![r].copy = m]
  <2>1. PICK x \in Task : x = [task[r] EXCEPT !.phase = "charge"]
    BY <1>1 DEF Task, Phase
  <2>2. PICK t \in Task : t = [x EXCEPT !.copy = m]
    BY DEF Task
  <2>3. /\ t.phase = "charge" /\ t.copy = m /\ t.key = task[r].key /\ t.vault = v
        /\ ~ t.saving
        /\ Claiming(task[r])
    BY <1>1, <1>3, <1>8, <2>1, <2>2 DEF Task, Claiming
  <2>4. task' = [task EXCEPT ![r] = t]
    BY <1>8, <2>1, <2>2
  <2>5. Sound(t)
    BY <1>1, <1>4, <2>3 DEF Sound, Claiming, Charged
  <2>6. Sound(t)' /\ ~ Charged(t)
    BY <1>1, <1>6, <2>3, <2>5, KnowledgeStays DEF Charged
  <2> QED
    BY <1>1, <1>6, <2>3, <2>4, <2>6, RequestMoves
<1> QED
  BY <1>2, <1>7, <1>8 DEF StoreMethod

LEMMA UnstoreKeeps == ASSUME IInv, NEW r \in Requests, Unstore(r) PROVE IInv'
<1>1. /\ UNCHANGED <<charges, methods, subs, record>> /\ SameRows /\ End(r)
      /\ faults' \in 0..MaxFaults
  BY UnchangedRows, FaultsBound DEF IInv, Unstore
<1>2. NothingTaken
  <2>1. CASE DropVault(task[r].vault)
    BY <1>1, <2>1, VaultDropped
  <2>2. CASE UNCHANGED vaults
    BY <1>1, <2>2 DEF NothingTaken, IInv, Types, MethodsFit, OfVault, Indices
  <2> QED
    BY <2>1, <2>2 DEF Unstore
<1> QED
  BY <1>1, <1>2, Ends

LEMMA GoesToInsert ==
    ASSUME NothingTaken, SameRows, UNCHANGED charges, NEW r \in Requests,
           task[r].phase = "complete", Go(r, "insert")
    PROVE  IInv'
<1>1. Sound(task[r]) /\ IInv /\ "insert" \in Phase
  BY DEF NothingTaken, IInv, Phase
<1>2. PICK t \in Task :
          /\ task' = [task EXCEPT ![r] = t]
          /\ t.phase = "insert" /\ t.key = task[r].key /\ t.at = task[r].at
          /\ t.vault = task[r].vault /\ t.charge = task[r].charge /\ t.copy = task[r].copy
  BY <1>1, PhaseChanges
<1>3. Sound(t) /\ ~ Claiming(t) /\ Charged(task[r])
  BY <1>1, <1>2 DEF Sound, Claiming, Charged
<1>4. Sound(t)'
  BY <1>3, KnowledgeStays
<1> QED
  BY <1>2, <1>3, <1>4, RequestMoves

LEMMA CompleteRecordKeeps == ASSUME IInv, NEW r \in Requests, CompleteRecord(r) PROVE IInv'
<1>1. /\ UNCHANGED <<vaults, charges, methods, subs, faults>> /\ SameRows
      /\ task[r].phase = "complete" /\ Go(r, "insert")
  BY UnchangedRows DEF IInv, CompleteRecord, Statement, At
<1>2. PICK k \in Keys : k = task[r].key
  BY DEF IInv, Types, Task
<1>3. NothingTaken
  BY <1>1, <1>2, RecordGrows DEF CompleteRecord
<1> QED
  BY <1>1, <1>3, GoesToInsert

LEMMA AfterFailureKeeps ==
    ASSUME NothingTaken, SameRows, UNCHANGED charges, NEW r \in Requests, AfterFailure(r)
    PROVE  IInv'
  BY Ends, Goes DEF AfterFailure

LEMMA FailRecordKeeps == ASSUME IInv, NEW r \in Requests, FailRecord(r) PROVE IInv'
<1>1. UNCHANGED <<vaults, charges, methods, subs, faults>> /\ SameRows /\ AfterFailure(r)
  BY UnchangedRows DEF IInv, FailRecord
<1>2. PICK k \in Keys : k = task[r].key
  BY DEF IInv, Types, Task
<1>3. NothingTaken
  BY <1>1, <1>2, RecordGrows DEF FailRecord
<1> QED
  BY <1>1, <1>3, AfterFailureKeeps

LEMMA CheckUseKeeps == ASSUME IInv, NEW r \in Requests, CheckUse(r) PROVE IInv'
  BY Quietly, Ends, Goes DEF CheckUse

LEMMA CleanVaultKeeps == ASSUME IInv, NEW r \in Requests, CleanVault(r) PROVE IInv'
<1>1. /\ UNCHANGED <<charges, methods, subs, record>> /\ SameRows
      /\ Go(r, "cleanMethod") \/ End(r)
      /\ faults' \in 0..MaxFaults
  BY UnchangedRows, FaultsBound DEF IInv, CleanVault
<1>2. NothingTaken
  <2>1. CASE DropVault(task[r].vault)
    BY <1>1, <2>1, VaultDropped
  <2>2. CASE UNCHANGED vaults
    BY <1>1, <2>2 DEF NothingTaken, IInv, Types, MethodsFit, OfVault, Indices
  <2> QED
    BY <2>1, <2>2 DEF CleanVault
<1> QED
  BY <1>1, <1>2, Ends, Goes

LEMMA CleanMethodKeeps == ASSUME IInv, NEW r \in Requests, CleanMethod(r) PROVE IInv'
<1>1. /\ task[r] \in Task /\ Sound(task[r])
      /\ UNCHANGED <<vaults, charges, subs, record, faults>> /\ SameRows /\ End(r)
  BY UnchangedRows DEF IInv, Types, CleanMethod
<1>2. PICK m \in Method : m = [task[r].copy EXCEPT !.active = FALSE]
  BY <1>1 DEF Task, Method
<1>3. m.user # Nobody => OfVault(task[r].vault, m.provider)
  BY <1>1, <1>2 DEF Sound, Task, Method
<1>4. NothingTaken
  BY <1>1, <1>2, <1>3, Overwritten DEF CleanMethod
<1> QED
  BY <1>1, <1>4, Ends

LEMMA UpdateVaultKeeps == ASSUME IInv, NEW r \in Requests, UpdateVault(r) PROVE IInv'
<1>1. UNCHANGED <<vaults, charges, methods, subs, record, faults>>
  BY DEF UpdateVault
<1>2. CASE End(r)
  BY <1>1, <1>2, Quietly, Ends
<1>3. CASE Reachable(task[r].vault, task[r].at) /\ Go(r, "updateMethod")
  <2>1. "updateMethod" \in Phase
    BY DEF Phase
  <2>2. PICK t \in Task :
          /\ task' = [task EXCEPT ![r] = t]
          /\ t.phase = "updateMethod" /\ t.key = task[r].key /\ t.at = task[r].at
          /\ t.vault = task[r].vault /\ t.charge = task[r].charge /\ t.copy = task[r].copy
    BY <1>3, <2>1, PhaseChanges
  <2>3. Sound(task[r]) /\ OfVault(t.vault, t.at)
    BY <1>3, <2>2 DEF IInv, Reachable, OfVault, Indices
  <2>4. Sound(t) /\ ~ Claiming(t) /\ ~ Charged(t)
    BY <2>2, <2>3 DEF Sound, Claiming, Charged
  <2> QED
    BY <1>1, <2>2, <2>4, Starts
<1> QED
  BY <1>2, <1>3 DEF UpdateVault

LEMMA UpdateMethodKeeps == ASSUME IInv, NEW r \in Requests, UpdateMethod(r) PROVE IInv'
<1>1. /\ task[r] \in Task /\ Sound(task[r]) /\ task[r].phase = "updateMethod"
      /\ UNCHANGED <<vaults, charges, subs, record, faults>> /\ SameRows /\ End(r)
  BY UnchangedRows DEF IInv, Types, UpdateMethod, Statement, At
<1>2. PICK x \in Method : x = [task[r].copy EXCEPT !.provider = task[r].at]
  BY <1>1 DEF Task, Method
<1>3. PICK m \in Method : m = [x EXCEPT !.active = TRUE]
  BY DEF Method
<1>4. m.provider = task[r].at
  BY <1>1, <1>2, <1>3 DEF Task, Method
<1>5. OfVault(task[r].vault, m.provider)
  BY <1>1, <1>4 DEF Sound
<1>6. Overwrite(task[r].vault, m)
  BY <1>2, <1>3 DEF UpdateMethod
<1>7. NothingTaken
  BY <1>1, <1>5, <1>6, Overwritten
<1> QED
  BY <1>1, <1>7, Ends

LEMMA DeleteMethodKeeps == ASSUME IInv, NEW r \in Requests, DeleteMethod(r) PROVE IInv'
<1>1. UNCHANGED <<vaults, charges, record, faults>> /\ End(r)
  BY DEF DeleteMethod
<1>2. NothingTaken
  <2>1. PICK m \in Method : m = NoMethod
    BY NoTaskIsTask
  <2>2. m.user = Nobody
    BY <2>1 DEF NoMethod
  <2> QED
    BY <1>1, <2>1, <2>2, MethodWritten DEF DeleteMethod
<1>3. SameRows
  <2>1. ASSUME NEW i \in Indices(subs)
        PROVE  /\ subs'[i] \in Row
               /\ subs'[i].key = subs[i].key /\ subs'[i].charge = subs[i].charge
               /\ subs'[i].provider = subs[i].provider
               /\ subs'[i].method \in {0, subs[i].method}
    <3>1. subs[i] \in Row /\ 0 \in 0..MaxVaults
      BY Entries, CheckoutAssumption DEF IInv, Types, Indices
    <3>2. PICK x \in Row : x = [subs[i] EXCEPT !.method = 0]
      BY <3>1 DEF Row
    <3>3. subs'[i] = IF subs[i].method = task[r].vault THEN x ELSE subs[i]
      BY <3>2 DEF DeleteMethod
    <3> QED
      BY <3>1, <3>2, <3>3 DEF Row
  <2>2. subs' \in [DOMAIN subs -> Row]
    BY <2>1 DEF DeleteMethod, Indices
  <2>3. subs' \in Seq(Row) /\ Indices(subs') = Indices(subs)
    BY <2>2, Rewritten DEF IInv, Types, Indices
  <2> QED
    BY <2>1, <2>3 DEF SameRows
<1> QED
  BY <1>1, <1>2, <1>3, Ends

LEMMA ActivateKeeps == ASSUME IInv, NEW r \in Requests, Activate(r) PROVE IInv'
<1>1. UNCHANGED <<vaults, charges, methods, subs, record, faults>> /\ End(r)
  BY DEF Activate, Usable
<1> QED
  BY <1>1, Quietly, Ends

LEMMA StatementFailsKeeps == ASSUME IInv, NEW r \in Requests, StatementFails(r) PROVE IInv'
<1>1. NothingTaken /\ SameRows /\ UNCHANGED charges
  BY Quietly DEF StatementFails
<1>2. CASE task[r].phase = "store"
  BY <1>1, <1>2, Goes DEF StatementFails, At
<1>3. CASE task[r].phase = "complete"
  BY <1>1, <1>3, GoesToInsert DEF StatementFails, At
<1>4. CASE task[r].phase = "fail"
  BY <1>1, <1>4, AfterFailureKeeps DEF StatementFails, At
<1>5. CASE task[r].phase \notin {"store", "complete", "fail"}
  BY <1>1, <1>5, Ends DEF StatementFails, At
<1> QED
  BY <1>2, <1>3, <1>4, <1>5

LEMMA DisconnectKeeps == ASSUME IInv, NEW r \in Requests, Disconnect(r) PROVE IInv'
<1>1. /\ UNCHANGED <<vaults, charges, methods, subs, record>> /\ SameRows
      /\ faults' \in 0..MaxFaults
  BY UnchangedRows, FaultsBound DEF IInv, Disconnect
<1>2. NothingTaken
  BY <1>1 DEF NothingTaken, IInv, Types, MethodsFit, OfVault, Indices
<1>3. task[r] \in Task /\ Sound(task[r])
  BY DEF IInv, Types
<1>4. PICK t \in Task : t = [task[r] EXCEPT !.gone = TRUE]
  BY <1>3 DEF Task
<1>5. /\ t.phase = task[r].phase /\ t.saving = task[r].saving /\ t.key = task[r].key
      /\ t.at = task[r].at /\ t.vault = task[r].vault /\ t.charge = task[r].charge
      /\ t.copy = task[r].copy
  BY <1>3, <1>4 DEF Task
<1>6. Sound(t) /\ (Claiming(t) => Claiming(task[r])) /\ (Charged(t) => Charged(task[r]))
  BY <1>3, <1>5 DEF Sound, Claiming, Charged
<1>7. Sound(t)'
  BY <1>1, <1>2, <1>6, KnowledgeStays
<1>8. task' = [task EXCEPT ![r] = t]
  BY <1>4 DEF Disconnect
<1> QED
  BY <1>1, <1>2, <1>5, <1>6, <1>7, <1>8, RequestMoves

LEMMA CrashKeeps == ASSUME IInv, NEW r \in Requests, Crash(r) PROVE IInv'
<1>1. /\ UNCHANGED <<vaults, charges, methods, subs, record>> /\ SameRows
      /\ faults' \in 0..MaxFaults /\ End(r)
  BY UnchangedRows, FaultsBound DEF IInv, Crash
<1>2. NothingTaken
  BY <1>1 DEF NothingTaken, IInv, Types, MethodsFit, OfVault, Indices
<1> QED
  BY <1>1, <1>2, Ends

LEMMA StatusKeeps ==
    ASSUME IInv, UNCHANGED <<vaults, charges, methods, record, task, faults>>,
           NEW i \in Indices(subs), NEW status \in {"active", "ended"},
           subs' = [subs EXCEPT ![i].status = status]
    PROVE  IInv'
<1>1. NothingTaken
  BY Unchanged DEF IInv
<1>2. SameRows
  <2>0. subs[i] \in Row
    BY Entries DEF IInv, Types, Indices
  <2>1. PICK x \in Row : x = [subs[i] EXCEPT !.status = status]
    BY <2>0 DEF Row
  <2>2. ASSUME NEW j \in Indices(subs)
        PROVE  /\ subs'[j] \in Row
               /\ subs'[j].key = subs[j].key /\ subs'[j].charge = subs[j].charge
               /\ subs'[j].provider = subs[j].provider
               /\ subs'[j].method \in {0, subs[j].method}
    <3>1. subs[j] \in Row
      BY Entries DEF IInv, Types, Indices
    <3>2. subs'[j] = IF i = j THEN x ELSE subs[j]
      BY <2>1 DEF Indices
    <3> QED
      BY <2>0, <2>1, <3>1, <3>2 DEF Row
  <2>3. subs' \in [DOMAIN subs -> Row]
    BY <2>2 DEF Indices
  <2>4. subs' \in Seq(Row) /\ Indices(subs') = Indices(subs)
    BY <2>3, Rewritten DEF IInv, Types, Indices
  <2> QED
    BY <2>2, <2>4 DEF SameRows
<1>3. \A r \in Requests : Sound(task[r])'
  <2>1. ASSUME NEW r \in Requests PROVE Sound(task[r])'
    <3>1. PICK t \in Task : t = task[r]
      BY DEF IInv, Types
    <3>2. Sound(t)'
      BY <1>1, <1>2, <3>1, KnowledgeStays DEF IInv
    <3> QED
      BY <3>1, <3>2
  <2> QED
    BY <2>1
<1> QED
  BY <1>1, <1>2, <1>3, TablesStay
     DEF IInv, Types, NothingTaken, SameRows, Apart, Claiming, Charged

\* A new recurring subscription: the request that made it gives up its claim on
\* the key for the charge, and no other request has either.
LEMMA ChargeVaultKeeps == ASSUME IInv, NEW r \in Requests, ChargeVault(r) PROVE IInv'
<1>1. /\ task[r] \in Task /\ Sound(task[r]) /\ task[r].phase = "charge"
      /\ UNCHANGED <<vaults, methods, subs, record>> /\ SameRows
  BY UnchangedRows DEF IInv, Types, ChargeVault, At
<1>2. CASE Go(r, "fail") /\ UNCHANGED <<charges, faults>>
  BY <1>1, <1>2, Quietly, Goes
<1>3. PICK n : n = Len(charges')
  OBVIOUS
<1>4. PICK c : c = [key |-> task[r].key, vault |-> task[r].vault, at |-> task[r].at]
  OBVIOUS
<1>5. CASE /\ Reachable(task[r].vault, task[r].at) /\ Len(charges) < MaxCharges
           /\ charges' = Append(charges, c)
           /\ \/ /\ task' = [task EXCEPT ![r].phase = "complete", ![r].charge = n]
                 /\ UNCHANGED faults
              \/ Fault /\ Go(r, "fail")
  <2>1. /\ OfVault(task[r].vault, task[r].at) /\ OfVault(task[r].vault, task[r].copy.provider)
        /\ Claiming(task[r])
    BY <1>1, <1>5 DEF Sound, Reachable, OfVault, Indices, Claiming
  <2>2. c \in Charge
    <3>1. task[r].vault \in VaultIds
      BY <2>1, Entries, CheckoutAssumption DEF OfVault, Indices, VaultIds, IInv, Types
    <3> QED
      BY <1>1, <1>4, <3>1 DEF Task, Charge
  <2>3. /\ charges' \in Seq(Charge) /\ n = Len(charges) + 1
        /\ Indices(charges') = Indices(charges) \cup {n} /\ n \notin Indices(charges)
        /\ charges'[n] = c /\ \A i \in Indices(charges) : charges'[i] = charges[i]
    BY <1>3, <1>5, <2>2, Appended DEF IInv, Types, Indices
  <2>4. n \in 0..MaxCharges /\ Len(charges') <= MaxCharges
    BY <1>3, <1>5, <2>3, Entries, CheckoutAssumption DEF IInv, Types
  <2>5. PICK t \in Task :
              /\ task' = [task EXCEPT ![r] = t]
              /\ \/ /\ t.phase = "complete" /\ t.charge = n /\ t.key = task[r].key
                    /\ t.vault = task[r].vault
                 \/ t.phase = "fail" /\ t.vault = task[r].vault
              /\ t.copy = task[r].copy
    <3>1. CASE Go(r, "fail")
      <4>1. "fail" \in Phase
        BY DEF Phase
      <4> QED
        BY <3>1, <4>1, PhaseChanges
    <3>2. CASE task' = [task EXCEPT ![r].phase = "complete", ![r].charge = n]
      <4>1. PICK x \in Task : x = [task[r] EXCEPT !.phase = "complete"]
        BY <1>1 DEF Task, Phase
      <4>2. PICK t \in Task : t = [x EXCEPT !.charge = n]
        BY <2>4 DEF Task
      <4>3. /\ t.phase = "complete" /\ t.charge = n /\ t.key = task[r].key
            /\ t.vault = task[r].vault /\ t.copy = task[r].copy
        BY <1>1, <4>1, <4>2 DEF Task
      <4>4. task' = [task EXCEPT ![r] = t]
        BY <3>2, <4>1, <4>2
      <4> QED
        BY <4>3, <4>4
    <3> QED
      BY <1>5, <3>1, <3>2
  <2>6. /\ task' \in [Requests -> Task] /\ task'[r] = t
        /\ \A q \in Requests : q # r => task'[q] = task[q]
    BY <2>5 DEF IInv, Types
  <2>7. Types'
    BY <1>1, <1>5, <2>3, <2>4, <2>6, FaultsBound DEF IInv, Types
  <2>8. OneChargePerKey'
    <3>1. \A i \in Indices(charges) : charges[i].key # c.key
      BY <1>1, <1>4, <2>1 DEF Sound
    <3> QED
      BY <2>3, <3>1 DEF IInv, OneChargePerKey
  <2>9. RowIsCharged'
    BY <1>1, <2>3 DEF IInv, RowIsCharged
  <2>10. ChargedIsRecorded'
    BY <1>1, <1>4, <2>1, <2>3 DEF IInv, ChargedIsRecorded, Sound
  <2>11. MethodsFit'
    BY <1>1 DEF IInv, MethodsFit, OfVault, Indices
  <2>12. \A i \in Indices(subs) : subs[i].charge \in Indices(charges)
    BY DEF IInv, RowIsCharged
  <2>13. Sound(t)' /\ ~ Claiming(t) /\ (Charged(t) => t.charge = n)
    <3>1. t.copy.user # Nobody => OfVault(t.vault, t.copy.provider)'
      BY <1>1, <2>5 DEF Sound, OfVault, Indices
    <3>2. Charged(t) => /\ t.charge = n /\ n \in Indices(charges')
                        /\ charges'[n].key = t.key /\ charges'[n].vault = t.vault
                        /\ charges'[n].at = t.copy.provider
                        /\ \A i \in Indices(subs') : subs'[i].charge # n
      <4>1. c.key = task[r].key /\ c.vault = task[r].vault /\ c.at = task[r].copy.provider
        BY <1>4, <2>1 DEF OfVault
      <4>2. \A i \in Indices(subs') : subs'[i].charge # n
        BY <1>1, <2>3, <2>12 DEF Indices
      <4> QED
        BY <2>3, <2>5, <4>1, <4>2 DEF Charged
    <3> QED
      BY <2>5, <3>1, <3>2 DEF Sound, Claiming, Charged
  <2>14. ASSUME NEW q \in Requests, q # r
         PROVE  Sound(task[q])' /\ Apart(t, task[q]) /\ Apart(task[q], t)
    <3>1. PICK s \in Task : s = task[q] /\ s = task'[q]
      BY <2>6, <2>14 DEF IInv, Types
    <3>2. Sound(s) /\ Apart(s, task[r])
      BY <2>14, <3>1 DEF IInv
    <3>3. Claiming(s) => s.key # c.key
      BY <1>4, <2>1, <3>2 DEF Apart
    <3>4. Charged(s) => s.charge \in Indices(charges) /\ s.charge # n
      BY <2>3, <3>2 DEF Sound
    <3>5. Sound(s)'
      BY <1>1, <2>3, <3>2, <3>3, <3>4 DEF Sound, Claiming, Charged, OfVault, Indices
    <3> QED
      BY <2>13, <3>1, <3>4, <3>5 DEF Apart
  <2>15. \A q \in Requests : Sound(task[q])'
    <3>1. Sound(task[r])'
      BY <2>6, <2>13
    <3> QED
      BY <2>14, <3>1
  <2>16. \A p, q \in Requests : p # q => Apart(task'[p], task'[q])
    <3>1. \A p, q \in Requests : p # q => Apart(task[p], task[q])
      BY DEF IInv
    <3> QED
      BY <2>6, <2>14, <3>1
  <2> QED
    BY <2>7, <2>8, <2>9, <2>10, <2>11, <2>15, <2>16 DEF IInv, Apart, Claiming, Charged
<1> QED
  BY <1>2, <1>3, <1>4, <1>5 DEF ChargeVault

LEMMA InsertRowKeeps == ASSUME IInv, NEW r \in Requests, InsertRow(r) PROVE IInv'
<1>1. /\ task[r] \in Task /\ Sound(task[r]) /\ Charged(task[r])
      /\ UNCHANGED <<vaults, charges, methods, record, faults>> /\ End(r)
  BY DEF IInv, Types, InsertRow, Statement, At, Charged
<1>2. CASE UNCHANGED subs
  BY <1>1, <1>2, Quietly, Ends
<1>3. PICK x : x = [key |-> task[r].key, method |-> task[r].vault, charge |-> task[r].charge,
                    provider |-> task[r].copy.provider, status |-> "pending"]
  OBVIOUS
<1>4. CASE subs' = Append(subs, x)
  <2>1. x \in Row
    <3>1. task[r].charge \in 1..MaxCharges
      BY <1>1, ChargeEntries DEF Sound, IInv
    <3> QED
      BY <1>1, <1>3, <3>1 DEF Task, Method, Row
  <2>2. PICK n : n = Len(subs')
    OBVIOUS
  <2>3. /\ subs' \in Seq(Row) /\ Indices(subs') = Indices(subs) \cup {n}
        /\ n \notin Indices(subs) /\ subs'[n] = x
        /\ \A i \in Indices(subs) : subs'[i] = subs[i]
    BY <1>4, <2>1, <2>2, Appended DEF IInv, Types, Indices
  <2>4. PICK t \in Task : t = NoTask
    BY NoTaskIsTask
  <2>5. t.copy.user = Nobody /\ t.phase = "idle"
    BY <2>4 DEF NoTask, NoMethod
  <2>6. Sound(t)' /\ ~ Claiming(t) /\ ~ Charged(t)
    BY <2>5 DEF Sound, Claiming, Charged
  <2>7. /\ task' \in [Requests -> Task] /\ task'[r] = t
        /\ \A q \in Requests : q # r => task'[q] = task[q]
    BY <1>1, <2>4 DEF IInv, Types, End
  <2>8. Types'
    BY <1>1, <2>3, <2>7 DEF IInv, Types
  <2>9. RowIsCharged'
    <3>1. /\ x.charge \in Indices(charges)
          /\ charges[x.charge].key = x.key /\ charges[x.charge].at = x.provider
          /\ charges[x.charge].vault = x.method
          /\ \A i \in Indices(subs) : subs[i].charge # x.charge
      BY <1>1, <1>3 DEF Sound
    <3> QED
      BY <1>1, <2>3, <3>1 DEF IInv, RowIsCharged, Indices
  <2>10. OneChargePerKey' /\ ChargedIsRecorded' /\ MethodsFit'
    <3>1. OneChargePerKey' /\ ChargedIsRecorded'
      BY <1>1 DEF IInv, OneChargePerKey, ChargedIsRecorded, Indices
    <3>2. MethodsFit'
      BY <1>1 DEF IInv, MethodsFit, OfVault
    <3> QED
      BY <3>1, <3>2
  <2>11. ASSUME NEW q \in Requests, q # r PROVE Sound(task[q])'
    <3>1. PICK s \in Task : s = task[q] /\ s = task'[q]
      BY <2>7, <2>11 DEF IInv, Types
    <3>2. Sound(s) /\ Apart(s, task[r])
      BY <2>11, <3>1 DEF IInv
    <3>3. Charged(s) => s.charge # x.charge
      BY <1>1, <1>3, <3>2 DEF Apart
    <3>4. Sound(s)'
      BY <1>1, <2>3, <3>2, <3>3 DEF Sound, Claiming, Charged, OfVault, Indices
    <3> QED
      BY <3>1, <3>4
  <2>12. \A q \in Requests : Sound(task[q])'
    <3>1. Sound(task[r])'
      BY <2>6, <2>7
    <3> QED
      BY <2>11, <3>1
  <2>13. \A p, q \in Requests : p # q => Apart(task'[p], task'[q])
    <3>1. \A p, q \in Requests : p # q => Apart(task[p], task[q])
      BY DEF IInv
    <3>2. \A q \in Requests : Apart(t, task[q]) /\ Apart(task[q], t)
      BY <2>6 DEF Apart
    <3> QED
      BY <2>7, <3>1, <3>2
  <2> QED
    BY <2>8, <2>9, <2>10, <2>12, <2>13 DEF IInv, Apart, Claiming, Charged
<1> QED
  BY <1>2, <1>3, <1>4 DEF InsertRow

-----------------------------------------------------------------------------
(* The checkout                                                            *)

LEMMA Begins == ASSUME Init PROVE IInv
<1>1. <<>> \in Seq(Vault) /\ <<>> \in Seq(Charge) /\ <<>> \in Seq(Row)
  OBVIOUS
<1>2. \A r \in Requests : task[r] = NoTask
  BY DEF Init
<1>3. Types
  BY <1>1, NoTaskIsTask, CheckoutAssumption DEF Init, Types
<1>4. NoTask.copy.user = Nobody /\ NoTask.phase = "idle" /\ NoMethod.user = Nobody
  BY DEF NoTask, NoMethod
<1>5. MethodsFit
  BY <1>4 DEF Init, MethodsFit
<1>6. OneChargePerKey /\ RowIsCharged /\ ChargedIsRecorded
  BY DEF Init, OneChargePerKey, RowIsCharged, ChargedIsRecorded, Indices
<1>7. \A r \in Requests : Sound(task[r])
  BY <1>2, <1>4 DEF Sound, Claiming, Charged
<1>8. \A q, r \in Requests : Apart(task[q], task[r])
  BY <1>2, <1>4 DEF Apart, Claiming, Charged
<1> QED
  BY <1>3, <1>5, <1>6, <1>7, <1>8 DEF IInv

LEMMA StepKeeps == ASSUME IInv, NEW r \in Requests, Step(r) PROVE IInv'
  BY ValidateKeeps, BeginKeeps, CreateVaultKeeps, StoreMethodKeeps, UnstoreKeeps,
     ChargeVaultKeeps, CompleteRecordKeeps, InsertRowKeeps, FailRecordKeeps, CheckUseKeeps,
     CleanVaultKeeps, CleanMethodKeeps, UpdateVaultKeeps, UpdateMethodKeeps,
     DeleteMethodKeeps, ActivateKeeps, StatementFailsKeeps DEF Step

LEMMA HandleKeeps == ASSUME IInv, NEW r \in Requests, Handle(r) PROVE IInv'
<1>1. ASSUME NEW u \in Users, NEW v \in VaultIds, DeletePaymentMethod(r, u, v)
      PROVE  IInv'
  <2>1. Usable(v, u)
    BY <1>1 DEF DeletePaymentMethod
  <2>2. methods[v].provider \in Providers
    BY DEF IInv, Types, Method
  <2> QED
    BY <1>1, <2>2, OnMethodKeeps DEF DeletePaymentMethod
<1>2. ASSUME NEW u \in Users, NEW v \in VaultIds, ActivatePaymentMethod(r, u, v)
      PROVE  IInv'
  <2>1. methods[v].provider \in Providers
    BY DEF IInv, Types, Method
  <2> QED
    BY <1>2, <2>1, OnMethodKeeps DEF ActivatePaymentMethod
<1>3. ASSUME NEW u \in Users, NEW v \in VaultIds, NEW a \in Providers,
             UpdatePaymentMethod(r, u, v, a)
      PROVE  IInv'
  BY <1>3, OnMethodKeeps DEF UpdatePaymentMethod
<1> QED
  BY <1>1, <1>2, <1>3, SubscribeKeeps, CreatePaymentMethodKeeps DEF Handle

LEMMA NextKeeps == ASSUME IInv, [Next]_vars PROVE IInv'
<1>1. CASE UNCHANGED vars
  <2>1. Types' /\ OneChargePerKey' /\ MethodsFit'
    BY <1>1 DEF vars, IInv, Types, OneChargePerKey, MethodsFit, OfVault
  <2>2. RowIsCharged' /\ ChargedIsRecorded'
    BY <1>1 DEF vars, IInv, RowIsCharged, ChargedIsRecorded, Indices
  <2>3. \A r \in Requests : Sound(task[r])'
    BY <1>1 DEF vars, IInv, Sound, OfVault, Indices
  <2>4. \A q, r \in Requests : q # r => Apart(task'[q], task'[r])
    BY <1>1 DEF vars, IInv
  <2> QED
    BY <2>1, <2>2, <2>3, <2>4 DEF IInv
<1>2. ASSUME NEW i \in Indices(subs), Confirm(i) \/ CancelRow(i) PROVE IInv'
  BY <1>2, StatusKeeps DEF Confirm, CancelRow
<1>3. ASSUME NEW r \in Requests, Handle(r) \/ Step(r) \/ Disconnect(r) \/ Crash(r)
      PROVE  IInv'
  BY <1>3, HandleKeeps, StepKeeps, DisconnectKeeps, CrashKeeps
<1> QED
  BY <1>1, <1>2, <1>3 DEF Next

\* What is numbered with different numbers up to m is not more than m.
LEMMA Numbering ==
    ASSUME NEW n \in Nat, NEW m \in Nat, NEW f \in [1..n -> 1..m],
           \A i, j \in 1..n : f[i] = f[j] => i = j
    PROVE  n <= m
<1>1. PICK S, T : S = 1..n /\ T = 1..m
  OBVIOUS
<1>2. IsFiniteSet(T) /\ Cardinality(S) = n /\ Cardinality(T) = m
  BY <1>1, FS_Interval
<1>3. f \in Injection(S, T)
  BY <1>1 DEF Injection, IsInjective
<1>4. Cardinality(S) <= Cardinality(T)
  BY <1>2, <1>3, FS_Injection
<1> QED
  BY <1>2, <1>4

\* The rows are no more than the recurring subscriptions they stand for.
LEMMA RowsBounded == ASSUME IInv PROVE Len(subs) <= MaxCharges
<1>1. Len(subs) \in Nat /\ DOMAIN subs = 1..Len(subs)
  BY Entries DEF IInv, Types
<1>2. PICK n \in Nat, m \in Nat : n = Len(subs) /\ m = MaxCharges
  BY <1>1, CheckoutAssumption
<1>3. PICK f : f = [i \in 1..n |-> subs[i].charge]
  OBVIOUS
<1>4. \A i \in 1..n : subs[i].charge \in 1..m
  BY <1>1, <1>2, ChargeEntries DEF IInv, RowIsCharged, Indices
<1>5. \A i, j \in 1..n : subs[i].charge = subs[j].charge => i = j
  BY <1>1, <1>2 DEF IInv, RowIsCharged, Indices
<1>6. f \in [1..n -> 1..m] /\ \A i, j \in 1..n : f[i] = f[j] => i = j
  BY <1>3, <1>4, <1>5
<1> QED
  BY <1>2, <1>6, Numbering

\* Every variable of the checkout has its type; there are no more rows than the
\* gateway's recurring subscriptions.
THEOREM CheckoutTypes == Spec => []TypeOK
<1>1. IInv => TypeOK
  BY RowsBounded DEF IInv, Types, TypeOK
<1> QED
  BY <1>1, Begins, NextKeeps, PTL DEF Spec

\* The key of a checkout is charged once at most, however many requests send it, at
\* whatever point one breaks off: its idempotency record is kept (subscription.go).
THEOREM KeyIsChargedOnce == Spec => []OneChargePerKey
<1>1. IInv => OneChargePerKey
  BY DEF IInv
<1> QED
  BY <1>1, Begins, NextKeeps, PTL DEF Spec

\* A row of billing.subscriptions stands for a recurring subscription of its own, at
\* the account and on the card that the row names.
THEOREM RowsAreCharged == Spec => []RowIsCharged
<1>1. IInv => RowIsCharged
  BY DEF IInv
<1> QED
  BY <1>1, Begins, NextKeeps, PTL DEF Spec

-----------------------------------------------------------------------------
(* Whose cards are charged, and which methods are inactive                 *)

\* The copy of a method that a request has loaded or made is of the user of the vault,
\* who is the one that is charged, and the clean-up has deleted the vault before it
\* deactivates the method.
OwnSound(t) ==
    /\ t.copy.user # Nobody => /\ t.vault \in Indices(vaults)
                               /\ vaults[t.vault].user = t.copy.user
    /\ t.phase \in {"fail", "cleanCheck", "cleanVault", "cleanMethod", "update", "updateMethod"}
          => t.copy.user # Nobody
    /\ t.phase = "charge" \/ (t.phase = "begin" /\ t.key.card \notin Tokens)
          => t.copy.user = t.key.user
    /\ t.phase = "store" => /\ t.vault \in Indices(vaults)
                            /\ vaults[t.vault].user = t.key.user
                            /\ t.copy.user = Nobody
    /\ t.phase = "cleanMethod" => ~ vaults[t.vault].live

MethodsOwn == \A v \in VaultIds :
    methods[v] # NoMethod => /\ methods[v].user # Nobody
                             /\ v \in Indices(vaults)
                             /\ vaults[v].user = methods[v].user

ChargesOwn == \A i \in Indices(charges) :
    /\ charges[i].vault \in Indices(vaults)
    /\ vaults[charges[i].vault].user = charges[i].key.user

TablesOwn == MethodsOwn /\ ChargesOwn /\ InactiveIsDead

OwnInv == IInv /\ (\A r \in Requests : OwnSound(task[r])) /\ TablesOwn

\* Vaults keep their users and, once deleted, stay so.
VaultsLast == \A v \in Indices(vaults) :
    /\ v \in Indices(vaults')
    /\ vaults'[v].user = vaults[v].user
    /\ ~ vaults[v].live => ~ vaults'[v].live

LEMMA OwnLasts == ASSUME VaultsLast, NEW t, OwnSound(t) PROVE OwnSound(t)'
  BY DEF VaultsLast, OwnSound

LEMMA SameVaults == ASSUME UNCHANGED vaults PROVE VaultsLast
  BY DEF VaultsLast, Indices

LEMMA VaultEntries ==
    ASSUME IInv
    PROVE  \A v \in Indices(vaults) : v \in VaultIds /\ vaults[v] \in Vault
  BY Entries, CheckoutAssumption DEF IInv, Types, Indices, VaultIds

LEMMA DropLasts ==
    ASSUME IInv, NEW v, DropVault(v)
    PROVE  /\ VaultsLast /\ Indices(vaults') = Indices(vaults)
           /\ v \in Indices(vaults) => ~ vaults'[v].live
<1>1. ASSUME NEW w \in Indices(vaults)
      PROVE  /\ vaults'[w].user = vaults[w].user /\ (w = v => ~ vaults'[w].live)
             /\ ~ vaults[w].live => ~ vaults'[w].live
  <2>1. vaults[w] \in Vault /\ w \in DOMAIN vaults
    BY VaultEntries DEF Indices
  <2>2. CASE w = v
    BY <2>1, <2>2 DEF DropVault, Vault
  <2>3. CASE w # v
    BY <2>1, <2>3 DEF DropVault
  <2> QED
    BY <2>2, <2>3
<1>2. Indices(vaults') = Indices(vaults)
  BY DEF DropVault, Indices
<1> QED
  BY <1>1, <1>2 DEF VaultsLast

\* What deletes no more than vaults leaves the tables right.
LEMMA TablesOwnStay ==
    ASSUME OwnInv, VaultsLast, Indices(vaults') = Indices(vaults), UNCHANGED <<charges, methods>>
    PROVE  TablesOwn'
<1>1. MethodsOwn'
  BY DEF OwnInv, TablesOwn, MethodsOwn, VaultsLast
<1>2. ChargesOwn'
  BY DEF OwnInv, TablesOwn, ChargesOwn, VaultsLast, Indices
<1>3. InactiveIsDead'
  BY DEF OwnInv, TablesOwn, InactiveIsDead, VaultsLast
<1> QED
  BY <1>1, <1>2, <1>3 DEF TablesOwn

\* A step of one request.
LEMMA OwnMoves ==
    ASSUME OwnInv, IInv', VaultsLast, TablesOwn', NEW r \in Requests, NEW t,
           task' = [task EXCEPT ![r] = t], OwnSound(t)'
    PROVE  OwnInv'
<1>1. task \in [Requests -> Task]
  BY DEF OwnInv, IInv, Types
<1>2. ASSUME NEW q \in Requests PROVE OwnSound(task[q])'
  <2>1. CASE q = r
    <3>1. task'[q] = t
      BY <1>1, <2>1
    <3> QED
      BY <3>1 DEF OwnSound
  <2>2. CASE q # r
    <3>1. PICK s : s = task[q] /\ s = task'[q]
      BY <1>1, <2>2
    <3>2. OwnSound(s)
      BY <3>1 DEF OwnInv
    <3>3. OwnSound(s)'
      BY <3>2, OwnLasts
    <3> QED
      BY <3>1, <3>3 DEF OwnSound
  <2> QED
    BY <2>1, <2>2
<1> QED
  BY <1>2 DEF OwnInv

LEMMA OwnEnds ==
    ASSUME OwnInv, IInv', VaultsLast, TablesOwn', NEW r \in Requests, End(r)
    PROVE  OwnInv'
<1>1. PICK t : t = NoTask
  OBVIOUS
<1>2. t.phase = "idle" /\ t.copy.user = Nobody
  BY <1>1 DEF NoTask, NoMethod
<1>3. OwnSound(t)'
  BY <1>2 DEF OwnSound
<1> QED
  BY <1>1, <1>3, OwnMoves DEF End

LEMMA OwnGoes ==
    ASSUME OwnInv, IInv', VaultsLast, TablesOwn', NEW r \in Requests, NEW phase \in Phase,
           Go(r, phase), phase # "store",
           phase = "cleanMethod" => ~ vaults'[task[r].vault].live,
           phase \in {"fail", "cleanCheck", "cleanVault", "cleanMethod", "update", "updateMethod"}
              => task[r].copy.user # Nobody,
           phase \in {"charge", "begin"} => task[r].copy.user = task[r].key.user
    PROVE  OwnInv'
<1>1. PICK t : /\ task' = [task EXCEPT ![r] = t]
               /\ t.phase = phase /\ t.key = task[r].key
               /\ t.vault = task[r].vault /\ t.copy = task[r].copy
  BY PhaseChanges DEF OwnInv
<1>2. t.copy.user # Nobody => t.vault \in Indices(vaults') /\ vaults'[t.vault].user = t.copy.user
  BY <1>1 DEF OwnInv, OwnSound, VaultsLast
<1>3. OwnSound(t)'
  BY <1>1, <1>2 DEF OwnSound
<1> QED
  BY <1>1, <1>3, OwnMoves

\* A request starts, or loads a method.
LEMMA OwnStarts ==
    ASSUME OwnInv, IInv', UNCHANGED <<vaults, charges, methods>>, NEW r \in Requests, NEW t,
           task' = [task EXCEPT ![r] = t], OwnSound(t)
    PROVE  OwnInv'
<1>1. VaultsLast /\ Indices(vaults') = Indices(vaults)
  BY SameVaults DEF Indices
<1>2. OwnSound(t)'
  BY <1>1, OwnLasts
<1> QED
  BY <1>1, <1>2, TablesOwnStay, OwnMoves

LEMMA OwnQuiet ==
    ASSUME OwnInv, UNCHANGED <<vaults, charges, methods>>
    PROVE  VaultsLast /\ TablesOwn'
<1>1. VaultsLast /\ Indices(vaults') = Indices(vaults)
  BY SameVaults DEF Indices
<1> QED
  BY <1>1, TablesOwnStay

\* A loaded method is its vault's.
LEMMA LoadedOwn ==
    ASSUME OwnInv, NEW v \in VaultIds, NEW u \in Users, methods[v].user = u
    PROVE  /\ u # Nobody /\ v \in Indices(vaults) /\ vaults[v].user = u
<1>1. u # Nobody /\ NoMethod.user = Nobody
  BY CheckoutAssumption DEF NoMethod
<1>2. methods[v] # NoMethod
  BY <1>1
<1> QED
  BY <1>1, <1>2 DEF OwnInv, TablesOwn, MethodsOwn

LEMMA OwnMethodTask ==
    ASSUME OwnInv, IInv', NEW r \in Requests, NEW u \in Users, NEW v \in VaultIds,
           NEW a \in Providers, NEW phase \in {"update", "delete", "activate"},
           methods[v].user = u, OnMethod(r, phase, u, v, a), UNCHANGED <<vaults, charges, methods>>
    PROVE  OwnInv'
<1>1. PICK t \in Task : Start(r, t) /\ t.phase = phase /\ t.vault = v /\ t.copy = methods[v]
  BY MethodTask DEF OwnInv
<1>2. u # Nobody /\ v \in Indices(vaults) /\ vaults[v].user = u
  BY LoadedOwn
<1>3. OwnSound(t)
  BY <1>1, <1>2 DEF OwnSound
<1> QED
  BY <1>1, <1>3, OwnStarts DEF Start

LEMMA OwnHandle == ASSUME OwnInv, IInv', NEW r \in Requests, Handle(r) PROVE OwnInv'
<1>1. UNCHANGED <<vaults, charges, methods>>
  BY DEF Handle, Subscribe, CreatePaymentMethod, DeletePaymentMethod, ActivatePaymentMethod,
         UpdatePaymentMethod
<1>2. ASSUME NEW u \in Users, NEW v \in VaultIds,
             \/ DeletePaymentMethod(r, u, v)
             \/ ActivatePaymentMethod(r, u, v)
             \/ \E a \in Providers : UpdatePaymentMethod(r, u, v, a)
      PROVE  OwnInv'
  <2>1. methods[v].user = u /\ methods[v].provider \in Providers
    BY <1>2 DEF DeletePaymentMethod, ActivatePaymentMethod, UpdatePaymentMethod, Usable,
                OwnInv, IInv, Types, Method
  <2> QED
    BY <1>1, <1>2, <2>1, OwnMethodTask
       DEF DeletePaymentMethod, ActivatePaymentMethod, UpdatePaymentMethod
<1>3. ASSUME NEW k \in Keys, NEW a \in Providers,
             Subscribe(r, k, a) \/ CreatePaymentMethod(r, k, a)
      PROVE  OwnInv'
  <2>1. NoTask.copy.user = Nobody /\ NoTask \in Task
    BY NoTaskIsTask DEF NoTask, NoMethod
  <2>2. CASE CreatePaymentMethod(r, k, a)
    <3>1. PICK t : t = [NoTask EXCEPT !.phase = "vault", !.saving = TRUE, !.key = k, !.at = a]
      OBVIOUS
    <3>2. OwnSound(t)
      BY <2>1, <3>1 DEF OwnSound, Task
    <3> QED
      BY <1>1, <2>2, <3>1, <3>2, OwnStarts DEF CreatePaymentMethod, Start
  <2>3. CASE Subscribe(r, k, a)
    <3>1. PICK t : t = [NoTask EXCEPT !.phase = IF k.card \in Tokens THEN "begin" ELSE "validate",
                                      !.key = k, !.at = a]
      OBVIOUS
    <3>2. OwnSound(t)
      BY <2>1, <3>1 DEF OwnSound, Task
    <3> QED
      BY <1>1, <2>3, <3>1, <3>2, OwnStarts DEF Subscribe, Start
  <2> QED
    BY <1>3, <2>2, <2>3
<1> QED
  BY <1>2, <1>3 DEF Handle

\* Only the owner's own method is loaded to be charged.
LEMMA OwnValidate == ASSUME OwnInv, IInv', NEW r \in Requests, Validate(r) PROVE OwnInv'
<1>1. UNCHANGED <<vaults, charges, methods>>
  BY DEF Validate
<1>2. CASE End(r)
  BY <1>1, <1>2, OwnQuiet, OwnEnds
<1>3. CASE ~ End(r)
  <2>1. task[r] \in Task /\ task[r].key.card \in VaultIds /\ task[r].key.user \in Users
    BY DEF OwnInv, IInv, Types, Sound, Validate, Statement, At, Task, Keys
  <2>2. PICK v \in VaultIds : v = task[r].key.card
    BY <2>1
  <2>3. PICK t : t = [task[r] EXCEPT !.phase = "begin", !.vault = v, !.copy = methods[v]]
    OBVIOUS
  <2>4. task' = [task EXCEPT ![r] = t] /\ methods[v].user = task[r].key.user
    BY <1>3, <2>2, <2>3 DEF Validate, Usable
  <2>5. t.phase = "begin" /\ t.vault = v /\ t.copy = methods[v] /\ t.key = task[r].key
    BY <2>1, <2>3 DEF Task
  <2>6. v \in Indices(vaults) /\ vaults[v].user = task[r].key.user
    BY <2>1, <2>4, LoadedOwn
  <2>7. OwnSound(t)
    BY <2>4, <2>5, <2>6 DEF OwnSound
  <2> QED
    BY <1>1, <2>4, <2>7, OwnStarts
<1> QED
  BY <1>2, <1>3

LEMMA OwnBegin == ASSUME OwnInv, IInv', NEW r \in Requests, Begin(r) PROVE OwnInv'
<1>1. VaultsLast /\ TablesOwn'
  BY OwnQuiet DEF Begin
<1>2. CASE End(r)
  BY <1>1, <1>2, OwnEnds
<1>3. CASE Go(r, IF task[r].key.card \in Tokens THEN "vault" ELSE "charge")
  <2>1. task[r].key.card \notin Tokens => task[r].copy.user = task[r].key.user
    BY DEF OwnInv, OwnSound, Begin, Statement, At
  <2> QED
    BY <1>1, <1>3, <2>1, OwnGoes DEF Phase
<1> QED
  BY <1>2, <1>3 DEF Begin

LEMMA OwnCreateVault == ASSUME OwnInv, IInv', NEW r \in Requests, CreateVault(r) PROVE OwnInv'
<1>1. /\ task[r] \in Task /\ task[r].copy.user = Nobody
      /\ UNCHANGED <<charges, methods>>
  BY DEF OwnInv, IInv, Types, Sound, CreateVault, At
<1>2. CASE End(r) /\ UNCHANGED vaults
  BY <1>1, <1>2, OwnQuiet, OwnEnds
<1>3. PICK x : x = [user |-> task[r].key.user, at |-> task[r].at,
                    token |-> task[r].key.card, live |-> TRUE]
  OBVIOUS
<1>4. CASE /\ vaults' = Append(vaults, x)
           /\ \/ task' = [task EXCEPT ![r].phase = "store", ![r].vault = Len(vaults')]
              \/ End(r)
  <2>1. x \in Vault
    <3>1. task[r].key.card \in Tokens
      BY DEF OwnInv, IInv, Sound, CreateVault, At
    <3> QED
      BY <1>1, <1>3, <3>1 DEF Task, Keys, Vault
  <2>2. PICK n : n = Len(vaults')
    OBVIOUS
  <2>3. /\ Indices(vaults') = Indices(vaults) \cup {n} /\ n \notin Indices(vaults)
        /\ vaults'[n] = x /\ \A v \in Indices(vaults) : vaults'[v] = vaults[v]
    BY <1>4, <2>1, <2>2, Appended DEF OwnInv, IInv, Types, Indices
  <2>4. VaultsLast
    BY <2>3 DEF VaultsLast
  <2>5. TablesOwn'
    <3>1. MethodsOwn'
      BY <1>1, <2>3 DEF OwnInv, TablesOwn, MethodsOwn
    <3>2. ChargesOwn'
      BY <1>1, <2>3 DEF OwnInv, TablesOwn, ChargesOwn, Indices
    <3>3. n \in VaultIds
      BY <2>3, Entries, CheckoutAssumption DEF VaultIds, Indices, IInv, Types
    <3>4. methods[n] = NoMethod
      BY <2>3, <3>3 DEF OwnInv, TablesOwn, MethodsOwn
    <3>5. InactiveIsDead'
      BY <1>1, <2>3, <3>4 DEF OwnInv, TablesOwn, InactiveIsDead
    <3> QED
      BY <3>1, <3>2, <3>5 DEF TablesOwn
  <2>6. CASE task' = [task EXCEPT ![r].phase = "store", ![r].vault = n]
    <3>1. PICK t : t = [task[r] EXCEPT !.phase = "store", !.vault = n]
      OBVIOUS
    <3>2. t.phase = "store" /\ t.vault = n /\ t.copy.user = Nobody /\ t.key = task[r].key
      BY <1>1, <3>1 DEF Task
    <3>3. OwnSound(t)'
      BY <1>3, <2>3, <3>2 DEF OwnSound
    <3> QED
      BY <2>4, <2>5, <2>6, <3>1, <3>3, OwnMoves
  <2> QED
    BY <1>4, <2>2, <2>4, <2>5, <2>6, OwnEnds
<1> QED
  BY <1>2, <1>3, <1>4 DEF CreateVault

\* What is written about a vault is true of it.
LEMMA OwnWritten ==
    ASSUME OwnInv, UNCHANGED <<vaults, charges>>, NEW v, NEW m,
           m.user # Nobody, v \in Indices(vaults) /\ vaults[v].user = m.user,
           m.active \/ ~ vaults[v].live,
           methods' = [methods EXCEPT ![v] = m] \/ UNCHANGED methods
    PROVE  VaultsLast /\ TablesOwn'
<1>1. CASE UNCHANGED methods
  BY <1>1, OwnQuiet
<1>2. CASE methods' = [methods EXCEPT ![v] = m]
  <2>1. VaultsLast
    BY SameVaults
  <2>2. \A w \in VaultIds : methods'[w] = IF w = v THEN m ELSE methods[w]
    BY <1>2 DEF OwnInv, IInv, Types
  <2>3. MethodsOwn'
    BY <2>2 DEF OwnInv, TablesOwn, MethodsOwn, Indices
  <2>4. ChargesOwn'
    BY DEF OwnInv, TablesOwn, ChargesOwn, Indices
  <2>5. InactiveIsDead'
    BY <2>2, VaultEntries DEF OwnInv, TablesOwn, InactiveIsDead, Indices
  <2> QED
    BY <2>1, <2>3, <2>4, <2>5 DEF TablesOwn
<1> QED
  BY <1>1, <1>2

LEMMA OwnStoreMethod == ASSUME OwnInv, IInv', NEW r \in Requests, StoreMethod(r) PROVE OwnInv'
<1>1. /\ task[r] \in Task /\ task[r].key.user \in Users /\ task[r].phase = "store"
      /\ UNCHANGED <<vaults, charges>>
  BY DEF OwnInv, IInv, Types, StoreMethod, Statement, At, Task, Keys
<1>2. PICK m : m = [user |-> task[r].key.user, provider |-> task[r].at, active |-> TRUE]
  OBVIOUS
<1>3. PICK v : v = task[r].vault
  OBVIOUS
<1>4. m.user # Nobody /\ m.active /\ v \in Indices(vaults) /\ vaults[v].user = m.user
  BY <1>1, <1>2, <1>3, CheckoutAssumption DEF OwnInv, OwnSound
<1>5. VaultsLast /\ TablesOwn'
  BY <1>1, <1>2, <1>3, <1>4, OwnWritten DEF StoreMethod
<1>6. CASE task' = [task EXCEPT ![r].phase = "charge", ![r].copy = m]
  <2>1. PICK t : t = [task[r] EXCEPT !.phase = "charge", !.copy = m]
    OBVIOUS
  <2>2. t.phase = "charge" /\ t.copy = m /\ t.vault = v /\ t.key = task[r].key
    BY <1>1, <1>3, <2>1 DEF Task
  <2>3. OwnSound(t)
    BY <1>2, <1>4, <2>2 DEF OwnSound
  <2>4. OwnSound(t)'
    BY <1>5, <2>3, OwnLasts
  <2> QED
    BY <1>5, <1>6, <2>1, <2>4, OwnMoves
<1> QED
  BY <1>2, <1>5, <1>6, OwnEnds DEF StoreMethod

LEMMA OwnDropped ==
    ASSUME OwnInv, NEW v, DropVault(v) \/ UNCHANGED vaults, UNCHANGED <<charges, methods>>
    PROVE  VaultsLast /\ TablesOwn'
  BY DropLasts, TablesOwnStay, OwnQuiet DEF OwnInv

LEMMA OwnUnstore == ASSUME OwnInv, IInv', NEW r \in Requests, Unstore(r) PROVE OwnInv'
<1>1. VaultsLast /\ TablesOwn'
  BY OwnDropped DEF Unstore
<1> QED
  BY <1>1, OwnEnds DEF Unstore

\* The gateway charges the card that the request has loaded or stored.
LEMMA OwnChargeVault == ASSUME OwnInv, IInv', NEW r \in Requests, ChargeVault(r) PROVE OwnInv'
<1>1. /\ task[r] \in Task /\ task[r].key.user \in Users /\ task[r].phase = "charge"
      /\ UNCHANGED <<vaults, methods>>
  BY DEF OwnInv, IInv, Types, ChargeVault, At, Task, Keys
<1>2. /\ task[r].copy.user = task[r].key.user /\ task[r].copy.user # Nobody
      /\ task[r].vault \in Indices(vaults) /\ vaults[task[r].vault].user = task[r].key.user
  BY <1>1, CheckoutAssumption DEF OwnInv, OwnSound
<1>3. VaultsLast /\ TablesOwn'
  <2>1. CASE UNCHANGED charges
    BY <1>1, <2>1, OwnQuiet
  <2>2. PICK c : c = [key |-> task[r].key, vault |-> task[r].vault, at |-> task[r].at]
    OBVIOUS
  <2>3. CASE charges' = Append(charges, c)
    <3>1. c \in Charge
      BY <1>1, <1>2, <2>2, VaultEntries DEF OwnInv, Task, Charge
    <3>2. PICK n : n = Len(charges')
      OBVIOUS
    <3>3. /\ Indices(charges') = Indices(charges) \cup {n} /\ charges'[n] = c
          /\ \A i \in Indices(charges) : charges'[i] = charges[i]
      BY <2>3, <3>1, <3>2, Appended DEF OwnInv, IInv, Types, Indices
    <3>4. VaultsLast
      BY <1>1, SameVaults
    <3>5. ChargesOwn'
      BY <1>1, <1>2, <2>2, <3>3 DEF OwnInv, TablesOwn, ChargesOwn, Indices
    <3>6. MethodsOwn' /\ InactiveIsDead'
      BY <1>1 DEF OwnInv, TablesOwn, MethodsOwn, InactiveIsDead, Indices
    <3> QED
      BY <3>4, <3>5, <3>6 DEF TablesOwn
  <2> QED
    BY <2>1, <2>2, <2>3 DEF ChargeVault
<1>4. CASE Go(r, "fail")
  BY <1>2, <1>3, <1>4, OwnGoes DEF Phase
<1>5. CASE task' = [task EXCEPT ![r].phase = "complete", ![r].charge = Len(charges')]
  <2>1. PICK t : t = [task[r] EXCEPT !.phase = "complete", !.charge = Len(charges')]
    OBVIOUS
  <2>2. t.phase = "complete" /\ t.copy = task[r].copy /\ t.vault = task[r].vault
    BY <1>1, <2>1 DEF Task
  <2>3. OwnSound(t)
    BY <1>2, <2>2 DEF OwnSound
  <2>4. OwnSound(t)'
    BY <1>3, <2>3, OwnLasts
  <2> QED
    BY <1>3, <1>5, <2>1, <2>4, OwnMoves
<1> QED
  BY <1>4, <1>5 DEF ChargeVault

LEMMA OwnAfterFailure ==
    ASSUME OwnInv, IInv', VaultsLast, TablesOwn', NEW r \in Requests,
           task[r].phase = "fail", AfterFailure(r)
    PROVE  OwnInv'
<1>1. task[r].copy.user # Nobody
  BY DEF OwnInv, OwnSound
<1>2. CASE Go(r, "cleanCheck")
  BY <1>1, <1>2, OwnGoes DEF Phase
<1> QED
  BY <1>2, OwnEnds DEF AfterFailure

\* The clean-up: the vault is deleted first, and the method deactivated after it.
LEMMA OwnCleanVault == ASSUME OwnInv, IInv', NEW r \in Requests, CleanVault(r) PROVE OwnInv'
<1>1. VaultsLast /\ TablesOwn'
  BY OwnDropped DEF CleanVault
<1>2. CASE End(r)
  BY <1>1, <1>2, OwnEnds
<1>3. CASE DropVault(task[r].vault) /\ Go(r, "cleanMethod")
  <2>1. task[r].copy.user # Nobody /\ task[r].vault \in Indices(vaults)
    BY DEF OwnInv, OwnSound, CleanVault, At
  <2>2. ~ vaults'[task[r].vault].live
    BY <1>3, <2>1, DropLasts DEF OwnInv
  <2> QED
    BY <1>1, <1>3, <2>1, <2>2, OwnGoes DEF Phase
<1> QED
  BY <1>2, <1>3 DEF CleanVault

LEMMA OwnCleanMethod == ASSUME OwnInv, IInv', NEW r \in Requests, CleanMethod(r) PROVE OwnInv'
<1>1. /\ task[r] \in Task /\ task[r].phase = "cleanMethod" /\ End(r)
      /\ UNCHANGED <<vaults, charges>>
  BY DEF OwnInv, IInv, Types, CleanMethod, Statement, At
<1>2. PICK m : m = [task[r].copy EXCEPT !.active = FALSE]
  OBVIOUS
<1>3. /\ m.user = task[r].copy.user /\ m.user # Nobody
      /\ task[r].vault \in Indices(vaults) /\ vaults[task[r].vault].user = m.user
      /\ ~ vaults[task[r].vault].live
  BY <1>1, <1>2 DEF OwnInv, OwnSound, Task, Method
<1>4. VaultsLast /\ TablesOwn'
  BY <1>1, <1>2, <1>3, OwnWritten DEF CleanMethod, Overwrite
<1> QED
  BY <1>1, <1>4, OwnEnds

LEMMA OwnUpdateMethod == ASSUME OwnInv, IInv', NEW r \in Requests, UpdateMethod(r) PROVE OwnInv'
<1>1. /\ task[r] \in Task /\ task[r].phase = "updateMethod" /\ End(r)
      /\ UNCHANGED <<vaults, charges>>
  BY DEF OwnInv, IInv, Types, UpdateMethod, Statement, At
<1>2. PICK m : m = [task[r].copy EXCEPT !.provider = task[r].at, !.active = TRUE]
  OBVIOUS
<1>3. /\ m.user = task[r].copy.user /\ m.user # Nobody /\ m.active
      /\ task[r].vault \in Indices(vaults) /\ vaults[task[r].vault].user = m.user
  BY <1>1, <1>2 DEF OwnInv, OwnSound, Task, Method
<1>4. VaultsLast /\ TablesOwn'
  BY <1>1, <1>2, <1>3, OwnWritten DEF UpdateMethod, Overwrite
<1> QED
  BY <1>1, <1>4, OwnEnds

LEMMA OwnUpdateVault == ASSUME OwnInv, IInv', NEW r \in Requests, UpdateVault(r) PROVE OwnInv'
<1>1. VaultsLast /\ TablesOwn' /\ task[r].copy.user # Nobody
  BY OwnQuiet DEF UpdateVault, At, OwnInv, OwnSound
<1>2. CASE Go(r, "updateMethod")
  BY <1>1, <1>2, OwnGoes DEF Phase
<1> QED
  BY <1>1, <1>2, OwnEnds DEF UpdateVault

LEMMA OwnDeleteMethod == ASSUME OwnInv, IInv', NEW r \in Requests, DeleteMethod(r) PROVE OwnInv'
<1>1. UNCHANGED <<vaults, charges>> /\ End(r)
  BY DEF DeleteMethod
<1>2. \A v \in VaultIds : methods'[v] \in {NoMethod, methods[v]}
  BY DEF DeleteMethod, OwnInv, IInv, Types
<1>3. MethodsOwn'
  BY <1>1, <1>2 DEF OwnInv, TablesOwn, MethodsOwn, Indices
<1>4. ChargesOwn'
  BY <1>1 DEF OwnInv, TablesOwn, ChargesOwn, Indices
<1>5. InactiveIsDead'
  BY <1>1, <1>2, VaultEntries DEF OwnInv, TablesOwn, InactiveIsDead, Indices
<1>6. VaultsLast /\ TablesOwn'
  BY <1>1, <1>3, <1>4, <1>5, SameVaults DEF TablesOwn
<1> QED
  BY <1>1, <1>6, OwnEnds

LEMMA OwnStatementFails ==
    ASSUME OwnInv, IInv', NEW r \in Requests, StatementFails(r) PROVE OwnInv'
<1>1. VaultsLast /\ TablesOwn'
  BY OwnQuiet DEF StatementFails
<1>2. CASE task[r].phase = "store"
  BY <1>1, <1>2, OwnGoes DEF StatementFails, At, Phase
<1>3. CASE task[r].phase = "complete"
  BY <1>1, <1>3, OwnGoes DEF StatementFails, At, Phase
<1>4. CASE task[r].phase = "fail"
  BY <1>1, <1>4, OwnAfterFailure DEF StatementFails, At
<1>5. CASE task[r].phase \notin {"store", "complete", "fail"}
  BY <1>1, <1>5, OwnEnds DEF StatementFails, At
<1> QED
  BY <1>2, <1>3, <1>4, <1>5

LEMMA OwnDisconnect == ASSUME OwnInv, IInv', NEW r \in Requests, Disconnect(r) PROVE OwnInv'
<1>1. UNCHANGED <<vaults, charges, methods>> /\ task[r] \in Task /\ OwnSound(task[r])
  BY DEF Disconnect, OwnInv, IInv, Types
<1>2. PICK t : t = [task[r] EXCEPT !.gone = TRUE]
  OBVIOUS
<1>3. /\ t.phase = task[r].phase /\ t.key = task[r].key
      /\ t.vault = task[r].vault /\ t.copy = task[r].copy
  BY <1>1, <1>2 DEF Task
<1>4. OwnSound(t)
  BY <1>1, <1>3 DEF OwnSound
<1> QED
  BY <1>1, <1>2, <1>4, OwnStarts DEF Disconnect

\* The steps that neither charge a card nor write a method.
LEMMA OwnRest ==
    ASSUME OwnInv, IInv', NEW r \in Requests,
           \/ CompleteRecord(r) \/ InsertRow(r) \/ FailRecord(r) \/ CheckUse(r)
           \/ Activate(r) \/ Crash(r)
    PROVE  OwnInv'
<1>1. VaultsLast /\ TablesOwn'
  BY OwnQuiet DEF CompleteRecord, InsertRow, FailRecord, CheckUse, Activate, Crash, Usable
<1>2. CASE CompleteRecord(r)
  BY <1>1, <1>2, OwnGoes DEF CompleteRecord, Phase
<1>3. CASE FailRecord(r)
  BY <1>1, <1>3, OwnAfterFailure DEF FailRecord, Statement, At
<1>4. CASE CheckUse(r)
  <2>1. task[r].copy.user # Nobody
    BY <1>4 DEF CheckUse, Statement, At, OwnInv, OwnSound
  <2> QED
    BY <1>1, <1>4, <2>1, OwnGoes, OwnEnds DEF CheckUse, Phase
<1> QED
  BY <1>1, <1>2, <1>3, <1>4, OwnEnds DEF InsertRow, Activate, Crash

LEMMA OwnNext == ASSUME OwnInv, [Next]_vars PROVE OwnInv'
<1>1. IInv'
  BY NextKeeps DEF OwnInv
<1>2. ASSUME UNCHANGED <<vaults, charges, methods, task>> PROVE OwnInv'
  <2>1. VaultsLast /\ TablesOwn'
    BY <1>2, OwnQuiet
  <2>2. \A r \in Requests : OwnSound(task[r])'
    BY <1>2 DEF OwnInv, OwnSound, Indices
  <2> QED
    BY <1>1, <2>1, <2>2 DEF OwnInv
<1>3. ASSUME NEW r \in Requests, Step(r) PROVE OwnInv'
  BY <1>1, <1>3, OwnValidate, OwnBegin, OwnCreateVault, OwnStoreMethod, OwnUnstore,
     OwnChargeVault, OwnCleanVault, OwnCleanMethod, OwnUpdateVault, OwnUpdateMethod,
     OwnDeleteMethod, OwnStatementFails, OwnRest DEF Step
<1>4. ASSUME NEW r \in Requests, Handle(r) \/ Step(r) \/ Disconnect(r) \/ Crash(r)
      PROVE  OwnInv'
  BY <1>1, <1>3, <1>4, OwnHandle, OwnDisconnect, OwnRest
<1>5. ASSUME NEW i \in Indices(subs), Confirm(i) \/ CancelRow(i) PROVE OwnInv'
  BY <1>2, <1>5 DEF Confirm, CancelRow
<1>6. CASE UNCHANGED vars
  BY <1>2, <1>6 DEF vars
<1> QED
  BY <1>4, <1>5, <1>6 DEF Next

LEMMA OwnBegins == ASSUME Init PROVE OwnInv
<1>1. NoTask.copy.user = Nobody /\ NoTask.phase = "idle"
  BY DEF NoTask, NoMethod
<1>2. \A r \in Requests : OwnSound(task[r])
  BY <1>1 DEF Init, OwnSound
<1>3. TablesOwn
  BY DEF Init, TablesOwn, MethodsOwn, ChargesOwn, InactiveIsDead, Indices
<1> QED
  BY <1>2, <1>3, Begins DEF OwnInv

\* The gateway charges no card but the user's own, whatever methods are stored, updated
\* and deleted while a checkout is between its check of the owner and its charge
\* (payment_method.go:207).
THEOREM ChargesAreOwn == Spec => []ChargedIsOwn
<1>1. OwnInv => ChargedIsOwn
  BY DEF OwnInv, TablesOwn, ChargesOwn, ChargedIsOwn
<1> QED
  BY <1>1, OwnBegins, OwnNext, PTL DEF Spec

\* The vault of a method that is inactive is gone: the clean-up of a checkout deletes
\* it at the gateway first, and what it deactivates nobody has in use or brings back
\* (vault_service.go:232).
THEOREM InactiveMethodsAreDead == Spec => []InactiveIsDead
<1>1. OwnInv => InactiveIsDead
  BY DEF OwnInv, TablesOwn
<1> QED
  BY <1>1, OwnBegins, OwnNext, PTL DEF Spec

-----------------------------------------------------------------------------
(* One request at a time and no fault                                      *)

\* Nobody has hung up, and an insert does not fail; what a request is about to
\* write on has a vault, and what it is about to charge or to insert has a method.
AloneSound(t) ==
    /\ ~ t.gone /\ t.phase # "unstore"
    /\ t.phase \in {"store", "updateMethod"} => vaults[t.vault].live
    /\ \/ t.phase = "begin" /\ t.key.card \notin Tokens
       \/ t.phase \in {"charge", "complete", "insert"}
       => t.vault \in VaultIds /\ methods[t.vault].user # Nobody

Alone == \A q, r \in Requests : task[q] # NoTask /\ task[r] # NoTask => q = r

\* A clean-up deletes the vault first and deactivates the method next.
Cleans(t, v) == t.phase = "cleanMethod" /\ t.vault = v

Living == \A v \in VaultIds : methods[v].active =>
    /\ v \in Indices(vaults)
    /\ vaults[v].live \/ \E r \in Requests : Cleans(task[r], v)

Inserts(t, i) == Charged(t) /\ t.charge = i

Rowed == \A i \in Indices(charges) :
    \/ \E j \in Indices(subs) : subs[j].charge = i
    \/ \E r \in Requests : Inserts(task[r], i)

SerialInv ==
    /\ Alone /\ faults = 0
    /\ \A r \in Requests : AloneSound(task[r])
    /\ Living /\ Rowed

\* What is left to show of a step that keeps Alone.
SerialKept == (\A r \in Requests : AloneSound(task[r]))' /\ Living' /\ Rowed'

Others(r) == \A q \in Requests : q # r => task[q] = NoTask

LEMMA IdleTask ==
    /\ NoTask.phase = "idle" /\ ~ NoTask.gone
    /\ ~ Charged(NoTask) /\ AloneSound(NoTask) /\ AloneSound(NoTask)'
  BY DEF NoTask, AloneSound, Charged

LEMMA SerialMoves ==
    ASSUME IInv, NEW r \in Requests, Others(r), NEW t \in Task,
           task' = [task EXCEPT ![r] = t], AloneSound(t)',
           \A v \in VaultIds : methods'[v].active =>
               v \in Indices(vaults') /\ (vaults'[v].live \/ Cleans(t, v)),
           \A i \in Indices(charges') :
               (\E j \in Indices(subs') : subs'[j].charge = i) \/ Inserts(t, i)
    PROVE  SerialKept
<1>1. task'[r] = t /\ \A q \in Requests : q # r => task'[q] = NoTask
  BY DEF IInv, Types, Others
<1>2. \A q \in Requests : AloneSound(task[q])'
  <2>1. AloneSound(task[r])'
    BY <1>1
  <2>2. ASSUME NEW q \in Requests, q # r PROVE AloneSound(task[q])'
    <3>1. PICK s : s = NoTask
      OBVIOUS
    <3>2. AloneSound(s)' /\ s = task'[q]
      BY <1>1, <2>2, <3>1, IdleTask
    <3> QED
      BY <3>2
  <2> QED
    BY <2>1, <2>2
<1>3. Living'
  BY <1>1 DEF Living, Cleans, Indices
<1>4. Rowed'
  BY <1>1 DEF Rowed, Inserts, Charged, Indices
<1> QED
  BY <1>2, <1>3, <1>4 DEF SerialKept

\* What the request alone accounts for.
LEMMA SerialRest ==
    ASSUME IInv, SerialInv, NEW r \in Requests, Others(r)
    PROVE  /\ \A v \in VaultIds : methods[v].active =>
                  v \in Indices(vaults) /\ (vaults[v].live \/ Cleans(task[r], v))
           /\ \A i \in Indices(charges) :
                  (\E j \in Indices(subs) : subs[j].charge = i) \/ Inserts(task[r], i)
<1>1. \A q \in Requests : q # r => ~ Charged(task[q]) /\ task[q].phase = "idle"
  BY IdleTask DEF Others
<1> QED
  BY <1>1 DEF SerialInv, Living, Rowed, Cleans, Inserts

\* Nothing is written, and nothing was left to be written.
LEMMA SerialQuiet ==
    ASSUME IInv, SerialInv, NEW r \in Requests, Others(r), NEW t \in Task,
           task' = [task EXCEPT ![r] = t], AloneSound(t),
           UNCHANGED <<vaults, charges, methods, subs>>,
           task[r].phase \notin {"complete", "insert", "cleanMethod"}
    PROVE  SerialKept
<1>1. AloneSound(t)'
  BY DEF AloneSound
<1>2. ~ Charged(task[r]) /\ \A v \in VaultIds : ~ Cleans(task[r], v)
  BY DEF Charged, Cleans
<1>3. /\ \A v \in VaultIds : methods'[v].active =>
             v \in Indices(vaults') /\ (vaults'[v].live \/ Cleans(t, v))
      /\ \A i \in Indices(charges') :
             (\E j \in Indices(subs') : subs'[j].charge = i) \/ Inserts(t, i)
  BY <1>2, SerialRest DEF Inserts, Indices
<1> QED
  BY <1>1, <1>3, SerialMoves

\* A request that is over, or that goes on to a phase of which nothing is asked.
LEMMA SerialEnds ==
    ASSUME IInv, SerialInv, NEW r \in Requests, Others(r),
           UNCHANGED <<vaults, charges, methods, subs>>,
           task[r].phase \notin {"complete", "insert", "cleanMethod"},
           End(r) \/ \E phase \in {"vault", "fail", "cleanCheck", "cleanVault"} : Go(r, phase)
    PROVE  SerialKept
<1>1. CASE End(r)
  <2>1. PICK t \in Task : t = NoTask
    BY NoTaskIsTask
  <2> QED
    BY <1>1, <2>1, IdleTask, SerialQuiet DEF End
<1>2. ASSUME NEW phase \in {"vault", "fail", "cleanCheck", "cleanVault"}, Go(r, phase)
      PROVE  SerialKept
  <2>1. task[r] \in Task /\ ~ task[r].gone
    BY DEF IInv, Types, SerialInv, AloneSound
  <2>2. PICK t \in Task : t = [task[r] EXCEPT !.phase = phase]
    BY <2>1 DEF Task, Phase
  <2>3. t.phase = phase /\ ~ t.gone
    BY <2>1, <2>2 DEF Task
  <2>4. AloneSound(t) /\ task' = [task EXCEPT ![r] = t]
    BY <1>2, <2>2, <2>3 DEF AloneSound, Go
  <2> QED
    BY <2>4, SerialQuiet
<1> QED
  BY <1>1, <1>2

LEMMA SerialStart ==
    ASSUME IInv, SerialInv, NEW r \in Requests, Others(r), NEW t \in Task, Start(r, t),
           t.phase \in {"begin", "validate", "vault", "update", "delete", "activate"},
           t.phase = "begin" => t.key.card \in Tokens, ~ t.gone,
           UNCHANGED <<vaults, charges, methods, subs>>
    PROVE  SerialKept
<1>1. AloneSound(t)
  BY DEF AloneSound
<1>2. task[r].phase = "idle"
  BY IdleTask DEF Start
<1> QED
  BY <1>1, <1>2, SerialQuiet DEF Start

LEMMA SerialHandle ==
    ASSUME IInv, SerialInv, NEW r \in Requests, Others(r), Handle(r)
    PROVE  SerialKept
<1>1. ASSUME NEW k \in Keys, NEW a \in Providers, Subscribe(r, k, a) PROVE SerialKept
  <2> DEFINE phase == IF k.card \in Tokens THEN "begin" ELSE "validate"
  <2>1. PICK t \in Task : t = [NoTask EXCEPT !.phase = phase, !.key = k, !.at = a]
    BY NoTaskIsTask DEF Task, Phase
  <2>2. t.phase = phase /\ t.key = k /\ ~ t.gone
    BY <2>1, NoTaskIsTask, IdleTask DEF Task
  <2>3. Start(r, t) /\ UNCHANGED <<vaults, charges, methods, subs>>
    BY <1>1, <2>1 DEF Subscribe
  <2> QED
    BY <2>2, <2>3, SerialStart
<1>2. ASSUME NEW k \in Keys, NEW a \in Providers, CreatePaymentMethod(r, k, a)
      PROVE  SerialKept
  <2>1. PICK t \in Task :
              t = [NoTask EXCEPT !.phase = "vault", !.saving = TRUE, !.key = k, !.at = a]
    BY NoTaskIsTask DEF Task, Phase
  <2>2. t.phase = "vault" /\ ~ t.gone
    BY <2>1, NoTaskIsTask, IdleTask DEF Task
  <2> QED
    BY <1>2, <2>1, <2>2, SerialStart DEF CreatePaymentMethod
<1>3. ASSUME NEW u \in Users, NEW v \in VaultIds, NEW a \in Providers,
             NEW phase \in {"update", "delete", "activate"}, OnMethod(r, phase, u, v, a),
             UNCHANGED <<vaults, charges, methods, subs>>
      PROVE  SerialKept
  <2>1. PICK t \in Task : Start(r, t) /\ t.phase = phase /\ ~ t.gone
    BY <1>3, MethodTask
  <2> QED
    BY <1>3, <2>1, SerialStart
<1>4. \A v \in VaultIds : methods[v].provider \in Providers
  BY DEF IInv, Types, Method
<1> QED
  BY <1>1, <1>2, <1>3, <1>4
     DEF Handle, UpdatePaymentMethod, DeletePaymentMethod, ActivatePaymentMethod

LEMMA SerialValidate ==
    ASSUME IInv, SerialInv, NEW r \in Requests, Others(r), Validate(r)
    PROVE  SerialKept
<1>1. /\ task[r] \in Task /\ task[r].key.card \in VaultIds /\ task[r].phase = "validate"
      /\ ~ task[r].gone /\ UNCHANGED <<vaults, charges, methods, subs>>
  BY DEF IInv, Types, Sound, SerialInv, AloneSound, Validate, Statement, At
<1>2. CASE End(r)
  BY <1>1, <1>2, SerialEnds
<1>3. CASE ~ End(r)
  <2>1. PICK v \in VaultIds : v = task[r].key.card
    BY <1>1
  <2>2. PICK m \in Method : m = methods[v]
    BY DEF IInv, Types
  <2>3. PICK x \in Task : x = [task[r] EXCEPT !.phase = "begin"]
    BY <1>1 DEF Task, Phase
  <2>4. PICK y \in Task : y = [x EXCEPT !.vault = v]
    BY VaultIdsFit DEF Task
  <2>5. PICK t \in Task : t = [y EXCEPT !.copy = m]
    BY DEF Task
  <2>6. t.phase = "begin" /\ t.vault = v /\ ~ t.gone
    BY <1>1, <2>3, <2>4, <2>5 DEF Task
  <2>7. task' = [task EXCEPT ![r] = t] /\ m.user = task[r].key.user
    BY <1>3, <2>1, <2>2, <2>3, <2>4, <2>5 DEF Validate, Usable
  <2>8. methods[v].user # Nobody
    BY <1>1, <2>2, <2>7, CheckoutAssumption DEF Task, Keys
  <2> QED
    BY <1>1, <2>6, <2>7, <2>8, SerialQuiet DEF AloneSound
<1> QED
  BY <1>2, <1>3

LEMMA SerialBegin ==
    ASSUME IInv, SerialInv, NEW r \in Requests, Others(r), Begin(r)
    PROVE  SerialKept
<1>1. /\ task[r] \in Task /\ task[r].phase = "begin" /\ AloneSound(task[r])
      /\ UNCHANGED <<vaults, charges, methods, subs>>
  BY DEF IInv, Types, SerialInv, Begin, Statement, At
<1>2. CASE End(r) \/ Go(r, "vault")
  BY <1>1, <1>2, SerialEnds
<1>3. CASE Go(r, "charge") /\ task[r].key.card \notin Tokens
  <2>1. PICK t \in Task : t = [task[r] EXCEPT !.phase = "charge"]
    BY <1>1 DEF Task, Phase
  <2>2. t.phase = "charge" /\ t.vault = task[r].vault /\ ~ t.gone
    BY <1>1, <2>1 DEF Task, AloneSound
  <2>3. AloneSound(t) /\ task' = [task EXCEPT ![r] = t]
    BY <1>1, <1>3, <2>1, <2>2 DEF AloneSound, Go
  <2> QED
    BY <1>1, <2>3, SerialQuiet
<1> QED
  BY <1>2, <1>3 DEF Begin

LEMMA SerialCreateVault ==
    ASSUME IInv, SerialInv, NEW r \in Requests, Others(r), CreateVault(r), faults' = 0
    PROVE  SerialKept
<1>1. /\ task[r] \in Task /\ task[r].phase = "vault" /\ ~ task[r].gone /\ faults = 0
      /\ Sound(task[r]) /\ UNCHANGED <<charges, methods, subs, record>>
  BY DEF IInv, Types, SerialInv, AloneSound, CreateVault, At
<1>2. CASE End(r) /\ UNCHANGED vaults
  BY <1>1, <1>2, SerialEnds
<1>3. PICK v \in Vault : v = [user |-> task[r].key.user, at |-> task[r].at,
                             token |-> task[r].key.card, live |-> TRUE]
  BY <1>1 DEF Task, Keys, Vault, Sound
<1>4. CASE /\ Len(vaults) < MaxVaults /\ vaults' = Append(vaults, v)
           /\ task' = [task EXCEPT ![r].phase = "store", ![r].vault = Len(vaults')]
  <2>1. PICK n \in VaultIds : n = Len(vaults') /\ vaults'[n] = v
    BY <1>1, <1>4, FaultsBound, VaultCreated
  <2>2. \A w \in Indices(vaults) : w \in Indices(vaults') /\ vaults'[w] = vaults[w]
    BY <1>4, Appended DEF IInv, Types, Indices
  <2>3. PICK x \in Task : x = [task[r] EXCEPT !.phase = "store"]
    BY <1>1 DEF Task, Phase
  <2>4. PICK t \in Task : t = [x EXCEPT !.vault = n]
    BY VaultIdsFit DEF Task
  <2>5. t.phase = "store" /\ t.vault = n /\ ~ t.gone
    BY <1>1, <2>3, <2>4 DEF Task
  <2>6. task' = [task EXCEPT ![r] = t]
    BY <1>4, <2>1, <2>3, <2>4
  <2>7. AloneSound(t)'
    BY <1>3, <2>1, <2>5 DEF AloneSound
  <2>8. /\ \A w \in VaultIds : methods'[w].active => w \in Indices(vaults') /\ vaults'[w].live
        /\ \A i \in Indices(charges') : \E j \in Indices(subs') : subs'[j].charge = i
    BY <1>1, <2>2, SerialRest DEF Cleans, Inserts, Charged, Indices
  <2> QED
    BY <2>6, <2>7, <2>8, SerialMoves
<1> QED
  BY <1>1, <1>2, <1>3, <1>4 DEF CreateVault, Fault

LEMMA SerialStoreMethod ==
    ASSUME IInv, SerialInv, NEW r \in Requests, Others(r), StoreMethod(r)
    PROVE  SerialKept
<1>1. /\ task[r] \in Task /\ task[r].phase = "store" /\ Sound(task[r]) /\ AloneSound(task[r])
      /\ UNCHANGED <<vaults, charges, subs>>
  BY DEF IInv, Types, SerialInv, StoreMethod, Statement, At
<1>2. PICK m \in Method :
             m = [user |-> task[r].key.user, provider |-> task[r].at, active |-> TRUE]
  BY <1>1 DEF Task, Keys, Method
<1>3. PICK v \in VaultIds : v = task[r].vault
  BY <1>1, Entries, CheckoutAssumption DEF Sound, OfVault, Indices, VaultIds, IInv, Types
<1>4. /\ v \in Indices(vaults') /\ vaults'[v].live /\ m.user # Nobody
      /\ methods' = [methods EXCEPT ![v] = m]
  BY <1>1, <1>2, <1>3, CheckoutAssumption
     DEF Sound, OfVault, Indices, AloneSound, Task, Keys, StoreMethod
<1>5. methods'[v] = m /\ \A w \in VaultIds : w # v => methods'[w] = methods[w]
  BY <1>4 DEF IInv, Types
<1>6. PICK t \in Task :
          /\ task' = [task EXCEPT ![r] = t] /\ ~ t.gone
          /\ (t.phase = "charge" /\ t.vault = v) \/ t.phase = "idle"
  <2>1. CASE End(r)
    BY <2>1, NoTaskIsTask, IdleTask DEF End
  <2>2. CASE task' = [task EXCEPT ![r].phase = "charge", ![r].copy = m]
    <3>1. PICK x \in Task : x = [task[r] EXCEPT !.phase = "charge"]
      BY <1>1 DEF Task, Phase
    <3>2. PICK t \in Task : t = [x EXCEPT !.copy = m]
      BY DEF Task
    <3>3. t.phase = "charge" /\ t.vault = v /\ ~ t.gone
      BY <1>1, <1>3, <3>1, <3>2 DEF Task, AloneSound
    <3>4. task' = [task EXCEPT ![r] = t]
      BY <2>2, <3>1, <3>2
    <3> QED
      BY <3>3, <3>4
  <2> QED
    BY <1>2, <2>1, <2>2 DEF StoreMethod
<1>7. AloneSound(t)'
  BY <1>4, <1>5, <1>6 DEF AloneSound
<1>8. /\ \A w \in VaultIds : methods'[w].active => w \in Indices(vaults') /\ vaults'[w].live
      /\ \A i \in Indices(charges') : \E j \in Indices(subs') : subs'[j].charge = i
  BY <1>1, <1>4, <1>5, SerialRest DEF Cleans, Inserts, Charged, Indices
<1> QED
  BY <1>6, <1>7, <1>8, SerialMoves

LEMMA SerialChargeVault ==
    ASSUME IInv, SerialInv, NEW r \in Requests, Others(r), ChargeVault(r), faults' = 0
    PROVE  SerialKept
<1>1. /\ task[r] \in Task /\ task[r].phase = "charge" /\ AloneSound(task[r]) /\ faults = 0
      /\ UNCHANGED <<vaults, methods, subs>>
  BY DEF IInv, Types, SerialInv, ChargeVault, At
<1>2. CASE Go(r, "fail") /\ UNCHANGED charges
  BY <1>1, <1>2, SerialEnds
<1>3. CASE /\ charges' = Append(charges, [key |-> task[r].key, vault |-> task[r].vault,
                                          at |-> task[r].at])
           /\ Len(charges) < MaxCharges
           /\ task' = [task EXCEPT ![r].phase = "complete", ![r].charge = Len(charges')]
  <2>1. PICK n : n = Len(charges')
    OBVIOUS
  <2>2. Indices(charges') = Indices(charges) \cup {n} /\ n \in 0..MaxCharges
    <3>1. Len(charges) \in Nat /\ DOMAIN charges = 1..Len(charges)
      BY Entries DEF IInv, Types
    <3>2. Len(charges') = Len(charges) + 1 /\ DOMAIN charges' = 1..Len(charges')
      BY <1>3, <3>1
    <3> QED
      BY <1>3, <2>1, <3>1, <3>2, CheckoutAssumption DEF Indices
  <2>3. PICK x \in Task : x = [task[r] EXCEPT !.phase = "complete"]
    BY <1>1 DEF Task, Phase
  <2>4. PICK t \in Task : t = [x EXCEPT !.charge = n]
    BY <2>2 DEF Task
  <2>5. t.phase = "complete" /\ t.charge = n /\ t.vault = task[r].vault /\ ~ t.gone
    BY <1>1, <2>3, <2>4 DEF Task, AloneSound
  <2>6. task' = [task EXCEPT ![r] = t]
    BY <1>3, <2>1, <2>3, <2>4
  <2>7. AloneSound(t)'
    BY <1>1, <2>5 DEF AloneSound
  <2>8. /\ \A v \in VaultIds : methods'[v].active => v \in Indices(vaults') /\ vaults'[v].live
        /\ \A i \in Indices(charges') :
               (\E j \in Indices(subs') : subs'[j].charge = i) \/ Inserts(t, i)
    BY <1>1, <2>2, <2>5, SerialRest DEF Cleans, Inserts, Charged, Indices
  <2> QED
    BY <2>6, <2>7, <2>8, SerialMoves
<1> QED
  BY <1>1, <1>2, <1>3 DEF ChargeVault, Fault

LEMMA SerialCompleteRecord ==
    ASSUME IInv, SerialInv, NEW r \in Requests, Others(r), CompleteRecord(r)
    PROVE  SerialKept
<1>1. /\ task[r] \in Task /\ task[r].phase = "complete" /\ AloneSound(task[r])
      /\ UNCHANGED <<vaults, charges, methods, subs>> /\ Go(r, "insert")
  BY DEF IInv, Types, SerialInv, CompleteRecord, Statement, At
<1>2. PICK t \in Task : t = [task[r] EXCEPT !.phase = "insert"]
  BY <1>1 DEF Task, Phase
<1>3. /\ t.phase = "insert" /\ t.charge = task[r].charge /\ t.vault = task[r].vault
      /\ ~ t.gone
  BY <1>1, <1>2 DEF Task, AloneSound
<1>4. AloneSound(t)' /\ task' = [task EXCEPT ![r] = t]
  BY <1>1, <1>2, <1>3 DEF AloneSound, Go
<1>5. /\ \A v \in VaultIds : methods'[v].active => v \in Indices(vaults') /\ vaults'[v].live
      /\ \A i \in Indices(charges') :
             (\E j \in Indices(subs') : subs'[j].charge = i) \/ Inserts(t, i)
  BY <1>1, <1>3, SerialRest DEF Cleans, Inserts, Charged, Indices
<1> QED
  BY <1>4, <1>5, SerialMoves

LEMMA SerialInsertRow ==
    ASSUME IInv, SerialInv, NEW r \in Requests, Others(r), InsertRow(r)
    PROVE  SerialKept
<1>1. /\ task[r] \in Task /\ task[r].phase = "insert" /\ AloneSound(task[r])
      /\ UNCHANGED <<vaults, charges, methods>> /\ End(r)
  BY DEF IInv, Types, SerialInv, InsertRow, Statement, At
<1>2. PICK t \in Task : t = NoTask
  BY NoTaskIsTask
<1>3. AloneSound(t)' /\ task' = [task EXCEPT ![r] = t]
  BY <1>1, <1>2, IdleTask DEF End
<1>4. methods[task[r].vault] # NoMethod
  BY <1>1 DEF AloneSound, NoMethod
<1>5. PICK x : x = [key |-> task[r].key, method |-> task[r].vault, charge |-> task[r].charge,
                    provider |-> task[r].copy.provider, status |-> "pending"]
  OBVIOUS
<1>6. subs' = Append(subs, x)
  BY <1>4, <1>5 DEF InsertRow
<1>7. x \in Row
  <2>1. task[r].charge \in 1..MaxCharges
    BY <1>1, ChargeEntries DEF Sound, Charged, IInv
  <2> QED
    BY <1>1, <1>5, <2>1 DEF Task, Method, Row
<1>8. /\ \A j \in Indices(subs) : j \in Indices(subs') /\ subs'[j] = subs[j]
      /\ Len(subs') \in Indices(subs') /\ subs'[Len(subs')] = x
  BY <1>6, <1>7, Appended DEF IInv, Types, Indices
<1>9. /\ \A v \in VaultIds : methods'[v].active => v \in Indices(vaults') /\ vaults'[v].live
      /\ \A i \in Indices(charges') : \E j \in Indices(subs') : subs'[j].charge = i
  <2>1. subs'[Len(subs')].charge = task[r].charge
    BY <1>5, <1>8
  <2> QED
    BY <1>1, <1>8, <2>1, SerialRest DEF Cleans, Inserts, Charged, Indices
<1> QED
  BY <1>3, <1>9, SerialMoves

LEMMA SerialCleanVault ==
    ASSUME IInv, SerialInv, NEW r \in Requests, Others(r), CleanVault(r), faults' = 0
    PROVE  SerialKept
<1>1. /\ task[r] \in Task /\ task[r].phase = "cleanVault" /\ ~ task[r].gone
      /\ UNCHANGED <<charges, methods, subs>> /\ faults = 0
      /\ DropVault(task[r].vault) /\ Go(r, "cleanMethod")
  BY DEF IInv, Types, SerialInv, AloneSound, CleanVault, At, Fault
<1>2. PICK t \in Task : t = [task[r] EXCEPT !.phase = "cleanMethod"]
  BY <1>1 DEF Task, Phase
<1>3. t.phase = "cleanMethod" /\ t.vault = task[r].vault /\ ~ t.gone
  BY <1>1, <1>2 DEF Task
<1>4. AloneSound(t)' /\ task' = [task EXCEPT ![r] = t]
  BY <1>1, <1>2, <1>3 DEF AloneSound, Go
<1>5. /\ Indices(vaults') = Indices(vaults)
      /\ \A v \in Indices(vaults) : v # t.vault => vaults'[v] = vaults[v]
  BY <1>1, <1>3 DEF DropVault, Indices
<1>6. /\ \A v \in VaultIds : methods'[v].active =>
             v \in Indices(vaults') /\ (vaults'[v].live \/ Cleans(t, v))
      /\ \A i \in Indices(charges') : \E j \in Indices(subs') : subs'[j].charge = i
  BY <1>1, <1>3, <1>5, SerialRest DEF Cleans, Inserts, Charged, Indices
<1> QED
  BY <1>4, <1>6, SerialMoves

LEMMA SerialCleanMethod ==
    ASSUME IInv, SerialInv, NEW r \in Requests, Others(r), CleanMethod(r)
    PROVE  SerialKept
<1>1. /\ task[r] \in Task /\ task[r].phase = "cleanMethod"
      /\ UNCHANGED <<vaults, charges, subs>> /\ End(r)
  BY DEF IInv, Types, CleanMethod, Statement, At
<1>2. PICK t \in Task : t = NoTask
  BY NoTaskIsTask
<1>3. AloneSound(t)' /\ task' = [task EXCEPT ![r] = t]
  BY <1>1, <1>2, IdleTask DEF End
<1>4. PICK v : v = task[r].vault
  OBVIOUS
<1>5. PICK m \in Method : m = [task[r].copy EXCEPT !.active = FALSE]
  BY <1>1 DEF Task, Method
<1>6. ~ m.active
  <2>1. task[r].copy \in Method
    BY <1>1 DEF Task
  <2> QED
    BY <1>5, <2>1 DEF Method
<1>7. ASSUME NEW w \in VaultIds, methods'[w].active PROVE methods[w].active /\ w # v
  <2>1. CASE methods[v] = NoMethod
    <3>1. methods' = methods /\ ~ NoMethod.active
      BY <1>4, <2>1 DEF CleanMethod, Overwrite, NoMethod
    <3> QED
      BY <1>7, <2>1, <3>1
  <2>2. CASE methods[v] # NoMethod
    <3>1. methods' = [methods EXCEPT ![v] = m]
      BY <1>4, <1>5, <2>2 DEF CleanMethod, Overwrite
    <3>2. methods'[w] = IF w = v THEN m ELSE methods[w]
      BY <3>1 DEF IInv, Types
    <3> QED
      BY <1>6, <1>7, <3>2
  <2> QED
    BY <2>1, <2>2
<1>8. /\ \A w \in VaultIds : methods'[w].active => w \in Indices(vaults') /\ vaults'[w].live
      /\ \A i \in Indices(charges') : \E j \in Indices(subs') : subs'[j].charge = i
  BY <1>1, <1>4, <1>7, SerialRest DEF Cleans, Inserts, Charged, Indices
<1> QED
  BY <1>3, <1>8, SerialMoves

LEMMA SerialUpdateVault ==
    ASSUME IInv, SerialInv, NEW r \in Requests, Others(r), UpdateVault(r)
    PROVE  SerialKept
<1>1. /\ task[r] \in Task /\ task[r].phase = "update" /\ ~ task[r].gone
      /\ UNCHANGED <<vaults, charges, methods, subs>>
  BY DEF IInv, Types, SerialInv, AloneSound, UpdateVault, At
<1>2. CASE End(r)
  BY <1>1, <1>2, SerialEnds
<1>3. CASE Reachable(task[r].vault, task[r].at) /\ Go(r, "updateMethod")
  <2>1. PICK t \in Task : t = [task[r] EXCEPT !.phase = "updateMethod"]
    BY <1>1 DEF Task, Phase
  <2>2. t.phase = "updateMethod" /\ t.vault = task[r].vault /\ ~ t.gone
    BY <1>1, <2>1 DEF Task
  <2>3. AloneSound(t) /\ task' = [task EXCEPT ![r] = t]
    BY <1>3, <2>1, <2>2 DEF AloneSound, Go, Reachable
  <2> QED
    BY <1>1, <2>3, SerialQuiet
<1> QED
  BY <1>2, <1>3 DEF UpdateVault

LEMMA SerialUpdateMethod ==
    ASSUME IInv, SerialInv, NEW r \in Requests, Others(r), UpdateMethod(r)
    PROVE  SerialKept
<1>1. /\ task[r] \in Task /\ task[r].phase = "updateMethod" /\ Sound(task[r])
      /\ AloneSound(task[r]) /\ UNCHANGED <<vaults, charges, subs>> /\ End(r)
  BY DEF IInv, Types, SerialInv, UpdateMethod, Statement, At
<1>2. PICK t \in Task : t = NoTask
  BY NoTaskIsTask
<1>3. AloneSound(t)' /\ task' = [task EXCEPT ![r] = t]
  BY <1>1, <1>2, IdleTask DEF End
<1>4. PICK v : v = task[r].vault
  OBVIOUS
<1>5. v \in Indices(vaults) /\ vaults[v].live
  BY <1>1, <1>4 DEF Sound, OfVault, AloneSound
<1>6. \A w \in VaultIds : w # v => methods'[w] = methods[w]
  BY <1>4 DEF UpdateMethod, Overwrite, IInv, Types
<1>7. /\ \A w \in VaultIds : methods'[w].active => w \in Indices(vaults') /\ vaults'[w].live
      /\ \A i \in Indices(charges') : \E j \in Indices(subs') : subs'[j].charge = i
  BY <1>1, <1>5, <1>6, SerialRest DEF Cleans, Inserts, Charged, Indices
<1> QED
  BY <1>3, <1>7, SerialMoves

LEMMA SerialDeleteMethod ==
    ASSUME IInv, SerialInv, NEW r \in Requests, Others(r), DeleteMethod(r)
    PROVE  SerialKept
<1>1. /\ task[r].phase = "delete" /\ UNCHANGED <<vaults, charges>> /\ End(r)
  BY DEF DeleteMethod, Statement, At
<1>2. PICK t \in Task : t = NoTask
  BY NoTaskIsTask
<1>3. AloneSound(t)' /\ task' = [task EXCEPT ![r] = t]
  BY <1>1, <1>2, IdleTask DEF End
<1>4. ~ NoMethod.active
  BY DEF NoMethod
<1>5. \A w \in VaultIds : methods'[w].active => methods[w].active
  BY <1>4 DEF DeleteMethod, IInv, Types
<1>6. /\ Indices(subs') = Indices(subs)
      /\ \A i \in Indices(subs) : subs'[i].charge = subs[i].charge
  <2>1. \A i \in Indices(subs) : subs[i] \in Row
    BY Entries DEF IInv, Types, Indices
  <2> QED
    BY <2>1 DEF DeleteMethod, Indices, Row
<1>7. /\ \A w \in VaultIds : methods'[w].active => w \in Indices(vaults') /\ vaults'[w].live
      /\ \A i \in Indices(charges') : \E j \in Indices(subs') : subs'[j].charge = i
  BY <1>1, <1>5, <1>6, SerialRest DEF Cleans, Inserts, Charged, Indices
<1> QED
  BY <1>3, <1>7, SerialMoves

LEMMA SerialStep ==
    ASSUME IInv, SerialInv, NEW r \in Requests, Others(r), Step(r), faults' = 0
    PROVE  SerialKept
<1>1. ~ task[r].gone /\ task[r].phase # "unstore"
  BY DEF SerialInv, AloneSound
<1>2. ASSUME FailRecord(r) PROVE SerialKept
  <2>1. /\ UNCHANGED <<vaults, charges, methods, subs>> /\ task[r].phase = "fail"
        /\ End(r) \/ Go(r, "cleanCheck")
    BY <1>2 DEF FailRecord, AfterFailure, Statement, At
  <2> QED
    BY <2>1, SerialEnds
<1>3. ASSUME CheckUse(r) PROVE SerialKept
  <2>1. /\ UNCHANGED <<vaults, charges, methods, subs>> /\ task[r].phase = "cleanCheck"
        /\ End(r) \/ Go(r, "cleanVault")
    BY <1>3 DEF CheckUse, Statement, At
  <2> QED
    BY <2>1, SerialEnds
<1>4. ASSUME Activate(r) PROVE SerialKept
  <2>1. /\ UNCHANGED <<vaults, charges, methods, subs>> /\ task[r].phase = "activate"
        /\ End(r)
    BY <1>4 DEF Activate, Statement, At, Usable
  <2> QED
    BY <2>1, SerialEnds
<1>5. ~ StatementFails(r) /\ ~ Unstore(r)
  BY <1>1 DEF StatementFails, Unstore, At
<1> QED
  BY <1>2, <1>3, <1>4, <1>5, SerialValidate, SerialBegin, SerialCreateVault,
     SerialStoreMethod, SerialChargeVault, SerialCompleteRecord, SerialInsertRow,
     SerialCleanVault, SerialCleanMethod, SerialUpdateVault, SerialUpdateMethod,
     SerialDeleteMethod DEF Step

\* Webhooks change the status of a row.
LEMMA SerialStatus ==
    ASSUME IInv, SerialInv, NEW i \in Indices(subs), Confirm(i) \/ CancelRow(i)
    PROVE  SerialKept
<1>1. UNCHANGED <<vaults, charges, methods, task>>
  BY DEF Confirm, CancelRow
<1>2. /\ Indices(subs') = Indices(subs)
      /\ \A j \in Indices(subs) : subs'[j].charge = subs[j].charge
  <2>1. \A j \in Indices(subs) : subs[j] \in Row
    BY Entries DEF IInv, Types, Indices
  <2> QED
    BY <2>1 DEF Confirm, CancelRow, Indices, Row
<1> QED
  BY <1>1, <1>2
     DEF SerialInv, SerialKept, AloneSound, Living, Rowed, Cleans, Inserts, Charged, Indices

\* A set that has one member at most.
LEMMA AtMostOne ==
    ASSUME NEW S, IsFiniteSet(S), Cardinality(S) <= 1, NEW q \in S, NEW r \in S
    PROVE  q = r
<1> SUFFICES ASSUME q # r PROVE FALSE
  OBVIOUS
<1> DEFINE R == S \ {q}
<1>1. IsFiniteSet(R) /\ Cardinality(R) = Cardinality(S) - 1
  BY FS_RemoveElement
<1>2. r \in R
  OBVIOUS
<1>3. Cardinality(R) \in Nat /\ (Cardinality(R) = 0 <=> R = {}) /\ Cardinality(S) \in Nat
  BY <1>1, FS_CardinalityType, FS_EmptySet
<1> HIDE DEF R
<1> QED
  BY <1>1, <1>2, <1>3

LEMMA AloneNext == ASSUME OneAtATime PROVE Alone' /\ faults' = 0
<1> DEFINE S == {r \in Requests : task'[r] # NoTask}
<1>1. IsFiniteSet(S) /\ Cardinality(S) <= 1
  BY MCCheckoutAssumption, FS_Subset DEF OneAtATime
<1> HIDE DEF S
<1>2. \A q, r \in S : q = r
  BY <1>1, AtMostOne
<1>3. NoTask' = NoTask
  BY DEF NoTask, NoMethod, Keys, Cards, VaultIds
<1> QED
  BY <1>2, <1>3 DEF S, Alone, OneAtATime

\* A request that has been running, or that has just begun, is the only one.
LEMMA RunningAlone ==
    ASSUME IInv, SerialInv, NEW r \in Requests, Step(r)
    PROVE  Others(r)
<1>1. task[r].phase # "idle" \/ task[r].gone
  <2>1. ASSUME Validate(r) \/ Begin(r) \/ CreateVault(r) \/ StoreMethod(r) \/ Unstore(r)
               \/ ChargeVault(r) \/ CompleteRecord(r) \/ InsertRow(r)
        PROVE  task[r].phase # "idle"
    <3>1. \E phase \in {"validate", "begin", "vault", "store", "unstore", "charge", "complete",
                        "insert"} : At(r, phase)
      BY <2>1 DEF Validate, Begin, CreateVault, StoreMethod, Unstore, ChargeVault,
         CompleteRecord, InsertRow, Statement
    <3> QED
      BY <3>1 DEF At
  <2>2. ASSUME FailRecord(r) \/ CheckUse(r) \/ CleanVault(r) \/ CleanMethod(r)
               \/ UpdateVault(r) \/ UpdateMethod(r) \/ DeleteMethod(r) \/ Activate(r)
        PROVE  task[r].phase # "idle"
    <3>1. \E phase \in {"fail", "cleanCheck", "cleanVault", "cleanMethod", "update",
                        "updateMethod", "delete", "activate"} : At(r, phase)
      BY <2>2 DEF FailRecord, CheckUse, CleanVault, CleanMethod, UpdateVault, UpdateMethod,
         DeleteMethod, Activate, Statement
    <3> QED
      BY <3>1 DEF At
  <2>3. StatementFails(r) => task[r].gone
    BY DEF StatementFails
  <2> QED
    BY <2>1, <2>2, <2>3 DEF Step
<1>2. task[r] # NoTask
  BY <1>1, IdleTask
<1> QED
  BY <1>2 DEF SerialInv, Alone, Others

LEMMA BegunAlone ==
    ASSUME IInv, SerialInv, Alone', NEW r \in Requests, NEW t \in Task, Start(r, t),
           t.phase # "idle"
    PROVE  Others(r)
<1>1. task'[r] = t /\ \A q \in Requests : q # r => task'[q] = task[q]
  BY DEF IInv, Types, Start
<1>2. task'[r] # NoTask
  BY <1>1, IdleTask
<1>3. NoTask' = NoTask
  BY DEF NoTask, NoMethod, Keys, Cards, VaultIds
<1> QED
  BY <1>1, <1>2, <1>3 DEF Alone, Others

LEMMA HandledAlone ==
    ASSUME IInv, SerialInv, Alone', NEW r \in Requests, Handle(r)
    PROVE  Others(r)
<1>1. ASSUME NEW k \in Keys, NEW a \in Providers, Subscribe(r, k, a) PROVE Others(r)
  <2> DEFINE phase == IF k.card \in Tokens THEN "begin" ELSE "validate"
  <2>1. PICK t \in Task : t = [NoTask EXCEPT !.phase = phase, !.key = k, !.at = a]
    BY NoTaskIsTask DEF Task, Phase
  <2>2. t.phase = phase
    BY <2>1, NoTaskIsTask DEF Task
  <2>3. Start(r, t)
    BY <1>1, <2>1 DEF Subscribe
  <2> QED
    BY <2>2, <2>3, BegunAlone
<1>2. ASSUME NEW k \in Keys, NEW a \in Providers, CreatePaymentMethod(r, k, a)
      PROVE  Others(r)
  <2>1. PICK t \in Task :
              t = [NoTask EXCEPT !.phase = "vault", !.saving = TRUE, !.key = k, !.at = a]
    BY NoTaskIsTask DEF Task, Phase
  <2>2. t.phase = "vault"
    BY <2>1, NoTaskIsTask DEF Task
  <2>3. Start(r, t)
    BY <1>2, <2>1 DEF CreatePaymentMethod
  <2> QED
    BY <2>2, <2>3, BegunAlone
<1>3. ASSUME NEW u \in Users, NEW v \in VaultIds, NEW a \in Providers,
             NEW phase \in {"update", "delete", "activate"}, OnMethod(r, phase, u, v, a)
      PROVE  Others(r)
  <2>1. PICK t \in Task : Start(r, t) /\ t.phase = phase
    BY <1>3, MethodTask
  <2> QED
    BY <2>1, BegunAlone
<1>4. \A v \in VaultIds : methods[v].provider \in Providers
  BY DEF IInv, Types, Method
<1> QED
  BY <1>1, <1>2, <1>3, <1>4
     DEF Handle, UpdatePaymentMethod, DeletePaymentMethod, ActivatePaymentMethod

LEMMA SerialNextKeeps ==
    ASSUME IInv, SerialInv, Next, OneAtATime
    PROVE  SerialInv'
<1>1. Alone' /\ faults' = 0
  BY AloneNext
<1>2. SerialKept
  <2>1. ASSUME NEW i \in Indices(subs), Confirm(i) \/ CancelRow(i) PROVE SerialKept
    BY <2>1, SerialStatus
  <2>2. ASSUME NEW r \in Requests, Handle(r) PROVE SerialKept
    BY <1>1, <2>2, HandledAlone, SerialHandle
  <2>3. ASSUME NEW r \in Requests, Step(r) PROVE SerialKept
    BY <1>1, <2>3, RunningAlone, SerialStep
  <2>4. ASSUME NEW r \in Requests, Disconnect(r) \/ Crash(r) PROVE SerialKept
    BY <1>1, <2>4 DEF Disconnect, Crash, Fault, SerialInv
  <2> QED
    BY <2>1, <2>2, <2>3, <2>4 DEF Next
<1> QED
  BY <1>1, <1>2 DEF SerialInv, SerialKept

LEMMA SerialBegins == ASSUME Init PROVE SerialInv
<1>1. \A r \in Requests : task[r] = NoTask
  BY DEF Init
<1>2. \A v \in VaultIds : ~ methods[v].active
  BY DEF Init, NoMethod
<1> QED
  BY <1>1, <1>2, IdleTask DEF Init, SerialInv, Alone, Living, Rowed, Indices

MCInv == IInv /\ (part = "serial checkout" => SerialInv)

LEMMA MCBegins == ASSUME MCInit PROVE MCInv
  BY Begins, SerialBegins DEF MCInit, MCInv

LEMMA MCKeeps == ASSUME MCInv, [MCNext]_<<vars, ledgerVars, part>> PROVE MCInv'
<1>1. [Next]_vars
  BY DEF MCNext, vars
<1>2. IInv'
  BY <1>1, NextKeeps DEF MCInv
<1>3. ASSUME part' = "serial checkout" PROVE SerialInv'
  <2>1. IInv /\ SerialInv /\ part = "serial checkout"
    BY <1>3 DEF MCInv, MCNext
  <2>2. CASE Next /\ OneAtATime
    BY <2>1, <2>2, SerialNextKeeps
  <2>3. CASE UNCHANGED vars
    <3>1. NoTask' = NoTask
      BY DEF NoTask, NoMethod, Keys, Cards, VaultIds
    <3>2. Alone' /\ faults' = 0
      BY <2>1, <2>3, <3>1 DEF vars, SerialInv, Alone
    <3>3. \A r \in Requests : AloneSound(task[r])'
      BY <2>1, <2>3 DEF vars, SerialInv, AloneSound
    <3>4. Living'
      BY <2>1, <2>3 DEF vars, SerialInv, Living, Cleans, Indices
    <3>5. Rowed'
      BY <2>1, <2>3 DEF vars, SerialInv, Rowed, Inserts, Charged, Indices
    <3> QED
      BY <3>2, <3>3, <3>4, <3>5 DEF SerialInv
  <2> QED
    BY <2>1, <2>2, <2>3 DEF MCNext
<1> QED
  BY <1>2, <1>3 DEF MCInv

LEMMA Resting == ASSUME Quiet, NEW r \in Requests PROVE task[r].phase = "idle"
  BY IdleTask DEF Quiet

\* One request at a time and no fault: a payment method that is active has a vault
\* at the gateway, as DeleteVault deactivates what it has deleted (vault_service.go:198).
THEOREM SerialMethodsLive == MCSpec => []SerialActiveHasVault
<1>1. MCInv => SerialActiveHasVault
  BY Resting DEF MCInv, SerialInv, SerialActiveHasVault, ActiveHasVault, Living, Cleans
<1> QED
  BY <1>1, MCBegins, MCKeeps, PTL DEF MCSpec

\* One request at a time and no fault: what the gateway charges has a row once the
\* request is over.
THEOREM SerialChargesHaveRows == MCSpec => []SerialChargeHasRow
<1>1. MCInv => SerialChargeHasRow
  BY Resting DEF MCInv, SerialInv, SerialChargeHasRow, ChargeHasRow, Rowed, Inserts, Charged
<1> QED
  BY <1>1, MCBegins, MCKeeps, PTL DEF MCSpec

-----------------------------------------------------------------------------
(* Sums over a finite set: that one exists, that it is the same whatever    *)
(* set it is part of, and what an element adds to it.  The induction is     *)
(* over the subsets of the set, as inclusion of finite sets is well-founded.*)

\* The element a sum takes first.
First(s) == CHOOSE x \in s : TRUE

\* g sums the weights w over each of the subsets of T.
IsSum(g, w, T) ==
    g = [s \in SUBSET T |-> IF s = {} THEN 0 ELSE w[First(s)] + g[s \ {First(s)}]]

LEMMA FirstIsIn == \A s : s # {} => First(s) \in s
  BY DEF First

\* Among subsets of a finite set one is smallest: the induction of this section.
LEMMA Smallest ==
    ASSUME NEW S, IsFiniteSet(S), NEW B, B \subseteq SUBSET S, B # {}
    PROVE  \E T \in B : \A U \in B : U \subseteq T => U = T
<1>1. PICK W : W = FiniteSubsetsOf(S)
  OBVIOUS
<1>2. W = SUBSET S
  BY <1>1, FS_FiniteSubsetsOfFinite
<1>3. IsWellFoundedOn(StrictSubsetOrdering(S), W)
  BY <1>1, FS_StrictSubsetOrderingWellFounded
<1>4. PICK T \in B : \A U \in B : ~ (<<U, T>> \in StrictSubsetOrdering(S))
  BY <1>2, <1>3, WFMin
<1>5. ASSUME NEW U \in B, U \subseteq T, U # T
      PROVE  FALSE
  BY <1>4, <1>5 DEF StrictSubsetOrdering
<1> QED
  BY <1>4, <1>5

LEMMA SumStep ==
    ASSUME NEW T, NEW g, NEW w, IsSum(g, w, T), NEW s \in SUBSET T
    PROVE  /\ s = {} => g[s] = 0
           /\ s # {} => g[s] = w[First(s)] + g[s \ {First(s)}]
  BY DEF IsSum

\* The sum of a set does not depend on the set it is summed in.
LEMMA SumsAgree ==
    ASSUME NEW S, IsFiniteSet(S), NEW w, NEW V \in SUBSET S, NEW g, NEW h,
           IsSum(g, w, S), IsSum(h, w, V)
    PROVE  g[V] = h[V]
<1> SUFFICES ASSUME g[V] # h[V] PROVE FALSE
  OBVIOUS
<1>1. PICK D : D = {t \in SUBSET V : g[t] # h[t]}
  OBVIOUS
<1>2. PICK t \in D : \A u \in D : u \subseteq t => u = t
  <2>1. V \in D /\ D \subseteq SUBSET S
    BY <1>1
  <2> QED
    BY <2>1, Smallest
<1>3. t \in SUBSET S /\ t \in SUBSET V /\ g[t] # h[t]
  BY <1>1, <1>2
<1>4. PICK u : u = t \ {First(t)}
  OBVIOUS
<1>5. t # {} /\ g[u] # h[u]
  <2>1. /\ t = {} => g[t] = 0
        /\ t # {} => g[t] = w[First(t)] + g[u]
    BY <1>3, <1>4 DEF IsSum
  <2>2. /\ t = {} => h[t] = 0
        /\ t # {} => h[t] = w[First(t)] + h[u]
    BY <1>3, <1>4 DEF IsSum
  <2> QED
    BY <1>3, <2>1, <2>2
<1>6. u \in D /\ u # t
  BY <1>1, <1>3, <1>4, <1>5, FirstIsIn
<1> QED
  BY <1>2, <1>4, <1>6

LEMMA SumExists ==
    ASSUME NEW S, IsFiniteSet(S), NEW w
    PROVE  \E g : IsSum(g, w, S)
<1> SUFFICES ASSUME ~ \E g : IsSum(g, w, S) PROVE FALSE
  OBVIOUS
<1>1. PICK D : D = {t \in SUBSET S : ~ \E g : IsSum(g, w, t)}
  OBVIOUS
<1>2. PICK t \in D : \A u \in D : u \subseteq t => u = t
  <2>1. S \in D /\ D \subseteq SUBSET S
    BY <1>1
  <2> QED
    BY <2>1, Smallest
<1>3. PICK G : G = [u \in SUBSET t |-> CHOOSE g : IsSum(g, w, u)]
  OBVIOUS
<1>4. ASSUME NEW u \in SUBSET t, u # t
      PROVE  IsSum(G[u], w, u)
  <2>1. u \in SUBSET S /\ u \notin D
    BY <1>1, <1>2, <1>4
  <2>2. \E g : IsSum(g, w, u)
    BY <1>1, <2>1
  <2> QED
    BY <1>3, <2>2
<1>5. PICK h : h = [s \in SUBSET t |-> IF s = {} THEN 0
                                       ELSE w[First(s)] + G[s \ {First(s)}][s \ {First(s)}]]
  OBVIOUS
<1>6. ASSUME NEW u \in SUBSET t, u # t
      PROVE  h[u] = G[u][u]
  <2>1. PICK v : v = u \ {First(u)}
    OBVIOUS
  <2>2. v \in SUBSET t /\ v # t /\ v \subseteq u /\ v \in SUBSET S /\ u \in SUBSET S
    BY <1>1, <1>2, <1>6, <2>1
  <2>3. IsSum(G[u], w, u) /\ IsSum(G[v], w, v)
    BY <1>4, <1>6, <2>2
  <2>4. G[u][v] = G[v][v]
    <3>1. PICK g, k : g = G[u] /\ k = G[v] /\ IsSum(g, w, u) /\ IsSum(k, w, v)
      BY <2>3
    <3>2. IsFiniteSet(u) /\ v \in SUBSET u
      BY <2>2, FS_Subset
    <3>3. g[v] = k[v]
      BY <3>1, <3>2, SumsAgree
    <3> QED
      BY <3>1, <3>3
  <2>5. /\ u = {} => G[u][u] = 0
        /\ u # {} => G[u][u] = w[First(u)] + G[u][v]
    BY <2>1, <2>3, SumStep
  <2>6. CASE u = {}
    <3>1. h[u] = 0
      BY <1>5, <2>6
    <3> QED
      BY <2>5, <2>6, <3>1
  <2>7. CASE u # {}
    <3>1. h[u] = w[First(u)] + G[v][v]
      BY <1>5, <2>1, <2>7
    <3>2. G[u][u] = w[First(u)] + G[v][v]
      BY <2>4, <2>5, <2>7
    <3> QED
      BY <3>1, <3>2
  <2> QED
    BY <2>6, <2>7
<1>7. \A s \in SUBSET t : s # {} => G[s \ {First(s)}][s \ {First(s)}] = h[s \ {First(s)}]
  <2> SUFFICES ASSUME NEW s \in SUBSET t, s # {}
               PROVE  G[s \ {First(s)}][s \ {First(s)}] = h[s \ {First(s)}]
    OBVIOUS
  <2>1. s \ {First(s)} \in SUBSET t /\ s \ {First(s)} # t
    BY FirstIsIn
  <2> QED
    BY <1>6, <2>1
<1>8. IsSum(h, w, t)
  BY <1>5, <1>7 DEF IsSum
<1> QED
  BY <1>1, <1>2, <1>8

\* Any element may be taken first, not only the one the definition takes.
LEMMA SumTakes ==
    ASSUME NEW S, IsFiniteSet(S), NEW w, \A k \in S : w[k] \in Int, NEW g, IsSum(g, w, S)
    PROVE  g[S] \in Int /\ \A k \in S : g[S] = w[k] + g[S \ {k}]
<1>1. PICK D : D = {t \in SUBSET S :
                       ~ (g[t] \in Int /\ \A k \in t : g[t] = w[k] + g[t \ {k}])}
  OBVIOUS
<1>2. D = {}
  <2> SUFFICES ASSUME D # {} PROVE FALSE
    OBVIOUS
  <2>1. PICK t \in D : \A u \in D : u \subseteq t => u = t
    <3>1. D \subseteq SUBSET S
      BY <1>1
    <3> QED
      BY <3>1, Smallest
  <2>2. t \in SUBSET S /\ ~ (g[t] \in Int /\ \A k \in t : g[t] = w[k] + g[t \ {k}])
    BY <1>1, <2>1
  <2>3. PICK f : f = First(t)
    OBVIOUS
  <2>4. t # {} /\ f \in t
    <3>1. t = {} => g[t] = 0
      BY <2>2 DEF IsSum
    <3> QED
      BY <2>2, <2>3, <3>1, FirstIsIn
  <2>5. g[t] = w[f] + g[t \ {f}]
    BY <2>2, <2>3, <2>4 DEF IsSum
  <2>6. ASSUME NEW u \in SUBSET t, u # t
        PROVE  g[u] \in Int /\ \A k \in u : g[u] = w[k] + g[u \ {k}]
    BY <1>1, <2>1, <2>2, <2>6
  <2>7. g[t] \in Int
    BY <2>2, <2>4, <2>5, <2>6
  <2>8. ASSUME NEW k \in t, k # f
        PROVE  g[t] = w[k] + g[t \ {k}]
    <3>1. PICK u, v, x : u = t \ {f} /\ v = t \ {k} /\ x = u \ {k}
      OBVIOUS
    <3>2. x = v \ {f} /\ k \in u /\ f \in v /\ u # t /\ v # t /\ x # t
          /\ u \in SUBSET t /\ v \in SUBSET t /\ x \in SUBSET t
      BY <2>4, <2>8, <3>1
    <3>3. g[u] = w[k] + g[x] /\ g[v] = w[f] + g[x] /\ g[x] \in Int
      BY <2>6, <3>1, <3>2
    <3>4. w[k] \in Int /\ w[f] \in Int
      BY <2>2, <2>4, <2>8
    <3> QED
      BY <2>5, <3>1, <3>3, <3>4
  <2> QED
    BY <2>2, <2>5, <2>7, <2>8
<1> QED
  BY <1>1, <1>2

-----------------------------------------------------------------------------
(* The ledger                                                              *)

\* What rows amount to, as the ledger sums it.
Amounted(S) == Ledger!MapThenSumSet(LAMBDA p : p.amount, S)

LEMMA AmountedIsSum ==
    ASSUME NEW S, IsFiniteSet(S)
    PROVE  \E g : IsSum(g, [p \in S |-> p.amount], S) /\ Amounted(S) = g[S]
<1>1. PICK w : w = [p \in S |-> p.amount]
  OBVIOUS
<1>2. PICK g : IsSum(g, w, S)
  BY SumExists
<1>3. \A s \in SUBSET S : s # {} => w[First(s)] = First(s).amount
  BY <1>1, FirstIsIn
<1>4. PICK h : h = CHOOSE iter : iter = [s \in SUBSET S |->
             IF s = {} THEN 0 ELSE First(s).amount + iter[s \ {First(s)}]]
  OBVIOUS
<1>5. g = [s \in SUBSET S |-> IF s = {} THEN 0 ELSE First(s).amount + g[s \ {First(s)}]]
  BY <1>2, <1>3 DEF IsSum
<1>6. h = [s \in SUBSET S |-> IF s = {} THEN 0 ELSE First(s).amount + h[s \ {First(s)}]]
  BY <1>4, <1>5
<1>7. IsSum(h, w, S)
  BY <1>3, <1>6 DEF IsSum
<1>8. Amounted(S) = h[S]
  BY <1>4 DEF Amounted, Ledger!MapThenSumSet, Ledger!MapThenFoldSet, First
<1> QED
  BY <1>1, <1>7, <1>8

\* One row more.
LEMMA AmountedGrows ==
    ASSUME NEW S, IsFiniteSet(S), NEW r, r \notin S, r.amount \in Int,
           \A p \in S : p.amount \in Int
    PROVE  Amounted(S) \in Int /\ Amounted(S \cup {r}) = Amounted(S) + r.amount
<1>1. PICK T : T = S \cup {r}
  OBVIOUS
<1>2. IsFiniteSet(T)
  BY <1>1, FS_AddElement
<1>3. PICK w, g : w = [p \in T |-> p.amount] /\ IsSum(g, w, T) /\ Amounted(T) = g[T]
  BY <1>2, AmountedIsSum
<1>4. PICK v, h : v = [p \in S |-> p.amount] /\ IsSum(h, v, S) /\ Amounted(S) = h[S]
  BY AmountedIsSum
<1>5. IsSum(h, w, S)
  <2>1. \A s \in SUBSET S : s # {} => v[First(s)] = w[First(s)]
    BY <1>1, <1>3, <1>4, FirstIsIn
  <2> QED
    BY <1>4, <2>1 DEF IsSum
<1>6. g[S] = h[S]
  <2>1. S \in SUBSET T
    BY <1>1
  <2> QED
    BY <1>2, <1>3, <1>5, <2>1, SumsAgree
<1>7. g[T] = w[r] + g[T \ {r}] /\ w[r] = r.amount
  BY <1>1, <1>2, <1>3, SumTakes
<1>8. h[S] \in Int
  <2>1. \A p \in S : v[p] \in Int
    BY <1>4
  <2> QED
    BY <1>4, <2>1, SumTakes
<1>9. T \ {r} = S
  BY <1>1
<1>10. g[T] = h[S] + r.amount
  <2>1. g[T] = r.amount + h[S]
    BY <1>6, <1>7, <1>9, Zenon
  <2> QED
    BY <1>8, <2>1
<1>11. Amounted(S \cup {r}) = g[T]
  BY <1>1, <1>3, Zenon
<1> QED
  BY <1>4, <1>8, <1>10, <1>11

LEMMA NothingAmounted == Amounted({}) = 0
<1>1. PICK g, w : IsSum(g, w, {}) /\ Amounted({}) = g[{}]
  BY AmountedIsSum, FS_EmptySet
<1> QED
  BY <1>1 DEF IsSum

\* A row is a payment, or the refund of one that is no smaller.
RowSound(p) ==
    /\ p \in Ledger!Row
    /\ p.of = Ledger!NoPayment => p.amount \in Amounts
    /\ p.of # Ledger!NoPayment =>
          /\ - p.amount \in Amounts
          /\ \E q \in payments :
                q.txn = p.of /\ q.of = Ledger!NoPayment /\ - p.amount <= q.amount

\* What a call will insert is such a row; what it asks about is there.
CallSound(k) ==
    /\ k.step \in {"idle", "total", "insert"}
    /\ k.step = "idle" => k = Ledger!Idle
    /\ k.step = "total" => k.orig \in payments /\ k.txn \in Transactions /\ k.amount \in Amounts
    /\ k.step = "insert" => RowSound(k.row)

LedgerInv ==
    /\ IsFiniteSet(payments)
    /\ \A p, q \in payments : p.txn = q.txn => p = q
    /\ \A p \in payments : RowSound(p)
    /\ DOMAIN call = Callers /\ \A c \in Callers : CallSound(call[c])

\* A refund that will be inserted still fits, with what was refunded before.
StillFits(k) ==
    k.step = "insert" /\ k.row.of # Ledger!NoPayment =>
        \A q \in payments :
            q.txn = k.row.of => Ledger!RefundTotal(q.txn) - k.row.amount <= q.amount

OneCaller == \A c, d \in Callers : call[c] # Ledger!Idle /\ call[d] # Ledger!Idle => c = d

SerialLedgerInv ==
    /\ OneCaller
    /\ Ledger!TotalIsKept
    /\ \A c \in Callers : StillFits(call[c])

LEMMA LedgerConstants ==
    /\ Amounts \subseteq Nat \ {0}
    /\ Ledger!NoPayment \notin Transactions
    /\ IsFiniteSet(Callers)
  BY MCCheckoutAssumption DEF Ledger!PaymentsAssumption

\* What was refunded of a payment, before a row is inserted and after.
LEMMA RefundTotalIs ==
    ASSUME NEW t
    PROVE  Ledger!RefundTotal(t) = - Amounted({p \in payments : p.of = t})
  BY DEF Ledger!RefundTotal, Ledger!RefundsOf, Amounted

LEMMA RefundTotalGrows ==
    ASSUME LedgerInv, NEW r, RowSound(r), r \notin payments, payments' = payments \cup {r}, NEW t
    PROVE  /\ Ledger!RefundTotal(t) \in Int
           /\ r.of = t => Ledger!RefundTotal(t)' = Ledger!RefundTotal(t) - r.amount
           /\ r.of # t => Ledger!RefundTotal(t)' = Ledger!RefundTotal(t)
<1>1. PICK S : S = {p \in payments : p.of = t}
  OBVIOUS
<1>2. IsFiniteSet(S)
  BY <1>1, FS_Subset DEF LedgerInv
<1>3. r.amount \in Int /\ r \notin S /\ \A p \in S : p.amount \in Int
  BY <1>1 DEF LedgerInv, RowSound, Ledger!Row
<1>4. Amounted(S) \in Int /\ Amounted(S \cup {r}) = Amounted(S) + r.amount
  BY <1>2, <1>3, AmountedGrows
<1>5. Ledger!RefundTotal(t) = - Amounted(S)
  BY <1>1, RefundTotalIs, Zenon
<1>6. Ledger!RefundTotal(t)' = - Amounted({p \in payments' : p.of = t})
  BY DEF Ledger!RefundTotal, Ledger!RefundsOf, Amounted, Ledger!MapThenSumSet,
         Ledger!MapThenFoldSet
<1>7. CASE r.of = t
  <2>1. {p \in payments' : p.of = t} = S \cup {r}
    BY <1>1, <1>7
  <2>2. Ledger!RefundTotal(t)' = - Amounted(S \cup {r})
    BY <1>6, <2>1, Zenon
  <2> QED
    BY <1>3, <1>4, <1>5, <1>7, <2>2
<1>8. CASE r.of # t
  <2>1. {p \in payments' : p.of = t} = S
    BY <1>1, <1>8
  <2>2. Ledger!RefundTotal(t)' = - Amounted(S)
    BY <1>6, <2>1, Zenon
  <2> QED
    BY <1>4, <1>5, <1>8, <2>2
<1> QED
  BY <1>7, <1>8

LEMMA RefundTotalStays ==
    ASSUME UNCHANGED payments, NEW t
    PROVE  Ledger!RefundTotal(t)' = Ledger!RefundTotal(t)
  BY DEF Ledger!RefundTotal, Ledger!RefundsOf, Ledger!MapThenSumSet, Ledger!MapThenFoldSet

LEMMA LedgerBegins == Ledger!Init => LedgerInv /\ SerialLedgerInv
  BY FS_EmptySet
     DEF Ledger!Init, LedgerInv, SerialLedgerInv, CallSound, StillFits, OneCaller, Ledger!Idle,
         Ledger!TotalIsKept

LEMMA SoundStays ==
    ASSUME payments \subseteq payments', NEW x
    PROVE  /\ RowSound(x) => RowSound(x)'
           /\ CallSound(x) => CallSound(x)'
  BY DEF RowSound, CallSound, Ledger!Row, Ledger!Idle, Ledger!NoPayment

\* A step of one caller that leaves the rows alone.
LEMMA CallStep ==
    ASSUME LedgerInv, NEW c \in Callers, NEW k, Ledger!Go(c, k), CallSound(k), UNCHANGED payments
    PROVE  LedgerInv'
  BY SoundStays DEF LedgerInv, Ledger!Go

LEMMA CreateKeeps ==
    ASSUME LedgerInv, NEW c \in Callers, NEW t \in Transactions, NEW a \in Amounts,
           Ledger!Create(c, t, a)
    PROVE  LedgerInv'
<1>1. PICK k : k = [step |-> "insert",
                    row |-> [txn |-> t, amount |-> a, of |-> Ledger!NoPayment]]
  OBVIOUS
<1>2. CallSound(k)
  BY <1>1, LedgerConstants DEF CallSound, RowSound, Ledger!Row
<1> QED
  BY <1>1, <1>2, CallStep DEF Ledger!Create

LEMMA RefundKeeps ==
    ASSUME LedgerInv, NEW c \in Callers, NEW p \in payments, NEW t \in Transactions,
           NEW a \in Amounts, Ledger!Refund(c, p, t, a)
    PROVE  LedgerInv'
<1>1. PICK k : k = [step |-> "total", orig |-> p, txn |-> t, amount |-> a]
  OBVIOUS
<1>2. CallSound(k)
  BY <1>1 DEF CallSound
<1> QED
  BY <1>1, <1>2, CallStep DEF Ledger!Refund

\* What fits is the refund of a payment, as a refund has nothing left.
LEMMA FittingRefund ==
    ASSUME LedgerInv, NEW c \in Callers, call[c].step = "total",
           Ledger!Fits(call[c].orig, call[c].amount, Ledger!RefundTotal(call[c].orig.txn))
    PROVE  /\ call[c].orig \in payments /\ call[c].orig.of = Ledger!NoPayment
           /\ RowSound([txn |-> call[c].txn, amount |-> - call[c].amount,
                        of |-> call[c].orig.txn])
<1>1. PICK o, a : o = call[c].orig /\ a = call[c].amount
  OBVIOUS
<1>2. o \in payments /\ RowSound(o) /\ call[c].txn \in Transactions /\ a \in Amounts
  BY <1>1 DEF LedgerInv, CallSound
<1>3. a \in Nat \ {0} /\ a <= o.amount /\ o.amount \in Int
  BY <1>1, <1>2, LedgerConstants DEF Ledger!Fits, RowSound, Ledger!Row
<1>4. o.of = Ledger!NoPayment
  <2> SUFFICES ASSUME o.of # Ledger!NoPayment PROVE FALSE
    OBVIOUS
  <2>1. - o.amount \in Nat \ {0}
    BY <1>2, LedgerConstants DEF RowSound
  <2> QED
    BY <1>3, <2>1
<1>5. o.txn \in Transactions /\ o.txn # Ledger!NoPayment
  BY <1>2, LedgerConstants DEF RowSound, Ledger!Row
<1>6. - (- a) = a
  BY <1>3
<1>7. PICK row : row = [txn |-> call[c].txn, amount |-> - a, of |-> o.txn]
  OBVIOUS
<1>8. row \in Ledger!Row
  BY <1>2, <1>3, <1>5, <1>7 DEF Ledger!Row
<1>9. RowSound(row)
  BY <1>2, <1>3, <1>4, <1>5, <1>6, <1>7, <1>8 DEF RowSound
<1> QED
  BY <1>1, <1>2, <1>4, <1>7, <1>9

LEMMA TotalKeeps ==
    ASSUME LedgerInv, NEW c \in Callers, Ledger!Total(c)
    PROVE  LedgerInv'
<1>1. CallSound(Ledger!Idle)
  BY DEF CallSound, Ledger!Idle
<1>2. CASE Ledger!Fits(call[c].orig, call[c].amount, Ledger!RefundTotal(call[c].orig.txn))
  <2>1. PICK k : k = [step |-> "insert",
                      row  |-> [txn |-> call[c].txn, amount |-> - call[c].amount,
                                of |-> call[c].orig.txn]]
    OBVIOUS
  <2>2. CallSound(k)
    BY <1>2, <2>1, FittingRefund DEF CallSound, Ledger!Total
  <2> QED
    BY <1>2, <2>1, <2>2, CallStep DEF Ledger!Total
<1>3. CASE ~ Ledger!Fits(call[c].orig, call[c].amount, Ledger!RefundTotal(call[c].orig.txn))
  BY <1>1, <1>3, CallStep DEF Ledger!Total
<1> QED
  BY <1>2, <1>3

LEMMA InsertKeeps ==
    ASSUME LedgerInv, NEW c \in Callers, Ledger!Insert(c)
    PROVE  LedgerInv'
<1>1. CallSound(Ledger!Idle)
  BY DEF CallSound, Ledger!Idle
<1>2. CASE UNCHANGED payments
  BY <1>1, <1>2, CallStep DEF Ledger!Insert
<1>3. CASE payments' # payments
  <2>1. PICK r : r = call[c].row
    OBVIOUS
  <2>2. payments' = payments \cup {r} /\ \A p \in payments : p.txn # r.txn
    BY <1>3, <2>1 DEF Ledger!Insert
  <2>3. RowSound(r)
    BY <2>1 DEF LedgerInv, CallSound, Ledger!Insert
  <2>4. IsFiniteSet(payments')
    BY <2>2, FS_AddElement DEF LedgerInv
  <2>5. \A p \in payments' : RowSound(p)'
    BY <2>2, <2>3, SoundStays DEF LedgerInv
  <2>6. \A d \in Callers : CallSound(call[d])'
    BY <1>1, <2>2, SoundStays DEF LedgerInv, Ledger!Insert, Ledger!Go
  <2> QED
    BY <2>2, <2>4, <2>5, <2>6 DEF LedgerInv, Ledger!Insert, Ledger!Go
<1> QED
  BY <1>2, <1>3

LEMMA RefundTotalInt == ASSUME LedgerInv, NEW t PROVE Ledger!RefundTotal(t) \in Int
<1>1. PICK S : S = {p \in payments : p.of = t}
  OBVIOUS
<1>2. IsFiniteSet(S) /\ \A p \in S : p.amount \in Int
  BY <1>1, FS_Subset DEF LedgerInv, RowSound, Ledger!Row
<1>3. PICK w, g : w = [p \in S |-> p.amount] /\ IsSum(g, w, S) /\ Amounted(S) = g[S]
  BY <1>2, AmountedIsSum
<1>4. \A p \in S : w[p] \in Int
  BY <1>2, <1>3
<1>5. Amounted(S) \in Int
  BY <1>2, <1>3, <1>4, SumTakes
<1>6. Ledger!RefundTotal(t) = - Amounted(S)
  BY <1>1, RefundTotalIs, Zenon
<1> QED
  BY <1>5, <1>6

\* A step of the one caller that leaves the rows alone.
LEMMA SerialCallStep ==
    ASSUME LedgerInv, SerialLedgerInv, OneCaller', NEW c \in Callers, NEW k, Ledger!Go(c, k),
           StillFits(k), UNCHANGED payments
    PROVE  SerialLedgerInv'
<1>1. \A t : Ledger!RefundTotal(t)' = Ledger!RefundTotal(t)
  BY RefundTotalStays
<1>2. Ledger!TotalIsKept'
  BY <1>1 DEF SerialLedgerInv, Ledger!TotalIsKept, Ledger!NoPayment
<1>3. \A d \in Callers : StillFits(call'[d])
  BY DEF SerialLedgerInv, LedgerInv, Ledger!Go
<1>4. \A x : StillFits(x) => StillFits(x)'
  BY <1>1 DEF StillFits, Ledger!NoPayment
<1>5. \A d \in Callers : StillFits(call[d])'
  BY <1>1, <1>3 DEF StillFits, Ledger!NoPayment
<1> QED
  BY <1>2, <1>5 DEF SerialLedgerInv

LEMMA CreateFits ==
    ASSUME LedgerInv, SerialLedgerInv, OneCaller', NEW c \in Callers,
           NEW t \in Transactions, NEW a \in Amounts, Ledger!Create(c, t, a)
    PROVE  SerialLedgerInv'
<1>1. PICK k : k = [step |-> "insert",
                    row |-> [txn |-> t, amount |-> a, of |-> Ledger!NoPayment]]
  OBVIOUS
<1>2. StillFits(k)
  BY <1>1 DEF StillFits
<1> QED
  BY <1>1, <1>2, SerialCallStep DEF Ledger!Create

LEMMA RefundFits ==
    ASSUME LedgerInv, SerialLedgerInv, OneCaller', NEW c \in Callers, NEW p \in payments,
           NEW t \in Transactions, NEW a \in Amounts, Ledger!Refund(c, p, t, a)
    PROVE  SerialLedgerInv'
<1>1. PICK k : k = [step |-> "total", orig |-> p, txn |-> t, amount |-> a]
  OBVIOUS
<1>2. StillFits(k)
  BY <1>1 DEF StillFits
<1> QED
  BY <1>1, <1>2, SerialCallStep DEF Ledger!Refund

LEMMA TotalFits ==
    ASSUME LedgerInv, SerialLedgerInv, OneCaller', NEW c \in Callers, Ledger!Total(c)
    PROVE  SerialLedgerInv'
<1>1. StillFits(Ledger!Idle)
  BY DEF StillFits, Ledger!Idle
<1>2. CASE Ledger!Fits(call[c].orig, call[c].amount, Ledger!RefundTotal(call[c].orig.txn))
  <2>1. PICK o, a, total : /\ o = call[c].orig /\ a = call[c].amount
                           /\ total = Ledger!RefundTotal(o.txn)
    OBVIOUS
  <2>2. PICK k : k = [step |-> "insert",
                      row  |-> [txn |-> call[c].txn, amount |-> - a, of |-> o.txn]]
    OBVIOUS
  <2>3. o \in payments /\ a \in Nat /\ o.amount \in Int /\ total \in Int
    BY <2>1, LedgerConstants, RefundTotalInt
       DEF LedgerInv, CallSound, RowSound, Ledger!Row, Ledger!Total
  <2>4. a <= o.amount /\ (total > 0 => a + total <= o.amount)
    BY <1>2, <2>1 DEF Ledger!Fits
  <2>5. total - (- a) <= o.amount
    BY <2>3, <2>4
  <2>6. \A q \in payments : q.txn = o.txn => q = o
    BY <2>3 DEF LedgerInv
  <2>7. StillFits(k)
    BY <2>1, <2>2, <2>5, <2>6 DEF StillFits
  <2> QED
    BY <1>2, <2>1, <2>2, <2>7, SerialCallStep DEF Ledger!Total
<1>3. CASE ~ Ledger!Fits(call[c].orig, call[c].amount, Ledger!RefundTotal(call[c].orig.txn))
  BY <1>1, <1>3, SerialCallStep DEF Ledger!Total
<1> QED
  BY <1>2, <1>3

LEMMA InsertFits ==
    ASSUME LedgerInv, SerialLedgerInv, OneCaller', NEW c \in Callers, Ledger!Insert(c)
    PROVE  SerialLedgerInv'
<1>1. StillFits(Ledger!Idle)
  BY DEF StillFits, Ledger!Idle
<1>2. CASE UNCHANGED payments
  BY <1>1, <1>2, SerialCallStep DEF Ledger!Insert
<1>3. CASE payments' # payments
  <2>1. PICK r : r = call[c].row
    OBVIOUS
  <2>2. payments' = payments \cup {r} /\ \A p \in payments : p.txn # r.txn
    BY <1>3, <2>1 DEF Ledger!Insert
  <2>3. RowSound(r) /\ r \notin payments
    BY <2>1, <2>2 DEF LedgerInv, CallSound, Ledger!Insert
  <2>4. \A t : /\ Ledger!RefundTotal(t) \in Int
               /\ r.of = t => Ledger!RefundTotal(t)' = Ledger!RefundTotal(t) - r.amount
               /\ r.of # t => Ledger!RefundTotal(t)' = Ledger!RefundTotal(t)
    BY <2>2, <2>3, RefundTotalGrows
  <2>5. ASSUME NEW p \in payments, p.of = Ledger!NoPayment
        PROVE  Ledger!RefundTotal(p.txn)' <= p.amount
    <3>1. Ledger!RefundTotal(p.txn) <= p.amount
      BY <2>5 DEF SerialLedgerInv, Ledger!TotalIsKept
    <3>2. p.txn # Ledger!NoPayment
      BY LedgerConstants DEF LedgerInv, RowSound, Ledger!Row
    <3>3. r.of = p.txn => Ledger!RefundTotal(p.txn) - r.amount <= p.amount
      BY <2>1, <3>2 DEF SerialLedgerInv, StillFits, Ledger!Insert
    <3> QED
      BY <2>4, <3>1, <3>3
  <2>6. ASSUME r.of = Ledger!NoPayment
        PROVE  Ledger!RefundTotal(r.txn)' <= r.amount
    <3>1. {p \in payments : p.of = r.txn} = {}
      BY <2>2, <2>3, LedgerConstants DEF LedgerInv, RowSound, Ledger!Row
    <3>2. Ledger!RefundTotal(r.txn) = - Amounted({})
      BY <3>1, RefundTotalIs, Zenon
    <3>3. r.of # r.txn /\ r.amount \in Nat
      BY <2>3, <2>6, LedgerConstants DEF RowSound, Ledger!Row
    <3> QED
      BY <2>4, <3>2, <3>3, NothingAmounted
  <2>7. Ledger!TotalIsKept'
    BY <2>2, <2>5, <2>6 DEF Ledger!TotalIsKept, Ledger!NoPayment
  <2>8. \A d \in Callers : call'[d] = Ledger!Idle
    BY DEF SerialLedgerInv, OneCaller, LedgerInv, Ledger!Insert, Ledger!Go, Ledger!Idle
  <2>9. \A d \in Callers : StillFits(call[d])'
    BY <2>8 DEF StillFits, Ledger!Idle
  <2> QED
    BY <2>7, <2>9 DEF SerialLedgerInv
<1> QED
  BY <1>2, <1>3

LEMMA OneCallerNext ==
    ASSUME Cardinality({c \in Callers : call'[c] # Ledger!Idle}) <= 1
    PROVE  OneCaller'
<1> DEFINE S == {c \in Callers : call'[c] # Ledger!Idle}
<1>1. IsFiniteSet(S) /\ Cardinality(S) <= 1
  BY LedgerConstants, FS_Subset
<1> HIDE DEF S
<1>2. \A c, d \in S : c = d
  BY <1>1, AtMostOne
<1> QED
  BY <1>2 DEF S, OneCaller, Ledger!Idle

\* The rows of the ledger, with several callers and with one.
BothInv == LedgerInv /\ (part = "serial ledger" => SerialLedgerInv)

LEMMA BothBegin == MCInit => BothInv
  BY LedgerBegins DEF MCInit, BothInv

LEMMA BothKeep == ASSUME BothInv, [MCNext]_<<vars, ledgerVars, part>> PROVE BothInv'
<1>1. CASE UNCHANGED <<ledgerVars, part>>
  <2>1. payments' = payments /\ call' = call /\ part' = part
    BY <1>1 DEF ledgerVars
  <2>2. LedgerInv => LedgerInv'
    BY <2>1, SoundStays DEF LedgerInv
  <2>3. SerialLedgerInv => SerialLedgerInv'
    BY <2>1, RefundTotalStays
       DEF SerialLedgerInv, OneCaller, Ledger!Idle, StillFits, Ledger!TotalIsKept,
           Ledger!NoPayment
  <2> QED
    BY <2>1, <2>2, <2>3 DEF BothInv
<1>2. CASE part \in {"ledger", "serial ledger"} /\ Ledger!Next /\ part' = part
           /\ (part = "serial ledger" => OneCaller')
  <2>1. PICK c \in Callers :
           \/ \E t \in Transactions, a \in Amounts : Ledger!Create(c, t, a)
           \/ \E p \in payments, t \in Transactions, a \in Amounts : Ledger!Refund(c, p, t, a)
           \/ Ledger!Total(c) \/ Ledger!Insert(c)
    BY <1>2 DEF Ledger!Next
  <2>2. LedgerInv
    BY <1>2 DEF BothInv
  <2>3. LedgerInv'
    BY <2>1, <2>2, CreateKeeps, RefundKeeps, TotalKeeps, InsertKeeps
  <2>4. SerialLedgerInv /\ OneCaller' => SerialLedgerInv'
    BY <2>1, <2>2, CreateFits, RefundFits, TotalFits, InsertFits
  <2> QED
    BY <1>2, <2>3, <2>4 DEF BothInv
<1> QED
  BY <1>1, <1>2, OneCallerNext DEF MCNext, ledgerVars

\* However creations and refunds interleave, nobody refunds a refund, and no single
\* refund is larger than its payment (PaymentService.Refund): what a refund has read
\* of its payment cannot change, as rows are only ever added.
THEOREM RefundsHavePayments == MCSpec => []RefundsArePayments
<1>1. BothInv => RefundsArePayments
  BY DEF BothInv, LedgerInv, RowSound, RefundsArePayments, Ledger!RefundsArePayments
<1> QED
  BY <1>1, BothBegin, BothKeep, PTL DEF MCSpec

\* With one caller at a time the refunds of a payment never exceed it, whatever their
\* number and their order (PaymentService.Refund, payment.go:86).
THEOREM RefundsNeverExceed == MCSpec => []RefundsFit
<1>1. BothInv => RefundsFit
  BY DEF BothInv, SerialLedgerInv, RefundsFit
<1> QED
  BY <1>1, BothBegin, BothKeep, PTL DEF MCSpec

=============================================================================
