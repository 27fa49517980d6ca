-------------------------------- MODULE Spool --------------------------------
(***************************************************************************)
(* The spool of deferred analytics writes: a directory of records, named   *)
(* by the time they are enqueued.  A writer writes its record under a      *)
(* temporary name, deletes the oldest files when the directory is too      *)
(* full, and renames its own.  Nothing locks the directory: writers and    *)
(* the consumer meet in it, and a crash leaves temporary files behind.     *)
(* New sets no bound on the number of files, so only bytes are counted.    *)
(***************************************************************************)
EXTENDS Integers, FiniteSets, FiniteSetsExt

CONSTANTS
    Writers,   \* concurrent calls of Enqueue
    Sizes,     \* sizes of the records
    MaxBytes,  \* maxBytes
    LowMark,   \* maxBytes * lowWMScale
    Consumer,  \* whether records are consumed meanwhile
    MaxNames,  \* bound on the records enqueued
    MaxCrashes,  \* bound on crashes
    MaxFailures  \* bound on failed deletions

SpoolAssumption ==
    /\ Sizes \subseteq Nat \ {0}
    /\ MaxBytes \in Nat \ {0}
    /\ LowMark \in 0..MaxBytes
    /\ Consumer \in BOOLEAN
    /\ MaxNames \in Nat
    /\ MaxCrashes \in Nat
    /\ MaxFailures \in Nat

VARIABLES
    dir,      \* the files
    named,    \* names given so far; a greater one sorts after a smaller
    task,     \* what each writer is doing
    trimmed,  \* names that enforceCapacity has deleted
    lost,     \* names whose Enqueue ended in an error
    crashes,  \* crashes so far
    failures  \* failed deletions so far

vars == <<dir, named, task, trimmed, lost, crashes, failures>>

Names == 1..MaxNames
File  == [name : Names, size : Sizes, tmp : BOOLEAN]

\* todo: the names found and not yet deleted; used: the bytes it takes for used.
Task == [step : {"idle", "write", "scan", "trim", "rename"}, name : 0..MaxNames,
         size : Sizes \cup {0}, todo : SUBSET Names, used : Int]

Idle == [step |-> "idle", name |-> 0, size |-> 0, todo |-> {}, used |-> 0]

Bytes(S) == MapThenSumSet(LAMBDA f : f.size, S)

NamesIn(S) == {f.name : f \in S}

TypeOK ==
    /\ dir \subseteq File
    /\ named \in 0..MaxNames
    /\ task \in [Writers -> Task]
    /\ trimmed \subseteq Names
    /\ lost \subseteq Names
    /\ crashes \in 0..MaxCrashes
    /\ failures \in 0..MaxFailures

Init ==
    /\ dir = {}
    /\ named = 0
    /\ task = [w \in Writers |-> Idle]
    /\ trimmed = {}
    /\ lost = {}
    /\ crashes = 0
    /\ failures = 0

-----------------------------------------------------------------------------

Go(w, t) == task' = [task EXCEPT ![w] = t]

Named(n) == {f \in dir : f.name = n}

\* Enqueue takes its name from the clock.
Enqueue(w, size) ==
    /\ task[w] = Idle
    /\ named < MaxNames
    /\ named' = named + 1
    /\ Go(w, [Idle EXCEPT !.step = "write", !.name = named + 1, !.size = size])
    /\ UNCHANGED <<dir, trimmed, lost, crashes, failures>>

Write(w) ==
    LET t == task[w] IN
    /\ t.step = "write"
    /\ dir' = dir \cup {[name |-> t.name, size |-> t.size, tmp |-> TRUE]}
    /\ Go(w, [t EXCEPT !.step = "scan"])
    /\ UNCHANGED <<named, trimmed, lost, crashes, failures>>

\* enforceCapacity finds every file, its own among them.
Scan(w) ==
    LET t == task[w]
        full == Bytes(dir) + t.size > MaxBytes IN
    /\ t.step = "scan"
    /\ Go(w, [t EXCEPT !.step = IF full THEN "trim" ELSE "rename",
                       !.todo = IF full THEN NamesIn(dir) ELSE {},
                       !.used = Bytes(dir)])
    /\ UNCHANGED <<dir, named, trimmed, lost, crashes, failures>>

Victim(todo) == Min(todo)

\* Faulty variant of After: room is made for the record twice.
AfterTwice(t, n) ==
    LET u == [t EXCEPT !.todo = @ \ {n}, !.used = @ - Bytes(Named(n))] IN
    IF u.used + 2 * t.size <= LowMark \/ u.todo = {} THEN [u EXCEPT !.step = "rename"] ELSE u

\* After file n: its bytes no longer count, whether or not it could be deleted.
After(t, n) ==
    LET u == [t EXCEPT !.todo = @ \ {n}, !.used = @ - Bytes(Named(n))] IN
    IF u.used + t.size <= LowMark \/ u.todo = {} THEN [u EXCEPT !.step = "rename"] ELSE u

Trim(w) ==
    LET n == Victim(task[w].todo) IN
    /\ task[w].step = "trim"
    /\ Go(w, After(task[w], n))
    /\ \/ dir' = dir \ Named(n) /\ trimmed' = trimmed \cup {n} /\ UNCHANGED failures
       \/ /\ Named(n) # {} /\ failures < MaxFailures
          /\ failures' = failures + 1
          /\ UNCHANGED <<dir, trimmed>>
    /\ UNCHANGED <<named, lost, crashes>>

\* The record becomes visible, unless it is larger than the spool or its
\* temporary file is gone.
Rename(w) ==
    LET t == task[w]
        fits == t.todo # {} \/ t.used + t.size <= LowMark \/ t.size <= MaxBytes
        ok == fits /\ Named(t.name) # {} IN
    /\ t.step = "rename"
    /\ dir' = IF ok THEN {IF f.name = t.name THEN [f EXCEPT !.tmp = FALSE] ELSE f : f \in dir}
              ELSE dir \ Named(t.name)
    /\ lost' = IF ok THEN lost ELSE lost \cup {t.name}
    /\ Go(w, Idle)
    /\ UNCHANGED <<named, trimmed, crashes, failures>>

\* The consumer reads and removes a record.
Remove(f) ==
    /\ Consumer
    /\ f \in dir /\ ~ f.tmp
    /\ dir' = dir \ {f}
    /\ UNCHANGED <<named, task, trimmed, lost, crashes, failures>>

Crash(w) ==
    /\ task[w] # Idle
    /\ crashes < MaxCrashes
    /\ crashes' = crashes + 1
    /\ Go(w, Idle)
    /\ UNCHANGED <<dir, named, trimmed, lost, failures>>

Next ==
    \/ \E w \in Writers :
          \/ \E s \in Sizes : Enqueue(w, s)
          \/ Write(w) \/ Scan(w) \/ Trim(w) \/ Rename(w) \/ Crash(w)
    \/ \E f \in dir : Remove(f)

Spec == Init /\ [][Next]_vars

-----------------------------------------------------------------------------
(* Properties                                                              *)

Visible == {f \in dir : ~ f.tmp}

\* The records never exceed the capacity, however the writers' scans and
\* renames interleave and wherever one crashes (enforceCapacity), as long as
\* every deletion succeeds.
WithinCapacity == Bytes(Visible) <= MaxBytes

\* With one writer and no consumer, a record that fits twice below the mark is
\* never lost, whatever crashes and failed deletions left behind: although
\* enforceCapacity lists the record's own temporary file, it stops before it.
SmallIsStored == lost = {}

\* With one writer whose deletions succeed, what is deleted for room is older
\* than every record that is kept, a crash's temporary files included.
OldestGoFirst == \A n \in trimmed : \A f \in Visible : f.name > n

\* "If we deleted everything and still cannot fit, reject": every size of the
\* instance fits.
FittingIsStored == lost = {}

\* "enforceCapacity ensures adding newSize bytes and newFiles files will not
\* exceed caps"
CapHolds == Bytes(Visible) <= MaxBytes
=============================================================================
