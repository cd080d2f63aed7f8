---------------------------- MODULE S3SyncProofs ----------------------------
(***************************************************************************)
(* An object the ledger calls done is in the table, for any keys, versions,*)
(* contents, overlapping runs and expired leases.  The invariant adds why: *)
(* a payload is at least as new as the listing that asked for it, so an    *)
(* entry that takes the listing's ETag is either true or already outdated. *)
(***************************************************************************)
EXTENDS S3Sync, TLAPS, FiniteSetTheorems

LEMMA InitImport == Init => ImportInv
  BY S3Assumption DEF Init, ImportInv, TypeOK, DoneIsImported, Entry, Statuses, Steps, Version

\* Steps that leave the store, the table and the runs' downloads alone.
LEMMA Elsewhere ==
  ASSUME ImportInv, UNCHANGED <<store, origin, ledger, from, got>>,
         waiting' \subseteq Key, cursor' \in Nat, inserted' \in Nat, enabled' \in BOOLEAN, due' \in BOOLEAN,
         queue' \subseteq Job, lease' \in [owner : Worker \cup {None}, ahead : BOOLEAN], crashes' \in Nat,
         pc' \in [Worker -> Steps], \A w \in Worker : pc'[w] = "import" => pc[w] = "import" /\ todo'[w] = todo[w],
         todo' \in [Worker -> SUBSET Objects], \A w \in Worker : todo'[w] \subseteq todo[w]
  PROVE  ImportInv'
<1>1. TypeOK' /\ DoneIsImported'
  BY DEF ImportInv, TypeOK, DoneIsImported, Stored
<1>2. ASSUME NEW w \in Worker, NEW o \in todo'[w]
      PROVE  /\ o.etag <= store[o.key]
             /\ (pc'[w] = "import" /\ IsNext(w, o)') => (o.etag <= got[w] /\ got[w] <= store[o.key])
  BY DEF ImportInv, IsNext, Before
<1>3. QED
  BY <1>1, <1>2 DEF ImportInv

LEMMA UploadStep == ASSUME ImportInv, NEW k \in Key, Upload(k) PROVE ImportInv'
<1>1. /\ store' = [store EXCEPT ![k] = @ + 1] /\ store \in [Key -> Nat] /\ store[k] < MaxVersion
      /\ UNCHANGED <<table, config, queue, lease, run, crashes>>
  BY DEF Upload, ImportInv, TypeOK
<1>2. TypeOK'
  BY <1>1 DEF ImportInv, TypeOK, table, config, run
<1>3. \A j \in Key : store[j] <= store'[j] /\ store'[j] <= MaxVersion /\ ledger'[j].etag <= store'[j]
  BY <1>1, S3Assumption DEF ImportInv, TypeOK, table
<1>4. DoneIsImported'
  <2> SUFFICES ASSUME NEW j \in Key, ledger'[j].status = "done", ledger'[j].etag = store'[j]
               PROVE  Content[<<j, store'[j]>>] \subseteq Stored'
    BY DEF DoneIsImported
  <2>1. ledger[j].etag <= store[j] /\ ledger' = ledger /\ origin' = origin
    BY <1>1 DEF ImportInv, table
  <2>2. j # k
    BY <2>1, <1>1 DEF ImportInv, TypeOK
  <2>3. QED
    BY <1>1, <2>1, <2>2 DEF ImportInv, DoneIsImported, Stored
<1>5. ASSUME NEW w \in Worker, NEW o \in todo'[w]
      PROVE  /\ o.etag <= store'[o.key]
             /\ (pc'[w] = "import" /\ IsNext(w, o)') => (o.etag <= got'[w] /\ got'[w] <= store'[o.key])
  <2>1. o \in todo[w] /\ o \in Objects /\ o.key \in Key /\ o.etag \in Nat /\ got[w] \in Nat
    BY <1>1 DEF ImportInv, TypeOK, run, Objects, Version
  <2>2. UNCHANGED <<pc, todo, from, got>> /\ store[o.key] <= store'[o.key] /\ store[o.key] \in Nat
        /\ store'[o.key] \in Nat
    BY <1>1, <1>2, <1>3, <2>1 DEF run, TypeOK
  <2>3. o.etag <= store[o.key] /\ (pc[w] = "import" /\ IsNext(w, o) => o.etag <= got[w] /\ got[w] <= store[o.key])
    BY <2>1 DEF ImportInv
  <2>4. IsNext(w, o)' = IsNext(w, o)
    BY <2>2 DEF IsNext, Before
  <2>5. QED
    BY <2>1, <2>2, <2>3, <2>4
<1>6. QED
  BY <1>2, <1>3, <1>4, <1>5 DEF ImportInv

LEMMA DeliverStep == ASSUME ImportInv, NEW r \in Row, Deliver(r) PROVE ImportInv'
<1>1. origin' = [origin EXCEPT ![r] = "mqtt"] /\ origin \in [Row -> {"absent", "mqtt", "s3"}]
      /\ UNCHANGED <<store, ledger, waiting, config, queue, lease, run, crashes>>
  BY DEF Deliver, ImportInv, TypeOK
<1>2. Stored \subseteq Stored'
  BY <1>1 DEF Stored
<1>3. QED
  BY <1>1, <1>2 DEF ImportInv, TypeOK, DoneIsImported, config, run, IsNext, Before

(* The steps of a run that change the table.                                *)

LEMMA OutcomeStep ==
  ASSUME ImportInv, NEW w \in Worker, NEW o \in todo[w], IsNext(w, o), NEW s \in Statuses,
         ledger' = [ledger EXCEPT ![o.key] = Entry(o.etag, s)],
         origin' \in [Row -> {"absent", "mqtt", "s3"}], Stored \subseteq Stored',
         s = "done" => (o.etag = store[o.key] => Content[<<o.key, o.etag>>] \subseteq Stored'),
         waiting' \subseteq Key, cursor' \in Nat, inserted' \in Nat, pc' \in [Worker -> Steps],
         Drop(w, o), \A u \in Worker : pc'[u] = "import" => u # w /\ pc[u] = "import",
         UNCHANGED <<store, enabled, due, queue, lease, from, got, crashes>>
  PROVE  ImportInv'
<1>1. o \in Objects /\ o.key \in Key /\ o.etag \in Nat /\ o.etag <= store[o.key]
  BY DEF ImportInv, TypeOK, Objects, Version
<1>2. todo' \in [Worker -> SUBSET Objects] /\ \A u \in Worker : todo'[u] \subseteq todo[u] /\ (u # w => todo'[u] = todo[u])
  BY DEF ImportInv, TypeOK, Drop
<1>3. ledger' \in [Key -> [etag : Nat, status : Statuses]]
  BY <1>1 DEF ImportInv, TypeOK, Entry
<1>4. TypeOK'
  BY <1>2, <1>3 DEF ImportInv, TypeOK
<1>5. \A k \in Key : store'[k] <= MaxVersion /\ ledger'[k].etag <= store'[k]
  BY <1>1 DEF ImportInv, TypeOK, Entry
<1>6. DoneIsImported'
  BY <1>1 DEF ImportInv, TypeOK, DoneIsImported, Entry
<1>7. ASSUME NEW u \in Worker, NEW p \in todo'[u]
      PROVE  /\ p.etag <= store'[p.key]
             /\ (pc'[u] = "import" /\ IsNext(u, p)') => (p.etag <= got'[u] /\ got'[u] <= store'[p.key])
  BY <1>2, <1>7 DEF ImportInv, IsNext, Before
<1>8. QED
  BY <1>4, <1>5, <1>6, <1>7 DEF ImportInv

LEMMA KeyIsNat == \A k \in Key : k \in Nat
  BY S3Assumption

LEMMA FreshFinite ==
  ASSUME NEW k \in Key, NEW v \in Version
  PROVE  IsFiniteSet(Fresh(k, v))
  BY S3Assumption, FS_Subset DEF Fresh

LEMMA ImportStep == ASSUME ImportInv, NEW w \in Worker, NEW o \in todo[w], Import(w, o) PROVE ImportInv'
<1>1. /\ At(w, "import") /\ IsNext(w, o) /\ Drop(w, o) /\ Goto(w, "next")
      /\ origin' = [r \in Row |-> IF r \in Fresh(o.key, got[w]) THEN "s3" ELSE origin[r]]
      /\ ledger' = [ledger EXCEPT ![o.key] = Entry(o.etag, "done")]
      /\ inserted' = inserted + Cardinality(Fresh(o.key, got[w]))
      /\ waiting' = waiting \ {o.key} /\ cursor' = o.key
      /\ UNCHANGED <<store, enabled, due, queue, lease, from, got, crashes>>
  BY DEF Import
<1>2. /\ o \in Objects /\ o.key \in Key /\ o.etag \in Version /\ o.etag <= got[w] /\ got[w] <= store[o.key]
      /\ store[o.key] <= MaxVersion /\ got[w] \in Nat /\ store[o.key] \in Nat
  BY <1>1 DEF ImportInv, TypeOK, Objects, At
<1>3. got[w] \in Version /\ Content[<<o.key, got[w]>>] \subseteq Row
  BY <1>2, S3Assumption DEF Version
<1>4. origin' \in [Row -> {"absent", "mqtt", "s3"}]
  BY <1>1 DEF ImportInv, TypeOK
<1>5. Stored \subseteq Stored' /\ Content[<<o.key, got[w]>>] \subseteq Stored'
  BY <1>1, <1>3 DEF Stored, Fresh
<1>6. o.etag = store[o.key] => Content[<<o.key, o.etag>>] \subseteq Stored'
  <2>1. o.etag = store[o.key] => got[w] = o.etag
    BY <1>2 DEF Version
  <2>2. QED
    BY <1>5, <2>1
<1>7. inserted' \in Nat /\ cursor' \in Nat
  <2>1. IsFiniteSet(Fresh(o.key, got[w]))
    BY FreshFinite, <1>2, <1>3
  <2>2. Cardinality(Fresh(o.key, got[w])) \in Nat
    BY <2>1, FS_CardinalityType
  <2>3. QED
    BY <1>1, <1>2, <2>2, KeyIsNat DEF ImportInv, TypeOK
<1>8. pc' \in [Worker -> Steps] /\ \A u \in Worker : pc'[u] = "import" => u # w /\ pc[u] = "import"
  BY <1>1 DEF Goto, ImportInv, TypeOK, Steps
<1>9. waiting' \subseteq Key /\ "done" \in Statuses
  BY <1>1 DEF ImportInv, TypeOK, Statuses
<1>10. QED
  BY <1>1, <1>4, <1>5, <1>6, <1>7, <1>8, <1>9, OutcomeStep

LEMMA RejectStep ==
  ASSUME ImportInv, NEW w \in Worker, NEW o \in todo[w], Fail(w, o) \/ Ignore(w, o)
  PROVE  ImportInv'
<1> o \in Objects /\ o.key \in Key
  BY DEF ImportInv, TypeOK, Objects
<1>1. CASE Fail(w, o)
  <2>1. pc' \in [Worker -> Steps] /\ \A u \in Worker : pc'[u] = "import" => u # w /\ pc[u] = "import"
    BY <1>1 DEF Fail, Goto, ImportInv, TypeOK, Steps
  <2>2. QED
    BY <1>1, <2>1, OutcomeStep DEF Fail, ImportInv, TypeOK, Statuses, Stored, config
<1>2. CASE Ignore(w, o)
  <2>1. pc' \in [Worker -> Steps] /\ \A u \in Worker : pc'[u] = "import" => u # w /\ pc[u] = "import"
    BY <1>2 DEF Ignore, At, ImportInv, TypeOK
  <2>2. cursor' \in Nat /\ waiting' \subseteq Key
    BY <1>2, S3Assumption DEF Ignore, ImportInv, TypeOK
  <2>3. QED
    BY <1>2, <2>1, <2>2, OutcomeStep DEF Ignore, ImportInv, TypeOK, Statuses, Stored
<1>3. QED
  BY <1>1, <1>2

LEMMA GetStep == ASSUME ImportInv, NEW w \in Worker, NEW o \in todo[w], Get(w, o) PROVE ImportInv'
<1>1. /\ At(w, "next") /\ IsNext(w, o) /\ got' = [got EXCEPT ![w] = store[o.key]] /\ Goto(w, "import")
      /\ UNCHANGED <<store, table, config, queue, lease, todo, from, crashes>>
  BY DEF Get
<1>2. o \in Objects /\ o.key \in Key /\ store[o.key] \in Nat
  BY DEF ImportInv, TypeOK, Objects
<1>3. TypeOK' /\ DoneIsImported'
  BY <1>1, <1>2 DEF ImportInv, TypeOK, DoneIsImported, Stored, table, config, Goto, Steps
<1>4. ASSUME NEW u \in Worker, NEW p \in todo'[u]
      PROVE  /\ p.etag <= store'[p.key]
             /\ (pc'[u] = "import" /\ IsNext(u, p)') => (p.etag <= got'[u] /\ got'[u] <= store'[p.key])
  <2>1. p \in todo[u] /\ p \in Objects /\ p.key \in Key /\ IsNext(u, p)' = IsNext(u, p)
    BY <1>1, <1>4 DEF ImportInv, TypeOK, Objects, IsNext, Before
  <2>2. CASE u # w
    BY <1>1, <2>1, <2>2 DEF ImportInv, TypeOK, Goto
  <2>3. CASE u = w
    <3>1. IsNext(w, p) => p = o
      <4>1. p.key \in Nat /\ o.key \in Nat /\ from[w] \in Nat
        BY <1>2, <2>1, KeyIsNat DEF ImportInv, TypeOK
      <4>2. IsNext(w, p) /\ p # o => Before(from[w], p.key, o.key) /\ Before(from[w], o.key, p.key)
        BY <1>1, <2>1, <2>3 DEF IsNext
      <4>3. ~(Before(from[w], p.key, o.key) /\ Before(from[w], o.key, p.key))
        BY <4>1 DEF Before
      <4>4. QED
        BY <4>2, <4>3
    <3>2. QED
      BY <1>1, <1>2, <2>1, <2>3, <3>1 DEF ImportInv, TypeOK
  <2>4. QED
    BY <2>2, <2>3
<1>5. \A k \in Key : store'[k] <= MaxVersion /\ ledger'[k].etag <= store'[k]
  BY <1>1 DEF ImportInv, table
<1>6. QED
  BY <1>3, <1>4, <1>5 DEF ImportInv

(* A selection takes objects with the ETag they have now.                   *)
LEMMA SelectStep == ASSUME ImportInv, NEW w \in Worker, Select(w) PROVE ImportInv'
<1>1. PICK S \in SUBSET Key : Selected(from[w], S) /\ todo' = [todo EXCEPT ![w] = {Object(k) : k \in S}]
  BY DEF Select
<1>2. Goto(w, "next") /\ UNCHANGED <<store, table, config, queue, lease, from, got, crashes>>
  BY DEF Select
<1>3. \A k \in S : k \in Key /\ store[k] # 0 /\ store[k] \in Version
  BY <1>1 DEF Selected, Pending, ImportInv, TypeOK, Version
<1>4. {Object(k) : k \in S} \subseteq Objects /\ \A o \in {Object(k) : k \in S} : o.etag <= store[o.key]
  BY <1>3 DEF Object, Objects, Version
<1>5. TypeOK' /\ DoneIsImported'
  BY <1>1, <1>2, <1>4 DEF ImportInv, TypeOK, DoneIsImported, Stored, table, config, Goto, Steps
<1>6. ASSUME NEW u \in Worker, NEW p \in todo'[u]
      PROVE  /\ p.etag <= store'[p.key]
             /\ (pc'[u] = "import" /\ IsNext(u, p)') => (p.etag <= got'[u] /\ got'[u] <= store'[p.key])
  <2>1. CASE u = w
    BY <1>1, <1>2, <1>4, <2>1 DEF ImportInv, TypeOK, Goto
  <2>2. CASE u # w
    <3>1. todo'[u] = todo[u] /\ pc'[u] = pc[u] /\ p \in todo[u]
      BY <1>1, <1>2, <2>2 DEF ImportInv, TypeOK, Goto
    <3>2. QED
      BY <1>2, <3>1 DEF ImportInv, IsNext, Before
  <2>3. QED
    BY <2>1, <2>2
<1>7. QED
  BY <1>2, <1>5, <1>6 DEF ImportInv, table

LEMMA RunStep == ASSUME ImportInv, NEW w \in Worker, Working(w) PROVE ImportInv'
<1>1. ASSUME NEW j \in Job, Claim(w, j) PROVE ImportInv'
  <2>1. /\ At(w, "idle") /\ queue' = queue \ {j}
        /\ UNCHANGED <<store, table, cursor, inserted, enabled, todo, got, crashes>>
    BY <1>1 DEF Claim
  <2>2. queue' \subseteq Job
    BY <2>1 DEF ImportInv, TypeOK
  <2>3. CASE UNCHANGED <<lease, due, from, pc>>
    BY <2>1, <2>2, <2>3, Elsewhere DEF table, ImportInv, TypeOK
  <2>4. CASE /\ lease' = [owner |-> w, ahead |-> TRUE] /\ due' = FALSE
             /\ from' = [from EXCEPT ![w] = cursor] /\ Goto(w, "select")
    <3>1. lease' \in [owner : Worker \cup {None}, ahead : BOOLEAN]
      BY <2>4
    <3>2. pc' \in [Worker -> Steps] /\ \A u \in Worker : pc'[u] = "import" => u # w /\ pc[u] = "import"
      BY <2>4 DEF Goto, ImportInv, TypeOK, Steps
    <3>3. TypeOK' /\ DoneIsImported'
      BY <2>1, <2>2, <2>4, <3>1, <3>2 DEF ImportInv, TypeOK, table, DoneIsImported, Stored
    <3>4. ASSUME NEW u \in Worker, NEW p \in todo'[u]
          PROVE  /\ p.etag <= store'[p.key]
                 /\ (pc'[u] = "import" /\ IsNext(u, p)') => (p.etag <= got'[u] /\ got'[u] <= store'[p.key])
      BY <2>1, <2>4, <3>2, <3>4 DEF ImportInv, TypeOK, IsNext, Before
    <3>5. QED
      BY <2>1, <3>3, <3>4 DEF ImportInv, table
  <2>5. QED
    BY <1>1, <2>3, <2>4 DEF Claim
<1>2. CASE ListFails(w) \/ Finished(w) \/ FinishCheck(w) \/ Release(w)
  <2>1. \E s \in {"idle", "finish", "release"} : Goto(w, s)
    BY <1>2 DEF ListFails, Finished, FinishCheck, Release
  <2>2. pc' \in [Worker -> Steps] /\ \A u \in Worker : pc'[u] = "import" => pc[u] = "import"
    BY <2>1 DEF Goto, ImportInv, TypeOK, Steps
  <2>3. lease' \in [owner : Worker \cup {None}, ahead : BOOLEAN]
    <3>1. lease' = lease \/ lease' = [owner |-> None, ahead |-> FALSE]
      BY <1>2 DEF ListFails, Finished, FinishCheck, Release
    <3>2. CASE lease' = [owner |-> None, ahead |-> FALSE]
      BY <3>2
    <3>3. QED
      BY <3>1, <3>2 DEF ImportInv, TypeOK
  <2>4. UNCHANGED <<store, table, config, queue, todo, from, got, crashes>>
    BY <1>2 DEF ListFails, Finished, FinishCheck, Release
  <2>5. QED
    BY <2>2, <2>3, <2>4, Elsewhere DEF table, config, ImportInv, TypeOK
<1>3. QED
  BY <1>1, <1>2, SelectStep, ImportStep, RejectStep, GetStep DEF Working

LEMMA StepInv == ASSUME ImportInv, [Next]_vars PROVE ImportInv'
<1>1. CASE UNCHANGED vars
  BY <1>1, Elsewhere DEF vars, table, config, run, ImportInv, TypeOK
<1>2. ASSUME NEW k \in Key, RetryDue(k) PROVE ImportInv'
  BY <1>2, Elsewhere DEF RetryDue, config, run, ImportInv, TypeOK
<1>3. ASSUME NEW on \in BOOLEAN, NEW moved \in BOOLEAN, UpdateConfig(on, moved) PROVE ImportInv'
  BY <1>3, Elsewhere DEF UpdateConfig, table, run, ImportInv, TypeOK
<1>4. CASE Tick \/ Expire \/ EnqueueDue \/ EnqueueNow
  BY <1>4, Elsewhere DEF Tick, Expire, EnqueueDue, EnqueueNow, table, config, run, ImportInv, TypeOK, Job
<1>5. ASSUME NEW w \in Worker, Cancel(w) PROVE ImportInv'
  <2>1. /\ pc' \in [Worker -> Steps] /\ \A u \in Worker : pc'[u] = "import" => u # w /\ pc[u] = "import"
        /\ todo' \in [Worker -> SUBSET Objects] /\ \A u \in Worker : todo'[u] \subseteq todo[u] /\ (u # w => todo'[u] = todo[u])
    BY <1>5 DEF Cancel, Goto, ImportInv, TypeOK, Steps
  <2>2. QED
    BY <1>5, <2>1, Elsewhere DEF Cancel, table, config, ImportInv, TypeOK
<1>6. QED
  BY <1>1, <1>2, <1>3, <1>4, <1>5, UploadStep, DeliverStep, RunStep DEF Next

-----------------------------------------------------------------------------
\* The inductive invariant holds in every reachable state.
THEOREM ImportHolds == Spec => []ImportInv
<1>1. ImportInv /\ [Next]_vars => ImportInv'
  BY StepInv
<1>2. QED
  BY InitImport, <1>1, PTL DEF Spec

\* What the ledger calls done, with the ETag the object has now, is in the table.
THEOREM LedgerIsTrue == Spec => []DoneIsImported
<1>1. ImportInv => DoneIsImported
  BY DEF ImportInv
<1>2. QED
  BY ImportHolds, <1>1, PTL

-----------------------------------------------------------------------------
(* With one run at a time nothing is imported twice and the counter is     *)
(* exact.  Overlapping runs would break both, so both are stated for a     *)
(* worker with one job slot.                                               *)

OneRun == \A w, u \in Worker : w = u

\* A run holds at most one object of each key, none the ledger has finished with.
RepeatInv ==
  /\ \A w \in Worker : \A o, p \in todo[w] : o.key = p.key => o = p
  /\ NothingTwice

\* A finished entry is not written while some run still holds its object.
LEMMA LedgerKept ==
  ASSUME ImportInv, RepeatInv, UNCHANGED ledger, \A w \in Worker : todo'[w] \subseteq todo[w]
  PROVE  RepeatInv'
  BY DEF RepeatInv, NothingTwice

LEMMA EntryWritten ==
  ASSUME OneRun, ImportInv, RepeatInv, NEW w \in Worker, NEW o \in todo[w], NEW s,
         ledger' = [ledger EXCEPT ![o.key] = Entry(o.etag, s)], Drop(w, o)
  PROVE  RepeatInv'
<1>1. /\ todo'[w] = todo[w] \ {o} /\ \A u \in Worker : u = w
      /\ \A p \in todo[w] : p.key \in Key
  BY DEF ImportInv, TypeOK, Drop, OneRun, Objects
<1>2. \A p \in todo'[w] : p \in todo[w] /\ p.key # o.key
  BY <1>1 DEF RepeatInv
<1>3. \A p \in todo'[w] : ledger'[p.key] = ledger[p.key]
  BY <1>1, <1>2 DEF ImportInv, TypeOK
<1>4. QED
  BY <1>1, <1>2, <1>3 DEF RepeatInv, NothingTwice

\* What is selected is new, changed or failed.
LEMMA SelectedIsPending ==
  ASSUME OneRun, ImportInv, NEW w \in Worker, Select(w) PROVE RepeatInv'
<1>1. PICK S \in SUBSET Key : Selected(from[w], S) /\ todo' = [todo EXCEPT ![w] = {Object(k) : k \in S}]
  BY DEF Select
<1>2. todo'[w] = {Object(k) : k \in S} /\ ledger' = ledger /\ \A u \in Worker : u = w
  BY <1>1 DEF Select, ImportInv, TypeOK, OneRun, table
<1>3. ASSUME NEW k \in S
      PROVE  ledger[k] \notin {Entry(store[k], "done"), Entry(store[k], "ignored")}
  <2>1. ledger[k].etag # store[k] \/ ledger[k].status = "failed"
    BY <1>1 DEF Selected, Pending
  <2>2. QED
    BY <2>1 DEF Entry
<1>4. \A o \in todo'[w] : ledger'[o.key] \notin {Entry(o.etag, "done"), Entry(o.etag, "ignored")}
  BY <1>2, <1>3 DEF Object
<1>5. \A o, p \in todo'[w] : o.key = p.key => o = p
  BY <1>2 DEF Object
<1>6. QED
  BY <1>2, <1>4, <1>5 DEF RepeatInv, NothingTwice

LEMMA RepeatStep == ASSUME OneRun, ImportInv, RepeatInv, [Next]_vars PROVE RepeatInv'
<1>1. ASSUME NEW w \in Worker, Working(w) PROVE RepeatInv'
  <2>1. CASE Select(w)
    BY <2>1, SelectedIsPending
  <2>2. ASSUME NEW o \in todo[w], Import(w, o) \/ Fail(w, o) \/ Ignore(w, o) PROVE RepeatInv'
    <3>1. Drop(w, o) /\ \E s \in Statuses : ledger' = [ledger EXCEPT ![o.key] = Entry(o.etag, s)]
      BY <2>2 DEF Import, Fail, Ignore, Statuses
    <3>2. QED
      BY <3>1, EntryWritten
  <2>3. ASSUME NEW o \in todo[w], Get(w, o) PROVE RepeatInv'
    BY <2>3, LedgerKept DEF Get, table
  <2>4. CASE (\E j \in Job : Claim(w, j)) \/ ListFails(w) \/ Finished(w) \/ FinishCheck(w) \/ Release(w)
    BY <2>4, LedgerKept DEF Claim, ListFails, Finished, FinishCheck, Release, table
  <2>5. QED
    BY <1>1, <2>1, <2>2, <2>3, <2>4 DEF Working
<1>2. ASSUME NEW w \in Worker, Cancel(w) PROVE RepeatInv'
  <2>1. UNCHANGED ledger /\ \A u \in Worker : todo'[u] \subseteq todo[u]
    BY <1>2 DEF Cancel, table, ImportInv, TypeOK
  <2>2. QED
    BY <2>1, LedgerKept
<1>3. CASE UNCHANGED vars
  BY <1>3, LedgerKept DEF vars, table, run
<1>4. CASE \E k \in Key : Upload(k) \/ RetryDue(k)
  BY <1>4, LedgerKept DEF Upload, RetryDue, table, run
<1>5. CASE \E r \in Row : Deliver(r)
  BY <1>5, LedgerKept DEF Deliver, run
<1>6. CASE \/ \E on, moved \in BOOLEAN : UpdateConfig(on, moved)
           \/ Tick \/ Expire \/ EnqueueDue \/ EnqueueNow
  BY <1>6, LedgerKept DEF UpdateConfig, Tick, Expire, EnqueueDue, EnqueueNow, table, run
<1>7. QED
  BY <1>1, <1>2, <1>3, <1>4, <1>5, <1>6 DEF Next

\* One run at a time never imports an unchanged object again: no run holds an
\* object the ledger already calls done or ignored with its ETag.
THEOREM UnchangedIsSkipped == ASSUME OneRun PROVE Spec => []NothingTwice
<1>1. Init => RepeatInv
  BY DEF Init, RepeatInv, NothingTwice
<1>2. ImportInv /\ RepeatInv /\ [Next]_vars => RepeatInv'
  BY RepeatStep
<1>3. RepeatInv => NothingTwice
  BY DEF RepeatInv
<1>4. QED
  BY ImportHolds, <1>1, <1>2, <1>3, PTL DEF Spec

-----------------------------------------------------------------------------
S3Rows == {r \in Row : origin[r] = "s3"}

LEMMA SameRows == ASSUME CountsInserted, S3Rows' = S3Rows, inserted' = inserted PROVE CountsInserted'
  BY DEF CountsInserted, S3Rows

\* An import adds to the counter what it adds to the table.
LEMMA ImportCounts ==
  ASSUME ImportInv, CountsInserted, NEW w \in Worker, NEW o \in todo[w], Import(w, o)
  PROVE  CountsInserted'
<1> DEFINE F == Fresh(o.key, got[w])
<1>1. /\ o.key \in Key /\ got[w] \in Version
  <2>1. /\ o \in Objects /\ o.key \in Key /\ o.etag \in Version
        /\ o.etag <= got[w] /\ got[w] <= store[o.key]
        /\ store[o.key] <= MaxVersion /\ got[w] \in Nat /\ store[o.key] \in Nat
    BY DEF Import, ImportInv, TypeOK, Objects, At
  <2>2. QED
    BY <2>1, S3Assumption DEF Version
<1>2. IsFiniteSet(F) /\ F \subseteq Row \ Stored
  BY <1>1, FreshFinite, S3Assumption DEF Fresh
<1>3. IsFiniteSet(S3Rows)
  BY S3Assumption, FS_Subset DEF S3Rows
<1>4. S3Rows' = S3Rows \cup F
  BY <1>2 DEF Import, S3Rows
<1>5. S3Rows \cap F = {}
  BY <1>2 DEF S3Rows, Stored
<1>6. Cardinality(S3Rows \cap F) = 0
  BY <1>5, FS_EmptySet
<1>7. Cardinality(S3Rows \cup F) = Cardinality(S3Rows) + Cardinality(F)
  <2>1. Cardinality(S3Rows) \in Nat /\ Cardinality(F) \in Nat
    BY <1>2, <1>3, FS_CardinalityType
  <2>2. Cardinality(S3Rows \cup F) = Cardinality(S3Rows) + Cardinality(F) - Cardinality(S3Rows \cap F)
    BY <1>2, <1>3, FS_Union
  <2>3. QED
    BY <1>6, <2>1, <2>2
<1>8. inserted' = Cardinality(S3Rows) + Cardinality(F)
  BY DEF Import, CountsInserted, S3Rows
<1>9. QED
  BY <1>4, <1>7, <1>8 DEF CountsInserted, S3Rows

LEMMA CountStep == ASSUME ImportInv, CountsInserted, [Next]_vars PROVE CountsInserted'
<1>1. ASSUME NEW r \in Row, Deliver(r) PROVE CountsInserted'
  <2>1. S3Rows' = S3Rows
    BY <1>1 DEF Deliver, S3Rows, ImportInv, TypeOK
  <2>2. QED
    BY <1>1, <2>1, SameRows DEF Deliver, config
<1>2. ASSUME NEW w \in Worker, Working(w) PROVE CountsInserted'
  <2>1. ASSUME NEW o \in todo[w], Import(w, o) PROVE CountsInserted'
    BY <2>1, ImportCounts
  <2>2. ASSUME NEW o \in todo[w], Get(w, o) \/ Fail(w, o) \/ Ignore(w, o) PROVE CountsInserted'
    BY <2>2, SameRows DEF Get, Fail, Ignore, table, config, S3Rows
  <2>3. CASE \/ \E j \in Job : Claim(w, j)
             \/ Select(w) \/ ListFails(w) \/ Finished(w) \/ FinishCheck(w) \/ Release(w)
    BY <2>3, SameRows DEF Claim, Select, ListFails, Finished, FinishCheck, Release, table, config, S3Rows
  <2>4. QED
    BY <1>2, <2>1, <2>2, <2>3 DEF Working
<1>3. CASE \/ UNCHANGED vars \/ \E k \in Key : Upload(k) \/ RetryDue(k)
           \/ \E on, moved \in BOOLEAN : UpdateConfig(on, moved)
           \/ Tick \/ Expire \/ EnqueueDue \/ EnqueueNow \/ \E w \in Worker : Cancel(w)
  <2>1. origin' = origin /\ inserted' = inserted
    BY <1>3 DEF vars, Upload, RetryDue, UpdateConfig, Tick, Expire, EnqueueDue, EnqueueNow, Cancel, table, config
  <2>2. QED
    BY <2>1, SameRows DEF S3Rows
<1>4. QED
  BY <1>1, <1>2, <1>3 DEF Next

\* inserted_measurements counts the rows the import put into the table, whatever
\* MQTT delivered, jobs were cancelled and objects failed, with one run at a time:
\* the read and the write of the counter are one step of the model, and two
\* overlapping runs of the code may lose an update.
THEOREM CounterIsExact == ASSUME OneRun PROVE Spec => []CountsInserted
<1>1. Init => CountsInserted
  <2>1. Init => S3Rows = {} /\ inserted = 0
    BY DEF Init, S3Rows
  <2>2. QED
    BY <2>1, FS_EmptySet DEF CountsInserted, S3Rows
<1>2. ImportInv /\ CountsInserted /\ [Next]_vars => CountsInserted'
  BY CountStep
<1>3. QED
  BY ImportHolds, <1>1, <1>2, PTL DEF Spec
=============================================================================
