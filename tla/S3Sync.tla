------------------------------- MODULE S3Sync -------------------------------
(***************************************************************************)
(* The per-device S3 recovery import of the backend: S3SyncService with its*)
(* repository, one prefix.  Runs of an arq worker claim the device by a    *)
(* lease, list the bucket, select pending objects behind the cursor and    *)
(* import them one transaction at a time, while the device goes on         *)
(* uploading, MQTT delivers the same rows, the settings are edited, jobs   *)
(* are cancelled and leases expire.                                        *)
(*                                                                         *)
(* An object key is a number (its place in the listing), an ETag the number*)
(* of the upload, a row its recovery hash.                                 *)
(***************************************************************************)
EXTENDS Naturals, FiniteSets

CONSTANTS Key,        \* object keys in listing order
          MaxVersion, \* BOUND: uploads of one key
          Row,        \* samples, by recovery hash
          Content,    \* the rows of each version of each object
          Malformed,  \* versions whose CSV has no valid row
          Ignorable,  \* keys dated 1970 or without the .txt suffix
          Limit,      \* max_files_per_prefix
          Worker,     \* job slots of the arq worker
          MaxCrash,   \* BOUND: cancelled jobs and restarts
          Outside,    \* BOUND: what else happens: "mqtt", "manual", "edit"
          None

Version == 1..MaxVersion

ASSUME S3Assumption ==
  /\ Key \subseteq Nat \ {0} /\ MaxVersion \in Nat /\ MaxCrash \in Nat
  /\ Content \in [Key \X Version -> SUBSET Row]
  /\ IsFiniteSet(Row)
  /\ Malformed \subseteq Key \X Version /\ Ignorable \subseteq Key
  /\ Limit \in Nat \ {0}
  /\ Outside \subseteq {"mqtt", "manual", "edit"}
  /\ None \notin Worker

VARIABLES store,     \* the version of each object in the bucket, 0 when absent
          origin,    \* who inserted each row of the measurements table
          ledger,    \* device_s3_sync_objects: ETag and status of each object
          waiting,   \* failed objects whose next_retry_at has not come
          cursor,    \* last_radiometer_key
          inserted,  \* inserted_measurements
          enabled, due, queue,
          lease,     \* lease_owner and whether lease_until lies ahead
          pc, todo, from, got,  \* of each run: step, selection, cursor read, payload
          crashes

config == <<cursor, inserted, enabled, due>>
run    == <<pc, todo, from, got>>
table  == <<origin, ledger, waiting>>
vars   == <<store, table, config, queue, lease, run, crashes>>

Statuses == {"new", "done", "ignored", "failed"}
Job      == {"due", "manual"}
Steps    == {"idle", "select", "next", "import", "finish", "release"}
Entry(v, s) == [etag |-> v, status |-> s]

Init ==
  /\ store = [k \in Key |-> 0]
  /\ origin = [r \in Row |-> "absent"]
  /\ ledger = [k \in Key |-> Entry(0, "new")]
  /\ waiting = {} /\ cursor = 0 /\ inserted = 0
  /\ enabled = TRUE /\ due = TRUE /\ queue = {}
  /\ lease = [owner |-> None, ahead |-> FALSE]
  /\ pc = [w \in Worker |-> "idle"]
  /\ todo = [w \in Worker |-> {}]
  /\ from = [w \in Worker |-> 0]
  /\ got = [w \in Worker |-> 0]
  /\ crashes = 0

Stored == {r \in Row : origin[r] # "absent"}
At(w, s) == pc[w] = s
Goto(w, s) == pc' = [pc EXCEPT ![w] = s]

-----------------------------------------------------------------------------
(* What happens outside the job.                                            *)

\* The device uploads an object, or uploads it again with other content.
Upload(k) ==
  /\ store[k] < MaxVersion
  /\ store' = [store EXCEPT ![k] = @ + 1]
  /\ UNCHANGED <<table, config, queue, lease, run, crashes>>

\* The MQTT worker inserts a sample: ON CONFLICT DO NOTHING.
Deliver(r) ==
  /\ "mqtt" \in Outside /\ origin[r] = "absent"
  /\ origin' = [origin EXCEPT ![r] = "mqtt"]
  /\ UNCHANGED <<store, ledger, waiting, config, queue, lease, run, crashes>>

\* PATCH /s3-sync: another prefix or bucket clears the cursor; a run is due now.
UpdateConfig(on, moved) ==
  /\ "edit" \in Outside
  /\ enabled' = on /\ due' = TRUE
  /\ cursor' = IF moved THEN 0 ELSE cursor
  /\ UNCHANGED <<store, table, inserted, queue, lease, run, crashes>>

\* next_run_at, next_retry_at and lease_until pass.
Tick ==
  /\ ~due /\ due' = TRUE
  /\ UNCHANGED <<store, table, cursor, inserted, enabled, queue, lease, run, crashes>>

RetryDue(k) ==
  /\ k \in waiting /\ waiting' = waiting \ {k}
  /\ UNCHANGED <<store, origin, ledger, config, queue, lease, run, crashes>>

Expire ==
  /\ lease.ahead /\ lease' = [lease EXCEPT !.ahead = FALSE]
  /\ UNCHANGED <<store, table, config, queue, run, crashes>>

Free == lease.owner = None \/ ~lease.ahead

EnqueueDue ==
  /\ enabled /\ due /\ Free /\ "due" \notin queue
  /\ queue' = queue \cup {"due"}
  /\ UNCHANGED <<store, table, config, lease, run, crashes>>

EnqueueNow ==
  /\ "manual" \in Outside \ queue /\ queue' = queue \cup {"manual"}
  /\ UNCHANGED <<store, table, config, lease, run, crashes>>

-----------------------------------------------------------------------------
(* sync_device.                                                             *)

\* A job that finds the lease taken, or the device disabled, is over at once.
Claim(w, j) ==
  /\ At(w, "idle") /\ j \in queue
  /\ queue' = queue \ {j}
  /\ IF Free /\ (j = "manual" \/ enabled)
     THEN /\ lease' = [owner |-> w, ahead |-> TRUE]
          /\ due' = FALSE
          /\ from' = [from EXCEPT ![w] = cursor]
          /\ Goto(w, "select")
     ELSE UNCHANGED <<lease, due, from, pc>>
  /\ UNCHANGED <<store, table, cursor, inserted, enabled, todo, got, crashes>>

\* Fault: done objects are not skipped.
PendingAll(c) == {k \in Key : store[k] # 0 /\ k \notin waiting}

\* Fault: objects behind the cursor are not looked at.
PendingAfter(c) ==
  {k \in Key : /\ k > c /\ store[k] # 0
               /\ \/ ledger[k].etag # store[k]
                  \/ ledger[k].status = "failed" /\ k \notin waiting}

\* The listed objects that are new, changed, or failed and due for a retry.
Pending(c) ==
  {k \in Key : /\ store[k] # 0
               /\ \/ ledger[k].etag # store[k]
                  \/ ledger[k].status = "failed" /\ k \notin waiting}

\* The listing starts behind the cursor and wraps around.
Before(c, j, k) == \/ j > c /\ k <= c
                   \/ (j > c <=> k > c) /\ j < k

Selected(c, S) ==
  /\ S \subseteq Pending(c)
  /\ \A j \in S, k \in Pending(c) \ S : Before(c, j, k)
  /\ Cardinality(S) <= Limit
  /\ Cardinality(S) = Limit \/ S = Pending(c)

Object(k) == [key |-> k, etag |-> store[k]]

\* select_pending_objects over the ledger and the listing.
Select(w) ==
  /\ At(w, "select") /\ Goto(w, "next")
  /\ \E S \in SUBSET Key :
       /\ Selected(from[w], S)
       /\ todo' = [todo EXCEPT ![w] = {Object(k) : k \in S}]
  /\ UNCHANGED <<store, table, config, queue, lease, from, got, crashes>>

ListFails(w) ==
  /\ At(w, "select") /\ Goto(w, "finish")
  /\ UNCHANGED <<store, table, config, queue, lease, todo, from, got, crashes>>

IsNext(w, o) ==
  /\ o \in todo[w]
  /\ \A p \in todo[w] \ {o} : Before(from[w], o.key, p.key)

Drop(w, o) == todo' = [todo EXCEPT ![w] = @ \ {o}]

\* _record_ignored: no request to the store, and the cursor moves on.
Ignore(w, o) ==
  /\ At(w, "next") /\ IsNext(w, o) /\ o.key \in Ignorable
  /\ ledger' = [ledger EXCEPT ![o.key] = Entry(o.etag, "ignored")]
  /\ waiting' = waiting \ {o.key}
  /\ cursor' = o.key
  /\ Drop(w, o)
  /\ UNCHANGED <<store, origin, inserted, enabled, due, queue, lease, pc, from, got, crashes>>

\* get_object returns what the bucket holds now.
Get(w, o) ==
  /\ At(w, "next") /\ IsNext(w, o) /\ o.key \notin Ignorable
  /\ got' = [got EXCEPT ![w] = store[o.key]]
  /\ Goto(w, "import")
  /\ UNCHANGED <<store, table, config, queue, lease, todo, from, crashes>>

Fresh(k, v) == Content[<<k, v>>] \ Stored

\* Fault: the ledger takes the ETag of the object now in the bucket.
ImportLatest(w, o) ==
  /\ At(w, "import") /\ IsNext(w, o) /\ <<o.key, got[w]>> \notin Malformed
  /\ origin' = [r \in Row |-> IF r \in Fresh(o.key, got[w]) THEN "s3" ELSE origin[r]]
  /\ inserted' = inserted + Cardinality(Fresh(o.key, got[w]))
  /\ ledger' = [ledger EXCEPT ![o.key] = Entry(store[o.key], "done")]
  /\ waiting' = waiting \ {o.key}
  /\ cursor' = o.key
  /\ Drop(w, o) /\ Goto(w, "next")
  /\ UNCHANGED <<store, enabled, due, queue, lease, from, got, crashes>>

\* Fault: every parsed row is counted, inserted or not.
ImportCountAll(w, o) ==
  /\ At(w, "import") /\ IsNext(w, o) /\ <<o.key, got[w]>> \notin Malformed
  /\ origin' = [r \in Row |-> IF r \in Fresh(o.key, got[w]) THEN "s3" ELSE origin[r]]
  /\ inserted' = inserted + Cardinality(Content[<<o.key, got[w]>>])
  /\ ledger' = [ledger EXCEPT ![o.key] = Entry(o.etag, "done")]
  /\ waiting' = waiting \ {o.key}
  /\ cursor' = o.key
  /\ Drop(w, o) /\ Goto(w, "next")
  /\ UNCHANGED <<store, enabled, due, queue, lease, from, got, crashes>>

\* One transaction: the rows that are not there yet and the ledger entry, which
\* takes the ETag of the listing.
Import(w, o) ==
  /\ At(w, "import") /\ IsNext(w, o) /\ <<o.key, got[w]>> \notin Malformed
  /\ origin' = [r \in Row |-> IF r \in Fresh(o.key, got[w]) THEN "s3" ELSE origin[r]]
  /\ inserted' = inserted + Cardinality(Fresh(o.key, got[w]))
  /\ ledger' = [ledger EXCEPT ![o.key] = Entry(o.etag, "done")]
  /\ waiting' = waiting \ {o.key}
  /\ cursor' = o.key
  /\ Drop(w, o) /\ Goto(w, "next")
  /\ UNCHANGED <<store, enabled, due, queue, lease, from, got, crashes>>

\* The request, the parser or the database failed: rollback and _record_failed,
\* which leaves the cursor.
Fail(w, o) ==
  /\ pc[w] \in {"next", "import"} /\ IsNext(w, o) /\ o.key \notin Ignorable
  /\ ledger' = [ledger EXCEPT ![o.key] = Entry(o.etag, "failed")]
  /\ waiting' = waiting \cup {o.key}
  /\ Drop(w, o) /\ Goto(w, "next")
  /\ UNCHANGED <<store, origin, config, queue, lease, from, got, crashes>>

Finished(w) ==
  /\ At(w, "next") /\ todo[w] = {} /\ Goto(w, "finish")
  /\ UNCHANGED <<store, table, config, queue, lease, todo, from, got, crashes>>

\* finish_run reads the owner and writes the row in two statements.
FinishCheck(w) ==
  /\ At(w, "finish")
  /\ Goto(w, IF lease.owner = w THEN "release" ELSE "idle")
  /\ UNCHANGED <<store, table, config, queue, lease, todo, from, got, crashes>>

Release(w) ==
  /\ At(w, "release") /\ Goto(w, "idle")
  /\ lease' = [owner |-> None, ahead |-> FALSE]
  /\ UNCHANGED <<store, table, config, queue, todo, from, got, crashes>>

\* The job is cancelled by arq's timeout or dies with the process: nothing of the
\* open transaction stays, the lease does.
Cancel(w) ==
  /\ crashes < MaxCrash /\ pc[w] # "idle"
  /\ crashes' = crashes + 1
  /\ Goto(w, "idle") /\ todo' = [todo EXCEPT ![w] = {}]
  /\ UNCHANGED <<store, table, config, queue, lease, from, got>>

-----------------------------------------------------------------------------
Objects == [key : Key, etag : Version]

Working(w) ==
  \/ \E j \in Job : Claim(w, j)
  \/ Select(w) \/ ListFails(w) \/ Finished(w) \/ FinishCheck(w) \/ Release(w)
  \/ \E o \in todo[w] : Ignore(w, o) \/ Get(w, o) \/ Import(w, o) \/ Fail(w, o)

Next ==
  \/ \E k \in Key : Upload(k) \/ RetryDue(k)
  \/ \E r \in Row : Deliver(r)
  \/ \E on, moved \in BOOLEAN : UpdateConfig(on, moved)
  \/ Tick \/ Expire \/ EnqueueDue \/ EnqueueNow
  \/ \E w \in Worker : Working(w) \/ Cancel(w)

Spec == Init /\ [][Next]_vars

GetKey(w, k)    == \E o \in todo[w] : o.key = k /\ Get(w, o)
ImportKey(w, k) == \E o \in todo[w] : o.key = k /\ Import(w, o)

\* Time passes, the cron job and the worker run, and no listing, request or
\* transaction of one object fails for ever.
FairSpec ==
  /\ Spec /\ WF_vars(Tick) /\ WF_vars(Expire) /\ SF_vars(EnqueueDue)
  /\ \A k \in Key : WF_vars(RetryDue(k))
  /\ \A w \in Worker :
       /\ WF_vars(Working(w)) /\ SF_vars(Claim(w, "due")) /\ SF_vars(Select(w))
       /\ \A k \in Key : SF_vars(GetKey(w, k)) /\ SF_vars(ImportKey(w, k))

-----------------------------------------------------------------------------
TypeOK ==
  /\ store \in [Key -> Nat]
  /\ origin \in [Row -> {"absent", "mqtt", "s3"}]
  /\ ledger \in [Key -> [etag : Nat, status : Statuses]]
  /\ waiting \subseteq Key /\ cursor \in Nat /\ inserted \in Nat
  /\ enabled \in BOOLEAN /\ due \in BOOLEAN /\ queue \subseteq Job
  /\ lease \in [owner : Worker \cup {None}, ahead : BOOLEAN]
  /\ pc \in [Worker -> Steps]
  /\ todo \in [Worker -> SUBSET Objects]
  /\ from \in [Worker -> Nat] /\ got \in [Worker -> Nat]
  /\ crashes \in Nat

\* An object whose ledger entry says done with the ETag it has now is in the table
\* with every row, whatever was overwritten between listing, download and commit,
\* and however runs overlap after a lease expired (Select, Get, Import).
DoneIsImported ==
  \A k \in Key : (ledger[k].status = "done" /\ ledger[k].etag = store[k]) => Content[<<k, store[k]>>] \subseteq Stored

\* Why it holds: what a run has downloaded is at least as new as what it listed.
ImportInv ==
  /\ TypeOK
  /\ \A k \in Key : store[k] <= MaxVersion /\ ledger[k].etag <= store[k]
  /\ \A w \in Worker : \A o \in todo[w] :
       /\ o.etag <= store[o.key]
       /\ (pc[w] = "import" /\ IsNext(w, o)) => (o.etag <= got[w] /\ got[w] <= store[o.key])
  /\ DoneIsImported

\* With one run at a time no unchanged object is imported again: no run holds an
\* object the ledger calls done or ignored with the same ETag (Select, Import).
NothingTwice ==
  \A w \in Worker : \A o \in todo[w] :
    ledger[o.key] \notin {Entry(o.etag, "done"), Entry(o.etag, "ignored")}

\* With one run at a time inserted_measurements counts exactly the rows that the
\* import, and not MQTT, put into the table, also after a cancelled job.
CountsInserted == inserted = Cardinality({r \in Row : origin[r] = "s3"})

Sound(k) == k \notin Ignorable /\ \A v \in Version : <<k, v>> \notin Malformed

\* Every sound object, however old its name, is imported in its latest version,
\* although other objects are malformed and every request may fail a few times.
SoundIsImported ==
  <>[]enabled => \A k \in Key : Sound(k) => ((store[k] # 0) ~> (ledger[k] = Entry(store[k], "done")))
=============================================================================
