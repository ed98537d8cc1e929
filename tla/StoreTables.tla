---------------------------- MODULE StoreTables ----------------------------
(***************************************************************************)
(* What package store promises of one database: the tables behind          *)
(* store.SQLite, each method one statement or one write transaction.  This *)
(* is the abstract specification that testutil.MemStore claims to meet     *)
(* (memstore.go:23-25).  A table is a function from its key to a row or    *)
(* None; NULL is a value of its own.                                       *)
(*                                                                         *)
(* Writes are actions, which also set outcome, the error and number their  *)
(* caller gets.  Reads are operators on the tables.                        *)
(***************************************************************************)
EXTENDS StoreCalls

VARIABLES blobs, variants, items, stats, jobs, devices, codes, meta

tables == <<blobs, variants, items, stats, jobs, devices, codes, meta>>
vars == <<case, clock, outcome, tables>>

NullIfZero(n) == IF n = 0 THEN Null ELSE n
ZeroIfNull(n) == IF n = Null THEN 0 ELSE n
EmptyIfNull(s) == IF s = Null THEN EmptyText ELSE s

Init ==
  /\ case \in Cases
  /\ clock = FirstMs
  /\ outcome = Idle
  /\ blobs = [h \in Hashes |-> None]
  /\ variants = [v \in Hashes \X VariantKinds |-> None]
  /\ items = [i \in Ids |-> None]
  /\ stats = [m \in Months |-> None]
  /\ jobs = [j \in 1..MaxJobs |-> None]
  /\ devices = [d \in DeviceIds |-> None]
  /\ codes = [c \in CodeHashes |-> None]
  /\ meta = [k \in MetaKeys |-> None]

-----------------------------------------------------------------------------
(* blobs and blob_variants *)

otherThanBlobs == <<case, clock, variants, items, stats, jobs, devices, codes, meta>>

FreshBlob == [state |-> "stored", storedHash |-> Null, replacedAt |-> Null, media |-> Null]

InsertBlob(h) ==
  /\ blobs' = Inserted(blobs, h, FreshBlob)
  /\ Returns("InsertBlob", IfFree(blobs, h), 0)
  /\ UNCHANGED otherThanBlobs

SetBlobState(h, state) ==
  /\ blobs' = Updated(blobs, h, LAMBDA b : [b EXCEPT !.state = state])
  /\ Returns("SetBlobState", IfPresent(blobs, h), 0)
  /\ UNCHANGED otherThanBlobs

SetBlobStoredHash(h, stored) ==
  /\ blobs' = Updated(blobs, h,
                LAMBDA b : [b EXCEPT !.storedHash = stored, !.replacedAt = clock])
  /\ Returns("SetBlobStoredHash", IfPresent(blobs, h), 0)
  /\ UNCHANGED otherThanBlobs

SetBlobMedia(h, media) ==
  /\ blobs' = Updated(blobs, h, LAMBDA b : [b EXCEPT !.media = NullIfZero(media)])
  /\ Returns("SetBlobMedia", IfPresent(blobs, h), 0)
  /\ UNCHANGED otherThanBlobs

\* ON CONFLICT DO UPDATE; the hash references blobs.
InsertBlobVariant(h, kind, size) ==
  /\ \/ /\ blobs[h] # None
        /\ variants' = [variants EXCEPT ![<<h, kind>>] = size]
        /\ Returns("InsertBlobVariant", "none", 0)
     \/ /\ blobs[h] = None
        /\ UNCHANGED variants
        /\ Returns("InsertBlobVariant", "foreign key", 0)
  /\ UNCHANGED <<case, clock, blobs, items, stats, jobs, devices, codes, meta>>

BlobByHash(h) ==
  IF blobs[h] = None THEN None
  ELSE [storedHash |-> EmptyIfNull(blobs[h].storedHash), replacedAt |-> blobs[h].replacedAt,
        media |-> ZeroIfNull(blobs[h].media)]

BlobVariantsByHash(h) ==
  [i \in 1..Cardinality({k \in VariantKinds : variants[h, k] # None}) |->
     LET kind == Ordered({k \in VariantKinds : variants[h, k] # None}, <)[i]
     IN [kind |-> kind, size |-> variants[h, kind]]]

-----------------------------------------------------------------------------
(* items and album_stats: both tables in one transaction (S3) *)

otherThanItems == <<case, clock, blobs, variants, jobs, devices, codes, meta>>

\* addToAlbumStatsTx
AddToAlbumStats(it) ==
  [stats EXCEPT ![MonthOf(it)] =
     IF @ = None
     THEN [count |-> 1, size |-> SizeOf[it.hash], latest |-> it.captured]
     ELSE [count |-> @.count + 1, size |-> @.size + SizeOf[it.hash],
           latest |-> Max({@.latest, it.captured})]]

CapturedIn(m, rows) == {rows[i].captured : i \in {j \in Ids : rows[j] # None /\ MonthOf(rows[j]) = m}}

\* removeFromAlbumStatsTx: a row without items is deleted, the newest capture recomputed.
RemoveFromAlbumStats(it, rest) ==
  [stats EXCEPT ![MonthOf(it)] =
     IF @.count <= 1 THEN None
     ELSE [count |-> @.count - 1, size |-> @.size - SizeOf[it.hash],
           latest |-> Max(CapturedIn(MonthOf(it), rest))]]

\* rel_path is UNIQUE.
Taken(it) == items[it.id] # None \/ \E i \in Ids : items[i] # None /\ items[i].path = it.path

InsertItem(it) ==
  /\ \/ /\ blobs[it.hash] = None
        /\ UNCHANGED <<items, stats>>
        /\ Returns("InsertItem", "not found", 0)
     \/ /\ blobs[it.hash] # None /\ Taken(it)
        /\ UNCHANGED <<items, stats>>
        /\ Returns("InsertItem", "already exists", 0)
     \/ /\ blobs[it.hash] # None /\ ~Taken(it)
        /\ items' = [items EXCEPT ![it.id] = it]
        /\ stats' = AddToAlbumStats(it)
        /\ Returns("InsertItem", "none", 0)
  /\ UNCHANGED otherThanItems

DeleteItem(id) ==
  /\ \/ /\ items[id] = None
        /\ UNCHANGED <<items, stats>>
     \/ /\ items[id] # None
        /\ items' = [items EXCEPT ![id] = None]
        /\ stats' = RemoveFromAlbumStats(items[id], [items EXCEPT ![id] = None])
  /\ Returns("DeleteItem", IfPresent(items, id), 0)
  /\ UNCHANGED otherThanItems

ItemByID(id) == items[id]

ItemByPath(path) ==
  LET at == {i \in Ids : items[i] # None /\ items[i].path = path}
  IN IF at = {} THEN None ELSE items[CHOOSE i \in at : TRUE]

InOrder(ids, rows) == LET ordered == Ordered(ids, <) IN [i \in DOMAIN ordered |-> rows[ordered[i]]]

ItemsByHash(h) == InOrder({i \in Ids : items[i] # None /\ items[i].hash = h}, items)

AlbumStat(m) == stats[m]

\* ORDER BY album, year DESC, month DESC
StatBefore(a, b) == a.album < b.album \/ (a.album = b.album /\ a.month > b.month)

Listed(counters) ==
  LET ordered == Ordered({m \in Months : counters[m] # None}, StatBefore)
  IN [i \in DOMAIN ordered |-> [at |-> ordered[i], stat |-> counters[ordered[i]]]]

AlbumStats == Listed(stats)

DeriveAlbumStats ==
  Listed([m \in Months |->
    LET in == {i \in Ids : items[i] # None /\ MonthOf(items[i]) = m}
    IN IF in = {} THEN None
       ELSE [count |-> Cardinality(in),
             size |-> MapThenSumSet(LAMBDA i : SizeOf[items[i].hash], in),
             latest |-> Max(CapturedIn(m, items))]])

-----------------------------------------------------------------------------
(* jobs *)

otherThanJobs == <<case, clock, blobs, variants, items, stats, devices, codes, meta>>

Rows == {j \in 1..MaxJobs : jobs[j] # None}

DefaultPriority(kind) == IF kind = Thumbnail THEN 10 ELSE 100

EnqueueJob(kind, priority, at) ==
  LET id == Cardinality(Rows) + 1 IN
  /\ id <= MaxJobs
  /\ jobs' = [jobs EXCEPT ![id] =
       [kind |-> kind,
        priority |-> IF priority = 0 THEN DefaultPriority(kind) ELSE priority,
        state |-> "queued", attempts |-> 0, nextAttemptAt |-> at,
        lastError |-> Null, updatedAt |-> clock]]
  /\ Returns("EnqueueJob", "none", id)
  /\ UNCHANGED otherThanJobs

Due == {j \in Rows : jobs[j].state = "queued" /\ jobs[j].nextAttemptAt <= clock}

\* ORDER BY priority, next_attempt_at, job_id
ClaimedBefore(j, k) ==
  \/ jobs[j].priority < jobs[k].priority
  \/ /\ jobs[j].priority = jobs[k].priority
     /\ \/ jobs[j].nextAttemptAt < jobs[k].nextAttemptAt
        \/ (jobs[j].nextAttemptAt = jobs[k].nextAttemptAt /\ j < k)

ClaimJob ==
  /\ \/ /\ Due = {}
        /\ UNCHANGED jobs
        /\ Returns("ClaimJob", "not found", 0)
     \/ \E j \in Due :
          /\ \A k \in Due \ {j} : ClaimedBefore(j, k)
          /\ jobs' = [jobs EXCEPT ![j].state = "running", ![j].attempts = @ + 1,
                                  ![j].updatedAt = clock]
          /\ Returns("ClaimJob", "none", j)
  /\ UNCHANGED otherThanJobs

CompleteJob(j) ==
  /\ jobs' = Updated(jobs, j,
       LAMBDA row : [row EXCEPT !.state = "done", !.lastError = Null, !.updatedAt = clock])
  /\ Returns("CompleteJob", IfPresent(jobs, j), 0)
  /\ UNCHANGED otherThanJobs

FailJob(j, cause, at) ==
  /\ jobs' = Updated(jobs, j, LAMBDA row :
       LET over == row.attempts >= MaxAttempts IN
       [row EXCEPT !.state = IF over THEN "failed" ELSE "queued",
                   !.nextAttemptAt = IF over THEN 0 ELSE at,
                   !.lastError = cause, !.updatedAt = clock])
  /\ Returns("FailJob", IfPresent(jobs, j), 0)
  /\ UNCHANGED otherThanJobs

InState(state) == {j \in Rows : jobs[j].state = state}

RequeueRunningJobs ==
  /\ jobs' = [j \in 1..MaxJobs |->
       IF j \in InState("running")
       THEN [jobs[j] EXCEPT !.state = "queued", !.updatedAt = clock] ELSE jobs[j]]
  /\ Returns("RequeueRunningJobs", "none", Cardinality(InState("running")))
  /\ UNCHANGED otherThanJobs

JobByID(j) == IF jobs[j] = None THEN None ELSE [jobs[j] EXCEPT !.lastError = EmptyIfNull(@)]

\* ids only: JobByID tells the rest.  A limit of 0 is none.
JobsByState(state, limit) ==
  LET ids == Ordered(InState(state), <)
  IN IF limit > 0 /\ limit < Len(ids) THEN SubSeq(ids, 1, limit) ELSE ids

-----------------------------------------------------------------------------
(* devices *)

otherThanDevices == <<case, clock, blobs, variants, items, stats, jobs, codes, meta>>

\* createdAt is the caller's; Pair, the only caller, sets neither of the other times.
InsertDevice(d, token, version, createdAt) ==
  /\ devices' = Inserted(devices, d,
       [token |-> token, version |-> NullIfZero(version), createdAt |-> createdAt,
        lastSeenAt |-> Null, revokedAt |-> Null])
  /\ Returns("InsertDevice", IfFree(devices, d), 0)
  /\ UNCHANGED otherThanDevices

\* Revoking twice keeps the first time.
RevokeDevice(d) ==
  /\ devices' = Updated(devices, d,
       LAMBDA row : IF row.revokedAt = Null THEN [row EXCEPT !.revokedAt = clock] ELSE row)
  /\ Returns("RevokeDevice", IfPresent(devices, d), 0)
  /\ UNCHANGED otherThanDevices

TouchDevice(d, version) ==
  /\ devices' = Updated(devices, d,
       LAMBDA row : [row EXCEPT !.lastSeenAt = clock,
                                !.version = IF version = 0 THEN @ ELSE version])
  /\ Returns("TouchDevice", IfPresent(devices, d), 0)
  /\ UNCHANGED otherThanDevices

Device(row) ==
  IF row = None THEN None
  ELSE [row EXCEPT !.version = ZeroIfNull(@), !.lastSeenAt = ZeroIfNull(@),
                   !.revokedAt = ZeroIfNull(@)]

DeviceByID(d) == Device(devices[d])

\* Any of these, should a token hash occur twice.
DevicesByTokenHash(token) ==
  {d \in DeviceIds : devices[d] # None /\ devices[d].token = token /\ devices[d].revokedAt = Null}

OlderDevice(d, e) ==
  \/ devices[d].createdAt < devices[e].createdAt
  \/ (devices[d].createdAt = devices[e].createdAt /\ d < e)

ListDevices == Ordered({d \in DeviceIds : devices[d] # None}, OlderDevice)

-----------------------------------------------------------------------------
(* pairing_codes and server_meta *)

otherThanCodes == <<case, clock, blobs, variants, items, stats, jobs, devices, meta>>

InsertPairingCode(c, expiresAt) ==
  /\ codes' = Inserted(codes, c, [expiresAt |-> expiresAt, usedAt |-> Null, attempts |-> 0])
  /\ Returns("InsertPairingCode", IfFree(codes, c), 0)
  /\ UNCHANGED otherThanCodes

\* UPDATE ... WHERE used_at IS NULL, then why nothing was updated.
MarkPairingCodeUsed(c) ==
  /\ \/ /\ codes[c] = None
        /\ UNCHANGED codes
        /\ Returns("MarkPairingCodeUsed", "not found", 0)
     \/ /\ codes[c] # None
        /\ codes[c].usedAt # Null
        /\ UNCHANGED codes
        /\ Returns("MarkPairingCodeUsed", "already exists", 0)
     \/ /\ codes[c] # None
        /\ codes[c].usedAt = Null
        /\ codes' = [codes EXCEPT ![c].usedAt = clock]
        /\ Returns("MarkPairingCodeUsed", "none", 0)
  /\ UNCHANGED otherThanCodes

IncrementPairingCodeAttempts(c) ==
  /\ codes' = Updated(codes, c, LAMBDA row : [row EXCEPT !.attempts = @ + 1])
  /\ Returns("IncrementPairingCodeAttempts", IfPresent(codes, c),
             IF codes[c] = None THEN 0 ELSE codes[c].attempts + 1)
  /\ UNCHANGED otherThanCodes

DeletePairingCodesBefore(t) ==
  LET expired == {c \in CodeHashes : codes[c] # None /\ codes[c].expiresAt < t} IN
  /\ codes' = [c \in CodeHashes |-> IF c \in expired THEN None ELSE codes[c]]
  /\ Returns("DeletePairingCodesBefore", "none", Cardinality(expired))
  /\ UNCHANGED otherThanCodes

PairingCodeByHash(c) ==
  IF codes[c] = None THEN None ELSE [codes[c] EXCEPT !.usedAt = ZeroIfNull(@)]

SetMeta(k, v) ==
  /\ meta' = [meta EXCEPT ![k] = v]
  /\ Returns("SetMeta", "none", 0)
  /\ UNCHANGED <<case, clock, blobs, variants, items, stats, jobs, devices, codes>>

Meta(k) == meta[k]

Tick ==
  /\ clock < LastMs
  /\ clock' = clock + 1
  /\ UNCHANGED <<case, outcome, tables>>

-----------------------------------------------------------------------------

BlobMethods ==
  \E h \in Hashes :
    \/ InsertBlob(h)
    \/ \E state \in {"stored", "missing"} : SetBlobState(h, state)
    \/ \E stored \in Hashes \ {h} : SetBlobStoredHash(h, stored)
    \/ \E media \in 0..1 : SetBlobMedia(h, media)
    \/ \E kind \in VariantKinds, size \in 1..2 : InsertBlobVariant(h, kind, size)

ItemMethods ==
  \/ \E h \in Hashes : InsertBlob(h)
  \/ \E it \in OfferedItems : InsertItem(it)
  \/ \E id \in Ids : DeleteItem(id)

\* Bounds: claims of one job, and guesses of one code.
Unworn == \A j \in Rows : jobs[j].attempts <= MaxAttempts
Guessable(c) == codes[c] # None => codes[c].attempts < MaxGuesses

JobMethods ==
  \/ \E kind \in JobKinds, priority \in {0, 1}, at \in Times : EnqueueJob(kind, priority, at)
  \/ ClaimJob /\ Unworn
  \/ \E j \in 1..MaxJobs : CompleteJob(j) \/ \E at \in Times : FailJob(j, "cause", at)
  \/ RequeueRunningJobs

DeviceMethods ==
  \E d \in DeviceIds :
    \/ \E token \in TokenHashes, version \in Versions, createdAt \in Times :
         InsertDevice(d, token, version, createdAt)
    \/ RevokeDevice(d)
    \/ \E version \in Versions : TouchDevice(d, version)

CodeMethods ==
  \/ \E c \in CodeHashes :
       \/ \E t \in Times : InsertPairingCode(c, t)
       \/ MarkPairingCodeUsed(c)
       \/ Guessable(c) /\ IncrementPairingCodeAttempts(c)
  \/ \E t \in Times : DeletePairingCodesBefore(t)
  \/ \E k \in MetaKeys, v \in MetaValues : SetMeta(k, v)

Next ==
  \/ case = "blobs" /\ BlobMethods
  \/ case = "items" /\ ItemMethods
  \/ case = "jobs" /\ JobMethods
  \/ case = "devices" /\ DeviceMethods
  \/ case = "codes" /\ CodeMethods
  \/ Tick

Spec == Init /\ [][Next]_vars
=============================================================================
