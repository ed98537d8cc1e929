------------------------------ MODULE MemStore ------------------------------
(***************************************************************************)
(* testutil.MemStore, the in-memory store.Store that tests use for the     *)
(* database, and the claim that nobody can tell the two apart: "a fake     *)
(* that disagrees with the database turns green unit tests into a          *)
(* production bug" (conformance_test.go:2-4).                              *)
(*                                                                         *)
(* A Go map is a function from its keys to an entry or None; what SQL      *)
(* keeps as NULL is a zero value here.  Every method holds one mutex, so   *)
(* each is one action.                                                     *)
(***************************************************************************)
EXTENDS StoreCalls

VARIABLES
  blobs, blobStates, variants,
  items, itemsByPath,      \* by item id, and the index from rel_path to item id
  stats,
  jobs, nextJobID,
  devices, deviceOrder,    \* by device id, and the ids as they came
  pairingCodes,
  meta

blobMaps == <<blobs, blobStates, variants>>
itemMaps == <<items, itemsByPath, stats>>
jobMaps == <<jobs, nextJobID>>
deviceMaps == <<devices, deviceOrder>>
vars == <<case, clock, outcome, blobMaps, itemMaps, jobMaps, deviceMaps, pairingCodes, meta>>

-----------------------------------------------------------------------------
(* State *)

Blob == [storedHash : Hashes \cup {EmptyText}, replacedAt : Times \cup {Null}, media : 0..1]
Stat == [count : Nat \ {0}, size : Nat, latest : Nat]
Job == [kind : JobKinds, priority : Nat, state : {"queued", "running", "done", "failed"},
        attempts : Nat, nextAttemptAt : {0} \cup Times, lastError : {EmptyText, "cause"},
        updatedAt : Times]
Device == [token : TokenHashes, version : Versions, createdAt : Times,
           lastSeenAt : {0} \cup Times, revokedAt : {0} \cup Times]
Code == [expiresAt : Times, usedAt : {0} \cup Times, attempts : Nat]
NewStat == [count |-> 0, size |-> 0, latest |-> 0]

\* An absent entry is no entry, and no value is SQL's NULL.
ASSUME AbsenceAssumption ==
  /\ None \notin Ids /\ None \notin OfferedItems
  /\ None \notin Blob \cup Stat \cup Job \cup Device \cup Code
  /\ None \notin {"stored", "missing"}
  /\ EmptyText \notin Hashes \cup {"cause"}
  /\ Null \notin Nat \cup Hashes \cup {EmptyText, "cause"}

TypeOK ==
  /\ case \in Cases /\ clock \in Times
  /\ blobs \in [Hashes -> Blob \cup {None}]
  /\ blobStates \in [Hashes -> {"stored", "missing", None}]
  /\ items \in [Ids -> OfferedItems \cup {None}]
  /\ itemsByPath \in [RelPaths -> Ids \cup {None}]
  /\ stats \in [Months -> Stat \cup {None}]
  /\ jobs \in [1..MaxJobs -> Job \cup {None}] /\ nextJobID \in 0..MaxJobs
  /\ devices \in [DeviceIds -> Device \cup {None}] /\ deviceOrder \in Seq(DeviceIds)
  /\ pairingCodes \in [CodeHashes -> Code \cup {None}]

Init ==
  /\ case \in Cases
  /\ clock = FirstMs
  /\ outcome = Idle
  /\ blobs = [h \in Hashes |-> None]
  /\ blobStates = [h \in Hashes |-> None]
  /\ variants = [v \in Hashes \X VariantKinds |-> None]
  /\ items = [i \in Ids |-> None]
  /\ itemsByPath = [p \in RelPaths |-> None]
  /\ stats = [m \in Months |-> None]
  /\ jobs = [j \in 1..MaxJobs |-> None] /\ nextJobID = 0
  /\ devices = [d \in DeviceIds |-> None] /\ deviceOrder = <<>>
  /\ pairingCodes = [c \in CodeHashes |-> None]
  /\ meta = [k \in MetaKeys |-> None]

-----------------------------------------------------------------------------
(* Blobs and variants *)

otherThanBlobs == <<case, clock, itemMaps, jobMaps, deviceMaps, pairingCodes, meta>>

InsertBlob(h) ==
  /\ blobs' = Inserted(blobs, h, [storedHash |-> EmptyText, replacedAt |-> Null, media |-> 0])
  /\ blobStates' = IF blobs[h] = None THEN [blobStates EXCEPT ![h] = "stored"] ELSE blobStates
  /\ Returns("InsertBlob", IfFree(blobs, h), 0)
  /\ UNCHANGED <<variants, otherThanBlobs>>

SetBlobState(h, state) ==
  /\ blobStates' = IF blobs[h] = None THEN blobStates ELSE [blobStates EXCEPT ![h] = state]
  /\ Returns("SetBlobState", IfPresent(blobs, h), 0)
  /\ UNCHANGED <<blobs, variants, otherThanBlobs>>

SetBlobStoredHash(h, stored) ==
  /\ blobs' = Updated(blobs, h,
                LAMBDA b : [b EXCEPT !.storedHash = stored, !.replacedAt = clock])
  /\ Returns("SetBlobStoredHash", IfPresent(blobs, h), 0)
  /\ UNCHANGED <<blobStates, variants, otherThanBlobs>>

SetBlobMedia(h, media) ==
  /\ blobs' = Updated(blobs, h, LAMBDA b : [b EXCEPT !.media = media])
  /\ Returns("SetBlobMedia", IfPresent(blobs, h), 0)
  /\ UNCHANGED <<blobStates, variants, otherThanBlobs>>

\* Whether or not there is such a blob.
InsertBlobVariant(h, kind, size) ==
  /\ variants' = [variants EXCEPT ![<<h, kind>>] = size]
  /\ Returns("InsertBlobVariant", "none", 0)
  /\ UNCHANGED <<blobs, blobStates, otherThanBlobs>>

BlobByHash(h) == blobs[h]

BlobVariantsByHash(h) ==
  LET kinds == Ordered({k \in VariantKinds : variants[h, k] # None}, <)
  IN [i \in DOMAIN kinds |-> [kind |-> kinds[i], size |-> variants[h, kinds[i]]]]

-----------------------------------------------------------------------------
(* Items and the counters kept beside them *)

otherThanItems == <<case, clock, blobMaps, jobMaps, deviceMaps, pairingCodes, meta>>

StatOf(m) == IF stats[m] = None THEN NewStat ELSE stats[m]

Later(captured, latest) == IF captured > latest THEN captured ELSE latest

\* What InsertItem does to the counters.
Counted(it) ==
  LET st == StatOf(MonthOf(it)) IN
  [stats EXCEPT ![MonthOf(it)] =
     [count |-> st.count + 1, size |-> st.size + SizeOf[it.hash],
      latest |-> Later(it.captured, st.latest)]]

InMonth(m, id) == {i \in Ids \ {id} : items[i] # None /\ MonthOf(items[i]) = m}

\* A bug: the newest capture time is taken over.
DiscountedKeepingLatest(it) ==
  LET st == StatOf(MonthOf(it)) IN
  [stats EXCEPT ![MonthOf(it)] =
     IF st.count - 1 <= 0 THEN None
     ELSE [count |-> st.count - 1, size |-> st.size - SizeOf[it.hash], latest |-> st.latest]]

\* A bug: a month without items keeps its row.
DiscountedKeepingRow(it) ==
  [stats EXCEPT ![MonthOf(it)] =
     [count |-> @.count - 1, size |-> @.size - SizeOf[it.hash],
      latest |-> Max({0} \cup {items[i].captured : i \in InMonth(MonthOf(it), it.id)})]]

\* What DeleteItem does to them: the newest capture is looked for among the others.
Discounted(it) ==
  LET st == StatOf(MonthOf(it)) IN
  [stats EXCEPT ![MonthOf(it)] =
     IF st.count - 1 <= 0 THEN None
     ELSE [count |-> st.count - 1, size |-> st.size - SizeOf[it.hash],
           latest |-> Max({0} \cup {items[i].captured : i \in InMonth(MonthOf(it), it.id)})]]

InsertItemError(it) ==
  IF blobs[it.hash] = None THEN "not found"
  ELSE IF items[it.id] # None \/ itemsByPath[it.path] # None THEN "already exists" ELSE "none"

InsertItem(it) ==
  /\ Returns("InsertItem", InsertItemError(it), 0)
  /\ \/ /\ InsertItemError(it) = "none"
        /\ items' = [items EXCEPT ![it.id] = it]
        /\ itemsByPath' = [itemsByPath EXCEPT ![it.path] = it.id]
        /\ stats' = Counted(it)
     \/ /\ InsertItemError(it) # "none"
        /\ UNCHANGED itemMaps
  /\ UNCHANGED otherThanItems

\* A bug: the index keeps the path of a deleted item.
DeleteItemOnly(id) ==
  /\ Returns("DeleteItem", IfPresent(items, id), 0)
  /\ \/ /\ items[id] # None
        /\ items' = [items EXCEPT ![id] = None]
        /\ stats' = Discounted(items[id])
        /\ UNCHANGED itemsByPath
     \/ /\ items[id] = None
        /\ UNCHANGED itemMaps
  /\ UNCHANGED otherThanItems

DeleteItem(id) ==
  /\ Returns("DeleteItem", IfPresent(items, id), 0)
  /\ \/ /\ items[id] # None
        /\ items' = [items EXCEPT ![id] = None]
        /\ itemsByPath' = [itemsByPath EXCEPT ![items[id].path] = None]
        /\ stats' = Discounted(items[id])
     \/ /\ items[id] = None
        /\ UNCHANGED itemMaps
  /\ UNCHANGED otherThanItems

ItemByPath(path) == IF itemsByPath[path] = None THEN None ELSE items[itemsByPath[path]]

ItemByID(id) == items[id]

ItemsByHash(h) ==
  LET ids == Ordered({i \in Ids : items[i] # None /\ items[i].hash = h}, <)
  IN [i \in DOMAIN ids |-> items[ids[i]]]

\* sortAlbumStats: by album, the newest month first.
StatBefore(a, b) == IF a.album # b.album THEN a.album < b.album ELSE a.month > b.month

Listed(counters) ==
  LET ordered == Ordered({m \in Months : counters[m] # None}, StatBefore)
  IN [i \in DOMAIN ordered |-> [at |-> ordered[i], stat |-> counters[ordered[i]]]]

AlbumStat(m) == stats[m]

AlbumStats == Listed(stats)

\* From items and blobs alone, the newest capture counting from 0.
DeriveAlbumStats ==
  Listed([m \in Months |->
    LET in == {i \in Ids : items[i] # None /\ MonthOf(items[i]) = m}
    IN IF in = {} THEN None
       ELSE [count |-> Cardinality(in),
             size |-> MapThenSumSet(LAMBDA i : SizeOf[items[i].hash], in),
             latest |-> Max({0} \cup {items[i].captured : i \in in})]])

-----------------------------------------------------------------------------
(* Jobs *)

otherThanJobs == <<case, clock, blobMaps, itemMaps, deviceMaps, pairingCodes, meta>>

DefaultPriority(kind) == IF kind = Thumbnail THEN 10 ELSE 100

EnqueueJob(kind, priority, at) ==
  /\ nextJobID < MaxJobs
  /\ nextJobID' = nextJobID + 1
  /\ jobs' = [jobs EXCEPT ![nextJobID + 1] =
       [kind |-> kind,
        priority |-> IF priority = 0 THEN DefaultPriority(kind) ELSE priority,
        state |-> "queued", attempts |-> 0, nextAttemptAt |-> at,
        lastError |-> EmptyText, updatedAt |-> clock]]
  /\ Returns("EnqueueJob", "none", nextJobID + 1)
  /\ UNCHANGED otherThanJobs

Claimable(j) == jobs[j] # None /\ jobs[j].state = "queued" /\ jobs[j].nextAttemptAt <= clock

\* A bug: jobs of one priority are taken as they were enqueued.
JobBeforeByAge(j, k) ==
  IF jobs[j].priority # jobs[k].priority THEN jobs[j].priority < jobs[k].priority ELSE j < k

JobBefore(j, k) ==
  IF jobs[j].priority # jobs[k].priority THEN jobs[j].priority < jobs[k].priority
  ELSE IF jobs[j].nextAttemptAt # jobs[k].nextAttemptAt
       THEN jobs[j].nextAttemptAt < jobs[k].nextAttemptAt
       ELSE j < k

\* The best of a map that is walked in any order.
ClaimJob ==
  LET due == {j \in 1..MaxJobs : Claimable(j)} IN
  /\ \/ /\ due = {}
        /\ UNCHANGED jobs
        /\ Returns("ClaimJob", "not found", 0)
     \/ \E best \in due :
          /\ \A j \in due \ {best} : JobBefore(best, j)
          /\ jobs' = [jobs EXCEPT ![best].state = "running", ![best].attempts = @ + 1,
                                  ![best].updatedAt = clock]
          /\ Returns("ClaimJob", "none", best)
  /\ UNCHANGED <<nextJobID, otherThanJobs>>

CompleteJob(j) ==
  /\ jobs' = Updated(jobs, j,
       LAMBDA job : [job EXCEPT !.state = "done", !.lastError = EmptyText, !.updatedAt = clock])
  /\ Returns("CompleteJob", IfPresent(jobs, j), 0)
  /\ UNCHANGED <<nextJobID, otherThanJobs>>

GivenUp(job) == [job EXCEPT !.state = "failed", !.nextAttemptAt = 0]
Delayed(job, at) == [job EXCEPT !.state = "queued", !.nextAttemptAt = at]

FailJob(j, cause, at) ==
  /\ jobs' = Updated(jobs, j, LAMBDA job :
       [(IF job.attempts >= MaxAttempts THEN GivenUp(job) ELSE Delayed(job, at))
          EXCEPT !.lastError = cause, !.updatedAt = clock])
  /\ Returns("FailJob", IfPresent(jobs, j), 0)
  /\ UNCHANGED <<nextJobID, otherThanJobs>>

RequeueRunningJobs ==
  LET running == {j \in 1..MaxJobs : jobs[j] # None /\ jobs[j].state = "running"} IN
  /\ jobs' = [j \in 1..MaxJobs |->
       IF j \in running THEN [jobs[j] EXCEPT !.state = "queued", !.updatedAt = clock]
       ELSE jobs[j]]
  /\ Returns("RequeueRunningJobs", "none", Cardinality(running))
  /\ UNCHANGED <<nextJobID, otherThanJobs>>

JobByID(j) == jobs[j]

JobsByState(state, limit) ==
  LET ids == Ordered({j \in 1..MaxJobs : jobs[j] # None /\ jobs[j].state = state}, <)
  IN IF limit > 0 /\ Len(ids) > limit THEN SubSeq(ids, 1, limit) ELSE ids

-----------------------------------------------------------------------------
(* Devices *)

otherThanDevices == <<case, clock, blobMaps, itemMaps, jobMaps, pairingCodes, meta>>

\* createdAt is the caller's: Pair reads its clock before this call, so devices may
\* come in another order than that of createdAt.  Pair sets neither of the other times.
InsertDevice(d, token, version, createdAt) ==
  /\ devices' = Inserted(devices, d,
       [token |-> token, version |-> version, createdAt |-> createdAt,
        lastSeenAt |-> 0, revokedAt |-> 0])
  /\ deviceOrder' = IF devices[d] = None THEN Append(deviceOrder, d) ELSE deviceOrder
  /\ Returns("InsertDevice", IfFree(devices, d), 0)
  /\ UNCHANGED otherThanDevices

Revoked(device) == device.revokedAt # 0

RevokeDevice(d) ==
  /\ devices' = Updated(devices, d,
       LAMBDA device : IF Revoked(device) THEN device ELSE [device EXCEPT !.revokedAt = clock])
  /\ Returns("RevokeDevice", IfPresent(devices, d), 0)
  /\ UNCHANGED <<deviceOrder, otherThanDevices>>

TouchDevice(d, version) ==
  /\ devices' = Updated(devices, d,
       LAMBDA device : [device EXCEPT !.lastSeenAt = clock,
                                      !.version = IF version # 0 THEN version ELSE @])
  /\ Returns("TouchDevice", IfPresent(devices, d), 0)
  /\ UNCHANGED <<deviceOrder, otherThanDevices>>

DeviceByID(d) == devices[d]

\* A bug: the first device with the token, although it may be revoked.
DeviceByTokenHashAnyway(token) ==
  SelectInSeq(deviceOrder, LAMBDA d : devices[d].token = token)

\* The first one in the order they came, as a position; 0 is not found.
DeviceByTokenHash(token) ==
  SelectInSeq(deviceOrder, LAMBDA d : devices[d].token = token /\ ~Revoked(devices[d]))

\* A sequence in an order in which elements may be equal: those stay as they came.
StableSorted(s, Before(_,_)) ==
  LET before == [p \in DOMAIN s |->
        {q \in DOMAIN s : Before(s[q], s[p]) \/ (~Before(s[p], s[q]) /\ q < p)}]
  IN [i \in DOMAIN s |-> s[CHOOSE p \in DOMAIN s : Cardinality(before[p]) = i - 1]]

\* A bug: the devices stay in the order they came in.
ListDevicesAsTheyCame == deviceOrder

\* sort.SliceStable
ListDevices ==
  StableSorted(deviceOrder, LAMBDA d, e :
    IF devices[d].createdAt # devices[e].createdAt
    THEN devices[d].createdAt < devices[e].createdAt
    ELSE d < e)

-----------------------------------------------------------------------------
(* Pairing codes and server_meta *)

otherThanCodes == <<case, clock, blobMaps, itemMaps, jobMaps, deviceMaps, meta>>

InsertPairingCode(c, expiresAt) ==
  /\ pairingCodes' = Inserted(pairingCodes, c,
       [expiresAt |-> expiresAt, usedAt |-> 0, attempts |-> 0])
  /\ Returns("InsertPairingCode", IfFree(pairingCodes, c), 0)
  /\ UNCHANGED otherThanCodes

MarkPairingCodeUsed(c) ==
  /\ IF pairingCodes[c] = None
     THEN UNCHANGED pairingCodes /\ Returns("MarkPairingCodeUsed", "not found", 0)
     ELSE IF pairingCodes[c].usedAt # 0
     THEN UNCHANGED pairingCodes /\ Returns("MarkPairingCodeUsed", "already exists", 0)
     ELSE /\ pairingCodes' = [pairingCodes EXCEPT ![c].usedAt = clock]
          /\ Returns("MarkPairingCodeUsed", "none", 0)
  /\ UNCHANGED otherThanCodes

IncrementPairingCodeAttempts(c) ==
  /\ pairingCodes' = Updated(pairingCodes, c, LAMBDA pc : [pc EXCEPT !.attempts = @ + 1])
  /\ Returns("IncrementPairingCodeAttempts", IfPresent(pairingCodes, c),
             IF pairingCodes[c] = None THEN 0 ELSE pairingCodes'[c].attempts)
  /\ UNCHANGED otherThanCodes

DeletePairingCodesBefore(t) ==
  LET expired == {c \in CodeHashes : pairingCodes[c] # None /\ pairingCodes[c].expiresAt < t} IN
  /\ pairingCodes' = [c \in CodeHashes |-> IF c \in expired THEN None ELSE pairingCodes[c]]
  /\ Returns("DeletePairingCodesBefore", "none", Cardinality(expired))
  /\ UNCHANGED otherThanCodes

PairingCodeByHash(c) == pairingCodes[c]

SetMeta(k, v) ==
  /\ meta' = [meta EXCEPT ![k] = v]
  /\ Returns("SetMeta", "none", 0)
  /\ UNCHANGED <<case, clock, blobMaps, itemMaps, jobMaps, deviceMaps, pairingCodes>>

Meta(k) == meta[k]

-----------------------------------------------------------------------------
(* The caller.  It records a variant only of a blob it has (S5), enqueues   *)
(* only the kinds of the schema, and its items name no device.              *)

Tick ==
  /\ clock < LastMs
  /\ clock' = clock + 1
  /\ UNCHANGED <<case, outcome, blobMaps, itemMaps, jobMaps, deviceMaps, pairingCodes, meta>>

BlobMethods ==
  \E h \in Hashes :
    \/ InsertBlob(h)
    \/ \E state \in {"stored", "missing"} : SetBlobState(h, state)
    \/ \E stored \in Hashes \ {h} : SetBlobStoredHash(h, stored)
    \/ \E media \in 0..1 : SetBlobMedia(h, media)
    \/ blobs[h] # None /\ \E kind \in VariantKinds, size \in 1..2 : InsertBlobVariant(h, kind, size)

ItemMethods ==
  \/ \E h \in Hashes : InsertBlob(h)
  \/ \E it \in OfferedItems : InsertItem(it)
  \/ \E id \in Ids : DeleteItem(id)

\* Bounds: claims of one job, and guesses of one code.
Unworn == \A j \in 1..MaxJobs : jobs[j] # None => jobs[j].attempts <= MaxAttempts
Guessable(c) == pairingCodes[c] # None => pairingCodes[c].attempts < MaxGuesses

JobMethods ==
  \/ \E kind \in JobKinds, priority \in {0, 1}, at \in Times : EnqueueJob(kind, priority, at)
  \/ ClaimJob /\ Unworn
  \/ \E j \in 1..MaxJobs : CompleteJob(j) \/ \E at \in Times : FailJob(j, "cause", at)
  \/ RequeueRunningJobs

DeviceMethods ==
  \E d \in DeviceIds :
    \/ \E token \in TokenHashes, version \in Versions, createdAt \in Times :
         InsertDevice(d, token, version, createdAt)
    \/ RevokeDevice(d)
    \/ \E version \in Versions : TouchDevice(d, version)

CodeMethods ==
  \/ \E c \in CodeHashes :
       \/ \E t \in Times : InsertPairingCode(c, t)
       \/ MarkPairingCodeUsed(c)
       \/ Guessable(c) /\ IncrementPairingCodeAttempts(c)
  \/ \E t \in Times : DeletePairingCodesBefore(t)
  \/ \E k \in MetaKeys, v \in MetaValues : SetMeta(k, v)

Next ==
  \/ case = "blobs" /\ BlobMethods
  \/ case = "items" /\ ItemMethods
  \/ case = "jobs" /\ JobMethods
  \/ case = "devices" /\ DeviceMethods
  \/ case = "codes" /\ CodeMethods
  \/ Tick

Spec == Init /\ [][Next]_vars

-----------------------------------------------------------------------------
(* The maps as tables *)

NullIfZero(n) == IF n = 0 THEN Null ELSE n
NullIfEmpty(s) == IF s = EmptyText THEN Null ELSE s

\* The table of a map, entry by entry.
Rows(map, Row(_)) == [k \in DOMAIN map |-> IF map[k] = None THEN None ELSE Row(k)]

BlobRow(h) ==
  [state |-> blobStates[h], storedHash |-> NullIfEmpty(blobs[h].storedHash),
   replacedAt |-> blobs[h].replacedAt, media |-> NullIfZero(blobs[h].media)]
JobRow(j) == [jobs[j] EXCEPT !.lastError = NullIfEmpty(@)]
DeviceRow(d) ==
  [devices[d] EXCEPT !.version = NullIfZero(@), !.lastSeenAt = NullIfZero(@),
                     !.revokedAt = NullIfZero(@)]
CodeRow(c) == [pairingCodes[c] EXCEPT !.usedAt = NullIfZero(@)]

BlobRows == [state : {"stored", "missing"}, storedHash : Hashes \cup {Null},
             replacedAt : Times \cup {Null}, media : {1, Null}]
JobRows == [kind : JobKinds, priority : Nat, state : {"queued", "running", "done", "failed"},
            attempts : Nat, nextAttemptAt : {0} \cup Times, lastError : {"cause", Null},
            updatedAt : Times]
DeviceRows == [token : TokenHashes, version : Versions \cup {Null}, createdAt : Times,
               lastSeenAt : Times \cup {Null}, revokedAt : Times \cup {Null}]
CodeRows == [expiresAt : Times, usedAt : Times \cup {Null}, attempts : Nat]

\* Nor is an absent row a row.
ASSUME RowAssumption == None \notin BlobRows \cup JobRows \cup DeviceRows \cup CodeRows

Tables == INSTANCE StoreTables WITH
  blobs <- Rows(blobs, BlobRow),
  jobs <- Rows(jobs, JobRow),
  devices <- Rows(devices, DeviceRow),
  codes <- Rows(pairingCodes, CodeRow)

-----------------------------------------------------------------------------
(* Properties *)

\* The second maps agree with the first: every item is found under its path and no other
\* path leads anywhere, every blob has a state, every device has its place in the order.
IndexesAgree ==
  /\ \A p \in RelPaths, i \in Ids : itemsByPath[p] = i <=> (items[i] # None /\ items[i].path = p)
  /\ \A h \in Hashes : blobs[h] = None <=> blobStates[h] = None
  /\ \A d \in DeviceIds : devices[d] # None <=> \E i \in DOMAIN deviceOrder : deviceOrder[i] = d
  /\ IsInjective(deviceOrder)
  /\ \A j \in 1..MaxJobs : jobs[j] # None <=> j <= nextJobID

\* album_stats bookkeeping (memstore.go:214-215): after any calls the counters are those
\* derived from items and blobs.
StatsAreDerived == AlbumStats = DeriveAlbumStats

\* Every read of one entry gives what the database would give after the same writes.
SameRows ==
  /\ \A h \in Hashes : BlobByHash(h) = Tables!BlobByHash(h)
  /\ \A i \in Ids : ItemByID(i) = Tables!ItemByID(i)
  /\ \A p \in RelPaths : ItemByPath(p) = Tables!ItemByPath(p)
  /\ \A m \in Months : AlbumStat(m) = Tables!AlbumStat(m)
  /\ \A j \in 1..MaxJobs : JobByID(j) = Tables!JobByID(j)
  /\ \A d \in DeviceIds : DeviceByID(d) = Tables!DeviceByID(d)
  /\ \A token \in TokenHashes :
       IF Tables!DevicesByTokenHash(token) = {}
       THEN DeviceByTokenHash(token) = 0
       ELSE /\ DeviceByTokenHash(token) # 0
            /\ deviceOrder[DeviceByTokenHash(token)] \in Tables!DevicesByTokenHash(token)
  /\ \A c \in CodeHashes : PairingCodeByHash(c) = Tables!PairingCodeByHash(c)
  /\ \A k \in MetaKeys : Meta(k) = Tables!Meta(k)

\* Every list holds what the database would list, in its order.
SameLists ==
  /\ \A h \in Hashes :
       /\ BlobVariantsByHash(h) = Tables!BlobVariantsByHash(h)
       /\ ItemsByHash(h) = Tables!ItemsByHash(h)
  /\ AlbumStats = Tables!AlbumStats
  /\ DeriveAlbumStats = Tables!DeriveAlbumStats
  /\ \A state \in {"queued", "running", "done", "failed"}, limit \in 0..1 :
       JobsByState(state, limit) = Tables!JobsByState(state, limit)
  /\ ListDevices = Tables!ListDevices

\* Every write does to the maps what the database does to its tables, and returns the same.
ImplementsTables == Tables!Spec
=============================================================================
