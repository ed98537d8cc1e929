--------------------------- MODULE MemStoreProofs ---------------------------
(***************************************************************************)
(* The in-memory store for any number of blobs, items, jobs, devices and   *)
(* codes: its maps agree with one another, its counters are those derived  *)
(* from the items, its lists hold what the database lists, in its order,   *)
(* and its writes are those of the database.                               *)
(***************************************************************************)
EXTENDS MemStore, AggregateLemmas

-----------------------------------------------------------------------------
(* The invariant, group by group *)

ClockInv == case \in Cases /\ clock \in Times

BlobInv ==
  /\ blobs \in [Hashes -> Blob \cup {None}]
  /\ blobStates \in [Hashes -> {"stored", "missing", None}]
  /\ \A h \in Hashes : blobs[h] = None <=> blobStates[h] = None

\* An item is found under its id and under its path.
ItemInv ==
  /\ items \in [Ids -> OfferedItems \cup {None}]
  /\ itemsByPath \in [RelPaths -> Ids \cup {None}]
  /\ \A i \in Ids : items[i] # None => items[i].id = i
  /\ \A p \in RelPaths, i \in Ids : itemsByPath[p] = i <=> (items[i] # None /\ items[i].path = p)

JobInv ==
  /\ jobs \in [1..MaxJobs -> Job \cup {None}] /\ nextJobID \in 0..MaxJobs
  /\ \A j \in 1..MaxJobs : jobs[j] # None <=> j <= nextJobID

DeviceInv ==
  /\ devices \in [DeviceIds -> Device \cup {None}] /\ deviceOrder \in Seq(DeviceIds)
  /\ \A d \in DeviceIds : devices[d] # None <=> \E i \in DOMAIN deviceOrder : deviceOrder[i] = d
  /\ IsInjective(deviceOrder)

CodeInv == pairingCodes \in [CodeHashes -> Code \cup {None}]

-----------------------------------------------------------------------------
(* Which group a step is about *)

BlobWrite ==
  \E h \in Hashes :
    \/ InsertBlob(h)
    \/ \E state \in {"stored", "missing"} : SetBlobState(h, state)
    \/ \E stored \in Hashes : SetBlobStoredHash(h, stored)
    \/ \E media \in 0..1 : SetBlobMedia(h, media)
    \/ blobs[h] # None /\ \E kind \in VariantKinds, size \in 1..2 : InsertBlobVariant(h, kind, size)

ItemWrite ==
  \/ \E it \in OfferedItems : InsertItem(it)
  \/ \E id \in Ids : DeleteItem(id)

LEMMA Groups ==
  ASSUME [Next]_vars
  PROVE  \/ BlobWrite /\ UNCHANGED otherThanBlobs
         \/ ItemWrite /\ UNCHANGED otherThanItems
         \/ JobMethods /\ UNCHANGED otherThanJobs
         \/ DeviceMethods /\ UNCHANGED otherThanDevices
         \/ CodeMethods /\ UNCHANGED <<case, clock, blobMaps, itemMaps, jobMaps, deviceMaps>>
         \/ Tick
         \/ UNCHANGED vars
<1>1. BlobWrite => UNCHANGED otherThanBlobs
  BY DEF BlobWrite, InsertBlob, SetBlobState, SetBlobStoredHash, SetBlobMedia, InsertBlobVariant
<1>2. ItemWrite => UNCHANGED otherThanItems
  BY DEF ItemWrite, InsertItem, DeleteItem
<1>3. JobMethods => UNCHANGED otherThanJobs
  BY DEF JobMethods, EnqueueJob, ClaimJob, CompleteJob, FailJob, RequeueRunningJobs
<1>4. DeviceMethods => UNCHANGED otherThanDevices
  BY DEF DeviceMethods, InsertDevice, RevokeDevice, TouchDevice
<1>5. CodeMethods => UNCHANGED <<case, clock, blobMaps, itemMaps, jobMaps, deviceMaps>>
  BY DEF CodeMethods, InsertPairingCode, MarkPairingCodeUsed, IncrementPairingCodeAttempts,
     DeletePairingCodesBefore, SetMeta, otherThanCodes
<1>6. BlobMethods => BlobWrite
  BY DEF BlobMethods, BlobWrite
<1>7. ItemMethods => BlobWrite \/ ItemWrite
  BY DEF ItemMethods, BlobWrite, ItemWrite
<1>8. QED
  BY <1>1, <1>2, <1>3, <1>4, <1>5, <1>6, <1>7 DEF Next

-----------------------------------------------------------------------------
(* Entries *)

LEMMA ClaimedJob ==
  ASSUME NEW job \in Job, NEW t \in Times
  PROVE  [job EXCEPT !.state = "running", !.attempts = @ + 1, !.updatedAt = t] \in Job
<1>1. PICK n \in Nat : n = job.attempts + 1
  BY DEF Job
<1>2. [job EXCEPT !.state = "running", !.attempts = n, !.updatedAt = t] \in Job
  BY DEF Job
<1>3. QED
  BY <1>1, <1>2

LEMMA TouchedDevice ==
  ASSUME NEW device \in Device, NEW t \in Times, NEW v \in Versions
  PROVE  [device EXCEPT !.lastSeenAt = t, !.version = IF v # 0 THEN v ELSE @] \in Device
BY DEF Device

LEMMA RevokedDevice ==
  ASSUME NEW device \in Device, NEW t \in Times
  PROVE  [device EXCEPT !.revokedAt = t] \in Device
BY DEF Device

LEMMA EnqueuedJob ==
  ASSUME NEW kind \in JobKinds, NEW priority \in Nat, NEW at \in Times, NEW t \in Times
  PROVE  [kind |-> kind, priority |-> priority, state |-> "queued", attempts |-> 0,
          nextAttemptAt |-> at, lastError |-> EmptyText, updatedAt |-> t] \in Job
BY DEF Job

-----------------------------------------------------------------------------
(* Blobs *)

LEMMA BlobStep ==
  ASSUME BlobInv, ClockInv, BlobWrite
  PROVE  BlobInv'
<1> USE AbsenceAssumption DEF BlobInv
<1>1. ASSUME NEW h \in Hashes, InsertBlob(h) PROVE BlobInv'
  <2> DEFINE b == [storedHash |-> EmptyText, replacedAt |-> Null, media |-> 0]
  <2>1. b \in Blob /\ b # None
    BY DEF Blob
  <2>2. blobs' = [blobs EXCEPT ![h] = IF @ = None THEN b ELSE @]
        /\ blobStates' = IF blobs[h] = None THEN [blobStates EXCEPT ![h] = "stored"] ELSE blobStates
    BY <1>1 DEF InsertBlob, Inserted
  <2>3. "stored" # None
    OBVIOUS
  <2> HIDE DEF b
  <2>4. QED
    BY <2>1, <2>2, <2>3
<1>2. ASSUME NEW h \in Hashes, NEW state \in {"stored", "missing"}, SetBlobState(h, state)
      PROVE  BlobInv'
  <2>1. state # None /\ blobs' = blobs
        /\ blobStates' = IF blobs[h] = None THEN blobStates ELSE [blobStates EXCEPT ![h] = state]
    BY <1>2 DEF SetBlobState
  <2>2. QED
    BY <2>1
<1>3. ASSUME NEW h \in Hashes, NEW f, blobs' = [blobs EXCEPT ![h] = IF @ = None THEN None ELSE f],
             blobs[h] \in Blob => f \in Blob, blobStates' = blobStates
      PROVE  BlobInv'
  BY <1>3
<1>4. ASSUME NEW h \in Hashes, NEW stored \in Hashes, SetBlobStoredHash(h, stored) PROVE BlobInv'
  <2> DEFINE f == [blobs[h] EXCEPT !.storedHash = stored, !.replacedAt = clock]
  <2>1. blobs[h] \in Blob => f \in Blob
    BY DEF Blob, ClockInv
  <2>2. blobs' = [blobs EXCEPT ![h] = IF @ = None THEN None ELSE f] /\ blobStates' = blobStates
    BY <1>4 DEF SetBlobStoredHash, Updated
  <2> HIDE DEF f
  <2>3. QED
    BY <1>3, <2>1, <2>2
<1>5. ASSUME NEW h \in Hashes, NEW media \in 0..1, SetBlobMedia(h, media) PROVE BlobInv'
  <2> DEFINE f == [blobs[h] EXCEPT !.media = media]
  <2>1. blobs[h] \in Blob => f \in Blob
    BY DEF Blob
  <2>2. blobs' = [blobs EXCEPT ![h] = IF @ = None THEN None ELSE f] /\ blobStates' = blobStates
    BY <1>5 DEF SetBlobMedia, Updated
  <2> HIDE DEF f
  <2>3. QED
    BY <1>3, <2>1, <2>2
<1>6. ASSUME NEW h \in Hashes, NEW kind, NEW size, InsertBlobVariant(h, kind, size) PROVE BlobInv'
  BY <1>6 DEF InsertBlobVariant
<1>7. QED
  BY <1>1, <1>2, <1>4, <1>5, <1>6 DEF BlobWrite

-----------------------------------------------------------------------------
(* Jobs *)

LEMMA JobStep ==
  ASSUME JobInv, ClockInv, JobMethods
  PROVE  JobInv'
<1> USE AbsenceAssumption, StoreAssumption DEF JobInv, ClockInv
<1>1. ASSUME NEW j \in 1..MaxJobs, NEW f, f \in Job, UNCHANGED nextJobID,
             jobs' = [jobs EXCEPT ![j] = IF @ = None THEN None ELSE f]
      PROVE  JobInv'
  BY <1>1
<1>2. ASSUME NEW kind \in JobKinds, NEW priority \in {0, 1}, NEW at \in Times,
             EnqueueJob(kind, priority, at)
      PROVE  JobInv'
  <2>1. nextJobID < MaxJobs /\ nextJobID' = nextJobID + 1
    BY <1>2 DEF EnqueueJob
  <2> DEFINE p == IF priority = 0 THEN DefaultPriority(kind) ELSE priority
             f == [kind |-> kind, priority |-> p, state |-> "queued", attempts |-> 0,
                   nextAttemptAt |-> at, lastError |-> EmptyText, updatedAt |-> clock]
  <2>2. f \in Job /\ jobs' = [jobs EXCEPT ![nextJobID + 1] = f]
    <3>1. p \in Nat
      BY DEF DefaultPriority
    <3>2. jobs' = [jobs EXCEPT ![nextJobID + 1] = f]
      BY <1>2 DEF EnqueueJob
    <3> HIDE DEF p
    <3>3. f \in Job
      BY <3>1, EnqueuedJob
    <3>4. QED
      BY <3>2, <3>3
  <2> HIDE DEF f
  <2>3. PICK n \in 1..MaxJobs : n = nextJobID + 1
    BY <2>1
  <2>4. f # None /\ nextJobID' = n /\ jobs' = [jobs EXCEPT ![n] = f]
    BY <2>1, <2>2, <2>3
  <2>5. \A j \in 1..MaxJobs : j <= n <=> j = n \/ j <= nextJobID
    BY <2>3
  <2>6. jobs' \in [1..MaxJobs -> Job \cup {None}] /\ nextJobID' \in 0..MaxJobs
    <3>1. f \in Job
      BY <2>2
    <3>2. jobs' \in [1..MaxJobs -> Job \cup {None}]
      BY <2>4, <3>1
    <3>3. n \in 0..MaxJobs
      BY <2>3
    <3>4. QED
      BY <2>4, <3>2, <3>3
  <2>7. \A j \in 1..MaxJobs : jobs'[j] # None <=> j <= nextJobID'
    BY <2>4, <2>5
  <2>8. QED
    BY <2>6, <2>7
<1>3. CASE ClaimJob
  <2>1. CASE UNCHANGED jobs /\ UNCHANGED nextJobID
    BY <2>1
  <2>2. ASSUME NEW best \in {j \in 1..MaxJobs : Claimable(j)}, UNCHANGED nextJobID,
               jobs' = [jobs EXCEPT ![best].state = "running", ![best].attempts = @ + 1,
                                    ![best].updatedAt = clock]
        PROVE  JobInv'
    <3> DEFINE f == [jobs[best] EXCEPT !.state = "running", !.attempts = @ + 1,
                                       !.updatedAt = clock]
    <3>1. jobs[best] \in Job
      BY DEF Claimable
    <3>2. f \in Job
      BY <3>1, ClaimedJob
    <3>3. best \in 1..MaxJobs /\ jobs[best] # None /\ f # None
      BY <3>1, <3>2 DEF Claimable
    <3>4. jobs' = [jobs EXCEPT ![best] = f]
      BY <2>2
    <3> HIDE DEF f
    <3>5. jobs' \in [1..MaxJobs -> Job \cup {None}]
          /\ \A j \in 1..MaxJobs : jobs'[j] # None <=> jobs[j] # None
      BY <3>2, <3>3, <3>4
    <3>6. QED
      BY <2>2, <3>5
  <2>3. QED
    BY <1>3, <2>1, <2>2 DEF ClaimJob
<1>4. ASSUME NEW j \in 1..MaxJobs, CompleteJob(j) PROVE JobInv'
  <2> DEFINE f == [jobs[j] EXCEPT !.state = "done", !.lastError = EmptyText, !.updatedAt = clock]
  <2>1. jobs' = [jobs EXCEPT ![j] = IF @ = None THEN None ELSE f] /\ UNCHANGED nextJobID
    BY <1>4 DEF CompleteJob, Updated
  <2>2. jobs[j] # None => f \in Job
    BY DEF Job
  <2> HIDE DEF f
  <2>3. QED
    BY <2>1, <2>2
<1>5. ASSUME NEW j \in 1..MaxJobs, NEW at \in Times, FailJob(j, "cause", at) PROVE JobInv'
  <2> DEFINE f == [(IF jobs[j].attempts >= MaxAttempts THEN GivenUp(jobs[j])
                    ELSE Delayed(jobs[j], at)) EXCEPT !.lastError = "cause", !.updatedAt = clock]
  <2>1. jobs' = [jobs EXCEPT ![j] = IF @ = None THEN None ELSE f] /\ UNCHANGED nextJobID
    BY <1>5 DEF FailJob, Updated
  <2>2. jobs[j] # None => f \in Job
    BY DEF Job, GivenUp, Delayed
  <2> HIDE DEF f
  <2>3. QED
    BY <2>1, <2>2
<1>6. CASE RequeueRunningJobs
  <2> DEFINE f(j) == [jobs[j] EXCEPT !.state = "queued", !.updatedAt = clock]
  <2>1. /\ jobs' = [j \in 1..MaxJobs |->
                     IF j \in {k \in 1..MaxJobs : jobs[k] # None /\ jobs[k].state = "running"}
                     THEN f(j) ELSE jobs[j]]
        /\ UNCHANGED nextJobID
    BY <1>6 DEF RequeueRunningJobs
  <2>2. \A j \in 1..MaxJobs : jobs[j] # None => f(j) \in Job
    BY DEF Job
  <2> HIDE DEF f
  <2>3. QED
    BY <2>1, <2>2
<1>7. QED
  BY <1>2, <1>3, <1>4, <1>5, <1>6 DEF JobMethods

-----------------------------------------------------------------------------
(* Devices and codes *)

LEMMA DeviceStep ==
  ASSUME DeviceInv, ClockInv, DeviceMethods
  PROVE  DeviceInv'
<1> USE AbsenceAssumption, StoreAssumption DEF DeviceInv, ClockInv
<1>1. ASSUME NEW d \in DeviceIds, NEW f, UNCHANGED deviceOrder, devices[d] # None => f \in Device,
             devices' = [devices EXCEPT ![d] = IF @ = None THEN None ELSE f]
      PROVE  DeviceInv'
  BY <1>1
<1>2. ASSUME NEW d \in DeviceIds, NEW token \in TokenHashes, NEW version \in Versions,
             NEW createdAt \in Times, InsertDevice(d, token, version, createdAt)
      PROVE  DeviceInv'
  <2> DEFINE f == [token |-> token, version |-> version, createdAt |-> createdAt,
                   lastSeenAt |-> 0, revokedAt |-> 0]
  <2>1. f \in Device /\ f # None
    BY DEF Device
  <2>2. /\ devices' = [devices EXCEPT ![d] = IF @ = None THEN f ELSE @]
        /\ deviceOrder' = IF devices[d] = None THEN Append(deviceOrder, d) ELSE deviceOrder
    BY <1>2 DEF InsertDevice, Inserted
  <2> HIDE DEF f
  <2>3. CASE devices[d] # None
    BY <2>1, <2>2, <2>3
  <2>4. CASE devices[d] = None
    <3>1. \A i \in DOMAIN deviceOrder : deviceOrder[i] # d
      BY <2>4
    <3>2. /\ deviceOrder' \in Seq(DeviceIds)
          /\ DOMAIN deviceOrder' = 1..(Len(deviceOrder) + 1)
          /\ DOMAIN deviceOrder = 1..Len(deviceOrder) /\ Len(deviceOrder) \in Nat
          /\ \A i \in DOMAIN deviceOrder : deviceOrder'[i] = deviceOrder[i]
          /\ deviceOrder'[Len(deviceOrder) + 1] = d
      BY <2>2, <2>4
    <3>3. IsInjective(deviceOrder')
      BY <3>1, <3>2 DEF IsInjective
    <3>4. ASSUME NEW e \in DeviceIds
          PROVE  (\E i \in DOMAIN deviceOrder' : deviceOrder'[i] = e)
                   <=> (e = d \/ \E i \in DOMAIN deviceOrder : deviceOrder[i] = e)
      <4>1. PICK n \in Nat : n = Len(deviceOrder)
        BY <3>2
      <4>2. 1..(n + 1) = (1..n) \cup {n + 1}
        BY <4>1
      <4>3. DOMAIN deviceOrder' = DOMAIN deviceOrder \cup {n + 1}
        BY <3>2, <4>1, <4>2
      <4>4. QED
        BY <3>2, <4>1, <4>3
    <3>5. devices' \in [DeviceIds -> Device \cup {None}]
          /\ \A e \in DeviceIds : devices'[e] # None <=> (e = d \/ devices[e] # None)
      BY <2>1, <2>2, <2>4
    <3>6. QED
      BY <3>2, <3>3, <3>4, <3>5
  <2>5. QED
    BY <2>3, <2>4
<1>3. ASSUME NEW d \in DeviceIds, RevokeDevice(d) PROVE DeviceInv'
  <2> DEFINE f == IF Revoked(devices[d]) THEN devices[d] ELSE [devices[d] EXCEPT !.revokedAt = clock]
  <2>1. devices' = [devices EXCEPT ![d] = IF @ = None THEN None ELSE f] /\ UNCHANGED deviceOrder
    BY <1>3 DEF RevokeDevice, Updated
  <2>2. devices[d] # None => f \in Device
    BY RevokedDevice
  <2> HIDE DEF f
  <2>3. QED
    BY <1>1, <2>1, <2>2
<1>4. ASSUME NEW d \in DeviceIds, NEW version \in Versions, TouchDevice(d, version)
      PROVE  DeviceInv'
  <2> DEFINE f == [devices[d] EXCEPT !.lastSeenAt = clock,
                                     !.version = IF version # 0 THEN version ELSE @]
  <2>1. devices' = [devices EXCEPT ![d] = IF @ = None THEN None ELSE f] /\ UNCHANGED deviceOrder
    BY <1>4 DEF TouchDevice, Updated
  <2>2. devices[d] # None => f \in Device
    BY TouchedDevice
  <2> HIDE DEF f
  <2>3. QED
    BY <1>1, <2>1, <2>2
<1>5. QED
  BY <1>2, <1>3, <1>4 DEF DeviceMethods

LEMMA CodeStep ==
  ASSUME CodeInv, ClockInv, CodeMethods
  PROVE  CodeInv'
<1> USE AbsenceAssumption, StoreAssumption DEF CodeInv, ClockInv
<1>1. ASSUME NEW c \in CodeHashes, NEW t \in Times, InsertPairingCode(c, t) PROVE CodeInv'
  BY <1>1 DEF InsertPairingCode, Inserted, Code
<1>2. ASSUME NEW c \in CodeHashes, MarkPairingCodeUsed(c) PROVE CodeInv'
  <2>1. CASE UNCHANGED pairingCodes
    BY <2>1
  <2>2. CASE pairingCodes[c] # None /\ pairingCodes' = [pairingCodes EXCEPT ![c].usedAt = clock]
    BY <2>2 DEF Code
  <2>3. QED
    BY <1>2, <2>1, <2>2 DEF MarkPairingCodeUsed
<1>3. ASSUME NEW c \in CodeHashes, IncrementPairingCodeAttempts(c) PROVE CodeInv'
  <2> DEFINE f == [pairingCodes[c] EXCEPT !.attempts = @ + 1]
  <2>1. pairingCodes' = [pairingCodes EXCEPT ![c] = IF @ = None THEN None ELSE f]
    BY <1>3 DEF IncrementPairingCodeAttempts, Updated
  <2>2. pairingCodes[c] # None => f \in Code
    BY DEF Code
  <2> HIDE DEF f
  <2>3. QED
    BY <2>1, <2>2
<1>4. ASSUME NEW t \in Times, DeletePairingCodesBefore(t) PROVE CodeInv'
  BY <1>4 DEF DeletePairingCodesBefore
<1>5. ASSUME NEW k, NEW v, SetMeta(k, v) PROVE CodeInv'
  BY <1>5 DEF SetMeta
<1>6. QED
  BY <1>1, <1>2, <1>3, <1>4, <1>5 DEF CodeMethods

-----------------------------------------------------------------------------
(* Items *)

LEMMA OfferedFacts ==
  ASSUME NEW it \in OfferedItems
  PROVE  /\ it.id \in Ids /\ it.path \in RelPaths /\ MonthOf(it) \in Months /\ it # None
         /\ it.hash \in Hashes /\ it.captured \in Int /\ SizeOf[it.hash] \in Nat
BY StoreAssumption, AbsenceAssumption DEF Ids, RelPaths, Months

LEMMA ItemStep ==
  ASSUME ItemInv, ItemWrite
  PROVE  ItemInv'
<1> USE AbsenceAssumption DEF ItemInv
<1>1. ASSUME NEW it \in OfferedItems, InsertItem(it) PROVE ItemInv'
  <2>1. CASE UNCHANGED itemMaps
    BY <2>1 DEF itemMaps
  <2>2. CASE /\ items[it.id] = None /\ itemsByPath[it.path] = None
             /\ items' = [items EXCEPT ![it.id] = it]
             /\ itemsByPath' = [itemsByPath EXCEPT ![it.path] = it.id]
    <3>1. PICK id \in Ids, path \in RelPaths : id = it.id /\ path = it.path /\ it # None
      BY OfferedFacts
    <3>2. /\ items[id] = None /\ itemsByPath[path] = None
          /\ items' = [items EXCEPT ![id] = it] /\ itemsByPath' = [itemsByPath EXCEPT ![path] = id]
      BY <2>2, <3>1
    <3>3. items' \in [Ids -> OfferedItems \cup {None}] /\ itemsByPath' \in [RelPaths -> Ids \cup {None}]
      BY <3>2
    <3>4. \A i \in Ids : items'[i] # None => items'[i].id = i
      BY <3>1, <3>2
    <3>5. ASSUME NEW p \in RelPaths, NEW i \in Ids
          PROVE  itemsByPath'[p] = i <=> (items'[i] # None /\ items'[i].path = p)
      BY <3>1, <3>2
    <3>6. QED
      BY <3>3, <3>4, <3>5
  <2>3. QED
    BY <1>1, <2>1, <2>2 DEF InsertItem, InsertItemError
<1>2. ASSUME NEW id \in Ids, DeleteItem(id) PROVE ItemInv'
  <2>1. CASE UNCHANGED itemMaps
    BY <2>1 DEF itemMaps
  <2>2. CASE /\ items[id] # None /\ items' = [items EXCEPT ![id] = None]
             /\ itemsByPath' = [itemsByPath EXCEPT ![items[id].path] = None]
    <3>1. PICK path \in RelPaths : path = items[id].path
      BY <2>2, OfferedFacts
    <3>2. itemsByPath' = [itemsByPath EXCEPT ![path] = None] /\ itemsByPath[path] = id
      BY <2>2, <3>1
    <3>3. items' \in [Ids -> OfferedItems \cup {None}] /\ itemsByPath' \in [RelPaths -> Ids \cup {None}]
      BY <2>2, <3>2
    <3>4. \A i \in Ids : items'[i] # None => items'[i].id = i
      BY <2>2
    <3>5. ASSUME NEW p \in RelPaths, NEW i \in Ids
          PROVE  itemsByPath'[p] = i <=> (items'[i] # None /\ items'[i].path = p)
      BY <2>2, <3>1, <3>2
    <3>6. QED
      BY <3>3, <3>4, <3>5
  <2>3. QED
    BY <1>2, <2>1, <2>2 DEF DeleteItem
<1>3. QED
  BY <1>1, <1>2 DEF ItemWrite

-----------------------------------------------------------------------------
(* Counters: what the items of a month add up to *)

In(rows, m) == {i \in Ids : rows[i] # None /\ MonthOf(rows[i]) = m}
SizeAt(rows) == [i \in Ids |-> IF rows[i] = None THEN 0 ELSE SizeOf[rows[i].hash]]
CaptureAt(rows) == [i \in Ids |-> IF rows[i] = None THEN 0 ELSE rows[i].captured]
Captures(rows, m) == {CaptureAt(rows)[i] : i \in In(rows, m)}

Counter(rows, m) ==
  IF In(rows, m) = {} THEN None
  ELSE [count |-> Cardinality(In(rows, m)), size |-> SumOver(SizeAt(rows), In(rows, m)),
        latest |-> Max({0} \cup Captures(rows, m))]

IsItems(rows) == rows \in [Ids -> OfferedItems \cup {None}]

StatInv ==
  /\ \A m \in Months : IsFiniteSet(In(items, m))
  /\ stats = [m \in Months |-> Counter(items, m)]

LEMMA ContributionTypes ==
  ASSUME NEW rows, IsItems(rows), NEW i \in Ids
  PROVE  SizeAt(rows)[i] \in Nat /\ CaptureAt(rows)[i] \in Int
BY OfferedFacts DEF IsItems, SizeAt, CaptureAt

LEMMA CapturesFinite ==
  ASSUME NEW rows, IsItems(rows), NEW m, IsFiniteSet(In(rows, m))
  PROVE  /\ IsFiniteSet({0} \cup Captures(rows, m)) /\ {0} \cup Captures(rows, m) \subseteq Int
         /\ {0} \cup Captures(rows, m) # {}
<1>1. IsFiniteSet(Captures(rows, m))
  BY ImageFinite DEF Captures
<1>2. IsFiniteSet(Captures(rows, m) \cup {0})
  BY <1>1, FS_AddElement
<1>3. Captures(rows, m) \cup {0} = {0} \cup Captures(rows, m)
  OBVIOUS
<1>4. Captures(rows, m) \subseteq Int
  BY ContributionTypes DEF Captures, In
<1>5. QED
  BY <1>2, <1>3, <1>4

LEMMA CounterType ==
  ASSUME NEW rows, IsItems(rows), NEW m, IsFiniteSet(In(rows, m)), In(rows, m) # {}
  PROVE  Counter(rows, m) \in Stat /\ Counter(rows, m) # None
<1>1. PICK k \in Nat \ {0} : k = Cardinality(In(rows, m))
  BY FS_CardinalityType, FS_EmptySet
<1>2. PICK size \in Nat : size = SumOver(SizeAt(rows), In(rows, m))
  <2>1. \A i \in In(rows, m) : SizeAt(rows)[i] \in Nat
    BY ContributionTypes DEF In
  <2>2. QED
    BY <2>1, SumOverType
<1>3. PICK latest \in Nat : latest = Max({0} \cup Captures(rows, m))
  <2> DEFINE S == {0} \cup Captures(rows, m)
  <2>1. IsFiniteSet(S) /\ S \subseteq Int /\ S # {} /\ 0 \in S
    BY CapturesFinite
  <2> HIDE DEF S
  <2>2. Max(S) \in S /\ \A x \in S : x <= Max(S)
    BY <2>1, MaxIsMax
  <2>3. Max(S) \in Int /\ 0 <= Max(S)
    BY <2>1, <2>2
  <2>4. QED
    BY <2>3 DEF S
<1>4. Counter(rows, m) = [count |-> k, size |-> size, latest |-> latest]
  BY <1>1, <1>2, <1>3 DEF Counter
<1>5. QED
  BY <1>4, AbsenceAssumption DEF Stat

\* A month whose items stay as they are keeps its counters.
LEMMA CounterKept ==
  ASSUME NEW rows, NEW next, IsItems(rows), IsItems(next), NEW m, IsFiniteSet(In(rows, m)),
         \A i \in Ids : rows[i] = next[i] \/ (i \notin In(rows, m) /\ i \notin In(next, m))
  PROVE  In(next, m) = In(rows, m) /\ Counter(next, m) = Counter(rows, m)
<1>1. In(next, m) = In(rows, m)
  BY DEF In
<1>2. \A i \in In(rows, m) : rows[i] = next[i] /\ i \in Ids
  BY DEF In
<1>3. \A i \in In(rows, m) : SizeAt(rows)[i] = SizeAt(next)[i] /\ CaptureAt(rows)[i] = CaptureAt(next)[i]
  BY <1>2 DEF SizeAt, CaptureAt
<1>4. SumOver(SizeAt(rows), In(rows, m)) = SumOver(SizeAt(next), In(rows, m))
  BY <1>3, SumOverCong
<1>5. Captures(next, m) = Captures(rows, m)
  BY <1>1, <1>3 DEF Captures
<1>6. QED
  BY <1>1, <1>4, <1>5 DEF Counter

\* The maximum of two is the one Later picks.
LEMMA LaterIsMax ==
  ASSUME NEW a \in Int, NEW b \in Int
  PROVE  Later(a, b) = Max({b, a}) /\ Later(a, b) \in Int
<1>1. CASE a > b
  <2>1. Max({b, a}) = a
    BY <1>1, MaxIs
  <2>2. QED
    BY <1>1, <2>1 DEF Later
<1>2. CASE ~(a > b)
  <2>1. Max({b, a}) = b
    BY <1>2, MaxIs
  <2>2. QED
    BY <1>2, <2>1 DEF Later
<1>3. QED
  BY <1>1, <1>2

CountIn(counter, it) ==
  [count |-> counter.count + 1, size |-> counter.size + SizeOf[it.hash],
   latest |-> Later(it.captured, counter.latest)]

Grown(rows, next, it, m) ==
  /\ IsItems(next) /\ IsFiniteSet(In(next, m))
  /\ Counter(next, m) =
       CountIn(IF Counter(rows, m) = None THEN NewStat ELSE Counter(rows, m), it)

Shrunk(rows, next, id, m) ==
  /\ IsItems(next) /\ IsFiniteSet(In(next, m)) /\ id \in In(rows, m)
  /\ Counter(rows, m) \in Stat /\ Counter(rows, m) # None
  /\ (Counter(rows, m).count <= 1 <=> In(next, m) = {})
  /\ Counter(next, m) =
       IF Counter(rows, m).count <= 1 THEN None
       ELSE [count |-> Counter(rows, m).count - 1,
             size |-> Counter(rows, m).size - SizeOf[rows[id].hash],
             latest |-> Max({0} \cup Captures(next, m))]

\* A month with no items yet counts from NewStat.
LEMMA CounterAdd ==
  ASSUME NEW rows, NEW next, NEW it \in OfferedItems, NEW m,
         IsItems(rows), rows[it.id] = None, next = [rows EXCEPT ![it.id] = it],
         m = MonthOf(it), IsFiniteSet(In(rows, m))
  PROVE  Grown(rows, next, it, m)
<1>1. PICK id \in Ids, s \in Nat, c \in Int :
        id = it.id /\ s = SizeOf[it.hash] /\ c = it.captured /\ it # None
  BY OfferedFacts
<1>2. IsItems(next) /\ next = [rows EXCEPT ![id] = it] /\ rows[id] = None
  BY <1>1 DEF IsItems
<1>3. In(next, m) = In(rows, m) \cup {id} /\ id \notin In(rows, m)
  BY <1>1, <1>2 DEF IsItems, In
<1>4. /\ \A i \in In(rows, m) : SizeAt(rows)[i] = SizeAt(next)[i] /\ CaptureAt(rows)[i] = CaptureAt(next)[i]
      /\ SizeAt(next)[id] = s /\ CaptureAt(next)[id] = c
  BY <1>1, <1>2, <1>3 DEF IsItems, In, SizeAt, CaptureAt
<1>5. PICK k \in Nat, sum \in Nat :
        /\ k = Cardinality(In(rows, m)) /\ (k = 0 <=> In(rows, m) = {})
        /\ IsFiniteSet(In(next, m)) /\ Cardinality(In(next, m)) = k + 1
        /\ sum = SumOver(SizeAt(rows), In(rows, m)) /\ (In(rows, m) = {} => sum = 0)
        /\ SumOver(SizeAt(next), In(next, m)) = sum + s
  <2> DEFINE S == In(rows, m)
             f == SizeAt(rows)
             g == SizeAt(next)
  <2>1. /\ id \notin S /\ g[id] = s /\ g[id] \in Nat
        /\ In(next, m) = S \cup {id} /\ IsFiniteSet(S)
    BY <1>1, <1>3, <1>4
  <2>2. \A i \in S : f[i] \in Nat /\ f[i] = g[i]
    BY <1>4, ContributionTypes DEF In
  <2> HIDE DEF S, f, g
  <2>3. Gained(f, g, S, id)
    BY <2>1, <2>2, Gains
  <2>4. QED
    BY <2>1, <2>3 DEF S, f, g, Gained
<1>6. PICK top \in Int : /\ top = Max({0} \cup Captures(rows, m)) /\ (In(rows, m) = {} => top = 0)
                         /\ Max({0} \cup Captures(next, m)) = Later(c, top)
  <2> DEFINE S == {0} \cup Captures(rows, m)
  <2>1. IsFiniteSet(S) /\ S \subseteq Int /\ S # {}
    BY CapturesFinite
  <2>2. {0} \cup Captures(next, m) = S \cup {c}
    <3> DEFINE T == In(rows, m)
               f == CaptureAt(rows)
               g == CaptureAt(next)
    <3>1. /\ \A i \in T : f[i] = g[i]
          /\ g[id] = c /\ In(next, m) = T \cup {id}
      BY <1>3, <1>4
    <3> HIDE DEF T, f, g
    <3>2. {g[i] : i \in T \cup {id}} = {f[i] : i \in T} \cup {c}
      BY <3>1
    <3>3. Captures(next, m) = Captures(rows, m) \cup {c}
      BY <3>1, <3>2 DEF Captures, T, f, g
    <3>4. QED
      BY <3>3
  <2>3. In(rows, m) = {} => S = {0}
    BY DEF Captures
  <2> HIDE DEF S
  <2>4. Max(S) \in Int
    BY <2>1, MaxIsMax
  <2>5. Max(S \cup {c}) = Max({Max(S), c})
    BY <1>1, <2>1, MaxAdd
  <2>6. Later(c, Max(S)) = Max({Max(S), c})
    BY <1>1, <2>4, LaterIsMax
  <2>7. Max({0}) = 0
    BY MaxIs
  <2>8. QED
    BY <2>2, <2>3, <2>4, <2>5, <2>6, <2>7 DEF S
<1>7. Counter(next, m) = [count |-> k + 1, size |-> sum + s, latest |-> Later(c, top)]
  BY <1>3, <1>5, <1>6 DEF Counter
<1>8. CASE In(rows, m) = {}
  <2>1. Counter(rows, m) = None
    BY <1>8 DEF Counter
  <2>2. k = 0 /\ sum = 0 /\ top = 0
    BY <1>5, <1>6, <1>8
  <2>3. QED
    BY <1>1, <1>2, <1>5, <1>7, <2>1, <2>2 DEF CountIn, NewStat, Grown
<1>9. CASE In(rows, m) # {}
  <2>1. Counter(rows, m) # None
    BY <1>9, CounterType
  <2>2. Counter(rows, m) = [count |-> k, size |-> sum, latest |-> top]
    BY <1>5, <1>6, <1>9 DEF Counter
  <2>3. QED
    BY <1>1, <1>2, <1>5, <1>7, <2>1, <2>2 DEF CountIn, Grown
<1>10. QED
  BY <1>8, <1>9

\* The last item takes the counters along.
LEMMA CounterRemove ==
  ASSUME NEW rows, NEW next, NEW id \in Ids, NEW m,
         IsItems(rows), rows[id] # None, next = [rows EXCEPT ![id] = None],
         m = MonthOf(rows[id]), IsFiniteSet(In(rows, m))
  PROVE  Shrunk(rows, next, id, m)
<1>1. PICK s \in Nat : s = SizeOf[rows[id].hash]
  BY OfferedFacts DEF IsItems
<1>2. IsItems(next)
  BY DEF IsItems
<1>3. In(next, m) = In(rows, m) \ {id} /\ id \in In(rows, m)
  BY DEF IsItems, In
<1>4. /\ \A i \in In(next, m) : SizeAt(rows)[i] = SizeAt(next)[i]
      /\ SizeAt(rows)[id] = s
  <2>1. \A i \in In(next, m) : next[i] = rows[i] /\ i \in Ids
    BY <1>3 DEF IsItems, In
  <2>2. QED
    BY <1>1, <2>1 DEF SizeAt
<1>5. PICK k \in Nat, sum \in Nat :
        /\ Cardinality(In(rows, m)) = k + 1 /\ (k = 0 <=> In(next, m) = {})
        /\ IsFiniteSet(In(next, m)) /\ Cardinality(In(next, m)) = k
        /\ SumOver(SizeAt(next), In(next, m)) = sum
        /\ SumOver(SizeAt(rows), In(rows, m)) = s + sum
  <2> DEFINE S == In(rows, m)
             f == SizeAt(rows)
             g == SizeAt(next)
  <2>1. id \in S /\ f[id] = s /\ In(next, m) = S \ {id} /\ IsFiniteSet(S)
    BY <1>3, <1>4
  <2>2. \A i \in S : f[i] \in Nat
    BY ContributionTypes DEF In
  <2>3. \A i \in S \ {id} : f[i] = g[i]
    BY <1>3, <1>4
  <2> HIDE DEF S, f, g
  <2>4. Lost(f, g, S, id)
    BY <2>1, <2>2, <2>3, Loses
  <2>5. QED
    BY <2>1, <2>4 DEF S, f, g, Lost
<1>6. Counter(rows, m) \in Stat /\ Counter(rows, m) # None
  BY <1>3, CounterType
<1>7. Counter(rows, m).count = k + 1 /\ Counter(rows, m).size = s + sum
  BY <1>3, <1>5 DEF Counter
<1>8. Counter(next, m) = IF k = 0 THEN None ELSE [count |-> k, size |-> sum, latest |-> Max({0} \cup Captures(next, m))]
  BY <1>5 DEF Counter
<1>9. (k + 1 <= 1 <=> k = 0) /\ (k + 1) - 1 = k /\ (s + sum) - s = sum
  BY <1>1, <1>5
<1>10. QED
  BY <1>1, <1>2, <1>3, <1>5, <1>6, <1>7, <1>8, <1>9 DEF Shrunk

LEMMA StatStep ==
  ASSUME ItemInv, StatInv, ItemWrite
  PROVE  StatInv'
<1>1. IsItems(items) /\ \A m \in Months : stats[m] = Counter(items, m) /\ IsFiniteSet(In(items, m))
  BY DEF ItemInv, IsItems, StatInv
<1>2. ASSUME NEW next, NEW m \in Months, NEW counter, NEW i \in Ids,
             IsItems(next), items' = next, \A j \in Ids \ {i} : next[j] = items[j],
             \A n \in Months \ {m} : i \notin In(items, n) /\ i \notin In(next, n),
             IsFiniteSet(In(next, m)), counter = Counter(next, m),
             stats' = [stats EXCEPT ![m] = counter]
      PROVE  StatInv'
  <2>1. ASSUME NEW n \in Months \ {m}
        PROVE  IsFiniteSet(In(next, n)) /\ Counter(next, n) = Counter(items, n)
    <3>1. \A j \in Ids : items[j] = next[j] \/ (j \notin In(items, n) /\ j \notin In(next, n))
      BY <1>2
    <3>2. In(next, n) = In(items, n) /\ Counter(next, n) = Counter(items, n)
      BY <1>1, <1>2, <3>1, CounterKept
    <3>3. QED
      BY <1>1, <3>2
  <2>2. stats' = [n \in Months |-> Counter(next, n)]
    BY <1>2, <2>1 DEF StatInv
  <2>3. QED
    BY <1>2, <2>1, <2>2 DEF StatInv
<1>3. ASSUME NEW it \in OfferedItems, InsertItem(it) PROVE StatInv'
  <2>1. CASE UNCHANGED itemMaps
    BY <2>1 DEF itemMaps, StatInv
  <2>2. CASE /\ items[it.id] = None /\ items' = [items EXCEPT ![it.id] = it]
             /\ stats' = Counted(it)
    <3>1. PICK m \in Months, id \in Ids : m = MonthOf(it) /\ id = it.id /\ it # None
      BY OfferedFacts
    <3>2. PICK next : next = [items EXCEPT ![it.id] = it]
      BY Zenon
    <3>3. IsFiniteSet(In(items, m))
      BY <1>1
    <3>4. Grown(items, next, it, m)
      BY <1>1, <2>2, <3>1, <3>2, <3>3, CounterAdd
    <3>5. /\ IsItems(next) /\ IsFiniteSet(In(next, m))
          /\ Counter(next, m) =
               CountIn(IF Counter(items, m) = None THEN NewStat ELSE Counter(items, m), it)
      BY <3>4 DEF Grown
    <3>6. Counted(it) = [stats EXCEPT ![m] = CountIn(StatOf(m), it)]
      BY <3>1, <3>2 DEF Counted, CountIn
    <3>7. StatOf(m) = IF Counter(items, m) = None THEN NewStat ELSE Counter(items, m)
      BY <1>1 DEF StatOf
    <3>8. stats' = [stats EXCEPT ![m] = Counter(next, m)]
      BY <2>2, <3>5, <3>6, <3>7
    <3>9. \A j \in Ids \ {id} : next[j] = items[j]
      BY <1>1, <3>1, <3>2 DEF IsItems
    <3>10. \A n \in Months \ {m} : id \notin In(items, n) /\ id \notin In(next, n)
      BY <1>1, <2>2, <3>1, <3>2 DEF IsItems, In
    <3>11. items' = next
      BY <2>2, <3>1, <3>2
    <3>12. QED
      BY <1>2, <3>5, <3>8, <3>9, <3>10, <3>11
  <2>3. QED
    BY <1>3, <2>1, <2>2 DEF InsertItem, InsertItemError
<1>4. ASSUME NEW id \in Ids, DeleteItem(id) PROVE StatInv'
  <2>1. CASE UNCHANGED itemMaps
    BY <2>1 DEF itemMaps, StatInv
  <2>2. CASE /\ items[id] # None /\ items' = [items EXCEPT ![id] = None]
             /\ stats' = Discounted(items[id])
    <3>1. PICK m \in Months, it \in OfferedItems : it = items[id] /\ m = MonthOf(it) /\ it.id = id
      BY <1>1, <2>2, OfferedFacts DEF IsItems, ItemInv
    <3>2. PICK next : next = [items EXCEPT ![id] = None]
      BY Zenon
    <3>3. IsFiniteSet(In(items, m))
      BY <1>1
    <3>4. Shrunk(items, next, id, m)
      BY <1>1, <2>2, <3>1, <3>2, <3>3, CounterRemove
    <3>5. /\ IsItems(next) /\ IsFiniteSet(In(next, m))
          /\ Counter(items, m) \in Stat /\ Counter(items, m) # None
          /\ Counter(next, m) =
               IF Counter(items, m).count <= 1 THEN None
               ELSE [count |-> Counter(items, m).count - 1,
                     size |-> Counter(items, m).size - SizeOf[it.hash],
                     latest |-> Max({0} \cup Captures(next, m))]
      BY <3>1, <3>4 DEF Shrunk
    <3>6. PICK st \in Stat : st = Counter(items, m) /\ st = StatOf(m)
      BY <1>1, <3>5 DEF StatOf
    <3>7. {items[i].captured : i \in InMonth(m, id)} = Captures(next, m)
      <4>1. InMonth(m, id) = In(next, m)
        BY <1>1, <3>1, <3>2 DEF IsItems, InMonth, In
      <4>2. \A i \in In(next, m) : CaptureAt(next)[i] = items[i].captured
        BY <1>1, <3>1, <3>2 DEF IsItems, In, CaptureAt
      <4>3. QED
        BY <4>1, <4>2 DEF Captures
    <3>8. Discounted(it) = [stats EXCEPT ![m] =
             IF st.count - 1 <= 0 THEN None
             ELSE [count |-> st.count - 1, size |-> st.size - SizeOf[it.hash],
                   latest |-> Max({0} \cup Captures(next, m))]]
      BY <3>1, <3>2, <3>6, <3>7 DEF Discounted
    <3>9. st.count - 1 <= 0 <=> st.count <= 1
      BY DEF Stat
    <3>10. stats' = [stats EXCEPT ![m] = Counter(next, m)]
      BY <2>2, <3>1, <3>2, <3>5, <3>6, <3>8, <3>9
    <3>11. \A j \in Ids \ {id} : next[j] = items[j]
      BY <1>1, <3>1, <3>2 DEF IsItems
    <3>12. \A n \in Months \ {m} : id \notin In(items, n) /\ id \notin In(next, n)
      BY <1>1, <2>2, <3>1, <3>2 DEF IsItems, In
    <3>13. items' = next
      BY <2>2, <3>1, <3>2
    <3>14. QED
      BY <1>2, <3>5, <3>10, <3>11, <3>12, <3>13
  <2>3. QED
    BY <1>4, <2>1, <2>2 DEF DeleteItem
<1>5. QED
  BY <1>3, <1>4 DEF ItemWrite

-----------------------------------------------------------------------------
(* The invariant *)

Inv == ClockInv /\ BlobInv /\ ItemInv /\ StatInv /\ JobInv /\ DeviceInv /\ CodeInv

LEMMA InvInit == Init => Inv
<1> SUFFICES ASSUME Init PROVE Inv
  OBVIOUS
<1> USE AbsenceAssumption DEF Init
<1>1. ClockInv
  BY StoreAssumption DEF ClockInv, Times
<1>2. BlobInv
  BY DEF BlobInv
<1>3. ItemInv
  BY DEF ItemInv
<1>4. StatInv
  <2>1. \A m \in Months : In(items, m) = {}
    BY DEF In
  <2>2. \A m \in Months : IsFiniteSet(In(items, m)) /\ Counter(items, m) = None
    BY <2>1, FS_EmptySet DEF Counter
  <2>3. QED
    BY <2>2 DEF StatInv
<1>5. JobInv
  BY StoreAssumption DEF JobInv
<1>6. DeviceInv
  BY DEF DeviceInv, IsInjective
<1>7. CodeInv
  BY DEF CodeInv
<1>8. QED
  BY <1>1, <1>2, <1>3, <1>4, <1>5, <1>6, <1>7 DEF Inv

LEMMA InvStep == Inv /\ [Next]_vars => Inv'
<1> SUFFICES ASSUME Inv, [Next]_vars PROVE Inv'
  OBVIOUS
<1> USE DEF Inv
<1>1. UNCHANGED <<case, clock>> => ClockInv'
  BY DEF ClockInv
<1>2. UNCHANGED blobMaps => BlobInv'
  BY DEF BlobInv, blobMaps
<1>3. UNCHANGED itemMaps => ItemInv' /\ StatInv'
  BY DEF ItemInv, StatInv, itemMaps
<1>4. UNCHANGED jobMaps => JobInv'
  BY DEF JobInv, jobMaps
<1>5. UNCHANGED deviceMaps => DeviceInv'
  BY DEF DeviceInv, deviceMaps
<1>6. UNCHANGED pairingCodes => CodeInv'
  BY DEF CodeInv
<1>7. CASE BlobWrite /\ UNCHANGED otherThanBlobs
  BY <1>1, <1>3, <1>4, <1>5, <1>6, <1>7, BlobStep DEF otherThanBlobs
<1>8. CASE ItemWrite /\ UNCHANGED otherThanItems
  BY <1>1, <1>2, <1>4, <1>5, <1>6, <1>8, ItemStep, StatStep DEF otherThanItems
<1>9. CASE JobMethods /\ UNCHANGED otherThanJobs
  BY <1>1, <1>2, <1>3, <1>5, <1>6, <1>9, JobStep DEF otherThanJobs
<1>10. CASE DeviceMethods /\ UNCHANGED otherThanDevices
  BY <1>1, <1>2, <1>3, <1>4, <1>6, <1>10, DeviceStep DEF otherThanDevices
<1>11. CASE CodeMethods /\ UNCHANGED <<case, clock, blobMaps, itemMaps, jobMaps, deviceMaps>>
  BY <1>1, <1>2, <1>3, <1>4, <1>5, <1>11, CodeStep
<1>12. CASE Tick
  <2>1. ClockInv'
    BY <1>12, StoreAssumption DEF Tick, ClockInv, Times
  <2>2. QED
    BY <1>2, <1>3, <1>4, <1>5, <1>6, <1>12, <2>1 DEF Tick
<1>13. CASE UNCHANGED vars
  BY <1>1, <1>2, <1>3, <1>4, <1>5, <1>6, <1>13 DEF vars
<1>14. QED
  BY <1>7, <1>8, <1>9, <1>10, <1>11, <1>12, <1>13, Groups

\* Every map of the store keeps to its type, and no entry is the absent one.
THEOREM MemStoreTypes == Spec => []TypeOK
<1>1. Inv => TypeOK
  <2> SUFFICES ASSUME Inv PROVE TypeOK
    OBVIOUS
  <2>1. stats \in [Months -> Stat \cup {None}]
    <3>1. IsItems(items)
      BY DEF Inv, ItemInv, IsItems
    <3>2. \A m \in Months : Counter(items, m) \in Stat \cup {None}
      BY <3>1, CounterType DEF Inv, StatInv, Counter
    <3>3. QED
      BY <3>2 DEF Inv, StatInv
  <2>2. QED
    BY <2>1 DEF Inv, ClockInv, BlobInv, ItemInv, JobInv, DeviceInv, CodeInv, TypeOK
<1>2. QED
  BY <1>1, InvInit, InvStep, PTL DEF Spec

\* The second maps of MemStore never part from the first, whatever is inserted,
\* deleted or touched: an item is found under its path and under no other, a blob
\* has a state, a device its one place in the order, and job ids have no gaps.
THEOREM MapsAgree == Spec => []IndexesAgree
<1>1. Inv => IndexesAgree
  BY DEF Inv, BlobInv, ItemInv, JobInv, DeviceInv, IndexesAgree
<1>2. QED
  BY <1>1, InvInit, InvStep, PTL DEF Spec

-----------------------------------------------------------------------------
(* The counters and the aggregate *)

LEMMA SizeInMonth ==
  ASSUME NEW S, S \subseteq Ids, \A i \in S : items[i] # None, IsFiniteSet(S)
  PROVE  MapThenSumSet(LAMBDA i : SizeOf[items[i].hash], S) = SumOver(SizeAt(items), S)
<1> DEFINE f == SizeAt(items)
           It(I) == I = [s \in SUBSET S |->
                           IF s = {} THEN 0 ELSE SizeOf[items[Chosen(s)].hash] + I[Others(s)]]
<1>1. \A s \in SUBSET S : s # {} => f[Chosen(s)] = SizeOf[items[Chosen(s)].hash]
  BY ChosenInside DEF SizeAt
<1>2. ASSUME NEW I, IsSummation(I, f, S) PROVE It(I)
  BY <1>1, <1>2 DEF IsSummation
<1>3. ASSUME NEW I, It(I) PROVE IsSummation(I, f, S)
  BY <1>1, <1>3 DEF IsSummation
<1>4. \E I : It(I)
  BY <1>2, SummationExists
<1>5. It(CHOOSE I : It(I))
  BY <1>4
<1>6. IsSummation(CHOOSE I : It(I), f, S)
  BY <1>3, <1>5
<1>7. (CHOOSE I : It(I))[S] = SumOver(f, S)
  BY <1>6, SumOverIs
<1>8. MapThenSumSet(LAMBDA i : SizeOf[items[i].hash], S) = (CHOOSE I : It(I))[S]
  BY Zenon DEF MapThenSumSet, MapThenFoldSet, Chosen, Others
<1>9. QED
  BY <1>7, <1>8

\* What DeriveAlbumStats computes for one month.
LEMMA DerivedCounter ==
  ASSUME Inv, NEW m \in Months, NEW in, in = {i \in Ids : items[i] # None /\ MonthOf(items[i]) = m}
  PROVE  stats[m] =
           IF in = {} THEN None
           ELSE [count |-> Cardinality(in),
                 size |-> MapThenSumSet(LAMBDA i : SizeOf[items[i].hash], in),
                 latest |-> Max({0} \cup {items[i].captured : i \in in})]
<1>1. in = In(items, m) /\ in \subseteq Ids /\ (\A i \in in : items[i] # None) /\ IsFiniteSet(in)
  BY DEF In, Inv, StatInv
<1>2. MapThenSumSet(LAMBDA i : SizeOf[items[i].hash], in) = SumOver(SizeAt(items), in)
  BY <1>1, SizeInMonth
<1>3. {items[i].captured : i \in in} = Captures(items, m)
  <2>1. \A i \in in : CaptureAt(items)[i] = items[i].captured
    BY <1>1 DEF CaptureAt
  <2>2. QED
    BY <1>1, <2>1 DEF Captures
<1>4. stats[m] = IF in = {} THEN None
                 ELSE [count |-> Cardinality(in), size |-> SumOver(SizeAt(items), in),
                       latest |-> Max({0} \cup Captures(items, m))]
  BY <1>1 DEF Inv, StatInv, Counter
<1>5. QED
  BY <1>2, <1>3, <1>4

\* The counters MemStore keeps by adding and taking away are those DeriveAlbumStats
\* computes from the items, however many items share a month.
THEOREM MemStoreCountersAreDerived == Spec => []StatsAreDerived
<1>1. Inv => StatsAreDerived
  <2> SUFFICES ASSUME Inv PROVE StatsAreDerived
    OBVIOUS
  <2>1. stats = [m \in Months |->
           LET in == {i \in Ids : items[i] # None /\ MonthOf(items[i]) = m}
           IN IF in = {} THEN None
              ELSE [count |-> Cardinality(in),
                    size |-> MapThenSumSet(LAMBDA i : SizeOf[items[i].hash], in),
                    latest |-> Max({0} \cup {items[i].captured : i \in in})]]
    BY DerivedCounter DEF Inv, StatInv
  <2>2. QED
    BY <2>1 DEF StatsAreDerived, AlbumStats, DeriveAlbumStats
<1>2. QED
  BY <1>1, InvInit, InvStep, PTL DEF Spec

-----------------------------------------------------------------------------
(* The tables: a row for an entry *)

BlobTable == Rows(blobs, BlobRow)
JobTable == Rows(jobs, JobRow)
DeviceTable == Rows(devices, DeviceRow)
CodeTable == Rows(pairingCodes, CodeRow)

RowOfBlob(b, state) ==
  [state |-> state, storedHash |-> NullIfEmpty(b.storedHash), replacedAt |-> b.replacedAt,
   media |-> NullIfZero(b.media)]
RowOfJob(job) == [job EXCEPT !.lastError = NullIfEmpty(@)]
RowOfDevice(d) ==
  [d EXCEPT !.version = NullIfZero(@), !.lastSeenAt = NullIfZero(@), !.revokedAt = NullIfZero(@)]
RowOfCode(c) == [c EXCEPT !.usedAt = NullIfZero(@)]

LEMMA BlobRowTypes ==
  ASSUME NEW b \in Blob, NEW state \in {"stored", "missing"}
  PROVE  RowOfBlob(b, state) \in BlobRows /\ RowOfBlob(b, state) # None
<1>1. RowOfBlob(b, state) \in BlobRows
  BY DEF RowOfBlob, Blob, BlobRows, NullIfEmpty, NullIfZero
<1>2. QED
  BY <1>1, RowAssumption

LEMMA JobRowTypes ==
  ASSUME NEW job \in Job
  PROVE  RowOfJob(job) \in JobRows /\ RowOfJob(job) # None
<1>1. RowOfJob(job) \in JobRows
  BY DEF RowOfJob, Job, JobRows, NullIfEmpty
<1>2. QED
  BY <1>1, RowAssumption

LEMMA DeviceRowTypes ==
  ASSUME NEW d \in Device
  PROVE  RowOfDevice(d) \in DeviceRows /\ RowOfDevice(d) # None
<1>1. RowOfDevice(d) \in DeviceRows
  BY DEF RowOfDevice, Device, DeviceRows, NullIfZero
<1>2. QED
  BY <1>1, RowAssumption

LEMMA CodeRowTypes ==
  ASSUME NEW c \in Code
  PROVE  RowOfCode(c) \in CodeRows /\ RowOfCode(c) # None
<1>1. RowOfCode(c) \in CodeRows
  BY DEF RowOfCode, Code, CodeRows, NullIfZero
<1>2. QED
  BY <1>1, RowAssumption

LEMMA TableRows ==
  ASSUME Inv
  PROVE  /\ BlobTable = [h \in Hashes |->
                           IF blobs[h] = None THEN None ELSE RowOfBlob(blobs[h], blobStates[h])]
         /\ JobTable = [j \in 1..MaxJobs |-> IF jobs[j] = None THEN None ELSE RowOfJob(jobs[j])]
         /\ DeviceTable = [d \in DeviceIds |->
                             IF devices[d] = None THEN None ELSE RowOfDevice(devices[d])]
         /\ CodeTable = [c \in CodeHashes |->
                           IF pairingCodes[c] = None THEN None ELSE RowOfCode(pairingCodes[c])]
<1>1. DOMAIN blobs = Hashes /\ DOMAIN jobs = 1..MaxJobs /\ DOMAIN devices = DeviceIds
      /\ DOMAIN pairingCodes = CodeHashes
  BY DEF Inv, BlobInv, JobInv, DeviceInv, CodeInv
<1>2. QED
  BY <1>1 DEF BlobTable, JobTable, DeviceTable, CodeTable, Rows, BlobRow, JobRow, DeviceRow, CodeRow,
     RowOfBlob, RowOfJob, RowOfDevice, RowOfCode

-----------------------------------------------------------------------------
(* Reads *)

LEMMA TextIsKept ==
  ASSUME NEW s \in Hashes \cup {EmptyText, "cause"}
  PROVE  Tables!EmptyIfNull(NullIfEmpty(s)) = s
BY AbsenceAssumption DEF NullIfEmpty, Tables!EmptyIfNull

LEMMA TimesAreNumbers == Null \notin Nat /\ Times \subseteq Nat /\ Versions \subseteq Nat
<1>1. Null \notin Nat
  BY AbsenceAssumption
<1>2. Times \subseteq Nat /\ Versions \subseteq Nat
  BY StoreAssumption DEF Times
<1>3. QED
  BY <1>1, <1>2

LEMMA ZeroOrTime ==
  ASSUME NEW n, n = 0 \/ n \in Times
  PROVE  n \in Nat /\ n # Null
<1>1. CASE n = 0
  BY <1>1, TimesAreNumbers
<1>2. CASE n \in Times
  BY <1>2, TimesAreNumbers, Zenon
<1>3. QED
  BY <1>1, <1>2

LEMMA NumberIsKept ==
  ASSUME NEW n \in Nat
  PROVE  Tables!ZeroIfNull(NullIfZero(n)) = n
BY AbsenceAssumption DEF NullIfZero, Tables!ZeroIfNull

LEMMA ReadBlob ==
  ASSUME NEW b \in Blob, NEW state
  PROVE  [storedHash |-> Tables!EmptyIfNull(RowOfBlob(b, state).storedHash),
          replacedAt |-> RowOfBlob(b, state).replacedAt,
          media |-> Tables!ZeroIfNull(RowOfBlob(b, state).media)] = b
<1>1. b.storedHash \in Hashes \cup {EmptyText} /\ b.media \in Nat
      /\ b = [storedHash |-> b.storedHash, replacedAt |-> b.replacedAt, media |-> b.media]
  BY DEF Blob
<1>2. Tables!EmptyIfNull(NullIfEmpty(b.storedHash)) = b.storedHash
      /\ Tables!ZeroIfNull(NullIfZero(b.media)) = b.media
  BY <1>1, TextIsKept, NumberIsKept
<1>3. QED
  BY <1>1, <1>2 DEF RowOfBlob

LEMMA ReadJob ==
  ASSUME NEW job \in Job
  PROVE  [RowOfJob(job) EXCEPT !.lastError = Tables!EmptyIfNull(@)] = job
<1>1. Tables!EmptyIfNull(NullIfEmpty(job.lastError)) = job.lastError
  BY TextIsKept DEF Job
<1>2. QED
  BY <1>1 DEF Job, RowOfJob

LEMMA ReadDevice ==
  ASSUME NEW d \in Device
  PROVE  [RowOfDevice(d) EXCEPT !.version = Tables!ZeroIfNull(@),
                                !.lastSeenAt = Tables!ZeroIfNull(@),
                                !.revokedAt = Tables!ZeroIfNull(@)] = d
<1>1. d.version \in Nat /\ d.lastSeenAt \in Nat /\ d.revokedAt \in Nat
  <2>1. d.version \in Versions /\ (d.lastSeenAt = 0 \/ d.lastSeenAt \in Times)
        /\ (d.revokedAt = 0 \/ d.revokedAt \in Times)
    BY DEF Device
  <2>2. d.version \in Nat
    BY <2>1, TimesAreNumbers
  <2>3. QED
    BY <2>1, <2>2, ZeroOrTime
<1>2. /\ Tables!ZeroIfNull(NullIfZero(d.version)) = d.version
      /\ Tables!ZeroIfNull(NullIfZero(d.lastSeenAt)) = d.lastSeenAt
      /\ Tables!ZeroIfNull(NullIfZero(d.revokedAt)) = d.revokedAt
  BY <1>1, NumberIsKept
<1>3. QED
  BY <1>2 DEF Device, RowOfDevice

LEMMA ReadCode ==
  ASSUME NEW c \in Code
  PROVE  [RowOfCode(c) EXCEPT !.usedAt = Tables!ZeroIfNull(@)] = c
<1>1. c.usedAt \in Nat
  BY StoreAssumption DEF Code, Times
<1>2. Tables!ZeroIfNull(NullIfZero(c.usedAt)) = c.usedAt
  BY <1>1, NumberIsKept
<1>3. QED
  BY <1>2 DEF Code, RowOfCode

LEMMA SameBlobs ==
  ASSUME Inv, NEW h \in Hashes
  PROVE  BlobByHash(h) = Tables!BlobByHash(h)
<1>1. BlobTable[h] = IF blobs[h] = None THEN None ELSE RowOfBlob(blobs[h], blobStates[h])
  BY TableRows
<1>2. Tables!BlobByHash(h) =
        IF BlobTable[h] = None THEN None
        ELSE [storedHash |-> Tables!EmptyIfNull(BlobTable[h].storedHash),
              replacedAt |-> BlobTable[h].replacedAt,
              media |-> Tables!ZeroIfNull(BlobTable[h].media)]
  BY DEF Tables!BlobByHash, BlobTable
<1>3. CASE blobs[h] = None
  BY <1>1, <1>2, <1>3 DEF BlobByHash
<1>4. CASE blobs[h] # None
  <2>1. blobs[h] \in Blob /\ blobStates[h] \in {"stored", "missing"}
    BY <1>4 DEF Inv, BlobInv
  <2>2. BlobTable[h] = RowOfBlob(blobs[h], blobStates[h]) /\ BlobTable[h] # None
    BY <1>1, <1>4, <2>1, BlobRowTypes
  <2>3. QED
    BY <1>2, <2>1, <2>2, ReadBlob DEF BlobByHash
<1>5. QED
  BY <1>3, <1>4

LEMMA SameJobs ==
  ASSUME Inv, NEW j \in 1..MaxJobs
  PROVE  JobByID(j) = Tables!JobByID(j)
<1>1. JobTable[j] = IF jobs[j] = None THEN None ELSE RowOfJob(jobs[j])
  BY TableRows
<1>2. Tables!JobByID(j) =
        IF JobTable[j] = None THEN None
        ELSE [JobTable[j] EXCEPT !.lastError = Tables!EmptyIfNull(@)]
  BY DEF Tables!JobByID, JobTable
<1>3. jobs[j] # None => jobs[j] \in Job
  BY DEF Inv, JobInv
<1>4. QED
  BY <1>1, <1>2, <1>3, JobRowTypes, ReadJob DEF JobByID

LEMMA SameDevices ==
  ASSUME Inv, NEW d \in DeviceIds
  PROVE  DeviceByID(d) = Tables!DeviceByID(d)
<1>1. DeviceTable[d] = IF devices[d] = None THEN None ELSE RowOfDevice(devices[d])
  BY TableRows
<1>2. Tables!DeviceByID(d) =
        IF DeviceTable[d] = None THEN None
        ELSE [DeviceTable[d] EXCEPT !.version = Tables!ZeroIfNull(@),
                                    !.lastSeenAt = Tables!ZeroIfNull(@),
                                    !.revokedAt = Tables!ZeroIfNull(@)]
  BY DEF Tables!DeviceByID, Tables!Device, DeviceTable
<1>3. devices[d] # None => devices[d] \in Device
  BY DEF Inv, DeviceInv
<1>4. QED
  BY <1>1, <1>2, <1>3, DeviceRowTypes, ReadDevice DEF DeviceByID

LEMMA SameCodes ==
  ASSUME Inv, NEW c \in CodeHashes
  PROVE  PairingCodeByHash(c) = Tables!PairingCodeByHash(c)
<1>1. CodeTable[c] = IF pairingCodes[c] = None THEN None ELSE RowOfCode(pairingCodes[c])
  BY TableRows
<1>2. Tables!PairingCodeByHash(c) =
        IF CodeTable[c] = None THEN None ELSE [CodeTable[c] EXCEPT !.usedAt = Tables!ZeroIfNull(@)]
  BY DEF Tables!PairingCodeByHash, CodeTable
<1>3. pairingCodes[c] # None => pairingCodes[c] \in Code
  BY DEF Inv, CodeInv
<1>4. QED
  BY <1>1, <1>2, <1>3, CodeRowTypes, ReadCode DEF PairingCodeByHash

\* The index leads where a search of the table would.
LEMMA SameItems ==
  ASSUME Inv, NEW p \in RelPaths
  PROVE  ItemByPath(p) = Tables!ItemByPath(p)
<1> DEFINE at == {i \in Ids : items[i] # None /\ items[i].path = p}
<1>1. Tables!ItemByPath(p) = IF at = {} THEN None ELSE items[CHOOSE i \in at : TRUE]
  BY DEF Tables!ItemByPath, Tables!Ids, Ids
<1>2. itemsByPath[p] \in Ids \cup {None}
      /\ \A i \in Ids : itemsByPath[p] = i <=> (items[i] # None /\ items[i].path = p)
  BY DEF Inv, ItemInv
<1>3. CASE itemsByPath[p] = None
  <2>1. at = {}
    BY <1>2, <1>3, AbsenceAssumption
  <2>2. QED
    BY <1>1, <1>3, <2>1 DEF ItemByPath
<1>4. CASE itemsByPath[p] # None
  <2>1. PICK i \in Ids : i = itemsByPath[p]
    BY <1>2, <1>4
  <2>2. at = {i}
    BY <1>2, <2>1
  <2>3. (CHOOSE j \in at : TRUE) = i
    BY <2>2
  <2>4. QED
    BY <1>1, <1>4, <2>1, <2>2, <2>3 DEF ItemByPath
<1>5. QED
  BY <1>3, <1>4

\* A token leads to one of the devices that hold it, as long as it is not revoked.
LEMMA SameTokens ==
  ASSUME Inv, NEW token
  PROVE  IF Tables!DevicesByTokenHash(token) = {}
         THEN DeviceByTokenHash(token) = 0
         ELSE /\ DeviceByTokenHash(token) # 0
              /\ deviceOrder[DeviceByTokenHash(token)] \in Tables!DevicesByTokenHash(token)
<1> DEFINE Held == {d \in DeviceIds : devices[d] # None /\ devices[d].token = token
                                        /\ ~Revoked(devices[d])}
           I == {i \in 1..Len(deviceOrder) : devices[deviceOrder[i]].token = token
                                               /\ ~Revoked(devices[deviceOrder[i]])}
<1>1. Tables!DevicesByTokenHash(token) =
        {d \in DeviceIds : DeviceTable[d] # None /\ DeviceTable[d].token = token
                             /\ DeviceTable[d].revokedAt = Null}
  BY DEF Tables!DevicesByTokenHash, DeviceTable
<1>2. ASSUME NEW d \in DeviceIds
      PROVE  (DeviceTable[d] # None /\ DeviceTable[d].token = token
                /\ DeviceTable[d].revokedAt = Null)
               <=> d \in Held
  <2>1. DeviceTable[d] = IF devices[d] = None THEN None ELSE RowOfDevice(devices[d])
    BY TableRows
  <2>2. CASE devices[d] = None
    BY <2>1, <2>2
  <2>3. CASE devices[d] # None
    <3>1. PICK e \in Device : e = devices[d]
      BY <2>3 DEF Inv, DeviceInv
    <3>2. RowOfDevice(e) # None
      BY DeviceRowTypes
    <3>3. RowOfDevice(e).token = e.token /\ RowOfDevice(e).revokedAt = NullIfZero(e.revokedAt)
      BY DEF RowOfDevice, Device
    <3>4. NullIfZero(e.revokedAt) = Null <=> e.revokedAt = 0
      <4>1. e.revokedAt = 0 \/ e.revokedAt \in Times
        BY DEF Device
      <4>2. e.revokedAt # Null
        BY <4>1, ZeroOrTime
      <4>3. QED
        BY <4>2 DEF NullIfZero
    <3>5. QED
      BY <2>1, <2>3, <3>1, <3>2, <3>3, <3>4 DEF Revoked
  <2>4. QED
    BY <2>2, <2>3
<1>3. Tables!DevicesByTokenHash(token) = Held
  BY <1>1, <1>2
<1>4. DeviceByTokenHash(token) = IF I # {} THEN Min(I) ELSE 0
  BY Zenon DEF DeviceByTokenHash, SelectInSeq
<1>5. I \subseteq Int /\ 0 \notin I /\ IsFiniteSet(I)
  <2>1. Len(deviceOrder) \in Nat
    BY DEF Inv, DeviceInv
  <2>2. IsFiniteSet(1..Len(deviceOrder))
    BY <2>1, FS_Interval
  <2>3. QED
    BY <2>1, <2>2, FS_Subset
<1>6. I # {} => Min(I) \in I
  <2> HIDE DEF I
  <2>1. QED
    BY <1>5, MinIsMin
<1>7. \A i \in I : deviceOrder[i] \in Held
  BY DEF Inv, DeviceInv
<1>8. Held # {} => I # {}
  <2> SUFFICES ASSUME NEW d \in Held PROVE I # {}
    OBVIOUS
  <2>1. PICK i \in DOMAIN deviceOrder : deviceOrder[i] = d
    BY DEF Inv, DeviceInv
  <2>2. DOMAIN deviceOrder = 1..Len(deviceOrder)
    BY DEF Inv, DeviceInv
  <2>3. i \in I
    BY <2>1, <2>2
  <2>4. QED
    BY <2>3
<1>9. QED
  <2> HIDE DEF I, Held
  <2>1. QED
    BY <1>3, <1>4, <1>5, <1>6, <1>7, <1>8

\* Whatever was written, every read of one entry answers as the database would.
THEOREM RowsReadAlike == Spec => []SameRows
<1>1. Inv => SameRows
  <2> SUFFICES ASSUME Inv PROVE SameRows
    OBVIOUS
  <2>1. \A i \in Ids : ItemByID(i) = Tables!ItemByID(i)
    BY DEF ItemByID, Tables!ItemByID
  <2>2. \A m \in Months : AlbumStat(m) = Tables!AlbumStat(m)
    BY DEF AlbumStat, Tables!AlbumStat
  <2>3. \A k \in MetaKeys : Meta(k) = Tables!Meta(k)
    BY DEF Meta, Tables!Meta
  <2>4. QED
    BY <2>1, <2>2, <2>3, SameBlobs, SameItems, SameJobs, SameDevices, SameTokens, SameCodes
    DEF SameRows
<1>2. QED
  BY <1>1, InvInit, InvStep, PTL DEF Spec

-----------------------------------------------------------------------------
(* Writes: each method does to the tables what the database does *)

\* Before and after a step, entry by entry.
LEMMA TableRowsNext ==
  ASSUME Inv'
  PROVE  /\ BlobTable' = [h \in Hashes |->
                            IF blobs'[h] = None THEN None ELSE RowOfBlob(blobs'[h], blobStates'[h])]
         /\ JobTable' = [j \in 1..MaxJobs |-> IF jobs'[j] = None THEN None ELSE RowOfJob(jobs'[j])]
         /\ DeviceTable' = [d \in DeviceIds |->
                              IF devices'[d] = None THEN None ELSE RowOfDevice(devices'[d])]
         /\ CodeTable' = [c \in CodeHashes |->
                            IF pairingCodes'[c] = None THEN None ELSE RowOfCode(pairingCodes'[c])]
<1>1. DOMAIN blobs' = Hashes /\ DOMAIN jobs' = 1..MaxJobs /\ DOMAIN devices' = DeviceIds
      /\ DOMAIN pairingCodes' = CodeHashes
  BY DEF Inv, BlobInv, JobInv, DeviceInv, CodeInv
<1>2. QED
  BY <1>1 DEF BlobTable, JobTable, DeviceTable, CodeTable, Rows, BlobRow, JobRow, DeviceRow, CodeRow,
     RowOfBlob, RowOfJob, RowOfDevice, RowOfCode

LEMMA Kept ==
  /\ UNCHANGED blobMaps => UNCHANGED BlobTable
  /\ UNCHANGED jobMaps => UNCHANGED JobTable
  /\ UNCHANGED deviceMaps => UNCHANGED DeviceTable
  /\ UNCHANGED pairingCodes => UNCHANGED CodeTable
BY DEF blobMaps, jobMaps, deviceMaps, BlobTable, JobTable, DeviceTable, CodeTable, Rows,
   BlobRow, JobRow, DeviceRow, CodeRow

\* A table that changes in one place.
LEMMA OneRow ==
  ASSUME NEW S, NEW f, NEW g, NEW k \in S, f = [x \in S |-> f[x]], g = [x \in S |-> g[x]],
         \A x \in S \ {k} : g[x] = f[x]
  PROVE  g = [f EXCEPT ![k] = g[k]]
<1>1. g = [x \in S |-> IF x = k THEN g[k] ELSE f[x]]
  OBVIOUS
<1>2. QED
  BY <1>1

LEMMA BlobEntries ==
  ASSUME Inv, Inv', NEW h \in Hashes
  PROVE  /\ BlobTable[h] = IF blobs[h] = None THEN None ELSE RowOfBlob(blobs[h], blobStates[h])
         /\ BlobTable'[h] = IF blobs'[h] = None THEN None ELSE RowOfBlob(blobs'[h], blobStates'[h])
         /\ BlobTable[h] = None <=> blobs[h] = None
         /\ blobs[h] # None => blobs[h] \in Blob
         /\ ((\A k \in Hashes \ {h} : blobs'[k] = blobs[k] /\ blobStates'[k] = blobStates[k])
               => BlobTable' = [BlobTable EXCEPT ![h] = BlobTable'[h]])
<1>1. /\ BlobTable[h] = IF blobs[h] = None THEN None ELSE RowOfBlob(blobs[h], blobStates[h])
      /\ BlobTable'[h] = IF blobs'[h] = None THEN None ELSE RowOfBlob(blobs'[h], blobStates'[h])
  BY TableRows, TableRowsNext
<1>2. blobs[h] # None => blobs[h] \in Blob /\ blobStates[h] \in {"stored", "missing"}
  BY DEF Inv, BlobInv
<1>3. BlobTable[h] = None <=> blobs[h] = None
  BY <1>1, <1>2, BlobRowTypes
<1>4. ASSUME \A k \in Hashes \ {h} : blobs'[k] = blobs[k] /\ blobStates'[k] = blobStates[k]
      PROVE  BlobTable' = [BlobTable EXCEPT ![h] = BlobTable'[h]]
  <2>1. \A k \in Hashes \ {h} : BlobTable'[k] = BlobTable[k]
    BY <1>4, TableRows, TableRowsNext
  <2>2. BlobTable = [k \in Hashes |-> BlobTable[k]] /\ BlobTable' = [k \in Hashes |-> BlobTable'[k]]
    BY TableRows, TableRowsNext
  <2>3. QED
    BY <2>1, <2>2, OneRow
<1>5. QED
  BY <1>1, <1>2, <1>3, <1>4

\* What the other groups see of a step on blobs.
LEMMA BlobFrame ==
  UNCHANGED otherThanBlobs => UNCHANGED <<case, clock, items, stats, JobTable, DeviceTable, CodeTable, meta>>
BY Kept DEF otherThanBlobs, itemMaps

LEMMA ImplementsInsertBlob ==
  ASSUME Inv, Inv', NEW h \in Hashes, InsertBlob(h)
  PROVE  Tables!InsertBlob(h)
<1>1. /\ blobs' = [blobs EXCEPT ![h] =
                     IF @ = None THEN [storedHash |-> EmptyText, replacedAt |-> Null, media |-> 0] ELSE @]
      /\ blobStates' = IF blobs[h] = None THEN [blobStates EXCEPT ![h] = "stored"] ELSE blobStates
      /\ Returns("InsertBlob", IfFree(blobs, h), 0)
      /\ UNCHANGED variants /\ UNCHANGED otherThanBlobs
  BY DEF InsertBlob, Inserted
<1>2. blobs \in [Hashes -> Blob \cup {None}] /\ blobStates \in [Hashes -> {"stored", "missing", None}]
  BY DEF Inv, BlobInv
<1>3. BlobTable' = [BlobTable EXCEPT ![h] = BlobTable'[h]]
  BY <1>1, <1>2, BlobEntries
<1>4. BlobTable'[h] = IF BlobTable[h] = None THEN Tables!FreshBlob ELSE BlobTable[h]
  <2>1. CASE blobs[h] # None
    <3>1. blobs' = blobs /\ blobStates' = blobStates
      BY <1>1, <1>2, <2>1
    <3>2. QED
      BY <2>1, <3>1, BlobEntries
  <2>2. CASE blobs[h] = None
    <3> DEFINE b == [storedHash |-> EmptyText, replacedAt |-> Null, media |-> 0]
    <3>1. blobs'[h] = b /\ blobStates'[h] = "stored"
      BY <1>1, <1>2, <2>2
    <3>2. b \in Blob /\ b # None
      BY AbsenceAssumption DEF Blob
    <3>3. RowOfBlob(b, "stored") = Tables!FreshBlob
      BY DEF RowOfBlob, Tables!FreshBlob, NullIfZero, NullIfEmpty
    <3> HIDE DEF b
    <3>4. QED
      BY <2>2, <3>1, <3>2, <3>3, BlobEntries
  <2>3. QED
    BY <2>1, <2>2
<1>5. Tables!IfFree(BlobTable, h) = IfFree(blobs, h)
  BY BlobEntries DEF Tables!IfFree, IfFree
<1>6. BlobTable' = Tables!Inserted(BlobTable, h, Tables!FreshBlob)
  BY <1>3, <1>4 DEF Tables!Inserted
<1>7. QED
  BY <1>1, <1>5, <1>6, BlobFrame
  DEF Tables!InsertBlob, Tables!Returns, Returns, Tables!otherThanBlobs, BlobTable, JobTable,
      DeviceTable, CodeTable

LEMMA ImplementsSetBlobState ==
  ASSUME Inv, Inv', NEW h \in Hashes, NEW state \in {"stored", "missing"}, SetBlobState(h, state)
  PROVE  Tables!SetBlobState(h, state)
<1>1. /\ blobStates' = IF blobs[h] = None THEN blobStates ELSE [blobStates EXCEPT ![h] = state]
      /\ blobs' = blobs
      /\ Returns("SetBlobState", IfPresent(blobs, h), 0)
      /\ UNCHANGED variants /\ UNCHANGED otherThanBlobs
  BY DEF SetBlobState
<1>2. blobStates \in [Hashes -> {"stored", "missing", None}]
  BY DEF Inv, BlobInv
<1>3. BlobTable' = [BlobTable EXCEPT ![h] = BlobTable'[h]]
  BY <1>1, <1>2, BlobEntries
<1>4. BlobTable'[h] = IF BlobTable[h] = None THEN None ELSE [BlobTable[h] EXCEPT !.state = state]
  <2>1. CASE blobs[h] = None
    BY <1>1, <2>1, BlobEntries
  <2>2. CASE blobs[h] # None
    <3>1. blobStates'[h] = state
      BY <1>1, <1>2, <2>2
    <3>2. RowOfBlob(blobs[h], state) = [RowOfBlob(blobs[h], blobStates[h]) EXCEPT !.state = state]
      BY DEF RowOfBlob
    <3>3. QED
      BY <1>1, <2>2, <3>1, <3>2, BlobEntries
  <2>3. QED
    BY <2>1, <2>2
<1>5. Tables!IfPresent(BlobTable, h) = IfPresent(blobs, h)
  BY BlobEntries DEF Tables!IfPresent, IfPresent
<1>6. BlobTable' = [BlobTable EXCEPT ![h] =
                      IF @ = None THEN None ELSE [@ EXCEPT !.state = state]]
  BY <1>3, <1>4
<1>7. QED
  BY <1>1, <1>5, <1>6, BlobFrame
  DEF Tables!SetBlobState, Tables!Updated, Tables!Returns, Returns, Tables!otherThanBlobs, BlobTable,
      JobTable, DeviceTable, CodeTable

Replaced(b, stored, t) == [b EXCEPT !.storedHash = stored, !.replacedAt = t]

LEMMA ReplacedRow ==
  ASSUME NEW b \in Blob, NEW state, NEW stored, NEW t, NullIfEmpty(stored) = stored
  PROVE  RowOfBlob(Replaced(b, stored, t), state) = Replaced(RowOfBlob(b, state), stored, t)
<1>1. [b EXCEPT !.storedHash = stored, !.replacedAt = t]
        = [storedHash |-> stored, replacedAt |-> t, media |-> b.media]
  <2> DEFINE first == [b EXCEPT !.storedHash = stored]
  <2>1. first = [storedHash |-> stored, replacedAt |-> b.replacedAt, media |-> b.media]
    BY DEF Blob
  <2>2. [b EXCEPT !.storedHash = stored, !.replacedAt = t] = [first EXCEPT !.replacedAt = t]
    OBVIOUS
  <2> HIDE DEF first
  <2>3. [first EXCEPT !.replacedAt = t]
          = [storedHash |-> stored, replacedAt |-> t, media |-> b.media]
    BY <2>1
  <2>4. QED
    BY <2>2, <2>3
<1>2. [RowOfBlob(b, state) EXCEPT !.storedHash = stored, !.replacedAt = t]
        = [state |-> state, storedHash |-> stored, replacedAt |-> t, media |-> NullIfZero(b.media)]
  <2> DEFINE first == [RowOfBlob(b, state) EXCEPT !.storedHash = stored]
  <2>1. first = [state |-> state, storedHash |-> stored, replacedAt |-> b.replacedAt,
                 media |-> NullIfZero(b.media)]
    BY DEF RowOfBlob
  <2>2. [RowOfBlob(b, state) EXCEPT !.storedHash = stored, !.replacedAt = t]
          = [first EXCEPT !.replacedAt = t]
    OBVIOUS
  <2> HIDE DEF first
  <2>3. [first EXCEPT !.replacedAt = t]
          = [state |-> state, storedHash |-> stored, replacedAt |-> t, media |-> NullIfZero(b.media)]
    BY <2>1
  <2>4. QED
    BY <2>2, <2>3
<1>3. QED
  BY <1>1, <1>2 DEF Replaced, RowOfBlob

LEMMA ImplementsSetBlobStoredHash ==
  ASSUME Inv, Inv', NEW h \in Hashes, NEW stored \in Hashes, SetBlobStoredHash(h, stored)
  PROVE  Tables!SetBlobStoredHash(h, stored)
<1>1. /\ blobs' = [blobs EXCEPT ![h] =
              IF @ = None THEN None ELSE [@ EXCEPT !.storedHash = stored, !.replacedAt = clock]]
      /\ blobStates' = blobStates
      /\ Returns("SetBlobStoredHash", IfPresent(blobs, h), 0)
      /\ UNCHANGED variants /\ UNCHANGED otherThanBlobs
  BY DEF SetBlobStoredHash, Updated
<1>2. blobs \in [Hashes -> Blob \cup {None}]
  BY DEF Inv, BlobInv
<1>3. BlobTable' = [BlobTable EXCEPT ![h] = BlobTable'[h]]
  BY <1>1, <1>2, BlobEntries
<1>4. BlobTable'[h] = IF BlobTable[h] = None THEN None
                      ELSE [BlobTable[h] EXCEPT !.storedHash = stored, !.replacedAt = clock]
  <2>1. CASE blobs[h] = None
    BY <1>1, <1>2, <2>1, BlobEntries
  <2>2. CASE blobs[h] # None
    <3>1. PICK b \in Blob : b = blobs[h]
      BY <1>2, <2>2
    <3>2. blobs'[h] = [b EXCEPT !.storedHash = stored, !.replacedAt = clock]
      BY <1>1, <1>2, <2>2, <3>1
    <3>3. blobs'[h] # None
      BY <1>1, <2>2 DEF Inv, BlobInv
    <3>4. NullIfEmpty(stored) = stored
      BY AbsenceAssumption DEF NullIfEmpty
    <3>5. RowOfBlob(Replaced(b, stored, clock), blobStates[h])
            = Replaced(RowOfBlob(b, blobStates[h]), stored, clock)
      BY <3>1, <3>4, ReplacedRow
    <3>6. BlobTable'[h] = Replaced(BlobTable[h], stored, clock)
      BY <1>1, <2>2, <3>1, <3>2, <3>3, <3>5, BlobEntries DEF Replaced
    <3>7. QED
      BY <2>2, <3>6, BlobEntries DEF Replaced
  <2>3. QED
    BY <2>1, <2>2
<1>5. Tables!IfPresent(BlobTable, h) = IfPresent(blobs, h)
  BY BlobEntries DEF Tables!IfPresent, IfPresent
<1>6. BlobTable' = [BlobTable EXCEPT ![h] = IF @ = None THEN None
                      ELSE [@ EXCEPT !.storedHash = stored, !.replacedAt = clock]]
  BY <1>3, <1>4
<1>7. QED
  BY <1>1, <1>5, <1>6, BlobFrame
  DEF Tables!SetBlobStoredHash, Tables!Updated, Tables!Returns, Returns, Tables!otherThanBlobs,
      BlobTable, JobTable, DeviceTable, CodeTable

LEMMA ImplementsSetBlobMedia ==
  ASSUME Inv, Inv', NEW h \in Hashes, NEW media \in 0..1, SetBlobMedia(h, media)
  PROVE  Tables!SetBlobMedia(h, media)
<1>1. /\ blobs' = [blobs EXCEPT ![h] = IF @ = None THEN None ELSE [@ EXCEPT !.media = media]]
      /\ blobStates' = blobStates
      /\ Returns("SetBlobMedia", IfPresent(blobs, h), 0)
      /\ UNCHANGED variants /\ UNCHANGED otherThanBlobs
  BY DEF SetBlobMedia, Updated
<1>2. blobs \in [Hashes -> Blob \cup {None}]
  BY DEF Inv, BlobInv
<1>3. BlobTable' = [BlobTable EXCEPT ![h] = BlobTable'[h]]
  BY <1>1, <1>2, BlobEntries
<1>4. BlobTable'[h] = IF BlobTable[h] = None THEN None
                      ELSE [BlobTable[h] EXCEPT !.media = Tables!NullIfZero(media)]
  <2>1. CASE blobs[h] = None
    BY <1>1, <1>2, <2>1, BlobEntries
  <2>2. CASE blobs[h] # None
    <3>1. PICK b \in Blob : b = blobs[h]
      BY <1>2, <2>2
    <3>2. blobs'[h] = [b EXCEPT !.media = media]
      BY <1>1, <1>2, <2>2, <3>1
    <3>3. blobs'[h] # None
      BY <1>1, <2>2 DEF Inv, BlobInv
    <3>4. NullIfZero(media) = Tables!NullIfZero(media)
      BY DEF NullIfZero, Tables!NullIfZero
    <3>5. RowOfBlob([b EXCEPT !.media = media], blobStates[h])
            = [RowOfBlob(b, blobStates[h]) EXCEPT !.media = NullIfZero(media)]
      BY DEF RowOfBlob, Blob
    <3>6. QED
      BY <1>1, <2>2, <3>1, <3>2, <3>3, <3>4, <3>5, BlobEntries
  <2>3. QED
    BY <2>1, <2>2
<1>5. Tables!IfPresent(BlobTable, h) = IfPresent(blobs, h)
  BY BlobEntries DEF Tables!IfPresent, IfPresent
<1>6. BlobTable' = [BlobTable EXCEPT ![h] =
                      IF @ = None THEN None ELSE [@ EXCEPT !.media = Tables!NullIfZero(media)]]
  BY <1>3, <1>4
<1>7. QED
  BY <1>1, <1>5, <1>6, BlobFrame
  DEF Tables!SetBlobMedia, Tables!Updated, Tables!Returns, Returns, Tables!otherThanBlobs, BlobTable,
      JobTable, DeviceTable, CodeTable

\* The caller has the blob, as the foreign key demands.
LEMMA ImplementsInsertBlobVariant ==
  ASSUME Inv, Inv', NEW h \in Hashes, NEW kind, NEW size, blobs[h] # None,
         InsertBlobVariant(h, kind, size)
  PROVE  Tables!InsertBlobVariant(h, kind, size)
<1>1. BlobTable[h] # None
  BY BlobEntries
<1>2. /\ variants' = [variants EXCEPT ![<<h, kind>>] = size]
      /\ Returns("InsertBlobVariant", "none", 0)
      /\ blobs' = blobs /\ blobStates' = blobStates /\ UNCHANGED otherThanBlobs
  BY DEF InsertBlobVariant
<1>3. BlobTable' = BlobTable
  BY <1>2 DEF BlobTable, Rows, BlobRow
<1>4. QED
  BY <1>1, <1>2, <1>3, BlobFrame
  DEF Tables!InsertBlobVariant, Tables!Returns, Returns, BlobTable, JobTable, DeviceTable, CodeTable

LEMMA ImplementsBlobMethods ==
  ASSUME Inv, Inv', BlobMethods
  PROVE  Tables!BlobMethods
BY ImplementsInsertBlob, ImplementsSetBlobState, ImplementsSetBlobStoredHash, ImplementsSetBlobMedia,
   ImplementsInsertBlobVariant DEF BlobMethods, Tables!BlobMethods

-----------------------------------------------------------------------------

\* MemStore counts the newest capture of a month from 0, the database from the capture
\* itself: the two agree on captures since 1970.
SinceTheEpoch == \A it \in OfferedItems : it.captured \in Nat

LEMMA SameMax == ASSUME NEW S PROVE Tables!Max(S) = Max(S)
BY DEF Tables!Max, Max

LEMMA ImplementsInsertItem ==
  ASSUME Inv, SinceTheEpoch, NEW it \in OfferedItems, InsertItem(it)
  PROVE  Tables!InsertItem(it)
<1>1. /\ it.hash \in Hashes /\ it.id \in Ids /\ it.path \in RelPaths /\ MonthOf(it) \in Months
      /\ it.captured \in Nat /\ SizeOf[it.hash] \in Nat
  BY OfferedFacts DEF SinceTheEpoch
<1>2. BlobTable[it.hash] = None <=> blobs[it.hash] = None
  <2>1. BlobTable[it.hash] = IF blobs[it.hash] = None THEN None
                             ELSE RowOfBlob(blobs[it.hash], blobStates[it.hash])
    BY <1>1, TableRows
  <2>2. blobs[it.hash] # None => blobs[it.hash] \in Blob /\ blobStates[it.hash] \in {"stored", "missing"}
    BY <1>1 DEF Inv, BlobInv
  <2>3. QED
    BY <2>1, <2>2, BlobRowTypes
<1>3. Tables!Taken(it) <=> items[it.id] # None \/ itemsByPath[it.path] # None
  <2>1. itemsByPath[it.path] # None <=> \E i \in Ids : items[i] # None /\ items[i].path = it.path
    BY <1>1, AbsenceAssumption DEF Inv, ItemInv
  <2>2. QED
    BY <2>1 DEF Tables!Taken, Tables!Ids, Ids
<1>4. UNCHANGED <<case, clock, BlobTable, variants, JobTable, DeviceTable, CodeTable, meta>>
  BY Kept DEF InsertItem, otherThanItems, blobMaps
<1>5. Returns("InsertItem", InsertItemError(it), 0)
  BY DEF InsertItem
<1>6. CASE InsertItemError(it) # "none"
  <2>1. UNCHANGED <<items, stats>>
    BY <1>6 DEF InsertItem, itemMaps
  <2>2. QED
    BY <1>2, <1>3, <1>4, <1>5, <1>6, <2>1
    DEF InsertItemError, Tables!InsertItem, Tables!otherThanItems, Tables!Returns, Returns,
        BlobTable, JobTable, DeviceTable, CodeTable
<1>7. CASE InsertItemError(it) = "none"
  <2>1. blobs[it.hash] # None /\ items[it.id] = None /\ itemsByPath[it.path] = None
    BY <1>7 DEF InsertItemError
  <2>2. items' = [items EXCEPT ![it.id] = it] /\ stats' = Counted(it)
    BY <1>7 DEF InsertItem
  <2>3. Counted(it) = Tables!AddToAlbumStats(it)
    <3>1. PICK m \in Months, s \in Nat, c \in Nat :
            m = MonthOf(it) /\ s = SizeOf[it.hash] /\ c = it.captured
      BY <1>1
    <3>2. Tables!MonthOf(it) = m
      BY <3>1 DEF MonthOf, Tables!MonthOf
    <3>3. Counted(it) = [stats EXCEPT ![m] =
             [count |-> StatOf(m).count + 1, size |-> StatOf(m).size + s,
              latest |-> Later(c, StatOf(m).latest)]]
      BY <3>1 DEF Counted
    <3>4. Tables!AddToAlbumStats(it) = [stats EXCEPT ![m] =
             IF stats[m] = None THEN [count |-> 1, size |-> s, latest |-> c]
             ELSE [count |-> stats[m].count + 1, size |-> stats[m].size + s,
                   latest |-> Max({stats[m].latest, c})]]
      BY <3>1, <3>2, SameMax DEF Tables!AddToAlbumStats
    <3>5. CASE stats[m] = None
      <4>1. StatOf(m) = [count |-> 0, size |-> 0, latest |-> 0] /\ Later(c, 0) = c
        BY <3>5 DEF StatOf, NewStat, Later
      <4>2. [count |-> StatOf(m).count + 1, size |-> StatOf(m).size + s,
             latest |-> Later(c, StatOf(m).latest)] = [count |-> 1, size |-> s, latest |-> c]
        BY <4>1
      <4>3. QED
        BY <3>3, <3>4, <3>5, <4>2
    <3>6. CASE stats[m] # None
      <4>1. StatOf(m) = stats[m]
        BY <3>6 DEF StatOf
      <4>2. stats[m] \in Stat
        <5>1. IsItems(items) /\ IsFiniteSet(In(items, m)) /\ stats[m] = Counter(items, m)
          BY DEF Inv, ItemInv, IsItems, StatInv
        <5>2. QED
          BY <3>6, <5>1, CounterType DEF Counter
      <4>3. stats[m].latest \in Int
        BY <4>2 DEF Stat
      <4>4. Later(c, stats[m].latest) = Max({stats[m].latest, c})
        BY <4>3, LaterIsMax
      <4>5. QED
        BY <3>3, <3>4, <3>6, <4>1, <4>4
    <3>7. QED
      BY <3>5, <3>6
  <2>4. QED
    BY <1>2, <1>3, <1>4, <1>5, <1>7, <2>1, <2>2, <2>3
    DEF Tables!InsertItem, Tables!otherThanItems, Tables!Returns, Returns,
        BlobTable, JobTable, DeviceTable, CodeTable
<1>8. QED
  BY <1>6, <1>7

LEMMA ImplementsDeleteItem ==
  ASSUME Inv, SinceTheEpoch, NEW id \in Ids, DeleteItem(id)
  PROVE  Tables!DeleteItem(id)
<1>1. UNCHANGED <<case, clock, BlobTable, variants, JobTable, DeviceTable, CodeTable, meta>>
  BY Kept DEF DeleteItem, otherThanItems, blobMaps
<1>2. Returns("DeleteItem", IfPresent(items, id), 0)
  BY DEF DeleteItem
<1>3. IfPresent(items, id) = Tables!IfPresent(items, id)
  BY DEF IfPresent, Tables!IfPresent
<1>4. CASE items[id] = None
  <2>1. UNCHANGED <<items, stats>>
    BY <1>4 DEF DeleteItem, itemMaps
  <2>2. QED
    BY <1>1, <1>2, <1>3, <1>4, <2>1
    DEF Tables!DeleteItem, Tables!otherThanItems, Tables!Returns, Returns,
        BlobTable, JobTable, DeviceTable, CodeTable
<1>5. CASE items[id] # None
  <2>1. items' = [items EXCEPT ![id] = None] /\ stats' = Discounted(items[id])
    BY <1>5 DEF DeleteItem
  <2>2. PICK next : next = [items EXCEPT ![id] = None]
    BY Zenon
  <2>3. Discounted(items[id]) = Tables!RemoveFromAlbumStats(items[id], next)
    <3>1. IsItems(items) /\ \A i \in Ids : items[i] # None => items[i].id = i
      BY DEF Inv, ItemInv, IsItems
    <3>2. PICK m \in Months, it \in OfferedItems : it = items[id] /\ m = MonthOf(it) /\ it.id = id
      BY <1>5, <3>1, OfferedFacts DEF IsItems
    <3>3. IsFiniteSet(In(items, m)) /\ stats[m] = Counter(items, m)
      BY DEF Inv, StatInv
    <3>4. Shrunk(items, next, id, m)
      BY <1>5, <2>2, <3>1, <3>2, <3>3, CounterRemove
    <3>5. PICK st \in Stat : st = stats[m] /\ st = StatOf(m) /\ (st.count <= 1 <=> In(next, m) = {})
      BY <3>3, <3>4 DEF Shrunk, StatOf
    <3>6. Tables!MonthOf(it) = m
      BY <3>2 DEF MonthOf, Tables!MonthOf
    <3>7. Tables!CapturedIn(m, next) = Captures(next, m)
      <4>1. \A i \in In(next, m) : CaptureAt(next)[i] = next[i].captured
        BY DEF In, CaptureAt
      <4>2. Tables!CapturedIn(m, next) = {next[i].captured : i \in In(next, m)}
        BY DEF Tables!CapturedIn, Tables!Ids, Ids, In, Tables!MonthOf, MonthOf
      <4>3. QED
        BY <4>1, <4>2 DEF Captures
    <3>8. {items[i].captured : i \in InMonth(m, id)} = Captures(next, m)
      <4>1. InMonth(m, id) = In(next, m)
        BY <2>2, <3>1 DEF IsItems, InMonth, In
      <4>2. \A i \in In(next, m) : CaptureAt(next)[i] = items[i].captured
        BY <2>2, <3>1 DEF IsItems, In, CaptureAt
      <4>3. QED
        BY <4>1, <4>2 DEF Captures
    <3>9. In(next, m) # {} => Max({0} \cup Captures(next, m)) = Max(Captures(next, m))
      <4> SUFFICES ASSUME In(next, m) # {}
                   PROVE  Max({0} \cup Captures(next, m)) = Max(Captures(next, m))
        OBVIOUS
      <4> DEFINE S == Captures(next, m)
      <4>1. IsItems(next) /\ IsFiniteSet(In(next, m))
        BY <3>4 DEF Shrunk
      <4>2. S # {}
        BY DEF Captures
      <4>3. S \subseteq Nat
        BY <4>1 DEF Captures, In, CaptureAt, IsItems, SinceTheEpoch
      <4>4. IsFiniteSet(S)
        BY <4>1, ImageFinite DEF Captures
      <4> HIDE DEF S
      <4>5. Max({0} \cup S) = Max(S)
        BY <4>2, <4>3, <4>4, MaxFromZero
      <4>6. QED
        BY <4>5 DEF S
    <3>10. Discounted(it) = [stats EXCEPT ![m] =
             IF st.count - 1 <= 0 THEN None
             ELSE [count |-> st.count - 1, size |-> st.size - SizeOf[it.hash],
                   latest |-> Max({0} \cup Captures(next, m))]]
      BY <3>2, <3>5, <3>8 DEF Discounted
    <3>11. Tables!RemoveFromAlbumStats(it, next) = [stats EXCEPT ![m] =
             IF st.count <= 1 THEN None
             ELSE [count |-> st.count - 1, size |-> st.size - SizeOf[it.hash],
                   latest |-> Max(Captures(next, m))]]
      BY <3>5, <3>6, <3>7, SameMax DEF Tables!RemoveFromAlbumStats
    <3>12. st.count - 1 <= 0 <=> st.count <= 1
      BY DEF Stat
    <3>13. QED
      BY <3>2, <3>5, <3>9, <3>10, <3>11, <3>12
  <2>4. QED
    BY <1>1, <1>2, <1>3, <1>5, <2>1, <2>2, <2>3
    DEF Tables!DeleteItem, Tables!otherThanItems, Tables!Returns, Returns,
        BlobTable, JobTable, DeviceTable, CodeTable
<1>6. QED
  BY <1>4, <1>5

LEMMA ImplementsItemMethods ==
  ASSUME Inv, Inv', SinceTheEpoch, ItemMethods
  PROVE  Tables!ItemMethods
BY ImplementsInsertBlob, ImplementsInsertItem, ImplementsDeleteItem
DEF ItemMethods, Tables!ItemMethods, Tables!Ids, Ids

-----------------------------------------------------------------------------

\* A job and its row have the same fields, and are written field by field.
IsJob(r) ==
  r = [kind |-> r.kind, priority |-> r.priority, state |-> r.state, attempts |-> r.attempts,
       nextAttemptAt |-> r.nextAttemptAt, lastError |-> r.lastError, updatedAt |-> r.updatedAt]
WithState(r, state) == [r EXCEPT !.state = state]
WithAttempts(r, n) == [r EXCEPT !.attempts = n]
WithNext(r, at) == [r EXCEPT !.nextAttemptAt = at]
WithError(r, cause) == [r EXCEPT !.lastError = cause]
WithTime(r, t) == [r EXCEPT !.updatedAt = t]

LEMMA JobsAreJobs ==
  ASSUME NEW job \in Job
  PROVE  IsJob(job)
BY DEF Job, IsJob

LEMMA FieldsOfJob ==
  ASSUME NEW r, IsJob(r), NEW v
  PROVE  /\ IsJob(WithState(r, v)) /\ IsJob(WithAttempts(r, v)) /\ IsJob(WithNext(r, v))
         /\ IsJob(WithError(r, v)) /\ IsJob(WithTime(r, v))
BY DEF IsJob, WithState, WithAttempts, WithNext, WithError, WithTime

LEMMA FieldsOfRow ==
  ASSUME NEW r, IsJob(r), NEW v
  PROVE  /\ RowOfJob(WithState(r, v)) = WithState(RowOfJob(r), v)
         /\ RowOfJob(WithAttempts(r, v)) = WithAttempts(RowOfJob(r), v)
         /\ RowOfJob(WithNext(r, v)) = WithNext(RowOfJob(r), v)
         /\ RowOfJob(WithError(r, v)) = WithError(RowOfJob(r), NullIfEmpty(v))
         /\ RowOfJob(WithTime(r, v)) = WithTime(RowOfJob(r), v)
<1>1. RowOfJob(r) = [kind |-> r.kind, priority |-> r.priority, state |-> r.state,
                     attempts |-> r.attempts, nextAttemptAt |-> r.nextAttemptAt,
                     lastError |-> NullIfEmpty(r.lastError), updatedAt |-> r.updatedAt]
  BY DEF IsJob, RowOfJob
<1>2. RowOfJob(WithState(r, v)) = WithState(RowOfJob(r), v)
  BY <1>1 DEF IsJob, RowOfJob, WithState
<1>3. RowOfJob(WithAttempts(r, v)) = WithAttempts(RowOfJob(r), v)
  BY <1>1 DEF IsJob, RowOfJob, WithAttempts
<1>4. RowOfJob(WithNext(r, v)) = WithNext(RowOfJob(r), v)
  BY <1>1 DEF IsJob, RowOfJob, WithNext
<1>5. RowOfJob(WithError(r, v)) = WithError(RowOfJob(r), NullIfEmpty(v))
  BY <1>1 DEF IsJob, RowOfJob, WithError
<1>6. RowOfJob(WithTime(r, v)) = WithTime(RowOfJob(r), v)
  BY <1>1 DEF IsJob, RowOfJob, WithTime
<1>7. QED
  BY <1>2, <1>3, <1>4, <1>5, <1>6

LEMMA JobEntries ==
  ASSUME Inv, NEW j \in 1..MaxJobs
  PROVE  /\ JobTable[j] = IF jobs[j] = None THEN None ELSE RowOfJob(jobs[j])
         /\ JobTable[j] = None <=> jobs[j] = None
         /\ jobs[j] # None =>
              /\ jobs[j] \in Job /\ JobTable[j].state = jobs[j].state
              /\ JobTable[j].priority = jobs[j].priority
              /\ JobTable[j].attempts = jobs[j].attempts
              /\ JobTable[j].nextAttemptAt = jobs[j].nextAttemptAt
<1>1. JobTable[j] = IF jobs[j] = None THEN None ELSE RowOfJob(jobs[j])
  BY TableRows
<1>2. jobs[j] # None => jobs[j] \in Job
  BY DEF Inv, JobInv
<1>3. JobTable[j] = None <=> jobs[j] = None
  BY <1>1, <1>2, JobRowTypes
<1>4. ASSUME NEW job \in Job
      PROVE  /\ RowOfJob(job).state = job.state /\ RowOfJob(job).priority = job.priority
             /\ RowOfJob(job).attempts = job.attempts
             /\ RowOfJob(job).nextAttemptAt = job.nextAttemptAt
  BY DEF RowOfJob, Job
<1>5. QED
  BY <1>1, <1>2, <1>3, <1>4

LEMMA JobFrame ==
  UNCHANGED otherThanJobs =>
    UNCHANGED <<case, clock, BlobTable, variants, items, stats, DeviceTable, CodeTable, meta>>
BY Kept DEF otherThanJobs, itemMaps, blobMaps

\* One entry that is written is one row that is written.
LEMMA WrittenJob ==
  ASSUME Inv, Inv', NEW j \in 1..MaxJobs, NEW f, jobs' = [jobs EXCEPT ![j] = f], f \in Job
  PROVE  JobTable' = [JobTable EXCEPT ![j] = RowOfJob(f)]
<1>1. jobs'[j] = f /\ \A k \in 1..MaxJobs \ {j} : jobs'[k] = jobs[k]
  BY DEF Inv, JobInv
<1>2. f # None
  BY AbsenceAssumption
<1>3. \A k \in 1..MaxJobs \ {j} : JobTable'[k] = JobTable[k]
  BY <1>1, TableRows, TableRowsNext
<1>4. JobTable'[j] = RowOfJob(f)
  BY <1>1, <1>2, TableRowsNext
<1>5. JobTable = [k \in 1..MaxJobs |-> JobTable[k]] /\ JobTable' = [k \in 1..MaxJobs |-> JobTable'[k]]
  BY TableRows, TableRowsNext
<1>6. QED
  BY <1>3, <1>4, <1>5, OneRow

LEMMA UpdatedJob ==
  ASSUME Inv, Inv', NEW j \in 1..MaxJobs, NEW f, NEW g,
         jobs' = [jobs EXCEPT ![j] = IF @ = None THEN None ELSE f],
         jobs[j] # None => f \in Job /\ g = RowOfJob(f)
  PROVE  JobTable' = [JobTable EXCEPT ![j] = IF @ = None THEN None ELSE g]
<1>1. CASE jobs[j] # None
  <2>1. jobs' = [jobs EXCEPT ![j] = f] /\ f \in Job /\ g = RowOfJob(f)
    BY <1>1
  <2>2. JobTable' = [JobTable EXCEPT ![j] = g]
    BY <2>1, WrittenJob
  <2>3. QED
    BY <1>1, <2>2, JobEntries
<1>2. CASE jobs[j] = None
  <2>1. jobs' = jobs /\ UNCHANGED nextJobID => UNCHANGED JobTable
    BY Kept DEF jobMaps
  <2>2. jobs' = jobs
    BY <1>2 DEF Inv, JobInv
  <2>3. JobTable' = JobTable
    BY <2>2 DEF JobTable, Rows, JobRow
  <2>4. JobTable[j] = None /\ JobTable = [k \in 1..MaxJobs |-> JobTable[k]]
    BY <1>2, JobEntries, TableRows
  <2>5. QED
    BY <2>3, <2>4
<1>3. QED
  BY <1>1, <1>2

LEMMA SameCardinality == ASSUME NEW S PROVE Tables!Cardinality(S) = Cardinality(S)
BY DEF Tables!Cardinality, Cardinality

\* AUTOINCREMENT counts on from the rows there are, which are the first ones.
LEMMA RowsAreFirst ==
  ASSUME Inv
  PROVE  Tables!Rows = 1..nextJobID /\ Cardinality(Tables!Rows) = nextJobID
<1>1. nextJobID \in Nat /\ nextJobID <= MaxJobs
      /\ \A j \in 1..MaxJobs : jobs[j] # None <=> j <= nextJobID
  BY StoreAssumption DEF Inv, JobInv
<1>2. Tables!Rows = {j \in 1..MaxJobs : JobTable[j] # None}
  BY DEF Tables!Rows, JobTable
<1>3. \A j \in 1..MaxJobs : j \in Tables!Rows <=> j <= nextJobID
  BY <1>1, <1>2, JobEntries
<1>4. Tables!Rows = 1..nextJobID
  BY <1>1, <1>2, <1>3, StoreAssumption
<1>5. QED
  BY <1>1, <1>4, FS_Interval

LEMMA ImplementsEnqueueJob ==
  ASSUME Inv, Inv', NEW kind \in JobKinds, NEW priority \in {0, 1}, NEW at \in Times,
         EnqueueJob(kind, priority, at)
  PROVE  Tables!EnqueueJob(kind, priority, at)
<1> DEFINE p == IF priority = 0 THEN DefaultPriority(kind) ELSE priority
           f == [kind |-> kind, priority |-> p, state |-> "queued", attempts |-> 0,
                 nextAttemptAt |-> at, lastError |-> EmptyText, updatedAt |-> clock]
           g == [kind |-> kind, priority |-> p, state |-> "queued", attempts |-> 0,
                 nextAttemptAt |-> at, lastError |-> Null, updatedAt |-> clock]
<1>1. nextJobID < MaxJobs /\ nextJobID \in Nat /\ nextJobID + 1 \in 1..MaxJobs
  BY StoreAssumption DEF EnqueueJob, Inv, JobInv
<1>2. PICK n \in 1..MaxJobs : n = nextJobID + 1
  BY <1>1
<1>3. jobs' = [jobs EXCEPT ![n] = f] /\ Returns("EnqueueJob", "none", n) /\ UNCHANGED otherThanJobs
  BY <1>2 DEF EnqueueJob
<1>4. p \in Nat
  BY DEF DefaultPriority
<1>5. p = IF priority = 0 THEN Tables!DefaultPriority(kind) ELSE priority
  BY DEF DefaultPriority, Tables!DefaultPriority
<1> HIDE DEF p
<1>6. f \in Job
  BY <1>4, EnqueuedJob DEF Inv, ClockInv
<1>7. RowOfJob(f) = g
  BY DEF RowOfJob, NullIfEmpty
<1> HIDE DEF f
<1>8. JobTable' = [JobTable EXCEPT ![n] = g]
  BY <1>3, <1>6, <1>7, WrittenJob
<1>9. n = Cardinality(Tables!Rows) + 1 /\ n <= MaxJobs
  BY <1>2, RowsAreFirst
<1>10. UNCHANGED <<case, clock, BlobTable, variants, items, stats, DeviceTable, CodeTable, meta>>
  BY <1>3, JobFrame
<1> DEFINE id == Tables!Cardinality(Tables!Rows) + 1
<1>11. id = n
  BY <1>9, SameCardinality
<1> HIDE DEF id
<1>12. /\ id <= MaxJobs
       /\ JobTable' = [JobTable EXCEPT ![id] =
            [kind |-> kind,
             priority |-> IF priority = 0 THEN Tables!DefaultPriority(kind) ELSE priority,
             state |-> "queued", attempts |-> 0, nextAttemptAt |-> at,
             lastError |-> Null, updatedAt |-> clock]]
       /\ Tables!Returns("EnqueueJob", "none", id)
  BY <1>3, <1>5, <1>8, <1>9, <1>11 DEF Tables!Returns, Returns
<1>13. QED
  BY <1>10, <1>12 DEF Tables!EnqueueJob, Tables!otherThanJobs, BlobTable, JobTable, DeviceTable,
     CodeTable, id

LEMMA SameDue ==
  ASSUME Inv
  PROVE  /\ Tables!Due = {j \in 1..MaxJobs : Claimable(j)}
         /\ \A j, k \in Tables!Due : JobBefore(j, k) => Tables!ClaimedBefore(j, k)
         /\ Unworn => Tables!Unworn
<1>1. Tables!Rows = {j \in 1..MaxJobs : JobTable[j] # None}
  BY DEF Tables!Rows, JobTable
<1>2. Tables!Due = {j \in Tables!Rows : JobTable[j].state = "queued" /\ JobTable[j].nextAttemptAt <= clock}
  BY DEF Tables!Due, JobTable
<1>3. Tables!Due = {j \in 1..MaxJobs : Claimable(j)}
  BY <1>1, <1>2, JobEntries DEF Claimable
<1>4. ASSUME NEW j \in Tables!Due, NEW k \in Tables!Due, JobBefore(j, k)
      PROVE  Tables!ClaimedBefore(j, k)
  <2>1. j \in 1..MaxJobs /\ k \in 1..MaxJobs /\ jobs[j] # None /\ jobs[k] # None
    BY <1>3 DEF Claimable
  <2>2. /\ JobTable[j].priority = jobs[j].priority
        /\ JobTable[j].nextAttemptAt = jobs[j].nextAttemptAt
        /\ JobTable[k].priority = jobs[k].priority
        /\ JobTable[k].nextAttemptAt = jobs[k].nextAttemptAt
    BY <2>1, JobEntries
  <2>3. QED
    BY <1>4, <2>2 DEF JobBefore, Tables!ClaimedBefore, JobTable
<1>5. ASSUME Unworn PROVE Tables!Unworn
  <2>1. \A j \in Tables!Rows : JobTable[j].attempts <= MaxAttempts
    BY <1>1, <1>5, JobEntries DEF Unworn
  <2>2. QED
    BY <2>1 DEF Tables!Unworn, JobTable
<1>6. QED
  BY <1>3, <1>4, <1>5

LEMMA ImplementsClaimJob ==
  ASSUME Inv, Inv', ClaimJob
  PROVE  Tables!ClaimJob
<1>1. UNCHANGED nextJobID /\ UNCHANGED otherThanJobs
  BY DEF ClaimJob
<1>2. UNCHANGED <<case, clock, BlobTable, variants, items, stats, DeviceTable, CodeTable, meta>>
  BY <1>1, JobFrame
<1>3. CASE {j \in 1..MaxJobs : Claimable(j)} = {} /\ UNCHANGED jobs /\ Returns("ClaimJob", "not found", 0)
  <2>1. Tables!Due = {} /\ UNCHANGED JobTable
    BY <1>1, <1>3, SameDue, Kept DEF jobMaps
  <2>2. QED
    BY <1>2, <1>3, <2>1 DEF Tables!ClaimJob, Tables!Returns, Returns, Tables!otherThanJobs, BlobTable,
       JobTable, DeviceTable, CodeTable
<1>4. ASSUME NEW best \in {j \in 1..MaxJobs : Claimable(j)},
             \A j \in {j \in 1..MaxJobs : Claimable(j)} \ {best} : JobBefore(best, j),
             jobs' = [jobs EXCEPT ![best].state = "running", ![best].attempts = @ + 1,
                                  ![best].updatedAt = clock],
             Returns("ClaimJob", "none", best)
      PROVE  Tables!ClaimJob
  <2>1. best \in 1..MaxJobs /\ jobs[best] # None /\ jobs[best] \in Job
    BY JobEntries DEF Claimable
  <2> DEFINE f == [jobs[best] EXCEPT !.state = "running", !.attempts = @ + 1, !.updatedAt = clock]
             g == [JobTable[best] EXCEPT !.state = "running", !.attempts = @ + 1, !.updatedAt = clock]
             h == JobTable[best]
  <2>2. f \in Job
    BY <2>1, ClaimedJob DEF Inv, ClockInv
  <2>3. jobs' = [jobs EXCEPT ![best] = f]
    BY <1>4
  <2>4. f = WithTime(WithAttempts(WithState(jobs[best], "running"), jobs[best].attempts + 1), clock)
    BY <2>1 DEF WithTime, WithAttempts, WithState, Job
  <2>5. h = RowOfJob(jobs[best]) /\ h.attempts = jobs[best].attempts
    BY <2>1, JobEntries
  <2>6. g = WithTime(WithAttempts(WithState(h, "running"), h.attempts + 1), clock)
    <3>1. IsJob(h)
      BY <2>1, <2>5 DEF Job, RowOfJob, IsJob
    <3> HIDE DEF h
    <3>2. [h EXCEPT !.state = "running", !.attempts = @ + 1, !.updatedAt = clock]
            = WithTime(WithAttempts(WithState(h, "running"), h.attempts + 1), clock)
      BY <3>1 DEF WithTime, WithAttempts, WithState, IsJob
    <3>3. QED
      BY <3>2 DEF h
  <2> HIDE DEF f, h
  <2>7. RowOfJob(f) = WithTime(WithAttempts(WithState(h, "running"), h.attempts + 1), clock)
    BY <2>1, <2>4, <2>5, JobsAreJobs, FieldsOfJob, FieldsOfRow
  <2>8. JobTable' = [JobTable EXCEPT ![best] = g]
    BY <2>1, <2>2, <2>3, <2>6, <2>7, WrittenJob
  <2> HIDE DEF g
  <2>9. JobTable' = [JobTable EXCEPT ![best].state = "running", ![best].attempts = @ + 1,
                                     ![best].updatedAt = clock]
    BY <2>8 DEF g
  <2>10. best \in Tables!Due /\ \A k \in Tables!Due \ {best} : Tables!ClaimedBefore(best, k)
    BY <1>4, SameDue
  <2>11. QED
    BY <1>2, <1>4, <2>9, <2>10 DEF Tables!ClaimJob, Tables!Returns, Returns, Tables!otherThanJobs,
       BlobTable, JobTable, DeviceTable, CodeTable
<1>5. QED
  BY <1>3, <1>4 DEF ClaimJob

LEMMA SameAnswer ==
  ASSUME Inv, NEW j \in 1..MaxJobs
  PROVE  Tables!IfPresent(JobTable, j) = IfPresent(jobs, j)
BY JobEntries DEF Tables!IfPresent, IfPresent

LEMMA ImplementsCompleteJob ==
  ASSUME Inv, Inv', NEW j \in 1..MaxJobs, CompleteJob(j)
  PROVE  Tables!CompleteJob(j)
<1> DEFINE f == WithTime(WithError(WithState(jobs[j], "done"), EmptyText), clock)
           g == WithTime(WithError(WithState(JobTable[j], "done"), Null), clock)
<1>1. /\ jobs' = [jobs EXCEPT ![j] = IF @ = None THEN None
             ELSE [@ EXCEPT !.state = "done", !.lastError = EmptyText, !.updatedAt = clock]]
      /\ Returns("CompleteJob", IfPresent(jobs, j), 0) /\ UNCHANGED otherThanJobs
  BY DEF CompleteJob, Updated
<1>2. jobs' = [jobs EXCEPT ![j] = IF @ = None THEN None ELSE f]
  BY <1>1 DEF WithTime, WithError, WithState
<1>3. jobs[j] # None => f \in Job
  <2>1. jobs[j] # None => jobs[j] \in Job
    BY JobEntries
  <2>2. QED
    BY <2>1 DEF Job, WithTime, WithError, WithState, Inv, ClockInv
<1> HIDE DEF f
<1>4. jobs[j] # None => g = RowOfJob(f)
  <2>1. NullIfEmpty(EmptyText) = Null
    BY DEF NullIfEmpty
  <2>2. QED
    BY <2>1, JobEntries, JobsAreJobs, FieldsOfJob, FieldsOfRow DEF f
<1>5. JobTable' = [JobTable EXCEPT ![j] = IF @ = None THEN None ELSE g]
  BY <1>2, <1>3, <1>4, UpdatedJob
<1>6. JobTable' = [JobTable EXCEPT ![j] = IF @ = None THEN None
                     ELSE [@ EXCEPT !.state = "done", !.lastError = Null, !.updatedAt = clock]]
  BY <1>5 DEF WithTime, WithError, WithState
<1>7. QED
  BY <1>1, <1>6, SameAnswer, JobFrame DEF Tables!CompleteJob, Tables!Updated, Tables!Returns, Returns,
     Tables!otherThanJobs, BlobTable, JobTable, DeviceTable, CodeTable


LEMMA ImplementsFailJob ==
  ASSUME Inv, Inv', NEW j \in 1..MaxJobs, NEW at \in Times, FailJob(j, "cause", at)
  PROVE  Tables!FailJob(j, "cause", at)
<1> DEFINE over(r) == r.attempts >= MaxAttempts
           Failed(r) == WithTime(WithError(WithNext(WithState(r,
                          IF over(r) THEN "failed" ELSE "queued"),
                          IF over(r) THEN 0 ELSE at), "cause"), clock)
           f == Failed(jobs[j])
           g == Failed(JobTable[j])
<1>1. /\ jobs' = [jobs EXCEPT ![j] = IF @ = None THEN None
             ELSE [(IF over(@) THEN GivenUp(@) ELSE Delayed(@, at))
                     EXCEPT !.lastError = "cause", !.updatedAt = clock]]
      /\ Returns("FailJob", IfPresent(jobs, j), 0) /\ UNCHANGED otherThanJobs
  BY DEF FailJob, Updated
<1>2. f = [(IF over(jobs[j]) THEN GivenUp(jobs[j]) ELSE Delayed(jobs[j], at))
             EXCEPT !.lastError = "cause", !.updatedAt = clock]
  <2>1. CASE over(jobs[j])
    BY <2>1 DEF WithTime, WithError, WithNext, WithState, GivenUp
  <2>2. CASE ~over(jobs[j])
    BY <2>2 DEF WithTime, WithError, WithNext, WithState, Delayed
  <2>3. QED
    BY <2>1, <2>2
<1>3. jobs' = [jobs EXCEPT ![j] = IF @ = None THEN None ELSE f]
  <2> HIDE DEF f
  <2>1. QED
    BY <1>1, <1>2
<1>4. jobs[j] # None => f \in Job
  <2>1. jobs[j] # None => jobs[j] \in Job
    BY JobEntries
  <2>2. PICK s \in {"failed", "queued"} : s = IF over(jobs[j]) THEN "failed" ELSE "queued"
    OBVIOUS
  <2>3. PICK next \in {0} \cup Times : next = IF over(jobs[j]) THEN 0 ELSE at
    OBVIOUS
  <2>4. f = WithTime(WithError(WithNext(WithState(jobs[j], s), next), "cause"), clock)
    BY <2>2, <2>3
  <2> HIDE DEF f
  <2>5. QED
    BY <2>1, <2>4 DEF Job, WithTime, WithError, WithNext, WithState, Inv, ClockInv
<1>5. jobs[j] # None => g = RowOfJob(f)
  <2> SUFFICES ASSUME jobs[j] # None PROVE g = RowOfJob(f)
    OBVIOUS
  <2>1. NullIfEmpty("cause") = "cause"
    BY AbsenceAssumption DEF NullIfEmpty
  <2>2. JobTable[j].attempts = jobs[j].attempts /\ IsJob(jobs[j]) /\ JobTable[j] = RowOfJob(jobs[j])
    BY JobEntries, JobsAreJobs
  <2>3. PICK s, next : s = (IF over(jobs[j]) THEN "failed" ELSE "queued")
                       /\ next = (IF over(jobs[j]) THEN 0 ELSE at)
    OBVIOUS
  <2>4. /\ f = WithTime(WithError(WithNext(WithState(jobs[j], s), next), "cause"), clock)
        /\ g = WithTime(WithError(WithNext(WithState(JobTable[j], s), next), "cause"), clock)
    BY <2>2, <2>3
  <2> HIDE DEF f, g
  <2>5. /\ IsJob(WithState(jobs[j], s))
        /\ RowOfJob(WithState(jobs[j], s)) = WithState(JobTable[j], s)
    BY <2>2, FieldsOfJob, FieldsOfRow
  <2>6. /\ IsJob(WithNext(WithState(jobs[j], s), next))
        /\ RowOfJob(WithNext(WithState(jobs[j], s), next)) = WithNext(WithState(JobTable[j], s), next)
    BY <2>5, FieldsOfJob, FieldsOfRow
  <2>7. QED
    BY <2>1, <2>4, <2>6, FieldsOfJob, FieldsOfRow
<1> HIDE DEF f
<1>6. JobTable' = [JobTable EXCEPT ![j] = IF @ = None THEN None ELSE g]
  <2> HIDE DEF g
  <2>1. QED
    BY <1>3, <1>4, <1>5, UpdatedJob
<1>7. QED
  BY <1>1, <1>6, SameAnswer, JobFrame DEF Tables!FailJob, Tables!Updated, Tables!Returns, Returns,
     Tables!otherThanJobs, BlobTable, JobTable, DeviceTable, CodeTable, WithTime, WithError, WithNext,
     WithState

LEMMA ImplementsRequeue ==
  ASSUME Inv, Inv', RequeueRunningJobs
  PROVE  Tables!RequeueRunningJobs
<1> DEFINE running == {j \in 1..MaxJobs : jobs[j] # None /\ jobs[j].state = "running"}
           Back(r) == WithTime(WithState(r, "queued"), clock)
<1>1. /\ jobs' = [j \in 1..MaxJobs |-> IF j \in running THEN Back(jobs[j]) ELSE jobs[j]]
      /\ Returns("RequeueRunningJobs", "none", Cardinality(running)) /\ UNCHANGED otherThanJobs
  BY DEF RequeueRunningJobs, WithTime, WithState
<1>2. Tables!InState("running") = running
  <2>1. Tables!InState("running") = {j \in Tables!Rows : JobTable[j].state = "running"}
    BY DEF Tables!InState, JobTable
  <2>2. Tables!Rows = {j \in 1..MaxJobs : JobTable[j] # None}
    BY DEF Tables!Rows, JobTable
  <2>3. QED
    BY <2>1, <2>2, JobEntries
<1>3. ASSUME NEW j \in 1..MaxJobs
      PROVE  JobTable'[j] = IF j \in running THEN Back(JobTable[j]) ELSE JobTable[j]
  <2>1. JobTable'[j] = IF jobs'[j] = None THEN None ELSE RowOfJob(jobs'[j])
    BY TableRowsNext
  <2>2. CASE j \in running
    <3>1. jobs[j] # None /\ jobs[j] \in Job /\ JobTable[j] = RowOfJob(jobs[j])
      BY <2>2, JobEntries
    <3>2. jobs'[j] = Back(jobs[j])
      BY <1>1, <2>2
    <3>3. Back(jobs[j]) \in Job
      BY <3>1 DEF Job, WithTime, WithState, Inv, ClockInv
    <3>4. Back(jobs[j]) # None
      BY <3>3, AbsenceAssumption
    <3>5. RowOfJob(Back(jobs[j])) = Back(RowOfJob(jobs[j]))
      BY <3>1, JobsAreJobs, FieldsOfJob, FieldsOfRow
    <3>6. QED
      BY <2>1, <2>2, <3>1, <3>2, <3>4, <3>5
  <2>3. CASE j \notin running
    BY <1>1, <2>1, <2>3, JobEntries
  <2>4. QED
    BY <2>2, <2>3
<1>4. JobTable' = [j \in 1..MaxJobs |-> JobTable'[j]]
  BY TableRowsNext
<1>5. JobTable' = [j \in 1..MaxJobs |-> IF j \in running THEN Back(JobTable[j]) ELSE JobTable[j]]
  BY <1>3, <1>4
<1> HIDE DEF running
<1>6. JobTable' = [j \in 1..MaxJobs |->
        IF j \in Tables!InState("running")
        THEN [JobTable[j] EXCEPT !.state = "queued", !.updatedAt = clock] ELSE JobTable[j]]
  BY <1>2, <1>5 DEF WithTime, WithState
<1>7. Tables!Returns("RequeueRunningJobs", "none", Tables!Cardinality(Tables!InState("running")))
  BY <1>1, <1>2, SameCardinality DEF Tables!Returns, Returns
<1>8. QED
  BY <1>1, <1>6, <1>7, JobFrame DEF Tables!RequeueRunningJobs, Tables!otherThanJobs, BlobTable,
     JobTable, DeviceTable, CodeTable

LEMMA ImplementsJobMethods ==
  ASSUME Inv, Inv', JobMethods
  PROVE  Tables!JobMethods
BY ImplementsEnqueueJob, ImplementsClaimJob, ImplementsCompleteJob, ImplementsFailJob,
   ImplementsRequeue, SameDue DEF JobMethods, Tables!JobMethods, Tables!Times, Times


-----------------------------------------------------------------------------

IsDevice(r) ==
  r = [token |-> r.token, version |-> r.version, createdAt |-> r.createdAt,
       lastSeenAt |-> r.lastSeenAt, revokedAt |-> r.revokedAt]
WithVersion(r, v) == [r EXCEPT !.version = v]
WithSeen(r, t) == [r EXCEPT !.lastSeenAt = t]
WithRevoked(r, t) == [r EXCEPT !.revokedAt = t]

LEMMA RowOfDeviceIs ==
  ASSUME NEW x, IsDevice(x)
  PROVE  RowOfDevice(x) =
           [token |-> x.token, version |-> NullIfZero(x.version), createdAt |-> x.createdAt,
            lastSeenAt |-> NullIfZero(x.lastSeenAt), revokedAt |-> NullIfZero(x.revokedAt)]
<1> DEFINE a == [x EXCEPT !.version = NullIfZero(@)]
           b == [a EXCEPT !.lastSeenAt = NullIfZero(@)]
<1>1. a = [token |-> x.token, version |-> NullIfZero(x.version), createdAt |-> x.createdAt,
           lastSeenAt |-> x.lastSeenAt, revokedAt |-> x.revokedAt]
  BY DEF IsDevice
<1>2. RowOfDevice(x) = [b EXCEPT !.revokedAt = NullIfZero(@)]
  BY DEF RowOfDevice, IsDevice
<1> HIDE DEF a
<1>3. b = [token |-> x.token, version |-> NullIfZero(x.version), createdAt |-> x.createdAt,
           lastSeenAt |-> NullIfZero(x.lastSeenAt), revokedAt |-> x.revokedAt]
  BY <1>1
<1> HIDE DEF b
<1>4. QED
  BY <1>2, <1>3

LEMMA FieldsOfDevice ==
  ASSUME NEW r, IsDevice(r), NEW v
  PROVE  /\ IsDevice(WithVersion(r, v)) /\ IsDevice(WithSeen(r, v)) /\ IsDevice(WithRevoked(r, v))
         /\ RowOfDevice(WithVersion(r, v)) = WithVersion(RowOfDevice(r), NullIfZero(v))
         /\ RowOfDevice(WithSeen(r, v)) = WithSeen(RowOfDevice(r), NullIfZero(v))
         /\ RowOfDevice(WithRevoked(r, v)) = WithRevoked(RowOfDevice(r), NullIfZero(v))
<1>1. IsDevice(WithVersion(r, v)) /\ IsDevice(WithSeen(r, v)) /\ IsDevice(WithRevoked(r, v))
  BY DEF IsDevice, WithVersion, WithSeen, WithRevoked
<1>2. RowOfDevice(WithVersion(r, v)) = WithVersion(RowOfDevice(r), NullIfZero(v))
  BY RowOfDeviceIs, <1>1 DEF IsDevice, WithVersion
<1>3. RowOfDevice(WithSeen(r, v)) = WithSeen(RowOfDevice(r), NullIfZero(v))
  BY RowOfDeviceIs, <1>1 DEF IsDevice, WithSeen
<1>4. RowOfDevice(WithRevoked(r, v)) = WithRevoked(RowOfDevice(r), NullIfZero(v))
  BY RowOfDeviceIs, <1>1 DEF IsDevice, WithRevoked
<1>5. QED
  BY <1>1, <1>2, <1>3, <1>4

LEMMA DeviceEntries ==
  ASSUME Inv, NEW d \in DeviceIds
  PROVE  /\ DeviceTable[d] = IF devices[d] = None THEN None ELSE RowOfDevice(devices[d])
         /\ DeviceTable[d] = None <=> devices[d] = None
         /\ devices[d] # None => devices[d] \in Device /\ IsDevice(devices[d])
         /\ Tables!IfPresent(DeviceTable, d) = IfPresent(devices, d)
         /\ Tables!IfFree(DeviceTable, d) = IfFree(devices, d)
<1>1. DeviceTable[d] = IF devices[d] = None THEN None ELSE RowOfDevice(devices[d])
  BY TableRows
<1>2. devices[d] # None => devices[d] \in Device
  BY DEF Inv, DeviceInv
<1>3. DeviceTable[d] = None <=> devices[d] = None
  BY <1>1, <1>2, DeviceRowTypes
<1>4. ASSUME NEW device \in Device PROVE IsDevice(device)
  BY DEF IsDevice, Device
<1>5. QED
  BY <1>1, <1>2, <1>3, <1>4 DEF Tables!IfPresent, IfPresent, Tables!IfFree, IfFree

LEMMA DeviceFrame ==
  UNCHANGED otherThanDevices =>
    UNCHANGED <<case, clock, BlobTable, variants, items, stats, JobTable, CodeTable, meta>>
BY Kept DEF otherThanDevices, itemMaps, blobMaps

LEMMA WrittenDevice ==
  ASSUME Inv, Inv', NEW d \in DeviceIds, NEW f, devices' = [devices EXCEPT ![d] = f], f \in Device
  PROVE  DeviceTable' = [DeviceTable EXCEPT ![d] = RowOfDevice(f)]
<1>1. devices'[d] = f /\ \A e \in DeviceIds \ {d} : devices'[e] = devices[e]
  BY DEF Inv, DeviceInv
<1>2. f # None
  BY AbsenceAssumption
<1>3. \A e \in DeviceIds \ {d} : DeviceTable'[e] = DeviceTable[e]
  BY <1>1, TableRows, TableRowsNext
<1>4. DeviceTable'[d] = RowOfDevice(f)
  BY <1>1, <1>2, TableRowsNext
<1>5. DeviceTable = [e \in DeviceIds |-> DeviceTable[e]]
      /\ DeviceTable' = [e \in DeviceIds |-> DeviceTable'[e]]
  BY TableRows, TableRowsNext
<1>6. QED
  BY <1>3, <1>4, <1>5, OneRow

LEMMA SameDeviceTable ==
  ASSUME Inv, NEW d \in DeviceIds, devices' = devices
  PROVE  DeviceTable' = DeviceTable /\ [DeviceTable EXCEPT ![d] = DeviceTable[d]] = DeviceTable
<1>1. DeviceTable' = DeviceTable
  BY DEF DeviceTable, Rows, DeviceRow
<1>2. DeviceTable = [e \in DeviceIds |-> DeviceTable[e]]
  BY TableRows
<1>3. QED
  BY <1>1, <1>2

LEMMA UpdatedDevice ==
  ASSUME Inv, Inv', NEW d \in DeviceIds, NEW f, NEW g,
         devices' = [devices EXCEPT ![d] = IF @ = None THEN None ELSE f],
         devices[d] # None => f \in Device /\ g = RowOfDevice(f)
  PROVE  DeviceTable' = [DeviceTable EXCEPT ![d] = IF @ = None THEN None ELSE g]
<1>1. CASE devices[d] # None
  <2>1. devices' = [devices EXCEPT ![d] = f] /\ f \in Device /\ g = RowOfDevice(f)
    BY <1>1
  <2>2. DeviceTable' = [DeviceTable EXCEPT ![d] = g]
    BY <2>1, WrittenDevice
  <2>3. QED
    BY <1>1, <2>2, DeviceEntries
<1>2. CASE devices[d] = None
  <2>1. devices' = devices
    BY <1>2 DEF Inv, DeviceInv
  <2>2. QED
    BY <1>2, <2>1, SameDeviceTable, DeviceEntries
<1>3. QED
  BY <1>1, <1>2

LEMMA ImplementsInsertDevice ==
  ASSUME Inv, Inv', NEW d \in DeviceIds, NEW token \in TokenHashes, NEW version \in Versions,
         NEW createdAt \in Times, InsertDevice(d, token, version, createdAt)
  PROVE  Tables!InsertDevice(d, token, version, createdAt)
<1> DEFINE f == [token |-> token, version |-> version, createdAt |-> createdAt,
                 lastSeenAt |-> 0, revokedAt |-> 0]
           g == [token |-> token, version |-> NullIfZero(version), createdAt |-> createdAt,
                 lastSeenAt |-> Null, revokedAt |-> Null]
<1>1. /\ devices' = [devices EXCEPT ![d] = IF @ = None THEN f ELSE @]
      /\ Returns("InsertDevice", IfFree(devices, d), 0) /\ UNCHANGED otherThanDevices
  BY DEF InsertDevice, Inserted
<1>2. f \in Device
  BY DEF Device, Inv, ClockInv
<1>3. RowOfDevice(f) = g
  <2>1. IsDevice(f)
    BY DEF IsDevice
  <2>2. RowOfDevice(f) = [token |-> f.token, version |-> NullIfZero(f.version),
                          createdAt |-> f.createdAt, lastSeenAt |-> NullIfZero(f.lastSeenAt),
                          revokedAt |-> NullIfZero(f.revokedAt)]
    BY <2>1, RowOfDeviceIs
  <2>3. NullIfZero(0) = Null
    BY DEF NullIfZero
  <2>4. QED
    BY <2>2, <2>3
<1> HIDE DEF f
<1>4. DeviceTable' = [DeviceTable EXCEPT ![d] = IF @ = None THEN g ELSE @]
  <2> HIDE DEF g
  <2>1. CASE devices[d] = None
    <3>1. devices' = [devices EXCEPT ![d] = f]
      BY <1>1, <2>1
    <3>2. DeviceTable' = [DeviceTable EXCEPT ![d] = g]
      BY <1>2, <1>3, <3>1, WrittenDevice
    <3>3. QED
      BY <2>1, <3>2, DeviceEntries
  <2>2. CASE devices[d] # None
    <3>1. devices' = devices
      BY <1>1, <2>2 DEF Inv, DeviceInv
    <3>2. QED
      BY <2>2, <3>1, SameDeviceTable, DeviceEntries
  <2>3. QED
    BY <2>1, <2>2
<1>5. NullIfZero(version) = Tables!NullIfZero(version)
  BY DEF NullIfZero, Tables!NullIfZero
<1>6. DeviceTable' = Tables!Inserted(DeviceTable, d,
        [token |-> token, version |-> Tables!NullIfZero(version), createdAt |-> createdAt,
         lastSeenAt |-> Null, revokedAt |-> Null])
  BY <1>4, <1>5 DEF Tables!Inserted
<1>7. QED
  BY <1>1, <1>6, DeviceEntries, DeviceFrame DEF Tables!InsertDevice, Tables!Returns, Returns,
     Tables!otherThanDevices, BlobTable, JobTable, DeviceTable, CodeTable

LEMMA ImplementsRevokeDevice ==
  ASSUME Inv, Inv', NEW d \in DeviceIds, RevokeDevice(d)
  PROVE  Tables!RevokeDevice(d)
<1> DEFINE f == IF Revoked(devices[d]) THEN devices[d] ELSE WithRevoked(devices[d], clock)
           g == IF DeviceTable[d].revokedAt = Null THEN WithRevoked(DeviceTable[d], clock)
                ELSE DeviceTable[d]
<1>1. /\ devices' = [devices EXCEPT ![d] = IF @ = None THEN None
             ELSE IF Revoked(@) THEN @ ELSE [@ EXCEPT !.revokedAt = clock]]
      /\ Returns("RevokeDevice", IfPresent(devices, d), 0) /\ UNCHANGED otherThanDevices
  BY DEF RevokeDevice, Updated
<1>2. devices' = [devices EXCEPT ![d] = IF @ = None THEN None ELSE f]
  BY <1>1 DEF WithRevoked
<1>3. ASSUME devices[d] # None PROVE f \in Device /\ g = RowOfDevice(f)
  <2>1. devices[d] \in Device /\ IsDevice(devices[d]) /\ DeviceTable[d] = RowOfDevice(devices[d])
    BY <1>3, DeviceEntries
  <2>2. NullIfZero(clock) = clock
    BY StoreAssumption DEF NullIfZero, Inv, ClockInv, Times
  <2>3. WithRevoked(devices[d], clock) \in Device
    BY <2>1 DEF WithRevoked, Device, Inv, ClockInv
  <2>4. DeviceTable[d].revokedAt = Null <=> ~Revoked(devices[d])
    <3>1. DeviceTable[d].revokedAt = NullIfZero(devices[d].revokedAt)
      BY <2>1 DEF RowOfDevice, Device
    <3>2. devices[d].revokedAt # Null
      BY <2>1, ZeroOrTime DEF Device
    <3>3. QED
      BY <3>1, <3>2 DEF NullIfZero, Revoked
  <2>5. RowOfDevice(WithRevoked(devices[d], clock)) = WithRevoked(DeviceTable[d], clock)
    BY <2>1, <2>2, FieldsOfDevice
  <2>6. QED
    BY <2>1, <2>3, <2>4, <2>5
<1>4. DeviceTable' = [DeviceTable EXCEPT ![d] = IF @ = None THEN None ELSE g]
  <2> HIDE DEF f, g
  <2>1. QED
    BY <1>2, <1>3, UpdatedDevice
<1>5. DeviceTable' = [DeviceTable EXCEPT ![d] = IF @ = None THEN None
        ELSE IF @.revokedAt = Null THEN [@ EXCEPT !.revokedAt = clock] ELSE @]
  BY <1>4 DEF WithRevoked
<1>6. QED
  BY <1>1, <1>5, DeviceEntries, DeviceFrame DEF Tables!RevokeDevice, Tables!Updated, Tables!Returns,
     Returns, Tables!otherThanDevices, BlobTable, JobTable, DeviceTable, CodeTable

LEMMA ImplementsTouchDevice ==
  ASSUME Inv, Inv', NEW d \in DeviceIds, NEW version \in Versions, TouchDevice(d, version)
  PROVE  Tables!TouchDevice(d, version)
<1> DEFINE Touched(r) == WithVersion(WithSeen(r, clock), IF version = 0 THEN r.version ELSE version)
           f == Touched(devices[d])
           g == Touched(DeviceTable[d])
<1>1. /\ devices' = [devices EXCEPT ![d] = IF @ = None THEN None
             ELSE [devices[d] EXCEPT !.lastSeenAt = clock,
                                     !.version = IF version # 0 THEN version ELSE @]]
      /\ Returns("TouchDevice", IfPresent(devices, d), 0) /\ UNCHANGED otherThanDevices
  BY DEF TouchDevice, Updated
<1>2. ASSUME devices[d] # None PROVE f \in Device /\ g = RowOfDevice(f)
  <2>1. devices[d] \in Device /\ IsDevice(devices[d]) /\ DeviceTable[d] = RowOfDevice(devices[d])
    BY <1>2, DeviceEntries
  <2>2. NullIfZero(clock) = clock /\ (version # 0 => NullIfZero(version) = version)
    BY StoreAssumption DEF NullIfZero, Inv, ClockInv, Times
  <2>3. DeviceTable[d].version = NullIfZero(devices[d].version)
    BY <2>1 DEF RowOfDevice, Device
  <2>4. PICK v \in Versions : v = IF version = 0 THEN devices[d].version ELSE version
    BY <2>1 DEF Device
  <2>5. NullIfZero(v) = IF version = 0 THEN DeviceTable[d].version ELSE version
    BY <2>2, <2>3, <2>4
  <2>6. f = WithVersion(WithSeen(devices[d], clock), v)
        /\ g = WithVersion(WithSeen(DeviceTable[d], clock), NullIfZero(v))
    BY <2>4, <2>5
  <2>7. WithVersion(WithSeen(devices[d], clock), v) \in Device
    BY <2>1 DEF WithVersion, WithSeen, Device, Inv, ClockInv
  <2>8. /\ IsDevice(WithSeen(devices[d], clock))
        /\ RowOfDevice(WithSeen(devices[d], clock)) = WithSeen(DeviceTable[d], clock)
    BY <2>1, <2>2, FieldsOfDevice
  <2>9. RowOfDevice(WithVersion(WithSeen(devices[d], clock), v))
          = WithVersion(WithSeen(DeviceTable[d], clock), NullIfZero(v))
    BY <2>8, FieldsOfDevice
  <2> HIDE DEF f, g
  <2>10. QED
    BY <2>6, <2>7, <2>9
<1>3. devices' = [devices EXCEPT ![d] = IF @ = None THEN None ELSE f]
  <2>1. devices[d] # None => f = [devices[d] EXCEPT !.lastSeenAt = clock,
                                    !.version = IF version # 0 THEN version ELSE @]
    BY DeviceEntries DEF WithVersion, WithSeen, Device
  <2> HIDE DEF f
  <2>2. QED
    BY <1>1, <2>1
<1>4. DeviceTable' = [DeviceTable EXCEPT ![d] = IF @ = None THEN None ELSE g]
  <2> HIDE DEF f, g
  <2>1. QED
    BY <1>2, <1>3, UpdatedDevice
<1>5. DeviceTable' = [DeviceTable EXCEPT ![d] = IF @ = None THEN None
        ELSE [DeviceTable[d] EXCEPT !.lastSeenAt = clock,
                                    !.version = IF version = 0 THEN @ ELSE version]]
  <2>1. DeviceTable[d] # None => IsDevice(DeviceTable[d])
    BY DeviceEntries DEF RowOfDevice, Device, IsDevice
  <2>2. DeviceTable[d] # None => g = [DeviceTable[d] EXCEPT !.lastSeenAt = clock,
                                        !.version = IF version = 0 THEN @ ELSE version]
    BY <2>1 DEF WithVersion, WithSeen, IsDevice
  <2> HIDE DEF g
  <2>3. QED
    BY <1>4, <2>2
<1>6. QED
  BY <1>1, <1>5, DeviceEntries, DeviceFrame DEF Tables!TouchDevice, Tables!Updated, Tables!Returns,
     Returns, Tables!otherThanDevices, BlobTable, JobTable, DeviceTable, CodeTable

LEMMA ImplementsDeviceMethods ==
  ASSUME Inv, Inv', DeviceMethods
  PROVE  Tables!DeviceMethods
<1>1. ASSUME NEW d \in DeviceIds, NEW token \in TokenHashes, NEW version \in Versions,
             NEW createdAt \in Times, InsertDevice(d, token, version, createdAt)
      PROVE  Tables!DeviceMethods
  BY <1>1, ImplementsInsertDevice, SMT DEF Tables!DeviceMethods, Times, Tables!Times
<1>2. ASSUME NEW d \in DeviceIds, RevokeDevice(d)
      PROVE  Tables!DeviceMethods
  BY <1>2, ImplementsRevokeDevice DEF Tables!DeviceMethods
<1>3. ASSUME NEW d \in DeviceIds, NEW version \in Versions, TouchDevice(d, version)
      PROVE  Tables!DeviceMethods
  BY <1>3, ImplementsTouchDevice DEF Tables!DeviceMethods
<1>4. QED
  BY <1>1, <1>2, <1>3 DEF DeviceMethods


-----------------------------------------------------------------------------

LEMMA CodeEntries ==
  ASSUME Inv, NEW c \in CodeHashes
  PROVE  /\ CodeTable[c] = IF pairingCodes[c] = None THEN None ELSE RowOfCode(pairingCodes[c])
         /\ CodeTable[c] = None <=> pairingCodes[c] = None
         /\ pairingCodes[c] # None =>
              /\ pairingCodes[c] \in Code
              /\ CodeTable[c].expiresAt = pairingCodes[c].expiresAt
              /\ CodeTable[c].attempts = pairingCodes[c].attempts
              /\ CodeTable[c].usedAt = Null <=> pairingCodes[c].usedAt = 0
         /\ Tables!IfPresent(CodeTable, c) = IfPresent(pairingCodes, c)
         /\ Tables!IfFree(CodeTable, c) = IfFree(pairingCodes, c)
<1>1. CodeTable[c] = IF pairingCodes[c] = None THEN None ELSE RowOfCode(pairingCodes[c])
  BY TableRows
<1>2. pairingCodes[c] # None => pairingCodes[c] \in Code
  BY DEF Inv, CodeInv
<1>3. CodeTable[c] = None <=> pairingCodes[c] = None
  BY <1>1, <1>2, CodeRowTypes
<1>4. ASSUME NEW code \in Code
      PROVE  /\ RowOfCode(code).expiresAt = code.expiresAt /\ RowOfCode(code).attempts = code.attempts
             /\ RowOfCode(code).usedAt = Null <=> code.usedAt = 0
  <2>1. RowOfCode(code).usedAt = NullIfZero(code.usedAt) /\ code.usedAt # Null
    BY ZeroOrTime DEF RowOfCode, Code
  <2>2. QED
    BY <2>1 DEF RowOfCode, Code, NullIfZero
<1>5. QED
  BY <1>1, <1>2, <1>3, <1>4 DEF Tables!IfPresent, IfPresent, Tables!IfFree, IfFree

LEMMA CodeFrame ==
  UNCHANGED otherThanCodes =>
    UNCHANGED <<case, clock, BlobTable, variants, items, stats, JobTable, DeviceTable, meta>>
BY Kept DEF otherThanCodes, itemMaps, blobMaps

LEMMA WrittenCode ==
  ASSUME Inv, Inv', NEW c \in CodeHashes, NEW f, pairingCodes' = [pairingCodes EXCEPT ![c] = f],
         f \in Code
  PROVE  CodeTable' = [CodeTable EXCEPT ![c] = RowOfCode(f)]
<1>1. pairingCodes'[c] = f /\ \A d \in CodeHashes \ {c} : pairingCodes'[d] = pairingCodes[d]
  BY DEF Inv, CodeInv
<1>2. f # None
  BY AbsenceAssumption
<1>3. \A d \in CodeHashes \ {c} : CodeTable'[d] = CodeTable[d]
  BY <1>1, TableRows, TableRowsNext
<1>4. CodeTable'[c] = RowOfCode(f)
  BY <1>1, <1>2, TableRowsNext
<1>5. CodeTable = [d \in CodeHashes |-> CodeTable[d]] /\ CodeTable' = [d \in CodeHashes |-> CodeTable'[d]]
  BY TableRows, TableRowsNext
<1>6. QED
  BY <1>3, <1>4, <1>5, OneRow

LEMMA SameCodeTable ==
  ASSUME Inv, NEW c \in CodeHashes, pairingCodes' = pairingCodes
  PROVE  CodeTable' = CodeTable /\ [CodeTable EXCEPT ![c] = CodeTable[c]] = CodeTable
<1>1. CodeTable' = CodeTable
  BY DEF CodeTable, Rows, CodeRow
<1>2. CodeTable = [d \in CodeHashes |-> CodeTable[d]]
  BY TableRows
<1>3. QED
  BY <1>1, <1>2

LEMMA ImplementsInsertPairingCode ==
  ASSUME Inv, Inv', NEW c \in CodeHashes, NEW t \in Times, InsertPairingCode(c, t)
  PROVE  Tables!InsertPairingCode(c, t)
<1> DEFINE f == [expiresAt |-> t, usedAt |-> 0, attempts |-> 0]
           g == [expiresAt |-> t, usedAt |-> Null, attempts |-> 0]
<1>1. /\ pairingCodes' = [pairingCodes EXCEPT ![c] = IF @ = None THEN f ELSE @]
      /\ Returns("InsertPairingCode", IfFree(pairingCodes, c), 0) /\ UNCHANGED otherThanCodes
  BY DEF InsertPairingCode, Inserted
<1>2. f \in Code
  BY DEF Code
<1>3. RowOfCode(f) = g
  BY DEF RowOfCode, NullIfZero
<1> HIDE DEF f
<1>4. CodeTable' = [CodeTable EXCEPT ![c] = IF @ = None THEN g ELSE @]
  <2> HIDE DEF g
  <2>1. CASE pairingCodes[c] = None
    <3>1. pairingCodes' = [pairingCodes EXCEPT ![c] = f]
      BY <1>1, <2>1
    <3>2. CodeTable' = [CodeTable EXCEPT ![c] = g]
      BY <1>2, <1>3, <3>1, WrittenCode
    <3>3. QED
      BY <2>1, <3>2, CodeEntries
  <2>2. CASE pairingCodes[c] # None
    <3>1. pairingCodes' = pairingCodes
      BY <1>1, <2>2 DEF Inv, CodeInv
    <3>2. QED
      BY <2>2, <3>1, SameCodeTable, CodeEntries
  <2>3. QED
    BY <2>1, <2>2
<1>5. QED
  BY <1>1, <1>4, CodeEntries, CodeFrame DEF Tables!InsertPairingCode, Tables!Inserted, Tables!Returns,
     Returns, Tables!otherThanCodes, BlobTable, JobTable, DeviceTable, CodeTable

LEMMA ImplementsMarkPairingCodeUsed ==
  ASSUME Inv, Inv', NEW c \in CodeHashes, MarkPairingCodeUsed(c)
  PROVE  Tables!MarkPairingCodeUsed(c)
<1>1. UNCHANGED otherThanCodes
  BY DEF MarkPairingCodeUsed
<1>2. UNCHANGED <<case, clock, BlobTable, variants, items, stats, JobTable, DeviceTable, meta>>
  BY <1>1, CodeFrame
<1>3. CASE pairingCodes[c] = None
  <2>1. CodeTable[c] = None /\ UNCHANGED CodeTable /\ Returns("MarkPairingCodeUsed", "not found", 0)
    BY <1>3, CodeEntries, Kept DEF MarkPairingCodeUsed
  <2>2. QED
    BY <1>2, <2>1 DEF Tables!MarkPairingCodeUsed, Tables!Returns, Returns, Tables!otherThanCodes,
       BlobTable, JobTable, DeviceTable, CodeTable
<1>4. CASE pairingCodes[c] # None /\ pairingCodes[c].usedAt # 0
  <2>1. CodeTable[c] # None /\ CodeTable[c].usedAt # Null /\ UNCHANGED CodeTable
        /\ Returns("MarkPairingCodeUsed", "already exists", 0)
    BY <1>4, CodeEntries, Kept DEF MarkPairingCodeUsed
  <2>2. QED
    BY <1>2, <2>1 DEF Tables!MarkPairingCodeUsed, Tables!Returns, Returns, Tables!otherThanCodes,
       BlobTable, JobTable, DeviceTable, CodeTable
<1>5. CASE pairingCodes[c] # None /\ pairingCodes[c].usedAt = 0
  <2>1. CodeTable[c] # None /\ CodeTable[c].usedAt = Null /\ pairingCodes[c] \in Code
        /\ CodeTable[c] = RowOfCode(pairingCodes[c])
    BY <1>5, CodeEntries
  <2> DEFINE f == [pairingCodes[c] EXCEPT !.usedAt = clock]
             g == [CodeTable[c] EXCEPT !.usedAt = clock]
  <2>2. pairingCodes' = [pairingCodes EXCEPT ![c] = f] /\ Returns("MarkPairingCodeUsed", "none", 0)
    BY <1>5 DEF MarkPairingCodeUsed
  <2>3. f \in Code
    BY <2>1 DEF Code, Inv, ClockInv
  <2>4. RowOfCode(f) = g
    <3>1. NullIfZero(clock) = clock
      BY StoreAssumption DEF NullIfZero, Inv, ClockInv, Times
    <3>2. QED
      BY <2>1, <3>1 DEF RowOfCode, Code
  <2> HIDE DEF f
  <2>5. CodeTable' = [CodeTable EXCEPT ![c] = g]
    BY <2>2, <2>3, <2>4, WrittenCode
  <2>6. QED
    BY <1>2, <2>1, <2>2, <2>5 DEF Tables!MarkPairingCodeUsed, Tables!Returns, Returns,
       Tables!otherThanCodes, BlobTable, JobTable, DeviceTable, CodeTable
<1>6. QED
  BY <1>3, <1>4, <1>5

LEMMA ImplementsIncrementPairingCodeAttempts ==
  ASSUME Inv, Inv', NEW c \in CodeHashes, IncrementPairingCodeAttempts(c)
  PROVE  Tables!IncrementPairingCodeAttempts(c)
<1>1. /\ pairingCodes' = [pairingCodes EXCEPT ![c] = IF @ = None THEN None
                            ELSE [pairingCodes[c] EXCEPT !.attempts = @ + 1]]
      /\ Returns("IncrementPairingCodeAttempts", IfPresent(pairingCodes, c),
                 IF pairingCodes[c] = None THEN 0 ELSE pairingCodes'[c].attempts)
      /\ UNCHANGED otherThanCodes
  BY DEF IncrementPairingCodeAttempts, Updated
<1>2. UNCHANGED <<case, clock, BlobTable, variants, items, stats, JobTable, DeviceTable, meta>>
  BY <1>1, CodeFrame
<1>3. /\ CodeTable' = [CodeTable EXCEPT ![c] = IF @ = None THEN None
                         ELSE [CodeTable[c] EXCEPT !.attempts = @ + 1]]
      /\ Returns("IncrementPairingCodeAttempts", IfPresent(pairingCodes, c),
                 IF CodeTable[c] = None THEN 0 ELSE CodeTable[c].attempts + 1)
  <2>1. CASE pairingCodes[c] = None
    <3>1. pairingCodes' = pairingCodes
      BY <1>1, <2>1 DEF Inv, CodeInv
    <3>2. QED
      BY <1>1, <2>1, <3>1, SameCodeTable, CodeEntries
  <2>2. CASE pairingCodes[c] # None
    <3>1. pairingCodes[c] \in Code /\ CodeTable[c] = RowOfCode(pairingCodes[c]) /\ CodeTable[c] # None
          /\ CodeTable[c].attempts = pairingCodes[c].attempts
      BY <2>2, CodeEntries
    <3>2. PICK n \in Nat : n = pairingCodes[c].attempts + 1
      BY <3>1 DEF Code
    <3> DEFINE f == [pairingCodes[c] EXCEPT !.attempts = n]
    <3>3. pairingCodes' = [pairingCodes EXCEPT ![c] = f]
      BY <1>1, <2>2, <3>2
    <3>4. f \in Code /\ f.attempts = n
      BY <3>1 DEF Code
    <3>5. RowOfCode(f) = [CodeTable[c] EXCEPT !.attempts = n]
      BY <3>1 DEF RowOfCode, Code
    <3> HIDE DEF f
    <3>6. CodeTable' = [CodeTable EXCEPT ![c] = [CodeTable[c] EXCEPT !.attempts = n]]
      BY <3>3, <3>4, <3>5, WrittenCode
    <3>7. pairingCodes'[c].attempts = n
      BY <3>3, <3>4 DEF Inv, CodeInv
    <3>8. QED
      BY <1>1, <2>2, <3>1, <3>2, <3>6, <3>7
  <2>3. QED
    BY <2>1, <2>2
<1>4. QED
  BY <1>2, <1>3, CodeEntries DEF Tables!IncrementPairingCodeAttempts, Tables!Updated, Tables!Returns,
     Returns, Tables!otherThanCodes, BlobTable, JobTable, DeviceTable, CodeTable

LEMMA ImplementsDeletePairingCodesBefore ==
  ASSUME Inv, Inv', NEW t \in Times, DeletePairingCodesBefore(t)
  PROVE  Tables!DeletePairingCodesBefore(t)
<1> DEFINE expired == {c \in CodeHashes : pairingCodes[c] # None /\ pairingCodes[c].expiresAt < t}
           gone == {c \in CodeHashes : CodeTable[c] # None /\ CodeTable[c].expiresAt < t}
<1>1. /\ pairingCodes' = [c \in CodeHashes |-> IF c \in expired THEN None ELSE pairingCodes[c]]
      /\ Returns("DeletePairingCodesBefore", "none", Cardinality(expired))
      /\ UNCHANGED otherThanCodes
  BY DEF DeletePairingCodesBefore
<1>2. gone = expired
  BY CodeEntries
<1>3. \A c \in CodeHashes : CodeTable'[c] = IF c \in expired THEN None ELSE CodeTable[c]
  <2> HIDE DEF expired
  <2>1. QED
    BY <1>1, TableRows, TableRowsNext
<1>4. CodeTable' = [c \in CodeHashes |-> CodeTable'[c]]
  BY TableRowsNext
<1> HIDE DEF expired, gone
<1>5. CodeTable' = [c \in CodeHashes |-> IF c \in gone THEN None ELSE CodeTable[c]]
  BY <1>2, <1>3, <1>4
<1>6. Tables!Returns("DeletePairingCodesBefore", "none", Tables!Cardinality(gone))
  BY <1>1, <1>2, SameCardinality DEF Tables!Returns, Returns
<1>7. QED
  BY <1>1, <1>5, <1>6, CodeFrame DEF Tables!DeletePairingCodesBefore, Tables!otherThanCodes, BlobTable,
     JobTable, DeviceTable, CodeTable, gone

LEMMA ImplementsSetMeta ==
  ASSUME NEW k \in MetaKeys, NEW v \in MetaValues, SetMeta(k, v)
  PROVE  Tables!SetMeta(k, v)
<1>1. UNCHANGED <<case, clock, BlobTable, variants, items, stats, JobTable, DeviceTable, CodeTable>>
  BY Kept DEF SetMeta, itemMaps, blobMaps
<1>2. QED
  BY <1>1 DEF SetMeta, Tables!SetMeta, Tables!Returns, Returns, BlobTable, JobTable, DeviceTable,
     CodeTable

LEMMA ImplementsCodeMethods ==
  ASSUME Inv, Inv', CodeMethods
  PROVE  Tables!CodeMethods
<1>1. ASSUME NEW c \in CodeHashes, Guessable(c) PROVE Tables!Guessable(c)
  <2>1. CodeTable[c] # None => CodeTable[c].attempts < MaxGuesses
    BY <1>1, CodeEntries DEF Guessable
  <2>2. QED
    BY <2>1 DEF Tables!Guessable, CodeTable
<1>2. QED
  BY <1>1, ImplementsInsertPairingCode, ImplementsMarkPairingCodeUsed,
     ImplementsIncrementPairingCodeAttempts, ImplementsDeletePairingCodesBefore, ImplementsSetMeta
  DEF CodeMethods, Tables!CodeMethods, Tables!Times, Times

-----------------------------------------------------------------------------
(* The refinement *)

LEMMA ImplementsInit == Init => Tables!Init
<1> SUFFICES ASSUME Init PROVE Tables!Init
  OBVIOUS
<1>1. Inv
  BY InvInit
<1>2. /\ BlobTable = [h \in Hashes |-> None] /\ JobTable = [j \in 1..MaxJobs |-> None]
      /\ DeviceTable = [d \in DeviceIds |-> None] /\ CodeTable = [c \in CodeHashes |-> None]
  BY <1>1, TableRows DEF Init
<1>3. QED
  BY <1>2 DEF Init, Tables!Init, Tables!Idle, Idle, Tables!Ids, Ids, Tables!Months, Months,
     Tables!MonthOf, MonthOf, BlobTable, JobTable, DeviceTable, CodeTable

LEMMA ImplementsTick == Tick => Tables!Tick
<1> SUFFICES ASSUME Tick PROVE Tables!Tick
  OBVIOUS
<1>1. UNCHANGED <<BlobTable, variants, items, stats, JobTable, DeviceTable, CodeTable, meta>>
  BY Kept DEF Tick, itemMaps, blobMaps
<1>2. QED
  BY <1>1 DEF Tick, Tables!Tick, Tables!tables, BlobTable, JobTable, DeviceTable, CodeTable

LEMMA ImplementsStep ==
  ASSUME SinceTheEpoch, Inv, Inv', [Next]_vars
  PROVE  [Tables!Next]_(Tables!vars)
<1>1. CASE Next
  BY <1>1, ImplementsBlobMethods, ImplementsItemMethods, ImplementsJobMethods,
     ImplementsDeviceMethods, ImplementsCodeMethods, ImplementsTick DEF Next, Tables!Next
<1>2. CASE UNCHANGED vars
  <2>1. UNCHANGED <<BlobTable, variants, items, stats, JobTable, DeviceTable, CodeTable, meta>>
    BY <1>2, Kept DEF vars, itemMaps, blobMaps
  <2>2. QED
    BY <1>2, <2>1 DEF vars, Tables!vars, Tables!tables, BlobTable, JobTable, DeviceTable, CodeTable
<1>3. QED
  BY <1>1, <1>2

\* "A fake that disagrees with the database turns green unit tests into a production bug"
\* (conformance_test.go:2-4): whatever is called, MemStore stores what the database would
\* and returns what it would, provided that no item was captured before 1970.
THEOREM MemStoreImplementsTables == SinceTheEpoch => (Spec => ImplementsTables)
<1> SUFFICES ASSUME SinceTheEpoch PROVE Spec => ImplementsTables
  OBVIOUS
<1>1. Inv /\ Inv' /\ [Next]_vars => [Tables!Next]_(Tables!vars)
  BY ImplementsStep
<1>2. QED
  BY <1>1, InvInit, InvStep, ImplementsInit, PTL DEF Spec, ImplementsTables, Tables!Spec

-----------------------------------------------------------------------------
(* Lists: the same elements in the same order *)

\* Numbers as a list, as both modules sort them.
Ascending(S) == Ordered(S, <)

LEMMA AscendingList ==
  ASSUME NEW S
  PROVE  /\ Tables!Ordered(S, <) = Ascending(S)
         /\ DOMAIN Ascending(S) = 1..Cardinality(S)
         /\ IsFiniteSet(S) => Len(Ascending(S)) \in Nat
<1> DEFINE before == [x \in S |-> {y \in S : y < x}]
           list == [i \in 1..Cardinality(S) |-> CHOOSE x \in S : Cardinality(before[x]) = i - 1]
<1>1. Ascending(S) = list
  BY DEF Ascending, Ordered
<1>2. Tables!Ordered(S, <) = list
  BY Zenon DEF Tables!Ordered, Tables!Cardinality, Cardinality
<1>3. DOMAIN list = 1..Cardinality(S)
  OBVIOUS
<1>4. IsFiniteSet(S) => Len(list) \in Nat
  <2> DEFINE n == Cardinality(S)
             at(i) == CHOOSE x \in S : Cardinality(before[x]) = i - 1
  <2>1. IsFiniteSet(S) => n \in Nat
    BY FS_CardinalityType
  <2>2. list = [i \in 1..n |-> at(i)]
    OBVIOUS
  <2> HIDE DEF at, n, list
  <2>3. QED
    BY <2>1, <2>2
<1>5. QED
  BY <1>1, <1>2, <1>3, <1>4, Zenon

LEMMA SameVariants ==
  ASSUME NEW h
  PROVE  BlobVariantsByHash(h) = Tables!BlobVariantsByHash(h)
<1> DEFINE S == {k \in VariantKinds : variants[h, k] # None}
           kinds == Ascending(S)
<1>1. BlobVariantsByHash(h) = [i \in DOMAIN kinds |-> [kind |-> kinds[i], size |-> variants[h, kinds[i]]]]
  BY Zenon DEF BlobVariantsByHash, Ascending
<1>2. Tables!Ordered(S, <) = kinds /\ DOMAIN kinds = 1..Cardinality(S)
  BY AscendingList
<1>3. Tables!BlobVariantsByHash(h) =
        [i \in 1..Cardinality(S) |-> [kind |-> kinds[i], size |-> variants[h, kinds[i]]]]
  BY <1>2, Zenon DEF Tables!BlobVariantsByHash, Tables!Cardinality, Cardinality
<1>4. QED
  BY <1>1, <1>2, <1>3, Zenon

LEMMA SameItemLists ==
  ASSUME NEW h
  PROVE  ItemsByHash(h) = Tables!ItemsByHash(h)
<1> DEFINE S == {i \in Ids : items[i] # None /\ items[i].hash = h}
           ids == Ascending(S)
<1>1. ItemsByHash(h) = [i \in DOMAIN ids |-> items[ids[i]]]
  BY Zenon DEF ItemsByHash, Ascending
<1>2. Tables!Ordered(S, <) = ids
  BY AscendingList
<1>3. Tables!ItemsByHash(h) = [i \in DOMAIN ids |-> items[ids[i]]]
  BY <1>2, Zenon DEF Tables!ItemsByHash, Tables!InOrder, Tables!Ids, Ids
<1>4. QED
  BY <1>1, <1>3, Zenon

\* Both orders of the counters are the same.
LEMMA SameListing == ASSUME NEW counters PROVE Tables!Listed(counters) = Listed(counters)
<1> DEFINE S == {m \in Months : counters[m] # None}
           before == [x \in S |-> {y \in S : StatBefore(y, x)}]
           earlier == [x \in S |-> {y \in S : Tables!StatBefore(y, x)}]
           list(b) == [i \in 1..Cardinality(S) |-> CHOOSE x \in S : Cardinality(b[x]) = i - 1]
           entries(l) == [i \in DOMAIN l |-> [at |-> l[i], stat |-> counters[l[i]]]]
<1>1. earlier = before
  <2>1. ASSUME NEW a \in S, NEW b \in S PROVE Tables!StatBefore(a, b) <=> StatBefore(a, b)
    <3>1. a.album \in Nat /\ a.month \in Nat /\ b.album \in Nat /\ b.month \in Nat
      BY StoreAssumption DEF Months, MonthOf
    <3>2. QED
      BY <3>1 DEF Tables!StatBefore, StatBefore
  <2> HIDE DEF S
  <2>2. QED
    BY <2>1
<1>2. Ordered(S, StatBefore) = list(before)
  BY Zenon DEF Ordered
<1>3. Tables!Ordered(S, Tables!StatBefore) = list(earlier)
  BY Zenon DEF Tables!Ordered, Tables!Cardinality, Cardinality
<1>4. Listed(counters) = entries(Ordered(S, StatBefore))
  BY Zenon DEF Listed
<1>5. Tables!Listed(counters) = entries(Tables!Ordered(S, Tables!StatBefore))
  BY Zenon DEF Tables!Listed, Tables!Months, Months, Tables!MonthOf, MonthOf
<1>6. Tables!Ordered(S, Tables!StatBefore) = Ordered(S, StatBefore)
  <2> HIDE DEF before, earlier, S
  <2>1. QED
    BY <1>1, <1>2, <1>3, Zenon
<1>7. QED
  BY <1>4, <1>5, <1>6, Zenon

LEMMA SameDerivation ==
  ASSUME SinceTheEpoch, Inv
  PROVE  DeriveAlbumStats = Tables!DeriveAlbumStats
<1> DEFINE at(m) == {i \in Ids : items[i] # None /\ MonthOf(items[i]) = m}
           size(m) == MapThenSumSet(LAMBDA i : SizeOf[items[i].hash], at(m))
           captures(m) == {items[i].captured : i \in at(m)}
           counter(m, latest) ==
             IF at(m) = {} THEN None
             ELSE [count |-> Cardinality(at(m)), size |-> size(m), latest |-> latest]
           ours == [m \in Months |-> counter(m, Max({0} \cup captures(m)))]
           theirs == [m \in Months |-> counter(m, Tables!Max(captures(m)))]
<1>1. DeriveAlbumStats = Listed(ours)
  BY Zenon DEF DeriveAlbumStats
<1>2. Tables!DeriveAlbumStats = Tables!Listed(theirs)
  BY Zenon DEF Tables!DeriveAlbumStats, Tables!CapturedIn, Tables!Months, Months, Tables!MonthOf, MonthOf,
     Tables!Ids, Ids, Tables!Cardinality, Cardinality,
     Tables!MapThenSumSet, MapThenSumSet, Tables!MapThenFoldSet, MapThenFoldSet
<1>3. ASSUME NEW m \in Months, at(m) # {}
      PROVE  Max({0} \cup captures(m)) = Tables!Max(captures(m))
  <2>1. IsFiniteSet(at(m))
    BY DEF Inv, StatInv, In
  <2>2. captures(m) \subseteq Nat /\ captures(m) # {}
    BY <1>3 DEF SinceTheEpoch, Inv, ItemInv
  <2>3. IsFiniteSet(captures(m))
    <3> DEFINE captured == [i \in at(m) |-> items[i].captured]
    <3>1. captures(m) = {captured[i] : i \in at(m)}
      OBVIOUS
    <3> HIDE DEF captured, captures, at
    <3>2. QED
      BY <2>1, <3>1, ImageFinite
  <2> HIDE DEF captures
  <2>4. QED
    BY <2>2, <2>3, MaxFromZero, SameMax
<1>4. ours = theirs
  <2> HIDE DEF at, size, captures
  <2>1. QED
    BY <1>3
<1>5. QED
  BY <1>1, <1>2, <1>4, SameListing, Zenon

LEMMA SameJobLists ==
  ASSUME Inv, NEW state, NEW limit \in Nat
  PROVE  JobsByState(state, limit) = Tables!JobsByState(state, limit)
<1> DEFINE S == {j \in 1..MaxJobs : jobs[j] # None /\ jobs[j].state = state}
           ids == Ascending(S)
<1>1. Tables!InState(state) = {j \in 1..MaxJobs : JobTable[j] # None /\ JobTable[j].state = state}
  BY DEF Tables!InState, Tables!Rows, JobTable
<1>2. Tables!InState(state) = S
  BY <1>1, JobEntries
<1>3. JobsByState(state, limit) =
        IF limit > 0 /\ Len(ids) > limit THEN SubSeq(ids, 1, limit) ELSE ids
  BY Zenon DEF JobsByState, Ascending
<1>4. Tables!Ordered(S, <) = ids
  BY AscendingList
<1>5. Tables!JobsByState(state, limit) =
        IF limit > 0 /\ limit < Len(ids) THEN SubSeq(ids, 1, limit) ELSE ids
  BY <1>2, <1>4, Zenon DEF Tables!JobsByState
<1>6. IsFiniteSet(S)
  <2>1. IsFiniteSet(1..MaxJobs)
    BY StoreAssumption, FS_Interval
  <2>2. QED
    BY <2>1, FS_Subset
<1>7. Len(ids) \in Nat
  <2> HIDE DEF S
  <2>1. QED
    BY <1>6, AscendingList, Zenon
<1> HIDE DEF ids
<1>8. QED
  BY <1>3, <1>5, <1>7

\* ListDevices sorts the sequence of the devices as they came, the database the set of
\* them: a device has as many before it in the one as in the other.
Came == {d \in DeviceIds : devices[d] # None}
Older(d, e) ==
  IF devices[d].createdAt # devices[e].createdAt
  THEN devices[d].createdAt < devices[e].createdAt
  ELSE d < e
OlderThan == [d \in Came |-> {e \in Came : Older(e, d)}]
AheadOf ==
  [p \in DOMAIN deviceOrder |->
    {q \in DOMAIN deviceOrder :
       \/ Older(deviceOrder[q], deviceOrder[p])
       \/ ~Older(deviceOrder[p], deviceOrder[q]) /\ q < p}]

LEMMA CameInOrder ==
  ASSUME Inv
  PROVE  /\ deviceOrder \in Bijection(DOMAIN deviceOrder, Came)
         /\ DOMAIN deviceOrder = 1..Cardinality(Came)
         /\ IsFiniteSet(DOMAIN deviceOrder) /\ IsFiniteSet(Came)
<1> DEFINE n == Len(deviceOrder)
<1>1. n \in Nat /\ DOMAIN deviceOrder = 1..n
  BY DEF Inv, DeviceInv
<1>2. IsFiniteSet(1..n) /\ Cardinality(1..n) = n
  <2> HIDE DEF n
  <2>1. Cardinality(1..n) = IF 1 > n THEN 0 ELSE n - 1 + 1
    BY <1>1, FS_Interval
  <2>2. IsFiniteSet(1..n)
    BY <1>1, FS_Interval
  <2>3. QED
    BY <1>1, <2>1, <2>2
<1>3. deviceOrder \in [DOMAIN deviceOrder -> Came]
  BY DEF Inv, DeviceInv, Came
<1>4. \A p, q \in DOMAIN deviceOrder : deviceOrder[p] = deviceOrder[q] => p = q
  BY DEF Inv, DeviceInv, IsInjective
<1>5. \A d \in Came : \E p \in DOMAIN deviceOrder : deviceOrder[p] = d
  BY DEF Inv, DeviceInv, Came
<1>6. deviceOrder \in Bijection(DOMAIN deviceOrder, Came)
  <2>1. deviceOrder \in Surjection(DOMAIN deviceOrder, Came)
    BY <1>3, <1>5, Fun_IsSurj
  <2>2. deviceOrder \in Injection(DOMAIN deviceOrder, Came)
    BY <1>3, <1>4, Fun_IsInj
  <2>3. QED
    BY <2>1, <2>2 DEF Bijection
<1>7. ExistsBijection(DOMAIN deviceOrder, Came)
  BY <1>6, Fun_ExistsBij
<1>8. IsFiniteSet(Came) /\ Cardinality(Came) = n
  BY <1>1, <1>2, <1>7, FS_Bijection
<1>9. QED
  BY <1>1, <1>2, <1>6, <1>8

LEMMA OlderOrders ==
  ASSUME Inv
  PROVE  IsOrderOf(Came, OlderThan)
<1>1. \A d \in Came : d \in Nat /\ devices[d].createdAt \in Nat
  BY TimesAreNumbers, StoreAssumption DEF Inv, DeviceInv, Came, Device
<1>2. OlderThan \in [Came -> SUBSET Came]
  BY DEF OlderThan
<1>3. \A d, e \in Came : d \in OlderThan[e] <=> Older(d, e)
  BY DEF OlderThan
<1>4. \A d \in Came : ~Older(d, d)
  BY <1>1 DEF Older
<1>5. \A d, e \in Came : d = e \/ Older(d, e) \/ Older(e, d)
  BY <1>1 DEF Older
<1>6. \A c, d, e \in Came : Older(c, d) /\ Older(d, e) => Older(c, e)
  BY <1>1 DEF Older
<1>7. ASSUME NEW d \in Came, NEW e \in Came, d \in OlderThan[e]
      PROVE  OlderThan[d] \subseteq OlderThan[e]
  BY <1>2, <1>3, <1>6, <1>7
<1>8. QED
  BY <1>2, <1>3, <1>4, <1>5, <1>7 DEF IsOrderOf

\* Where no two elements are equal, the sort has nothing to keep stable.
LEMMA AheadIsOlder ==
  ASSUME Inv, NEW p \in DOMAIN deviceOrder
  PROVE  Cardinality(AheadOf[p]) = Cardinality(OlderThan[deviceOrder[p]])
<1> DEFINE S == AheadOf[p]
           T == OlderThan[deviceOrder[p]]
           g == [q \in S |-> deviceOrder[q]]
<1>1. /\ deviceOrder \in [DOMAIN deviceOrder -> Came]
      /\ \A x, y \in DOMAIN deviceOrder : deviceOrder[x] = deviceOrder[y] => x = y
      /\ \A d \in Came : \E x \in DOMAIN deviceOrder : deviceOrder[x] = d
  <2>1. deviceOrder \in Bijection(DOMAIN deviceOrder, Came)
    BY CameInOrder
  <2>2. /\ deviceOrder \in Injection(DOMAIN deviceOrder, Came)
        /\ deviceOrder \in Surjection(DOMAIN deviceOrder, Came)
    BY <2>1 DEF Bijection
  <2>3. QED
    BY <2>2, Fun_InjectionProperties, Fun_SurjectionProperties
<1>2. DOMAIN deviceOrder \subseteq Int
  BY CameInOrder
<1>3. \A d, e \in Came : /\ d \in OlderThan[e] <=> Older(d, e)
                         /\ d = e \/ Older(d, e) \/ Older(e, d)
                         /\ ~Older(d, d)
                         /\ ~(Older(d, e) /\ Older(e, d))
  <2>1. \A d, e \in Came : d \in OlderThan[e] <=> Older(d, e)
    BY DEF OlderThan
  <2>2. QED
    BY <2>1, OlderOrders DEF IsOrderOf
<1>4. S = {q \in DOMAIN deviceOrder : Older(deviceOrder[q], deviceOrder[p])}
  <2>1. ASSUME NEW q \in DOMAIN deviceOrder
        PROVE  (\/ Older(deviceOrder[q], deviceOrder[p])
                \/ ~Older(deviceOrder[p], deviceOrder[q]) /\ q < p)
               <=> Older(deviceOrder[q], deviceOrder[p])
    <3>1. deviceOrder[q] \in Came /\ deviceOrder[p] \in Came
      BY <1>1
    <3>2. CASE q = p
      BY <1>2, <3>2
    <3>3. CASE q # p
      <4>1. deviceOrder[q] # deviceOrder[p]
        BY <1>1, <3>3
      <4>2. QED
        BY <1>3, <3>1, <4>1
    <3>4. QED
      BY <3>2, <3>3
  <2>2. QED
    BY <2>1 DEF AheadOf
<1>5. T = {e \in Came : Older(e, deviceOrder[p])}
  BY <1>1 DEF OlderThan
<1>6. g \in [S -> T]
  BY <1>1, <1>4, <1>5
<1>7. \A x, y \in S : g[x] = g[y] => x = y
  BY <1>1, <1>4
<1>8. \A e \in T : \E x \in S : g[x] = e
  <2> SUFFICES ASSUME NEW e \in T PROVE \E x \in S : g[x] = e
    OBVIOUS
  <2>1. e \in Came /\ Older(e, deviceOrder[p])
    BY <1>5
  <2>2. PICK x \in DOMAIN deviceOrder : deviceOrder[x] = e
    BY <1>1, <2>1
  <2>3. x \in S
    BY <1>4, <2>1, <2>2
  <2>4. QED
    BY <2>2, <2>3
<1>9. IsFiniteSet(S)
  BY <1>4, CameInOrder, FS_Subset
<1> HIDE DEF g, S, T
<1>10. g \in Bijection(S, T)
  BY <1>6, <1>7, <1>8, Fun_IsSurj, Fun_IsInj DEF Bijection
<1>11. ExistsBijection(S, T)
  BY <1>10, Fun_ExistsBij
<1>12. Cardinality(T) = Cardinality(S)
  BY <1>9, <1>11, FS_Bijection
<1>13. QED
  BY <1>12 DEF S, T

LEMMA DevicePlaces ==
  ASSUME Inv
  PROVE  ListDevices = [i \in 1..Cardinality(Came) |-> Nth(Came, OlderThan, i)]
<1> DEFINE o == deviceOrder
           first(i) == CHOOSE p \in DOMAIN o : Cardinality(AheadOf[p]) = i - 1
           at(i) == Nth(Came, OlderThan, i)
<1>1. ListDevices = [i \in DOMAIN o |-> o[first(i)]]
  BY Zenon DEF ListDevices, StableSorted, AheadOf, Older
<1>2. IsOrderOf(Came, OlderThan) /\ IsFiniteSet(Came)
  BY OlderOrders, CameInOrder
<1>3. /\ o \in [DOMAIN o -> Came]
      /\ \A d \in Came : \E p \in DOMAIN o : o[p] = d
  <2>1. o \in Surjection(DOMAIN o, Came)
    BY CameInOrder DEF Bijection
  <2>2. QED
    BY <2>1, Fun_SurjectionProperties
<1>4. ASSUME NEW i \in 1..Cardinality(Came) PROVE o[first(i)] = at(i)
  <2>1. \E d \in Came : Cardinality(OlderThan[d]) = i - 1
    BY <1>2, RankExists
  <2>2. at(i) \in Came /\ Cardinality(OlderThan[at(i)]) = i - 1
    BY <2>1 DEF Nth
  <2>3. \E p \in DOMAIN o : Cardinality(AheadOf[p]) = i - 1
    <3>1. PICK p \in DOMAIN o : o[p] = at(i)
      BY <1>3, <2>2
    <3>2. Cardinality(AheadOf[p]) = i - 1
      BY <2>2, <3>1, AheadIsOlder
    <3>3. QED
      BY <3>2
  <2>4. first(i) \in DOMAIN o /\ Cardinality(AheadOf[first(i)]) = i - 1
    BY <2>3
  <2>5. o[first(i)] \in Came /\ Cardinality(OlderThan[o[first(i)]]) = i - 1
    BY <1>3, <2>4, AheadIsOlder
  <2> HIDE DEF first, at, o
  <2>6. QED
    BY <1>2, <2>2, <2>5, RankUnique
<1>5. DOMAIN o = 1..Cardinality(Came)
  BY CameInOrder
<1> HIDE DEF first, at, o
<1>6. ListDevices = [i \in 1..Cardinality(Came) |-> at(i)]
  BY <1>1, <1>4, <1>5
<1>7. QED
  BY <1>6 DEF at

LEMMA SameDeviceLists ==
  ASSUME Inv
  PROVE  ListDevices = Tables!ListDevices
<1> DEFINE olderInTable == [d \in Came |-> {e \in Came : Tables!OlderDevice(e, d)}]
<1>1. Tables!ListDevices = [i \in 1..Cardinality(Came) |-> Nth(Came, olderInTable, i)]
  <2>1. {d \in DeviceIds : DeviceTable[d] # None} = Came
    BY DeviceEntries DEF Came
  <2>2. Tables!ListDevices = Tables!Ordered(Came, Tables!OlderDevice)
    BY <2>1, Zenon DEF Tables!ListDevices, DeviceTable
  <2>3. QED
    BY <2>2, Zenon DEF Tables!Ordered, Tables!Cardinality, Cardinality, Nth
<1>2. olderInTable = OlderThan
  <2>1. ASSUME NEW d \in Came, NEW e \in Came PROVE Tables!OlderDevice(d, e) <=> Older(d, e)
    <3>1. DeviceTable[d].createdAt = devices[d].createdAt
          /\ DeviceTable[e].createdAt = devices[e].createdAt
      BY DeviceEntries, RowOfDeviceIs DEF Came
    <3>2. Tables!OlderDevice(d, e) <=>
            \/ DeviceTable[d].createdAt < DeviceTable[e].createdAt
            \/ DeviceTable[d].createdAt = DeviceTable[e].createdAt /\ d < e
      BY Zenon DEF Tables!OlderDevice, DeviceTable
    <3>3. devices[d].createdAt \in Nat /\ devices[e].createdAt \in Nat
      BY TimesAreNumbers DEF Inv, DeviceInv, Came, Device
    <3>4. QED
      BY <3>1, <3>2, <3>3 DEF Older
  <2>2. QED
    BY <2>1 DEF OlderThan
<1>3. QED
  BY <1>1, <1>2, DevicePlaces, Zenon

\* Every device once, the smallest createdAt first and those of one millisecond by
\* their ids.
OldestFirst ==
  /\ {ListDevices[i] : i \in DOMAIN ListDevices} = Came
  /\ \A i, j \in DOMAIN ListDevices : i < j => Older(ListDevices[i], ListDevices[j])

\* ListDevices lists each inserted device, revoked ones too, exactly once, in the order
\* of createdAt and then of ids: in whatever order the devices came, with whatever
\* times, and no two of them share a place.
THEOREM DevicesOldestFirst == Spec => []OldestFirst
<1>1. Inv => OldestFirst
  <2> SUFFICES ASSUME Inv PROVE OldestFirst
    OBVIOUS
  <2> DEFINE n == Cardinality(Came)
             at(i) == Nth(Came, OlderThan, i)
  <2>1. /\ \A i \in 1..n : at(i) \in Came
        /\ \A d \in Came : \E i \in 1..n : at(i) = d
        /\ \A i, j \in 1..n : i < j => at(i) \in OlderThan[at(j)]
    BY OlderOrders, CameInOrder, Places
  <2>2. ListDevices = [i \in 1..n |-> at(i)]
    BY DevicePlaces
  <2> HIDE DEF at, n
  <2>3. \A i, j \in 1..n : i < j => Older(at(i), at(j))
    BY <2>1 DEF OlderThan
  <2>4. QED
    BY <2>1, <2>2, <2>3 DEF OldestFirst
<1>2. QED
  BY <1>1, InvInit, InvStep, PTL DEF Spec

\* Whatever was written, every list holds what the database would list, in its order, provided
\* that no item was captured before 1970.
THEOREM ListsReadAlike == SinceTheEpoch => (Spec => []SameLists)
<1> SUFFICES ASSUME SinceTheEpoch PROVE Spec => []SameLists
  OBVIOUS
<1>1. Inv => SameLists
  <2> SUFFICES ASSUME Inv PROVE SameLists
    OBVIOUS
  <2>1. AlbumStats = Tables!AlbumStats
    BY SameListing DEF AlbumStats, Tables!AlbumStats
  <2>2. \A state \in {"queued", "running", "done", "failed"}, limit \in 0..1 :
          JobsByState(state, limit) = Tables!JobsByState(state, limit)
    BY SameJobLists
  <2>3. QED
    BY <2>1, <2>2, SameVariants, SameItemLists, SameDerivation, SameDeviceLists DEF SameLists
<1>2. QED
  BY <1>1, InvInit, InvStep, PTL DEF Spec
=============================================================================
