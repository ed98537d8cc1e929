# Homesink: a verification project

Homesink is a photo sink for one household: a Go server (`src/backend`) on a box with a drive, and an
Android client (`src/client`) that uploads to it. This directory holds TLA+ models of the parts of it
where state, concurrency and failure meet, TLC configurations that check them on small instances, and
theorems that TLAPS proves for every value of the constants. The models are translated from the code.
The repository is early in its roadmap: several packages the documents describe (ingest, the worker
pool, fsck) do not exist yet, and `homesinkd` does not call some that do. Where the code was written
for such a caller, the caller is modelled from the calls it is offered and marked external in
`PROJECT.json`.

Run, in this directory:

    tlc -config Pairing.cfg MCPairing.tla
    tlapm PairingProofs.tla

## The system

| Part | State | Operations | Hard about it |
|---|---|---|---|
| Pairing (`auth/pairing.go`, `store/devices.go`, `httpapi/handlers_pair.go`, `cmd_pair.go`) | `pairing_codes` and `devices` tables; per-address failure map under a mutex | issue a code, redeem it, count and lock out failures, sweep | a redemption is up to seven separate store calls and critical sections, concurrent with others, with a CLI process that issues codes, and with restarts that lose the failure map |
| Job queue (`store/jobs.go`) | `jobs` table | enqueue, claim, complete, fail, requeue at startup | workers race for jobs; crashes leave jobs running; the limit on attempts |
| Library (`library/place.go`, `paths.go`, `store/items.go`, `blobs.go`, `stats.go`) | files, staging directory; `blobs`, `items`, `album_stats` tables | place an upload, link a second placement, delete an item | files and rows cannot change in one transaction; names collide; increments must equal an aggregate |
| Authentication (`auth/middleware.go`, `token.go`, `store/devices.go`) | `devices`, last-touch map | authenticate, touch, revoke | revocation against requests in flight |
| The store's interface (`core/types.go`, `store/*.go`, `testutil/memstore.go`) | the tables of SQLite; the maps of the in-memory store | every read and write of `store.Store` | two implementations must give the same answers, in the same order, with the same errors |
| Startup (`store/migrate.go`, `backup.go`, `auth/tlscert.go`, `EnsureServerID`) | `server_meta`, backup files | migrate, back up and prune, ensure identity and certificate | crashes between transactions; two processes on one database |
| Names (`library/sanitize.go`) | none | sanitise album and file names | idempotence, boundaries of length |
| HTTP server (`httpapi/server.go`, `middleware.go`, `cmd/homesinkd`) | listener, flags | start, serve, drain, shut down | orders of start and shutdown |
| Client calls (`data/net`) | token, latch, server address, client cache, update hint | intercept a call, drop a rejected token, pin, publish an update | three calls in flight share the state; late answers |
| Client database and screens | Room tables | queries | no callers yet |

They interact in few places. The handlers of pairing insert the `devices` rows that authentication
reads; a revocation there is what makes the client drop its token. A commit (not written yet) calls
`Place`, inserts rows and enqueues jobs. Every write goes through `withTx` on one connection, so
**every write transaction is one atomic step** in all models, and nothing wider than a transaction is.

What makes each part correct: *pairing* - a code enrols at most one device, a live code stays
redeemable, guesses are limited and the limiter forgets only when it may; *jobs* - none lost, none
run twice at once, attempts limited, every job ends; *library* - an item's file exists and holds that
item's bytes, nothing recorded is overwritten, retries do not fan out, counters equal the aggregate;
*authentication* - a revocation holds from the next request on and for good; *startup* - restarts at any
point leave one schema version and one identity, and never lose the newest backup; *store* - the fake the
tests use cannot be told from the database by anyone who calls it; *client* - a rejected token goes,
and no other does.

## Modules

| Module | Models | State and actions |
|---|---|---|
| `Pairing` | redemption, issuing, limiter | `rows` is `pairing_codes` (a row per issue), `devices` the enrolments, `failures` the map of `Pairer`; `pc`/`req` are the program counters and locals of the `Pair` calls, one action per store call or critical section |
| `CodeLifecycle` | abstract: the stages of one code | unissued, live, redeeming, enrolled, gone |
| `MCPairing` | instance of Pairing for TLC | |
| `PairingProofs` | its theorems | |
| `Jobs` | the queue under an external pool | `jobs` the table, `held` what each worker runs, `up`/`crashes` the process; one action per store method |
| `JobLifecycle` | abstract: the place of each job, and its starts | outside, queued, held by a worker, lost, done, failed |
| `JobsProofs` | theorems of `Jobs` | |
| `Library` | `Place` and the rows of a commit | `files`, `staged` the file system; `blobs`, `items`, `stats` the tables; `pc`/`req` the calls of `Place`, one action per read, rename, link or transaction |
| `Archive` | abstract: what one sees in the library | the photo at each path, and the blobs a path was taken from |
| `MCLibrary` | instance of Library for TLC | |
| `LibraryProofs` | its theorems | |
| `Auth` | `Authenticator.Require`, the list and revoke handlers | `rows` the `devices` table, `lastTouch` the throttle; `pc`/`req` the requests, one action per store call, critical section or reading of a clock |
| `MCAuth`, `AuthProofs` | its instance and its theorems | |
| `StoreStartup` | `Migrate`, `Backup`, `PruneBackups`, `EnsureServerID`, `EnsureTLS` | `schema`, `meta` the database, `snapshots`, `temps` the backup directory; `pc`/`loc` the daemon and the pair command, one action per query, transaction or file operation |
| `StartupProofs` | its theorems | |
| `StoreCalls` | what callers of `store.Store` do | the conformance case, the clock, the last answer |
| `StoreTables` | abstract: the interface on SQL tables (`store/*.go`) | a table per variable, one action per method |
| `MemStore` | the in-memory store (`testutil/memstore.go`) | a variable per map and index, one action per method |
| `MCMemStore` | instance of both for TLC | |
| `MemStoreProofs` | theorems of `MemStore`, among them that it implements `StoreTables` | |
| `Sanitize` | `SanitizeAlbum` | a name, and how often it was sanitised |
| `ClientAuthProofs` | theorems of `ClientAuth` | |
| `ClientAuth` | `AuthInterceptor`, `TokenStore` | `store` and `latch` the two atomic references; `pc`, `sent`, `status` the calls; one action per atomic operation |
| `AggregateLemmas` | sums, counts, maxima and ranks over finite sets, for the proofs about counters and lists | |

Definitions named in a comment as *a bug* are changes of the code that a check must notice; no
specification uses them.

### Pairing

A `Pair` call: `Pair` (lockout check) -> `Lookup` -> `Judge` (spent, expired, on the copy just read) ->
`MarkPairingCodeUsed` -> `InsertDevice` -> `ClearFailures`; the failing branches go through
`CountCodeAttempt`, `ReadClock` (taken before the mutex) and `Failed`. `StoreError` may end a call at any store
access. `IssueSweep` and `IssueDraw` are `IssueCode`; a draw may repeat a code, and does so in the
instances. `Restart` ends every call and empties the failure map; the tables survive.
Left out: the token itself (a device is a member of a set), logs, and the wording of answers.

`CodeLifecycle` is what pairing promises of one code; `ImplementsLifecycle` maps each row to its stage
(`StageOf`). That a spent code may end in *gone* with no device - a store failure or a crash after the code is
spent - is part of that promise, as in the code.

### Jobs

The pool (WP-B6) is not in the repository. Its workers claim one job, run its handler, and call
`CompleteJob` or `FailJob`; the daemon calls `RequeueRunningJobs` before they start. Not modelled: a store
failure inside `CompleteJob`, a pool that abandons a handler after a timeout, and two server processes.
Rows are never deleted.

`JobLifecycle` leaves priorities, backoff, time and the process itself away: a job is in one place, with one worker at most, and a
worker has one job at most; a start is counted; a failed attempt returns to the queue or gives up by that count; a
crash loses what the workers had, and nothing starts before all of it is queued again. The mapping takes a job to
the worker that holds it, or else to the state of its row (`Place`), so a row that says *running* with no worker behind it is *lost*.

### Library

`Place` is modelled by its steps: `ResolveBase`, `ResolveSuffixed` (the D-13 branches), `StatStaged`,
`RenameStaged`, or `LookupBlob`, `LinkCanonical`, `Publish`. The caller then runs `InsertBlob` and
`InsertItem`, two transactions, as the store offers them and `persist` in `place_test.go` uses them; it
holds a lock per requested path from `Begin` to the end, as `place.go` demands of it. It takes no lock
per hash: commits do so according to the plan, duplicate preflights do not, and the properties hold
without. `Fail` ends any call at any step, which stands both for an error and for the end of the
process; a power cut that loses a rename is not modelled.
Abstractions: a path is a folder (album/year/month) and a name; one capture time per blob; a file is its
content, since the links of one inode are never written through; the check for identical inodes
(`SameFile`) is left out because publishing the same content again changes nothing; the truncation in
`fitFilename`; temporary links left by a crash. Nobody removes files behind the server's back.

`Archive` is the library as its owner sees it: a photo appears at a free path whole, with the bytes of the hash on record
unless a placement of that blob was deleted or cut short before, and stays as it is until it is deleted. The mapping reads each item's file
(`Shown`); staging, locks, links and the two transactions of a commit are stutters, or one of its steps.

### Auth

A request: `Arrive` -> `Authenticate` (lookup of the token's hash among live devices) -> `ReadClock` -> `Throttle`
(the critical section of `touch`) -> if a touch is due, `BeginTouch` (the store's clock) -> `TouchDevice` or
`TouchFails` -> the handler: `Serve`, or `BeginRevoke` -> `RevokeDevice`. `StoreError` is the 500 of a failing
lookup or revocation; `Restart` ends every request and empties the throttle. A token is minted with its device,
so the model identifies the two; hashing and the parsing of headers end in `NoDevice` or a device. `late` is a
history variable: the revocation was committed before the request arrived. Left out: a clock that is set back, and
what handlers other than list and revoke do.

### StoreStartup

The daemon and the pair command start independently, with any release. `ReadVersion` is the read outside
the transaction; `Apply` is `applyOne`. A backup is `Clean` -> `BeginVacuum` -> `EndVacuum` -> `Rename` ->
`ListBackups` -> `Prune` per file -> `EndBackup`. The daemon goes on with `Migrated` -> `SetServerID` -> `LoadTLS`
or `GenerateTLS` -> `SetKey` -> `SetCert` -> `SetSpki`, three transactions. A process dies at any step (`Crash`),
which may leave a partial temporary file and a key without its certificate.

The main function does not call most of this yet: the order is that of the comments, and one daemon per
database is assumed - two of them on a fresh database would each mint an identity. What the model shows beside its properties:

- Two processes that back up on the same day share one temporary name: each may remove or rename the other's
  half-written file. `mixed` records that it happened, and the two backup properties are stated for runs
  where it did not.
- That the second of two migrating processes does no harm rests on its SQL failing: `CREATE TABLE` does. A
  migration that can be run twice would let it record a version again (the mutant `ApplyAgain`).
- A restart on the same day, half-way through several migrations, replaces the snapshot taken before
  the first by one of the half-migrated schema. `BackedUpFirst` asks for a snapshot of what is changed *now*.
- A crash between the certificate and its fingerprint leaves `tls_spki` absent for good: `LoadTLS` finds key
  and certificate and returns. Only tests read the fingerprint.

Left out: a failing disk other than as a crash, downgrades of the schema (there are none), expiry of the certificate (nobody reads it).

### StoreCalls, StoreTables, MemStore

`StoreTables` gives each method of `store.Store` as its SQL does: unique keys, foreign keys, `NULL`s, order of results,
`requireOneRow`. `MemStore` gives it as the maps do, with the second indexes, the zero values and the sorting. Every
action leaves what the method returned in `outcome`; reads are operators of the state. `ImplementsTables` maps the
maps to tables (zero and empty to `NULL`) and is checked as a refinement, so a write must change the same and return the same;
`SameRows` compares every read of one entry, `SameLists` every list and its order, in every state.
`StatsAreDerived` compares the counters with `DeriveAlbumStats`, the recount. The cases are those of `conformance_test.go`: each opens a fresh store.

Where the two are known to differ, callers are held to what both accept: variants of a blob that is not there
and items that name a device (foreign keys only SQLite checks), job kinds outside the `CHECK`, capture times
below zero (the fake starts its maximum at zero; `SinceTheEpoch` names it), times of zero (`NULL` in one mapping), and which of two devices
with one token hash is found (a hash has 256 bits). A device carries the `createdAt` of its caller: `Pair` reads its clock
before the insert, so of two calls the later reading may arrive first, as in `conformListDevices`. Its other two times are
inserted as zero, since `Pair`, the only caller, sets neither. `BlobVariant` is `BlobVariantsByHash` of one kind. A method is
one step: `withTx` on one connection there, one mutex here.

A list is written by the ranks of its elements: `Ordered` (`ORDER BY`, `sort.Slice` on keys that differ) puts at place `i` what `i - 1`
others come before, `StableSorted` (`sort.SliceStable`) lets equal ones stay in their order. The sorting operators of the community modules
say the same by a choice among all permutations, or by code of TLC's, which no prover can take apart.

### Sanitize

`SanitizeAlbum` on classes of characters: a composable pair (a letter, its combining mark, and the one
character of both), a device name as one symbol, the forbidden, the white and the trimmed. The stages are the code's, in
its order.
`SanitizeFilename`, which cuts by bytes and keeps an extension, and `safeAbs` are not modelled.

### ClientAuth

`Latch` is `getAndSet`, `Clear` is `tokenStore.clear()`: two steps, with anything in between. Pairing and
revocation come from outside at any time. Left out: unpairing, which clears the store on purpose, and a
restart of the app, whose persistence is not written yet.

## Runs

| Run | Instance | Shows |
|---|---|---|
| `pairing` | 2 calls from one address, 2 issues of the same digits, 3 failures before a lockout, restarts, time to 3 | single use, charges to dead rows only, live codes kept, overshoot of the limit, when failures are forgotten, refinement of `CodeLifecycle` |
| `pairing_locked_out` | | **violated**: an address pairs while locked out |
| `jobs` | 2 workers, 2 jobs of 2 kinds, 2 attempts, 2 crashes, time to 2 | exclusive and not orphaned, attempts, every job ends, refinement of `JobLifecycle` (attempts only grow, what ended stays so) |
| `jobs_crash_loop` | 1 worker, 1 job, 3 crashes | **violated**: a fourth start of a job with three attempts |
| `library` | 2 callers, 3 blobs (2 share a prefix), 2 albums with one name, 4 placements, 1 deletion, 1 failure | bytes of items and canonical files, no fan-out, counters, refinement of `Archive` (nothing seen is overwritten) |
| `library_deleted` | the same without failures | **violated**: an item whose file is another photo |
| `client_auth` | 3 calls, 3 tokens | clears alternate between tokens, a lone token is kept, a rejected one goes |
| `client_auth_rearmed` | 2 calls, 2 tokens | **violated**: a token clears the store twice |
| `auth` | 3 requests, 1 device, a touch interval of 2, time to 3, 1 restart | revocation bites on the next request, rows only progress, touches are throttled, `last_seen_at` lags by less than an interval |
| `startup` | a daemon and a pair command, 3 migrations in 2 releases, 2 days, 1 snapshot kept, 2 crashes | version and schema agree, a snapshot precedes every migration, the newest is kept, one identity, the daemon comes up |
| `conformance` | 2 blobs, 7 items under 4 ids, 2 jobs, 2 devices, 2 codes, each group on a fresh store | `MemStore` implements `StoreTables`, write by write and read by read; indexes and counters agree |
| `sanitize` | every album name of up to 4 symbols, cut to 2 | **violated**: a sanitised name changes when it is sanitised again |

The violated runs are disagreements between the code and what it or the documents say of it; `findings`
in `PROJECT.json` quotes the sentence each refutes. `client_auth_rearmed` has this one: two calls carry token 1; the
first is rejected and clears; token 2 is stored, sent and rejected in its turn, which leaves 2 in the latch; now the
late 401 of token 1 finds a latch that is not its own and clears again, whatever the store holds by then.
`ClearsAlternate` is what remains true, and says how often at most.

Two smaller observations have no run of their own. The sweep of `IssueCode` deletes expired codes, so the 410 that a late
redemption gets becomes a 400 after the next code is issued. And `getAndSet` and `clear` are two steps: a token stored between
them is wiped. `LoneTokenKept` does not speak of it: the rejected call still carries the older token, so the new one was
not stored alone.

**Bounds.** One code and two rows are what a repeated draw, a collision with a stored row and a sweep between lookup and
spending need; the third device or call only repeats what two do to each other. Calls of other codes and addresses meet
these only where a sweep of the map or of the table takes in all of them; the theorems hold for any number of both. Three
failures let a count of two, not yet a lockout, be forgotten or kept.
Time stops at a bound past the TTL and past the lockout plus its silence, so that expiry, sweep and
forgetting all occur. For the library, four placements reach `ErrCollision` (three) and a deletion
followed by another occupant and a retry (four); three hashes are the least with a shared prefix and an
occupant of the base name. Three calls are the uploads of D-17, three tokens the least that re-arm the latch and
leave one to lose. One device serves for `Auth`: rows and throttle entries of two never meet, and a request that
revokes another device differs from one that revokes its own only in whose requests are cut; three requests are
the revoking one, one it overtakes, and one that comes after. Time to 3 is one whole interval and the half that
lets a touch be overtaken. For `StoreStartup`, release 1 then 3 makes one backup precede two migrations, one kept
snapshot over two days makes pruning happen, and the second crash can hit the recovery from the first. The store's
instance has an id taken by two items, a path by two, a month by several and one alone, times that tie, and devices that come
in the order of their times, in the opposite one, or at one time; a group of
methods shares no table with another but `items` with `blobs`, whose methods it includes. Four symbols are a forbidden
character between letter and mark, with something around them. Deadlock is not checked where clocks and budgets end a run on purpose (`CHECK_DEADLOCK
FALSE`); it is checked for `ClientAuth`, `Auth` and `StoreStartup`.

**Fairness.** Safety needs none. `EveryJobEnds` assumes that a worker keeps polling and its handler returns (weakly
fair `ClaimJob`, `Finish`), that a daemon that died is started again (`Startup`, the service manager) and that time passes;
crashes are finitely many. The pool does not exist yet: this is what the queue needs of it.
`RejectedTokenDropped` assumes that a call once sent is answered or times out and that its thread runs
on (`Intercept`); pairing and revocation are not fair. `DaemonServes` assumes that the daemon's code runs on
(`Startup(Daemon)`, `EnsureIdentity`) and that the service manager starts it again; crashes are finitely many, and the pair command owes nothing.

## Proofs

`PairingProofs` (constants: any finite set of calls, any codes, rows, devices, addresses, TTL, lockout, attempt limit; see
`PairingAssumption`):

- `TypeCorrect`. Every step of a call is reduced to *it moves on with a well-formed request* (`ServeMoves`).
- `SingleUseHolds`. `SingleUse` alone is not inductive: it says nothing of calls that have spent a code and
  not yet enrolled. `RedeemInv` adds that enrolled and held rows are spent, that no two calls hold one
  row, and that unissued rows are unused; `UsedMonotone` that only `MarkPairingCodeUsed` spends a row.
- `OvershootIsBounded`. The count alone is not inductive either: `OvershootInv` says that past the limit the address is
  locked out and that every count beyond it was paid for by a call that was in flight, of which there are
  fewer each time.
- `PairingImplementsLifecycle`, from the same invariants: each action is mapped to at most one move of one code.
- `LiveCodeIsKept` and `FailuresAreRemembered`, action properties; the latter needs that a clock read
  earlier is never in the future (`NowIsPast`).
- `OnlyDeadRowsAreCharged`. The property speaks of the past: what a call saw of the row it later charges. `AuditInv` carries
  it from the lookup to the charge: the verdict of a call is about the code it was given (`JudgesItsCode`), what it
  charges was dead when it looked (`SawItDead`), one issue has one stored row (`OneStoredRow`), and a row that was not
  issued was never charged.

`JobsProofs` (any workers, jobs, crashes, limits): `TypeCorrect`; `RunningJobsAreHeld` with the
strengthening that nothing is held while the process is down; `AttemptsAreBounded`, whose invariant
says that a job waiting to run has used fewer than `MaxAttempts` attempts, plus one per crash; `JobsGiveUpLate`;
`JobsOnlyProgress`; `JobsImplementLifecycle`, action by action (`Implements...`): a job in a worker's hands
has that worker as its only holder (`Places`), and a worker that lets go moves its own job and no other (`Releases`).

`LibraryProofs` (any callers, hashes, names, prefixes, deletions and failures): `CanonicalBytesHold`,
`ItemBytesHold`, `NoFanOut`, `RecordedFilesAreKept` and `LibraryImplementsArchive`. Their one hypothesis, `NoLiteralSuffix`, is that no client
asks for a name that is the suffixed form of another one. It is needed: such a name has a placement lock of its own, two calls
may then end at one path, and the second renames its file over what the first has recorded. The code leaves the lock to
a commit that is not written; a commit that locks the requested path has this race, one that locks the
resolved path does not. It forbids nothing but what gives two locks one path. The invariant: the calls in progress end at different paths (`LockInv`, with
`SuffixedOfOne`: one name per suffixed form), so the path a call was given stays free until the call takes
it (`FreeInv`); a canonical path belongs to an item or to the call about to insert it until it is exposed
(`OwnerInv`), so nothing else is written there; hence the bytes on their way (`FileInv`). `SuffixInv` says that a name is
suffixed only where another blob was. For `Archive`, a write of bytes is unseen because no item records its path (`WritesUnseen`), and an
item appears with the file its call has installed.
`AlbumCountersAreAggregate` and `LibraryTypes` do without the hypothesis. The first says that the increments of
`InsertItem` and `DeleteItem` keep to what a recount gives: `StatsInv` has the count as a cardinality, the size as
a sum, the newest capture as a maximum over the items of the album.

`AuthProofs` (any requests, devices, intervals, restarts): `TypeCorrect`, with each step of a request reduced to *it moves
on* (`StepMoves`); `RowsOnlyProgress`, which needs that the store's clock never reads zero (`NULL`);
`RevokedAreNotServed`, from `RevocationInv`: a recorded revocation is in the row, and late requests are of
revoked devices; `TouchesAreThrottled`, from `ThrottleInv`: the mark is the time of the last due touch, and
each touch before it lies an interval further back; `SeenIsRecent`, from `SeenInv`: a request past the throttle is
less than an interval ahead of the mark, and the mark of a device is in its row or on its way there.

`StartupProofs` (any releases, days, crashes): `VersionMatchesSchema`, from `SchemaInv`: no process, however old its
reading, is about to run more than the migration after the recorded one; `IdentityIsStable`, from
`IdentityInv`: before the daemon has served, key, certificate and fingerprint are written in that order, and what was announced is
what is on record from then on.

On backups (and any number of snapshots kept): `SnapshotBeforeMigration` and `NewestIsKept`, from `BackupInv`.
Every file a process finds under a later day than its own was begun after it read the version, so it holds that version or a newer one
(`Progress`); what a process is about to prune lies beside a later snapshot (`Later`), even when its listing is old; hence
a snapshot only ever gives way to one of the same day or a later one (`Outlived`). Both speak of processes that do not touch each other's
temporary file (`mixed`): two backups of the same day may, and the model shows that nothing is promised then.

`StartupTypes` bounds what is generated: no version beyond the newest release, one id, and one key pair for each start that was cut short and one more (`MintInv`).

`ClientAuthProofs` (any finite set of calls, any number of pairings): `LoneTokenIsKept`. Tokens are numbered as they are minted, so the
store holds the newest and no call carries one older than a token that was stored alone (`ClearInv`). `ClearsDoAlternate`:
the clears of a token, done and about to be done, are at most those of all other tokens, and one more if the latch holds
it (`AlternateInv`). `ClientTypes` bounds the clears of a token by the number of calls (`OnceEach`).

`MemStoreProofs` (any blobs, items, jobs, devices, codes, lengths of the clock):

- `MemStoreTypes` and `MapsAgree`: every map has its type and the indexes agree with it, group by group (`BlobInv`, `ItemInv`,
  `JobInv`, `DeviceInv`, `CodeInv`). That an index is right rests on every item lying under its own id.
- `MemStoreCountersAreDerived`: `StatInv` says that a month's entry is the count, sum and maximum over its items, and is
  absent when there are none.
- `RowsReadAlike`: what a read of one entry gives is what SQL gives on the mapped tables; `NULL` and the zero value are
  each other's image because no time, version or hash that is stored is zero.
- `ListsReadAlike`: all five lists, of variants, items, albums, jobs and devices, have the elements and the order of the database. Four
  of them come from the same sort on both sides, of sets that are equal on the mapped tables (`SameVariants`, `SameItemLists`, `SameListing`,
  `SameJobLists`). The fifth does not: `ListDevices` sorts positions in the order the devices came, which need not be that of their times, the table sorts rows,
  and the argument is that a rank is a rank: each position has a device of its own (`CameInOrder`), what is ahead of a position are the positions of
  the older devices (`AheadIsOlder`), so both put the device with `i - 1` older ones at place `i`
  (`DevicePlaces`). The hypothesis is `SinceTheEpoch` again, for the recount of the albums.
- `DevicesOldestFirst`: every inserted device is in `ListDevices` once, and any two in the order of `createdAt`, then id, in
  whatever order they were inserted.
- `MemStoreImplementsTables`: initial states map to initial states, every method to the same method with the same
  answer (`Implements...`, one lemma each), the clock to the clock. Its hypothesis, `SinceTheEpoch`, is that no item was captured before
  1970: for such items the statement is false, and two calls are enough for TLC to show it when an instance offers
  one. The job that `ClaimJob` takes is the first of the SQL order because the order of the fake implies it
  (`SameDue`); `EnqueueJob` gives the id `AUTOINCREMENT` would because the rows are always the first ones (`RowsAreFirst`).

`AggregateLemmas` has what these need of `MapThenSumSet`, `Cardinality` and `Max`: a sum over a finite set
exists and does not depend on the order `CHOOSE` gives, and how it, the count and the maximum change when one
member comes, goes or changes (`Gains`, `Loses`). For an order on a finite set, kept as the function of what comes
before each member, it has that every rank below the cardinality is taken by exactly one member (`RankUnique`, `RankExists`, by the
pigeonhole principle of the library), hence that `Ordered` lists every member once and in order (`Places`). The prover cannot instantiate an induction theorem, so these argue from a
smallest counterexample among the subsets of a finite set.

Assumptions on constants are named in the modules and evaluated by TLC: calls of the client and releases of the server are finitely
many; the clock of the stores starts after zero and does not end before it starts; `None`, which stands for no row, is not a row, an entry, or
an id (`AbsenceAssumption`, `RowAssumption`); `NULL` is no number and no text; the empty text (a constant, `EmptyText`) is no hash.

Every invariant, action property and refinement that a passing run checks is proved. `JobsProgress` and `RecordedFileKept` are proved and checked by no run of
their own: `JobLifecycle` and `Archive` say them and more. Only model-checked are the three liveness properties
(`EveryJobEnds`, `RejectedTokenDropped`, `DaemonServes`), which are beyond the prover, the
disagreements, which are counterexamples, and with them `Sanitize`: its stages are folds and filters over names, and what such a
recursion computes for every name needs an induction the prover cannot do.

## Plan

Done: pairing, job queue, library, authentication, startup, client token and the in-memory store with theorems, the latter with
the refinement of the database's tables; abstract specifications of a code, a job and the archive; album names. In order of importance, what is left:

1. The commit, once it is written: its lock decides whether `NoLiteralSuffix` can go, and whether `Archive` holds for
   every name.
2. The pool, once it is written: what it does when `CompleteJob` itself fails, which leaves a job running until the next start.
3. A composition of `Pairing`, `Auth` and `ClientAuth`: from the code on the screen to the token dropped.
4. `SanitizeFilename`, against its documented length and extension.
5. `ServerLifecycle` and `ClientCalls`, when there are callers that make their order matter.

## Not modelled

- *HTTP server.* `Start` binds, `Serve` blocks until `Shutdown`; the middleware keeps no state between requests, and
  the main function does not compose the parts yet, so that there is no order of start and drain to check.
- *Client address, pinning, update hints.* Each is one volatile value, read or written in one step; the callers
  that would make an order matter are not written.
- *Configuration, core types and errors, build information.* Read once or constant.
- *Client interface and data classes, database, screens, dependency injection.* Declarations without logic of their own, or queries without callers.
- *Contract validator.* A build tool.
- *SQLite itself.* Pragmas, pools and locking are taken at their word: one write transaction at a time, atomic and durable.
