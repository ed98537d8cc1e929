---------------------------- MODULE StoreStartup ----------------------------
(***************************************************************************)
(* What happens between the start of a process and its first request:      *)
(* Migrate with its backup (store/migrate.go, backup.go), then, in the     *)
(* daemon, EnsureServerID (auth/pairing.go) and EnsureTLS (tlscert.go).    *)
(* "homesinkd pair" (cmd_pair.go) migrates in a process of its own, beside *)
(* the daemon.  Any process may die between any two steps; one action is   *)
(* one query, transaction or file operation.                               *)
(*                                                                         *)
(* The main function does not call these yet: the daemon runs them in the  *)
(* order their comments give, is one process per database, and takes a     *)
(* nightly backup while it serves.  A migration is its version; running    *)
(* its SQL a second time fails, as CREATE TABLE does.                      *)
(***************************************************************************)
EXTENDS Integers, FiniteSets, FiniteSetsExt

CONSTANTS
  Daemon, Pairing,   \* the processes
  Binaries,          \* the newest migration each release brings
  KeepBackups,
  LastDay,           \* bound of the clock, in days
  MaxCrashes, MaxPairings  \* bounds

Nobody == "nobody"

ASSUME StartupAssumption ==
  /\ Daemon # Pairing /\ Nobody \notin {Daemon, Pairing}
  /\ Binaries \subseteq Nat \ {0} /\ Binaries # {} /\ IsFiniteSet(Binaries)
  /\ KeepBackups \in Nat \ {0}
  /\ LastDay \in Nat \ {0} /\ MaxCrashes \in Nat /\ MaxPairings \in Nat

Processes == {Daemon, Pairing}
Days == 1..LastDay
Versions == 0..Max(Binaries)
None == 0          \* an absent meta value; no key pair, no id
Ids == 0..(MaxCrashes + 1)

\* A backup file: the schema it holds, whether it is finished, and its writer.
NoFile == [version |-> 0, state |-> "absent", by |-> Nobody]
File == [version : Versions, state : {"absent", "partial", "whole"}, by : Processes \cup {Nobody}]

VARIABLES
  day,
  schema,     \* migrations whose SQL was run
  meta,       \* server_meta; a key pair is a number, its certificate and SPKI have the same
  minted,     \* ids and key pairs generated so far
  snapshots,  \* homesink-<day>.db
  temps,      \* homesink-<day>.db.tmp
  pc, loc,    \* what each process does next, and its locals
  crashes, pairings,
  mixed,      \* a process moved or removed the temporary file of another
  identities  \* server id and key of every daemon that served

vars == <<day, schema, meta, minted, snapshots, temps, pc, loc, crashes, pairings, mixed, identities>>
database == <<schema, meta, minted>>
files == <<snapshots, temps, mixed>>
around == <<day, crashes, pairings>>

Meta == [version : Versions, id : Ids, key : Ids, cert : Ids, spki : Ids]
NoMeta == [version |-> 0, id |-> None, key |-> None, cert |-> None, spki |-> None]

Steps == {"down", "version", "clean", "vacuum", "vacuuming", "rename", "list", "prune", "apply",
          "migrated", "setid", "tls", "setkey", "setcert", "setspki", "serving"}

Local == [binary : Binaries \cup {0}, current : Versions, next : 1..(Max(Binaries) + 1),
          day : 0..LastDay, excess : SUBSET Days, nightly : BOOLEAN, pair : Ids]
NoLocal == [binary |-> 0, current |-> 0, next |-> 1, day |-> 0, excess |-> {},
            nightly |-> FALSE, pair |-> None]

TypeOK ==
  /\ day \in Days
  /\ schema \subseteq Versions
  /\ meta \in Meta
  /\ minted \in [id : Ids, pair : Ids]
  /\ snapshots \in [Days -> File] /\ temps \in [Days -> File]
  /\ pc \in [Processes -> Steps]
  /\ loc \in [Processes -> Local]
  /\ mixed \in BOOLEAN
  /\ identities \subseteq Ids \X Ids

Init ==
  /\ day = 1
  /\ schema = {}
  /\ meta = NoMeta
  /\ minted = [id |-> 0, pair |-> 0]
  /\ snapshots = [d \in Days |-> NoFile]
  /\ temps = [d \in Days |-> NoFile]
  /\ pc = [p \in Processes |-> "down"]
  /\ loc = [p \in Processes |-> NoLocal]
  /\ crashes = 0 /\ pairings = 0
  /\ mixed = FALSE
  /\ identities = {}

-----------------------------------------------------------------------------

Goto(p, step) == pc' = [pc EXCEPT ![p] = step]

\* Without a server or a code to show: the process ends with an error.
Exit(p) ==
  /\ Goto(p, "down")
  /\ loc' = [loc EXCEPT ![p] = NoLocal]

\* A bug: a migration goes on without its backup.
BackupFailsQuietly(p) ==
  /\ Goto(p, IF loc[p].nightly THEN "serving" ELSE "apply")
  /\ loc' = [loc EXCEPT ![p].nightly = FALSE, ![p].day = 0, ![p].excess = {}]

\* Backup returns an error: Migrate aborts, a nightly backup is only logged.
BackupFails(p) ==
  IF loc[p].nightly
  THEN /\ Goto(p, "serving")
       /\ loc' = [loc EXCEPT ![p].nightly = FALSE, ![p].day = 0, ![p].excess = {}]
  ELSE Exit(p)

-----------------------------------------------------------------------------
(* Migrate *)

\* Open, which creates an absent database; releases come and are rolled back (D-35).
Start(p, b) ==
  /\ pc[p] = "down"
  /\ p = Pairing => pairings < MaxPairings
  /\ pairings' = IF p = Pairing THEN pairings + 1 ELSE pairings
  /\ loc' = [loc EXCEPT ![p].binary = b]
  /\ Goto(p, "version")
  /\ UNCHANGED <<day, crashes, database, files, identities>>

\* SchemaVersion, read outside of any transaction.  A fresh database is not backed up.
ReadVersion(p) ==
  /\ pc[p] = "version"
  /\ loc' = [loc EXCEPT ![p].current = meta.version, ![p].next = Min({meta.version, loc[p].binary}) + 1]
  /\ Goto(p, IF meta.version >= loc[p].binary THEN "migrated"
             ELSE IF meta.version > 0 THEN "clean" ELSE "apply")
  /\ UNCHANGED <<around, database, files, identities>>

\* A bug: SQL that may be run again, so that a version is recorded whatever it was.
ApplyAgain(p) ==
  /\ pc[p] = "apply"
  /\ schema' = schema \cup {loc[p].next}
  /\ meta' = [meta EXCEPT !.version = loc[p].next]
  /\ loc' = [loc EXCEPT ![p].next = @ + 1]
  /\ Goto(p, IF loc[p].next = loc[p].binary THEN "migrated" ELSE "apply")
  /\ UNCHANGED <<around, minted, files, identities>>

\* A bug: one migration too many.
ApplyPastEnd(p) ==
  /\ pc[p] = "apply"
  /\ schema' = schema \cup {loc[p].next}
  /\ meta' = [meta EXCEPT !.version = loc[p].next]
  /\ loc' = [loc EXCEPT ![p].next = @ + 1]
  /\ Goto(p, IF loc[p].next > loc[p].binary THEN "migrated" ELSE "apply")
  /\ UNCHANGED <<around, minted, files, identities>>

\* applyOne: the SQL and the version in one transaction.
Apply(p) ==
  /\ pc[p] = "apply"
  /\ \/ /\ loc[p].next \notin schema
        /\ schema' = schema \cup {loc[p].next}
        /\ meta' = [meta EXCEPT !.version = loc[p].next]
        /\ loc' = [loc EXCEPT ![p].next = @ + 1]
        /\ Goto(p, IF loc[p].next = loc[p].binary THEN "migrated" ELSE "apply")
     \/ /\ loc[p].next \in schema
        /\ Exit(p)
        /\ UNCHANGED <<schema, meta>>
  /\ UNCHANGED <<around, minted, files, identities>>

-----------------------------------------------------------------------------
(* Backup and PruneBackups *)

\* Processes that count on their temporary file.
Rivals(p) == {q \in Processes \ {p} : pc[q] \in {"vacuuming", "rename"}}

\* A bug: a stale temporary file is left where it is.
CleanNothing(p) ==
  /\ pc[p] = "clean"
  /\ loc' = [loc EXCEPT ![p].day = day]
  /\ Goto(p, "vacuum")
  /\ UNCHANGED <<around, database, files, identities>>

\* The name of the day, and os.Remove of a stale temporary file.
Clean(p) ==
  /\ pc[p] = "clean"
  /\ loc' = [loc EXCEPT ![p].day = day]
  /\ temps' = [temps EXCEPT ![day] = NoFile]
  /\ mixed' = (mixed \/ temps[day].by \in Rivals(p))
  /\ Goto(p, "vacuum")
  /\ UNCHANGED <<around, database, snapshots, identities>>

\* VACUUM INTO refuses an existing target ...
BeginVacuum(p) ==
  /\ pc[p] = "vacuum"
  /\ \/ /\ temps[loc[p].day] = NoFile
        /\ temps' = [temps EXCEPT ![loc[p].day] = [version |-> meta.version, state |-> "partial", by |-> p]]
        /\ Goto(p, "vacuuming")
        /\ UNCHANGED loc
     \/ /\ temps[loc[p].day] # NoFile
        /\ BackupFails(p)
        /\ UNCHANGED temps
  /\ UNCHANGED <<around, database, snapshots, mixed, identities>>

Finished(dir, p) ==
  [d \in Days |-> IF dir[d].by = p THEN [dir[d] EXCEPT !.state = "whole"] ELSE dir[d]]

\* ... and ends with a whole file, wherever that file has been moved to.
EndVacuum(p) ==
  /\ pc[p] = "vacuuming"
  /\ temps' = Finished(temps, p)
  /\ snapshots' = Finished(snapshots, p)
  /\ Goto(p, "rename")
  /\ UNCHANGED <<around, database, mixed, loc, identities>>

\* A file that is still written to keeps its writer.
Placed(file) == IF file.state = "whole" THEN [file EXCEPT !.by = Nobody] ELSE file

\* os.Rename over the snapshot of that day.
Rename(p) ==
  LET d == loc[p].day IN
  /\ pc[p] = "rename"
  /\ \/ /\ temps[d] # NoFile
        /\ snapshots' = [snapshots EXCEPT ![d] = Placed(temps[d])]
        /\ temps' = [temps EXCEPT ![d] = NoFile]
        /\ mixed' = (mixed \/ temps[d].by # p)
        /\ Goto(p, "list")
        /\ UNCHANGED loc
     \/ /\ temps[d] = NoFile
        /\ BackupFails(p)
        /\ UNCHANGED files
  /\ UNCHANGED <<around, database, identities>>

Kept == {d \in Days : snapshots[d] # NoFile}

\* A bug: sorted the other way round.
ExcessNewest == {d \in Kept : Cardinality({e \in Kept : e < d}) >= KeepBackups}

\* names[keepBackups:], the newest first
Excess == {d \in Kept : Cardinality({e \in Kept : e > d}) >= KeepBackups}

ListBackups(p) ==
  /\ pc[p] = "list"
  /\ loc' = [loc EXCEPT ![p].excess = Excess]
  /\ Goto(p, "prune")
  /\ UNCHANGED <<around, database, files, identities>>

\* os.Remove fails if another process has pruned the file.
Prune(p) ==
  LET d == Max(loc[p].excess) IN
  /\ pc[p] = "prune"
  /\ loc[p].excess # {}
  /\ \/ /\ snapshots[d] # NoFile
        /\ snapshots' = [snapshots EXCEPT ![d] = NoFile]
        /\ loc' = [loc EXCEPT ![p].excess = @ \ {d}]
        /\ UNCHANGED pc
     \/ /\ snapshots[d] = NoFile
        /\ BackupFails(p)
        /\ UNCHANGED snapshots
  /\ UNCHANGED <<around, database, temps, mixed, identities>>

EndBackup(p) ==
  /\ pc[p] = "prune"
  /\ loc[p].excess = {}
  /\ loc' = [loc EXCEPT ![p].day = 0, ![p].nightly = FALSE]
  /\ Goto(p, IF loc[p].nightly THEN "serving" ELSE "apply")
  /\ UNCHANGED <<around, database, files, identities>>

\* A caller to come: the daemon backs up at night.
Nightly ==
  /\ pc[Daemon] = "serving"
  /\ loc' = [loc EXCEPT ![Daemon].nightly = TRUE]
  /\ Goto(Daemon, "clean")
  /\ UNCHANGED <<around, database, files, identities>>

-----------------------------------------------------------------------------
(* EnsureServerID and EnsureTLS *)

\* The pair command issues its code and ends; the daemon looks for its id.
Migrated(p) ==
  /\ pc[p] = "migrated"
  /\ \/ p = Pairing /\ Exit(p)
     \/ /\ p = Daemon
        /\ Goto(p, IF meta.id # None THEN "tls" ELSE "setid")
        /\ UNCHANGED loc
  /\ UNCHANGED <<around, database, files, identities>>

SetServerID ==
  /\ pc[Daemon] = "setid"
  /\ minted' = [minted EXCEPT !.id = @ + 1]
  /\ meta' = [meta EXCEPT !.id = minted'.id]
  /\ Goto(Daemon, "tls")
  /\ UNCHANGED <<around, schema, files, loc, identities>>

Served == identities' = identities \cup {<<meta.id, meta.key>>}

\* materialFromPEM needs a key and a certificate that belong together.
LoadTLS ==
  /\ pc[Daemon] = "tls"
  /\ meta.key # None /\ meta.cert # None
  /\ \/ /\ meta.key = meta.cert
        /\ Goto(Daemon, "serving")
        /\ Served
        /\ UNCHANGED loc
     \/ /\ meta.key # meta.cert
        /\ Exit(Daemon)
        /\ UNCHANGED identities
  /\ UNCHANGED <<around, database, files>>

\* Unless both are there, both are made anew.
GenerateTLS ==
  /\ pc[Daemon] = "tls"
  /\ meta.key = None \/ meta.cert = None
  /\ minted' = [minted EXCEPT !.pair = @ + 1]
  /\ loc' = [loc EXCEPT ![Daemon].pair = minted'.pair]
  /\ Goto(Daemon, "setkey")
  /\ UNCHANGED <<around, schema, meta, files, identities>>

\* A bug: a key that is there is kept.
SetKeyOnce ==
  /\ pc[Daemon] = "setkey"
  /\ meta' = [meta EXCEPT !.key = IF @ = None THEN loc[Daemon].pair ELSE @]
  /\ Goto(Daemon, "setcert")
  /\ UNCHANGED <<around, schema, minted, files, loc, identities>>

SetKey ==
  /\ pc[Daemon] = "setkey"
  /\ meta' = [meta EXCEPT !.key = loc[Daemon].pair]
  /\ Goto(Daemon, "setcert")
  /\ UNCHANGED <<around, schema, minted, files, loc, identities>>

SetCert ==
  /\ pc[Daemon] = "setcert"
  /\ meta' = [meta EXCEPT !.cert = loc[Daemon].pair]
  /\ Goto(Daemon, "setspki")
  /\ UNCHANGED <<around, schema, minted, files, loc, identities>>

SetSpki ==
  /\ pc[Daemon] = "setspki"
  /\ meta' = [meta EXCEPT !.spki = loc[Daemon].pair]
  /\ Goto(Daemon, "serving")
  /\ Served
  /\ UNCHANGED <<around, schema, minted, files, loc>>

-----------------------------------------------------------------------------

\* A file that its writer left.
Orphaned(dir, p) == [d \in Days |-> IF dir[d].by = p THEN [dir[d] EXCEPT !.by = Nobody] ELSE dir[d]]

Crash(p) ==
  /\ pc[p] # "down"
  /\ crashes < MaxCrashes
  /\ crashes' = crashes + 1
  /\ temps' = Orphaned(temps, p)
  /\ snapshots' = Orphaned(snapshots, p)
  /\ Exit(p)
  /\ UNCHANGED <<day, pairings, database, mixed, identities>>

NextDay ==
  /\ day < LastDay
  /\ day' = day + 1
  /\ UNCHANGED <<crashes, pairings, database, files, pc, loc, identities>>

Startup(p) ==
  \/ ReadVersion(p) \/ Apply(p)
  \/ Clean(p) \/ BeginVacuum(p) \/ EndVacuum(p) \/ Rename(p)
  \/ ListBackups(p) \/ Prune(p) \/ EndBackup(p)
  \/ Migrated(p)

EnsureIdentity == SetServerID \/ LoadTLS \/ GenerateTLS \/ SetKey \/ SetCert \/ SetSpki

Next ==
  \/ \E p \in Processes : Startup(p) \/ Crash(p) \/ \E b \in Binaries : Start(p, b)
  \/ EnsureIdentity
  \/ Nightly
  \/ NextDay

Spec == Init /\ [][Next]_vars

\* The daemon runs on, and its supervisor starts it again.
Fairness ==
  /\ WF_vars(Startup(Daemon))
  /\ WF_vars(EnsureIdentity)
  /\ WF_vars(\E b \in Binaries : Start(Daemon, b))
FairSpec == Spec /\ Fairness

-----------------------------------------------------------------------------
(* Properties *)

\* The recorded version tells which migrations were run, exactly: none twice, none half, the
\* version never lowered (migrate.go:22-28), although it is read before the transaction.
VersionIsSchema == schema = 1..meta.version

HasSnapshot(v) == \E d \in Days : snapshots[d].state = "whole" /\ snapshots[d].version >= v

\* "An existing database is backed up before the first migration is applied"
\* (migrate.go:30): a whole snapshot of what is about to be changed exists, unless two
\* processes got into each other's temporary file.
BackedUpFirst ==
  \A p \in Processes :
    (pc[p] = "apply" /\ loc[p].current > 0 /\ ~mixed) => HasSnapshot(loc[p].current)

Newest == Max({0} \cup {d \in Days : snapshots[d].state = "whole"})

\* Backups and their pruning, interrupted anywhere, never lose the newest whole snapshot
\* but to a newer one or to one of the same day.
NewestSnapshotKept == [][mixed' \/ Newest' >= Newest]_vars

\* "Stable for the life of the database" (pairing.go:310, tlscert.go:83-84): every daemon that
\* ever served had the id and the key of the first, and the key and certificate on record fit.
OneIdentity ==
  /\ Cardinality(identities) <= 1
  /\ meta.key # None /\ meta.cert # None => meta.key = meta.cert
  /\ meta.spki # None => meta.spki = meta.key

\* Whatever crashes, releases and the pair command leave behind, the daemon comes up again.
DaemonServes == []<>(pc[Daemon] = "serving")
=============================================================================
