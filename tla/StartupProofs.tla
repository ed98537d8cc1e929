---------------------------- MODULE StartupProofs ----------------------------
(***************************************************************************)
(* What holds of the start of the server for any set of releases, any      *)
(* number of days, crashes and runs of the pair command.                   *)
(***************************************************************************)
EXTENDS StoreStartup, AggregateLemmas

-----------------------------------------------------------------------------
(* Locals *)

\* The sets below are wider than those of TypeOK: the bounds play no part.
AnyLocal == [binary : Nat, current : Nat, next : Nat, day : Nat, excess : SUBSET Days,
             nightly : BOOLEAN, pair : Nat]
AnyMeta == [version : Nat, id : Nat, key : Nat, cert : Nat, spki : Nat]

Shaped ==
  /\ day \in Nat /\ meta \in AnyMeta /\ minted \in [id : Nat, pair : Nat]
  /\ pc \in [Processes -> Steps] /\ loc \in [Processes -> AnyLocal]

\* Which fields an update of the locals changes.
LEMMA LocalUpdates ==
  ASSUME NEW l \in AnyLocal, NEW n \in Nat, NEW m \in Nat, NEW e \in SUBSET Days
  PROVE  /\ NoLocal \in AnyLocal /\ NoLocal.next = 1
         /\ LET k == [l EXCEPT !.nightly = FALSE, !.day = 0, !.excess = {}]
            IN  k \in AnyLocal /\ k.next = l.next
         /\ LET k == [l EXCEPT !.binary = n] IN k \in AnyLocal /\ k.next = l.next
         /\ LET k == [l EXCEPT !.current = n, !.next = m] IN k \in AnyLocal /\ k.next = m
         /\ LET k == [l EXCEPT !.next = n] IN k \in AnyLocal /\ k.next = n
         /\ LET k == [l EXCEPT !.day = n] IN k \in AnyLocal /\ k.next = l.next
         /\ LET k == [l EXCEPT !.excess = e] IN k \in AnyLocal /\ k.next = l.next
         /\ LET k == [l EXCEPT !.day = 0, !.nightly = FALSE] IN k \in AnyLocal /\ k.next = l.next
         /\ LET k == [l EXCEPT !.nightly = TRUE] IN k \in AnyLocal /\ k.next = l.next
         /\ LET k == [l EXCEPT !.pair = n] IN k \in AnyLocal /\ k.next = l.next /\ k.pair = n
<1>1. NoLocal \in AnyLocal /\ NoLocal.next = 1
  BY DEF NoLocal, AnyLocal, None
<1>2. LET k == [l EXCEPT !.nightly = FALSE, !.day = 0, !.excess = {}]
      IN  k \in AnyLocal /\ k.next = l.next
  BY DEF AnyLocal
<1>3. LET k == [l EXCEPT !.binary = n] IN k \in AnyLocal /\ k.next = l.next
  BY DEF AnyLocal
<1>4. LET k == [l EXCEPT !.current = n, !.next = m] IN k \in AnyLocal /\ k.next = m
  BY DEF AnyLocal
<1>5. LET k == [l EXCEPT !.next = n] IN k \in AnyLocal /\ k.next = n
  BY DEF AnyLocal
<1>6. LET k == [l EXCEPT !.day = n] IN k \in AnyLocal /\ k.next = l.next
  BY DEF AnyLocal
<1>7. LET k == [l EXCEPT !.excess = e] IN k \in AnyLocal /\ k.next = l.next
  BY DEF AnyLocal
<1>8. LET k == [l EXCEPT !.day = 0, !.nightly = FALSE] IN k \in AnyLocal /\ k.next = l.next
  BY DEF AnyLocal
<1>9. LET k == [l EXCEPT !.nightly = TRUE] IN k \in AnyLocal /\ k.next = l.next
  BY DEF AnyLocal
<1>10. LET k == [l EXCEPT !.pair = n] IN k \in AnyLocal /\ k.next = l.next /\ k.pair = n
  BY DEF AnyLocal
<1>11. QED
  BY <1>1, <1>2, <1>3, <1>4, <1>5, <1>6, <1>7, <1>8, <1>9, <1>10

-----------------------------------------------------------------------------
(* The steps of a process *)

Ensuring == {"setid", "tls", "setkey", "setcert", "setspki"}

\* A step of p that leaves the identity alone: it takes p to another step and to locals l,
\* whose next migration is the old one, the first, or one the new version allows.
Moves(p, step, l) ==
  /\ pc' = [pc EXCEPT ![p] = step] /\ loc' = [loc EXCEPT ![p] = l]
  /\ l.next \in {loc[p].next, 1} \/ l.next \in 1..(meta'.version + 1)
  /\ step = "setid" => meta.id = None
  /\ step = "tls" => meta.id # None
  /\ step \notin {"setkey", "setcert", "setspki"}

Held ==
  /\ meta'.id = meta.id /\ meta'.key = meta.key /\ meta'.cert = meta.cert /\ meta'.spki = meta.spki
  /\ UNCHANGED <<minted, identities>>

LEMMA Exits ==
  ASSUME Shaped, NEW p \in Processes, Exit(p)
  PROVE  \E step \in Steps, l \in AnyLocal : Moves(p, step, l)
<1>1. loc[p] \in AnyLocal
  BY DEF Shaped
<1>2. NoLocal \in AnyLocal /\ NoLocal.next = 1
  BY <1>1, LocalUpdates, 0 \in Nat, {} \in SUBSET Days
<1>3. Moves(p, "down", NoLocal)
  BY <1>2 DEF Exit, Goto, Moves
<1>4. QED
  BY <1>2, <1>3 DEF Steps

\* A step that keeps the next migration.
LEMMA KeepsNext ==
  ASSUME Shaped, NEW p \in Processes, NEW step \in Steps \ Ensuring, NEW l \in AnyLocal,
         l.next = loc[p].next, pc' = [pc EXCEPT ![p] = step], loc' = [loc EXCEPT ![p] = l]
  PROVE  \E s \in Steps, k \in AnyLocal : Moves(p, s, k)
<1>1. Moves(p, step, l)
  BY DEF Moves, Ensuring
<1>2. QED
  BY <1>1

LEMMA BackupFailsMoves ==
  ASSUME Shaped, NEW p \in Processes, BackupFails(p)
  PROVE  \E step \in Steps, l \in AnyLocal : Moves(p, step, l)
<1>1. CASE loc[p].nightly
  <2> DEFINE l == [loc[p] EXCEPT !.nightly = FALSE, !.day = 0, !.excess = {}]
  <2>1. l \in AnyLocal /\ l.next = loc[p].next
    BY LocalUpdates, 0 \in Nat, {} \in SUBSET Days DEF Shaped
  <2>2. pc' = [pc EXCEPT ![p] = "serving"] /\ loc' = [loc EXCEPT ![p] = l]
    BY <1>1 DEF BackupFails, Goto
  <2> HIDE DEF l
  <2>3. QED
    BY <2>1, <2>2, KeepsNext DEF Steps, Ensuring
<1>2. CASE ~loc[p].nightly
  BY <1>2, Exits DEF BackupFails
<1>3. QED
  BY <1>1, <1>2

LEMMA MinBelow ==
  ASSUME NEW a \in Nat, NEW b \in Nat
  PROVE  Min({a, b}) \in Nat /\ Min({a, b}) <= a
BY DEF Min

\* Every step of Startup but Apply, and a start, a crash and the nightly backup, move on
\* and leave version, schema and identity alone.
Still(p) ==
  \/ ReadVersion(p) \/ Clean(p) \/ BeginVacuum(p) \/ EndVacuum(p) \/ Rename(p)
  \/ ListBackups(p) \/ Prune(p) \/ EndBackup(p) \/ Migrated(p)
  \/ Crash(p) \/ (Nightly /\ p = Daemon) \/ \E b \in Binaries : Start(p, b)

LEMMA StillMoves ==
  ASSUME Shaped, NEW p \in Processes, Still(p)
  PROVE  /\ UNCHANGED <<schema, meta>> /\ Held /\ day' = day
         /\ \E step \in Steps, l \in AnyLocal : Moves(p, step, l)
<1> USE DEF around, database, files, Goto
<1>0. /\ loc[p] \in AnyLocal /\ meta \in AnyMeta /\ day \in Nat
      /\ loc[p].binary \in Nat /\ loc[p].excess \in SUBSET Days /\ Binaries \subseteq Nat
  BY StartupAssumption DEF Shaped, AnyLocal
<1>1. UNCHANGED <<schema, meta, minted, identities, day>>
  BY DEF Still, ReadVersion, Clean, BeginVacuum, EndVacuum, Rename, ListBackups, Prune, EndBackup,
     Migrated, Crash, Nightly, Start
<1>2. UNCHANGED <<schema, meta>> /\ Held /\ day' = day
  BY <1>1 DEF Held
<1> SUFFICES \E step \in Steps, l \in AnyLocal : Moves(p, step, l)
  BY <1>2
<1>3. ASSUME NEW step \in Steps \ Ensuring, NEW l \in AnyLocal, l.next = loc[p].next,
             pc' = [pc EXCEPT ![p] = step], loc' = [loc EXCEPT ![p] = l]
      PROVE  \E s \in Steps, k \in AnyLocal : Moves(p, s, k)
  BY <1>3, KeepsNext
<1>4. loc = [loc EXCEPT ![p] = loc[p]]
  BY DEF Shaped
<1>5. CASE ReadVersion(p)
  <2> DEFINE n == Min({meta.version, loc[p].binary}) + 1
             l == [loc[p] EXCEPT !.current = meta.version, !.next = n]
             step == IF meta.version >= loc[p].binary THEN "migrated"
                     ELSE IF meta.version > 0 THEN "clean" ELSE "apply"
  <2>1. meta.version \in Nat /\ n \in Nat /\ n \in 1..(meta.version + 1)
    <3>1. meta.version \in Nat
      BY <1>0 DEF AnyMeta
    <3>2. QED
      BY <1>0, <3>1, MinBelow
  <2>2. l \in AnyLocal /\ l.next = n
    <3> HIDE DEF n
    <3>1. loc[p] \in AnyLocal /\ meta.version \in Nat /\ n \in Nat
      BY <1>0, <2>1
    <3>2. PICK k \in AnyLocal, a \in Nat, b \in Nat : k = loc[p] /\ a = meta.version /\ b = n
      BY <3>1
    <3>3. l = [k EXCEPT !.current = a, !.next = b]
      BY <3>2
    <3>4. /\ [k EXCEPT !.current = a, !.next = b] \in AnyLocal
          /\ [k EXCEPT !.current = a, !.next = b].next = b
      BY DEF AnyLocal
    <3> HIDE DEF l
    <3>5. QED
      BY <3>2, <3>3, <3>4
  <2>3. pc' = [pc EXCEPT ![p] = step] /\ loc' = [loc EXCEPT ![p] = l] /\ meta' = meta
    BY <1>1, <1>5 DEF ReadVersion
  <2>4. step \in Steps \ Ensuring
    BY DEF Steps, Ensuring
  <2> HIDE DEF n, l, step
  <2>5. Moves(p, step, l)
    BY <2>1, <2>2, <2>3, <2>4 DEF Moves, Ensuring
  <2>6. QED
    BY <2>2, <2>4, <2>5
<1>6. CASE Clean(p)
  <2> DEFINE l == [loc[p] EXCEPT !.day = day]
  <2>1. l \in AnyLocal /\ l.next = loc[p].next
    BY <1>0, LocalUpdates, {} \in SUBSET Days
  <2>2. pc' = [pc EXCEPT ![p] = "vacuum"] /\ loc' = [loc EXCEPT ![p] = l]
    BY <1>6 DEF Clean
  <2> HIDE DEF l
  <2>3. QED
    BY <1>3, <2>1, <2>2 DEF Steps, Ensuring
<1>7. CASE EndVacuum(p)
  BY <1>0, <1>3, <1>4, <1>7 DEF EndVacuum, Steps, Ensuring
<1>8. CASE BeginVacuum(p) \/ Rename(p)
  <2>1. CASE BackupFails(p)
    BY <2>1, BackupFailsMoves
  <2>2. CASE ~BackupFails(p)
    <3>1. loc' = loc /\ \E step \in {"vacuuming", "list"} : pc' = [pc EXCEPT ![p] = step]
      BY <1>8, <2>2 DEF BeginVacuum, Rename
    <3>2. QED
      BY <1>0, <1>3, <1>4, <3>1 DEF Steps, Ensuring
  <2>3. QED
    BY <2>1, <2>2
<1>9. CASE ListBackups(p)
  <2> DEFINE l == [loc[p] EXCEPT !.excess = Excess]
  <2>1. l \in AnyLocal /\ l.next = loc[p].next
    <3>1. Excess \in SUBSET Days
      BY DEF Excess, Kept
    <3>2. QED
      BY <1>0, <3>1, LocalUpdates, 0 \in Nat
  <2>2. pc' = [pc EXCEPT ![p] = "prune"] /\ loc' = [loc EXCEPT ![p] = l]
    BY <1>9 DEF ListBackups
  <2> HIDE DEF l
  <2>3. QED
    BY <1>3, <2>1, <2>2 DEF Steps, Ensuring
<1>10. CASE Prune(p)
  <2>1. CASE BackupFails(p)
    BY <2>1, BackupFailsMoves
  <2>2. CASE ~BackupFails(p)
    <3> DEFINE rest == loc[p].excess \ {Max(loc[p].excess)}
               l == [loc[p] EXCEPT !.excess = rest]
    <3>1. l \in AnyLocal /\ l.next = loc[p].next
      BY <1>0, LocalUpdates, 0 \in Nat
    <3>2. /\ pc' = [pc EXCEPT ![p] = "prune"] /\ loc' = [loc EXCEPT ![p] = l]
      BY <1>10, <2>2 DEF Prune, Shaped
    <3> HIDE DEF l
    <3>3. QED
      BY <1>3, <3>1, <3>2 DEF Steps, Ensuring
  <2>3. QED
    BY <2>1, <2>2
<1>11. CASE EndBackup(p)
  <2> DEFINE l == [loc[p] EXCEPT !.day = 0, !.nightly = FALSE]
             step == IF loc[p].nightly THEN "serving" ELSE "apply"
  <2>1. l \in AnyLocal /\ l.next = loc[p].next
    BY <1>0, LocalUpdates, {} \in SUBSET Days
  <2>2. /\ pc' = [pc EXCEPT ![p] = step] /\ loc' = [loc EXCEPT ![p] = l]
        /\ step \in Steps \ Ensuring
    BY <1>11 DEF EndBackup, Steps, Ensuring
  <2> HIDE DEF l, step
  <2>3. QED
    BY <1>3, <2>1, <2>2
<1>12. CASE Nightly /\ p = Daemon
  <2> DEFINE l == [loc[p] EXCEPT !.nightly = TRUE]
  <2>1. l \in AnyLocal /\ l.next = loc[p].next
    BY <1>0, LocalUpdates, {} \in SUBSET Days
  <2>2. pc' = [pc EXCEPT ![p] = "clean"] /\ loc' = [loc EXCEPT ![p] = l]
    BY <1>12 DEF Nightly
  <2> HIDE DEF l
  <2>3. QED
    BY <1>3, <2>1, <2>2 DEF Steps, Ensuring
<1>13. CASE Migrated(p)
  <2>1. CASE p = Pairing
    BY <1>13, <2>1, Exits, StartupAssumption DEF Migrated
  <2>2. CASE p # Pairing
    <3> DEFINE step == IF meta.id # None THEN "tls" ELSE "setid"
    <3>1. loc' = loc /\ pc' = [pc EXCEPT ![p] = step] /\ step \in Steps
      BY <1>13, <2>2 DEF Migrated, Steps
    <3>2. step = "setid" => meta.id = None
      OBVIOUS
    <3>3. step = "tls" => meta.id # None
      OBVIOUS
    <3>4. step \notin {"setkey", "setcert", "setspki"}
      OBVIOUS
    <3> HIDE DEF step
    <3>5. Moves(p, step, loc[p])
      BY <1>4, <3>1, <3>2, <3>3, <3>4 DEF Moves
    <3>6. QED
      BY <1>0, <3>1, <3>5
  <2>3. QED
    BY <2>1, <2>2
<1>14. CASE Crash(p)
  BY <1>14, Exits DEF Crash
<1>15. ASSUME NEW b \in Binaries, Start(p, b)
       PROVE  \E step \in Steps, l \in AnyLocal : Moves(p, step, l)
  <2> DEFINE l == [loc[p] EXCEPT !.binary = b]
  <2>1. l \in AnyLocal /\ l.next = loc[p].next
    BY <1>0, LocalUpdates, {} \in SUBSET Days
  <2>2. pc' = [pc EXCEPT ![p] = "version"] /\ loc' = [loc EXCEPT ![p] = l]
    BY <1>15 DEF Start
  <2> HIDE DEF l
  <2>3. QED
    BY <1>3, <2>1, <2>2 DEF Steps, Ensuring
<1>16. QED
  BY <1>5, <1>6, <1>7, <1>8, <1>9, <1>10, <1>11, <1>12, <1>13, <1>14, <1>15 DEF Still

-----------------------------------------------------------------------------
(* The schema *)

\* No process is ahead of the database by more than one migration, however stale the
\* version it has read.
SchemaInv ==
  /\ Shaped
  /\ VersionIsSchema
  /\ \A p \in Processes : loc[p].next \in 1..(meta.version + 1)

LEMMA SchemaInit == Init => SchemaInv
<1> SUFFICES ASSUME Init PROVE SchemaInv
  OBVIOUS
<1>1. NoLocal \in AnyLocal /\ NoLocal.next = 1
  BY DEF NoLocal, AnyLocal, None
<1>2. meta \in AnyMeta /\ meta.version = 0 /\ minted \in [id : Nat, pair : Nat]
  BY DEF Init, NoMeta, AnyMeta, None
<1>3. Shaped
  BY <1>1, <1>2 DEF Init, Shaped, Steps
<1>4. QED
  BY <1>1, <1>2, <1>3 DEF Init, SchemaInv, VersionIsSchema

\* A step that leaves version and schema alone.
LEMMA SchemaMoves ==
  ASSUME SchemaInv, NEW p \in Processes, NEW step \in Steps, NEW l \in AnyLocal,
         Moves(p, step, l), UNCHANGED <<schema, meta, minted, day>>
  PROVE  SchemaInv'
<1>1. Shaped'
  BY DEF SchemaInv, Shaped, Moves
<1>2. ASSUME NEW q \in Processes PROVE loc'[q].next \in 1..(meta'.version + 1)
  <2>1. meta.version \in Nat /\ meta' = meta
    BY DEF SchemaInv, Shaped, AnyMeta
  <2>2. loc'[q] = IF q = p THEN l ELSE loc[q]
    BY DEF SchemaInv, Shaped, Moves
  <2>3. loc[p].next \in 1..(meta.version + 1) /\ loc[q].next \in 1..(meta.version + 1)
    BY DEF SchemaInv
  <2>4. l.next \in 1..(meta.version + 1)
    BY <2>1, <2>3 DEF Moves
  <2>5. QED
    BY <2>1, <2>2, <2>3, <2>4
<1>3. QED
  BY <1>1, <1>2 DEF SchemaInv, VersionIsSchema

\* A migration whose SQL was not run yet is the one after the version on record.
LEMMA SchemaApply ==
  ASSUME SchemaInv, NEW p \in Processes, Apply(p)
  PROVE  SchemaInv' /\ Held /\ \E step \in Steps, l \in AnyLocal : Moves(p, step, l)
<1> USE DEF around, files, Goto
<1>0. /\ Shaped /\ meta \in AnyMeta /\ meta.version \in Nat /\ loc[p] \in AnyLocal
      /\ schema = 1..meta.version /\ loc[p].next \in 1..(meta.version + 1)
  BY DEF SchemaInv, Shaped, AnyMeta, VersionIsSchema
<1>1. CASE loc[p].next \in schema
  <2>1. Exit(p) /\ UNCHANGED <<schema, meta, minted, day, identities>>
    BY <1>1 DEF Apply
  <2>2. PICK step \in Steps, l \in AnyLocal : Moves(p, step, l)
    BY <1>0, <2>1, Exits
  <2>3. QED
    BY <2>1, <2>2, SchemaMoves DEF Held
<1>2. CASE loc[p].next \notin schema
  <2> DEFINE n == meta.version + 1
             l == [loc[p] EXCEPT !.next = n + 1]
             step == IF n = loc[p].binary THEN "migrated" ELSE "apply"
  <2>1. loc[p].next = n
    BY <1>0, <1>2
  <2>2. /\ schema' = schema \cup {n} /\ meta' = [meta EXCEPT !.version = n]
        /\ loc' = [loc EXCEPT ![p] = l] /\ pc' = [pc EXCEPT ![p] = step]
        /\ UNCHANGED <<minted, day, identities>>
    BY <1>2, <2>1 DEF Apply, SchemaInv, Shaped
  <2>3. l \in AnyLocal /\ l.next = n + 1
    <3>1. n + 1 \in Nat
      BY <1>0
    <3> HIDE DEF n
    <3>2. QED
      BY <1>0, <3>1, LocalUpdates, {} \in SUBSET Days
  <2>4. step \in Steps \ Ensuring
    BY DEF Steps, Ensuring
  <2>5. meta' \in AnyMeta /\ meta'.version = n
    BY <1>0, <2>2 DEF AnyMeta
  <2>6. Held
    BY <1>0, <2>2 DEF AnyMeta, Held
  <2> HIDE DEF l, step
  <2>7. Moves(p, step, l)
    BY <1>0, <2>2, <2>3, <2>4, <2>5 DEF Moves, Ensuring
  <2>8. Shaped'
    BY <1>0, <2>2, <2>3, <2>4, <2>5 DEF Shaped
  <2>9. schema' = 1..meta'.version
    BY <1>0, <2>2, <2>5
  <2>10. ASSUME NEW q \in Processes PROVE loc'[q].next \in 1..(meta'.version + 1)
    <3>1. loc'[q] = IF q = p THEN l ELSE loc[q]
      BY <1>0, <2>2 DEF Shaped
    <3>2. loc[q].next \in 1..(meta.version + 1)
      BY DEF SchemaInv
    <3>3. QED
      BY <1>0, <2>3, <2>5, <3>1, <3>2
  <2>11. QED
    BY <2>4, <2>3, <2>6, <2>7, <2>8, <2>9, <2>10 DEF SchemaInv, VersionIsSchema
<1>3. QED
  BY <1>1, <1>2

\* What EnsureServerID and EnsureTLS leave of process, schema and version.
LEMMA EnsureMoves ==
  ASSUME Shaped, EnsureIdentity
  PROVE  /\ Shaped' /\ schema' = schema /\ meta'.version = meta.version
         /\ \A p \in Processes : loc'[p].next \in {loc[p].next, 1}
<1> USE DEF Goto, around, files
<1>0. Daemon \in Processes /\ loc[Daemon] \in AnyLocal /\ meta \in AnyMeta /\ minted \in [id : Nat, pair : Nat]
      /\ loc[Daemon].pair \in Nat /\ minted.id \in Nat /\ minted.pair \in Nat
  BY DEF Shaped, Processes, AnyLocal
<1>1. CASE SetServerID
  <2>1. minted'.id \in Nat /\ minted' \in [id : Nat, pair : Nat]
    BY <1>0, <1>1 DEF SetServerID
  <2>2. QED
    BY <1>0, <1>1, <2>1 DEF SetServerID, Shaped, AnyMeta, Steps
<1>2. CASE LoadTLS
  <2>1. CASE Exit(Daemon)
    <3>1. NoLocal \in AnyLocal /\ NoLocal.next = 1
      BY DEF NoLocal, AnyLocal, None
    <3>2. QED
      BY <1>2, <2>1, <3>1 DEF LoadTLS, Exit, Shaped, Steps, database
  <2>2. CASE ~Exit(Daemon)
    BY <1>2, <2>2 DEF LoadTLS, Shaped, Steps, database
  <2>3. QED
    BY <2>1, <2>2
<1>3. CASE GenerateTLS
  <2> DEFINE l == [loc[Daemon] EXCEPT !.pair = minted'.pair]
  <2>1. minted'.pair \in Nat /\ minted' \in [id : Nat, pair : Nat]
    BY <1>0, <1>3 DEF GenerateTLS
  <2>2. l \in AnyLocal /\ l.next = loc[Daemon].next
    BY <1>0, <2>1, LocalUpdates, {} \in SUBSET Days
  <2>3. /\ loc' = [loc EXCEPT ![Daemon] = l] /\ pc' = [pc EXCEPT ![Daemon] = "setkey"]
        /\ UNCHANGED <<schema, meta, day>>
    BY <1>3 DEF GenerateTLS
  <2> HIDE DEF l
  <2>4. QED
    BY <1>0, <2>1, <2>2, <2>3 DEF Shaped, Steps
<1>4. CASE SetKey
  BY <1>0, <1>4 DEF SetKey, Shaped, AnyMeta, Steps
<1>5. CASE SetCert
  BY <1>0, <1>5 DEF SetCert, Shaped, AnyMeta, Steps
<1>6. CASE SetSpki
  BY <1>0, <1>6 DEF SetSpki, Shaped, AnyMeta, Steps
<1>7. QED
  BY <1>1, <1>2, <1>3, <1>4, <1>5, <1>6 DEF EnsureIdentity

\* The cases of Next.
LEMMA Cases ==
  ASSUME [Next]_vars
  PROVE  \/ \E p \in Processes : Still(p) \/ Apply(p)
         \/ EnsureIdentity \/ NextDay \/ UNCHANGED vars
BY DEF Next, Startup, Still, Processes

LEMMA DayPasses ==
  ASSUME Shaped, NextDay \/ UNCHANGED vars
  PROVE  Shaped' /\ UNCHANGED <<schema, meta, minted, pc, loc, identities>>
BY DEF Shaped, NextDay, vars, database, files

LEMMA SchemaStep == SchemaInv /\ [Next]_vars => SchemaInv'
<1> SUFFICES ASSUME SchemaInv, [Next]_vars PROVE SchemaInv'
  OBVIOUS
<1>0. Shaped
  BY DEF SchemaInv
<1>1. ASSUME NEW p \in Processes, Still(p) PROVE SchemaInv'
  <2>1. UNCHANGED <<schema, meta, minted, day>>
    BY <1>0, <1>1, StillMoves DEF Held
  <2>2. PICK step \in Steps, l \in AnyLocal : Moves(p, step, l)
    BY <1>0, <1>1, StillMoves
  <2>3. QED
    BY <2>1, <2>2, SchemaMoves
<1>2. ASSUME NEW p \in Processes, Apply(p) PROVE SchemaInv'
  BY <1>2, SchemaApply
<1>3. CASE EnsureIdentity
  <2>1. /\ Shaped' /\ schema' = schema /\ meta'.version = meta.version
        /\ \A p \in Processes : loc'[p].next \in {loc[p].next, 1}
    BY <1>0, <1>3, EnsureMoves
  <2>2. meta.version \in Nat
    BY <1>0 DEF Shaped, AnyMeta
  <2>3. \A p \in Processes : loc'[p].next \in 1..(meta'.version + 1)
    BY <2>1, <2>2 DEF SchemaInv
  <2>4. QED
    BY <2>1, <2>3 DEF SchemaInv, VersionIsSchema
<1>4. CASE NextDay \/ UNCHANGED vars
  BY <1>0, <1>4, DayPasses DEF SchemaInv, VersionIsSchema
<1>5. QED
  BY <1>1, <1>2, <1>3, <1>4, Cases

LEMMA SchemaInvariant == Spec => []SchemaInv
BY SchemaInit, SchemaStep, PTL DEF Spec

\* The recorded version is exactly what was migrated, for any releases, starts side by side
\* and crashes.
THEOREM VersionMatchesSchema == Spec => []VersionIsSchema
<1>1. SchemaInv => VersionIsSchema
  BY DEF SchemaInv
<1>2. QED
  BY <1>1, SchemaInvariant, PTL

-----------------------------------------------------------------------------
(* The identity *)

\* The certificate is written after its key, the fingerprint after both, and none of them
\* again once there is a certificate; an id is set only where there was none.
Provisioning ==
  LET step == pc[Daemon]  pair == loc[Daemon].pair IN
  /\ step = "setid" => meta.id = None
  /\ step \in Ensuring \ {"setid"} => meta.id # None
  /\ meta.cert # None => meta.key = meta.cert
  /\ meta.spki # None => meta.spki = meta.cert
  /\ step \in {"setkey", "setcert"} => meta.cert = None /\ pair # None
  /\ step = "setcert" => meta.key = pair
  /\ step = "setspki" => meta.cert = pair /\ pair # None

\* Whoever served, served what is still on record.
Announced ==
  /\ identities \subseteq {<<meta.id, meta.key>>}
  /\ identities # {} => meta.id # None /\ meta.cert # None

IdentityInv == Shaped /\ Provisioning /\ Announced

LEMMA IdentityInit == Init => IdentityInv
<1>1. Init => Shaped
  BY SchemaInit DEF SchemaInv
<1>2. QED
  BY <1>1 DEF Init, IdentityInv, Provisioning, Announced, NoMeta, None, Ensuring, Processes

\* A step that leaves the identity alone.
LEMMA IdentityHeld ==
  ASSUME IdentityInv, Shaped', Held, NEW p \in Processes, NEW step \in Steps, NEW l \in AnyLocal,
         Moves(p, step, l)
  PROVE  IdentityInv'
<1>1. Announced'
  BY DEF IdentityInv, Announced, Held
<1>2. CASE p = Daemon
  <2>1. pc'[Daemon] = step
    BY <1>2 DEF Moves, IdentityInv, Shaped
  <2>2. Provisioning'
    BY <2>1 DEF Moves, Held, IdentityInv, Provisioning, Ensuring
  <2>3. QED
    BY <1>1, <2>2 DEF IdentityInv
<1>3. CASE p # Daemon
  <2>1. pc'[Daemon] = pc[Daemon] /\ loc'[Daemon] = loc[Daemon]
    BY <1>3 DEF Moves, IdentityInv, Shaped, Processes
  <2>2. Provisioning'
    BY <2>1 DEF Held, IdentityInv, Provisioning
  <2>3. QED
    BY <1>1, <2>2 DEF IdentityInv
<1>4. QED
  BY <1>2, <1>3

LEMMA IdentityEnsured == IdentityInv /\ EnsureIdentity => IdentityInv'
<1> SUFFICES ASSUME IdentityInv, EnsureIdentity PROVE IdentityInv'
  OBVIOUS
<1> USE DEF Goto, around, database, files, None
<1>0. /\ Shaped /\ Shaped' /\ Provisioning /\ Announced /\ meta \in AnyMeta
      /\ Daemon \in Processes /\ loc[Daemon] \in AnyLocal
      /\ minted \in [id : Nat, pair : Nat]
  BY EnsureMoves DEF IdentityInv, Shaped, Processes
<1>1. CASE SetServerID
  <2>1. minted'.id # 0
    BY <1>0, <1>1 DEF SetServerID
  <2>2. /\ pc'[Daemon] = "tls" /\ meta'.id = minted'.id /\ meta'.key = meta.key
        /\ meta'.cert = meta.cert /\ meta'.spki = meta.spki
        /\ UNCHANGED <<loc, identities>>
    BY <1>0, <1>1 DEF SetServerID, Shaped, AnyMeta
  <2>3. identities = {}
    BY <1>0, <1>1 DEF SetServerID, Provisioning, Announced
  <2>4. QED
    BY <1>0, <2>1, <2>2, <2>3 DEF IdentityInv, Provisioning, Announced, Ensuring
<1>2. CASE LoadTLS
  <2>1. pc'[Daemon] \in {"serving", "down"} /\ meta' = meta
    BY <1>0, <1>2 DEF LoadTLS, Exit, Shaped
  <2>2. Provisioning'
    BY <1>0, <2>1 DEF Provisioning, Ensuring
  <2>3. identities' \in {identities, identities \cup {<<meta.id, meta.key>>}}
    BY <1>2 DEF LoadTLS, Served
  <2>4. meta.id # None /\ meta.cert # None
    BY <1>0, <1>2 DEF LoadTLS, Provisioning, Ensuring
  <2>5. QED
    BY <1>0, <2>1, <2>2, <2>3, <2>4 DEF IdentityInv, Announced
<1>3. CASE GenerateTLS
  <2> DEFINE l == [loc[Daemon] EXCEPT !.pair = minted'.pair]
  <2>1. minted'.pair \in Nat /\ minted'.pair # 0
    BY <1>0, <1>3 DEF GenerateTLS
  <2>2. l.pair = minted'.pair
    BY <1>0, <2>1, LocalUpdates, {} \in SUBSET Days
  <2>3. /\ loc' = [loc EXCEPT ![Daemon] = l] /\ pc' = [pc EXCEPT ![Daemon] = "setkey"]
        /\ UNCHANGED <<meta, identities>>
    BY <1>3 DEF GenerateTLS
  <2>4. meta.cert = None
    BY <1>0, <1>3 DEF GenerateTLS, Provisioning
  <2>5. meta.id # None
    BY <1>0, <1>3 DEF GenerateTLS, Provisioning, Ensuring
  <2> HIDE DEF l
  <2>6. pc'[Daemon] = "setkey" /\ loc'[Daemon] = l
    BY <1>0, <2>3 DEF Shaped
  <2>7. QED
    BY <1>0, <2>1, <2>2, <2>3, <2>4, <2>5, <2>6 DEF IdentityInv, Provisioning, Announced
<1>4. CASE SetKey
  <2>1. /\ pc'[Daemon] = "setcert" /\ meta'.key = loc[Daemon].pair /\ meta'.id = meta.id
        /\ meta'.cert = meta.cert /\ meta'.spki = meta.spki
        /\ UNCHANGED <<loc, identities>>
    BY <1>0, <1>4 DEF SetKey, Shaped, AnyMeta
  <2>2. meta.cert = None /\ meta.id # None /\ loc[Daemon].pair # None /\ identities = {}
    BY <1>0, <1>4 DEF SetKey, Provisioning, Announced, Ensuring
  <2>3. QED
    BY <1>0, <2>1, <2>2 DEF IdentityInv, Provisioning, Announced, Ensuring
<1>5. CASE SetCert
  <2>1. /\ pc'[Daemon] = "setspki" /\ meta'.cert = loc[Daemon].pair /\ meta'.id = meta.id
        /\ meta'.key = meta.key /\ meta'.spki = meta.spki
        /\ UNCHANGED <<loc, identities>>
    BY <1>0, <1>5 DEF SetCert, Shaped, AnyMeta
  <2>2. /\ meta.cert = None /\ meta.id # None /\ meta.spki = None
        /\ loc[Daemon].pair # None /\ meta.key = loc[Daemon].pair /\ identities = {}
    BY <1>0, <1>5 DEF SetCert, Provisioning, Announced, Ensuring
  <2>3. QED
    BY <1>0, <2>1, <2>2 DEF IdentityInv, Provisioning, Announced, Ensuring
<1>6. CASE SetSpki
  <2>1. /\ pc'[Daemon] = "serving" /\ meta'.spki = loc[Daemon].pair /\ meta'.id = meta.id
        /\ meta'.key = meta.key /\ meta'.cert = meta.cert
        /\ loc' = loc /\ identities' = identities \cup {<<meta.id, meta.key>>}
    BY <1>0, <1>6 DEF SetSpki, Served, Shaped, AnyMeta
  <2>2. meta.cert # None /\ meta.id # None /\ meta.cert = loc[Daemon].pair
    BY <1>0, <1>6 DEF SetSpki, Provisioning, Ensuring
  <2>3. QED
    BY <1>0, <2>1, <2>2 DEF IdentityInv, Provisioning, Announced, Ensuring
<1>7. QED
  BY <1>1, <1>2, <1>3, <1>4, <1>5, <1>6 DEF EnsureIdentity

LEMMA IdentityStep == SchemaInv /\ IdentityInv /\ [Next]_vars => IdentityInv'
<1> SUFFICES ASSUME SchemaInv, IdentityInv, [Next]_vars PROVE IdentityInv'
  OBVIOUS
<1>0. Shaped /\ Shaped'
  BY SchemaStep DEF SchemaInv
<1>1. ASSUME NEW p \in Processes, Still(p) PROVE IdentityInv'
  <2>1. Held
    BY <1>0, <1>1, StillMoves
  <2>2. PICK step \in Steps, l \in AnyLocal : Moves(p, step, l)
    BY <1>0, <1>1, StillMoves
  <2>3. QED
    BY <1>0, <2>1, <2>2, IdentityHeld
<1>2. ASSUME NEW p \in Processes, Apply(p) PROVE IdentityInv'
  <2>1. Held
    BY <1>2, SchemaApply
  <2>2. PICK step \in Steps, l \in AnyLocal : Moves(p, step, l)
    BY <1>2, SchemaApply
  <2>3. QED
    BY <1>0, <2>1, <2>2, IdentityHeld
<1>3. CASE EnsureIdentity
  BY <1>3, IdentityEnsured
<1>4. CASE NextDay \/ UNCHANGED vars
  BY <1>0, <1>4, DayPasses DEF IdentityInv, Provisioning, Announced
<1>5. QED
  BY <1>1, <1>2, <1>3, <1>4, Cases

\* Every daemon that ever served had the same id and key, and what is on record fits
\* together, wherever a start was interrupted and however often.
THEOREM IdentityIsStable == Spec => []OneIdentity
<1>1. IdentityInv => OneIdentity
  <2> SUFFICES ASSUME IdentityInv PROVE OneIdentity
    OBVIOUS
  <2> DEFINE one == {<<meta.id, meta.key>>}
  <2>1. IsFiniteSet(one) /\ Cardinality(one) = 1
    BY FS_Singleton
  <2>2. Cardinality(identities) <= Cardinality(one)
    BY <2>1, FS_Subset DEF IdentityInv, Announced
  <2>3. Cardinality(identities) <= 1
    BY <2>1, <2>2
  <2>4. QED
    BY <2>3 DEF OneIdentity, IdentityInv, Provisioning
<1>2. QED
  BY <1>1, IdentityInit, IdentityStep, SchemaInvariant, PTL DEF Spec

-----------------------------------------------------------------------------
(* The backups, as long as no process touches the temporary file of        *)
(* another.                                                                *)

LEMMA NewestOfDays ==
  ASSUME NEW n \in Nat, NEW S \in SUBSET (0..n), S # {}
  PROVE  Max(S) \in S /\ \A x \in S : x <= Max(S)
<1>1. IsFiniteSet(0..n) /\ 0..n \subseteq Int
  BY FS_Interval
<1>2. IsFiniteSet(S) /\ S \subseteq Int
  BY <1>1, FS_Subset
<1>3. QED
  BY <1>2, MaxIsMax

\* A snapshot is superfluous only beside a later one.
LEMMA ExcessHasLater ==
  ASSUME NEW d \in Excess
  PROVE  d \in Days /\ \E e \in Days : e > d /\ snapshots[e] # NoFile
<1> DEFINE later == {e \in Kept : e > d}
<1>1. Cardinality(later) >= KeepBackups /\ d \in Days
  BY DEF Excess, Kept
<1>2. later # {}
  BY <1>1, FS_EmptySet, StartupAssumption
<1>3. QED
  BY <1>1, <1>2 DEF Kept

-----------------------------------------------------------------------------
(* Files *)

AnyFile == [version : Nat, state : {"absent", "partial", "whole"}, by : Processes \cup {Nobody}]

\* NoFile is the only absent file.
Proper(file) == file \in AnyFile /\ (file.state = "absent" => file = NoFile)

\* No file has a day to come; a snapshot is whole.
FilesInv ==
  /\ day \in Days /\ mixed \in BOOLEAN
  /\ snapshots \in [Days -> AnyFile] /\ temps \in [Days -> AnyFile]
  /\ \A d \in Days : Proper(snapshots[d]) /\ Proper(temps[d])
  /\ \A d \in Days : d > day => snapshots[d] = NoFile /\ temps[d] = NoFile
  /\ ~mixed => \A d \in Days : snapshots[d] # NoFile => snapshots[d].state = "whole"

\* Every file of day d holds the schema of version v, or a newer one.
Good(v, d) ==
  /\ snapshots[d] # NoFile => snapshots[d].version >= v
  /\ temps[d] # NoFile => temps[d].version >= v

\* A file comes from a database of the present version, or from the file it replaces.
Descends ==
  \A d \in Days :
    /\ temps'[d] # NoFile =>
         \/ temps'[d].version = meta.version
         \/ temps[d] # NoFile /\ temps'[d].version = temps[d].version
    /\ snapshots'[d] # NoFile =>
         \/ snapshots[d] # NoFile /\ snapshots'[d].version = snapshots[d].version
         \/ temps[d] # NoFile /\ snapshots'[d].version = temps[d].version

\* A snapshot disappears beside a later one only.
Outlived ==
  \A d \in Days : snapshots[d] # NoFile => \E e \in Days : e >= d /\ snapshots'[e] # NoFile

Working == {"vacuuming", "rename"}

\* The files of the others are left alone, or the step counts as mixed.
Undisturbed(p) ==
  ~mixed' => \A q \in Processes \ {p}, d \in Days :
               pc[q] \in Working /\ loc[q].day = d /\ temps[d].by = q => temps'[d] = temps[d]

\* What a step of p does to the files.
FileStep(p) ==
  /\ FilesInv'
  /\ mixed => mixed'
  /\ Descends /\ Outlived /\ Undisturbed(p)

LEMMA GoodKept ==
  ASSUME NEW p \in Processes, FileStep(p), NEW v \in Nat, v <= meta.version, meta.version \in Nat,
         NEW d \in Days, Good(v, d)
  PROVE  Good(v, d)'
BY DEF FileStep, Descends, Good

\* A step that touches no file.
LEMMA NoFileStep ==
  ASSUME FilesInv, NEW p \in Processes, UNCHANGED files, day' \in Days, day' >= day
  PROVE  FileStep(p)
<1>1. \A d \in Days : d \in Int
  BY DEF Days
<1>2. FilesInv'
  BY <1>1 DEF FilesInv, files
<1>3. Descends /\ Outlived /\ Undisturbed(p)
  BY <1>1 DEF files, Descends, Outlived, Undisturbed
<1>4. QED
  BY <1>2, <1>3 DEF FileStep, files

-----------------------------------------------------------------------------
(* What each file operation does *)

LEMMA NoFileIsProper == Proper(NoFile) /\ NoFile.by = Nobody /\ NoFile.state = "absent"
BY DEF Proper, AnyFile, NoFile

LEMMA CleanFiles ==
  ASSUME FilesInv, NEW p \in Processes, Clean(p)
  PROVE  FileStep(p)
<1>1. /\ temps' = [temps EXCEPT ![day] = NoFile] /\ UNCHANGED <<day, snapshots>>
      /\ mixed => mixed'
      /\ temps[day].by \in Rivals(p) => mixed'
      /\ mixed' \in BOOLEAN
  BY DEF Clean, around, FilesInv
<1>2. \A d \in Days : temps'[d] = IF d = day THEN NoFile ELSE temps[d]
  BY <1>1 DEF FilesInv
<1>3. FilesInv'
  BY <1>1, <1>2, NoFileIsProper DEF FilesInv, Proper
<1>4. Descends
  BY <1>1, <1>2 DEF Descends
<1>5. Outlived
  BY <1>1 DEF Outlived, Days
<1>6. Undisturbed(p)
  BY <1>1, <1>2 DEF Undisturbed, Rivals, Working
<1>7. QED
  BY <1>1, <1>3, <1>4, <1>5, <1>6 DEF FileStep

LEMMA BeginFiles ==
  ASSUME FilesInv, meta.version \in Nat, NEW p \in Processes, BeginVacuum(p),
         loc[p].day \in Days, loc[p].day <= day
  PROVE  FileStep(p)
<1> DEFINE d == loc[p].day
           new == [version |-> meta.version, state |-> "partial", by |-> p]
<1>1. new \in AnyFile /\ Proper(new) /\ new # NoFile /\ new.version = meta.version
  BY DEF AnyFile, Proper, NoFile
<1>2. UNCHANGED <<day, snapshots, mixed>>
  BY DEF BeginVacuum, around
<1>3. CASE temps[d] # NoFile
  <2>1. UNCHANGED temps
    BY <1>3 DEF BeginVacuum
  <2>2. QED
    BY <1>2, <2>1, NoFileStep DEF FilesInv, files, Days
<1>4. CASE temps[d] = NoFile
  <2>1. temps' = [temps EXCEPT ![d] = new]
    BY <1>4 DEF BeginVacuum
  <2>2. \A e \in Days : temps'[e] = IF e = d THEN new ELSE temps[e]
    BY <2>1 DEF FilesInv
  <2> HIDE DEF new
  <2>3. d \in Int /\ day \in Int
    BY DEF FilesInv, Days
  <2>4. FilesInv'
    BY <1>1, <1>2, <2>1, <2>2, <2>3 DEF FilesInv, Proper
  <2>5. Descends
    BY <1>1, <1>2, <2>2 DEF Descends
  <2>6. Outlived
    BY <1>2 DEF Outlived, Days
  <2>7. Undisturbed(p)
    <3>1. \A q \in Processes : q # NoFile.by
      BY StartupAssumption, NoFileIsProper DEF Processes
    <3>2. QED
      BY <1>4, <2>2, <3>1 DEF Undisturbed
  <2>8. QED
    BY <1>2, <2>4, <2>5, <2>6, <2>7 DEF FileStep
<1>5. QED
  BY <1>3, <1>4

\* The end of a vacuum and a crash mark the files of p, and change nothing else in them.
LEMMA MarkFiles ==
  ASSUME FilesInv, NEW p \in Processes, EndVacuum(p) \/ Crash(p)
  PROVE  /\ FileStep(p)
         /\ \A d \in Days : temps'[d].version = temps[d].version
         /\ \A d \in Days : EndVacuum(p) /\ temps[d].by = p =>
              temps'[d].state = "whole" /\ temps'[d].by = p
<1>1. \A d \in Days, dir \in {snapshots, temps} :
        /\ dir[d] \in AnyFile /\ Proper(dir[d])
        /\ dir[d].by = p => dir[d] # NoFile /\ dir[d].state # "absent"
  BY StartupAssumption, NoFileIsProper DEF FilesInv, Processes, Proper
<1>2. UNCHANGED <<day, mixed>>
  BY DEF EndVacuum, Crash, around
<1>3. ASSUME NEW file \in AnyFile, file.state # "absent"
      PROVE  /\ LET new == [file EXCEPT !.state = "whole"]
                 IN  Proper(new) /\ new.state = "whole" /\ new.version = file.version /\ new.by = file.by
             /\ LET new == [file EXCEPT !.by = Nobody]
                 IN  Proper(new) /\ new.state = file.state /\ new.version = file.version
  BY <1>3 DEF AnyFile, Proper
<1>4. ASSUME NEW dir \in {snapshots, temps}, NEW new, new = Finished(dir, p) \/ new = Orphaned(dir, p)
      PROVE  /\ new \in [Days -> AnyFile]
             /\ \A d \in Days : dir[d].by # p => new[d] = dir[d]
             /\ \A d \in Days : dir[d].by = p =>
                  /\ Proper(new[d]) /\ new[d].state \in {dir[d].state, "whole"}
                  /\ new[d].version = dir[d].version
             /\ \A d \in Days : new = Finished(dir, p) /\ dir[d].by = p =>
                  new[d].state = "whole" /\ new[d].by = p
  <2>1. \A d \in Days : dir[d].by # p => new[d] = dir[d]
    BY <1>4 DEF Finished, Orphaned
  <2>2. ASSUME NEW d \in Days, dir[d].by = p
        PROVE  /\ Proper(new[d]) /\ new[d].state \in {dir[d].state, "whole"}
               /\ new[d].version = dir[d].version
               /\ new = Finished(dir, p) => new[d].state = "whole" /\ new[d].by = p
    <3>1. dir[d] \in AnyFile /\ dir[d].state # "absent"
      BY <1>1, <2>2
    <3>2. CASE new = Finished(dir, p)
      <4>1. new[d] = [dir[d] EXCEPT !.state = "whole"]
        BY <2>2, <3>2 DEF Finished
      <4>2. QED
        BY <1>3, <2>2, <3>1, <4>1
    <3>3. CASE new # Finished(dir, p)
      <4>1. new[d] = [dir[d] EXCEPT !.by = Nobody]
        BY <1>4, <2>2, <3>3 DEF Orphaned
      <4>2. QED
        BY <1>3, <3>1, <3>3, <4>1
    <3>4. QED
      BY <3>2, <3>3
  <2>3. new \in [Days -> AnyFile]
    <3>1. \A d \in Days : new[d] \in AnyFile
      BY <1>1, <2>1, <2>2 DEF Proper
    <3>2. new = [d \in Days |-> new[d]]
      BY <1>4 DEF Finished, Orphaned
    <3>3. QED
      BY <3>1, <3>2
  <2>4. QED
    BY <2>1, <2>2, <2>3
<1>5. /\ temps' = Finished(temps, p) \/ temps' = Orphaned(temps, p)
      /\ snapshots' = Finished(snapshots, p) \/ snapshots' = Orphaned(snapshots, p)
      /\ EndVacuum(p) => temps' = Finished(temps, p)
  BY DEF EndVacuum, Crash
<1>6. /\ temps' \in [Days -> AnyFile] /\ snapshots' \in [Days -> AnyFile]
      /\ \A d \in Days :
           /\ temps[d].by # p => temps'[d] = temps[d]
           /\ temps[d].by = p => Proper(temps'[d]) /\ temps'[d].version = temps[d].version
           /\ temps[d].by = p /\ EndVacuum(p) => temps'[d].state = "whole" /\ temps'[d].by = p
           /\ snapshots[d].by # p => snapshots'[d] = snapshots[d]
           /\ snapshots[d].by = p =>
                /\ Proper(snapshots'[d]) /\ snapshots'[d].version = snapshots[d].version
                /\ snapshots'[d].state \in {snapshots[d].state, "whole"}
  BY <1>4, <1>5
<1>7. FilesInv'
  BY <1>1, <1>2, <1>6 DEF FilesInv
<1>8. Descends
  BY <1>1, <1>6 DEF Descends
<1>9. Outlived
  BY <1>1, <1>6, NoFileIsProper DEF Outlived, Days
<1>10. Undisturbed(p)
  BY <1>6 DEF Undisturbed
<1>11. QED
  BY <1>2, <1>6, <1>7, <1>8, <1>9, <1>10 DEF FileStep

LEMMA RenameFiles ==
  ASSUME FilesInv, NEW p \in Processes, Rename(p), loc[p].day \in Days, loc[p].day <= day,
         ~mixed /\ temps[loc[p].day].by = p => temps[loc[p].day].state = "whole"
  PROVE  /\ FileStep(p)
         /\ temps[loc[p].day] # NoFile =>
              /\ snapshots'[loc[p].day] # NoFile
              /\ snapshots'[loc[p].day].version = temps[loc[p].day].version
              /\ ~mixed' => temps[loc[p].day].by = p
<1> DEFINE d == loc[p].day
           new == Placed(temps[d])
<1>1. day' = day /\ d \in Int /\ day \in Int
  BY DEF Rename, around, FilesInv, Days
<1>2. CASE temps[d] = NoFile
  <2>1. UNCHANGED files
    BY <1>2 DEF Rename, files
  <2>2. QED
    BY <1>1, <1>2, <2>1, NoFileStep DEF FilesInv
<1>3. CASE temps[d] # NoFile
  <2>1. /\ snapshots' = [snapshots EXCEPT ![d] = new]
        /\ temps' = [temps EXCEPT ![d] = NoFile]
        /\ mixed' \in BOOLEAN
        /\ mixed => mixed'
        /\ temps[d].by # p => mixed'
    BY <1>3 DEF Rename, FilesInv
  <2>2. /\ snapshots'[d] = new /\ temps'[d] = NoFile
        /\ \A e \in Days \ {d} : snapshots'[e] = snapshots[e] /\ temps'[e] = temps[e]
    <3> HIDE DEF new, d
    <3>1. d \in Days /\ DOMAIN snapshots = Days /\ DOMAIN temps = Days
      BY DEF FilesInv, d
    <3>2. QED
      BY <2>1, <3>1
  <2>3. /\ new \in AnyFile /\ Proper(new) /\ new # NoFile
        /\ new.version = temps[d].version /\ new.state = temps[d].state
    <3>1. temps[d] \in AnyFile /\ temps[d].state # "absent"
      BY <1>3 DEF FilesInv, Proper
    <3>2. CASE temps[d].state = "whole"
      <4>1. new = [temps[d] EXCEPT !.by = Nobody]
        BY <3>2 DEF Placed
      <4>2. /\ new \in AnyFile /\ new.version = temps[d].version /\ new.state = temps[d].state
        BY <3>1, <4>1 DEF AnyFile
      <4>3. QED
        BY <3>1, <4>2, NoFileIsProper DEF Proper
    <3>3. CASE temps[d].state # "whole"
      BY <1>3, <3>1, <3>3 DEF Placed, FilesInv
    <3>4. QED
      BY <3>2, <3>3
  <2> HIDE DEF new
  <2>4. ~mixed' => new.state = "whole"
    BY <2>1, <2>3
  <2>5. FilesInv'
    <3>1. snapshots' \in [Days -> AnyFile] /\ temps' \in [Days -> AnyFile]
      BY <2>1, <2>3, NoFileIsProper DEF FilesInv, Proper
    <3>2. \A e \in Days : Proper(snapshots'[e]) /\ Proper(temps'[e])
      BY <2>2, <2>3, NoFileIsProper DEF FilesInv
    <3>3. \A e \in Days : e > day => snapshots'[e] = NoFile /\ temps'[e] = NoFile
      BY <1>1, <2>2 DEF FilesInv
    <3>4. ~mixed' => \A e \in Days : snapshots'[e] # NoFile => snapshots'[e].state = "whole"
      BY <2>1, <2>2, <2>4 DEF FilesInv
    <3>5. QED
      BY <1>1, <2>1, <3>1, <3>2, <3>3, <3>4 DEF FilesInv
  <2>6. Descends
    BY <1>3, <2>2, <2>3 DEF Descends
  <2>7. Outlived
    BY <2>2, <2>3 DEF Outlived, Days
  <2>8. Undisturbed(p)
    BY <2>1, <2>2 DEF Undisturbed
  <2>9. QED
    BY <2>1, <2>2, <2>3, <2>5, <2>6, <2>7, <2>8 DEF FileStep
<1>4. QED
  BY <1>2, <1>3

Later(d) == \E e \in Days : e > d /\ snapshots[e] # NoFile

LEMMA PruneFiles ==
  ASSUME FilesInv, NEW p \in Processes, Prune(p), loc[p].excess \in SUBSET Days,
         \A d \in loc[p].excess : Later(d)
  PROVE  FileStep(p)
<1> DEFINE d == Max(loc[p].excess)
<1>1. day' = day /\ day \in Int /\ UNCHANGED <<temps, mixed>>
  BY DEF Prune, around, FilesInv, Days
<1>2. d \in loc[p].excess /\ d \in Days
  <2>1. LastDay \in Nat /\ loc[p].excess \in SUBSET (0..LastDay) /\ loc[p].excess # {}
    BY StartupAssumption DEF Prune, Days
  <2>2. QED
    BY <2>1, NewestOfDays
<1> HIDE DEF d
<1>3. CASE snapshots' = snapshots
  <2>1. UNCHANGED files
    BY <1>1, <1>3 DEF files
  <2>2. day' \in Days /\ day' >= day
    BY <1>1 DEF FilesInv
  <2>3. QED
    BY <2>1, <2>2, NoFileStep
<1>4. CASE snapshots' # snapshots
  <2>1. snapshots' = [snapshots EXCEPT ![d] = NoFile]
    BY <1>4 DEF Prune, d
  <2>2. \A e \in Days : snapshots'[e] = IF e = d THEN NoFile ELSE snapshots[e]
    BY <2>1 DEF FilesInv
  <2>3. FilesInv'
    BY <1>1, <2>1, <2>2, NoFileIsProper DEF FilesInv, Proper
  <2>4. Descends
    BY <1>1, <2>2 DEF Descends
  <2>5. Outlived
    BY <1>2, <2>2 DEF Outlived, Later, Days
  <2>6. Undisturbed(p)
    BY <1>1 DEF Undisturbed
  <2>7. QED
    BY <1>1, <2>3, <2>4, <2>5, <2>6 DEF FileStep
<1>5. QED
  BY <1>3, <1>4

-----------------------------------------------------------------------------
(* What a process may rely on *)

\* A snapshot of version v or newer, that only such snapshots outlive or replace.
Has(v) ==
  \E d \in Days : snapshots[d] # NoFile /\ \A e \in Days : e >= d => Good(v, e)

LEMMA LaterKept ==
  ASSUME NEW p \in Processes, FileStep(p), NEW d \in Days, Later(d)
  PROVE  Later(d)'
<1>1. PICK e \in Days : e > d /\ snapshots[e] # NoFile
  BY DEF Later
<1>2. PICK f \in Days : f >= e /\ snapshots'[f] # NoFile
  BY <1>1 DEF FileStep, Outlived
<1>3. f > d
  BY <1>1, <1>2 DEF Days
<1>4. QED
  BY <1>2, <1>3 DEF Later

LEMMA HasKept ==
  ASSUME NEW p \in Processes, FileStep(p), NEW v \in Nat, v <= meta.version, meta.version \in Nat, Has(v)
  PROVE  Has(v)'
<1>1. PICK d \in Days : snapshots[d] # NoFile /\ \A e \in Days : e >= d => Good(v, e)
  BY DEF Has
<1>2. PICK f \in Days : f >= d /\ snapshots'[f] # NoFile
  BY <1>1 DEF FileStep, Outlived
<1>3. ASSUME NEW e \in Days, e >= f PROVE Good(v, e)'
  <2>1. Good(v, e)
    BY <1>1, <1>2, <1>3 DEF Days
  <2>2. QED
    BY <2>1, GoodKept
<1>4. QED
  BY <1>2, <1>3 DEF Has

Relying == {"list", "prune", "apply"}

\* The temporary file that p writes, or has written, of the schema it read or a newer one.
Mine(p) ==
  LET file == temps[loc[p].day] IN
  /\ file.by = p /\ file # NoFile
  /\ file.version >= loc[p].current
  /\ pc[p] = "rename" => file.state = "whole"

\* Files with a later name than that of p were begun after p read the version.
Progress(p) ==
  /\ loc[p].current <= meta.version /\ loc[p].day <= day
  /\ \A d \in loc[p].excess : Later(d)
  /\ pc[p] \in Working \cup {"vacuum"} =>
       loc[p].day \in Days /\ \A d \in Days : d > loc[p].day => Good(loc[p].current, d)
  /\ ~mixed /\ pc[p] \in Working => Mine(p)
  /\ ~mixed /\ pc[p] \in Relying /\ loc[p].current > 0 => Has(loc[p].current)

BackupInv == FilesInv /\ \A p \in Processes : Progress(p)

\* A step of p that keeps the facts another process, or p itself elsewhere, relies on.
LEMMA OthersProgress ==
  ASSUME Shaped, FilesInv, NEW p \in Processes, FileStep(p), NEW q \in Processes \ {p}, Progress(q),
         pc'[q] = pc[q], loc'[q] = loc[q], meta.version \in Nat, meta'.version \in Nat,
         meta'.version >= meta.version, day' >= day
  PROVE  Progress(q)'
<1>1. loc[q].current \in Nat /\ loc[q].day \in Nat /\ loc[q].excess \in SUBSET Days
  BY DEF Shaped, AnyLocal
<1>2. PICK v \in Nat, d \in Nat, E \in SUBSET Days :
        v = loc[q].current /\ d = loc[q].day /\ E = loc[q].excess
  BY <1>1
<1>3. loc'[q].current = v /\ loc'[q].day = d /\ loc'[q].excess = E
  BY <1>2
<1>4. v <= meta.version /\ day \in Int /\ day' \in Int /\ d <= day
  BY <1>2 DEF Progress, FileStep, FilesInv, Days
<1>5. v <= meta'.version /\ d <= day'
  BY <1>4
<1>6. \A e \in E : Later(e)'
  BY <1>2, LaterKept DEF Progress
<1>7. ASSUME pc'[q] \in Working \cup {"vacuum"}
      PROVE  d \in Days /\ \A e \in Days : e > d => Good(v, e)'
  <2>1. d \in Days /\ \A e \in Days : e > d => Good(v, e)
    BY <1>2, <1>7 DEF Progress
  <2>2. QED
    BY <1>4, <2>1, GoodKept
<1>8. ASSUME ~mixed', pc'[q] \in Working PROVE Mine(q)'
  <2>1. ~mixed /\ Mine(q) /\ d \in Days
    BY <1>2, <1>8 DEF Progress, FileStep
  <2>2. temps'[d] = temps[d]
    BY <1>2, <1>8, <2>1 DEF Mine, FileStep, Undisturbed
  <2>3. QED
    BY <1>2, <1>3, <2>1, <2>2 DEF Mine
<1>9. ASSUME ~mixed', pc'[q] \in Relying, v > 0 PROVE Has(v)'
  <2>1. Has(v)
    BY <1>2, <1>9 DEF Progress, FileStep
  <2>2. QED
    BY <1>4, <2>1, HasKept
<1>10. QED
  BY <1>3, <1>5, <1>6, <1>7, <1>8, <1>9 DEF Progress

\* Steps of p that end a backup, prune, or are no part of one.
Quiet(p) ==
  /\ loc'[p].current \in {loc[p].current, 0} /\ loc'[p].day \in {loc[p].day, 0}
  /\ loc'[p].excess \subseteq loc[p].excess
  /\ pc'[p] \notin Working \cup {"vacuum"}
  /\ pc'[p] \in Relying => pc[p] \in Relying

LEMMA QuietProgress ==
  ASSUME Shaped, FilesInv, NEW p \in Processes, FileStep(p), Progress(p),
         meta.version \in Nat, meta'.version \in Nat, meta'.version >= meta.version, day' >= day,
         Quiet(p)
  PROVE  Progress(p)'
<1>1. loc[p].current \in Nat /\ loc[p].day \in Nat /\ loc[p].excess \in SUBSET Days
  BY DEF Shaped, AnyLocal
<1>2. PICK v \in Nat, E \in SUBSET Days :
        v = loc'[p].current /\ E = loc'[p].excess
  BY <1>1 DEF Quiet
<1>3. v <= meta.version /\ day \in Int /\ day' \in Int /\ loc[p].day <= day /\ 0 <= day
  BY <1>1, <1>2 DEF Progress, FileStep, FilesInv, Days, Quiet
<1>4. v <= meta'.version /\ loc'[p].day <= day'
  BY <1>1, <1>3 DEF Quiet
<1>5. \A e \in E : Later(e)'
  BY <1>2, LaterKept DEF Progress, Quiet
<1>6. ASSUME ~mixed', pc'[p] \in Relying, v > 0 PROVE Has(v)'
  <2>1. v = loc[p].current
    BY <1>2, <1>6 DEF Quiet
  <2>2. Has(v)
    BY <1>6, <2>1 DEF Progress, FileStep, Quiet
  <2>3. QED
    BY <1>3, <2>2, HasKept
<1>7. QED
  BY <1>2, <1>4, <1>5, <1>6 DEF Progress, Quiet

-----------------------------------------------------------------------------
(* The steps *)

LEMMA LocalFields ==
  ASSUME NEW l \in AnyLocal, NEW n \in Nat, NEW m \in Nat, NEW e \in SUBSET Days
  PROVE  /\ NoLocal.current = 0 /\ NoLocal.day = 0 /\ NoLocal.excess = {}
         /\ LET k == [l EXCEPT !.nightly = FALSE, !.day = 0, !.excess = {}]
            IN  k.current = l.current /\ k.day = 0 /\ k.excess = {}
         /\ LET k == [l EXCEPT !.binary = n]
            IN  k.current = l.current /\ k.day = l.day /\ k.excess = l.excess
         /\ LET k == [l EXCEPT !.current = n, !.next = m]
            IN  k.current = n /\ k.day = l.day /\ k.excess = l.excess
         /\ LET k == [l EXCEPT !.next = n]
            IN  k.current = l.current /\ k.day = l.day /\ k.excess = l.excess
         /\ LET k == [l EXCEPT !.day = n]
            IN  k.current = l.current /\ k.day = n /\ k.excess = l.excess
         /\ LET k == [l EXCEPT !.excess = e]
            IN  k.current = l.current /\ k.day = l.day /\ k.excess = e
         /\ LET k == [l EXCEPT !.day = 0, !.nightly = FALSE]
            IN  k.current = l.current /\ k.day = 0 /\ k.excess = l.excess
         /\ LET k == [l EXCEPT !.nightly = TRUE]
            IN  k.current = l.current /\ k.day = l.day /\ k.excess = l.excess
         /\ LET k == [l EXCEPT !.pair = n]
            IN  k.current = l.current /\ k.day = l.day /\ k.excess = l.excess
BY DEF NoLocal, None, AnyLocal

LEMMA ExitQuiet ==
  ASSUME Shaped, NEW p \in Processes, Exit(p)
  PROVE  Quiet(p)
<1>1. pc'[p] = "down" /\ loc'[p] = NoLocal
  BY DEF Exit, Goto, Shaped
<1>2. NoLocal.current = 0 /\ NoLocal.day = 0 /\ NoLocal.excess = {}
  BY DEF NoLocal
<1>3. QED
  BY <1>1, <1>2 DEF Quiet, Working, Relying

LEMMA BackupFailsQuiet ==
  ASSUME Shaped, NEW p \in Processes, BackupFails(p)
  PROVE  Quiet(p)
<1>1. CASE loc[p].nightly
  <2> DEFINE l == [loc[p] EXCEPT !.nightly = FALSE, !.day = 0, !.excess = {}]
  <2>1. l.current = loc[p].current /\ l.day = 0 /\ l.excess = {}
    BY LocalFields, 0 \in Nat, {} \in SUBSET Days DEF Shaped
  <2>2. pc'[p] = "serving" /\ loc'[p] = l
    BY <1>1 DEF BackupFails, Goto, Shaped
  <2> HIDE DEF l
  <2>3. QED
    BY <2>1, <2>2 DEF Quiet, Working, Relying
<1>2. CASE ~loc[p].nightly
  BY <1>2, ExitQuiet DEF BackupFails
<1>3. QED
  BY <1>1, <1>2

\* Steps of p that touch no file.
LEMMA PlainQuiet ==
  ASSUME Shaped, NEW p \in Processes,
         \/ EndBackup(p) \/ Migrated(p) \/ (Nightly /\ p = Daemon) \/ Apply(p)
         \/ \E b \in Binaries : Start(p, b)
  PROVE  Quiet(p) /\ UNCHANGED files /\ day' = day
<1> USE DEF Quiet, Working, Relying, Goto
<1>0. loc[p] \in AnyLocal /\ Binaries \subseteq Nat
  BY StartupAssumption DEF Shaped
<1>1. UNCHANGED files /\ day' = day
  BY DEF EndBackup, Migrated, Nightly, Apply, Start, around
<1>2. CASE EndBackup(p)
  <2> DEFINE l == [loc[p] EXCEPT !.day = 0, !.nightly = FALSE]
  <2>1. l.current = loc[p].current /\ l.day = 0 /\ l.excess = loc[p].excess
    BY <1>0, LocalFields, 0 \in Nat, {} \in SUBSET Days
  <2>2. pc[p] = "prune" /\ pc'[p] \in {"serving", "apply"} /\ loc'[p] = l
    BY <1>2 DEF EndBackup, Shaped
  <2> HIDE DEF l
  <2>3. QED
    BY <1>1, <2>1, <2>2
<1>3. CASE Nightly /\ p = Daemon
  <2> DEFINE l == [loc[p] EXCEPT !.nightly = TRUE]
  <2>1. l.current = loc[p].current /\ l.day = loc[p].day /\ l.excess = loc[p].excess
    BY <1>0, LocalFields, 0 \in Nat, {} \in SUBSET Days
  <2>2. pc'[p] = "clean" /\ loc'[p] = l
    BY <1>3 DEF Nightly, Shaped
  <2> HIDE DEF l
  <2>3. QED
    BY <1>1, <2>1, <2>2
<1>4. ASSUME NEW b \in Binaries, Start(p, b)
      PROVE  Quiet(p) /\ UNCHANGED files /\ day' = day
  <2> DEFINE l == [loc[p] EXCEPT !.binary = b]
  <2>1. l.current = loc[p].current /\ l.day = loc[p].day /\ l.excess = loc[p].excess
    BY <1>0, LocalFields, {} \in SUBSET Days
  <2>2. pc'[p] = "version" /\ loc'[p] = l
    BY <1>4 DEF Start, Shaped
  <2> HIDE DEF l
  <2>3. QED
    BY <1>1, <2>1, <2>2
<1>5. CASE Migrated(p)
  <2>1. CASE Exit(p)
    BY <1>1, <2>1, ExitQuiet
  <2>2. CASE ~Exit(p)
    <3>1. pc'[p] \in {"tls", "setid"} /\ loc' = loc
      BY <1>5, <2>2 DEF Migrated, Shaped
    <3>2. QED
      BY <1>1, <3>1
  <2>3. QED
    BY <2>1, <2>2
<1>6. CASE Apply(p)
  <2>1. CASE Exit(p)
    BY <1>1, <2>1, ExitQuiet
  <2>2. CASE ~Exit(p)
    <3> DEFINE l == [loc[p] EXCEPT !.next = loc[p].next + 1]
    <3>1. l.current = loc[p].current /\ l.day = loc[p].day /\ l.excess = loc[p].excess
      BY <1>0 DEF AnyLocal
    <3>2. pc[p] = "apply" /\ pc'[p] \in {"migrated", "apply"} /\ loc'[p] = l
      BY <1>6, <2>2 DEF Apply, Shaped
    <3> HIDE DEF l
    <3>3. QED
      BY <1>1, <3>1, <3>2
  <2>3. QED
    BY <2>1, <2>2
<1>7. QED
  BY <1>2, <1>3, <1>4, <1>5, <1>6

\* Steps of p that begin a backup, or bring it forward.
LEMMA CleanProgress ==
  ASSUME Shaped, FilesInv, NEW p \in Processes, Progress(p), Clean(p), meta.version \in Nat
  PROVE  Progress(p)'
<1>1. FileStep(p) /\ day' = day /\ meta' = meta
  BY CleanFiles DEF Clean, around, database
<1>2. day \in Nat /\ day \in Days /\ loc[p] \in AnyLocal
  BY DEF Shaped, FilesInv
<1> DEFINE l == [loc[p] EXCEPT !.day = day]
<1>3. l.current = loc[p].current /\ l.day = day /\ l.excess = loc[p].excess
  BY <1>2, LocalFields, {} \in SUBSET Days
<1>4. pc'[p] = "vacuum" /\ loc'[p] = l
  BY DEF Clean, Goto, Shaped
<1> HIDE DEF l
<1>5. \A d \in loc[p].excess : Later(d)'
  BY <1>1, <1>2, LaterKept DEF Progress, AnyLocal
<1>6. \A d \in Days : d > day => snapshots'[d] = NoFile /\ temps'[d] = NoFile
  BY <1>1 DEF FileStep, FilesInv
<1>7. ASSUME NEW v PROVE \A d \in Days : d > day => Good(v, d)'
  BY <1>6 DEF Good
<1>8. day <= day
  BY <1>2
<1>9. QED
  BY <1>1, <1>2, <1>3, <1>4, <1>5, <1>7, <1>8 DEF Progress, Working, Relying

\* The facts of p that survive a step at the same place with the same locals.
LEMMA SameLocals ==
  ASSUME Shaped, FilesInv, NEW p \in Processes, Progress(p), FileStep(p), meta.version \in Nat,
         loc'[p] = loc[p], meta' = meta, day' = day
  PROVE  /\ loc'[p].current <= meta'.version /\ loc'[p].day <= day'
         /\ \A d \in loc'[p].excess : Later(d)'
         /\ pc[p] \in Working \cup {"vacuum"} => loc'[p].day \in Days
         /\ pc[p] \in Working \cup {"vacuum"} =>
              \A d \in Days : d > loc'[p].day => Good(loc[p].current, d)'
<1>1. loc[p].current \in Nat /\ loc[p].day \in Nat /\ loc[p].excess \in SUBSET Days
  BY DEF Shaped, AnyLocal
<1>2. PICK v \in Nat : v = loc[p].current
  BY <1>1
<1>3. \A d \in loc'[p].excess : Later(d)'
  BY <1>1, LaterKept DEF Progress
<1>4. ASSUME pc[p] \in Working \cup {"vacuum"}, NEW d \in Days, d > loc[p].day PROVE Good(v, d)'
  <2>1. Good(v, d) /\ v <= meta.version
    BY <1>2, <1>4 DEF Progress
  <2>2. QED
    BY <2>1, GoodKept
<1>5. QED
  BY <1>1, <1>2, <1>3, <1>4 DEF Progress

LEMMA BeginProgress ==
  ASSUME Shaped, FilesInv, NEW p \in Processes, Progress(p), BeginVacuum(p), meta.version \in Nat
  PROVE  FileStep(p) /\ Progress(p)'
<1> DEFINE d == loc[p].day
           new == [version |-> meta.version, state |-> "partial", by |-> p]
<1>1. pc[p] = "vacuum" /\ d \in Days /\ d <= day /\ loc[p].current <= meta.version
  BY DEF BeginVacuum, Progress
<1>2. FileStep(p) /\ day' = day /\ meta' = meta /\ day \in Int
  BY <1>1, BeginFiles DEF BeginVacuum, around, database, FilesInv, Days
<1>3. CASE BackupFails(p)
  <2>1. meta'.version \in Nat /\ meta'.version >= meta.version /\ day' >= day
    BY <1>2
  <2>2. QED
    BY <1>2, <1>3, <2>1, BackupFailsQuiet, QuietProgress
<1>4. CASE ~BackupFails(p)
  <2>1. /\ temps' = [temps EXCEPT ![d] = new] /\ pc' = [pc EXCEPT ![p] = "vacuuming"] /\ loc' = loc
    BY <1>4 DEF BeginVacuum, Goto
  <2>2. temps'[d] = new /\ pc'[p] = "vacuuming" /\ loc'[p] = loc[p]
    BY <1>1, <2>1 DEF FilesInv, Shaped
  <2>3. new.by = p /\ new # NoFile /\ new.version >= loc[p].current
    <3>1. loc[p].current \in Nat
      BY DEF Shaped, AnyLocal
    <3>2. new.by = p /\ new.version = meta.version /\ new.state = "partial"
      OBVIOUS
    <3>3. QED
      BY <1>1, <3>1, <3>2, NoFileIsProper
  <2> HIDE DEF new
  <2>4. Mine(p)'
    BY <2>2, <2>3 DEF Mine
  <2>5. /\ loc'[p].current <= meta'.version /\ loc'[p].day <= day'
        /\ \A e \in loc'[p].excess : Later(e)'
        /\ loc'[p].day \in Days
        /\ \A e \in Days : e > loc'[p].day => Good(loc[p].current, e)'
    BY <1>1, <1>2, <2>2, SameLocals
  <2>6. QED
    BY <1>2, <2>2, <2>4, <2>5 DEF Progress, Working, Relying
<1>5. QED
  BY <1>3, <1>4

LEMMA EndProgress ==
  ASSUME Shaped, FilesInv, NEW p \in Processes, Progress(p), EndVacuum(p), meta.version \in Nat
  PROVE  FileStep(p) /\ Progress(p)'
<1>1. /\ FileStep(p)
      /\ \A d \in Days : temps'[d].version = temps[d].version
      /\ \A d \in Days : temps[d].by = p => temps'[d].state = "whole" /\ temps'[d].by = p
  BY MarkFiles
<1>2. day' = day /\ meta' = meta /\ mixed' = mixed /\ pc[p] = "vacuuming" /\ loc' = loc
  BY DEF EndVacuum, around, database
<1>3. pc'[p] = "rename"
  BY DEF EndVacuum, Goto, Shaped
<1>4. loc[p].day \in Days
  BY <1>2 DEF Progress, Working
<1>5. ASSUME ~mixed' PROVE Mine(p)'
  <2>1. Mine(p)
    BY <1>2, <1>5 DEF Progress, Working
  <2>2. QED
    BY <1>1, <1>2, <1>3, <1>4, <2>1, NoFileIsProper DEF Mine
<1>6. /\ loc'[p].current <= meta'.version /\ loc'[p].day <= day'
      /\ \A e \in loc'[p].excess : Later(e)'
      /\ loc'[p].day \in Days
      /\ \A e \in Days : e > loc'[p].day => Good(loc[p].current, e)'
  BY <1>1, <1>2, SameLocals DEF Working
<1>7. QED
  BY <1>1, <1>3, <1>5, <1>6 DEF Progress, Working, Relying

LEMMA RenameProgress ==
  ASSUME Shaped, FilesInv, NEW p \in Processes, Progress(p), Rename(p), meta.version \in Nat
  PROVE  FileStep(p) /\ Progress(p)'
<1> DEFINE d == loc[p].day
<1>1. pc[p] = "rename" /\ day' = day /\ meta' = meta /\ day \in Int
  BY DEF Rename, around, database, FilesInv, Days
<1>2. d \in Days /\ d <= day /\ \A e \in Days : e > d => Good(loc[p].current, e)
  BY <1>1 DEF Progress, Working
<1>3. ~mixed => Mine(p)
  BY <1>1 DEF Progress, Working
<1>4. /\ FileStep(p)
      /\ temps[d] # NoFile =>
           /\ snapshots'[d] # NoFile
           /\ snapshots'[d].version = temps[d].version
           /\ ~mixed' => temps[d].by = p
  BY <1>1, <1>2, <1>3, RenameFiles DEF Mine
<1>5. CASE BackupFails(p)
  <2>1. meta'.version \in Nat /\ meta'.version >= meta.version /\ day' >= day
    BY <1>1
  <2>2. QED
    BY <1>4, <1>5, <2>1, BackupFailsQuiet, QuietProgress
<1>6. CASE ~BackupFails(p)
  <2>1. temps[d] # NoFile /\ temps'[d] = NoFile /\ pc'[p] = "list" /\ loc' = loc
    BY <1>2, <1>6 DEF Rename, Goto, Shaped, FilesInv
  <2>2. PICK v \in Nat : v = loc[p].current
    BY DEF Shaped, AnyLocal
  <2>3. ASSUME ~mixed' PROVE Has(v)'
    <3>1. ~mixed
      BY <1>4, <2>3 DEF FileStep
    <3>2. snapshots'[d] # NoFile /\ snapshots'[d].version >= v
      BY <1>3, <1>4, <2>1, <2>2, <3>1 DEF Mine
    <3>3. Good(v, d)'
      BY <2>1, <3>2 DEF Good
    <3>4. ASSUME NEW e \in Days, e > d PROVE Good(v, e)'
      <4>1. Good(v, e) /\ v <= meta.version
        BY <1>2, <2>2, <3>4 DEF Progress
      <4>2. QED
        BY <1>4, <4>1, GoodKept
    <3>5. \A e \in Days : e >= d => e = d \/ e > d
      BY <1>2 DEF Days
    <3>6. QED
      BY <1>2, <2>1, <3>2, <3>3, <3>4, <3>5 DEF Has
  <2>4. /\ loc'[p].current <= meta'.version /\ loc'[p].day <= day'
        /\ \A e \in loc'[p].excess : Later(e)'
    BY <1>1, <1>4, <2>1, SameLocals
  <2>5. QED
    BY <1>4, <2>1, <2>2, <2>3, <2>4 DEF Progress, Working
<1>7. QED
  BY <1>5, <1>6

LEMMA ListProgress ==
  ASSUME Shaped, FilesInv, NEW p \in Processes, Progress(p), ListBackups(p), meta.version \in Nat
  PROVE  FileStep(p) /\ Progress(p)'
<1> DEFINE l == [loc[p] EXCEPT !.excess = Excess]
<1>1. UNCHANGED files /\ day' = day /\ meta' = meta /\ pc[p] = "list" /\ day \in Days /\ day \in Int
  BY DEF ListBackups, around, database, FilesInv, Days
<1>2. day' \in Days /\ day' >= day
  BY <1>1
<1>3. FileStep(p)
  BY <1>1, <1>2, NoFileStep
<1>4. loc[p] \in AnyLocal /\ Excess \in SUBSET Days
  BY DEF Shaped, Excess, Kept
<1>5. l.current = loc[p].current /\ l.day = loc[p].day /\ l.excess = Excess
  BY <1>4, LocalFields, 0 \in Nat
<1>6. loc'[p] = l /\ pc'[p] = "prune"
  BY DEF ListBackups, Goto, Shaped
<1>7. \A e \in Excess : Later(e)'
  <2>1. \A e \in Excess : Later(e)
    BY ExcessHasLater DEF Later
  <2>2. QED
    BY <1>3, <1>4, <2>1, LaterKept
<1> HIDE DEF l
<1>8. PICK v \in Nat : v = loc[p].current
  BY <1>4 DEF AnyLocal
<1>9. ASSUME ~mixed', v > 0 PROVE Has(v)'
  <2>1. Has(v) /\ v <= meta.version
    BY <1>1, <1>3, <1>8, <1>9 DEF Progress, Relying, FileStep
  <2>2. QED
    BY <1>3, <2>1, HasKept
<1>10. l.current <= meta'.version /\ l.day <= day'
  BY <1>1, <1>5 DEF Progress
<1>11. QED
  BY <1>3, <1>5, <1>6, <1>7, <1>8, <1>9, <1>10 DEF Progress, Working

LEMMA PruneProgress ==
  ASSUME Shaped, FilesInv, NEW p \in Processes, Progress(p), Prune(p), meta.version \in Nat
  PROVE  FileStep(p) /\ Progress(p)'
<1>1. loc[p] \in AnyLocal /\ loc[p].excess \in SUBSET Days
  BY DEF Shaped, AnyLocal
<1>2. FileStep(p)
  BY <1>1, PruneFiles DEF Progress
<1>3. day' = day /\ meta' = meta /\ day \in Int
  BY DEF Prune, around, database, FilesInv, Days
<1>4. Quiet(p)
  <2>1. CASE BackupFails(p)
    BY <2>1, BackupFailsQuiet
  <2>2. CASE ~BackupFails(p)
    <3> DEFINE rest == loc[p].excess \ {Max(loc[p].excess)}
               l == [loc[p] EXCEPT !.excess = rest]
    <3>1. l.current = loc[p].current /\ l.day = loc[p].day /\ l.excess \subseteq loc[p].excess
      BY <1>1, LocalFields, 0 \in Nat
    <3>2. pc[p] = "prune" /\ pc'[p] = "prune" /\ loc'[p] = l
      BY <2>2 DEF Prune, Shaped
    <3> HIDE DEF l
    <3>3. QED
      BY <3>1, <3>2 DEF Quiet, Working, Relying
  <2>3. QED
    BY <2>1, <2>2
<1>5. meta'.version \in Nat /\ meta'.version >= meta.version /\ day' >= day
  BY <1>3
<1>6. QED
  BY <1>2, <1>4, <1>5, QuietProgress

\* A process that goes on to migrate without a backup has read version 0.
LEMMA ReadProgress ==
  ASSUME Shaped, FilesInv, NEW p \in Processes, Progress(p), ReadVersion(p)
  PROVE  FileStep(p) /\ Progress(p)'
<1> DEFINE n == Min({meta.version, loc[p].binary}) + 1
           l == [loc[p] EXCEPT !.current = meta.version, !.next = n]
<1>1. UNCHANGED files /\ day' = day /\ meta' = meta /\ day \in Days /\ day \in Int
  BY DEF ReadVersion, around, database, FilesInv, Days
<1>2. day' \in Days /\ day' >= day
  BY <1>1
<1>3. FileStep(p)
  BY <1>1, <1>2, NoFileStep
<1>4. loc[p] \in AnyLocal /\ meta.version \in Nat /\ loc[p].excess \in SUBSET Days
  BY DEF Shaped, AnyLocal, AnyMeta
<1>5. l.current = meta.version /\ l.day = loc[p].day /\ l.excess = loc[p].excess
  <2> HIDE DEF n
  <2>1. QED
    BY <1>4 DEF AnyLocal
<1>6. loc'[p] = l
  BY DEF ReadVersion, Shaped
<1>7. /\ pc'[p] \in {"migrated", "clean", "apply"}
      /\ pc'[p] = "apply" => ~(meta.version > 0)
  BY DEF ReadVersion, Goto, Shaped
<1> HIDE DEF l
<1>8. \A e \in loc[p].excess : Later(e)'
  BY <1>3, <1>4, LaterKept DEF Progress
<1>9. l.current <= meta'.version /\ l.day <= day'
  BY <1>1, <1>4, <1>5 DEF Progress
<1>10. QED
  BY <1>3, <1>5, <1>6, <1>7, <1>8, <1>9 DEF Progress, Working, Relying

LEMMA CrashProgress ==
  ASSUME Shaped, FilesInv, NEW p \in Processes, Progress(p), Crash(p), meta.version \in Nat
  PROVE  FileStep(p) /\ Progress(p)'
<1>1. FileStep(p) /\ day' = day /\ meta' = meta /\ day \in Int
  BY MarkFiles DEF Crash, database, FilesInv, Days
<1>2. meta'.version \in Nat /\ meta'.version >= meta.version /\ day' >= day
  BY <1>1
<1>3. Quiet(p)
  BY ExitQuiet DEF Crash
<1>4. QED
  BY <1>1, <1>2, <1>3, QuietProgress

\* Every step of a process up to its identity.
LEMMA OwnProgress ==
  ASSUME SchemaInv, FilesInv, NEW p \in Processes, Progress(p), Still(p) \/ Apply(p)
  PROVE  /\ FileStep(p) /\ Progress(p)'
         /\ meta'.version \in Nat /\ meta'.version >= meta.version /\ day' = day
<1>1. Shaped /\ meta.version \in Nat /\ day \in Int /\ day \in Days
  BY DEF SchemaInv, Shaped, AnyMeta, FilesInv, Days
<1>2. meta'.version \in Nat /\ meta'.version >= meta.version /\ day' = day
  <2>1. CASE Still(p)
    BY <1>1, <2>1, StillMoves
  <2>2. CASE Apply(p)
    <3>1. meta'.version \in Nat /\ VersionIsSchema /\ loc[p].next \in 1..(meta.version + 1)
      BY <2>2, SchemaApply DEF SchemaInv, Shaped, AnyMeta
    <3>2. CASE loc[p].next \in schema
      BY <1>1, <2>2, <3>2 DEF Apply, around
    <3>3. CASE loc[p].next \notin schema
      <4>1. meta'.version = loc[p].next /\ day' = day
        BY <2>2, <3>3 DEF Apply, around, SchemaInv, Shaped, AnyMeta
      <4>2. loc[p].next = meta.version + 1
        BY <1>1, <3>1, <3>3 DEF VersionIsSchema
      <4>3. QED
        BY <1>1, <4>1, <4>2
    <3>4. QED
      BY <3>2, <3>3
  <2>3. QED
    BY <2>1, <2>2
<1> SUFFICES FileStep(p) /\ Progress(p)'
  BY <1>2
<1>3. ASSUME Quiet(p), UNCHANGED files PROVE FileStep(p) /\ Progress(p)'
  <2>1. day' \in Days /\ day' >= day
    BY <1>1, <1>2
  <2>2. FileStep(p)
    BY <1>3, <2>1, NoFileStep
  <2>3. QED
    BY <1>1, <1>2, <1>3, <2>1, <2>2, QuietProgress
<1>4. CASE EndBackup(p) \/ Migrated(p) \/ (Nightly /\ p = Daemon) \/ Apply(p)
           \/ \E b \in Binaries : Start(p, b)
  BY <1>1, <1>3, <1>4, PlainQuiet
<1>5. CASE ReadVersion(p)
  BY <1>1, <1>5, ReadProgress
<1>6. CASE Clean(p)
  BY <1>1, <1>6, CleanFiles, CleanProgress
<1>7. CASE BeginVacuum(p)
  BY <1>1, <1>7, BeginProgress
<1>8. CASE EndVacuum(p)
  BY <1>1, <1>8, EndProgress
<1>9. CASE Rename(p)
  BY <1>1, <1>9, RenameProgress
<1>10. CASE ListBackups(p)
  BY <1>1, <1>10, ListProgress
<1>11. CASE Prune(p)
  BY <1>1, <1>11, PruneProgress
<1>12. CASE Crash(p)
  BY <1>1, <1>12, CrashProgress
<1>13. QED
  BY <1>4, <1>5, <1>6, <1>7, <1>8, <1>9, <1>10, <1>11, <1>12 DEF Still

\* EnsureServerID and EnsureTLS touch no file.
LEMMA EnsureQuiet ==
  ASSUME Shaped, EnsureIdentity
  PROVE  Daemon \in Processes /\ Quiet(Daemon) /\ UNCHANGED files /\ day' = day
<1> USE DEF Goto, around, Quiet, Working, Relying
<1>0. Daemon \in Processes /\ loc[Daemon] \in AnyLocal /\ minted.pair \in Nat
  BY DEF Processes, Shaped
<1>1. UNCHANGED files /\ day' = day
  BY DEF EnsureIdentity, SetServerID, LoadTLS, GenerateTLS, SetKey, SetCert, SetSpki
<1>2. CASE SetServerID \/ SetKey \/ SetCert \/ SetSpki
  <2>1. pc'[Daemon] \in {"tls", "setcert", "setspki", "serving"} /\ loc' = loc
    BY <1>0, <1>2 DEF SetServerID, SetKey, SetCert, SetSpki, Shaped
  <2>2. QED
    BY <1>0, <1>1, <2>1
<1>3. CASE LoadTLS
  <2>1. CASE Exit(Daemon)
    BY <1>0, <1>1, <2>1, ExitQuiet
  <2>2. CASE ~Exit(Daemon)
    <3>1. pc'[Daemon] = "serving" /\ loc' = loc
      BY <1>0, <1>3, <2>2 DEF LoadTLS, Shaped
    <3>2. QED
      BY <1>0, <1>1, <3>1
  <2>3. QED
    BY <2>1, <2>2
<1>4. CASE GenerateTLS
  <2> DEFINE l == [loc[Daemon] EXCEPT !.pair = minted'.pair]
  <2>1. minted'.pair \in Nat
    BY <1>0, <1>4 DEF GenerateTLS, Shaped
  <2>2. l.current = loc[Daemon].current /\ l.day = loc[Daemon].day /\ l.excess = loc[Daemon].excess
    BY <1>0, <2>1, LocalFields, {} \in SUBSET Days
  <2>3. pc'[Daemon] = "setkey" /\ loc'[Daemon] = l
    BY <1>0, <1>4 DEF GenerateTLS, Shaped
  <2> HIDE DEF l
  <2>4. QED
    BY <1>0, <1>1, <2>2, <2>3
<1>5. QED
  BY <1>2, <1>3, <1>4 DEF EnsureIdentity

\* A step is one of a process p, which leaves the place and the locals of the other alone.
LEMMA StepIsOfOne ==
  ASSUME SchemaInv, BackupInv, [Next]_vars
  PROVE  /\ meta'.version \in Nat /\ meta'.version >= meta.version /\ day' >= day
         /\ \E p \in Processes :
              /\ FileStep(p)
              /\ Progress(p)' \/ UNCHANGED <<meta, pc, loc, files>>
              /\ \A q \in Processes \ {p} : pc'[q] = pc[q] /\ loc'[q] = loc[q]
<1>1. Shaped /\ FilesInv /\ meta.version \in Nat /\ day \in Int /\ day \in Days
  BY DEF SchemaInv, BackupInv, Shaped, AnyMeta, FilesInv, Days
<1>2. ASSUME NEW p \in Processes, Still(p) \/ Apply(p)
      PROVE  /\ meta'.version \in Nat /\ meta'.version >= meta.version /\ day' = day
             /\ FileStep(p) /\ Progress(p)'
             /\ \A q \in Processes \ {p} : pc'[q] = pc[q] /\ loc'[q] = loc[q]
  <2>1. PICK step \in Steps, l \in AnyLocal : Moves(p, step, l)
    BY <1>1, <1>2, StillMoves, SchemaApply
  <2>2. \A q \in Processes \ {p} : pc'[q] = pc[q] /\ loc'[q] = loc[q]
    BY <1>1, <2>1 DEF Moves, Shaped
  <2>3. Progress(p)
    BY DEF BackupInv
  <2>4. QED
    BY <1>1, <1>2, <2>2, <2>3, OwnProgress
<1>3. CASE EnsureIdentity
  <2>1. /\ Daemon \in Processes /\ Quiet(Daemon) /\ UNCHANGED files /\ day' = day
        /\ meta'.version = meta.version /\ meta'.version \in Nat
    BY <1>1, <1>3, EnsureQuiet, EnsureMoves
  <2>2. meta'.version >= meta.version /\ day' >= day /\ day' \in Days
    BY <1>1, <2>1
  <2>3. FileStep(Daemon)
    BY <1>1, <2>1, <2>2, NoFileStep
  <2>4. Progress(Daemon)'
    BY <1>1, <2>1, <2>2, <2>3, QuietProgress DEF BackupInv
  <2>5. \A q \in Processes \ {Daemon} : pc'[q] = pc[q] /\ loc'[q] = loc[q]
    BY <1>1, <1>3 DEF EnsureIdentity, SetServerID, LoadTLS, GenerateTLS, SetKey, SetCert, SetSpki,
                      Exit, Goto, Shaped
  <2>6. QED
    BY <2>1, <2>2, <2>3, <2>4, <2>5
<1>4. CASE NextDay \/ UNCHANGED vars
  <2>1. UNCHANGED <<meta, pc, loc, files>> /\ day' \in Days /\ day' >= day
    <3>1. CASE NextDay
      <4>1. UNCHANGED <<meta, pc, loc, files>> /\ day < LastDay /\ day' = day + 1
        BY <3>1 DEF NextDay, database
      <4>2. QED
        BY <1>1, <4>1, StartupAssumption DEF Days
    <3>2. CASE UNCHANGED vars
      BY <1>1, <3>2 DEF vars, files
    <3>3. QED
      BY <1>4, <3>1, <3>2
  <2>2. meta'.version \in Nat /\ meta'.version >= meta.version
    BY <1>1, <2>1
  <2>3. Daemon \in Processes
    BY DEF Processes
  <2>4. FileStep(Daemon)
    BY <1>1, <2>1, <2>3, NoFileStep
  <2>5. QED
    BY <2>1, <2>2, <2>3, <2>4
<1>5. CASE \E p \in Processes : Still(p) \/ Apply(p)
  <2>1. PICK p \in Processes : Still(p) \/ Apply(p)
    BY <1>5
  <2>2. day' >= day
    BY <1>1, <1>2, <2>1
  <2>3. QED
    BY <1>2, <2>1, <2>2
<1>6. QED
  BY <1>3, <1>4, <1>5, Cases

LEMMA BackupInit == Init => BackupInv
<1> SUFFICES ASSUME Init PROVE BackupInv
  OBVIOUS
<1>1. NoFile \in AnyFile /\ Proper(NoFile)
  BY NoFileIsProper DEF Proper
<1>2. 1 \in Days /\ day = 1
  BY StartupAssumption DEF Days, Init
<1>3. FilesInv
  BY <1>1, <1>2 DEF Init, FilesInv
<1>4. NoLocal.current = 0 /\ NoLocal.day = 0 /\ NoLocal.excess = {} /\ meta.version = 0
  BY DEF NoLocal, NoMeta, Init
<1>5. ASSUME NEW p \in Processes PROVE Progress(p)
  <2>1. loc[p] = NoLocal /\ pc[p] = "down"
    BY DEF Init
  <2>2. loc[p].current <= meta.version /\ loc[p].day <= day
    BY <1>2, <1>4, <2>1
  <2>3. QED
    BY <1>4, <2>1, <2>2 DEF Progress, Working, Relying
<1>6. QED
  BY <1>3, <1>5 DEF BackupInv

LEMMA BackupStep == SchemaInv /\ BackupInv /\ [Next]_vars => BackupInv'
<1> SUFFICES ASSUME SchemaInv, BackupInv, [Next]_vars PROVE BackupInv'
  OBVIOUS
<1>1. Shaped /\ FilesInv /\ meta.version \in Nat
  BY DEF SchemaInv, BackupInv, Shaped, AnyMeta
<1>2. meta'.version \in Nat /\ meta'.version >= meta.version /\ day' >= day
  BY StepIsOfOne
<1>3. PICK p \in Processes :
        /\ FileStep(p)
        /\ Progress(p)' \/ UNCHANGED <<meta, pc, loc, files>>
        /\ \A q \in Processes \ {p} : pc'[q] = pc[q] /\ loc'[q] = loc[q]
  BY StepIsOfOne
<1>4. FilesInv'
  BY <1>3 DEF FileStep
<1>5. ASSUME NEW q \in Processes \ {p} PROVE Progress(q)'
  <2>1. Progress(q)
    BY DEF BackupInv
  <2>2. QED
    BY <1>1, <1>2, <1>3, <2>1, OthersProgress
<1>6. Progress(p)'
  <2>1. CASE UNCHANGED <<meta, pc, loc, files>>
    <3>1. PICK q \in Processes \ {p} : TRUE
      BY StartupAssumption DEF Processes
    <3>2. day' \in Days
      BY <1>4 DEF FilesInv
    <3>3. FileStep(q)
      BY <1>1, <1>2, <2>1, <3>2, NoFileStep
    <3>4. Progress(p) /\ p \in Processes \ {q} /\ pc'[p] = pc[p] /\ loc'[p] = loc[p]
      BY <2>1 DEF BackupInv
    <3>5. QED
      BY <1>1, <1>2, <3>3, <3>4, OthersProgress
  <2>2. QED
    BY <1>3, <2>1
<1>7. QED
  BY <1>4, <1>5, <1>6 DEF BackupInv

LEMMA BackupInvariant == Spec => [](SchemaInv /\ BackupInv)
BY SchemaInit, BackupInit, SchemaStep, BackupStep, PTL DEF Spec

\* Before the first migration of an existing database there is a whole snapshot of what it
\* was, or of something newer, whatever else is backed up, pruned or cut short.
THEOREM SnapshotBeforeMigration == Spec => []BackedUpFirst
<1>1. BackupInv => BackedUpFirst
  <2> SUFFICES ASSUME BackupInv, NEW p \in Processes, pc[p] = "apply", loc[p].current > 0, ~mixed
               PROVE  HasSnapshot(loc[p].current)
    BY DEF BackedUpFirst
  <2>1. Has(loc[p].current)
    BY DEF BackupInv, Progress, Relying
  <2>2. PICK d \in Days : snapshots[d] # NoFile /\ \A e \in Days : e >= d => Good(loc[p].current, e)
    BY <2>1 DEF Has
  <2>3. Good(loc[p].current, d) /\ snapshots[d].state = "whole"
    BY <2>2 DEF BackupInv, FilesInv, Days
  <2>4. QED
    BY <2>2, <2>3 DEF Good, HasSnapshot
<1>2. QED
  BY <1>1, BackupInvariant, PTL

\* No backup, pruning or crash takes the newest whole snapshot away but for a newer one.
THEOREM NewestIsKept == Spec => NewestSnapshotKept
<1>1. ASSUME SchemaInv, BackupInv, [Next]_vars, ~mixed' PROVE Newest' >= Newest
  <2> DEFINE S == {0} \cup {d \in Days : snapshots[d].state = "whole"}
             T == {0} \cup {d \in Days : snapshots'[d].state = "whole"}
  <2>1. PICK p \in Processes : FileStep(p)
    BY <1>1, StepIsOfOne
  <2>2. LastDay \in Nat /\ S \in SUBSET (0..LastDay) /\ S # {} /\ T \in SUBSET (0..LastDay) /\ T # {}
    BY StartupAssumption DEF Days
  <2>3. 0 \in T /\ \A d \in Days : snapshots'[d].state = "whole" => d \in T
    OBVIOUS
  <2>4. \A d \in S : d = 0 \/ (d \in Days /\ snapshots[d].state = "whole")
    OBVIOUS
  <2>5. Newest = Max(S) /\ Newest' = Max(T)
    BY DEF Newest
  <2> HIDE DEF S, T
  <2>6. Max(S) \in S /\ Max(T) \in T /\ \A x \in T : x <= Max(T)
    BY <2>2, NewestOfDays
  <2>7. \E x \in T : x >= Max(S)
    <3>1. CASE Max(S) = 0
      BY <2>3, <3>1
    <3>2. CASE Max(S) # 0
      <4>1. Max(S) \in Days /\ snapshots[Max(S)] # NoFile
        BY <2>4, <2>6, <3>2, NoFileIsProper
      <4>2. PICK e \in Days : e >= Max(S) /\ snapshots'[e] # NoFile
        BY <2>1, <4>1 DEF FileStep, Outlived
      <4>3. snapshots'[e].state = "whole"
        BY <1>1, <2>1, <4>2 DEF FileStep, FilesInv
      <4>4. QED
        BY <2>3, <4>2, <4>3
    <3>3. QED
      BY <3>1, <3>2
  <2>8. Max(S) \in Int /\ Max(T) \in Int /\ \A x \in T : x \in Int
    <3>1. 0..LastDay \subseteq Int
      BY <2>2
    <3>2. S \subseteq Int /\ T \subseteq Int
      BY <2>2, <3>1
    <3>3. QED
      BY <2>6, <3>2
  <2>9. QED
    BY <2>5, <2>6, <2>7, <2>8
<1>2. SchemaInv /\ BackupInv /\ [Next]_vars => [mixed' \/ Newest' >= Newest]_vars
  BY <1>1
<1>3. QED
  BY <1>2, BackupInvariant, PTL DEF Spec, NewestSnapshotKept

-----------------------------------------------------------------------------
(* Type correctness, with the bounds: no version beyond the newest release,*)
(* and no more key pairs than interrupted starts.                          *)

Backing == {"clean", "vacuum", "vacuuming", "rename", "list", "prune"}
Writing == {"setkey", "setcert", "setspki"}

\* A process that goes on to migrate has a migration left; only a backup is nightly.
Fits(step, l) ==
  /\ l \in Local
  /\ step # "down" => l.binary \in Binaries
  /\ l.nightly => step \in Backing
  /\ step \in Backing \cup {"apply"} /\ ~l.nightly => l.next <= l.binary

ProcInv ==
  /\ pc \in [Processes -> Steps] /\ loc \in [Processes -> Local]
  /\ \A p \in Processes : Fits(pc[p], loc[p])

\* A key pair is made anew only after a crash that came between its writes.
Owed == IF pc[Daemon] \in Writing \/ (meta.key # None /\ meta.cert # None) THEN 1 ELSE 0

MintInv ==
  /\ minted \in [id : Nat, pair : Nat] /\ crashes \in 0..MaxCrashes
  /\ minted.id <= 1 /\ (minted.id # 0 => meta.id # None)
  /\ minted.pair <= crashes + Owed

FileTypes ==
  /\ snapshots \in [Days -> File] /\ temps \in [Days -> File]
  /\ mixed \in BOOLEAN

DataInv ==
  /\ day \in Days /\ schema \subseteq Versions /\ meta \in Meta
  /\ identities \subseteq Ids \X Ids

TypesInv == ProcInv /\ MintInv /\ FileTypes /\ DataInv

LEMMA NewestRelease ==
  /\ Max(Binaries) \in Nat \ {0} /\ \A b \in Binaries : b \in Nat \ {0} /\ b <= Max(Binaries)
  /\ 0 \in Versions /\ 0 \in Ids /\ 1 \in Ids
  /\ NoLocal \in Local /\ NoFile \in File
<1>0. IsFiniteSet(Binaries) /\ Binaries \subseteq Int /\ Binaries # {}
  BY StartupAssumption
<1>1. Max(Binaries) \in Binaries /\ \A b \in Binaries : b <= Max(Binaries)
  BY <1>0, MaxIsMax
<1>2. Max(Binaries) \in Nat \ {0} /\ \A b \in Binaries : b \in Nat \ {0}
  BY <1>1, StartupAssumption
<1>3. 0 \in Versions /\ 0 \in Ids /\ 1 \in Ids
  BY <1>2, StartupAssumption DEF Versions, Ids
<1>4. 1 \in 1..(Max(Binaries) + 1) /\ 0 \in 0..LastDay
  BY <1>2, StartupAssumption
<1>5. NoLocal \in Local
  BY <1>3, <1>4 DEF NoLocal, Local, None
<1>6. NoFile \in File
  BY <1>3 DEF NoFile, File
<1>7. QED
  BY <1>1, <1>2, <1>3, <1>5, <1>6

\* A step of p that takes it to another step and to locals that fit there.
Goes(p) ==
  \E step \in Steps, l \in Local :
    Fits(step, l) /\ pc' = [pc EXCEPT ![p] = step] /\ loc' = [loc EXCEPT ![p] = l]

LEMMA GoesOn ==
  ASSUME ProcInv, NEW p \in Processes, Goes(p)
  PROVE  ProcInv'
BY DEF ProcInv, Goes

LEMMA ExitGoes ==
  ASSUME NEW p \in Processes, Exit(p)
  PROVE  Goes(p)
<1>1. Fits("down", NoLocal) /\ NoLocal \in Local /\ "down" \in Steps
  BY NewestRelease DEF Fits, NoLocal, Backing, Steps
<1>2. QED
  BY <1>1 DEF Exit, Goto, Goes

LEMMA BackupFailsGoes ==
  ASSUME ProcInv, NEW p \in Processes, pc[p] \in Backing, BackupFails(p)
  PROVE  Goes(p)
<1>1. CASE loc[p].nightly
  <2> DEFINE l == [loc[p] EXCEPT !.nightly = FALSE, !.day = 0, !.excess = {}]
  <2>1. loc[p] \in Local /\ loc[p].binary \in Binaries
    BY DEF ProcInv, Fits, Backing
  <2>2. l \in Local /\ l.binary = loc[p].binary /\ ~l.nightly
    <3>1. 0 \in 0..LastDay /\ {} \in SUBSET Days
      BY StartupAssumption
    <3>2. QED
      BY <2>1, <3>1 DEF Local
  <2>3. pc' = [pc EXCEPT ![p] = "serving"] /\ loc' = [loc EXCEPT ![p] = l]
    BY <1>1 DEF BackupFails, Goto
  <2> HIDE DEF l
  <2>4. Fits("serving", l) /\ "serving" \in Steps
    BY <2>1, <2>2 DEF Fits, Backing, Steps
  <2>5. QED
    BY <2>2, <2>3, <2>4 DEF Goes
<1>2. CASE ~loc[p].nightly
  BY <1>2, ExitGoes DEF BackupFails
<1>3. QED
  BY <1>1, <1>2

\* A step within a backup that keeps the fields that matter.
LEMMA BackupGoes ==
  ASSUME ProcInv, NEW p \in Processes, pc[p] \in Backing, NEW step \in Backing, NEW l \in Local,
         l.binary = loc[p].binary, l.next = loc[p].next, l.nightly = loc[p].nightly,
         pc' = [pc EXCEPT ![p] = step], loc' = [loc EXCEPT ![p] = l]
  PROVE  Goes(p)
<1>1. Fits(pc[p], loc[p]) /\ step \in Steps
  BY DEF ProcInv, Steps, Backing
<1>2. Fits(step, l)
  BY <1>1 DEF Fits, Backing
<1>3. QED
  BY <1>1, <1>2 DEF Goes

\* A step of the daemon after its migrations.
LEMMA DaemonGoes ==
  ASSUME ProcInv, NEW p \in Processes, pc[p] \notin Backing \cup {"down"},
         NEW step \in Steps \ (Backing \cup {"apply"}), NEW l \in Local,
         l.binary = loc[p].binary, l.nightly = loc[p].nightly,
         pc' = [pc EXCEPT ![p] = step], loc' = [loc EXCEPT ![p] = l]
  PROVE  Goes(p)
<1>1. Fits(pc[p], loc[p])
  BY DEF ProcInv
<1>2. Fits(step, l)
  BY <1>1 DEF Fits
<1>3. QED
  BY <1>2 DEF Goes

LEMMA MigrationGoes ==
  ASSUME ProcInv, DataInv, NEW p \in Processes,
         ReadVersion(p) \/ Apply(p) \/ \E b \in Binaries : Start(p, b)
  PROVE  Goes(p)
<1> USE DEF Goto
<1>0. /\ Fits(pc[p], loc[p]) /\ loc[p] \in Local
      /\ loc[p].next \in 1..(Max(Binaries) + 1) /\ loc[p].nightly \in BOOLEAN
  BY DEF ProcInv, Local
<1>1. PICK top \in Nat \ {0} : top = Max(Binaries) /\ \A b \in Binaries : b \in Nat \ {0} /\ b <= top
  BY NewestRelease
<1>2. PICK v \in Nat : v = meta.version /\ v \in Versions
  BY <1>1 DEF DataInv, Meta, Versions
<1>3. ASSUME NEW b \in Binaries, Start(p, b) PROVE Goes(p)
  <2> DEFINE l == [loc[p] EXCEPT !.binary = b]
  <2>1. l \in Local /\ l.binary = b /\ l.next = loc[p].next /\ l.nightly = loc[p].nightly
    BY <1>0 DEF Local
  <2>2. pc[p] = "down" /\ pc' = [pc EXCEPT ![p] = "version"] /\ loc' = [loc EXCEPT ![p] = l]
    BY <1>3 DEF Start
  <2> HIDE DEF l
  <2>3. Fits("version", l) /\ "version" \in Steps
    BY <1>0, <2>1, <2>2 DEF Fits, Backing, Steps
  <2>4. QED
    BY <2>1, <2>2, <2>3 DEF Goes
<1>4. CASE ReadVersion(p)
  <2>1. pc[p] = "version" /\ loc[p].binary \in Binaries /\ ~loc[p].nightly
    BY <1>0, <1>4 DEF ReadVersion, Fits, Backing
  <2>2. PICK b \in Nat \ {0} : b = loc[p].binary /\ b <= top
    BY <1>1, <2>1
  <2>3. PICK m \in Nat : m = Min({v, b}) /\ m <= b /\ m <= v /\ (v < b => m = v)
    BY DEF Min
  <2> DEFINE l == [loc[p] EXCEPT !.current = v, !.next = m + 1]
             step == IF v >= b THEN "migrated" ELSE IF v > 0 THEN "clean" ELSE "apply"
  <2>4. m + 1 \in 1..(Max(Binaries) + 1)
    BY <1>1, <2>2, <2>3
  <2>5. l \in Local /\ l.binary = b /\ l.next = m + 1 /\ ~l.nightly
    BY <1>0, <1>2, <2>1, <2>2, <2>4 DEF Local
  <2>6. pc' = [pc EXCEPT ![p] = step] /\ loc' = [loc EXCEPT ![p] = l]
    BY <1>2, <1>4, <2>2, <2>3 DEF ReadVersion
  <2>7. /\ step \in {"migrated", "clean", "apply"}
        /\ step # "migrated" => m + 1 <= b
    BY <2>3
  <2> HIDE DEF l, step
  <2>8. Fits(step, l) /\ step \in Steps
    BY <2>1, <2>2, <2>5, <2>7 DEF Fits, Backing, Steps
  <2>9. QED
    BY <2>5, <2>6, <2>8 DEF Goes
<1>5. CASE Apply(p)
  <2>1. CASE Exit(p)
    BY <2>1, ExitGoes
  <2>2. CASE ~Exit(p)
    <3>1. /\ pc[p] = "apply" /\ loc[p].binary \in Binaries /\ ~loc[p].nightly
          /\ loc[p].next <= loc[p].binary
      BY <1>0, <1>5 DEF Apply, Fits, Backing
    <3>2. PICK b \in Nat \ {0}, n \in Nat \ {0} :
            b = loc[p].binary /\ b <= top /\ n = loc[p].next /\ n <= b
      BY <1>0, <1>1, <3>1
    <3> DEFINE l == [loc[p] EXCEPT !.next = n + 1]
               step == IF n = b THEN "migrated" ELSE "apply"
    <3>3. n + 1 \in 1..(Max(Binaries) + 1)
      BY <1>1, <3>2
    <3>4. l \in Local /\ l.binary = b /\ l.next = n + 1 /\ ~l.nightly
      BY <1>0, <3>1, <3>2, <3>3 DEF Local
    <3>5. pc' = [pc EXCEPT ![p] = step] /\ loc' = [loc EXCEPT ![p] = l]
      BY <1>5, <2>2, <3>2 DEF Apply
    <3>6. step \in {"migrated", "apply"} /\ (step = "apply" => n + 1 <= b)
      BY <3>2
    <3> HIDE DEF l, step
    <3>7. Fits(step, l) /\ step \in Steps
      BY <3>1, <3>2, <3>4, <3>6 DEF Fits, Backing, Steps
    <3>8. QED
      BY <3>4, <3>5, <3>7 DEF Goes
  <2>3. QED
    BY <2>1, <2>2
<1>6. QED
  BY <1>3, <1>4, <1>5

LEMMA BackupStepGoes ==
  ASSUME ProcInv, DataInv, NEW p \in Processes,
         \/ Clean(p) \/ BeginVacuum(p) \/ EndVacuum(p) \/ Rename(p)
         \/ ListBackups(p) \/ Prune(p) \/ EndBackup(p)
  PROVE  Goes(p)
<1> USE DEF Goto
<1>0. /\ Fits(pc[p], loc[p]) /\ loc[p] \in Local /\ loc[p].excess \in SUBSET Days
      /\ loc = [loc EXCEPT ![p] = loc[p]]
      /\ day \in 0..LastDay /\ 0 \in 0..LastDay
  BY StartupAssumption DEF ProcInv, DataInv, Local, Days
<1>1. pc[p] \in Backing
  BY DEF Clean, BeginVacuum, EndVacuum, Rename, ListBackups, Prune, EndBackup, Backing
<1>2. CASE BackupFails(p)
  BY <1>1, <1>2, BackupFailsGoes
<1>3. CASE Clean(p)
  <2> DEFINE l == [loc[p] EXCEPT !.day = day]
  <2>1. l \in Local /\ l.binary = loc[p].binary /\ l.next = loc[p].next
        /\ l.nightly = loc[p].nightly
    BY <1>0 DEF Local
  <2>2. pc' = [pc EXCEPT ![p] = "vacuum"] /\ loc' = [loc EXCEPT ![p] = l]
    BY <1>3 DEF Clean
  <2>3. "vacuum" \in Backing
    BY DEF Backing
  <2> HIDE DEF l
  <2>4. QED
    BY <1>1, <2>1, <2>2, <2>3, BackupGoes
<1>4. CASE (BeginVacuum(p) \/ EndVacuum(p) \/ Rename(p)) /\ ~BackupFails(p)
  <2>1. PICK step \in {"vacuuming", "rename", "list"} :
          pc' = [pc EXCEPT ![p] = step] /\ loc' = loc
    BY <1>4 DEF BeginVacuum, EndVacuum, Rename
  <2>2. step \in Backing
    BY DEF Backing
  <2>3. QED
    BY <1>0, <1>1, <2>1, <2>2, BackupGoes
<1>5. CASE ListBackups(p)
  <2> DEFINE l == [loc[p] EXCEPT !.excess = Excess]
  <2>1. Excess \in SUBSET Days
    BY DEF Excess, Kept
  <2>2. l \in Local /\ l.binary = loc[p].binary /\ l.next = loc[p].next
        /\ l.nightly = loc[p].nightly
    BY <1>0, <2>1 DEF Local
  <2>3. pc' = [pc EXCEPT ![p] = "prune"] /\ loc' = [loc EXCEPT ![p] = l] /\ "prune" \in Backing
    BY <1>5 DEF ListBackups, Backing
  <2> HIDE DEF l
  <2>4. QED
    BY <1>1, <2>2, <2>3, BackupGoes
<1>6. CASE Prune(p) /\ ~BackupFails(p)
  <2>1. PICK E \in SUBSET Days : E = loc[p].excess \ {Max(loc[p].excess)}
    BY <1>0
  <2> DEFINE l == [loc[p] EXCEPT !.excess = E]
  <2>2. l \in Local /\ l.binary = loc[p].binary /\ l.next = loc[p].next
        /\ l.nightly = loc[p].nightly
    BY <1>0 DEF Local
  <2>3. pc[p] = "prune" /\ pc' = pc /\ loc' = [loc EXCEPT ![p] = l] /\ "prune" \in Backing
    BY <1>6, <2>1 DEF Prune, Backing
  <2>4. pc' = [pc EXCEPT ![p] = "prune"]
    BY <2>3 DEF ProcInv
  <2> HIDE DEF l
  <2>5. QED
    BY <1>1, <2>2, <2>3, <2>4, BackupGoes
<1>7. CASE EndBackup(p)
  <2> DEFINE l == [loc[p] EXCEPT !.day = 0, !.nightly = FALSE]
             step == IF loc[p].nightly THEN "serving" ELSE "apply"
  <2>1. l \in Local /\ l.binary = loc[p].binary /\ l.next = loc[p].next /\ ~l.nightly
    BY <1>0 DEF Local
  <2>2. pc' = [pc EXCEPT ![p] = step] /\ loc' = [loc EXCEPT ![p] = l]
    BY <1>7 DEF EndBackup
  <2>3. step \in {"serving", "apply"} /\ (step = "apply" => ~loc[p].nightly)
    OBVIOUS
  <2> HIDE DEF l, step
  <2>4. Fits(step, l) /\ step \in Steps
    BY <1>0, <1>1, <2>1, <2>3 DEF Fits, Backing, Steps
  <2>5. QED
    BY <2>1, <2>2, <2>4 DEF Goes
<1>8. QED
  BY <1>2, <1>3, <1>4, <1>5, <1>6, <1>7

LEMMA IdentityGoes ==
  ASSUME ProcInv, MintInv, DataInv, EnsureIdentity, minted'.pair \in Ids
  PROVE  Goes(Daemon)
<1> USE DEF Goto
<1>0. /\ Daemon \in Processes /\ loc[Daemon] \in Local
      /\ loc = [loc EXCEPT ![Daemon] = loc[Daemon]]
  BY DEF ProcInv, Processes
<1>1. pc[Daemon] \in {"setid", "tls", "setkey", "setcert", "setspki"}
  BY DEF EnsureIdentity, SetServerID, LoadTLS, GenerateTLS, SetKey, SetCert, SetSpki
<1>2. pc[Daemon] \notin Backing \cup {"down"}
  BY <1>1 DEF Backing
<1>3. CASE Exit(Daemon)
  BY <1>0, <1>3, ExitGoes
<1>4. CASE GenerateTLS
  <2>1. PICK i \in Ids : i = minted'.pair
    OBVIOUS
  <2> DEFINE l == [loc[Daemon] EXCEPT !.pair = i]
  <2>2. l \in Local /\ l.binary = loc[Daemon].binary /\ l.next = loc[Daemon].next
        /\ l.nightly = loc[Daemon].nightly
    BY <1>0 DEF Local
  <2>3. pc' = [pc EXCEPT ![Daemon] = "setkey"] /\ loc' = [loc EXCEPT ![Daemon] = l]
        /\ "setkey" \in Steps \ (Backing \cup {"apply"})
    BY <1>4, <2>1 DEF GenerateTLS, Steps, Backing
  <2> HIDE DEF l
  <2>4. QED
    BY <1>0, <1>2, <2>2, <2>3, DaemonGoes
<1>5. CASE ~Exit(Daemon) /\ ~GenerateTLS
  <2>1. PICK step \in {"tls", "setcert", "setspki", "serving"} :
          pc' = [pc EXCEPT ![Daemon] = step] /\ loc' = loc
    BY <1>5 DEF EnsureIdentity, SetServerID, LoadTLS, SetKey, SetCert, SetSpki, around, files
  <2>2. step \in Steps \ (Backing \cup {"apply"})
    BY DEF Steps, Backing
  <2>3. QED
    BY <1>0, <1>2, <2>1, <2>2, DaemonGoes
<1>6. QED
  BY <1>3, <1>4, <1>5

LEMMA ProcStep == TypesInv /\ minted'.pair \in Ids /\ [Next]_vars => ProcInv'
<1> SUFFICES ASSUME ProcInv, MintInv, DataInv, minted'.pair \in Ids, [Next]_vars PROVE ProcInv'
  BY DEF TypesInv
<1> USE DEF Goto
<1>1. ASSUME NEW p \in Processes, Startup(p) PROVE Goes(p)
  <2>1. CASE Migrated(p)
    <3>1. CASE Exit(p)
      BY <3>1, ExitGoes
    <3>2. CASE ~Exit(p)
      <4>1. /\ pc[p] = "migrated" /\ loc[p] \in Local
            /\ loc' = [loc EXCEPT ![p] = loc[p]]
            /\ \E step \in {"tls", "setid"} : pc' = [pc EXCEPT ![p] = step]
        BY <2>1, <3>2 DEF Migrated, ProcInv
      <4>2. pc[p] \notin Backing \cup {"down"}
            /\ {"tls", "setid"} \subseteq Steps \ (Backing \cup {"apply"})
        BY <4>1 DEF Backing, Steps
      <4>3. QED
        BY <4>1, <4>2, DaemonGoes
    <3>3. QED
      BY <3>1, <3>2
  <2>2. QED
    BY <1>1, <2>1, MigrationGoes, BackupStepGoes DEF Startup
<1>2. ASSUME NEW p \in Processes, NEW b \in Binaries, Start(p, b) PROVE Goes(p)
  BY <1>2, MigrationGoes
<1>3. ASSUME NEW p \in Processes, Crash(p) PROVE Goes(p)
  BY <1>3, ExitGoes DEF Crash
<1>4. CASE Nightly
  <2>0. Daemon \in Processes /\ Fits(pc[Daemon], loc[Daemon]) /\ loc[Daemon] \in Local
    BY DEF ProcInv, Processes
  <2> DEFINE l == [loc[Daemon] EXCEPT !.nightly = TRUE]
  <2>1. l \in Local /\ l.binary = loc[Daemon].binary /\ l.nightly
    BY <2>0 DEF Local
  <2>2. pc[Daemon] = "serving" /\ pc' = [pc EXCEPT ![Daemon] = "clean"]
        /\ loc' = [loc EXCEPT ![Daemon] = l]
    BY <1>4 DEF Nightly
  <2> HIDE DEF l
  <2>3. Fits("clean", l) /\ "clean" \in Steps
    BY <2>0, <2>1, <2>2 DEF Fits, Backing, Steps
  <2>4. Goes(Daemon)
    BY <2>1, <2>2, <2>3 DEF Goes
  <2>5. QED
    BY <2>0, <2>4, GoesOn
<1>5. CASE EnsureIdentity
  BY <1>5, IdentityGoes, GoesOn DEF Processes
<1>6. CASE NextDay \/ UNCHANGED vars
  BY <1>6 DEF NextDay, vars, ProcInv
<1>7. QED
  BY <1>1, <1>2, <1>3, <1>4, <1>5, <1>6, GoesOn DEF Next

LEMMA FileTypesStep == FileTypes /\ DataInv /\ [Next]_vars => FileTypes'
<1> SUFFICES ASSUME FileTypes, DataInv, [Next]_vars PROVE FileTypes'
  OBVIOUS
<1> USE DEF FileTypes, files
<1>0. NoFile \in File /\ meta.version \in Versions
  BY NewestRelease DEF DataInv, Meta
<1>1. ASSUME NEW dir \in [Days -> File], NEW p \in Processes
      PROVE  Finished(dir, p) \in [Days -> File] /\ Orphaned(dir, p) \in [Days -> File]
  BY DEF Finished, Orphaned, File
<1>2. ASSUME NEW p \in Processes, Clean(p) PROVE FileTypes'
  BY <1>0, <1>2 DEF Clean
<1>3. ASSUME NEW p \in Processes, BeginVacuum(p) PROVE FileTypes'
  <2>1. [version |-> meta.version, state |-> "partial", by |-> p] \in File
    BY <1>0 DEF File
  <2>2. QED
    BY <1>3, <2>1 DEF BeginVacuum
<1>4. ASSUME NEW p \in Processes, EndVacuum(p) PROVE FileTypes'
  BY <1>1, <1>4 DEF EndVacuum
<1>5. ASSUME NEW p \in Processes, Rename(p) PROVE FileTypes'
  <2>1. \A f \in File : Placed(f) \in File
    BY DEF Placed, File
  <2>2. CASE UNCHANGED files
    BY <2>2
  <2>3. CASE ~UNCHANGED files
    <3>1. PICK d : /\ d = loc[p].day
                   /\ snapshots' = [snapshots EXCEPT ![d] = Placed(temps[d])]
                   /\ temps' = [temps EXCEPT ![d] = NoFile]
                   /\ mixed' = (mixed \/ temps[d].by # p)
      BY <1>5, <2>3 DEF Rename
    <3>2. temps' \in [Days -> File] /\ mixed' \in BOOLEAN
      BY <1>0, <3>1
    <3>3. CASE d \in Days
      <4>1. Placed(temps[d]) \in File
        BY <2>1, <3>3
      <4>2. snapshots' \in [Days -> File]
        BY <3>1, <4>1
      <4>3. QED
        BY <3>2, <4>2
    <3>4. CASE d \notin Days
      <4>1. snapshots' = snapshots
        BY <3>1, <3>4
      <4>2. QED
        BY <3>2, <4>1
    <3>5. QED
      BY <3>3, <3>4
  <2>4. QED
    BY <2>2, <2>3
<1>6. ASSUME NEW p \in Processes, Prune(p) PROVE FileTypes'
  BY <1>0, <1>6 DEF Prune
<1>7. ASSUME NEW p \in Processes, Crash(p) PROVE FileTypes'
  BY <1>1, <1>7 DEF Crash
<1>8. ASSUME NEW p \in Processes,
             \/ ReadVersion(p) \/ Apply(p) \/ ListBackups(p) \/ EndBackup(p) \/ Migrated(p)
             \/ \E b \in Binaries : Start(p, b)
      PROVE  FileTypes'
  BY <1>8 DEF ReadVersion, Apply, ListBackups, EndBackup, Migrated, Start
<1>9. CASE EnsureIdentity
  BY <1>9 DEF EnsureIdentity, SetServerID, LoadTLS, GenerateTLS, SetKey, SetCert, SetSpki
<1>10. CASE Nightly \/ NextDay \/ UNCHANGED vars
  BY <1>10 DEF Nightly, NextDay, vars
<1>11. QED
  BY <1>2, <1>3, <1>4, <1>5, <1>6, <1>7, <1>8, <1>9, <1>10 DEF Next, Startup

\* Steps of which the identity, or the count of crashes, knows nothing.
LEMMA MintHeld ==
  ASSUME MintInv, UNCHANGED <<meta, minted>>, crashes' \in 0..MaxCrashes,
         crashes' >= crashes, Owed' >= Owed \/ crashes' > crashes
  PROVE  MintInv'
<1>1. crashes \in Nat /\ crashes' \in Nat /\ Owed \in {0, 1} /\ Owed' \in {0, 1}
      /\ minted.pair \in Nat
  BY StartupAssumption DEF MintInv, Owed
<1>2. minted'.pair <= crashes' + Owed'
  BY <1>1 DEF MintInv
<1>3. QED
  BY <1>2 DEF MintInv

LEMMA MintStep == Shaped /\ Provisioning /\ MintInv /\ [Next]_vars => MintInv'
<1> SUFFICES ASSUME Shaped, Provisioning, MintInv, [Next]_vars PROVE MintInv'
  OBVIOUS
<1> USE DEF Goto, None
<1>0. /\ crashes \in Nat /\ MaxCrashes \in Nat /\ Daemon \in Processes /\ Daemon # Pairing
      /\ crashes <= MaxCrashes
      /\ minted \in [id : Nat, pair : Nat] /\ meta \in AnyMeta /\ loc[Daemon].pair \in Nat
  BY StartupAssumption DEF MintInv, Shaped, Processes, AnyLocal
<1>1. ASSUME UNCHANGED <<meta, minted, crashes>>, pc'[Daemon] = pc[Daemon] \/ pc[Daemon] \notin Writing
      PROVE  MintInv'
  <2>1. Owed' >= Owed
    BY <1>1 DEF Owed
  <2>2. QED
    BY <1>0, <1>1, <2>1, MintHeld
<1>2. ASSUME NEW p \in Processes, Startup(p) \/ \E b \in Binaries : Start(p, b), ~Apply(p)
      PROVE  MintInv'
  <2>1. pc'[Daemon] = pc[Daemon] \/ pc[Daemon] \notin Writing
    BY <1>0, <1>2 DEF Startup, Start, ReadVersion, Clean, BeginVacuum, EndVacuum, Rename, ListBackups,
       Prune, EndBackup, Migrated, BackupFails, Exit, Shaped, Writing
  <2>2. UNCHANGED <<meta, minted, crashes>>
    BY <1>2 DEF Startup, Start, ReadVersion, Clean, BeginVacuum, EndVacuum, Rename, ListBackups,
       Prune, EndBackup, Migrated, database, around
  <2>3. QED
    BY <1>1, <2>1, <2>2
<1>3. ASSUME NEW p \in Processes, Apply(p) PROVE MintInv'
  <2>1. /\ meta'.id = meta.id /\ meta'.key = meta.key /\ meta'.cert = meta.cert
        /\ UNCHANGED <<minted, crashes>>
    BY <1>0, <1>3 DEF Apply, AnyMeta, around
  <2>2. pc'[Daemon] = pc[Daemon] \/ (pc[Daemon] \notin Writing /\ pc'[Daemon] \notin Writing)
    BY <1>0, <1>3 DEF Apply, Exit, Shaped, Writing
  <2>3. Owed' = Owed
    BY <2>1, <2>2 DEF Owed
  <2>4. QED
    BY <2>1, <2>3 DEF MintInv
<1>4. ASSUME NEW p \in Processes, Crash(p) PROVE MintInv'
  <2>1. crashes' = crashes + 1 /\ crashes < MaxCrashes /\ UNCHANGED <<meta, minted>>
    BY <1>4 DEF Crash, database
  <2>2. crashes' > crashes /\ crashes' \in 0..MaxCrashes
    BY <1>0, <2>1
  <2>3. QED
    BY <1>0, <2>1, <2>2, MintHeld
<1>5. CASE SetServerID
  <2>1. /\ meta.id = 0 /\ minted.id = 0
    BY <1>0, <1>5 DEF SetServerID, Provisioning, MintInv
  <2>2. /\ minted'.id = 1 /\ minted'.pair = minted.pair /\ minted' \in [id : Nat, pair : Nat]
        /\ meta'.id = 1 /\ meta'.key = meta.key /\ meta'.cert = meta.cert /\ crashes' = crashes
    BY <1>0, <1>5, <2>1 DEF SetServerID, AnyMeta, around
  <2>3. pc[Daemon] \notin Writing /\ pc'[Daemon] \notin Writing
    BY <1>0, <1>5 DEF SetServerID, Shaped, Writing
  <2>4. Owed' = Owed
    BY <2>2, <2>3 DEF Owed
  <2>5. QED
    BY <2>2, <2>4 DEF MintInv
<1>6. CASE LoadTLS
  <2>1. pc[Daemon] \notin Writing /\ UNCHANGED <<meta, minted, crashes>>
    BY <1>6 DEF LoadTLS, database, around, Writing
  <2>2. QED
    BY <1>1, <2>1
<1>7. CASE GenerateTLS
  <2>1. /\ pc[Daemon] \notin Writing /\ (meta.key = 0 \/ meta.cert = 0)
        /\ pc'[Daemon] \in Writing /\ UNCHANGED <<meta, crashes>>
    BY <1>0, <1>7 DEF GenerateTLS, around, Shaped, Writing
  <2>2. Owed = 0 /\ Owed' = 1
    BY <2>1 DEF Owed
  <2>3. minted'.pair = minted.pair + 1 /\ minted'.id = minted.id /\ minted' \in [id : Nat, pair : Nat]
    BY <1>0, <1>7 DEF GenerateTLS
  <2>4. minted.pair \in Nat /\ minted.pair <= crashes
    BY <1>0, <2>2 DEF MintInv
  <2>5. minted'.pair <= crashes' + Owed'
    BY <1>0, <2>1, <2>2, <2>3, <2>4
  <2>6. QED
    BY <2>1, <2>3, <2>5 DEF MintInv
<1>8. CASE SetKey \/ SetCert \/ SetSpki
  <2>1. /\ pc[Daemon] \in Writing /\ UNCHANGED <<minted, crashes>> /\ meta'.id = meta.id
    BY <1>0, <1>8 DEF SetKey, SetCert, SetSpki, around, AnyMeta, Writing
  <2>2. CASE SetKey \/ SetCert
    <3>1. pc'[Daemon] \in Writing
      BY <1>0, <2>2 DEF SetKey, SetCert, Shaped, Writing
    <3>2. QED
      BY <2>1, <3>1 DEF MintInv, Owed
  <2>3. CASE SetSpki
    <3>1. meta'.key = meta.key /\ meta'.cert = meta.cert
      BY <1>0, <2>3 DEF SetSpki, AnyMeta
    <3>2. meta.cert # 0 /\ meta.key # 0
      BY <2>3 DEF SetSpki, Provisioning
    <3>3. QED
      BY <2>1, <3>1, <3>2 DEF MintInv, Owed
  <2>4. QED
    BY <1>8, <2>2, <2>3
<1>9. CASE Nightly \/ NextDay \/ UNCHANGED vars
  <2>1. UNCHANGED <<meta, minted, crashes>> /\ (pc'[Daemon] = pc[Daemon] \/ pc[Daemon] \notin Writing)
    BY <1>9 DEF Nightly, NextDay, vars, database, around, Writing
  <2>2. QED
    BY <1>1, <2>1
<1>10. QED
  BY <1>2, <1>3, <1>4, <1>5, <1>6, <1>7, <1>8, <1>9 DEF Next, EnsureIdentity

\* No more is generated than the ids there are.
LEMMA MintedIds ==
  /\ MintInv => minted.id \in Ids /\ minted.pair \in Ids
  /\ MintInv' => minted'.id \in Ids /\ minted'.pair \in Ids
<1>1. ASSUME NEW i \in Nat, NEW n \in Nat, NEW c \in 0..MaxCrashes, NEW owed \in {0, 1},
             i <= 1, n <= c + owed
      PROVE  i \in Ids /\ n \in Ids
  <2>1. c \in Nat /\ MaxCrashes \in Nat /\ c <= MaxCrashes
    BY StartupAssumption
  <2>2. QED
    BY <1>1, <2>1 DEF Ids
<1>2. Owed \in {0, 1} /\ Owed' \in {0, 1}
  BY DEF Owed
<1>3. MintInv => minted.id \in Nat /\ minted.pair \in Nat
  BY DEF MintInv
<1>4. MintInv' => minted'.id \in Nat /\ minted'.pair \in Nat
  BY DEF MintInv
<1>5. QED
  BY <1>1, <1>2, <1>3, <1>4 DEF MintInv

LEMMA DataStep == TypesInv /\ MintInv' /\ [Next]_vars => DataInv'
<1> SUFFICES ASSUME ProcInv, DataInv, MintInv', [Next]_vars PROVE DataInv'
  BY DEF TypesInv
<1> USE DEF DataInv
<1>0. /\ minted'.id \in Ids /\ minted'.pair \in Ids
      /\ Daemon \in Processes /\ loc[Daemon] \in Local /\ loc[Daemon].pair \in Ids
  BY MintedIds DEF ProcInv, Local, Processes
<1>1. ASSUME UNCHANGED <<day, schema, meta, identities>> PROVE DataInv'
  BY <1>1
<1>2. ASSUME NEW p \in Processes,
             \/ (Startup(p) /\ ~Apply(p)) \/ Crash(p) \/ \E b \in Binaries : Start(p, b)
             \/ Nightly
      PROVE  DataInv'
  BY <1>1, <1>2 DEF Startup, Start, ReadVersion, Clean, BeginVacuum, EndVacuum, Rename, ListBackups,
     Prune, EndBackup, Migrated, Crash, Nightly, database, around
<1>3. ASSUME NEW p \in Processes, Apply(p) PROVE DataInv'
  <2>1. CASE UNCHANGED <<schema, meta>>
    BY <1>1, <1>3, <2>1 DEF Apply, around
  <2>2. CASE ~UNCHANGED <<schema, meta>>
    <3>1. /\ pc[p] = "apply" /\ schema' = schema \cup {loc[p].next}
          /\ meta' = [meta EXCEPT !.version = loc[p].next] /\ UNCHANGED <<day, identities>>
      BY <1>3, <2>2 DEF Apply, around
    <3>2. Fits(pc[p], loc[p]) /\ loc[p] \in Local
      BY DEF ProcInv
    <3>3. loc[p].binary \in Binaries /\ loc[p].next <= loc[p].binary
          /\ loc[p].next \in 1..(Max(Binaries) + 1)
      BY <3>1, <3>2 DEF Fits, Backing, Local
    <3>4. loc[p].next \in Versions
      BY <3>3, NewestRelease DEF Versions
    <3>5. QED
      BY <3>1, <3>4 DEF Meta
  <2>3. QED
    BY <2>1, <2>2
<1>4. CASE EnsureIdentity
  <2>1. meta' \in Meta
    BY <1>0, <1>4 DEF EnsureIdentity, SetServerID, LoadTLS, GenerateTLS, SetKey, SetCert, SetSpki,
       database, Meta
  <2>2. UNCHANGED <<day, schema>>
    BY <1>4 DEF EnsureIdentity, SetServerID, LoadTLS, GenerateTLS, SetKey, SetCert, SetSpki,
       database, around
  <2>3. <<meta.id, meta.key>> \in Ids \X Ids
    BY DEF Meta
  <2>4. identities' \in {identities, identities \cup {<<meta.id, meta.key>>}}
    BY <1>4 DEF EnsureIdentity, SetServerID, LoadTLS, GenerateTLS, SetKey, SetCert, SetSpki, Served
  <2>5. QED
    BY <2>1, <2>2, <2>3, <2>4
<1>5. CASE NextDay
  <2>1. day' \in Days
    BY <1>5, StartupAssumption DEF NextDay, Days
  <2>2. QED
    BY <1>5, <2>1 DEF NextDay, database
<1>6. CASE UNCHANGED vars
  BY <1>1, <1>6 DEF vars
<1>7. QED
  BY <1>0, <1>2, <1>3, <1>4, <1>5, <1>6 DEF Next

LEMMA TypesInit == Init => TypesInv
<1> SUFFICES ASSUME Init PROVE TypesInv
  OBVIOUS
<1> USE NewestRelease DEF Init
<1>1. ProcInv
  BY DEF ProcInv, Fits, NoLocal, Backing, Steps
<1>2. MintInv
  BY StartupAssumption DEF MintInv, Owed, NoMeta, None, Writing
<1>3. FileTypes
  BY DEF FileTypes
<1>4. NoMeta \in Meta /\ 1 \in Days
  BY StartupAssumption DEF NoMeta, Meta, None, Days
<1>5. DataInv
  BY <1>4 DEF DataInv
<1>6. QED
  BY <1>1, <1>2, <1>3, <1>5 DEF TypesInv

\* Every reachable state has its types, for any releases, days and crashes: no version
\* beyond the newest release is recorded, backed up or asked for, and one id and one key
\* pair for each interrupted start are all that is ever generated.
THEOREM StartupTypes == Spec => []TypeOK
<1>1. Init => SchemaInv /\ IdentityInv /\ TypesInv
  BY SchemaInit, IdentityInit, TypesInit
<1>2. SchemaInv /\ IdentityInv /\ TypesInv /\ [Next]_vars => (SchemaInv /\ IdentityInv /\ TypesInv)'
  <2> SUFFICES ASSUME SchemaInv, IdentityInv, TypesInv, [Next]_vars
               PROVE  (SchemaInv /\ IdentityInv /\ TypesInv)'
    OBVIOUS
  <2>1. SchemaInv' /\ IdentityInv'
    BY SchemaStep, IdentityStep
  <2>2. MintInv'
    BY MintStep DEF IdentityInv, TypesInv
  <2>3. minted'.pair \in Ids
    BY <2>2, MintedIds
  <2>4. ProcInv' /\ FileTypes' /\ DataInv'
    BY <2>2, <2>3, ProcStep, FileTypesStep, DataStep DEF TypesInv
  <2>5. QED
    BY <2>1, <2>2, <2>4 DEF TypesInv
<1>3. TypesInv => TypeOK
  <2>1. TypesInv => minted \in [id : Ids, pair : Ids]
    <3>1. MintInv => minted \in [id : Nat, pair : Nat]
      BY DEF MintInv
    <3>2. QED
      BY <3>1, MintedIds DEF TypesInv
  <2>2. QED
    BY <2>1 DEF TypesInv, ProcInv, FileTypes, DataInv, TypeOK
<1>4. QED
  BY <1>1, <1>2, <1>3, PTL DEF Spec
=============================================================================
