------------------------------ MODULE Library ------------------------------
(***************************************************************************)
(* Placing uploads in the library: library/place.go over the blobs, items  *)
(* and album_stats tables of the store.  A placement is a sequence of      *)
(* reads of the store, one rename on the file system and two write         *)
(* transactions, so other calls and failures come between any two of them. *)
(*                                                                         *)
(* The commit that calls Place is not in the repository: it is modelled    *)
(* from place.go's contract and from persist in place_test.go.  It holds   *)
(* one lock per requested path (D-13, decision 12) until its rows are in.  *)
(*                                                                         *)
(* A path is <<folder, name>>: a folder stands for album/year/month, and   *)
(* the collision suffix of D-13 is appended to it.  A file is the hash of  *)
(* its bytes: the hard links of one inode differ in nothing but the path.  *)
(***************************************************************************)
EXTENDS Integers, Sequences, FiniteSets, FiniteSetsExt

CONSTANTS
  Callers,     \* requests that may be placing at once
  Hashes,      \* SHA-256 of an upload: its identity and its bytes
  Requested,   \* sanitised paths that clients ask for
  Prefix,      \* the first eight hex digits of each hash
  Size,        \* size_bytes of each blob
  Captured,    \* captured_at_ms of each blob
  None,        \* no hash, no path
  MaxCalls,    \* calls of Place
  MaxDeletes,  \* calls of DeleteItem
  MaxFails     \* calls cut short by an error or by the end of the process

SuffixedFilename(path, h) == Append(path, Prefix[h])

Paths == Requested \cup {SuffixedFilename(p, h) : p \in Requested, h \in Hashes}

ASSUME LibraryAssumption ==
  /\ Size \in [Hashes -> Nat \ {0}]
  /\ Captured \in [Hashes -> Nat]
  /\ Prefix \in [Hashes -> STRING]
  /\ Requested \subseteq Seq(STRING)
  /\ \A p \in Requested : Len(p) >= 2
  /\ None \notin Hashes /\ None \notin Paths
  /\ MaxCalls \in Nat /\ MaxDeletes \in Nat /\ MaxFails \in Nat

Folder(path) == path[1]
Folders == {Folder(p) : p \in Requested}

VARIABLES
  files,   \* the bytes at each path under library/
  staged,  \* uploads complete in staging/<hash>.part
  blobs,   \* the blobs table: rel_path of each hash
  items,   \* the items table: the hash placed at each rel_path
  stats,   \* the album_stats table
  pc,      \* what each call does next
  req,     \* what each call was asked and has read so far
  calls, deletes, fails,
  freed    \* <<hash, path>> whose item was deleted, or never inserted

vars == <<files, staged, blobs, items, stats, pc, req, calls, deletes, fails, freed>>

-----------------------------------------------------------------------------
(* State *)

Steps == {"idle", "base", "suffix", "stat", "rename", "blob", "link",
          "publish", "insertBlob", "insertItem"}
Request == [hash : Hashes, asked : Requested, path : Paths,
            src : Paths \cup {None}, content : Hashes \cup {None}]
NoRequest == [hash |-> None]
AlbumStat == [count : Nat, size : Nat, latest : Nat]
NoStat == [count |-> 0, size |-> 0, latest |-> 0]

\* The types, and the foreign key from items to blobs.
TypeOK ==
  /\ files \in [Paths -> Hashes \cup {None}]
  /\ staged \subseteq Hashes
  /\ blobs \in [Hashes -> Paths \cup {None}]
  /\ items \in [Paths -> Hashes \cup {None}]
  /\ \A p \in Paths : items[p] # None => blobs[items[p]] # None
  /\ stats \in [Folders -> AlbumStat]
  /\ pc \in [Callers -> Steps]
  /\ req \in [Callers -> Request \cup {NoRequest}]
  /\ calls \in 0..MaxCalls /\ deletes \in 0..MaxDeletes /\ fails \in 0..MaxFails
  /\ freed \subseteq Hashes \X Paths

Init ==
  /\ files = [p \in Paths |-> None]
  /\ staged = {}
  /\ blobs = [h \in Hashes |-> None]
  /\ items = [p \in Paths |-> None]
  /\ stats = [f \in Folders |-> NoStat]
  /\ pc = [r \in Callers |-> "idle"]
  /\ req = [r \in Callers |-> NoRequest]
  /\ calls = 0 /\ deletes = 0 /\ fails = 0
  /\ freed = {}

-----------------------------------------------------------------------------
(* Album counters, each change in the transaction of its item *)

AddToAlbumStats(stat, h) ==
  [count  |-> stat.count + 1,
   size   |-> stat.size + Size[h],
   latest |-> Max({stat.latest, Captured[h]})]

\* Capture times of the items of a folder, but the one at path.
OthersCaptured(path) ==
  {Captured[items[p]] :
     p \in {q \in Paths \ {path} : items[q] # None /\ Folder(q) = Folder(path)}}

\* A bug: the newest capture time is left as it was.
RemoveButKeepLatest(stat, path) ==
  IF stat.count <= 1
  THEN NoStat
  ELSE [stat EXCEPT !.count = @ - 1, !.size = @ - Size[items[path]]]

RemoveFromAlbumStats(stat, path) ==
  IF stat.count <= 1
  THEN NoStat
  ELSE [count  |-> stat.count - 1,
        size   |-> stat.size - Size[items[path]],
        latest |-> Max({0} \cup OthersCaptured(path))]

-----------------------------------------------------------------------------
(* Place, one action per read or write *)

Goto(r, step) == pc' = [pc EXCEPT ![r] = step]
Return(r) ==
  /\ Goto(r, "idle")
  /\ req' = [req EXCEPT ![r] = NoRequest]

rows == <<blobs, items, stats>>
counters == <<calls, deletes, fails>>

\* A bug: nobody takes the lock of the requested path.
BeginUnlocked(r) ==
  /\ pc[r] = "idle"
  /\ calls < MaxCalls
  /\ \E h \in Hashes, p \in Requested :
       req' = [req EXCEPT ![r] = [hash |-> h, asked |-> p, path |-> p,
                                  src |-> None, content |-> None]]
  /\ Goto(r, "base")
  /\ calls' = calls + 1
  /\ UNCHANGED <<files, staged, rows, deletes, fails, freed>>

\* The commit or preflight takes the lock of the requested path.
Begin(r) ==
  /\ pc[r] = "idle"
  /\ calls < MaxCalls
  /\ \E h \in Hashes, p \in Requested :
       /\ \A other \in Callers : pc[other] # "idle" => req[other].asked # p
       /\ req' = [req EXCEPT ![r] = [hash |-> h, asked |-> p, path |-> p,
                                     src |-> None, content |-> None]]
  /\ Goto(r, "base")
  /\ calls' = calls + 1
  /\ UNCHANGED <<files, staged, rows, deletes, fails, freed>>

\* A bug: the path is used whoever holds it.
ResolveBaseUnchecked(r) ==
  /\ pc[r] = "base"
  /\ Goto(r, "stat")
  /\ UNCHANGED <<files, staged, rows, req, counters, freed>>

\* A bug: a blob already placed at the path is taken for another one.
ResolveBaseFanningOut(r) ==
  /\ pc[r] = "base"
  /\ IF items[req[r].path] = None
     THEN Goto(r, "stat") /\ UNCHANGED req
     ELSE /\ Goto(r, "suffix")
          /\ req' = [req EXCEPT ![r].path = SuffixedFilename(@, req[r].hash)]
  /\ UNCHANGED <<files, staged, rows, counters, freed>>

\* Free, already this blob (the call is done), or another's.
ResolveBase(r) ==
  /\ pc[r] = "base"
  /\ \/ items[req[r].path] = None /\ Goto(r, "stat") /\ UNCHANGED req
     \/ items[req[r].path] = req[r].hash /\ Return(r)
     \/ /\ items[req[r].path] \notin {None, req[r].hash}
        /\ Goto(r, "suffix")
        /\ req' = [req EXCEPT ![r].path = SuffixedFilename(@, req[r].hash)]
  /\ UNCHANGED <<files, staged, rows, counters, freed>>

\* A bug: the suffix is trusted to be unique.
ResolveSuffixedUnchecked(r) ==
  /\ pc[r] = "suffix"
  /\ Goto(r, "stat")
  /\ UNCHANGED <<files, staged, rows, req, counters, freed>>

\* Free, already this blob, or ErrCollision.
ResolveSuffixed(r) ==
  /\ pc[r] = "suffix"
  /\ \/ items[req[r].path] = None /\ Goto(r, "stat") /\ UNCHANGED req
     \/ items[req[r].path] # None /\ Return(r)
  /\ UNCHANGED <<files, staged, rows, counters, freed>>

StatStaged(r) ==
  /\ pc[r] = "stat"
  /\ Goto(r, IF req[r].hash \in staged THEN "rename" ELSE "blob")
  /\ UNCHANGED <<files, staged, rows, req, counters, freed>>

\* rename(2) replaces whatever is at the path; without its source it fails.
RenameStaged(r) ==
  /\ pc[r] = "rename"
  /\ \/ /\ req[r].hash \in staged
        /\ files' = [files EXCEPT ![req[r].path] = req[r].hash]
        /\ staged' = staged \ {req[r].hash}
        /\ Goto(r, "insertBlob")
        /\ UNCHANGED req
     \/ /\ req[r].hash \notin staged
        /\ Return(r)
        /\ UNCHANGED <<files, staged>>
  /\ UNCHANGED <<rows, counters, freed>>

\* BlobByHash; ErrNoSource when there is no row.
LookupBlob(r) ==
  /\ pc[r] = "blob"
  /\ \/ /\ blobs[req[r].hash] # None
        /\ req' = [req EXCEPT ![r].src = blobs[req[r].hash]]
        /\ Goto(r, "link")
     \/ blobs[req[r].hash] = None /\ Return(r)
  /\ UNCHANGED <<files, staged, rows, counters, freed>>

\* link(2) of what the canonical path holds at this moment.
LinkCanonical(r) ==
  /\ pc[r] = "link"
  /\ req' = [req EXCEPT ![r].content = files[req[r].src]]
  /\ Goto(r, "publish")
  /\ UNCHANGED <<files, staged, rows, counters, freed>>

Publish(r) ==
  /\ pc[r] = "publish"
  /\ files' = [files EXCEPT ![req[r].path] = req[r].content]
  /\ Goto(r, "insertBlob")
  /\ UNCHANGED <<staged, rows, req, counters, freed>>

-----------------------------------------------------------------------------
(* What the commit does with the placement, two transactions *)

\* InsertBlob; ErrAlreadyExists is a duplicate, not a failure.
InsertBlob(r) ==
  /\ pc[r] = "insertBlob"
  /\ blobs' = [blobs EXCEPT ![req[r].hash] = IF @ = None THEN req[r].path ELSE @]
  /\ Goto(r, "insertItem")
  /\ UNCHANGED <<files, staged, items, stats, req, counters, freed>>

\* InsertItem and its counters in one transaction; rel_path is unique.
InsertItem(r) ==
  LET h == req[r].hash
      path == req[r].path IN
  /\ pc[r] = "insertItem"
  /\ blobs[h] # None
  /\ items[path] = None
  /\ items' = [items EXCEPT ![path] = h]
  /\ stats' = [stats EXCEPT ![Folder(path)] = AddToAlbumStats(@, h)]
  /\ Return(r)
  /\ UNCHANGED <<files, staged, blobs, counters, freed>>

\* Any store or file-system call may fail, and a dying process fails all calls.
Fail(r) ==
  /\ pc[r] # "idle"
  /\ fails < MaxFails
  /\ fails' = fails + 1
  /\ freed' = IF pc[r] = "insertItem"
              THEN freed \cup {<<req[r].hash, req[r].path>>}
              ELSE freed
  /\ Return(r)
  /\ UNCHANGED <<files, staged, rows, calls, deletes>>

\* A bug: the blob's row goes with the first of its items.
DeleteItemAndBlob(path) ==
  /\ items[path] # None
  /\ deletes < MaxDeletes
  /\ items' = [items EXCEPT ![path] = None]
  /\ blobs' = [blobs EXCEPT ![items[path]] = None]
  /\ stats' = [stats EXCEPT ![Folder(path)] = RemoveFromAlbumStats(@, path)]
  /\ deletes' = deletes + 1
  /\ freed' = freed \cup {<<items[path], path>>}
  /\ UNCHANGED <<files, staged, pc, req, calls, fails>>

\* DeleteItem and its counters in one transaction; blob and file stay.
DeleteItem(path) ==
  /\ items[path] # None
  /\ deletes < MaxDeletes
  /\ items' = [items EXCEPT ![path] = None]
  /\ stats' = [stats EXCEPT ![Folder(path)] = RemoveFromAlbumStats(@, path)]
  /\ deletes' = deletes + 1
  /\ freed' = freed \cup {<<items[path], path>>}
  /\ UNCHANGED <<files, staged, blobs, pc, req, calls, fails>>

\* The upload of a client is complete: its .part file is whole.
Upload(h) ==
  /\ h \notin staged
  /\ calls < MaxCalls
  /\ staged' = staged \cup {h}
  /\ UNCHANGED <<files, rows, pc, req, counters, freed>>

Place(r) ==
  \/ ResolveBase(r) \/ ResolveSuffixed(r)
  \/ StatStaged(r) \/ RenameStaged(r)
  \/ LookupBlob(r) \/ LinkCanonical(r) \/ Publish(r)

Next ==
  \/ \E r \in Callers : Begin(r) \/ Place(r) \/ InsertBlob(r) \/ InsertItem(r) \/ Fail(r)
  \/ \E path \in Paths : DeleteItem(path)
  \/ \E h \in Hashes : Upload(h)

Spec == Init /\ [][Next]_vars

-----------------------------------------------------------------------------
(* Properties *)

\* The canonical file of a hash may have been given to another placement: the
\* item at its path was deleted, or the commit stopped before inserting it.
Exposed(h) == <<h, blobs[h]>> \in freed

\* An album really contains the photo its item records (S6): every item's file
\* exists and holds the item's bytes, however calls, failures and deletions
\* interleave, unless the canonical file it was linked from was exposed.
ItemBytes ==
  \A p \in Paths :
    items[p] # None => files[p] = items[p] \/ Exposed(items[p])

\* A blobs row is written only once its file is in the library (S1), and while
\* its path is not exposed that file keeps the blob's bytes.
CanonicalBytes ==
  \A h \in Hashes :
    blobs[h] # None =>
      /\ files[blobs[h]] # None
      /\ files[blobs[h]] = h \/ Exposed(h)

\* Two phones' photos of one name do not overwrite one another (D-13): no step
\* changes the bytes at a path an item records.
RecordedFileKept ==
  [][\A p \in Paths : items[p] # None => files'[p] = files[p]]_vars

\* Retries never fan out (D-13): a blob is at a name and at the suffixed form of
\* that name only if a deletion has freed the name in between.
RetriesDoNotFanOut ==
  \A p \in Requested, h \in Hashes :
    items[p] = h /\ items[SuffixedFilename(p, h)] = h =>
      \E other \in Hashes \ {h} : <<other, p>> \in freed

\* album_stats is the aggregate over items (S3), at every commit: what
\* DeriveAlbumStats would compute.
Placed(f) == {p \in Paths : Folder(p) = f /\ items[p] # None}

StatsAreAggregate ==
  \A f \in Folders :
    stats[f] = [count  |-> Cardinality(Placed(f)),
                size   |-> MapThenSumSet(LAMBDA p : Size[items[p]], Placed(f)),
                latest |-> Max({0} \cup {Captured[items[p]] : p \in Placed(f)})]

\* What one sees in the library: the items, with the bytes at their paths.
Shown == [p \in Paths |-> IF items[p] = None THEN <<>> ELSE <<items[p], files[p]>>]
Given == {lost[1] : lost \in freed}

Archived == INSTANCE Archive WITH photos <- Shown, given <- Given

\* Every step of every call is at most one step of Archive: an item appears with its
\* whole file (S1, S6), and what is seen at its path stays until it is deleted (D-13).
ImplementsArchive == Archived!Spec

\* place.go's claim for hard links: the album of a second placement really does
\* contain the photo.
AlbumContainsPhoto == \A p \in Paths : items[p] # None => files[p] = items[p]
=============================================================================
