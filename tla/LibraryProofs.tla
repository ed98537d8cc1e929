---------------------------- MODULE LibraryProofs ----------------------------
(***************************************************************************)
(* What holds of files and rows for any number of placements, hashes,      *)
(* names, deletions and failures: of the counters and the types whatever   *)
(* is asked for, of the files as long as no client asks for a name that is *)
(* the suffixed form of another one.                                       *)
(***************************************************************************)
EXTENDS Library, SequenceTheorems, AggregateLemmas

\* Two placements that may end at one path ask for one path, and so hold one
\* lock.  The code does not enforce it: IMG__a1b2c3d4.jpg is a legal upload.
NoLiteralSuffix ==
  \A p \in Requested, q \in Requested, h \in Hashes : SuffixedFilename(p, h) # q

-----------------------------------------------------------------------------
(* The invariant *)

Active(r) == pc[r] # "idle"
Resolved == {"stat", "rename", "blob", "link", "publish", "insertBlob", "insertItem"}
Installed == {"insertBlob", "insertItem"}

\* The counters of the albums are left out: they bear on nothing else.
TypeInv ==
  /\ files \in [Paths -> Hashes \cup {None}]
  /\ staged \subseteq Hashes
  /\ blobs \in [Hashes -> Paths \cup {None}]
  /\ items \in [Paths -> Hashes \cup {None}]
  /\ pc \in [Callers -> Steps]
  /\ req \in [Callers -> Request \cup {NoRequest}]
  /\ \A r \in Callers : Active(r) => req[r] \in Request
  /\ freed \subseteq Hashes \X Paths

\* What each call has read is kept with it.
ReadInv ==
  \A r \in Callers :
    /\ pc[r] = "base" => req[r].path = req[r].asked
    /\ pc[r] = "link" => req[r].src # None /\ req[r].src = blobs[req[r].hash]

\* The placement lock: the calls in progress asked for different paths, so they
\* end at different ones.
LockInv ==
  /\ \A r \in Callers : Active(r) =>
       req[r].path \in {req[r].asked, SuffixedFilename(req[r].asked, req[r].hash)}
  /\ \A r \in Callers, s \in Callers : Active(r) /\ Active(s) /\ r # s =>
       req[r].asked # req[s].asked

\* The path a call was given stays free until the call takes it.
FreeInv ==
  \A r \in Callers : pc[r] \in Resolved => items[req[r].path] = None

\* h's bytes, or what another placement put over them.
Holds(h, content) == content # None /\ (content = h \/ Exposed(h))

\* The bytes on their way into the library, and in it.
FileInv ==
  /\ \A r \in Callers : pc[r] = "publish" => Holds(req[r].hash, req[r].content)
  /\ \A r \in Callers : pc[r] \in Installed => Holds(req[r].hash, files[req[r].path])
  /\ \A h \in Hashes : blobs[h] # None => Holds(h, files[blobs[h]])
  /\ \A p \in Paths : items[p] # None => Holds(items[p], files[p])

\* The canonical path of a blob is an item's, or about to become one, until it
\* is exposed.
OwnerInv ==
  /\ \A r \in Callers : pc[r] = "publish" => blobs[req[r].hash] # None
  /\ \A r \in Callers : pc[r] = "insertItem" => blobs[req[r].hash] # None
  /\ \A h \in Hashes : blobs[h] # None =>
       \/ Exposed(h)
       \/ items[blobs[h]] = h
       \/ \E r \in Callers : pc[r] = "insertItem" /\ req[r].hash = h /\ req[r].path = blobs[h]

\* A name was suffixed because another blob was at the plain one.
Occupied(p, h) == \E other \in Hashes \ {h} : items[p] = other \/ <<other, p>> \in freed
SuffixInv ==
  /\ \A r \in Callers : Active(r) =>
       req[r].path = req[r].asked \/ Occupied(req[r].asked, req[r].hash)
  /\ \A p \in Requested, h \in Hashes :
       items[SuffixedFilename(p, h)] # None => Occupied(p, items[SuffixedFilename(p, h)])

Inv == TypeInv /\ ReadInv /\ LockInv /\ FreeInv /\ FileInv /\ OwnerInv /\ SuffixInv

-----------------------------------------------------------------------------
(* Names and requests *)

\* Only one name has a given suffixed form.
LEMMA SuffixedOfOne ==
  ASSUME NEW p \in Requested, NEW q \in Requested, NEW g \in Hashes, NEW h \in Hashes,
         SuffixedFilename(p, g) = SuffixedFilename(q, h)
  PROVE  p = q
<1>1. p \in Seq(STRING) /\ q \in Seq(STRING) /\ Prefix[g] \in STRING /\ Prefix[h] \in STRING
  BY LibraryAssumption
<1>2. Append(p, Prefix[g]) = Append(q, Prefix[h])
  BY DEF SuffixedFilename
<1>3. QED
  BY <1>1, <1>2, AppendInjective

LEMMA PathsOfARequest ==
  /\ Requested \subseteq Paths
  /\ \A p \in Requested, h \in Hashes : SuffixedFilename(p, h) \in Paths
BY DEF Paths

\* What a call reads and keeps changes nothing else of its request.
LEMMA RequestUpdates ==
  ASSUME NEW k \in Request
  PROVE  /\ k.hash \in Hashes /\ k.asked \in Requested /\ k.path \in Paths
         /\ k # NoRequest
         /\ \A q \in Paths : [k EXCEPT !.path = q] \in Request
         /\ \A q \in Paths : [k EXCEPT !.src = q] \in Request
         /\ \A h \in Hashes \cup {None} : [k EXCEPT !.content = h] \in Request
<1>1. k.hash \in Hashes /\ k.asked \in Requested /\ k.path \in Paths
  BY DEF Request
<1>2. k # NoRequest
  BY <1>1, LibraryAssumption DEF NoRequest
<1>3. \A q \in Paths : [k EXCEPT !.path = q] \in Request
  BY DEF Request
<1>4. \A q \in Paths : [k EXCEPT !.src = q] \in Request
  BY DEF Request
<1>5. \A h \in Hashes \cup {None} : [k EXCEPT !.content = h] \in Request
  BY DEF Request
<1>6. QED
  BY <1>1, <1>2, <1>3, <1>4, <1>5

\* The calls in progress end at different paths.
LEMMA PathsApart ==
  ASSUME NoLiteralSuffix, TypeInv, LockInv,
         NEW r \in Callers, NEW s \in Callers, Active(r), Active(s), r # s
  PROVE  req[r].path # req[s].path
<1> DEFINE p == req[r].asked
           q == req[s].asked
<1>1. req[r] \in Request /\ req[s] \in Request
  BY DEF TypeInv
<1>2. p \in Requested /\ q \in Requested /\ req[r].hash \in Hashes /\ req[s].hash \in Hashes
  BY <1>1, RequestUpdates
<1>3. p # q
  BY DEF LockInv
<1>4. /\ req[r].path \in {p, SuffixedFilename(p, req[r].hash)}
      /\ req[s].path \in {q, SuffixedFilename(q, req[s].hash)}
  BY DEF LockInv
<1>5. SuffixedFilename(p, req[r].hash) # SuffixedFilename(q, req[s].hash)
  BY <1>2, <1>3, SuffixedOfOne
<1>6. SuffixedFilename(p, req[r].hash) # q /\ SuffixedFilename(q, req[s].hash) # p
  BY <1>2 DEF NoLiteralSuffix
<1>7. QED
  BY <1>3, <1>4, <1>5, <1>6

-----------------------------------------------------------------------------
(* What the steps that change a request do to it *)

OthersWait(r) == \A s \in Callers \ {r} : pc'[s] = pc[s] /\ req'[s] = req[s]

LEMMA BeginEffect ==
  ASSUME TypeInv, NEW r \in Callers, Begin(r)
  PROVE  /\ OthersWait(r) /\ UNCHANGED <<files, blobs, items, freed>>
         /\ pc'[r] = "base" /\ req'[r].path = req'[r].asked /\ req'[r].asked \in Requested
         /\ \A s \in Callers : Active(s) => req[s].asked # req'[r].asked
<1>1. PICK h \in Hashes, p \in Requested :
        /\ \A other \in Callers : pc[other] # "idle" => req[other].asked # p
        /\ req' = [req EXCEPT ![r] = [hash |-> h, asked |-> p, path |-> p,
                                      src |-> None, content |-> None]]
  BY DEF Begin
<1>2. req'[r].path = p /\ req'[r].asked = p
  BY <1>1 DEF TypeInv
<1>3. QED
  BY <1>1, <1>2 DEF Begin, Goto, OthersWait, TypeInv, Active, rows

LEMMA BaseEffect ==
  ASSUME TypeInv, ReadInv, NEW r \in Callers, ResolveBase(r)
  PROVE  /\ OthersWait(r) /\ UNCHANGED <<files, blobs, items, freed>>
         /\ pc[r] = "base" /\ req[r] \in Request /\ req[r].path = req[r].asked
         /\ \/ pc'[r] = "stat" /\ req'[r] = req[r] /\ items[req[r].path] = None
            \/ pc'[r] = "idle"
            \/ /\ pc'[r] = "suffix"
               /\ req'[r].hash = req[r].hash /\ req'[r].asked = req[r].asked
               /\ req'[r].path = SuffixedFilename(req[r].asked, req[r].hash)
               /\ items[req[r].asked] \in Hashes \ {req[r].hash}
<1>1. pc[r] = "base" /\ req[r] \in Request /\ req[r].path = req[r].asked
  BY DEF ResolveBase, TypeInv, Active, ReadInv
<1>2. OthersWait(r) /\ UNCHANGED <<files, blobs, items, freed>>
  BY DEF ResolveBase, OthersWait, Goto, Return, TypeInv, rows
<1>3. req[r].path \in Paths /\ items[req[r].path] \in Hashes \cup {None}
  BY <1>1, RequestUpdates DEF TypeInv
<1>4. CASE items[req[r].path] \notin {None, req[r].hash}
  <2>1. pc'[r] = "suffix" /\ req'[r] = [req[r] EXCEPT !.path = SuffixedFilename(@, req[r].hash)]
    BY <1>4 DEF ResolveBase, Goto, TypeInv
  <2>2. /\ req'[r].hash = req[r].hash /\ req'[r].asked = req[r].asked
        /\ req'[r].path = SuffixedFilename(req[r].path, req[r].hash)
    BY <1>1, <2>1 DEF Request
  <2>3. QED
    BY <1>1, <1>2, <1>3, <1>4, <2>1, <2>2
<1>5. CASE items[req[r].path] \in {None, req[r].hash}
  <2>1. \/ pc'[r] = "stat" /\ req'[r] = req[r] /\ items[req[r].path] = None
        \/ pc'[r] = "idle"
    BY <1>5 DEF ResolveBase, Goto, Return, TypeInv
  <2>2. QED
    BY <1>1, <1>2, <2>1
<1>6. QED
  BY <1>4, <1>5

LEMMA LookupEffect ==
  ASSUME TypeInv, NEW r \in Callers, LookupBlob(r)
  PROVE  /\ OthersWait(r) /\ UNCHANGED <<files, blobs, items, freed>>
         /\ pc[r] = "blob" /\ req[r] \in Request
         /\ \/ pc'[r] = "idle"
            \/ /\ pc'[r] = "link"
               /\ req'[r].hash = req[r].hash /\ req'[r].asked = req[r].asked
               /\ req'[r].path = req[r].path
               /\ req'[r].src # None /\ req'[r].src = blobs[req[r].hash]
<1>1. pc[r] = "blob" /\ req[r] \in Request
  BY DEF LookupBlob, TypeInv, Active
<1>2. OthersWait(r) /\ UNCHANGED <<files, blobs, items, freed>>
  BY DEF LookupBlob, OthersWait, Goto, Return, TypeInv, rows
<1>3. CASE blobs[req[r].hash] = None
  BY <1>1, <1>2, <1>3 DEF LookupBlob, Return, Goto, TypeInv
<1>4. CASE blobs[req[r].hash] # None
  <2>1. pc'[r] = "link" /\ req'[r] = [req[r] EXCEPT !.src = blobs[req[r].hash]]
    BY <1>4 DEF LookupBlob, Goto, TypeInv
  <2>2. QED
    BY <1>1, <1>2, <1>4, <2>1 DEF Request
<1>5. QED
  BY <1>3, <1>4

LEMMA LinkEffect ==
  ASSUME TypeInv, NEW r \in Callers, LinkCanonical(r)
  PROVE  /\ OthersWait(r) /\ UNCHANGED <<files, blobs, items, freed>>
         /\ pc[r] = "link" /\ pc'[r] = "publish" /\ req[r] \in Request
         /\ req'[r].hash = req[r].hash /\ req'[r].asked = req[r].asked
         /\ req'[r].path = req[r].path /\ req'[r].content = files[req[r].src]
<1>1. pc[r] = "link" /\ pc'[r] = "publish" /\ req[r] \in Request
  BY DEF LinkCanonical, Goto, TypeInv, Active
<1>2. OthersWait(r) /\ UNCHANGED <<files, blobs, items, freed>>
  BY DEF LinkCanonical, OthersWait, Goto, TypeInv, rows
<1>3. req'[r] = [req[r] EXCEPT !.content = files[req[r].src]]
  BY DEF LinkCanonical, TypeInv
<1>4. QED
  BY <1>1, <1>2, <1>3 DEF Request

-----------------------------------------------------------------------------
(* Types *)

LEMMA TypeStep == TypeInv /\ ReadInv /\ [Next]_vars => TypeInv'
<1> SUFFICES ASSUME TypeInv, ReadInv, [Next]_vars PROVE TypeInv'
  OBVIOUS
<1> USE DEF TypeInv, Active, rows, counters, Goto, Return
<1>1. ASSUME NEW r \in Callers, Begin(r) PROVE TypeInv'
  <2>1. PICK h \in Hashes, p \in Requested :
          req' = [req EXCEPT ![r] = [hash |-> h, asked |-> p, path |-> p,
                                     src |-> None, content |-> None]]
    BY <1>1 DEF Begin
  <2>2. [hash |-> h, asked |-> p, path |-> p, src |-> None, content |-> None] \in Request
    BY PathsOfARequest DEF Request
  <2>3. QED
    BY <1>1, <2>1, <2>2 DEF Begin, Steps
<1>2. ASSUME NEW r \in Callers, ResolveBase(r) PROVE TypeInv'
  <2>1. req[r] \in Request /\ req[r].asked = req[r].path
    BY <1>2 DEF ResolveBase, ReadInv
  <2>2. SuffixedFilename(req[r].path, req[r].hash) \in Paths
    BY <2>1, RequestUpdates, PathsOfARequest
  <2>3. PICK k \in Request : k = [req[r] EXCEPT !.path = SuffixedFilename(@, req[r].hash)]
    BY <2>1, <2>2, RequestUpdates
  <2>4. req' \in {req, [req EXCEPT ![r] = k], [req EXCEPT ![r] = NoRequest]}
    BY <1>2, <2>3 DEF ResolveBase
  <2>5. pc'[r] # "idle" => req'[r] \in Request
    BY <1>2, <2>1, <2>3 DEF ResolveBase
  <2>6. QED
    BY <1>2, <2>4, <2>5 DEF ResolveBase, Steps
<1>3. ASSUME NEW r \in Callers, ResolveSuffixed(r) PROVE TypeInv'
  BY <1>3 DEF ResolveSuffixed, Steps
<1>4. ASSUME NEW r \in Callers, StatStaged(r) PROVE TypeInv'
  BY <1>4 DEF StatStaged, Steps
<1>5. ASSUME NEW r \in Callers, RenameStaged(r) PROVE TypeInv'
  BY <1>5, RequestUpdates DEF RenameStaged, Steps
<1>6. ASSUME NEW r \in Callers, LookupBlob(r) PROVE TypeInv'
  <2>1. req[r] \in Request /\ req[r].hash \in Hashes
    BY <1>6, RequestUpdates DEF LookupBlob
  <2>2. CASE blobs[req[r].hash] # None
    <3>1. PICK k \in Request : k = [req[r] EXCEPT !.src = blobs[req[r].hash]]
      BY <2>1, <2>2, RequestUpdates
    <3>2. req' = [req EXCEPT ![r] = k]
      BY <1>6, <2>2, <3>1 DEF LookupBlob
    <3>3. QED
      BY <1>6, <2>2, <3>2 DEF LookupBlob, Steps
  <2>3. CASE blobs[req[r].hash] = None
    BY <1>6, <2>3 DEF LookupBlob, Steps
  <2>4. QED
    BY <2>2, <2>3
<1>7. ASSUME NEW r \in Callers, LinkCanonical(r) PROVE TypeInv'
  <2>1. req[r] \in Request /\ req[r].src \in Paths
    BY <1>7 DEF LinkCanonical, ReadInv, Request
  <2>2. PICK k \in Request : k = [req[r] EXCEPT !.content = files[req[r].src]]
    BY <2>1, RequestUpdates
  <2>3. req' = [req EXCEPT ![r] = k]
    BY <1>7, <2>2 DEF LinkCanonical
  <2>4. QED
    BY <1>7, <2>3 DEF LinkCanonical, Steps
<1>8. ASSUME NEW r \in Callers, Publish(r) PROVE TypeInv'
  <2>1. req[r].path \in Paths /\ req[r].content \in Hashes \cup {None}
    BY <1>8 DEF Publish, Request
  <2>2. QED
    BY <1>8, <2>1 DEF Publish, Steps
<1>9. ASSUME NEW r \in Callers, InsertBlob(r) PROVE TypeInv'
  <2>1. req[r].path \in Paths /\ req[r].hash \in Hashes
    BY <1>9, RequestUpdates DEF InsertBlob
  <2>2. QED
    BY <1>9, <2>1 DEF InsertBlob, Steps
<1>10. ASSUME NEW r \in Callers, InsertItem(r) PROVE TypeInv'
  <2>1. req[r].path \in Paths /\ req[r].hash \in Hashes
    BY <1>10, RequestUpdates DEF InsertItem
  <2>2. QED
    BY <1>10, <2>1 DEF InsertItem, Steps
<1>11. ASSUME NEW r \in Callers, Fail(r) PROVE TypeInv'
  <2>1. req[r].path \in Paths /\ req[r].hash \in Hashes
    BY <1>11, RequestUpdates DEF Fail
  <2>2. freed' \subseteq Hashes \X Paths
    BY <1>11, <2>1 DEF Fail
  <2>3. QED
    BY <1>11, <2>2 DEF Fail, Steps
<1>12. ASSUME NEW path \in Paths, DeleteItem(path) PROVE TypeInv'
  BY <1>12 DEF DeleteItem
<1>13. ASSUME NEW h \in Hashes, Upload(h) PROVE TypeInv'
  BY <1>13 DEF Upload
<1>14. CASE UNCHANGED vars
  BY <1>14 DEF vars
<1>15. QED
  BY <1>1, <1>2, <1>3, <1>4, <1>5, <1>6, <1>7, <1>8, <1>9, <1>10, <1>11, <1>12, <1>13, <1>14
  DEF Next, Place

-----------------------------------------------------------------------------
(* What is read stays as it was read *)

LEMMA ReadStep == TypeInv /\ ReadInv /\ [Next]_vars => ReadInv'
<1> SUFFICES ASSUME TypeInv, ReadInv, [Next]_vars PROVE ReadInv'
  OBVIOUS
<1> USE DEF rows, counters, Goto, Return
<1>1. ASSUME NEW r \in Callers, Begin(r) PROVE ReadInv'
  BY <1>1, BeginEffect DEF ReadInv, OthersWait
<1>2. ASSUME NEW r \in Callers, ResolveBase(r) PROVE ReadInv'
  BY <1>2, BaseEffect DEF ReadInv, OthersWait
<1>3. ASSUME NEW r \in Callers, ResolveSuffixed(r) PROVE ReadInv'
  BY <1>3 DEF ResolveSuffixed, TypeInv, ReadInv
<1>4. ASSUME NEW r \in Callers, StatStaged(r) PROVE ReadInv'
  BY <1>4 DEF StatStaged, TypeInv, ReadInv
<1>5. ASSUME NEW r \in Callers, RenameStaged(r) PROVE ReadInv'
  BY <1>5 DEF RenameStaged, TypeInv, ReadInv
<1>6. ASSUME NEW r \in Callers, LookupBlob(r) PROVE ReadInv'
  BY <1>6, LookupEffect DEF ReadInv, OthersWait
<1>7. ASSUME NEW r \in Callers, LinkCanonical(r) PROVE ReadInv'
  BY <1>7, LinkEffect DEF ReadInv, OthersWait
<1>8. ASSUME NEW r \in Callers, Publish(r) PROVE ReadInv'
  BY <1>8 DEF Publish, TypeInv, ReadInv
<1>9. ASSUME NEW r \in Callers, InsertBlob(r) PROVE ReadInv'
  <2>1. /\ \A h \in Hashes : blobs[h] # None => blobs'[h] = blobs[h]
        /\ UNCHANGED req /\ \A s \in Callers : pc'[s] \in {pc[s], "insertItem"}
    BY <1>9 DEF InsertBlob, TypeInv
  <2>2. \A s \in Callers : Active(s) => req[s].hash \in Hashes
    BY RequestUpdates DEF TypeInv
  <2>3. QED
    BY <2>1, <2>2 DEF ReadInv, Active
<1>10. ASSUME NEW r \in Callers, InsertItem(r) PROVE ReadInv'
  BY <1>10 DEF InsertItem, TypeInv, ReadInv
<1>11. ASSUME NEW r \in Callers, Fail(r) PROVE ReadInv'
  BY <1>11 DEF Fail, TypeInv, ReadInv
<1>12. ASSUME NEW path \in Paths, DeleteItem(path) PROVE ReadInv'
  BY <1>12 DEF DeleteItem, ReadInv
<1>13. ASSUME NEW h \in Hashes, Upload(h) PROVE ReadInv'
  BY <1>13 DEF Upload, ReadInv
<1>14. CASE UNCHANGED vars
  BY <1>14 DEF vars, ReadInv
<1>15. QED
  BY <1>1, <1>2, <1>3, <1>4, <1>5, <1>6, <1>7, <1>8, <1>9, <1>10, <1>11, <1>12, <1>13, <1>14
  DEF Next, Place

-----------------------------------------------------------------------------
(* The placement lock *)

\* A call keeps what it asked for and, once it has resolved it, its path; only
\* the suffix step gives it another.
LEMMA LockStep == TypeInv /\ ReadInv /\ LockInv /\ [Next]_vars => LockInv'
<1> SUFFICES ASSUME TypeInv, ReadInv, LockInv, [Next]_vars PROVE LockInv'
  OBVIOUS
<1> USE DEF rows, counters, Goto, Return, Active
<1>1. ASSUME NEW r \in Callers, Begin(r) PROVE LockInv'
  BY <1>1, BeginEffect DEF LockInv, OthersWait
<1>2. ASSUME NEW r \in Callers, ResolveBase(r) PROVE LockInv'
  BY <1>2, BaseEffect DEF LockInv, OthersWait
<1>3. ASSUME NEW r \in Callers, ResolveSuffixed(r) PROVE LockInv'
  BY <1>3 DEF ResolveSuffixed, TypeInv, LockInv
<1>4. ASSUME NEW r \in Callers, StatStaged(r) PROVE LockInv'
  BY <1>4 DEF StatStaged, TypeInv, LockInv
<1>5. ASSUME NEW r \in Callers, RenameStaged(r) PROVE LockInv'
  BY <1>5 DEF RenameStaged, TypeInv, LockInv
<1>6. ASSUME NEW r \in Callers, LookupBlob(r) PROVE LockInv'
  BY <1>6, LookupEffect DEF LockInv, OthersWait
<1>7. ASSUME NEW r \in Callers, LinkCanonical(r) PROVE LockInv'
  BY <1>7, LinkEffect DEF LockInv, OthersWait
<1>8. ASSUME NEW r \in Callers, Publish(r) PROVE LockInv'
  BY <1>8 DEF Publish, TypeInv, LockInv
<1>9. ASSUME NEW r \in Callers, InsertBlob(r) PROVE LockInv'
  BY <1>9 DEF InsertBlob, TypeInv, LockInv
<1>10. ASSUME NEW r \in Callers, InsertItem(r) PROVE LockInv'
  BY <1>10 DEF InsertItem, TypeInv, LockInv
<1>11. ASSUME NEW r \in Callers, Fail(r) PROVE LockInv'
  BY <1>11 DEF Fail, TypeInv, LockInv
<1>12. ASSUME NEW path \in Paths, DeleteItem(path) PROVE LockInv'
  BY <1>12 DEF DeleteItem, LockInv
<1>13. ASSUME NEW h \in Hashes, Upload(h) PROVE LockInv'
  BY <1>13 DEF Upload, LockInv
<1>14. CASE UNCHANGED vars
  BY <1>14 DEF vars, LockInv
<1>15. QED
  BY <1>1, <1>2, <1>3, <1>4, <1>5, <1>6, <1>7, <1>8, <1>9, <1>10, <1>11, <1>12, <1>13, <1>14
  DEF Next, Place

-----------------------------------------------------------------------------
(* Paths in the hands of a call *)

\* Only InsertItem fills a path, its own call's, which is no other call's.
LEMMA FreeStep ==
  NoLiteralSuffix /\ TypeInv /\ ReadInv /\ LockInv /\ FreeInv /\ [Next]_vars => FreeInv'
<1> SUFFICES ASSUME NoLiteralSuffix, TypeInv, ReadInv, LockInv, FreeInv, [Next]_vars
             PROVE  FreeInv'
  OBVIOUS
<1> USE DEF rows, counters, Goto, Return, Active, Resolved
<1>1. ASSUME NEW r \in Callers, Begin(r) PROVE FreeInv'
  BY <1>1, BeginEffect DEF FreeInv, OthersWait
<1>2. ASSUME NEW r \in Callers, ResolveBase(r) PROVE FreeInv'
  BY <1>2, BaseEffect DEF FreeInv, OthersWait
<1>3. ASSUME NEW r \in Callers, ResolveSuffixed(r) PROVE FreeInv'
  BY <1>3 DEF ResolveSuffixed, TypeInv, FreeInv
<1>4. ASSUME NEW r \in Callers, StatStaged(r) PROVE FreeInv'
  BY <1>4 DEF StatStaged, TypeInv, FreeInv
<1>5. ASSUME NEW r \in Callers, RenameStaged(r) PROVE FreeInv'
  BY <1>5 DEF RenameStaged, TypeInv, FreeInv
<1>6. ASSUME NEW r \in Callers, LookupBlob(r) PROVE FreeInv'
  BY <1>6, LookupEffect DEF FreeInv, OthersWait
<1>7. ASSUME NEW r \in Callers, LinkCanonical(r) PROVE FreeInv'
  BY <1>7, LinkEffect DEF FreeInv, OthersWait
<1>8. ASSUME NEW r \in Callers, Publish(r) PROVE FreeInv'
  BY <1>8 DEF Publish, TypeInv, FreeInv
<1>9. ASSUME NEW r \in Callers, InsertBlob(r) PROVE FreeInv'
  BY <1>9 DEF InsertBlob, TypeInv, FreeInv
<1>10. ASSUME NEW r \in Callers, InsertItem(r) PROVE FreeInv'
  <2>1. \A s \in Callers : pc'[s] # "idle" =>
          s # r /\ pc'[s] = pc[s] /\ req'[s] = req[s] /\ req[s].path # req[r].path
    BY <1>10, PathsApart DEF InsertItem, TypeInv
  <2>2. \A p \in Paths \ {req[r].path} : items'[p] = items[p]
    BY <1>10 DEF InsertItem, TypeInv
  <2>3. \A s \in Callers : pc[s] # "idle" => req[s].path \in Paths
    BY RequestUpdates DEF TypeInv
  <2>4. QED
    BY <2>1, <2>2, <2>3 DEF FreeInv
<1>11. ASSUME NEW r \in Callers, Fail(r) PROVE FreeInv'
  BY <1>11 DEF Fail, TypeInv, FreeInv
<1>12. ASSUME NEW path \in Paths, DeleteItem(path) PROVE FreeInv'
  <2>1. \A p \in Paths : items[p] = None => items'[p] = None
    BY <1>12 DEF DeleteItem, TypeInv
  <2>2. \A s \in Callers : pc[s] # "idle" => req[s].path \in Paths
    BY RequestUpdates DEF TypeInv
  <2>3. QED
    BY <1>12, <2>1, <2>2 DEF DeleteItem, FreeInv
<1>13. ASSUME NEW h \in Hashes, Upload(h) PROVE FreeInv'
  BY <1>13 DEF Upload, FreeInv
<1>14. CASE UNCHANGED vars
  BY <1>14 DEF vars, FreeInv
<1>15. QED
  BY <1>1, <1>2, <1>3, <1>4, <1>5, <1>6, <1>7, <1>8, <1>9, <1>10, <1>11, <1>12, <1>13, <1>14
  DEF Next, Place

-----------------------------------------------------------------------------
(* Owners of canonical paths *)

\* A blob's row is never rewritten and what was exposed stays so.
LEMMA RowsGrow ==
  ASSUME TypeInv, [Next]_vars
  PROVE  /\ \A h \in Hashes : blobs[h] # None => blobs'[h] = blobs[h]
         /\ freed \subseteq freed'
         /\ \A h \in Hashes : Exposed(h) => Exposed(h)'
<1> USE DEF rows, counters
<1>1. /\ \A h \in Hashes : blobs[h] # None => blobs'[h] = blobs[h]
      /\ freed \subseteq freed'
  <2>1. ASSUME NEW r \in Callers, InsertBlob(r) PROVE <1>1!1
    BY <2>1 DEF InsertBlob, TypeInv
  <2>2. QED
    BY <2>1 DEF Next, Place, Begin, ResolveBase, ResolveSuffixed, StatStaged, RenameStaged,
       LookupBlob, LinkCanonical, Publish, InsertBlob, InsertItem, Fail, DeleteItem, Upload, vars
<1>2. \A h \in Hashes : Exposed(h) => blobs[h] # None
  BY LibraryAssumption DEF Exposed, TypeInv
<1>3. QED
  BY <1>1, <1>2 DEF Exposed

LEMMA OwnerStep == TypeInv /\ ReadInv /\ OwnerInv /\ [Next]_vars => OwnerInv'
<1> SUFFICES ASSUME TypeInv, ReadInv, OwnerInv, [Next]_vars PROVE OwnerInv'
  OBVIOUS
<1> USE DEF rows, counters, Goto, Return
<1>1. ASSUME NEW r \in Callers, Begin(r) PROVE OwnerInv'
  BY <1>1, BeginEffect DEF OwnerInv, OthersWait, Exposed, Begin
<1>2. ASSUME NEW r \in Callers, ResolveBase(r) PROVE OwnerInv'
  BY <1>2, BaseEffect DEF OwnerInv, OthersWait, Exposed
<1>3. ASSUME NEW r \in Callers, ResolveSuffixed(r) PROVE OwnerInv'
  BY <1>3 DEF ResolveSuffixed, TypeInv, OwnerInv, Exposed
<1>4. ASSUME NEW r \in Callers, StatStaged(r) PROVE OwnerInv'
  BY <1>4 DEF StatStaged, TypeInv, OwnerInv, Exposed
<1>5. ASSUME NEW r \in Callers, RenameStaged(r) PROVE OwnerInv'
  BY <1>5 DEF RenameStaged, TypeInv, OwnerInv, Exposed
<1>6. ASSUME NEW r \in Callers, LookupBlob(r) PROVE OwnerInv'
  BY <1>6, LookupEffect DEF OwnerInv, OthersWait, Exposed
<1>7. ASSUME NEW r \in Callers, LinkCanonical(r) PROVE OwnerInv'
  <2>1. blobs[req[r].hash] # None
    BY <1>7, LinkEffect DEF ReadInv
  <2>2. QED
    BY <1>7, <2>1, LinkEffect DEF OwnerInv, OthersWait, Exposed
<1>8. ASSUME NEW r \in Callers, Publish(r) PROVE OwnerInv'
  BY <1>8 DEF Publish, TypeInv, OwnerInv, Exposed
\* The row that is new is owned by the call that wrote it.
<1>9. ASSUME NEW r \in Callers, InsertBlob(r) PROVE OwnerInv'
  <2>1. /\ pc[r] = "insertBlob" /\ pc'[r] = "insertItem" /\ req[r].hash \in Hashes
        /\ \A s \in Callers \ {r} : pc'[s] = pc[s]
        /\ UNCHANGED <<req, items, freed>>
        /\ req[r].path \in Paths
    BY <1>9, RequestUpdates DEF InsertBlob, TypeInv, Active
  <2>2. /\ \A h \in Hashes \ {req[r].hash} : blobs'[h] = blobs[h]
        /\ blobs'[req[r].hash] \in {blobs[req[r].hash], req[r].path}
        /\ blobs'[req[r].hash] # None
        /\ blobs[req[r].hash] # None => blobs'[req[r].hash] = blobs[req[r].hash]
    BY <1>9, <2>1, LibraryAssumption DEF InsertBlob, TypeInv
  <2>3. \A s \in Callers : pc[s] # "idle" => req[s].hash \in Hashes
    BY RequestUpdates DEF TypeInv, Active
  <2>4. /\ \A s \in Callers : pc'[s] = "publish" => blobs'[req'[s].hash] # None
        /\ \A s \in Callers : pc'[s] = "insertItem" => blobs'[req'[s].hash] # None
    BY <2>1, <2>2, <2>3 DEF OwnerInv
  <2>5. ASSUME NEW h \in Hashes, blobs[h] # None, blobs'[h] = blobs[h]
        PROVE  \/ Exposed(h)'
               \/ items'[blobs'[h]] = h
               \/ \E s \in Callers : pc'[s] = "insertItem" /\ req'[s].hash = h /\ req'[s].path = blobs'[h]
    BY <2>1, <2>5 DEF OwnerInv, Exposed
  <2>6. ASSUME NEW h \in Hashes, blobs[h] = None, blobs'[h] # None
        PROVE  h = req[r].hash /\ blobs'[h] = req[r].path
    BY <2>2, <2>6
  <2>7. QED
    BY <2>1, <2>2, <2>4, <2>5, <2>6 DEF OwnerInv
<1>10. ASSUME NEW r \in Callers, InsertItem(r) PROVE OwnerInv'
  <2>1. /\ pc[r] = "insertItem" /\ pc'[r] = "idle" /\ UNCHANGED <<blobs, freed>>
        /\ OthersWait(r) /\ items[req[r].path] = None /\ req[r].path \in Paths
        /\ req[r].hash \in Hashes
    BY <1>10, RequestUpdates DEF InsertItem, TypeInv, OthersWait, Active
  <2>2. items'[req[r].path] = req[r].hash /\ \A p \in Paths : items[p] # None => items'[p] = items[p]
    BY <1>10, <2>1 DEF InsertItem, TypeInv
  <2>3. \A h \in Hashes : blobs[h] # None => blobs[h] \in Paths /\ h # None
    BY LibraryAssumption DEF TypeInv
  <2>4. QED
    BY <2>1, <2>2, <2>3 DEF OwnerInv, OthersWait, Exposed
\* A call that stops before inserting its item exposes the path it owns.
<1>11. ASSUME NEW r \in Callers, Fail(r) PROVE OwnerInv'
  <2>1. /\ pc'[r] = "idle" /\ UNCHANGED <<blobs, items>> /\ OthersWait(r) /\ freed \subseteq freed'
        /\ pc[r] = "insertItem" => <<req[r].hash, req[r].path>> \in freed'
    BY <1>11 DEF Fail, TypeInv, OthersWait
  <2>2. QED
    BY <2>1 DEF OwnerInv, OthersWait, Exposed
\* So does a deletion.
<1>12. ASSUME NEW path \in Paths, DeleteItem(path) PROVE OwnerInv'
  <2>1. /\ UNCHANGED <<blobs, pc, req>> /\ freed \subseteq freed' /\ <<items[path], path>> \in freed'
        /\ \A p \in Paths \ {path} : items'[p] = items[p]
    BY <1>12 DEF DeleteItem, TypeInv
  <2>2. \A h \in Hashes : blobs[h] # None => blobs[h] \in Paths
    BY DEF TypeInv
  <2>3. QED
    BY <2>1, <2>2 DEF OwnerInv, Exposed
<1>13. ASSUME NEW h \in Hashes, Upload(h) PROVE OwnerInv'
  BY <1>13 DEF Upload, OwnerInv, Exposed
<1>14. CASE UNCHANGED vars
  BY <1>14 DEF vars, OwnerInv, Exposed
<1>15. QED
  BY <1>1, <1>2, <1>3, <1>4, <1>5, <1>6, <1>7, <1>8, <1>9, <1>10, <1>11, <1>12, <1>13, <1>14
  DEF Next, Place

-----------------------------------------------------------------------------
(* Bytes *)

\* What is written at a call's path replaces no recorded file, and the canonical
\* file of another blob only if it is exposed.
LEMMA InstallStep ==
  ASSUME NoLiteralSuffix, TypeInv, LockInv, FreeInv, FileInv, OwnerInv,
         NEW r \in Callers, NEW c, Holds(req[r].hash, c),
         pc[r] \in {"rename", "publish"}, pc'[r] = "insertBlob", req'[r] = req[r], OthersWait(r),
         files' = [files EXCEPT ![req[r].path] = c], UNCHANGED <<blobs, items, freed>>
  PROVE  FileInv'
<1> DEFINE path == req[r].path
<1>1. \A s \in Callers : pc[s] # "idle" => req[s].path \in Paths /\ req[s].hash \in Hashes
  BY RequestUpdates DEF TypeInv, Active
<1>2. path \in Paths /\ items[path] = None
  BY <1>1 DEF FreeInv, Resolved
<1>3. files'[path] = c /\ \A p \in Paths \ {path} : files'[p] = files[p]
  BY <1>2 DEF TypeInv
<1>4. \A h \in Hashes : Exposed(h)' <=> Exposed(h)
  BY DEF Exposed
<1>5. \A s \in Callers \ {r} : pc[s] # "idle" => req[s].path # path
  BY PathsApart DEF Active
<1>6. \A s \in Callers : pc'[s] = "publish" => Holds(req[s].hash, req[s].content)' /\ req'[s] = req[s]
  BY <1>1, <1>4 DEF FileInv, Holds, OthersWait
<1>7. \A s \in Callers : pc'[s] \in Installed => Holds(req[s].hash, files[req[s].path])'
  <2>1. Holds(req[r].hash, files[path])'
    BY <1>1, <1>3, <1>4 DEF Holds
  <2>2. ASSUME NEW s \in Callers \ {r}, pc'[s] \in Installed
        PROVE  Holds(req[s].hash, files[req[s].path])'
    <3>1. pc[s] \in Installed /\ req'[s] = req[s] /\ pc[s] # "idle"
      BY <2>2 DEF OthersWait, Installed
    <3>2. files'[req[s].path] = files[req[s].path] /\ req[s].hash \in Hashes
      BY <1>1, <1>3, <1>5, <3>1
    <3>3. QED
      BY <1>4, <3>1, <3>2 DEF FileInv, Holds
  <2>3. QED
    BY <2>1, <2>2
<1>8. ASSUME NEW h \in Hashes, blobs[h] # None PROVE Holds(h, files[blobs[h]])'
  <2>1. blobs[h] \in Paths
    BY <1>8 DEF TypeInv
  <2>2. CASE blobs[h] # path
    BY <1>3, <1>4, <1>8, <2>1, <2>2 DEF FileInv, Holds
  <2>3. CASE blobs[h] = path
    <3>1. ~ \E s \in Callers : pc[s] = "insertItem" /\ req[s].hash = h /\ req[s].path = blobs[h]
      BY <1>5, <2>3
    <3>2. items[blobs[h]] # h
      BY <1>2, <2>3, LibraryAssumption
    <3>3. Exposed(h)
      BY <1>8, <3>1, <3>2 DEF OwnerInv
    <3>4. QED
      BY <1>3, <1>4, <2>3, <3>3 DEF Holds
  <2>4. QED
    BY <2>2, <2>3
<1>9. ASSUME NEW p \in Paths, items[p] # None PROVE Holds(items[p], files[p])'
  <2>1. p # path /\ items[p] \in Hashes
    BY <1>2, <1>9 DEF TypeInv
  <2>2. QED
    BY <1>3, <1>4, <1>9, <2>1 DEF FileInv, Holds
<1>10. QED
  BY <1>6, <1>7, <1>8, <1>9 DEF FileInv

LEMMA FileStep ==
  NoLiteralSuffix /\ TypeInv /\ ReadInv /\ LockInv /\ FreeInv /\ FileInv /\ OwnerInv /\ [Next]_vars
    => FileInv'
<1> SUFFICES ASSUME NoLiteralSuffix, TypeInv, ReadInv, LockInv, FreeInv, FileInv, OwnerInv,
                    [Next]_vars
             PROVE  FileInv'
  OBVIOUS
<1>a. \A h \in Hashes, c \in Hashes \cup {None} : Holds(h, c) => c # None /\ (c = h \/ Exposed(h)')
  BY RowsGrow DEF Holds
<1>b. \A s \in Callers : pc[s] # "idle" =>
        req[s] \in Request /\ req[s].path \in Paths /\ req[s].hash \in Hashes
  BY RequestUpdates DEF TypeInv, Active
<1>c. \A s \in Callers : pc[s] = "publish" => req[s].content \in Hashes \cup {None}
  BY <1>b DEF Request
\* A step that leaves files and rows alone, and installs nothing.
<1>d. ASSUME UNCHANGED <<files, blobs, items>>,
             NEW r \in Callers, OthersWait(r), pc'[r] \notin Installed,
             pc'[r] = "publish" => Holds(req[r].hash, req[r].content)'
      PROVE  FileInv'
  <2>1. ASSUME NEW s \in Callers, pc'[s] = "publish"
        PROVE  Holds(req[s].hash, req[s].content)'
    <3>1. CASE s = r
      BY <1>d, <2>1, <3>1
    <3>2. CASE s # r
      <4>1. pc[s] = "publish" /\ req'[s] = req[s]
        BY <1>d, <2>1, <3>2 DEF OthersWait
      <4>2. Holds(req[s].hash, req[s].content)
        BY <4>1 DEF FileInv
      <4>3. QED
        BY <1>a, <1>b, <1>c, <4>1, <4>2 DEF Holds
    <3>3. QED
      BY <3>1, <3>2
  <2>2. \A s \in Callers : pc'[s] \in Installed =>
          pc[s] \in Installed /\ pc[s] # "idle" /\ req'[s] = req[s]
    BY <1>d DEF OthersWait, Installed
  <2>3. \A s \in Callers : pc'[s] \in Installed => Holds(req[s].hash, files[req[s].path])'
    BY <1>a, <1>b, <1>d, <2>2 DEF FileInv, Holds, TypeInv
  <2>4. \A h \in Hashes : blobs'[h] # None => Holds(h, files[blobs[h]])'
    BY <1>a, <1>d DEF FileInv, Holds, TypeInv
  <2>5. \A p \in Paths : items'[p] # None => Holds(items[p], files[p])'
    BY <1>a, <1>d DEF FileInv, Holds, TypeInv
  <2>6. QED
    BY <2>1, <2>3, <2>4, <2>5 DEF FileInv
<1> USE DEF rows, counters, Goto, Return
<1>1. ASSUME NEW r \in Callers, Begin(r) PROVE FileInv'
  BY <1>1, <1>d, BeginEffect DEF Installed
<1>2. ASSUME NEW r \in Callers, ResolveBase(r) PROVE FileInv'
  BY <1>2, <1>d, BaseEffect DEF Installed
<1>3. ASSUME NEW r \in Callers, ResolveSuffixed(r) PROVE FileInv'
  BY <1>3, <1>d DEF ResolveSuffixed, TypeInv, Installed, OthersWait
<1>4. ASSUME NEW r \in Callers, StatStaged(r) PROVE FileInv'
  BY <1>4, <1>d DEF StatStaged, TypeInv, Installed, OthersWait
<1>5. ASSUME NEW r \in Callers, RenameStaged(r) PROVE FileInv'
  <2>1. CASE req[r].hash \in staged
    <3>1. Holds(req[r].hash, req[r].hash)
      BY <1>5, <1>b, LibraryAssumption DEF RenameStaged, Holds
    <3>2. /\ pc[r] = "rename" /\ pc'[r] = "insertBlob" /\ req'[r] = req[r] /\ OthersWait(r)
          /\ files' = [files EXCEPT ![req[r].path] = req[r].hash]
          /\ UNCHANGED <<blobs, items, freed>>
      BY <1>5, <2>1 DEF RenameStaged, TypeInv, OthersWait
    <3>3. QED
      BY <3>1, <3>2, InstallStep
  <2>2. CASE req[r].hash \notin staged
    BY <1>5, <1>d, <2>2 DEF RenameStaged, TypeInv, Installed, OthersWait
  <2>3. QED
    BY <2>1, <2>2
<1>6. ASSUME NEW r \in Callers, LookupBlob(r) PROVE FileInv'
  BY <1>6, <1>d, LookupEffect DEF Installed
\* The canonical file is linked as it is: the blob's, or exposed.
<1>7. ASSUME NEW r \in Callers, LinkCanonical(r) PROVE FileInv'
  <2>1. /\ req[r].hash \in Hashes /\ blobs[req[r].hash] # None
        /\ req'[r].hash = req[r].hash /\ req'[r].content = files[blobs[req[r].hash]]
    BY <1>7, <1>b, LinkEffect DEF ReadInv
  <2>2. Holds(req[r].hash, files[blobs[req[r].hash]])
    BY <2>1 DEF FileInv
  <2>3. files[blobs[req[r].hash]] \in Hashes \cup {None}
    BY <2>1 DEF TypeInv
  <2>4. Holds(req[r].hash, req[r].content)'
    BY <1>a, <2>1, <2>2, <2>3 DEF Holds
  <2>5. QED
    BY <1>7, <1>d, <2>4, LinkEffect DEF Installed
<1>8. ASSUME NEW r \in Callers, Publish(r) PROVE FileInv'
  <2>1. Holds(req[r].hash, req[r].content)
    BY <1>8 DEF Publish, FileInv
  <2>2. /\ pc[r] = "publish" /\ pc'[r] = "insertBlob" /\ req'[r] = req[r] /\ OthersWait(r)
        /\ files' = [files EXCEPT ![req[r].path] = req[r].content]
        /\ UNCHANGED <<blobs, items, freed>>
    BY <1>8 DEF Publish, TypeInv, OthersWait
  <2>3. QED
    BY <2>1, <2>2, InstallStep
\* The file is there before its row, as the blob's bytes.
<1>9. ASSUME NEW r \in Callers, InsertBlob(r) PROVE FileInv'
  <2> DEFINE h == req[r].hash
  <2>1. /\ pc[r] = "insertBlob" /\ UNCHANGED <<files, items, req, freed>>
        /\ h \in Hashes /\ req[r].path \in Paths
        /\ \A s \in Callers : pc'[s] \in Installed => pc[s] \in Installed /\ pc[s] # "idle"
        /\ \A s \in Callers : pc'[s] = "publish" => pc[s] = "publish"
    BY <1>9, <1>b DEF InsertBlob, TypeInv, Installed
  <2>2. /\ \A g \in Hashes \ {h} : blobs'[g] = blobs[g]
        /\ blobs'[h] = IF blobs[h] = None THEN req[r].path ELSE blobs[h]
    BY <1>9, <2>1 DEF InsertBlob, TypeInv
  <2>3. Holds(h, files[req[r].path])
    BY <2>1 DEF FileInv, Installed
  <2>4. \A g \in Hashes : blobs'[g] # None => Holds(g, files[blobs[g]])'
    <3>1. ASSUME NEW g \in Hashes, blobs[g] # None PROVE Holds(g, files[blobs[g]])'
      <4>1. blobs'[g] = blobs[g] /\ blobs[g] \in Paths
        BY <2>2, <3>1 DEF TypeInv
      <4>2. QED
        BY <1>a, <2>1, <3>1, <4>1 DEF FileInv, Holds, TypeInv
    <3>2. ASSUME NEW g \in Hashes, g = h, blobs[g] = None PROVE Holds(g, files[blobs[g]])'
      <4>1. blobs'[g] = req[r].path /\ files[req[r].path] \in Hashes \cup {None}
        BY <2>1, <2>2, <3>2 DEF TypeInv
      <4>2. QED
        BY <1>a, <2>1, <2>3, <3>2, <4>1 DEF Holds
    <3>3. ASSUME NEW g \in Hashes, blobs[g] = None, blobs'[g] # None PROVE g = h
      BY <2>2, <3>3
    <3>4. QED
      BY <3>1, <3>2, <3>3
  <2>5. \A s \in Callers : pc'[s] = "publish" => Holds(req[s].hash, req[s].content)'
    BY <1>a, <1>b, <1>c, <2>1 DEF FileInv, Holds
  <2>6. \A s \in Callers : pc'[s] \in Installed => Holds(req[s].hash, files[req[s].path])'
    BY <1>a, <1>b, <2>1 DEF FileInv, Holds, TypeInv
  <2>7. \A p \in Paths : items'[p] # None => Holds(items[p], files[p])'
    BY <1>a, <2>1 DEF FileInv, Holds, TypeInv
  <2>8. QED
    BY <2>4, <2>5, <2>6, <2>7 DEF FileInv
<1>10. ASSUME NEW r \in Callers, InsertItem(r) PROVE FileInv'
  <2>1. /\ pc[r] = "insertItem" /\ pc'[r] = "idle" /\ OthersWait(r)
        /\ UNCHANGED <<files, blobs, freed>>
        /\ req[r].path \in Paths /\ req[r].hash \in Hashes
        /\ items' = [items EXCEPT ![req[r].path] = req[r].hash]
    BY <1>10, <1>b DEF InsertItem, TypeInv, OthersWait
  <2>2. /\ items'[req[r].path] = req[r].hash
        /\ \A p \in Paths \ {req[r].path} : items'[p] = items[p]
    BY <2>1 DEF TypeInv
  <2>3. Holds(req[r].hash, files[req[r].path])
    BY <2>1 DEF FileInv, Installed
  <2>4. \A h \in Hashes : Exposed(h)' <=> Exposed(h)
    BY <2>1 DEF Exposed
  <2>5. \A p \in Paths : items'[p] # None => Holds(items[p], files[p])'
    BY <2>1, <2>2, <2>3, <2>4 DEF FileInv, Holds, TypeInv
  <2>6. \A s \in Callers : pc'[s] # "idle" => s # r /\ pc'[s] = pc[s] /\ req'[s] = req[s]
    BY <2>1 DEF OthersWait
  <2>7. \A s \in Callers : pc'[s] = "publish" => Holds(req[s].hash, req[s].content)'
    BY <1>b, <2>4, <2>6 DEF FileInv, Holds
  <2>8. \A s \in Callers : pc'[s] \in Installed => Holds(req[s].hash, files[req[s].path])'
    BY <1>b, <2>1, <2>4, <2>6 DEF FileInv, Holds, Installed
  <2>9. \A h \in Hashes : blobs'[h] # None => Holds(h, files[blobs[h]])'
    BY <2>1, <2>4 DEF FileInv, Holds
  <2>10. QED
    BY <2>5, <2>7, <2>8, <2>9 DEF FileInv
<1>11. ASSUME NEW r \in Callers, Fail(r) PROVE FileInv'
  BY <1>11, <1>d DEF Fail, TypeInv, Installed, OthersWait
<1>12. ASSUME NEW path \in Paths, DeleteItem(path) PROVE FileInv'
  <2>1. UNCHANGED <<files, blobs, pc, req>> /\ \A p \in Paths : items'[p] \in {items[p], None}
    BY <1>12 DEF DeleteItem, TypeInv
  <2>2. \A p \in Paths : items'[p] # None => Holds(items[p], files[p])'
    BY <1>a, <2>1 DEF FileInv, Holds, TypeInv
  <2>3. \A s \in Callers : pc[s] = "publish" => Holds(req[s].hash, req[s].content)'
    BY <1>a, <1>b, <1>c, <2>1 DEF FileInv, Holds
  <2>4. \A s \in Callers : pc[s] \in Installed => Holds(req[s].hash, files[req[s].path])'
    BY <1>a, <1>b, <2>1 DEF FileInv, Holds, TypeInv, Installed
  <2>5. \A h \in Hashes : blobs[h] # None => Holds(h, files[blobs[h]])'
    BY <1>a, <2>1 DEF FileInv, Holds, TypeInv
  <2>6. QED
    BY <2>1, <2>2, <2>3, <2>4, <2>5 DEF FileInv
<1>13. ASSUME NEW h \in Hashes, Upload(h) PROVE FileInv'
  BY <1>13 DEF Upload, FileInv, Holds, Exposed
<1>14. CASE UNCHANGED vars
  BY <1>14 DEF vars, FileInv, Holds, Exposed
<1>15. QED
  BY <1>1, <1>2, <1>3, <1>4, <1>5, <1>6, <1>7, <1>8, <1>9, <1>10, <1>11, <1>12, <1>13, <1>14
  DEF Next, Place

-----------------------------------------------------------------------------
(* Suffixes *)

\* A name that held another blob still does, or was freed of it.
LEMMA OccupiedStays ==
  ASSUME TypeInv, [Next]_vars, NEW p \in Paths, NEW h \in Hashes, Occupied(p, h)
  PROVE  Occupied(p, h)'
<1> USE DEF rows, counters
<1>1. PICK other \in Hashes \ {h} : items[p] = other \/ <<other, p>> \in freed
  BY DEF Occupied
<1>2. items'[p] = items[p] \/ items[p] = None \/ <<items[p], p>> \in freed'
  <2>1. ASSUME NEW r \in Callers, InsertItem(r) PROVE items'[p] = items[p] \/ items[p] = None
    BY <2>1 DEF InsertItem, TypeInv
  <2>2. ASSUME NEW path \in Paths, DeleteItem(path)
        PROVE  items'[p] = items[p] \/ <<items[p], p>> \in freed'
    BY <2>2 DEF DeleteItem, TypeInv
  <2>3. QED
    BY <2>1, <2>2 DEF Next, Place, Begin, ResolveBase, ResolveSuffixed, StatStaged, RenameStaged,
       LookupBlob, LinkCanonical, Publish, InsertBlob, Fail, Upload, vars
<1>3. QED
  BY <1>1, <1>2, RowsGrow, LibraryAssumption DEF Occupied

LEMMA SuffixStep ==
  NoLiteralSuffix /\ TypeInv /\ ReadInv /\ LockInv /\ SuffixInv /\ [Next]_vars => SuffixInv'
<1> SUFFICES ASSUME NoLiteralSuffix, TypeInv, ReadInv, LockInv, SuffixInv, [Next]_vars
             PROVE  SuffixInv'
  OBVIOUS
<1>a. \A s \in Callers : Active(s) =>
        req[s] \in Request /\ req[s].asked \in Requested /\ req[s].hash \in Hashes
  BY RequestUpdates DEF TypeInv
<1>b. \A p \in Requested, h \in Hashes : Occupied(p, h) => Occupied(p, h)'
  BY OccupiedStays, PathsOfARequest
<1>c. \A s \in Callers : Active(s) =>
        req[s].path = req[s].asked \/ Occupied(req[s].asked, req[s].hash)
  BY DEF SuffixInv
\* A step that gives no call another path.
<1>d. ASSUME NEW r \in Callers, OthersWait(r),
             pc'[r] # "idle" => req'[r].path = req'[r].asked \/ Occupied(req[r].asked, req[r].hash)'
      PROVE  \A s \in Callers :
               Active(s)' => (req[s].path = req[s].asked \/ Occupied(req[s].asked, req[s].hash))'
  <2>1. ASSUME NEW s \in Callers \ {r}, Active(s)'
        PROVE  (req[s].path = req[s].asked \/ Occupied(req[s].asked, req[s].hash))'
    <3>1. Active(s) /\ req'[s] = req[s]
      BY <1>d, <2>1 DEF OthersWait, Active
    <3>2. QED
      BY <1>a, <1>b, <1>c, <3>1 DEF Occupied
  <2>2. QED
    BY <1>d, <2>1 DEF Active
<1>e. ASSUME NEW r \in Callers, OthersWait(r), pc[r] # "idle", req'[r].hash = req[r].hash,
             req'[r].asked = req[r].asked, req'[r].path = req[r].path
      PROVE  pc'[r] # "idle" => req'[r].path = req'[r].asked \/ Occupied(req[r].asked, req[r].hash)'
  BY <1>a, <1>b, <1>c, <1>e DEF Active, Occupied
\* Items under a suffixed name.
<1>f. ASSUME \A p \in Paths : items'[p] \in {items[p], None}
      PROVE  \A p \in Requested, h \in Hashes :
               (items[SuffixedFilename(p, h)] # None => Occupied(p, items[SuffixedFilename(p, h)]))'
  <2>1. ASSUME NEW p \in Requested, NEW h \in Hashes, items'[SuffixedFilename(p, h)] # None
        PROVE  Occupied(p, items[SuffixedFilename(p, h)])'
    <3>1. /\ items'[SuffixedFilename(p, h)] = items[SuffixedFilename(p, h)]
          /\ items[SuffixedFilename(p, h)] \in Hashes
      BY <1>f, <2>1, PathsOfARequest DEF TypeInv
    <3>2. Occupied(p, items[SuffixedFilename(p, h)])
      BY <2>1, <3>1 DEF SuffixInv
    <3>3. QED
      BY <1>b, <3>1, <3>2 DEF Occupied
  <2>2. QED
    BY <2>1 DEF SuffixedFilename
<1> USE DEF rows, counters, Goto, Return
<1>1. ASSUME NEW r \in Callers, Begin(r) PROVE SuffixInv'
  BY <1>1, <1>d, <1>f, BeginEffect DEF SuffixInv
\* The plain name is another blob's at this moment.
<1>2. ASSUME NEW r \in Callers, ResolveBase(r) PROVE SuffixInv'
  <2>1. pc'[r] # "idle" => req'[r].path = req'[r].asked \/ Occupied(req[r].asked, req[r].hash)'
    <3>1. CASE pc'[r] = "suffix"
      BY <1>2, <3>1, BaseEffect DEF Occupied
    <3>2. CASE pc'[r] # "suffix"
      BY <1>2, <3>2, BaseEffect
    <3>3. QED
      BY <3>1, <3>2
  <2>2. QED
    BY <1>2, <1>d, <1>f, <2>1, BaseEffect DEF SuffixInv
<1>3. ASSUME NEW r \in Callers, \/ ResolveSuffixed(r) \/ StatStaged(r) \/ RenameStaged(r)
                                \/ Publish(r) \/ InsertBlob(r) \/ Fail(r)
      PROVE  SuffixInv'
  <2>1. /\ OthersWait(r) /\ UNCHANGED items /\ pc[r] # "idle"
        /\ pc'[r] # "idle" => req'[r] = req[r]
    BY <1>3 DEF ResolveSuffixed, StatStaged, RenameStaged, Publish, InsertBlob, Fail, OthersWait, TypeInv
  <2>2. QED
    BY <1>d, <1>e, <1>f, <2>1 DEF SuffixInv
<1>4. ASSUME NEW r \in Callers, LookupBlob(r) PROVE SuffixInv'
  <2>1. pc'[r] # "idle" => req'[r].path = req'[r].asked \/ Occupied(req[r].asked, req[r].hash)'
    BY <1>4, <1>e, LookupEffect
  <2>2. QED
    BY <1>4, <1>d, <1>f, <2>1, LookupEffect DEF SuffixInv
<1>5. ASSUME NEW r \in Callers, LinkCanonical(r) PROVE SuffixInv'
  BY <1>5, <1>d, <1>e, <1>f, LinkEffect DEF SuffixInv
\* An item comes under a suffixed name only from a call that was given it.
<1>6. ASSUME NEW r \in Callers, InsertItem(r) PROVE SuffixInv'
  <2> DEFINE path == req[r].path
  <2>1. /\ pc[r] = "insertItem" /\ pc'[r] = "idle" /\ OthersWait(r)
        /\ items[path] = None /\ UNCHANGED freed
        /\ items' = [items EXCEPT ![path] = req[r].hash]
    BY <1>6 DEF InsertItem, OthersWait, TypeInv
  <2>2. req[r] \in Request /\ req[r].asked \in Requested /\ req[r].hash \in Hashes /\ path \in Paths
    BY <1>a, <2>1, RequestUpdates DEF Active
  <2>3. /\ items'[path] = req[r].hash
        /\ \A p \in Paths \ {path} : items'[p] = items[p]
    BY <2>1, <2>2 DEF TypeInv
  <2>4. ASSUME NEW p \in Requested, NEW h \in Hashes, items'[SuffixedFilename(p, h)] # None
        PROVE  Occupied(p, items[SuffixedFilename(p, h)])'
    <3>1. CASE SuffixedFilename(p, h) = path
      <4>1. path # req[r].asked
        BY <2>2, <3>1 DEF NoLiteralSuffix
      <4>2. path = SuffixedFilename(req[r].asked, req[r].hash)
        BY <2>1, <4>1 DEF LockInv, Active
      <4>3. p = req[r].asked
        BY <2>2, <3>1, <4>2, SuffixedOfOne
      <4>4. PICK g \in Hashes : g = req[r].hash
        BY <2>2
      <4>5. Occupied(p, g)'
        BY <1>b, <1>c, <2>1, <2>2, <4>1, <4>3, <4>4 DEF Active
      <4>6. items'[SuffixedFilename(p, h)] = g
        BY <2>3, <3>1, <4>4
      <4>7. QED
        BY <4>5, <4>6 DEF Occupied, SuffixedFilename
    <3>2. CASE SuffixedFilename(p, h) # path
      <4>1. /\ items'[SuffixedFilename(p, h)] = items[SuffixedFilename(p, h)]
            /\ items[SuffixedFilename(p, h)] \in Hashes
        BY <2>3, <2>4, <3>2, PathsOfARequest DEF TypeInv
      <4>2. Occupied(p, items[SuffixedFilename(p, h)])
        BY <2>4, <4>1 DEF SuffixInv
      <4>3. QED
        BY <1>b, <4>1, <4>2 DEF Occupied, SuffixedFilename
    <3>3. QED
      BY <3>1, <3>2
  <2>5. QED
    BY <1>d, <2>1, <2>4 DEF SuffixInv, SuffixedFilename
<1>7. ASSUME NEW path \in Paths, DeleteItem(path) PROVE SuffixInv'
  <2>1. UNCHANGED <<pc, req>> /\ \A p \in Paths : items'[p] \in {items[p], None}
    BY <1>7 DEF DeleteItem, TypeInv
  <2>2. \A s \in Callers :
          Active(s)' => (req[s].path = req[s].asked \/ Occupied(req[s].asked, req[s].hash))'
    BY <1>a, <1>b, <1>c, <2>1 DEF Active, Occupied
  <2>3. QED
    BY <1>f, <2>1, <2>2 DEF SuffixInv
<1>8. ASSUME NEW h \in Hashes, Upload(h) PROVE SuffixInv'
  BY <1>8 DEF Upload, SuffixInv, Occupied, Active
<1>9. CASE UNCHANGED vars
  BY <1>9 DEF vars, SuffixInv, Occupied, Active
<1>10. QED
  BY <1>1, <1>2, <1>3, <1>4, <1>5, <1>6, <1>7, <1>8, <1>9 DEF Next, Place

-----------------------------------------------------------------------------
(* The theorems *)

LEMMA InvStep == NoLiteralSuffix /\ Inv /\ [Next]_vars => Inv'
BY TypeStep, ReadStep, LockStep, FreeStep, FileStep, OwnerStep, SuffixStep DEF Inv

LEMMA InvInit == Init => Inv
<1> SUFFICES ASSUME Init PROVE Inv
  OBVIOUS
<1>1. TypeInv
  BY LibraryAssumption DEF Init, TypeInv, Active, Steps
<1>2. /\ \A r \in Callers : pc[r] = "idle"
      /\ \A h \in Hashes : blobs[h] = None
      /\ \A p \in Paths : items[p] = None
  BY DEF Init
<1>3. \A p \in Requested, h \in Hashes : SuffixedFilename(p, h) \in Paths
  BY PathsOfARequest
<1>4. QED
  BY <1>1, <1>2, <1>3
  DEF Inv, ReadInv, LockInv, FreeInv, FileInv, OwnerInv, SuffixInv, Active, Resolved, Installed

LEMMA Invariant == ASSUME NoLiteralSuffix PROVE Spec => []Inv
<1>1. Inv /\ [Next]_vars => Inv'
  BY InvStep
<1>2. QED
  BY <1>1, InvInit, PTL DEF Spec

\* A blob's row is written only once its file is in the library, and the file
\* keeps the blob's bytes until a deletion or an aborted commit gives its path away.
THEOREM CanonicalBytesHold == ASSUME NoLiteralSuffix PROVE Spec => []CanonicalBytes
<1>1. Inv => CanonicalBytes
  BY DEF Inv, FileInv, Holds, CanonicalBytes
<1>2. QED
  BY <1>1, Invariant, PTL

\* Every item's file exists and holds the item's bytes, unless the canonical file
\* it was linked from was given away.
THEOREM ItemBytesHold == ASSUME NoLiteralSuffix PROVE Spec => []ItemBytes
<1>1. Inv => ItemBytes
  BY DEF Inv, FileInv, Holds, ItemBytes
<1>2. QED
  BY <1>1, Invariant, PTL

\* A blob is at a name and at the suffixed form of that name only if a deletion
\* freed the name of another blob in between.
THEOREM NoFanOut == ASSUME NoLiteralSuffix PROVE Spec => []RetriesDoNotFanOut
<1>1. Inv => RetriesDoNotFanOut
  <2> SUFFICES ASSUME Inv, NEW p \in Requested, NEW h \in Hashes,
                      items[p] = h, items[SuffixedFilename(p, h)] = h
               PROVE  \E other \in Hashes \ {h} : <<other, p>> \in freed
    BY DEF RetriesDoNotFanOut
  <2>1. Occupied(p, h)
    BY LibraryAssumption DEF Inv, SuffixInv
  <2>2. QED
    BY <2>1 DEF Occupied
<1>2. QED
  BY <1>1, Invariant, PTL

\* No step of any call changes the bytes at a path that an item records.
THEOREM RecordedFilesAreKept == ASSUME NoLiteralSuffix PROVE Spec => RecordedFileKept
<1>1. Inv /\ [Next]_vars => [\A p \in Paths : items[p] # None => files'[p] = files[p]]_vars
  <2> SUFFICES ASSUME Inv, Next, NEW p \in Paths, items[p] # None
               PROVE  files'[p] = files[p]
    OBVIOUS
  <2>1. ASSUME NEW r \in Callers, RenameStaged(r) \/ Publish(r) PROVE files'[p] = files[p]
    <3>1. req[r].path # p
      BY <2>1 DEF RenameStaged, Publish, Inv, FreeInv, Resolved
    <3>2. QED
      BY <2>1, <3>1 DEF RenameStaged, Publish, Inv, TypeInv
  <2>2. QED
    BY <2>1 DEF Next, Place, Begin, ResolveBase, ResolveSuffixed, StatStaged, LookupBlob,
       LinkCanonical, InsertBlob, InsertItem, Fail, DeleteItem, Upload
<1>2. QED
  BY <1>1, Invariant, PTL DEF Spec, RecordedFileKept

-----------------------------------------------------------------------------
(* The library as an archive *)

LEMMA GivenGrows ==
  ASSUME NEW h, NEW p, freed' = freed \cup {<<h, p>>}
  PROVE  Given' = Given \cup {h}
<1>1. <<h, p>>[1] = h
  OBVIOUS
<1>2. ASSUME NEW x PROVE x \in Given' <=> x \in Given \cup {h}
  <2>1. x \in Given' <=> \E lost \in freed \cup {<<h, p>>} : x = lost[1]
    BY Zenon DEF Given
  <2>2. x \in Given <=> \E lost \in freed : x = lost[1]
    BY Zenon DEF Given
  <2>3. QED
    BY <1>1, <2>1, <2>2, Zenon
<1>3. QED
  BY <1>2, Zenon

LEMMA ImplementsAdd ==
  ASSUME Inv, NEW r \in Callers, InsertItem(r)
  PROVE  Archived!Next
<1> DEFINE h == req[r].hash
           path == req[r].path
<1>1. pc[r] = "insertItem" /\ h \in Hashes /\ path \in Paths
  BY RequestUpdates DEF InsertItem, Inv, TypeInv, Active, Request
<1>2. PICK hash \in Hashes, p \in Paths : hash = h /\ p = path
  BY <1>1
<1>3. /\ items[p] = None /\ items' = [items EXCEPT ![p] = hash]
      /\ files' = files /\ freed' = freed
  BY <1>2 DEF InsertItem
<1>4. Holds(hash, files[p])
  BY <1>1, <1>2 DEF Inv, FileInv, Installed
<1>5. files[p] \in Hashes /\ (files[p] = hash \/ hash \in Given)
  BY <1>4 DEF Holds, Exposed, Given, Inv, TypeInv
<1>6. /\ Shown[p] = <<>>
      /\ Shown' = [Shown EXCEPT ![p] = <<hash, files[p]>>]
      /\ Shown'[p] # Shown[p]
  BY <1>2, <1>3, LibraryAssumption DEF Shown, Inv, TypeInv
<1>7. Given' = Given
  BY <1>3, Zenon DEF Given
<1>8. Archived!Add(p, hash) /\ Archived!Changes(p)
  BY <1>5, <1>6, <1>7 DEF Archived!Add, Archived!Nothing, Archived!Changes
<1>9. QED
  BY <1>8 DEF Archived!Next

LEMMA ImplementsRemove ==
  ASSUME Inv, NEW p \in Paths, DeleteItem(p)
  PROVE  Archived!Next
<1>1. /\ items[p] \in Hashes /\ items[p] # None
      /\ items' = [items EXCEPT ![p] = None]
      /\ files' = files /\ freed' = freed \cup {<<items[p], p>>}
  BY DEF DeleteItem, Inv, TypeInv
<1>2. /\ Shown[p] = <<items[p], files[p]>>
      /\ Shown' = [Shown EXCEPT ![p] = <<>>]
  BY <1>1 DEF Shown, Inv, TypeInv
<1>3. Shown[p] # <<>> /\ Shown[p][1] = items[p] /\ Shown'[p] = <<>>
  BY <1>2 DEF Shown
<1>4. Given' = Given \cup {items[p]}
  BY <1>1, GivenGrows
<1>5. Archived!Remove(p) /\ Archived!Changes(p)
  BY <1>2, <1>3, <1>4 DEF Archived!Remove, Archived!Nothing, Archived!Changes
<1>6. QED
  BY <1>5 DEF Archived!Next

LEMMA ImplementsGiveAway ==
  ASSUME Inv, NEW r \in Callers, Fail(r)
  PROVE  Archived!Next \/ UNCHANGED <<Shown, Given>>
<1>1. items' = items /\ files' = files
  BY DEF Fail, rows
<1>2. Shown' = Shown
  BY <1>1, Zenon DEF Shown
<1>3. CASE freed' = freed
  BY <1>2, <1>3, Zenon DEF Given
<1>4. CASE pc[r] = "insertItem" /\ freed' = freed \cup {<<req[r].hash, req[r].path>>}
  <2>1. req[r].hash \in Hashes
    BY <1>4 DEF Inv, TypeInv, Active, Request
  <2>2. Given' = Given \cup {req[r].hash}
    BY <1>4, GivenGrows
  <2>3. req[r].hash \in Given \/ Archived!GiveAway(req[r].hash)
    BY <1>2, <2>2 DEF Archived!GiveAway
  <2>4. QED
    BY <1>2, <2>1, <2>2, <2>3 DEF Archived!Next
<1>5. QED
  BY <1>3, <1>4 DEF Fail

\* Bytes are only written to paths no item records, so nothing is seen to change.
LEMMA WritesUnseen ==
  ASSUME Inv, NEW r \in Callers, RenameStaged(r) \/ Publish(r)
  PROVE  UNCHANGED <<Shown, Given>>
<1>1. items' = items /\ freed' = freed
  BY DEF RenameStaged, Publish, rows
<1>2. \A p \in Paths : items[p] # None => files'[p] = files[p]
  BY DEF RenameStaged, Publish, Inv, TypeInv, FreeInv, Resolved
<1>3. Shown' = Shown
  BY <1>1, <1>2 DEF Shown
<1>4. QED
  BY <1>1, <1>3, Zenon DEF Given

\* The library implements Archive: a photo appears whole under a free path, with its own
\* bytes unless a placement of it was deleted or cut short before, and is seen unchanged
\* until it is deleted, for any calls, hashes, names, deletions and failures.
THEOREM LibraryImplementsArchive ==
  ASSUME NoLiteralSuffix PROVE Spec => ImplementsArchive
<1>1. Init => Archived!Init
  BY DEF Init, Archived!Init, Archived!Nothing, Shown, Given
<1>2. Inv /\ [Next]_vars => [Archived!Next]_<<Shown, Given>>
  <2> SUFFICES ASSUME Inv, [Next]_vars
               PROVE  Archived!Next \/ UNCHANGED <<Shown, Given>>
    OBVIOUS
  <2>1. CASE UNCHANGED <<files, items, freed>>
    <3>1. Shown' = Shown
      BY <2>1, Zenon DEF Shown
    <3>2. Given' = Given
      BY <2>1, Zenon DEF Given
    <3>3. QED
      BY <3>1, <3>2
  <2>2. ASSUME NEW r \in Callers, Begin(r) \/ Place(r) \/ InsertBlob(r)
        PROVE  UNCHANGED <<files, items, freed>> \/ RenameStaged(r) \/ Publish(r)
    BY <2>2 DEF Begin, Place, ResolveBase, ResolveSuffixed, StatStaged, LookupBlob,
       LinkCanonical, InsertBlob, rows
  <2>3. ASSUME NEW h \in Hashes, Upload(h) PROVE UNCHANGED <<files, items, freed>>
    BY <2>3 DEF Upload, rows
  <2>4. QED
    BY <2>1, <2>2, <2>3, ImplementsAdd, ImplementsRemove, ImplementsGiveAway, WritesUnseen
       DEF Next, vars, rows
<1>3. QED
  BY <1>1, <1>2, Invariant, PTL DEF Spec, ImplementsArchive, Archived!Spec

-----------------------------------------------------------------------------
(* The counters of the albums.  Nothing here depends on the names that are *)
(* asked for.                                                              *)

\* What each path contributes to the counters of its folder.
SizeAt == [p \in Paths |-> IF items[p] = None THEN 0 ELSE Size[items[p]]]
CapturedAt == [p \in Paths |-> IF items[p] = None THEN 0 ELSE Captured[items[p]]]
CapturedIn(f) == {CapturedAt[p] : p \in Placed(f)}

\* The counters, as sums and maxima of those contributions.
StatsInv ==
  /\ stats \in [Folders -> [count : Nat, size : Nat, latest : Nat]]
  /\ \A f \in Folders :
       /\ IsFiniteSet(Placed(f))
       /\ stats[f].count = Cardinality(Placed(f))
       /\ stats[f].size = SumOver(SizeAt, Placed(f))
       /\ stats[f].latest = Max({0} \cup CapturedIn(f))

\* The rest of TypeOK: the bounds, and the foreign key from items to blobs.
RowInv ==
  /\ \A p \in Paths : items[p] # None => blobs[items[p]] # None
  /\ calls \in 0..MaxCalls /\ deletes \in 0..MaxDeletes /\ fails \in 0..MaxFails

\* The suffixed form of a name is in the same folder.
LEMMA FolderOfPath ==
  ASSUME NEW p \in Paths
  PROVE  Folder(p) \in Folders
<1>1. CASE p \in Requested
  BY <1>1 DEF Folders
<1>2. ASSUME NEW q \in Requested, NEW h \in Hashes, p = SuffixedFilename(q, h)
      PROVE  Folder(p) \in Folders
  <2>1. q \in Seq(STRING) /\ Len(q) >= 2 /\ Len(q) \in Nat /\ Prefix[h] \in STRING
    BY LibraryAssumption
  <2>2. Append(q, Prefix[h])[1] = q[1]
    BY <2>1
  <2>3. QED
    BY <1>2, <2>2 DEF SuffixedFilename, Folder, Folders
<1>3. QED
  BY <1>1, <1>2 DEF Paths

LEMMA Contributions ==
  ASSUME items \in [Paths -> Hashes \cup {None}]
  PROVE  \A p \in Paths : SizeAt[p] \in Nat /\ CapturedAt[p] \in Nat
<1>1. /\ \A h \in Hashes : Size[h] \in Nat /\ Captured[h] \in Nat
  BY LibraryAssumption
<1>2. QED
  BY <1>1 DEF SizeAt, CapturedAt

LEMMA CapturedFinite ==
  ASSUME items \in [Paths -> Hashes \cup {None}], NEW f, IsFiniteSet(Placed(f))
  PROVE  /\ CapturedIn(f) \subseteq Nat
         /\ IsFiniteSet({0} \cup CapturedIn(f)) /\ {0} \cup CapturedIn(f) \subseteq Nat
         /\ Max({0} \cup CapturedIn(f)) \in Nat
<1>1. CapturedIn(f) \subseteq Nat
  BY Contributions DEF CapturedIn, Placed
<1>2. IsFiniteSet(CapturedIn(f))
  BY ImageFinite DEF CapturedIn
<1>3. IsFiniteSet(CapturedIn(f) \cup {0}) /\ CapturedIn(f) \cup {0} = {0} \cup CapturedIn(f)
  BY <1>2, FS_AddElement
<1>4. Max({0} \cup CapturedIn(f)) \in {0} \cup CapturedIn(f)
  BY <1>1, <1>3, MaxIsMax
<1>5. QED
  BY <1>1, <1>3, <1>4

\* A step that places and removes nothing in a folder leaves what its counters are
\* compared with.
LEMMA FolderUndisturbed ==
  ASSUME NEW f, IsFiniteSet(Placed(f)), \A p \in Paths : Folder(p) = f => items'[p] = items[p]
  PROVE  /\ Placed(f)' = Placed(f)
         /\ SumOver(SizeAt', Placed(f)) = SumOver(SizeAt, Placed(f))
         /\ CapturedIn(f)' = CapturedIn(f)
<1>1. Placed(f)' = Placed(f)
  BY DEF Placed
<1>2. \A p \in Placed(f) : SizeAt'[p] = SizeAt[p] /\ CapturedAt'[p] = CapturedAt[p]
  BY DEF Placed, SizeAt, CapturedAt
<1>3. QED
  BY <1>1, <1>2, SumOverCong DEF CapturedIn

LEMMA InsertCounts ==
  ASSUME TypeInv, StatsInv, NEW r \in Callers, InsertItem(r)
  PROVE  StatsInv'
<1>1. PICK h \in Hashes, path \in Paths, f \in Folders :
        /\ h = req[r].hash /\ path = req[r].path /\ f = Folder(path)
  BY RequestUpdates, FolderOfPath DEF TypeInv, Active, InsertItem
<1>2. /\ items[path] = None
      /\ items' = [items EXCEPT ![path] = h]
      /\ stats' = [stats EXCEPT ![f] = AddToAlbumStats(@, h)]
  BY <1>1 DEF InsertItem
<1>3. /\ items \in [Paths -> Hashes \cup {None}] /\ None \notin Hashes
      /\ items' \in [Paths -> Hashes \cup {None}]
  BY <1>2, LibraryAssumption DEF TypeInv
<1>4. PICK k \in Nat, size \in Nat, latest \in Nat :
        /\ stats[f].count = k /\ stats[f].size = size /\ stats[f].latest = latest
  BY DEF StatsInv
<1>5. Size[h] \in Nat /\ Captured[h] \in Nat
  BY LibraryAssumption
<1>6. stats'[f].count = k + 1 /\ stats'[f].size = size + Size[h]
      /\ stats'[f].latest = Max({latest, Captured[h]})
  BY <1>2, <1>4 DEF StatsInv, AddToAlbumStats
<1>7. Max({latest, Captured[h]}) \in Nat
  <2>1. CASE latest >= Captured[h]
    BY <1>5, <2>1, MaxIs
  <2>2. CASE latest < Captured[h]
    BY <1>5, <2>2, MaxIs
  <2>3. QED
    BY <1>5, <2>1, <2>2
<1>8. stats' \in [Folders -> [count : Nat, size : Nat, latest : Nat]]
  <2>1. AddToAlbumStats(stats[f], h) \in [count : Nat, size : Nat, latest : Nat]
    BY <1>4, <1>5, <1>7 DEF AddToAlbumStats
  <2>2. QED
    BY <1>2, <2>1 DEF StatsInv
<1>9. Placed(f)' = Placed(f) \cup {path} /\ path \notin Placed(f) /\ IsFiniteSet(Placed(f))
  BY <1>1, <1>2, <1>3 DEF Placed, StatsInv
<1>10. IsFiniteSet(Placed(f)') /\ Cardinality(Placed(f)') = k + 1
  <2>1. Cardinality(Placed(f)) = k
    BY <1>4 DEF StatsInv
  <2>2. /\ IsFiniteSet(Placed(f) \cup {path})
        /\ Cardinality(Placed(f) \cup {path}) = Cardinality(Placed(f)) + 1
    BY <1>9, FS_AddElement
  <2>3. QED
    BY <1>9, <2>1, <2>2
<1>11. /\ \A p \in Placed(f) : SizeAt'[p] = SizeAt[p] /\ CapturedAt'[p] = CapturedAt[p]
       /\ SizeAt'[path] = Size[h] /\ CapturedAt'[path] = Captured[h]
  BY <1>2, <1>3, <1>9 DEF Placed, SizeAt, CapturedAt
<1>12. SumOver(SizeAt', Placed(f)') = size + Size[h]
  <2>1. SumOver(SizeAt', Placed(f)) = size
    <3>1. SumOver(SizeAt, Placed(f)) = size
      BY <1>4 DEF StatsInv
    <3>2. \A p \in Placed(f) : SizeAt[p] = SizeAt'[p]
      BY <1>11
    <3>3. SumOver(SizeAt, Placed(f)) = SumOver(SizeAt', Placed(f))
      BY <1>9, <3>2, SumOverCong
    <3>4. QED
      BY <3>1, <3>3
  <2>2. \A p \in Placed(f) : SizeAt'[p] \in Int
    BY <1>3, <1>11, Contributions DEF Placed
  <2>3. SumOver(SizeAt', Placed(f) \cup {path}) = SumOver(SizeAt', Placed(f)) + SizeAt'[path]
    BY <1>5, <1>9, <1>11, <2>2, SumOverAdd
  <2>4. QED
    BY <1>9, <1>11, <2>1, <2>3
<1>13. Max({0} \cup CapturedIn(f)') = Max({latest, Captured[h]})
  <2>1. CapturedIn(f)' = CapturedIn(f) \cup {Captured[h]}
    BY <1>9, <1>11 DEF CapturedIn
  <2>2. Max({0} \cup CapturedIn(f)) = latest
    BY <1>4 DEF StatsInv
  <2>3. ({0} \cup CapturedIn(f)) \cup {Captured[h]} = {0} \cup CapturedIn(f)'
    BY <2>1
  <2>4. Max(({0} \cup CapturedIn(f)) \cup {Captured[h]})
          = Max({Max({0} \cup CapturedIn(f)), Captured[h]})
    BY <1>3, <1>5, <1>9, CapturedFinite, MaxAdd
  <2>5. QED
    BY <2>2, <2>3, <2>4
<1>14. ASSUME NEW g \in Folders \ {f}
       PROVE  /\ IsFiniteSet(Placed(g)')
              /\ stats'[g].count = Cardinality(Placed(g)')
              /\ stats'[g].size = SumOver(SizeAt', Placed(g)')
              /\ stats'[g].latest = Max({0} \cup CapturedIn(g)')
  <2>1. \A p \in Paths : Folder(p) = g => items'[p] = items[p]
    BY <1>1, <1>2, <1>3
  <2>2. stats'[g] = stats[g]
    BY <1>2 DEF StatsInv
  <2>3. QED
    BY <2>1, <2>2, FolderUndisturbed DEF StatsInv
<1>15. QED
  BY <1>6, <1>8, <1>10, <1>12, <1>13, <1>14 DEF StatsInv

LEMMA RemoveCounts ==
  ASSUME TypeInv, StatsInv, NEW path \in Paths, DeleteItem(path)
  PROVE  StatsInv'
<1>1. PICK h \in Hashes, f \in Folders : h = items[path] /\ f = Folder(path)
  BY FolderOfPath DEF TypeInv, DeleteItem
<1>2. /\ items[path] = h
      /\ items' = [items EXCEPT ![path] = None]
      /\ stats' = [stats EXCEPT ![f] = RemoveFromAlbumStats(@, path)]
  BY <1>1 DEF DeleteItem
<1>3. /\ items \in [Paths -> Hashes \cup {None}] /\ None \notin Hashes
      /\ items' \in [Paths -> Hashes \cup {None}]
  BY <1>2, LibraryAssumption DEF TypeInv
<1>4. PICK k \in Nat, size \in Nat, latest \in Nat :
        /\ stats[f].count = k /\ stats[f].size = size /\ stats[f].latest = latest
  BY DEF StatsInv
<1>5. /\ Placed(f)' = Placed(f) \ {path} /\ path \in Placed(f) /\ IsFiniteSet(Placed(f))
      /\ IsFiniteSet(Placed(f)')
  <2>1. Placed(f)' = Placed(f) \ {path} /\ path \in Placed(f) /\ IsFiniteSet(Placed(f))
    BY <1>1, <1>2, <1>3 DEF Placed, StatsInv
  <2>2. QED
    BY <2>1, FS_RemoveElement
<1>6. k >= 1 /\ Cardinality(Placed(f)') = k - 1 /\ Cardinality(Placed(f)') \in Nat
  <2>1. Cardinality(Placed(f)) = k
    BY <1>4 DEF StatsInv
  <2>2. Cardinality(Placed(f) \ {path}) = Cardinality(Placed(f)) - 1
    BY <1>5, FS_RemoveElement
  <2>3. Cardinality(Placed(f)') \in Nat
    BY <1>5, FS_CardinalityType
  <2>4. Cardinality(Placed(f)') = k - 1
    BY <1>5, <2>1, <2>2
  <2>5. QED
    BY <2>3, <2>4
<1>7. /\ \A p \in Placed(f)' : SizeAt[p] = SizeAt'[p] /\ CapturedAt'[p] = CapturedAt[p]
      /\ SizeAt[path] = Size[h] /\ Size[h] \in Nat
  <2>1. ASSUME NEW p \in Placed(f)'
        PROVE  SizeAt[p] = SizeAt'[p] /\ CapturedAt'[p] = CapturedAt[p]
    <3>1. p \in Paths /\ p # path
      BY <1>5 DEF Placed
    <3>2. items'[p] = items[p]
      BY <1>2, <1>3, <3>1
    <3>3. QED
      BY <3>1, <3>2 DEF SizeAt, CapturedAt
  <2>2. SizeAt[path] = Size[h]
    BY <1>2, <1>3 DEF SizeAt
  <2>3. Size[h] \in Nat
    BY LibraryAssumption
  <2>4. QED
    BY <2>1, <2>2, <2>3
<1>8. PICK rest \in Nat : /\ SumOver(SizeAt', Placed(f)') = rest
                          /\ SumOver(SizeAt, Placed(f)) = Size[h] + rest
  <2>1. \A p \in Placed(f) : SizeAt[p] \in Int
    BY <1>3, Contributions DEF Placed
  <2>2. SumOver(SizeAt, Placed(f)) = SizeAt[path] + SumOver(SizeAt, Placed(f) \ {path})
    BY <1>5, <2>1, SumOverTake
  <2>3. SumOver(SizeAt, Placed(f)') = SumOver(SizeAt', Placed(f)')
    BY <1>5, <1>7, SumOverCong
  <2>4. \A p \in Placed(f)' : SizeAt[p] \in Nat
    BY <1>3, <1>5, Contributions DEF Placed
  <2>5. SumOver(SizeAt, Placed(f)') \in Nat
    BY <1>5, <2>4, SumOverType
  <2>6. QED
    BY <1>5, <1>7, <2>2, <2>3, <2>5
<1>9. size = Size[h] + rest
  BY <1>4, <1>8 DEF StatsInv
<1>10. OthersCaptured(path) = CapturedIn(f)'
  BY <1>1, <1>2, <1>3, <1>5 DEF OthersCaptured, CapturedIn, CapturedAt, Placed
<1>11. Max({0} \cup CapturedIn(f)') \in Nat
  <2>1. /\ CapturedIn(f)' \subseteq Nat
    BY <1>3, Contributions, <1>5, <1>7 DEF CapturedIn, Placed
  <2>2. IsFiniteSet(CapturedIn(f)')
    BY <1>5, ImageFinite DEF CapturedIn
  <2>3. IsFiniteSet(CapturedIn(f)' \cup {0})
    BY <2>2, FS_AddElement
  <2>4. CapturedIn(f)' \cup {0} = {0} \cup CapturedIn(f)'
    OBVIOUS
  <2>5. Max({0} \cup CapturedIn(f)') \in {0} \cup CapturedIn(f)'
    BY <2>1, <2>3, <2>4, MaxIsMax
  <2>6. QED
    BY <2>1, <2>5
<1>12. /\ stats'[f] \in [count : Nat, size : Nat, latest : Nat]
       /\ stats'[f].count = Cardinality(Placed(f)')
       /\ stats'[f].size = SumOver(SizeAt', Placed(f)')
       /\ stats'[f].latest = Max({0} \cup CapturedIn(f)')
  <2>1. stats'[f] = RemoveFromAlbumStats(stats[f], path)
    BY <1>2 DEF StatsInv
  <2>2. CASE k <= 1
    <3>1. stats'[f] = NoStat
      BY <1>4, <2>1, <2>2 DEF RemoveFromAlbumStats
    <3>2. Cardinality(Placed(f)') = 0
      BY <1>6, <2>2
    <3>3. Placed(f)' = {}
      BY <1>5, <3>2, FS_EmptySet
    <3>4. rest = 0
      BY <1>5, <1>8, <3>3, SumOverStep
    <3>5. Max({0} \cup CapturedIn(f)') = 0
      <4>1. {0} \cup CapturedIn(f)' = {0}
        BY <3>3 DEF CapturedIn
      <4>2. Max({0}) = 0
        BY MaxIs
      <4>3. QED
        BY <4>1, <4>2
    <3>6. QED
      BY <1>8, <3>1, <3>2, <3>4, <3>5 DEF NoStat
  <2>3. CASE k > 1
    <3>1. stats'[f] = [count  |-> k - 1, size |-> size - Size[h],
                       latest |-> Max({0} \cup CapturedIn(f)')]
      BY <1>2, <1>4, <1>10, <2>1, <2>3 DEF RemoveFromAlbumStats
    <3>2. size - Size[h] = rest
      BY <1>7, <1>9
    <3>3. stats'[f] = [count  |-> Cardinality(Placed(f)'), size |-> SumOver(SizeAt', Placed(f)'),
                       latest |-> Max({0} \cup CapturedIn(f)')]
      BY <1>6, <1>8, <3>1, <3>2
    <3>4. Cardinality(Placed(f)') \in Nat /\ SumOver(SizeAt', Placed(f)') \in Nat
      BY <1>6, <1>8
    <3>5. QED
      BY <1>11, <3>3, <3>4
  <2>4. QED
    BY <2>2, <2>3
<1>13. stats' \in [Folders -> [count : Nat, size : Nat, latest : Nat]]
  BY <1>2, <1>12 DEF StatsInv
<1>14. ASSUME NEW g \in Folders \ {f}
       PROVE  /\ IsFiniteSet(Placed(g)')
              /\ stats'[g].count = Cardinality(Placed(g)')
              /\ stats'[g].size = SumOver(SizeAt', Placed(g)')
              /\ stats'[g].latest = Max({0} \cup CapturedIn(g)')
  <2>1. \A p \in Paths : Folder(p) = g => items'[p] = items[p]
    BY <1>1, <1>2, <1>3
  <2>2. stats'[g] = stats[g]
    BY <1>2 DEF StatsInv
  <2>3. QED
    BY <2>1, <2>2, FolderUndisturbed DEF StatsInv
<1>15. QED
  BY <1>5, <1>12, <1>13, <1>14 DEF StatsInv

LEMMA StatsStep == TypeInv /\ StatsInv /\ [Next]_vars => StatsInv'
<1> SUFFICES ASSUME TypeInv, StatsInv, [Next]_vars PROVE StatsInv'
  OBVIOUS
<1>1. ASSUME UNCHANGED <<items, stats>> PROVE StatsInv'
  BY <1>1 DEF StatsInv, SizeAt, CapturedIn, CapturedAt, Placed
<1>2. ASSUME NEW r \in Callers,
             Begin(r) \/ Place(r) \/ InsertBlob(r) \/ Fail(r)
      PROVE  StatsInv'
  BY <1>1, <1>2 DEF Place, rows, Begin, ResolveBase, ResolveSuffixed, StatStaged,
     RenameStaged, LookupBlob, LinkCanonical, Publish, InsertBlob, Fail
<1>3. ASSUME NEW h \in Hashes, Upload(h) PROVE StatsInv'
  BY <1>1, <1>3 DEF Upload, rows
<1>4. CASE UNCHANGED vars
  BY <1>1, <1>4 DEF vars
<1>5. QED
  BY <1>2, <1>3, <1>4, InsertCounts, RemoveCounts DEF Next

LEMMA StatsInit == Init => StatsInv
<1> SUFFICES ASSUME Init PROVE StatsInv
  OBVIOUS
<1>1. stats \in [Folders -> [count : Nat, size : Nat, latest : Nat]]
  BY DEF Init, NoStat
<1>2. ASSUME NEW f \in Folders
      PROVE  /\ IsFiniteSet(Placed(f))
             /\ stats[f].count = Cardinality(Placed(f))
             /\ stats[f].size = SumOver(SizeAt, Placed(f))
             /\ stats[f].latest = Max({0} \cup CapturedIn(f))
  <2>1. Placed(f) = {} /\ {0} \cup CapturedIn(f) = {0} /\ stats[f] = NoStat
    BY DEF Init, Placed, CapturedIn
  <2>2. IsFiniteSet({}) /\ Cardinality({}) = 0
    BY FS_EmptySet
  <2>3. SumOver(SizeAt, {}) = 0
    BY <2>2, SumOverStep
  <2>4. Max({0}) = 0
    BY MaxIs
  <2>5. QED
    BY <2>1, <2>2, <2>3, <2>4 DEF NoStat
<1>3. QED
  BY <1>1, <1>2 DEF StatsInv

\* The community module's sum over a folder is the sum of the contributions.
LEMMA SizeOfAlbum ==
  ASSUME NEW f, IsFiniteSet(Placed(f))
  PROVE  MapThenSumSet(LAMBDA p : Size[items[p]], Placed(f)) = SumOver(SizeAt, Placed(f))
<1> DEFINE S == Placed(f)
           It(I) == I = [s \in SUBSET S |->
                           IF s = {} THEN 0 ELSE Size[items[Chosen(s)]] + I[Others(s)]]
<1>1. \A s \in SUBSET S : s # {} => SizeAt[Chosen(s)] = Size[items[Chosen(s)]]
  BY ChosenInside DEF SizeAt, Placed
<1>2. ASSUME NEW I, IsSummation(I, SizeAt, S) PROVE It(I)
  BY <1>1, <1>2 DEF IsSummation
<1>3. ASSUME NEW I, It(I) PROVE IsSummation(I, SizeAt, S)
  BY <1>1, <1>3 DEF IsSummation
<1>4. \E I : It(I)
  BY <1>2, SummationExists
<1>5. It(CHOOSE I : It(I))
  BY <1>4
<1>6. IsSummation(CHOOSE I : It(I), SizeAt, S)
  BY <1>3, <1>5
<1>7. (CHOOSE I : It(I))[S] = SumOver(SizeAt, S)
  BY <1>6, SumOverIs
<1>8. MapThenSumSet(LAMBDA p : Size[items[p]], S) = (CHOOSE I : It(I))[S]
  BY Zenon DEF MapThenSumSet, MapThenFoldSet, Chosen, Others
<1>9. QED
  BY <1>7, <1>8

\* album_stats is the aggregate over items at every commit, for any number of
\* placements, deletions and failures and whatever names are asked for: the
\* increments of InsertItem and DeleteItem never drift from what DeriveAlbumStats
\* would compute.
THEOREM AlbumCountersAreAggregate == Spec => []StatsAreAggregate
<1>1. Init => TypeInv /\ ReadInv /\ StatsInv
  BY InvInit, StatsInit DEF Inv
<1>2. TypeInv /\ ReadInv /\ StatsInv /\ [Next]_vars => (TypeInv /\ ReadInv /\ StatsInv)'
  BY TypeStep, ReadStep, StatsStep
<1>3. StatsInv => StatsAreAggregate
  <2> SUFFICES ASSUME StatsInv, NEW f \in Folders
               PROVE  stats[f] = [count  |-> Cardinality(Placed(f)),
                        size   |-> MapThenSumSet(LAMBDA p : Size[items[p]], Placed(f)),
                        latest |-> Max({0} \cup {Captured[items[p]] : p \in Placed(f)})]
    BY DEF StatsAreAggregate
  <2>1. MapThenSumSet(LAMBDA p : Size[items[p]], Placed(f)) = SumOver(SizeAt, Placed(f))
    BY SizeOfAlbum DEF StatsInv
  <2>2. {Captured[items[p]] : p \in Placed(f)} = CapturedIn(f)
    BY DEF CapturedIn, CapturedAt, Placed
  <2>3. stats[f] = [count  |-> Cardinality(Placed(f)), size |-> SumOver(SizeAt, Placed(f)),
                    latest |-> Max({0} \cup CapturedIn(f))]
    BY DEF StatsInv
  <2>4. QED
    BY <2>1, <2>2, <2>3
<1>4. QED
  BY <1>1, <1>2, <1>3, PTL DEF Spec

-----------------------------------------------------------------------------
(* Type correctness and the foreign key *)

LEMMA RowStep == TypeInv /\ ReadInv /\ RowInv /\ [Next]_vars => RowInv'
<1> SUFFICES ASSUME TypeInv, ReadInv, RowInv, [Next]_vars PROVE RowInv'
  OBVIOUS
<1> USE LibraryAssumption DEF RowInv
<1>1. ASSUME UNCHANGED rows, UNCHANGED counters PROVE RowInv'
  BY <1>1 DEF rows, counters
<1>2. ASSUME NEW r \in Callers PROVE
        /\ Begin(r) => RowInv'
        /\ Place(r) => RowInv'
        /\ InsertBlob(r) => RowInv'
        /\ InsertItem(r) => RowInv'
        /\ Fail(r) => RowInv'
  <2>1. CASE Begin(r)
    BY <2>1 DEF Begin, rows
  <2>2. CASE Place(r)
    BY <1>1, <2>2 DEF Place, ResolveBase, ResolveSuffixed, StatStaged, RenameStaged,
       LookupBlob, LinkCanonical, Publish
  <2>3. CASE InsertBlob(r)
    <3>1. PICK h \in Hashes, path \in Paths : h = req[r].hash /\ path = req[r].path
      BY <2>3, RequestUpdates DEF TypeInv, Active, InsertBlob
    <3>2. path # None /\ blobs' = [blobs EXCEPT ![h] = IF @ = None THEN path ELSE @]
      BY <2>3, <3>1 DEF InsertBlob
    <3>3. UNCHANGED items /\ UNCHANGED counters
      BY <2>3 DEF InsertBlob
    <3>4. QED
      BY <3>2, <3>3 DEF TypeInv, counters
  <2>4. CASE InsertItem(r)
    <3>1. PICK h \in Hashes, path \in Paths : h = req[r].hash /\ path = req[r].path
      BY <2>4, RequestUpdates DEF TypeInv, Active, InsertItem
    <3>2. items' = [items EXCEPT ![path] = h] /\ blobs[h] # None
      BY <2>4, <3>1 DEF InsertItem
    <3>3. UNCHANGED blobs /\ UNCHANGED counters
      BY <2>4 DEF InsertItem
    <3>4. QED
      BY <3>2, <3>3 DEF TypeInv, counters
  <2>5. CASE Fail(r)
    BY <2>5 DEF Fail, rows
  <2>6. QED
    BY <2>1, <2>2, <2>3, <2>4, <2>5
<1>3. ASSUME NEW path \in Paths, DeleteItem(path) PROVE RowInv'
  BY <1>3 DEF DeleteItem, TypeInv
<1>4. ASSUME NEW h \in Hashes, Upload(h) PROVE RowInv'
  BY <1>1, <1>4 DEF Upload
<1>5. CASE UNCHANGED vars
  BY <1>1, <1>5 DEF vars, rows, counters
<1>6. QED
  BY <1>2, <1>3, <1>4, <1>5 DEF Next

\* Every reachable state has its types: in particular the foreign key from items
\* to blobs holds, and no counter of an album is negative, however deletions and
\* placements interleave.
THEOREM LibraryTypes == Spec => []TypeOK
<1>1. Init => TypeInv /\ ReadInv /\ StatsInv /\ RowInv
  <2>1. Init => RowInv
    BY LibraryAssumption DEF Init, RowInv
  <2>2. QED
    BY <2>1, InvInit, StatsInit DEF Inv
<1>2. TypeInv /\ ReadInv /\ StatsInv /\ RowInv /\ [Next]_vars
        => (TypeInv /\ ReadInv /\ StatsInv /\ RowInv)'
  BY TypeStep, ReadStep, StatsStep, RowStep
<1>3. TypeInv /\ StatsInv /\ RowInv => TypeOK
  BY DEF TypeInv, StatsInv, RowInv, TypeOK, AlbumStat
<1>4. QED
  BY <1>1, <1>2, <1>3, PTL DEF Spec
=============================================================================
