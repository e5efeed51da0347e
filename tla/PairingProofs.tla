----------------------------- MODULE PairingProofs -----------------------------
(***************************************************************************)
(* Blobs and rows stay paired, failed uploads leave nothing, and a share  *)
(* nobody has given up is kept, for any number of ids, uploaders and      *)
(* clients, and any crashes, failing calls and edits of the directory.    *)
(***************************************************************************)
EXTENDS ShareServerProofs

\* Where each kind of goroutine may be; during a start nobody else runs.
UploadPlaces == BeforeUUID \cup Reserving \cup {"idle"}
ClientPlaces == {"idle", "page", "get", "lstat", "serve", "removeMissing", "delete",
                 "removeSelected", "deleteDone"}
CleanerPlaces == BootLabels \cup {"sleep", "dayUnprotected", "dayReconcile", "dayExpired"}

Places ==
  /\ \A u \in Uploaders : pc[u] \in UploadPlaces
  /\ \A c \in Clients : pc[c] \in ClientPlaces
  /\ pc[Cleaner] \in CleanerPlaces
  /\ ~Serving => \A p \in Procs \ {Cleaner} : pc[p] = "idle"

\* Integrity.mu is held by whoever publishes, or by the caller of the pass in progress.
Exclusion ==
  /\ \A u \in Uploaders : pc[u] \in Publishing => mu = u
  /\ mu = NoOne => pass = NoPass
  /\ mu # NoOne => \/ pc[mu] \in Calls /\ pass.kind = KindOf(pc[mu])
                   \/ mu \in Uploaders /\ pc[mu] \in Publishing /\ pass = NoPass

\* Ids in use were drawn, and no two uploads drew the same.
IdsDrawn ==
  /\ Blobs \cup Registered \cup staging \subseteq issued
  /\ \A p \in Procs : target[p] \in issued \cup {NoId}
  /\ \A u, v \in Uploaders : u # v /\ target[u] = target[v] => target[u] = NoId

Staged == {"staging", "lockCapacity", "unprotected2", "expired2", "lockStorage", "check",
           "unlock", "unstage"}

\* What an upload under way, or answered, has left on disk and in the table.
Draft(u) ==
  /\ pc[u] \in BeforeUUID => target[u] = NoId
  /\ pc[u] \in BeforeUUID \cup Claiming \cup {"insert"} => answer[u] = "none"
  /\ answer[u] # "created" => target[u] \notin Registered
  /\ target[u] \in Blobs => \/ answer[u] = "created"
                            \/ pc[u] = "insert"
                            \/ "unlink" \in IOFaults /\ answer[u] \in Errors
  /\ pc[u] = "insert" => target[u] \in Blobs \cup tampered /\ size[target[u]] = got[u]
  /\ target[u] \in staging => pc[u] \in Staged \/ ("unlink" \in IOFaults /\ faults > 0)

DraftsHidden == \A u \in Uploaders : Draft(u)

StagingKnown ==
  faults = 0 /\ pc[Cleaner] # "bootClear" => staging \subseteq {target[u] : u \in Uploaders}

\* What a request knows of the share it looks at.
Reader(c) ==
  /\ chosen[c] \subseteq selected
  /\ pc[c] = "removeSelected" => target[c] \in selected
  /\ pc[c] \in {"lstat", "serve", "removeMissing"} =>
       \A u \in Uploaders : target[u] = target[c] => answer[u] = "created"
  /\ pc[c] \in {"lstat", "serve"} /\ target[c] \in Blobs => target[c] \in Registered
  /\ pc[c] = "removeMissing" => target[c] \notin Blobs

ReadersSawRow == \A c \in Clients : Reader(c)

PastInstants == \A p \in Procs : asof[p] <= now

\* The pass in progress.
PassShape ==
  /\ pass.walking => pass.kind = "reconcile" /\ pass.cur = NoId
  /\ pass.cur \notin Blobs \cup pass.todo
  /\ pass.clean \/ faults > 0 \/ tampered # {}

Worklist ==
  /\ pass.kind = "unprotected" => pass.todo \cap Registered \subseteq UnprotectedIds
  /\ pass.kind = "expired" => pass.todo \cap Registered \subseteq ExpiredIds(now)
  /\ pass.kind = "remove" => pass.todo \cap Blobs \subseteq selected

Reconciling ==
  pass.kind = "reconcile" /\ pass.clean =>
    /\ pass.known \subseteq Blobs \cap Registered
    /\ Registered \subseteq pass.known \cup pass.todo \cup {pass.cur}
    /\ ~pass.walking => pass.todo \subseteq Registered
    /\ pass.walking => /\ Registered \subseteq pass.known
                       /\ Blobs \ pass.known \subseteq pass.todo
                       /\ pass.todo \cap pass.known = {}

ReadsWork == {"lstat", "query"} \cap IOFaults = {}

WalkSpares ==
  ReadsWork /\ pass.kind = "reconcile" =>
    IF pass.walking THEN pass.todo \cap Registered = {}
    ELSE Blobs \cap Registered \subseteq pass.known \cup pass.todo

Reconciled == pc[Cleaner] \notin {"bootClear", "bootUnprotected", "bootReconcile"}

Paired ==
  faults = 0 /\ tampered = {} /\ Reconciled =>
    /\ Blobs \ Registered \subseteq {target[u] : u \in {v \in Uploaders : pc[v] = "insert"}}
    /\ Registered \ Blobs \subseteq {pass.cur}

PassFacts == PassShape /\ Worklist /\ Reconciling /\ WalkSpares

\* The inductive invariant.
PairingInv == /\ Places /\ Exclusion /\ IdsDrawn /\ DraftsHidden /\ StagingKnown
              /\ ReadersSawRow /\ PastInstants /\ PassFacts /\ Paired

-----------------------------------------------------------------------------
(* Who is who, and where                                                   *)

\* Goroutines of different sorts have different names.
LEMMA Names ==
  /\ NoOne \notin Procs /\ Uploaders \subseteq Procs /\ Clients \subseteq Procs /\ Cleaner \in Procs
  /\ \A u \in Uploaders : u \notin Clients /\ u # Cleaner
  /\ \A c \in Clients : c # Cleaner
  /\ NoId \notin Ids
  BY NamesAssumption DEF Procs

\* The domains of what moves.
LEMMA Domains ==
  ASSUME TypeInv
  PROVE  /\ pc \in [Procs -> Labels] /\ target \in [Procs -> Ids \cup {NoId}]
         /\ asof \in [Procs -> Nat] /\ now \in Nat /\ faults \in Nat
         /\ file \in [Ids -> {"none", "regular", "directory"}] /\ rows \subseteq Row
         /\ answer \in [Uploaders -> Errors \cup {"none", "created"}]
         /\ chosen \in [Clients -> SUBSET Ids] /\ rowExp \in [Clients -> Nat]
         /\ staging \subseteq Ids /\ issued \subseteq Ids /\ pass \in Pass
         /\ mu \in Procs \cup {NoOne} /\ selected \subseteq Ids /\ tampered \subseteq Ids
  BY DEF TypeInv, TypeOK

\* A step of an upload leaves its goroutine at a place of uploads.
LEMMA UploadMoves ==
  ASSUME NEW u \in Uploaders, Upload(u)
  PROVE  Serving /\ \E l \in UploadPlaces : Goto(u, l)
<1> USE DEF UploadPlaces, BeforeUUID, Reserving, Claiming, Finish
<1>1. CASE BeginUpload(u) \/ ListForReserve(u) \/ Reserve(u) \/ LockHash(u) \/ Hash(u)
  BY <1>1 DEF Upload, BeginUpload, ListForReserve, Reserve, LockHash, Hash
<1>2. CASE OpenStaging(u) \/ StageBody(u) \/ RefuseBody(u) \/ LockCapacity(u) \/ LockStorage(u)
  BY <1>2 DEF Upload, OpenStaging, StageBody, RefuseBody, LockCapacity, LockStorage
<1>3. CASE RejectOverCap(u) \/ Commit(u) \/ InsertRow(u) \/ RollBack(u) \/ Unlock(u)
           \/ Unstage(u) \/ Release(u)
  BY <1>3 DEF Upload, RejectOverCap, Commit, Publish, RenameFails, InsertRow, RollBack, Unlock, Unstage, Release
<1> QED
  BY <1>1, <1>2, <1>3 DEF Upload, UploadStep, UploadRuns, BodyEnds

\* A step of a request leaves its goroutine at a place of requests.
LEMMA RequestMoves ==
  ASSUME NEW c \in Clients, Request(c)
  PROVE  Serving /\ (UNCHANGED pc \/ \E l \in ClientPlaces : Goto(c, l))
  BY DEF Request, RequestArrives, RequestRuns, ClientPlaces, OpenPage, OpenShare, GetRow, LookAtBlob,
         Answered, Serve, ShowSharePage, SelectShares, DeleteNext, DeleteDone

\* A pass moves its caller when it ends, and nobody before.
LEMMA PassMoves ==
  ASSUME NEW p \in Procs, Passes(p), ~EndPass(p)
  PROVE  UNCHANGED <<pc, target, asof>>
  BY DEF Passes, PassStep, StartPass, FindVacant, UnlinkBlob, KeepKnown, SkipFailing, RemoveOrphan,
         DeleteRow, StartWalk, goroutines

\* A pass returns its goroutine to a place of its own sort, and never into a
\* publication.
LEMMA ReturnPlaces ==
  ASSUME NEW l \in Calls
  PROVE  /\ l \in UploadPlaces => /\ Return(l) \in UploadPlaces /\ Return(l) \notin {"idle", "delete"}
                                  /\ Return(l) \notin Publishing /\ Return(l) \notin {"insert", "unlock", "unstage"}
         /\ l \in ClientPlaces => Return(l) \in ClientPlaces /\ Return(l) \in {"idle", "delete"}
         /\ l \in CleanerPlaces => Return(l) \in CleanerPlaces
         /\ l \in BootLabels <=> l \in {"bootUnprotected", "bootReconcile", "bootExpired"}
         /\ Return(l) \in BootLabels => l \in BootLabels
  BY DEF Calls, UnprotectedCalls, ExpiredCalls, ReconcileCalls, RemoveCalls, Return, AfterBoot,
         AfterDay, UploadPlaces, ClientPlaces, CleanerPlaces, BeforeUUID, Reserving, Claiming,
         BootLabels, Publishing

\* Every step keeps goroutines at the places of their sort.
LEMMA PlacesKept ==
  ASSUME TypeInv, Places, [Next]_vars
  PROVE  Places'
<1>0. pc \in [Procs -> Labels]
  BY Domains
<1>1. ASSUME NEW u \in Uploaders, Upload(u) PROVE Places'
  <2>1. PICK l \in UploadPlaces : Goto(u, l)
    BY <1>1, UploadMoves
  <2>2. Serving
    BY <1>1 DEF Upload
  <2> QED
    BY <1>0, <2>1, <2>2, Names DEF Places, Goto, Serving
<1>2. ASSUME NEW c \in Clients, Request(c) PROVE Places'
  <2>1. Serving /\ (UNCHANGED pc \/ \E l \in ClientPlaces : Goto(c, l))
    BY <1>2, RequestMoves
  <2> QED
    BY <1>0, <2>1, Names DEF Places, Goto, Serving
<1>3. ASSUME NEW p \in Procs, Passes(p) PROVE Places'
  <2>1. CASE EndPass(p)
    <3>1. pc[p] \in Calls /\ pc' = [pc EXCEPT ![p] = Return(pc[p])]
      BY <2>1 DEF EndPass, Goto
    <3>2. Return(pc[p]) \in BootLabels => pc[p] \in BootLabels
      BY <3>1, ReturnPlaces
    <3>3. "idle" \notin Calls
      BY DEF Calls, UnprotectedCalls, ExpiredCalls, ReconcileCalls, RemoveCalls
    <3> QED
      BY <1>0, <3>1, <3>2, <3>3, Names, ReturnPlaces DEF Places, Serving, Procs
  <2>2. CASE ~EndPass(p)
    BY <1>3, <2>2, PassMoves DEF Places, Serving
  <2> QED
    BY <2>1, <2>2
<1>4. CASE Crash
  BY <1>4, Names DEF Crash, Places, UploadPlaces, ClientPlaces, CleanerPlaces, BootLabels
<1>5. CASE ClearStaging \/ Midnight
  BY <1>0, <1>5, Names
     DEF ClearStaging, Midnight, Goto, Places, CleanerPlaces, BootLabels, Serving
<1>6. CASE Tick \/ (\E i \in Ids : Tamper(i)) \/ UNCHANGED vars
  BY <1>6 DEF Tick, Tamper, vars, goroutines, Places, Serving
<1> QED
  BY <1>1, <1>2, <1>3, <1>4, <1>5, <1>6 DEF Next

-----------------------------------------------------------------------------
(* Integrity.mu excludes                                                   *)

\* Calls of passes are no part of a publication; both work under Integrity.mu.
LEMMA CallsApart ==
  /\ Calls \cap Publishing = {}
  /\ {"idle", "reserve", "reserving", "hash", "hashing", "stage", "staging", "lockCapacity",
      "lockStorage", "unstage", "release", "get", "lstat", "serve", "delete", "sleep",
      "bootClear"} \cap (Calls \cup Publishing) = {}
  /\ {"unprotected1", "unprotected2"} \cap Publishing = {}
  /\ Publishing = {"check", "insert", "unlock"}
  /\ \A l \in Calls : KindOf(l) # "none"
  BY DEF Calls, UnprotectedCalls, ExpiredCalls, ReconcileCalls, RemoveCalls, Publishing, KindOf

\* Every step keeps the two apart: one goroutine holds the mutex at a time.
LEMMA ExclusionKept ==
  ASSUME TypeInv, Places, Exclusion, [Next]_vars
  PROVE  Exclusion'
<1>0. pc \in [Procs -> Labels] /\ mu \in Procs \cup {NoOne} /\ Exclusion
  BY Domains
<1>1. ASSUME NEW u \in Uploaders, Upload(u) PROVE Exclusion'
  <2> USE <1>0, Names, CallsApart DEF Exclusion, Goto, Finish
  <2>1. CASE BeginUpload(u) \/ ListForReserve(u) \/ Reserve(u) \/ LockHash(u) \/ Hash(u)
    BY <2>1 DEF BeginUpload, ListForReserve, Reserve, LockHash, Hash
  <2>2. CASE OpenStaging(u) \/ StageBody(u) \/ RefuseBody(u) \/ LockCapacity(u)
    BY <2>2 DEF OpenStaging, StageBody, RefuseBody, LockCapacity
  <2>3. CASE LockStorage(u)
    BY <2>3 DEF LockStorage
  <2>4. CASE RejectOverCap(u) \/ Commit(u) \/ InsertRow(u) \/ RollBack(u)
    BY <2>4 DEF RejectOverCap, Commit, Publish, RenameFails, InsertRow, RollBack
  <2>5. CASE Unlock(u)
    BY <2>5 DEF Unlock
  <2>6. CASE Unstage(u) \/ Release(u)
    BY <2>6 DEF Unstage, Release
  <2> QED
    BY <1>1, <2>1, <2>2, <2>3, <2>4, <2>5, <2>6 DEF Upload, UploadStep, UploadRuns, BodyEnds
<1>2. ASSUME NEW c \in Clients, Request(c) PROVE Exclusion'
  <2>1. pc[c] \notin Calls /\ UNCHANGED <<mu, pass>>
    BY <1>2, CallsApart
       DEF Request, RequestArrives, RequestRuns, OpenPage, OpenShare, GetRow, LookAtBlob,
           Serve, ShowSharePage, SelectShares, DeleteNext, DeleteDone
  <2>2. UNCHANGED pc \/ \E l \in ClientPlaces : Goto(c, l)
    BY <1>2, RequestMoves
  <2> QED
    BY <1>0, <2>1, <2>2, Names DEF Exclusion, Goto
<1>3. ASSUME NEW p \in Procs, Passes(p) PROVE Exclusion'
  <2>1. CASE StartPass(p)
    BY <1>0, <2>1, Names, CallsApart DEF Exclusion, StartPass, NewPass, goroutines
  <2>2. CASE EndPass(p)
    BY <1>0, <2>2, Names, CallsApart, ReturnPlaces DEF Exclusion, Places, EndPass, Goto
  <2>3. CASE ~StartPass(p) /\ ~EndPass(p)
    <3>1. mu = p /\ pc[p] \in Calls /\ pass'.kind = pass.kind /\ UNCHANGED <<pc, mu>>
      BY <1>3, <2>3, Domains
         DEF Passes, PassStep, FindVacant, UnlinkBlob, KeepKnown, SkipFailing, RemoveOrphan,
             DeleteRow, StartWalk, Examines, Looked, goroutines, Pass
    <3> QED
      BY <1>0, <3>1, Names, CallsApart DEF Exclusion
  <2> QED
    BY <2>1, <2>2, <2>3
<1>4. CASE Crash
  BY <1>4, CallsApart, Names DEF Crash, Exclusion
<1>5. CASE ClearStaging \/ Midnight
  BY <1>0, <1>5, Names, CallsApart DEF ClearStaging, Midnight, Goto, Exclusion
<1>6. ASSUME NEW i \in Ids, Tamper(i) PROVE Exclusion'
  <2>1. pass'.kind = pass.kind /\ (pass = NoPass => pass' = pass) /\ UNCHANGED <<pc, mu>>
    BY <1>6, Domains DEF Tamper, Pass, NoPass, NewPass, goroutines
  <2> QED
    BY <1>0, <2>1 DEF Exclusion
<1>7. CASE Tick \/ UNCHANGED vars
  BY <1>7 DEF Tick, vars, goroutines, Exclusion
<1> QED
  BY <1>1, <1>2, <1>3, <1>4, <1>5, <1>6, <1>7 DEF Next

-----------------------------------------------------------------------------
(* Ids are drawn once                                                      *)

\* Whose steps change what: files, rows, staged files and drawn ids.
LEMMA RequestFootprint ==
  ASSUME NEW c \in Clients, Request(c)
  PROVE  /\ UNCHANGED <<disk, rows, now, mu, pass, res, got, exp, answer, issued, missed, tampered, crashes>>
         /\ faults' \in {faults, faults + 1}
  BY DEF Request, RequestArrives, RequestRuns, OpenPage, OpenShare, GetRow, LookAtBlob, Serve,
         ShowSharePage, SelectShares, DeleteNext, DeleteDone, uploads, requests, history, Fails, Succeeds

\* A pass unlinks files and deletes rows, and adds none.
LEMMA PassFootprint ==
  ASSUME TypeInv, NEW p \in Procs, Passes(p)
  PROVE  /\ UNCHANGED <<size, staging, now, uploads, requests, history>>
         /\ Blobs' \subseteq Blobs /\ rows' \subseteq rows /\ Registered' \subseteq Registered
         /\ faults' \in {faults, faults + 1}
<1>1. UNCHANGED <<size, staging, now, uploads, requests, history>>
  BY DEF Passes, PassStep, StartPass, FindVacant, UnlinkBlob, KeepKnown, SkipFailing, RemoveOrphan,
         DeleteRow, StartWalk, EndPass, disk
<1>2. UNCHANGED file \/ \E i \in Ids : file' = [file EXCEPT ![i] = "none"]
  BY DEF Passes, PassStep, StartPass, FindVacant, UnlinkBlob, KeepKnown, SkipFailing, RemoveOrphan,
         DeleteRow, StartWalk, EndPass, disk
<1>3. UNCHANGED rows \/ rows' = RowsWithout(pass.cur)
  BY DEF Passes, PassStep, StartPass, FindVacant, UnlinkBlob, KeepKnown, SkipFailing, RemoveOrphan,
         DeleteRow, StartWalk, EndPass
<1>4. faults' \in {faults, faults + 1}
  BY DEF Passes, PassStep, StartPass, FindVacant, UnlinkBlob, KeepKnown, SkipFailing, RemoveOrphan,
         DeleteRow, StartWalk, EndPass, Fails, Succeeds
<1>5. Blobs' \subseteq Blobs
  BY <1>2, Domains DEF Blobs
<1>6. rows' \subseteq rows
  BY <1>3 DEF RowsWithout
<1> QED
  BY <1>1, <1>4, <1>5, <1>6 DEF Registered

\* Where a request's share comes from.
LEMMA RequestTargets ==
  ASSUME TypeInv, NEW c \in Clients, Request(c)
  PROVE  /\ \A p \in Procs \ {c} : target'[p] = target[p] /\ pc'[p] = pc[p]
         /\ target'[c] \in {target[c], NoId} \cup issued \cup Registered
<1> USE Domains, Names
<1>1. CASE RequestArrives(c)
  BY <1>1 DEF RequestArrives, OpenPage, OpenShare, SelectShares, Goto
<1>2. CASE RequestRuns(c)
  BY <1>2 DEF RequestRuns, GetRow, LookAtBlob, Serve, ShowSharePage, DeleteNext, DeleteDone,
              Answered, Forget, Goto
<1> QED
  BY <1>1, <1>2 DEF Request

\* The insertion registers the upload's share.
LEMMA InsertRegisters ==
  ASSUME NEW u, InsertRow(u)
  PROVE  Registered' = Registered \cup {target[u]}
<1> DEFINE row == [id |-> target[u], exp |-> exp[u], protected |-> TRUE]
<1>1. rows' = rows \cup {row} /\ row.id = target[u]
  BY DEF InsertRow
<1> HIDE DEF row
<1> QED
  BY <1>1 DEF Registered

\* Every step keeps ids drawn for one upload, and all that is stored drawn.
LEMMA IdsDrawnKept ==
  ASSUME TypeInv, Places, Exclusion, IdsDrawn, [Next]_vars
  PROVE  IdsDrawn'
<1>0. /\ target \in [Procs -> Ids \cup {NoId}] /\ issued \subseteq Ids /\ IdsDrawn
      /\ file \in [Ids -> {"none", "regular", "directory"}]
  BY Domains
<1>1. ASSUME NEW u \in Uploaders, Upload(u) PROVE IdsDrawn'
  <2> USE <1>0, Names DEF IdsDrawn, Blobs, Registered, disk, uploads
  <2>1. CASE BeginUpload(u) \/ ListForReserve(u) \/ Reserve(u) \/ LockHash(u) \/ Hash(u)
    BY <2>1 DEF BeginUpload, ListForReserve, Reserve, LockHash, Hash
  <2>2. CASE OpenStaging(u)
    BY <2>2 DEF OpenStaging
  <2>3. CASE StageBody(u) \/ RefuseBody(u) \/ LockCapacity(u) \/ LockStorage(u) \/ RejectOverCap(u)
             \/ Unlock(u) \/ Unstage(u) \/ Release(u)
    BY <2>3 DEF StageBody, RefuseBody, LockCapacity, LockStorage, RejectOverCap, Unlock, Unstage, Release
  <2>4. CASE Commit(u)
    BY <2>4 DEF Commit, Publish, RenameFails
  <2>5. CASE InsertRow(u)
    <3>1. target[u] \in Ids /\ target[u] # NoId
      BY <2>5, UploadLabels DEF InsertRow, TypeInv, TargetsKnown
    <3>2. Registered' = Registered \cup {target[u]} /\ UNCHANGED <<file, staging, issued, target>>
      BY <2>5, InsertRegisters DEF InsertRow
    <3> QED
      BY <3>1, <3>2
  <2>6. CASE RollBack(u)
    BY <2>6 DEF RollBack
  <2> QED
    BY <1>1, <2>1, <2>2, <2>3, <2>4, <2>5, <2>6 DEF Upload, UploadStep, UploadRuns, BodyEnds
<1>2. ASSUME NEW c \in Clients, Request(c) PROVE IdsDrawn'
  BY <1>0, <1>2, Names, RequestFootprint, RequestTargets DEF IdsDrawn, Blobs, Registered, disk
<1>3. ASSUME NEW p \in Procs, Passes(p) PROVE IdsDrawn'
  <2>1. \A q \in Procs : target'[q] \in {target[q], NoId}
    BY <1>0, <1>3, PassMoves DEF EndPass
  <2> QED
    BY <1>0, <1>3, <2>1, Names, PassFootprint DEF IdsDrawn, uploads
<1>4. CASE Crash
  BY <1>0, <1>4, Names DEF Crash, IdsDrawn, disk, Blobs, Registered
<1>5. CASE ClearStaging
  BY <1>0, <1>5 DEF ClearStaging, IdsDrawn, uploads, Blobs, Registered
<1>6. ASSUME NEW i \in Ids, Tamper(i) PROVE IdsDrawn'
  BY <1>0, <1>6 DEF Tamper, IdsDrawn, uploads, goroutines, Blobs, Registered
<1>7. CASE Midnight \/ Tick \/ UNCHANGED vars
  BY <1>7 DEF Midnight, Tick, vars, goroutines, IdsDrawn, uploads, disk, Blobs, Registered
<1> QED
  BY <1>1, <1>2, <1>3, <1>4, <1>5, <1>6, <1>7 DEF Next

-----------------------------------------------------------------------------
(* What an upload has left                                                 *)

\* Nobody touches files, rows or the pass while an upload publishes.
LEMMA PublisherAlone ==
  ASSUME Exclusion, NEW u \in Uploaders, pc[u] \in Publishing
  PROVE  /\ mu = u /\ pass = NoPass
         /\ \A v \in Uploaders : pc[v] \in Publishing => v = u
         /\ \A p \in Procs : Passes(p) => ~EndPass(p) /\ UNCHANGED <<file, rows>>
<1>1. mu = u /\ pass = NoPass /\ pc[mu] \notin Calls
  BY Names, CallsApart DEF Exclusion
<1> QED
  BY <1>1 DEF Exclusion, Passes, PassStep, StartPass, FindVacant, UnlinkBlob, KeepKnown, SkipFailing,
              RemoveOrphan, DeleteRow, StartWalk, EndPass, Examines, disk

\* Steps of others leave an upload's draft as it is.
LEMMA DraftFrame ==
  ASSUME NEW u \in Uploaders, Draft(u),
         pc'[u] = pc[u], target'[u] = target[u], answer'[u] = answer[u], got'[u] = got[u],
         target[u] \in Registered' => target[u] \in Registered,
         target[u] \in Blobs' => target[u] \in Blobs,
         target[u] \in staging' => target[u] \in staging,
         faults > 0 => faults' > 0,
         pc[u] = "insert" => /\ target[u] \in Blobs \cup tampered => target[u] \in Blobs' \cup tampered'
                             /\ size'[target[u]] = size[target[u]]
  PROVE  Draft(u)'
  BY DEF Draft

\* Which labels of an upload come before its id, its claim and its staged file.
LEMMA DraftLabels ==
  /\ {"unprotected1", "reserving", "hash", "hashing", "stage"} \subseteq BeforeUUID
  /\ {"staging", "lockCapacity", "unprotected2", "lockStorage", "check", "hash", "hashing",
      "stage"} \subseteq Claiming
  /\ {"staging", "lockCapacity", "unprotected2", "lockStorage", "check", "unlock", "unstage"} \subseteq Staged
  /\ {"staging", "lockCapacity", "unprotected2", "lockStorage", "check", "insert", "unlock", "unstage",
      "release", "idle"} \cap BeforeUUID = {}
  /\ {"insert", "unlock", "unstage", "release", "idle"} \cap Claiming = {}
  /\ {"insert", "release", "idle"} \cap Staged = {}
  /\ BeforeUUID \cap Staged = {} /\ "insert" \notin BeforeUUID
  /\ {"none", "created"} \cap Errors = {}
  /\ {"ErrCap", "ErrStore", "ErrBody", "ErrEncryptionRequired"} = Errors
  BY DEF BeforeUUID, Claiming, Staged, Errors

\* An upload writes under its own id only.
LEMMA UploadFootprint ==
  ASSUME TypeInv, NEW u \in Uploaders, Upload(u)
  PROVE  /\ \A v \in Uploaders \ {u} : /\ pc'[v] = pc[v] /\ target'[v] = target[v]
                                       /\ answer'[v] = answer[v] /\ got'[v] = got[v]
         /\ \A i \in Ids \ {target[u]} : file'[i] = file[i] /\ size'[i] = size[i]
         /\ Registered' \subseteq Registered \cup {target[u]} /\ Registered \subseteq Registered'
         /\ staging' \subseteq staging \cup {target'[u]}
         /\ target'[u] \in {target[u], NoId} \cup (Ids \ issued)
         /\ faults' \in {faults, faults + 1}
         /\ UNCHANGED <<now, asof, requests, history>>
<1> DEFINE Goal == /\ \A v \in Uploaders \ {u} : /\ pc'[v] = pc[v] /\ target'[v] = target[v]
                                                 /\ answer'[v] = answer[v] /\ got'[v] = got[v]
                   /\ \A i \in Ids \ {target[u]} : file'[i] = file[i] /\ size'[i] = size[i]
                   /\ Registered' \subseteq Registered \cup {target[u]} /\ Registered \subseteq Registered'
                   /\ staging' \subseteq staging \cup {target'[u]}
                   /\ target'[u] \in {target[u], NoId} \cup (Ids \ issued)
                   /\ faults' \in {faults, faults + 1}
                   /\ UNCHANGED <<now, asof, requests, history>>
<1> SUFFICES Goal
  OBVIOUS
<1>0. /\ u \in Procs /\ Uploaders \subseteq Procs /\ pc \in [Procs -> Labels]
      /\ target \in [Procs -> Ids \cup {NoId}] /\ got \in [Uploaders -> 0..MaxUpload]
      /\ answer \in [Uploaders -> Errors \cup {"none", "created"}] /\ faults \in Nat
      /\ file \in [Ids -> {"none", "regular", "directory"}] /\ size \in [Ids -> Nat]
      /\ UNCHANGED <<requests, history>>
  BY Names, Domains DEF TypeInv, TypeOK, Upload
<1> USE <1>0 DEF Finish, Goto, disk, uploads, Fails, Succeeds, Registered
<1>1. CASE BeginUpload(u) \/ ListForReserve(u) \/ Reserve(u) \/ LockHash(u) \/ Hash(u)
  BY <1>1 DEF BeginUpload, ListForReserve, Reserve, WalkSucceeds, WalkFails, LockHash, Hash
<1>2. CASE OpenStaging(u)
  BY <1>2 DEF OpenStaging
<1>3. CASE StageBody(u) \/ RefuseBody(u) \/ LockCapacity(u) \/ LockStorage(u) \/ RejectOverCap(u)
  BY <1>3 DEF StageBody, RefuseBody, LockCapacity, LockStorage, RejectOverCap
<1>4. CASE Unlock(u) \/ Unstage(u) \/ Release(u)
  BY <1>4 DEF Unlock, Unstage, Release
<1>5. CASE Commit(u)
  BY <1>5 DEF Commit, Publish, RenameFails, WalkSucceeds, WalkFails
<1>6. CASE InsertRow(u)
  <2>1. Registered' = Registered \cup {target[u]}
    BY <1>6, InsertRegisters
  <2> HIDE DEF Registered
  <2> QED
    BY <1>6, <2>1 DEF InsertRow
<1>7. CASE RollBack(u)
  BY <1>7 DEF RollBack
<1> QED
  BY <1>1, <1>2, <1>3, <1>4, <1>5, <1>6, <1>7 DEF Upload, UploadStep, UploadRuns, BodyEnds

\* An upload's step leaves the drafts of the others alone.
LEMMA OtherDraftsKept ==
  ASSUME TypeInv, Exclusion, IdsDrawn, NEW u \in Uploaders, Upload(u),
         NEW v \in Uploaders \ {u}, Draft(v)
  PROVE  Draft(v)'
<1>1. target[u] = target[v] => target[v] = NoId
  BY DEF IdsDrawn
<1>2. /\ target[v] \in issued \cup {NoId} /\ issued \subseteq Ids /\ NoId \notin Ids
      /\ Registered \cup Blobs \cup staging \subseteq issued
      /\ pc[v] = "insert" => target[v] \in Ids
  BY Domains, Names, UploadLabels DEF IdsDrawn, TypeInv, TargetsKnown
<1>3. /\ target[v] \in Blobs' <=> target[v] \in Blobs
      /\ target[v] \in Registered' => target[v] \in Registered
      /\ target[v] \in staging' => target[v] \in staging
  <2>1. target[v] \in Ids => target[v] # target[u] /\ target[v] # target'[u]
    BY <1>1, <1>2, UploadFootprint
  <2>2. Registered' \subseteq Ids /\ staging' \subseteq Ids
    BY StepTypes DEF TypeInv, TypeOK, Registered, Row, Next
  <2>3. Blobs \subseteq Ids /\ Blobs' \subseteq Ids
    BY DEF Blobs
  <2> QED
    BY <1>2, <2>1, <2>2, <2>3, UploadFootprint DEF Blobs
<1>4. pc[v] = "insert" => size'[target[v]] = size[target[v]]
  BY <1>1, <1>2, UploadFootprint
<1>5. /\ pc'[v] = pc[v] /\ target'[v] = target[v] /\ answer'[v] = answer[v] /\ got'[v] = got[v]
      /\ tampered' = tampered /\ (faults > 0 => faults' > 0)
  BY UploadFootprint, Domains DEF history
<1> QED
  BY <1>3, <1>4, <1>5, DraftFrame

\* An upload moves on with its files and its row, or is refused before it published.
LEMMA OwnFrame ==
  ASSUME TypeInv, NEW u \in Uploaders, Draft(u), pc[u] # "insert",
         NEW l, Goto(u, l), l # "insert",
         UNCHANGED <<file, rows>>, target'[u] = target[u], faults' \in {faults, faults + 1},
         staging' \subseteq staging,
         l \in BeforeUUID => pc[u] \in BeforeUUID,
         l \in BeforeUUID \cup Claiming => pc[u] \in BeforeUUID \cup Claiming,
         \/ answer'[u] = answer[u]
         \/ answer[u] = "none" /\ answer'[u] \in Errors /\ l \notin BeforeUUID \cup Claiming,
         target[u] \in staging' => \/ l \in Staged
                                   \/ "unlink" \in IOFaults /\ faults' > 0
  PROVE  Draft(u)'
<1>1. pc'[u] = l /\ faults \in Nat
  BY Domains, Names DEF Goto
<1>2. Blobs' = Blobs /\ Registered' = Registered
  BY DEF Blobs, Registered
<1> QED
  BY <1>1, <1>2, DraftLabels DEF Draft

\* The steps of an upload.
LEMMA UploadCases ==
  ASSUME NEW u \in Uploaders, Upload(u)
  PROVE  \/ BeginUpload(u) \/ ListForReserve(u) \/ Reserve(u) \/ LockHash(u) \/ Hash(u)
         \/ OpenStaging(u) \/ StageBody(u) \/ RefuseBody(u) \/ LockCapacity(u) \/ LockStorage(u)
         \/ RejectOverCap(u) \/ Commit(u) \/ InsertRow(u) \/ RollBack(u) \/ Unlock(u)
         \/ Unstage(u) \/ Release(u)
  BY DEF Upload, UploadStep, UploadRuns, BodyEnds

\* A pass an upload calls leaves it as far from its answer as it was.
LEMMA ReturnDraft ==
  ASSUME NEW l \in Calls, l \in UploadPlaces
  PROVE  /\ Return(l) \in BeforeUUID <=> l \in BeforeUUID
         /\ Return(l) \in Claiming <=> l \in Claiming
         /\ Return(l) \in Staged <=> l \in Staged
         /\ l # "insert" /\ Return(l) # "insert"
  BY DEF Calls, UnprotectedCalls, ExpiredCalls, ReconcileCalls, RemoveCalls, Return, AfterBoot,
         AfterDay, UploadPlaces, BeforeUUID, Reserving, Claiming, Staged

\* Its own step keeps its draft hidden until the row is inserted.
LEMMA OwnDraftKept ==
  ASSUME TypeInv, Exclusion, IdsDrawn, NEW u \in Uploaders, Draft(u), Upload(u)
  PROVE  Draft(u)'
<1>0. /\ u \in Procs /\ faults \in Nat /\ answer \in [Uploaders -> Errors \cup {"none", "created"}]
      /\ pc \in [Procs -> Labels] /\ target \in [Procs -> Ids \cup {NoId}]
      /\ target[u] \in issued \cup {NoId} /\ (pc[u] \in NeedsTarget => target[u] \in Ids)
      /\ NoId \notin Ids /\ issued \subseteq Ids /\ Registered \cup Blobs \cup staging \subseteq issued
  BY Domains, Names DEF TypeInv, TypeOK, TargetsKnown, IdsDrawn
<1>q. /\ pc[u] = "hash" \/ pc[u] = "hashing" \/ pc[u] = "reserve" \/ pc[u] = "reserving"
           => target[u] \notin staging
      /\ pc[u] \in BeforeUUID \cup Claiming => answer[u] = "none"
  BY <1>0, DraftLabels DEF Draft, BeforeUUID
<1>1. CASE BeginUpload(u)
  <2>1. /\ pc'[u] = "unprotected1" /\ target'[u] = NoId /\ answer'[u] = "none"
        /\ UNCHANGED <<file, rows, staging>>
    BY <1>0, <1>1 DEF BeginUpload, Finish, Goto, disk
  <2>2. NoId \notin Blobs' /\ NoId \notin Registered' /\ NoId \notin staging'
    BY <1>0, <2>1 DEF Blobs, Registered
  <2> QED
    BY <2>1, <2>2, DraftLabels DEF Draft
<1>2. CASE ListForReserve(u) \/ LockHash(u)
  BY <1>0, <1>q, <1>2, OwnFrame, DraftLabels
     DEF ListForReserve, LockHash, Goto, disk, uploads, BeforeUUID
<1>3. CASE Reserve(u)
  BY <1>0, <1>q, <1>3, OwnFrame, DraftLabels DEF Reserve, WalkSucceeds, WalkFails, Succeeds, Fails, Finish, disk
<1>4. CASE Hash(u)
  BY <1>0, <1>q, <1>4, OwnFrame, DraftLabels DEF Hash, Finish, Fails, Succeeds, disk
<1>5. CASE OpenStaging(u)
  <2>1. PICK i \in Ids \ issued :
          /\ target' = [target EXCEPT ![u] = i]
          /\ \/ staging' = staging \cup {i} /\ Goto(u, "staging") /\ Succeeds /\ UNCHANGED answer
             \/ Fails("create") /\ Finish(u, "ErrStore", "release") /\ UNCHANGED staging
    BY <1>5 DEF OpenStaging
  <2>2. /\ target'[u] = i /\ UNCHANGED <<file, rows>> /\ pc[u] = "stage" /\ answer[u] = "none"
        /\ \/ pc'[u] = "staging" /\ answer'[u] = "none"
           \/ pc'[u] = "release" /\ answer'[u] = "ErrStore" /\ staging' = staging
    BY <1>0, <1>5, <2>1, DraftLabels DEF OpenStaging, Draft, Finish, Goto, TypeInv, TypeOK
  <2>3. i \notin Blobs' /\ i \notin Registered' /\ i \notin staging
    BY <1>0, <2>1, <2>2 DEF Blobs, Registered
  <2> QED
    BY <2>1, <2>2, <2>3, DraftLabels DEF Draft
<1>6. CASE StageBody(u)
  BY <1>0, <1>q, <1>6, OwnFrame, DraftLabels DEF StageBody, Finish, disk
<1>7. CASE RefuseBody(u)
  BY <1>0, <1>q, <1>7, OwnFrame, DraftLabels DEF RefuseBody, Finish, Fails, Succeeds
<1>8. CASE LockCapacity(u) \/ LockStorage(u) \/ Unlock(u)
  BY <1>0, <1>q, <1>8, OwnFrame, DraftLabels DEF LockCapacity, LockStorage, Unlock, disk, uploads
<1>9. CASE RejectOverCap(u)
  BY <1>0, <1>q, <1>9, OwnFrame, DraftLabels DEF RejectOverCap, Finish, disk
<1>10. CASE Commit(u)
  <2>0. pc[u] = "check" /\ answer[u] = "none" /\ target[u] \in Ids /\ UNCHANGED <<rows, target, got>>
    BY <1>0, <1>q, <1>10, DraftLabels, UploadLabels DEF Commit, Publish, RenameFails
  <2>1. CASE /\ file' = [file EXCEPT ![target[u]] = "regular"]
             /\ size' = [size EXCEPT ![target[u]] = got[u]]
             /\ staging' = staging \ {target[u]}
             /\ Goto(u, "insert") /\ UNCHANGED answer
    <3>1. pc'[u] = "insert" /\ target[u] \in Blobs' /\ size'[target[u]] = got[u] /\ Registered' = Registered
      BY <1>0, <2>0, <2>1 DEF Goto, Blobs, Registered, TypeInv, TypeOK
    <3> QED
      BY <2>0, <2>1, <3>1, DraftLabels DEF Draft
  <2>2. CASE RenameFails(u)
    <3>1. faults' \in {faults, faults + 1}
      BY <1>10 DEF Commit, WalkSucceeds, WalkFails, Fails, Succeeds
    <3> QED
      BY <1>0, <2>0, <2>2, <3>1, OwnFrame, DraftLabels DEF RenameFails, Finish, disk
  <2> QED
    BY <1>10, <2>1, <2>2 DEF Commit, Publish, RenameFails
<1>11. CASE InsertRow(u)
  <2>1. /\ pc'[u] = "unlock" /\ answer'[u] = "created" /\ target'[u] = target[u]
        /\ UNCHANGED <<faults, staging>>
    BY <1>0, <1>11 DEF InsertRow, Finish, Goto, disk, TypeInv, TypeOK
  <2> QED
    BY <1>11, <2>1, DraftLabels DEF Draft, InsertRow
<1>12. CASE RollBack(u)
  <2>1. /\ pc[u] = "insert" /\ pc'[u] = "unlock" /\ answer'[u] = "ErrStore" /\ target'[u] = target[u]
        /\ faults' = faults + 1 /\ UNCHANGED <<rows, staging>> /\ target[u] \in Ids
        /\ file' = [file EXCEPT ![target[u]] = "none"] \/ "unlink" \in IOFaults
    BY <1>0, <1>12, UploadLabels DEF RollBack, Finish, Fails, Goto, TypeInv, TypeOK
  <2>2. target[u] \notin Blobs' \/ "unlink" \in IOFaults
    BY <2>1 DEF Blobs, TypeInv, TypeOK
  <2>3. target[u] \notin Registered' /\ answer[u] = "none"
    BY <2>1, DraftLabels DEF Draft, Registered
  <2> QED
    BY <1>0, <2>1, <2>2, <2>3, DraftLabels DEF Draft
<1>13. CASE Unstage(u)
  BY <1>0, <1>q, <1>13, OwnFrame, DraftLabels DEF Unstage, uploads, Fails, Succeeds
<1>14. CASE Release(u)
  <2>1. target[u] \in staging => "unlink" \in IOFaults /\ faults > 0
    BY <1>14, DraftLabels DEF Release, Draft
  <2> QED
    BY <1>0, <1>q, <1>14, <2>1, OwnFrame, DraftLabels DEF Release, disk
<1> QED
  BY <1>1, <1>2, <1>3, <1>4, <1>5, <1>6, <1>7, <1>8, <1>9, <1>10, <1>11, <1>12, <1>13, <1>14, UploadCases

\* Every step keeps every draft hidden.
LEMMA DraftsKept ==
  ASSUME TypeInv, Places, Exclusion, IdsDrawn, DraftsHidden, [Next]_vars
  PROVE  DraftsHidden'
<1> SUFFICES ASSUME NEW v \in Uploaders PROVE Draft(v)'
  BY DEF DraftsHidden
<1>0. /\ v \in Procs /\ Draft(v) /\ pc \in [Procs -> Labels] /\ target \in [Procs -> Ids \cup {NoId}]
      /\ faults \in Nat
  BY Names, Domains DEF DraftsHidden
<1>1. ASSUME NEW u \in Uploaders, Upload(u) PROVE Draft(v)'
  BY <1>0, <1>1, OwnDraftKept, OtherDraftsKept
<1>2. ASSUME NEW c \in Clients, Request(c) PROVE Draft(v)'
  <2>1. /\ pc'[v] = pc[v] /\ target'[v] = target[v] /\ Blobs' = Blobs /\ Registered' = Registered
        /\ UNCHANGED <<answer, got, size, staging, tampered>>
    BY <1>0, <1>2, Names, RequestFootprint, RequestTargets DEF Blobs, Registered, disk
  <2>2. faults' \in {faults, faults + 1}
    BY <1>2, RequestFootprint
  <2> QED
    BY <1>0, <2>1, <2>2, DraftFrame
<1>3. ASSUME NEW p \in Procs, Passes(p) PROVE Draft(v)'
  <2>1. /\ UNCHANGED <<answer, got, size, staging, tampered>>
        /\ Blobs' \subseteq Blobs /\ Registered' \subseteq Registered
        /\ pc[v] = "insert" => Blobs' = Blobs
    BY <1>3, PassFootprint, PublisherAlone DEF uploads, history, Publishing, Blobs
  <2>2. faults' \in {faults, faults + 1}
    BY <1>3, PassFootprint
  <2>3. CASE pc'[v] = pc[v] /\ target'[v] = target[v]
    BY <1>0, <2>1, <2>2, <2>3, DraftFrame
  <2>4. CASE EndPass(p) /\ p = v
    <3>1. pc[v] \in Calls /\ pc'[v] = Return(pc[v]) /\ pc[v] \in UploadPlaces /\ UNCHANGED <<file, rows>>
      BY <1>0, <2>4 DEF EndPass, Goto, Places, disk
    <3>2. target'[v] = target[v]
      BY <1>0, <2>4, <3>1, ReturnPlaces DEF EndPass
    <3>3. Goto(v, Return(pc[v])) /\ faults' = faults
      BY <2>4 DEF EndPass, Goto
    <3>4. target[v] \in staging' => \/ Return(pc[v]) \in Staged
                                    \/ "unlink" \in IOFaults /\ faults' > 0
      BY <1>0, <2>1, <3>1, <3>3, ReturnDraft DEF Draft
    <3> QED
      BY <2>1, <3>1, <3>2, <3>3, <3>4, <1>0, ReturnDraft, OwnFrame
  <2>5. EndPass(p) /\ p # v => pc'[v] = pc[v] /\ target'[v] = target[v]
    BY <1>0 DEF EndPass, Goto
  <2> QED
    BY <1>3, <2>3, <2>4, <2>5, PassMoves
<1>4. CASE Crash
  <2>1. /\ pc'[v] = "idle" /\ target'[v] = NoId /\ answer'[v] = "none"
        /\ UNCHANGED <<file, rows, staging>>
    BY <1>0, <1>4, Names DEF Crash, disk
  <2>2. NoId \notin Blobs' /\ NoId \notin Registered' /\ NoId \notin staging'
    BY <2>1, Names, Domains DEF Blobs, Registered, IdsDrawn
  <2> QED
    BY <2>1, <2>2, DraftLabels DEF Draft
<1>5. CASE ClearStaging
  <2>1. /\ pc'[v] = pc[v] /\ UNCHANGED <<target, Blobs, Registered, answer, got, size, tampered>>
        /\ staging' \subseteq staging /\ faults' \in {faults, faults + 1}
    BY <1>0, <1>5, Names DEF ClearStaging, Goto, uploads, history, Fails, Succeeds, Blobs, Registered
  <2> QED
    BY <1>0, <2>1, DraftFrame
<1>6. ASSUME NEW i \in Ids, Tamper(i) PROVE Draft(v)'
  <2>1. /\ UNCHANGED <<pc, target, Registered, answer, got, size, staging, faults>>
        /\ tampered' = tampered \cup {i} /\ Blobs' = Blobs \ {i}
    BY <1>6, Domains DEF Tamper, goroutines, uploads, Blobs, Registered
  <2> QED
    BY <1>0, <2>1, DraftFrame
<1>7. CASE Midnight \/ Tick \/ UNCHANGED vars
  <2>1. /\ pc'[v] = pc[v]
        /\ UNCHANGED <<target, Blobs, Registered, answer, got, size, staging, tampered, faults>>
    BY <1>0, <1>7, Names
       DEF Midnight, Tick, vars, goroutines, uploads, history, disk, Goto, Blobs, Registered
  <2> QED
    BY <1>0, <2>1, DraftFrame
<1> QED
  BY <1>1, <1>2, <1>3, <1>4, <1>5, <1>6, <1>7 DEF Next

-----------------------------------------------------------------------------
(* Staged files are known                                                  *)

\* While nothing has failed, staged files stay those of some upload, once the
\* start has cleared.
LEMMA StagingKnownKept ==
  ASSUME TypeInv, Places, IdsDrawn, DraftsHidden, StagingKnown, [Next]_vars
  PROVE  StagingKnown'
<1> SUFFICES ASSUME (faults = 0 /\ pc[Cleaner] # "bootClear")' PROVE (staging \subseteq {target[u] : u \in Uploaders})'
  BY DEF StagingKnown
<1>0. /\ pc \in [Procs -> Labels] /\ target \in [Procs -> Ids \cup {NoId}] /\ faults \in Nat
      /\ staging \subseteq Ids /\ NoId \notin Ids
  BY Names, Domains
<1>1. ASSUME NEW u \in Uploaders, Upload(u) PROVE (staging \subseteq {target[v] : v \in Uploaders})'
  <2>1. faults = 0 /\ pc'[Cleaner] = pc[Cleaner]
    BY <1>0, <1>1, Names, UploadFootprint, UploadMoves DEF Goto
  <2>2. staging \subseteq {target[v] : v \in Uploaders}
    BY <2>1 DEF StagingKnown
  <2>3. \A v \in Uploaders \ {u} : target'[v] = target[v]
    BY <1>1, UploadFootprint
  <2>4. CASE BeginUpload(u)
    <3>1. target[u] \notin staging /\ staging' = staging
      BY <2>1, <2>4, DraftLabels DEF BeginUpload, DraftsHidden, Draft, disk
    <3> QED
      BY <2>2, <2>3, <3>1
  <2>5. CASE ~BeginUpload(u) /\ ~OpenStaging(u)
    <3>1. target'[u] = target[u] /\ staging' \subseteq staging
      BY <1>1, <2>5, UploadCases
         DEF ListForReserve, Reserve, LockHash, Hash, StageBody, RefuseBody, LockCapacity, LockStorage,
             RejectOverCap, Commit, Publish, RenameFails, InsertRow, RollBack, Unlock, Unstage, Release, disk
    <3> QED
      BY <2>2, <2>3, <3>1
  <2>6. CASE OpenStaging(u)
    <3>1. target[u] = NoId /\ staging' \subseteq staging \cup {target'[u]}
      BY <1>1, <2>6, UploadFootprint, DraftLabels DEF OpenStaging, DraftsHidden, Draft
    <3> QED
      BY <1>0, <2>2, <2>3, <3>1
  <2> QED
    BY <2>4, <2>5, <2>6
<1>2. ASSUME NEW c \in Clients, Request(c) PROVE (staging \subseteq {target[v] : v \in Uploaders})'
  <2>1. faults = 0
    BY <1>0, <1>2, RequestFootprint
  <2> QED
    BY <1>0, <1>2, <2>1, Names, RequestFootprint, RequestTargets DEF StagingKnown, disk
<1>3. ASSUME NEW p \in Procs, Passes(p) PROVE (staging \subseteq {target[v] : v \in Uploaders})'
  <2>1. faults = 0
    BY <1>0, <1>3, PassFootprint
  <2>2. pc[Cleaner] # "bootClear" /\ \A v \in Uploaders : target'[v] = target[v]
    <3>1. CASE EndPass(p)
      <4>1. pc[p] \in Calls /\ pc' = [pc EXCEPT ![p] = Return(pc[p])]
        BY <3>1 DEF EndPass, Goto
      <4>2. "bootClear" \notin Calls
        BY CallsApart
      <4>3. \A v \in Uploaders : v = p => Return(pc[p]) \notin {"idle", "delete"}
        BY <4>1, ReturnPlaces DEF Places
      <4> QED
        BY <1>0, <3>1, <4>1, <4>2, <4>3, Names DEF EndPass
    <3> QED
      BY <1>3, <3>1, PassMoves
  <2> QED
    BY <1>3, <2>1, <2>2, PassFootprint DEF StagingKnown
<1>4. CASE Crash
  BY <1>0, <1>4, Names DEF Crash
<1>5. CASE ClearStaging
  BY <1>0, <1>5 DEF ClearStaging, Fails, Succeeds
<1>6. CASE Midnight
  BY <1>0, <1>6, Names DEF Midnight, StagingKnown, disk, Goto
<1>7. CASE Tick \/ (\E i \in Ids : Tamper(i)) \/ UNCHANGED vars
  BY <1>7 DEF Tick, Tamper, vars, goroutines, StagingKnown, disk
<1> QED
  BY <1>1, <1>2, <1>3, <1>4, <1>5, <1>6, <1>7 DEF Next

-----------------------------------------------------------------------------
(* Requests know that their share was published                            *)

\* No step puts a captured instant ahead of the clock.
LEMMA PastInstantsKept ==
  ASSUME TypeInv, PastInstants, [Next]_vars
  PROVE  PastInstants'
<1>0. asof \in [Procs -> Nat] /\ now \in Nat /\ PastInstants
  BY Domains
<1>1. ASSUME NEW u \in Uploaders, Upload(u) PROVE PastInstants'
  BY <1>0, <1>1, UploadFootprint DEF PastInstants
<1>2. ASSUME NEW c \in Clients, Request(c) PROVE PastInstants'
  <2>1. now' = now
    BY <1>2, RequestFootprint
  <2>2. UNCHANGED asof \/ \E t \in {0, now} : asof' = [asof EXCEPT ![c] = t]
    BY <1>2 DEF Request, RequestArrives, RequestRuns, OpenPage, OpenShare, GetRow, LookAtBlob, Serve,
         ShowSharePage, SelectShares, DeleteNext, DeleteDone, Answered, Forget
  <2> QED
    BY <1>0, <2>1, <2>2, Names DEF PastInstants
<1>3. ASSUME NEW p \in Procs, Passes(p) PROVE PastInstants'
  BY <1>0, <1>3, PassFootprint, PassMoves DEF EndPass, PastInstants
<1>4. CASE Crash \/ Tick \/ ClearStaging \/ Midnight \/ (\E i \in Ids : Tamper(i)) \/ UNCHANGED vars
  BY <1>0, <1>4 DEF Crash, Tick, ClearStaging, Midnight, Tamper, vars, goroutines, PastInstants
<1> QED
  BY <1>1, <1>2, <1>3, <1>4 DEF Next

\* An upload that has published its share leaves files and answer alone until it is over.
LEMMA PublishedRests ==
  ASSUME TypeInv, NEW u \in Uploaders, Draft(u), Upload(u), answer[u] = "created"
  PROVE  /\ file' = file
         /\ target'[u] = NoId \/ (target'[u] = target[u] /\ answer'[u] = "created")
<1>0. pc[u] \notin BeforeUUID \cup Claiming \cup {"insert"} /\ target \in [Procs -> Ids \cup {NoId}] /\ u \in Procs
  BY Domains, Names DEF Draft
<1>1. "reserve" \in BeforeUUID
  BY DEF BeforeUUID
<1>2. BeginUpload(u) \/ Unlock(u) \/ Unstage(u) \/ Release(u)
  BY <1>0, <1>1, UploadCases, DraftLabels
     DEF ListForReserve, Reserve, LockHash, Hash, OpenStaging, StageBody, RefuseBody, LockCapacity,
         LockStorage, RejectOverCap, Commit, Publish, RenameFails, InsertRow, RollBack
<1> QED
  BY <1>0, <1>2 DEF BeginUpload, Unlock, Unstage, Release, disk, uploads

\* The row goes after the blob.
LEMMA PassDrops ==
  ASSUME TypeInv, PassShape, NEW p \in Procs, Passes(p)
  PROVE  /\ \A i \in Blobs : i \in Registered => i \in Registered'
         /\ \A i \in Ids : i # pass.cur /\ i \in Registered => i \in Registered'
<1>1. UNCHANGED rows \/ rows' = RowsWithout(pass.cur)
  BY DEF Passes, PassStep, StartPass, FindVacant, UnlinkBlob, KeepKnown, SkipFailing, RemoveOrphan,
         DeleteRow, StartWalk, EndPass
<1>2. \A i \in Registered : i # pass.cur => i \in Registered'
  BY <1>1 DEF Registered, RowsWithout
<1>3. pass.cur \notin Blobs
  BY DEF PassShape
<1> QED
  BY <1>2, <1>3

\* What a request copied of a row stays true of it for as long as there is one.
LEMMA ReadersKept ==
  ASSUME TypeInv, Places, Exclusion, IdsDrawn, DraftsHidden, PassShape, ReadersSawRow, [Next]_vars
  PROVE  ReadersSawRow'
<1> SUFFICES ASSUME NEW c \in Clients PROVE Reader(c)'
  BY DEF ReadersSawRow
<1>0. /\ c \in Procs /\ Reader(c) /\ pc \in [Procs -> Labels] /\ target \in [Procs -> Ids \cup {NoId}]
      /\ chosen \in [Clients -> SUBSET Ids] /\ (pc[c] \in NeedsTarget => target[c] \in Ids)
      /\ target[c] \in issued \cup {NoId} /\ NoId \notin Ids
      /\ file \in [Ids -> {"none", "regular", "directory"}]
  BY Names, Domains DEF ReadersSawRow, TypeInv, TargetsKnown, IdsDrawn
<1>1. ASSUME NEW u \in Uploaders, Upload(u) PROVE Reader(c)'
  <2>1. /\ pc'[c] = pc[c] /\ target'[c] = target[c] /\ UNCHANGED <<chosen, selected>>
        /\ Registered \subseteq Registered' /\ u # c /\ Draft(u)
    <3>1. target' = [target EXCEPT ![u] = target'[u]]
      BY <1>0, <1>1, UploadCases
         DEF BeginUpload, ListForReserve, Reserve, LockHash, Hash, OpenStaging, StageBody, RefuseBody,
             LockCapacity, LockStorage, RejectOverCap, Commit, Publish, RenameFails, InsertRow, RollBack, Unlock, Unstage,
             Release
    <3> QED
      BY <1>0, <1>1, <3>1, Names, UploadFootprint, UploadMoves DEF Goto, requests, history, DraftsHidden
  <2>2. CASE pc[c] \in {"lstat", "serve", "removeMissing"}
    <3>1. target[c] \in Ids /\ target[c] \in issued
      BY <1>0, <2>2, RequestLabels
    <3>2. target[c] = target[u] => answer[u] = "created"
      BY <1>0, <2>2 DEF Reader
    <3>3. \A v \in Uploaders : target'[v] = target[c] => answer'[v] = "created"
      BY <1>0, <1>1, <2>1, <2>2, <3>1, <3>2, UploadFootprint, PublishedRests DEF Reader
    <3>4. target[c] \in Blobs' => target[c] \in Blobs
      BY <1>1, <2>1, <3>1, <3>2, UploadFootprint, PublishedRests DEF Blobs
    <3> QED
      BY <1>0, <2>1, <3>3, <3>4 DEF Reader
  <2>3. CASE pc[c] \notin {"lstat", "serve", "removeMissing"}
    BY <1>0, <2>1, <2>3 DEF Reader
  <2> QED
    BY <2>2, <2>3
<1>2. ASSUME NEW d \in Clients, Request(d) PROVE Reader(c)'
  <2>1. Blobs' = Blobs /\ Registered' = Registered /\ UNCHANGED answer
        /\ \A u \in Uploaders : target'[u] = target[u]
    BY <1>0, <1>2, Names, RequestFootprint, RequestTargets DEF disk, Blobs, Registered
  <2> USE <1>0, <2>1 DEF Reader
  <2>2. selected \subseteq selected'
    BY <1>2 DEF Request, RequestArrives, RequestRuns, OpenPage, OpenShare, GetRow, LookAtBlob, Serve,
         ShowSharePage, SelectShares, DeleteNext, DeleteDone, history
  <2>3. CASE d # c
    <3>1. pc'[c] = pc[c] /\ target'[c] = target[c]
      BY <1>2, <2>3, RequestTargets
    <3>2. chosen'[c] = chosen[c]
      BY <1>2, <2>3
         DEF Request, RequestArrives, RequestRuns, OpenPage, OpenShare, GetRow, LookAtBlob, Serve,
             ShowSharePage, SelectShares, DeleteNext, DeleteDone, requests
    <3> QED
      BY <2>2, <3>1, <3>2
  <2>4. CASE d = c
    <3> USE DEF Goto
    <3>1. CASE OpenPage(c) \/ (\E i \in issued : OpenShare(c, i)) \/ DeleteDone(c) \/ ShowSharePage(c) \/ Serve(c)
      BY <3>1 DEF OpenPage, OpenShare, DeleteDone, ShowSharePage, Serve, Answered, requests, history
    <3>2. CASE SelectShares(c)
      BY <3>2 DEF SelectShares
    <3>3. CASE GetRow(c)
      <4>1. target[c] \in Registered => \A u \in Uploaders : target[u] = target[c] => answer[u] = "created"
        BY DEF DraftsHidden, Draft
      <4>2. \/ pc'[c] = "idle"
            \/ pc'[c] = "lstat" /\ target'[c] = target[c] /\ target[c] \in Registered
        BY <3>3 DEF GetRow, Answered, Registered
      <4> QED
        BY <3>3, <4>1, <4>2 DEF GetRow, history
    <3>4. CASE LookAtBlob(c)
      BY <3>4 DEF LookAtBlob, Answered, Blobs, history
    <3>5. ASSUME NEW i \in Ids, DeleteNext(c, i) PROVE Reader(c)'
      BY <3>5 DEF DeleteNext, history
    <3> QED
      BY <1>2, <2>4, <3>1, <3>2, <3>3, <3>4, <3>5 DEF Request, RequestArrives, RequestRuns
  <2> QED
    BY <2>3, <2>4
<1>3. ASSUME NEW p \in Procs, Passes(p) PROVE Reader(c)'
  <2>1. /\ UNCHANGED <<answer, chosen, selected>> /\ Blobs' \subseteq Blobs
        /\ \A u \in Uploaders : target'[u] \in {target[u], NoId}
    BY <1>0, <1>3, Names, PassFootprint, PassMoves DEF EndPass, uploads, requests, history
  <2>2. \A i \in Blobs' : i \in Registered => i \in Registered'
    BY <1>3, <2>1, PassDrops
  <2>3. CASE pc'[c] = pc[c] /\ target'[c] = target[c]
    BY <1>0, <2>1, <2>2, <2>3, RequestLabels DEF Reader
  <2>4. CASE EndPass(p) /\ p = c
    <3>1. pc[c] \in Calls /\ pc[c] \in ClientPlaces /\ pc'[c] = Return(pc[c])
      BY <1>0, <2>4 DEF EndPass, Goto, Places
    <3>2. pc'[c] \in {"idle", "delete"}
      BY <3>1, ReturnPlaces
    <3> QED
      BY <1>0, <2>1, <3>2 DEF Reader
  <2> QED
    BY <1>0, <1>3, <2>3, <2>4, PassMoves DEF EndPass, Goto
<1>4. CASE Crash
  BY <1>0, <1>4, Names DEF Crash, Reader
<1>5. ASSUME NEW i \in Ids, Tamper(i) PROVE Reader(c)'
  <2>1. Blobs' \subseteq Blobs /\ UNCHANGED <<pc, target, answer, chosen, selected, Registered>>
    BY <1>0, <1>5 DEF Tamper, goroutines, uploads, requests, Blobs, Registered
  <2> QED
    BY <1>0, <2>1 DEF Reader
<1>6. CASE ClearStaging \/ Midnight \/ Tick \/ UNCHANGED vars
  <2>1. UNCHANGED <<Blobs, target, answer, chosen, selected, Registered>> /\ pc'[c] = pc[c]
    BY <1>0, <1>6, Names DEF ClearStaging, Midnight, Tick, vars, disk, Goto, goroutines, uploads,
                             requests, history, Blobs, Registered
  <2> QED
    BY <1>0, <2>1 DEF Reader
<1> QED
  BY <1>1, <1>2, <1>3, <1>4, <1>5, <1>6 DEF Next

-----------------------------------------------------------------------------
(* The pass in progress                                                    *)

\* Without a pass there is nothing to say of it.
LEMMA PassIdle == (pass = NoPass => PassFacts) /\ (pass' = NoPass => PassFacts')
  BY Names DEF NoPass, NewPass, PassFacts, PassShape, Worklist, Reconciling, WalkSpares, Blobs

\* What has expired stays so while the clock goes on and rows are kept.
LEMMA ExpiryStays ==
  ASSUME TypeInv, now' \in Nat, now <= now', rows' = rows
  PROVE  ExpiredIds(now) \subseteq ExpiredIds(now)'
<1>1. \A r \in rows : r.exp \in Nat
  BY Domains DEF Row
<1> QED
  BY <1>1, Domains DEF ExpiredIds, Expired

\* Steps that leave the pass, files and rows as they are.
LEMMA PassStill ==
  ASSUME TypeInv, PassFacts, UNCHANGED <<pass, file, rows, tampered>>, faults' \in {faults, faults + 1},
         selected \subseteq selected', now' \in Nat, now <= now'
  PROVE  PassFacts'
<1>1. UNCHANGED <<Blobs, Registered, UnprotectedIds>>
  BY DEF Blobs, Registered, UnprotectedIds
<1>2. PassShape' /\ Reconciling' /\ WalkSpares'
  BY <1>1, Domains DEF PassFacts, PassShape, Reconciling, WalkSpares, ReadsWork
<1>3. Worklist'
  BY <1>1, ExpiryStays DEF PassFacts, Worklist
<1> QED
  BY <1>2, <1>3 DEF PassFacts

\* An upload changes files and rows only while no pass is in progress.
LEMMA UploadSpares ==
  ASSUME Exclusion, NEW u \in Uploaders, Upload(u)
  PROVE  pass' = pass /\ (pass = NoPass \/ UNCHANGED <<file, rows>>)
<1>1. CASE Commit(u) \/ InsertRow(u) \/ RollBack(u)
  BY <1>1, PublisherAlone DEF Commit, Publish, RenameFails, InsertRow, RollBack, Publishing
<1>2. CASE ~(Commit(u) \/ InsertRow(u) \/ RollBack(u))
  BY <1>2, UploadCases
     DEF BeginUpload, ListForReserve, Reserve, LockHash, Hash, OpenStaging, StageBody, RefuseBody,
         LockCapacity, LockStorage, RejectOverCap, Unlock, Unstage, Release, disk
<1> QED
  BY <1>1, <1>2

\* The rows a pass lists when it starts are those it is for.
LEMMA ListedFits ==
  ASSUME TypeInv, PastInstants, ReadersSawRow, Places, NEW p \in Procs, pc[p] \in Calls
  PROVE  /\ KindOf(pc[p]) = "unprotected" => Listed(p) = UnprotectedIds
         /\ KindOf(pc[p]) = "expired" => Listed(p) \subseteq ExpiredIds(now)
         /\ KindOf(pc[p]) = "reconcile" => Listed(p) = Registered
         /\ KindOf(pc[p]) = "remove" => Listed(p) \cap Blobs \subseteq selected
<1>1. ExpiredIds(asof[p]) \subseteq ExpiredIds(now)
  <2>1. \A r \in rows : r.exp \in Nat
    BY Domains DEF Row
  <2> QED
    BY <2>1, Domains DEF ExpiredIds, Expired, PastInstants
<1>2. KindOf(pc[p]) = "remove" => pc[p] \in {"removeMissing", "removeSelected"}
  BY DEF KindOf, Calls, UnprotectedCalls, ExpiredCalls, ReconcileCalls, RemoveCalls
<1>3. pc[p] \in {"removeMissing", "removeSelected"} => p \in Clients
  BY DEF Places, Procs, UploadPlaces, BeforeUUID, Reserving, Claiming, CleanerPlaces, BootLabels
<1>4. pc[p] \in {"removeMissing", "removeSelected"} => {target[p]} \cap Blobs \subseteq selected
  BY <1>3 DEF ReadersSawRow, Reader
<1> QED
  BY <1>1, <1>2, <1>4 DEF Listed

\* A pass keeps what it knows of its rows and files.
LEMMA KeepPassFacts ==
  ASSUME TypeInv, PastInstants, ReadersSawRow, Places, PassFacts, NEW p \in Procs, Passes(p)
  PROVE  PassFacts'
<1>0. /\ pass \in Pass /\ faults \in Nat /\ file \in [Ids -> {"none", "regular", "directory"}]
      /\ PassFacts /\ UNCHANGED <<now, selected, tampered>>
      /\ NoId \notin Ids /\ NoId \notin Registered /\ NoId \notin Blobs /\ NoId \notin pass.todo
  BY Domains, Names, PassFootprint DEF history, Registered, Row, Blobs, Pass
<1>1. CASE StartPass(p)
  <2>1. pc[p] \in Calls /\ UNCHANGED <<file, rows>>
    BY <1>1 DEF StartPass, disk
  <2>2. UNCHANGED <<Blobs, Registered, UnprotectedIds, ExpiredIds(now)>>
    BY <1>0, <2>1 DEF Blobs, Registered, UnprotectedIds, ExpiredIds
  <2>3. CASE pass' = NewPass(KindOf(pc[p]), Listed(p), TRUE)
    <3>1. pass' \in Pass
      BY PassTypes DEF TypeInv, TypeOK
    <3>2. /\ pass'.kind = KindOf(pc[p]) /\ pass'.todo = Listed(p) /\ pass'.known = {}
          /\ pass'.cur = NoId /\ ~pass'.walking /\ pass'.clean
      BY <2>3 DEF NewPass
    <3>3. NoId \notin pass'.todo
      BY <1>0, <3>1 DEF Pass
    <3>4. PassShape' /\ Worklist'
      BY <1>0, <2>1, <2>2, <3>2, <3>3, ListedFits DEF PassShape, Worklist
    <3>5. Reconciling' /\ WalkSpares'
      BY <2>1, <2>2, <3>2, ListedFits DEF Reconciling, WalkSpares, ReadsWork
    <3> QED
      BY <3>4, <3>5 DEF PassFacts
  <2>4. CASE pc[p] \notin RemoveCalls /\ Fails("query") /\ pass' = NewPass(KindOf(pc[p]), {}, FALSE)
    BY <1>0, <2>1, <2>2, <2>4
       DEF NewPass, Fails, PassFacts, PassShape, Worklist, Reconciling, WalkSpares, ReadsWork
  <2> QED
    BY <1>1, <2>3, <2>4 DEF StartPass
<1>2. ASSUME NEW i \in Ids, FindVacant(p, i) \/ KeepKnown(p, i) \/ SkipFailing(p, i) PROVE PassFacts'
  <2>1. UNCHANGED <<file, rows>>
    BY <1>2 DEF FindVacant, KeepKnown, SkipFailing, disk
  <2>2. UNCHANGED <<Blobs, Registered, UnprotectedIds, ExpiredIds(now)>>
    BY <1>0, <2>1 DEF Blobs, Registered, UnprotectedIds, ExpiredIds
  <2>3. CASE FindVacant(p, i)
    <3>1. /\ pass'.kind = pass.kind /\ pass'.todo = pass.todo \ {i} /\ pass'.known = pass.known
          /\ pass'.cur = i /\ pass'.walking = pass.walking /\ pass'.clean = pass.clean
          /\ faults' = faults /\ i \notin Blobs /\ pass.cur = NoId /\ ~pass.walking
      BY <1>0, <2>3 DEF FindVacant, Examines, Looked, Blobs, Pass, Succeeds
    <3>2. PassShape'
      BY <1>0, <2>2, <3>1 DEF PassFacts, PassShape
    <3>3. Worklist'
      BY <1>0, <2>2, <3>1 DEF PassFacts, Worklist
    <3>4. Reconciling'
      BY <1>0, <2>2, <3>1 DEF PassFacts, PassShape, Reconciling
    <3>5. WalkSpares'
      BY <1>0, <2>2, <3>1 DEF PassFacts, PassShape, WalkSpares, ReadsWork
    <3> QED
      BY <3>2, <3>3, <3>4, <3>5 DEF PassFacts
  <2>4. CASE KeepKnown(p, i)
    <3>1. /\ pass'.kind = "reconcile" /\ pass.kind = "reconcile" /\ pass'.todo = pass.todo \ {i}
          /\ pass'.known = pass.known \cup {i} /\ pass'.cur = pass.cur
          /\ pass'.walking = pass.walking /\ pass'.clean = pass.clean
          /\ faults' = faults /\ i \in Blobs /\ i \in pass.todo /\ pass.cur = NoId /\ ~pass.walking
      BY <1>0, <2>4 DEF KeepKnown, Examines, Looked, Blobs, Pass, Succeeds
    <3>2. PassShape'
      BY <1>0, <2>2, <3>1 DEF PassFacts, PassShape
    <3>3. Worklist'
      BY <1>0, <2>2, <3>1 DEF PassFacts, Worklist
    <3>4. Reconciling'
      BY <1>0, <2>2, <3>1 DEF PassFacts, PassShape, Reconciling
    <3>5. WalkSpares'
      BY <1>0, <2>2, <3>1 DEF PassFacts, PassShape, WalkSpares, ReadsWork
    <3> QED
      BY <3>2, <3>3, <3>4, <3>5 DEF PassFacts
  <2>5. CASE SkipFailing(p, i)
    BY <1>0, <2>2, <2>5 DEF SkipFailing, Examines, Looked, Pass, Fails,
       PassFacts, PassShape, Worklist, Reconciling, WalkSpares, ReadsWork
  <2> QED
    BY <1>2, <2>3, <2>4, <2>5
<1>3. ASSUME NEW i \in Ids, UnlinkBlob(p, i) PROVE PassFacts'
  <2>1. UNCHANGED <<Registered, UnprotectedIds, ExpiredIds(now)>> /\ Blobs' = Blobs \ {i}
    BY <1>0, <1>3 DEF UnlinkBlob, Blobs, Registered, UnprotectedIds, ExpiredIds
  <2> QED
    BY <1>0, <1>3, <2>1 DEF UnlinkBlob, Examines, Looked, Pass, Succeeds,
       PassFacts, PassShape, Worklist, Reconciling, WalkSpares
<1>4. ASSUME NEW i \in Ids, RemoveOrphan(p, i) PROVE PassFacts'
  <2>1. UNCHANGED <<Registered, UnprotectedIds, ExpiredIds(now)>>
    BY <1>0, <1>4 DEF RemoveOrphan, Registered, UnprotectedIds, ExpiredIds
  <2>2. /\ pass'.kind = pass.kind /\ pass'.todo = pass.todo \ {i} /\ pass'.known = pass.known
        /\ pass'.cur = pass.cur /\ pass'.walking = pass.walking /\ pass.walking /\ i \in pass.todo
        /\ \/ pass'.clean = pass.clean /\ faults' = faults /\ Blobs' = Blobs \ {i}
           \/ pass'.clean = FALSE /\ faults' = faults + 1 /\ Blobs' = Blobs
    <3>1. CASE file' = [file EXCEPT ![i] = "none"] /\ pass' = Looked(i) /\ Succeeds
      BY <1>0, <1>4, <3>1 DEF RemoveOrphan, Looked, Pass, Succeeds, Blobs
    <3>2. CASE Fails("unlink") /\ pass' = [Looked(i) EXCEPT !.clean = FALSE] /\ UNCHANGED file
      BY <1>0, <1>4, <3>2 DEF RemoveOrphan, Looked, Pass, Fails, Blobs
    <3> QED
      BY <1>4, <3>1, <3>2 DEF RemoveOrphan
  <2>3. PassShape' /\ Worklist'
    BY <1>0, <2>1, <2>2 DEF PassFacts, PassShape, Worklist
  <2>4. Reconciling'
    BY <1>0, <2>1, <2>2 DEF PassFacts, PassShape, Reconciling
  <2>5. WalkSpares'
    BY <1>0, <2>1, <2>2 DEF PassFacts, PassShape, WalkSpares, ReadsWork
  <2> QED
    BY <2>3, <2>4, <2>5 DEF PassFacts
<1>5. CASE DeleteRow(p)
  <2>1. CASE rows' = RowsWithout(pass.cur) /\ pass' = [pass EXCEPT !.cur = NoId] /\ Succeeds
    <3>1. /\ Blobs' = Blobs /\ Registered' = Registered \ {pass.cur}
          /\ UnprotectedIds' = UnprotectedIds \ {pass.cur}
          /\ ExpiredIds(now)' = ExpiredIds(now) \ {pass.cur}
      BY <1>0, <1>5, <2>1
         DEF DeleteRow, disk, Blobs, RowsWithout, Registered, UnprotectedIds, ExpiredIds
    <3> QED
      BY <1>0, <1>5, <2>1, <3>1 DEF DeleteRow, Pass, Succeeds,
         PassFacts, PassShape, Worklist, Reconciling, WalkSpares
  <2>2. CASE Fails("delete") /\ pass' = [pass EXCEPT !.cur = NoId, !.clean = FALSE] /\ UNCHANGED rows
    <3>1. UNCHANGED <<Blobs, Registered, UnprotectedIds, ExpiredIds(now)>>
      BY <1>0, <1>5, <2>2 DEF DeleteRow, disk, Blobs, Registered, UnprotectedIds, ExpiredIds
    <3> QED
      BY <1>0, <1>5, <2>2, <3>1 DEF DeleteRow, Pass, Fails,
         PassFacts, PassShape, Worklist, Reconciling, WalkSpares
  <2> QED
    BY <1>5, <2>1, <2>2 DEF DeleteRow
<1>6. CASE StartWalk(p)
  <2>1. UNCHANGED <<Blobs, Registered, UnprotectedIds, ExpiredIds(now)>>
    BY <1>0, <1>6 DEF StartWalk, disk, Blobs, Registered, UnprotectedIds, ExpiredIds
  <2>2. NoId \notin Registered
    BY <1>0, Domains DEF Registered, Row
  <2>3. /\ pass'.kind = "reconcile" /\ pass.kind = "reconcile" /\ pass'.known = pass.known
        /\ pass'.cur = NoId /\ pass.cur = NoId /\ pass'.walking /\ ~pass.walking /\ pass.todo = {}
        /\ \/ pass'.todo = Blobs \ pass.known /\ pass'.clean = pass.clean /\ faults' = faults
           \/ pass'.todo = {} /\ pass'.clean = FALSE /\ faults' = faults + 1
    BY <1>0, <1>6 DEF StartWalk, Pass, Fails, Succeeds
  <2>4. PassShape' /\ Worklist'
    BY <1>0, <2>1, <2>3 DEF PassFacts, PassShape, Worklist
  <2>5. Reconciling'
    BY <1>0, <2>1, <2>2, <2>3 DEF PassFacts, PassShape, Reconciling
  <2>6. WalkSpares'
    BY <1>0, <2>1, <2>3 DEF PassFacts, PassShape, WalkSpares, ReadsWork
  <2> QED
    BY <2>4, <2>5, <2>6 DEF PassFacts
<1>7. CASE EndPass(p)
  <2>1. pass' = NoPass
    BY <1>7 DEF EndPass
  <2> QED
    BY <2>1, PassIdle
<1> QED
  BY <1>1, <1>2, <1>3, <1>4, <1>5, <1>6, <1>7 DEF Passes, PassStep

\* So does every other step while it runs.
LEMMA PassFactsKept ==
  ASSUME TypeInv, Exclusion, PastInstants, ReadersSawRow, Places, PassFacts, [Next]_vars
  PROVE  PassFacts'
<1>0. now \in Nat /\ faults \in Nat /\ pass \in Pass
  BY Domains
<1>1. ASSUME NEW u \in Uploaders, Upload(u) PROVE PassFacts'
  <2>1. pass' = NoPass => PassFacts'
    BY PassIdle
  <2>2. pass' = pass /\ (pass = NoPass \/ UNCHANGED <<file, rows>>)
    BY <1>1, UploadSpares
  <2>3. UNCHANGED <<now, selected, tampered>> /\ faults' \in {faults, faults + 1}
    BY <1>1, UploadFootprint DEF history
  <2> QED
    BY <1>0, <2>1, <2>2, <2>3, PassStill
<1>2. ASSUME NEW c \in Clients, Request(c) PROVE PassFacts'
  <2>1. selected \subseteq selected'
    BY <1>2 DEF Request, RequestArrives, RequestRuns, OpenPage, OpenShare, GetRow, LookAtBlob, Serve,
         ShowSharePage, SelectShares, DeleteNext, DeleteDone, history
  <2> QED
    BY <1>0, <1>2, <2>1, RequestFootprint, PassStill DEF disk
<1>3. ASSUME NEW p \in Procs, Passes(p) PROVE PassFacts'
  BY <1>3, KeepPassFacts
<1>4. CASE Crash
  BY <1>4, PassIdle DEF Crash
<1>5. ASSUME NEW i \in Ids, Tamper(i) PROVE PassFacts'
  <2>1. /\ Blobs' = Blobs \ {i} /\ tampered' # {}
        /\ UNCHANGED <<Registered, UnprotectedIds, ExpiredIds(now), selected, faults>>
    BY <1>5, Domains DEF Tamper, Blobs, Registered, UnprotectedIds, ExpiredIds
  <2>2. /\ pass'.kind = pass.kind /\ pass'.todo = pass.todo /\ pass'.known = pass.known
        /\ pass'.cur = pass.cur /\ pass'.walking = pass.walking
        /\ pass'.clean => pass.kind = "none"
    BY <1>0, <1>5 DEF Tamper, Pass
  <2>3. PassShape' /\ Worklist'
    BY <2>1, <2>2 DEF PassFacts, PassShape, Worklist
  <2>4. Reconciling' /\ WalkSpares'
    BY <2>1, <2>2 DEF PassFacts, Reconciling, WalkSpares, ReadsWork
  <2> QED
    BY <2>3, <2>4 DEF PassFacts
<1>6. CASE Tick \/ UNCHANGED vars
  BY <1>0, <1>6, PassStill DEF Tick, vars, disk, history
<1>7. CASE ClearStaging \/ Midnight
  BY <1>0, <1>7, PassStill DEF ClearStaging, Midnight, disk, history, Fails, Succeeds
<1> QED
  BY <1>1, <1>2, <1>3, <1>4, <1>5, <1>6, <1>7 DEF Next

-----------------------------------------------------------------------------
(* Blobs and rows are paired                                               *)

\* Steps that change neither files nor rows, once the start has reconciled.
LEMMA PairedFrame ==
  ASSUME Paired, UNCHANGED <<file, rows>>, pass'.cur = pass.cur,
         faults' = 0 => faults = 0, tampered' = {} => tampered = {}, Reconciled' => Reconciled,
         \A u \in Uploaders : pc[u] = "insert" => pc'[u] = "insert" /\ target'[u] = target[u]
  PROVE  Paired'
<1>1. UNCHANGED <<Blobs, Registered>>
  BY DEF Blobs, Registered
<1> QED
  BY <1>1 DEF Paired

\* An upload's step keeps rows and blobs paired, but for its own draft.
LEMMA UploadKeepsPaired ==
  ASSUME TypeInv, Places, Exclusion, IdsDrawn, DraftsHidden, Paired, NEW u \in Uploaders, Upload(u)
  PROVE  Paired'
<1>0. /\ pc \in [Procs -> Labels] /\ faults \in Nat /\ u \in Procs /\ u # Cleaner
      /\ faults' = 0 => faults = 0
  BY Names, Domains, UploadFootprint
<1>1. UNCHANGED tampered /\ (Reconciled' <=> Reconciled) /\ Reconciled
  <2>1. UNCHANGED tampered /\ pc'[Cleaner] = pc[Cleaner] /\ Serving
    BY <1>0, Names, UploadFootprint, UploadMoves DEF history, Goto
  <2> QED
    BY <2>1 DEF Reconciled, Serving, BootLabels
<1>2. pass' = pass
  BY UploadSpares
<1>3. \A v \in Uploaders \ {u} : pc'[v] = pc[v] /\ target'[v] = target[v]
  BY UploadFootprint
<1>4. CASE pc[u] # "insert" /\ ~Commit(u)
  <2>1. UNCHANGED <<file, rows>>
    BY <1>4, UploadCases
       DEF BeginUpload, ListForReserve, Reserve, LockHash, Hash, OpenStaging, StageBody, RefuseBody,
           LockCapacity, LockStorage, RejectOverCap, InsertRow, RollBack, Unlock, Unstage, Release, disk
  <2> QED
    BY <1>0, <1>1, <1>2, <1>3, <1>4, <2>1, PairedFrame
<1>5. CASE Commit(u)
  <2>1. CASE file' = [file EXCEPT ![target[u]] = "regular"] /\ Goto(u, "insert")
    <3>1. target[u] \in Ids /\ target'[u] = target[u] /\ Registered' = Registered
      BY <1>0, <1>5, UploadLabels DEF Commit, Publish, RenameFails, TypeInv, TargetsKnown, Registered
    <3>2. Blobs' = Blobs \cup {target[u]}
      BY <2>1, <3>1, Domains DEF Blobs
    <3>3. pc'[u] = "insert" /\ pc[u] # "insert"
      BY <1>0, <1>5, <2>1 DEF Goto, Commit, Publish, RenameFails
    <3> QED
      BY <1>0, <1>1, <1>2, <1>3, <3>1, <3>2, <3>3 DEF Paired
  <2>2. CASE UNCHANGED disk
    BY <1>0, <1>1, <1>2, <1>3, <1>5, <2>2, PairedFrame DEF Commit, Publish, RenameFails, disk
  <2> QED
    BY <1>5, <2>1, <2>2 DEF Commit, Publish, RenameFails
<1>6. CASE pc[u] = "insert"
  <2>1. pass.cur = NoId /\ \A v \in Uploaders : pc[v] = "insert" => v = u
    BY <1>6, PublisherAlone DEF Publishing, NoPass, NewPass
  <2>2. InsertRow(u) \/ RollBack(u)
    BY <1>6, UploadCases
       DEF BeginUpload, ListForReserve, Reserve, LockHash, Hash, OpenStaging, StageBody, RefuseBody,
           LockCapacity, LockStorage, RejectOverCap, Commit, Publish, RenameFails, Unlock, Unstage, Release
  <2>3. CASE InsertRow(u)
    <3>1. Registered' = Registered \cup {target[u]} /\ Blobs' = Blobs /\ faults' = faults
      BY <2>3, InsertRegisters DEF InsertRow, disk, Blobs
    <3>2. tampered = {} => target[u] \in Blobs
      BY <1>6 DEF DraftsHidden, Draft
    <3> QED
      BY <1>1, <1>2, <2>1, <3>1, <3>2 DEF Paired
  <2>4. CASE RollBack(u)
    BY <1>0, <2>4 DEF RollBack, Fails, Paired
  <2> QED
    BY <2>2, <2>3, <2>4
<1> QED
  BY <1>4, <1>5, <1>6

\* A reconcile in which nothing failed ends with blobs and rows paired.
LEMMA ReconcileEnds ==
  ASSUME TypeInv, PassFacts, pass.kind = "reconcile", pass.walking, pass.todo = {}, pass.clean
  PROVE  Blobs = Registered
  BY DEF PassFacts, Reconciling

\* A pass's step does, but for the share it is removing.
LEMMA PassKeepsPaired ==
  ASSUME TypeInv, Places, Exclusion, PassFacts, Paired, NEW p \in Procs, Passes(p)
  PROVE  Paired'
<1>0. /\ pc \in [Procs -> Labels] /\ faults \in Nat /\ faults' \in {faults, faults + 1}
      /\ UNCHANGED tampered /\ pass \in Pass /\ PassFacts
      /\ file \in [Ids -> {"none", "regular", "directory"}]
  BY Domains, PassFootprint DEF history
<1>1. CASE EndPass(p)
  <2>1. /\ UNCHANGED <<Blobs, Registered>> /\ mu = p /\ pc[p] \in Calls
        /\ pc' = [pc EXCEPT ![p] = Return(pc[p])] /\ pass.cur = NoId /\ pass.kind = KindOf(pc[p])
        /\ pass' = NoPass /\ faults' = faults
    BY <1>1 DEF EndPass, Goto, disk, Blobs, Registered
  <2>2. pass'.cur = NoId
    BY <2>1 DEF NoPass, NewPass
  <2>3. \A u \in Uploaders : pc[u] # "insert"
    BY <1>1, <2>1, Names, CallsApart DEF Exclusion
  <2>4. CASE Reconciled
    BY <1>0, <2>1, <2>2, <2>3, <2>4 DEF Paired
  <2>5. CASE ~Reconciled /\ Reconciled'
    <3>1. p = Cleaner /\ pc[p] = "bootReconcile"
      BY <1>0, <2>1, <2>5, Names
         DEF Reconciled, Return, AfterBoot, Calls, UnprotectedCalls, ExpiredCalls, ReconcileCalls, RemoveCalls
    <3>2. pass.kind = "reconcile"
      BY <2>1, <3>1 DEF KindOf, UnprotectedCalls, ExpiredCalls, ReconcileCalls, RemoveCalls
    <3>3. pass.walking /\ pass.todo = {}
      BY <1>1, <3>2 DEF EndPass
    <3>4. faults = 0 /\ tampered = {} => Blobs = Registered
      BY <1>0, <3>2, <3>3, ReconcileEnds DEF PassFacts, PassShape
    <3> QED
      BY <1>0, <2>1, <3>4 DEF Paired
  <2> QED
    BY <2>4, <2>5 DEF Paired
<1>2. CASE ~EndPass(p)
  <2>1. UNCHANGED <<pc, target>> /\ (Reconciled' <=> Reconciled)
    BY <1>2, PassMoves DEF Reconciled
  <2> SUFFICES ASSUME faults' = 0, tampered = {}, Reconciled
               PROVE  /\ Blobs' \ Registered' \subseteq {target[u] : u \in {v \in Uploaders : pc[v] = "insert"}}
                      /\ Registered' \ Blobs' \subseteq {pass'.cur}
    BY <1>0, <2>1 DEF Paired
  <2>2. /\ faults = 0 /\ Registered \ Blobs \subseteq {pass.cur}
        /\ Blobs \ Registered \subseteq {target[u] : u \in {v \in Uploaders : pc[v] = "insert"}}
    BY <1>0 DEF Paired
  <2>3. NoId \notin Registered
    BY Names, Domains DEF Registered, Row
  <2> HIDE DEF Registered
  <2>4. CASE StartPass(p)
    <3>1. pass = NoPass /\ UNCHANGED <<Blobs, Registered>>
      BY <2>4 DEF StartPass, Exclusion, disk, Blobs, Registered
    <3> QED
      BY <2>2, <2>3, <3>1 DEF NoPass, NewPass
  <2>5. ASSUME NEW i \in Ids, FindVacant(p, i) \/ UnlinkBlob(p, i)
        PROVE  Blobs' \subseteq Blobs /\ Registered' = Registered /\ Blobs \ Blobs' \subseteq {i}
               /\ pass.cur = NoId /\ pass'.cur = i
    <3>1. CASE FindVacant(p, i)
      BY <1>0, <3>1 DEF FindVacant, Examines, Looked, disk, Blobs, Registered, Pass
    <3>2. CASE UnlinkBlob(p, i)
      BY <1>0, <3>2 DEF UnlinkBlob, Examines, Looked, disk, Blobs, Registered, Pass
    <3> QED
      BY <2>5, <3>1, <3>2
  <2>6. ASSUME NEW i \in Ids, KeepKnown(p, i) \/ SkipFailing(p, i)
        PROVE  Blobs' = Blobs /\ Registered' = Registered /\ pass'.cur = pass.cur
    <3>1. UNCHANGED <<file, rows>>
      BY <2>6 DEF KeepKnown, SkipFailing, disk
    <3>2. pass'.cur = pass.cur
      BY <1>0, <2>6 DEF KeepKnown, SkipFailing, Looked, Pass
    <3> QED
      BY <3>1, <3>2 DEF Blobs, Registered
  <2>7. ASSUME NEW i \in Ids, RemoveOrphan(p, i)
        PROVE  /\ Blobs' \subseteq Blobs /\ Registered' = Registered /\ Blobs \ Blobs' \subseteq {i}
               /\ pass'.cur = pass.cur /\ i \notin Registered
    <3>1. pass.walking /\ i \in pass.todo /\ pass.clean
      BY <1>0, <2>2, <2>7 DEF RemoveOrphan, PassFacts, PassShape
    <3>2. i \notin Registered
      BY <3>1 DEF PassFacts, PassShape, Reconciling
    <3> QED
      BY <1>0, <2>2, <2>7, <3>2 DEF RemoveOrphan, Looked, Fails, Succeeds, Blobs, Registered, Pass
  <2>8. CASE DeleteRow(p)
    <3>1. Blobs' = Blobs /\ rows' = RowsWithout(pass.cur)
      BY <1>0, <2>2, <2>8 DEF DeleteRow, Fails, disk, Blobs
    <3>2. Registered' = Registered \ {pass.cur} /\ pass.cur \notin Blobs
      BY <3>1 DEF RowsWithout, Registered, PassFacts, PassShape
    <3> QED
      BY <2>2, <3>1, <3>2
  <2>9. CASE StartWalk(p)
    <3>1. UNCHANGED <<Blobs, Registered>> /\ pass'.cur = pass.cur
      BY <1>0, <2>9 DEF StartWalk, disk, Blobs, Registered, Pass
    <3> QED
      BY <2>2, <3>1
  <2> QED
    BY <1>2, <2>2, <2>3, <2>4, <2>5, <2>6, <2>7, <2>8, <2>9 DEF Passes, PassStep
<1> QED
  BY <1>1, <1>2

\* Every step does.
LEMMA PairedKept ==
  ASSUME TypeInv, Places, Exclusion, IdsDrawn, DraftsHidden, PassFacts, Paired, [Next]_vars
  PROVE  Paired'
<1>0. pc \in [Procs -> Labels] /\ faults \in Nat
  BY Domains
<1>1. ASSUME NEW u \in Uploaders, Upload(u) PROVE Paired'
  BY <1>1, UploadKeepsPaired
<1>2. ASSUME NEW c \in Clients, Request(c) PROVE Paired'
  <2>1. \A p \in Procs \ {c} : pc'[p] = pc[p] /\ target'[p] = target[p]
    BY <1>2, RequestTargets
  <2>2. faults' = 0 => faults = 0
    BY <1>0, <1>2, RequestFootprint
  <2> QED
    BY <1>2, <2>1, <2>2, Names, RequestFootprint, PairedFrame DEF disk, Reconciled
<1>3. ASSUME NEW p \in Procs, Passes(p) PROVE Paired'
  BY <1>3, PassKeepsPaired
<1>4. CASE Crash
  BY <1>4, Names DEF Crash, Paired, Reconciled
<1>5. CASE ClearStaging
  BY <1>0, <1>5, Names DEF ClearStaging, Paired, Reconciled, Goto
<1>6. ASSUME NEW i \in Ids, Tamper(i) PROVE Paired'
  BY <1>6 DEF Tamper, Paired
<1>7. CASE Midnight \/ Tick \/ UNCHANGED vars
  BY <1>0, <1>7, Names, PairedFrame
     DEF Midnight, Tick, vars, disk, goroutines, history, Goto, Reconciled
<1> QED
  BY <1>1, <1>2, <1>3, <1>4, <1>5, <1>6, <1>7 DEF Next

-----------------------------------------------------------------------------
(* The invariant holds in every reachable state                            *)

\* The invariant holds at the start.
LEMMA PairingInit == Init => PairingInv
<1> SUFFICES ASSUME Init PROVE PairingInv
  OBVIOUS
<1>1. /\ \A p \in Procs : pc[p] = IF p = Cleaner THEN "bootClear" ELSE "idle"
      /\ \A p \in Procs : target[p] = NoId /\ asof[p] = 0
      /\ \A u \in Uploaders : answer[u] = "none"
      /\ \A c \in Clients : chosen[c] = {}
      /\ mu = NoOne /\ pass = NoPass /\ now = 1
  BY DEF Init
<1>2. Blobs \subseteq Legacy /\ Registered \subseteq Legacy /\ staging \subseteq Legacy /\ issued = Legacy
      /\ NoId \notin Legacy
  <2>1. \A r \in rows : r.id \in Legacy
    BY DEF Init, LegacyRows
  <2> QED
    BY <2>1, SetsAssumption, Names DEF Init, Blobs, Registered
<1>3. Places /\ Exclusion
  BY <1>1, Names, CallsApart
     DEF Places, Exclusion, UploadPlaces, ClientPlaces, CleanerPlaces, BootLabels
<1>4. IdsDrawn /\ PastInstants
  BY <1>1, <1>2, Names DEF IdsDrawn, PastInstants
<1>5. DraftsHidden /\ ReadersSawRow
  BY <1>1, <1>2, Names, DraftLabels DEF DraftsHidden, Draft, ReadersSawRow, Reader
<1>6. StagingKnown /\ Paired
  BY <1>1, Names DEF StagingKnown, Paired, Reconciled
<1> QED
  BY <1>1, <1>3, <1>4, <1>5, <1>6, PassIdle DEF PairingInv

\* Every step keeps the whole invariant.
LEMMA PairingKept == TypeInv /\ PairingInv /\ [Next]_vars => PairingInv'
<1> SUFFICES ASSUME TypeInv, PairingInv, [Next]_vars PROVE PairingInv'
  OBVIOUS
<1>0. /\ Places /\ Exclusion /\ IdsDrawn /\ DraftsHidden /\ StagingKnown
      /\ ReadersSawRow /\ PastInstants /\ PassFacts /\ PassShape /\ Paired
  BY DEF PairingInv, PassFacts
<1>1. Places' /\ Exclusion' /\ IdsDrawn'
  BY <1>0, PlacesKept, ExclusionKept, IdsDrawnKept
<1>2. DraftsHidden' /\ StagingKnown'
  BY <1>0, DraftsKept, StagingKnownKept
<1>3. ReadersSawRow' /\ PastInstants'
  BY <1>0, ReadersKept, PastInstantsKept
<1>4. PassFacts' /\ Paired'
  BY <1>0, PassFactsKept, PairedKept
<1> QED
  BY <1>1, <1>2, <1>3, <1>4 DEF PairingInv

\* The invariant holds in every reachable state.
LEMMA PairingInvariant == Spec => [](TypeInv /\ PairingInv)
<1>1. Init => TypeInv /\ PairingInv
  BY InitTypeInv, PairingInit
<1>2. TypeInv /\ PairingInv /\ [Next]_vars => (TypeInv /\ PairingInv)'
  BY StepTypes, PairingKept
<1> QED
  BY <1>1, <1>2, PTL DEF Spec

\* Whenever nobody is in the middle of a change, the stored blobs are exactly
\* those of the table: crashes alone never unpair them for longer than the next
\* start takes to reconcile (cleanup.go, integrity.go).
THEOREM BlobsArePaired == Spec => []PairedAtRest
<1>1. TypeInv /\ PairingInv => PairedAtRest
  <2> SUFFICES ASSUME TypeInv, PairingInv, Serving, mu = NoOne, faults = 0, tampered = {}
               PROVE  Blobs = Registered
    BY DEF PairedAtRest
  <2>1. pass = NoPass /\ \A u \in Uploaders : pc[u] # "insert"
    BY Names, CallsApart DEF PairingInv, Exclusion
  <2>2. Reconciled
    BY DEF Serving, Reconciled, BootLabels
  <2>3. NoId \notin Registered
    BY Names, Domains DEF Registered, Row
  <2> QED
    BY <2>1, <2>2, <2>3 DEF PairingInv, Paired, NoPass, NewPass
<1> QED
  BY <1>1, PairingInvariant, PTL

\* Whatever failed, died or was edited before it began, a Reconcile in which
\* nothing fails ends with blobs and rows paired (integrity.go).
THEOREM ReconcileHeals == Spec => []ReconcileRepairs
<1>1. TypeInv /\ PairingInv => ReconcileRepairs
  BY ReconcileEnds DEF PairingInv, ReconcileRepairs
<1> QED
  BY <1>1, PairingInvariant, PTL

\* A download that passed its checks serves a share of the table: a removed
\* share is not readable through a stale copy of its row (storage/integrity.go
\* unlinks the blob first).
THEOREM ServesRegistered == Spec => []ServedSharesRegistered
<1>1. TypeInv /\ PairingInv => ServedSharesRegistered
  <2> SUFFICES ASSUME TypeInv, PairingInv, NEW c \in Clients, Serves(c) PROVE target[c] \in Registered
    BY DEF ServedSharesRegistered
  <2>1. pc[c] = "serve" /\ file[target[c]] = "regular"
    BY DEF Serves
  <2>2. target[c] \in Ids
    BY <2>1, Names, RequestLabels DEF TypeInv, TargetsKnown
  <2>3. target[c] \in Blobs
    BY <2>1, <2>2 DEF Blobs
  <2> QED
    BY <2>1, <2>3 DEF PairingInv, ReadersSawRow, Reader
<1> QED
  BY <1>1, PairingInvariant, PTL

\* An upload that was refused has no row, and no blob or staged file unless an
\* unlink failed, however many other uploads, passes and crashes came between
\* (upload.go:87-88).
THEOREM FailedUploadsGone == Spec => []FailedUploadsLeaveNothing
<1>1. TypeInv /\ PairingInv => FailedUploadsLeaveNothing
  BY DraftLabels DEF PairingInv, DraftsHidden, Draft, FailedUploadsLeaveNothing
<1> QED
  BY <1>1, PairingInvariant, PTL

\* While nothing fails, a staged file belongs to an upload under way: what a
\* dead process was streaming is gone before the server listens again.
THEOREM StagedFilesOwned == Spec => []StagingOwned
<1>1. TypeInv /\ PairingInv => StagingOwned
  <2> SUFFICES ASSUME TypeInv, PairingInv, Serving, faults = 0, NEW i \in staging
               PROVE  i \in {target[u] : u \in {v \in Uploaders : pc[v] # "idle"}}
    BY DEF StagingOwned
  <2>1. pc[Cleaner] # "bootClear"
    BY DEF Serving, BootLabels
  <2>2. PICK u \in Uploaders : i = target[u]
    BY <2>1 DEF PairingInv, StagingKnown
  <2>3. pc[u] \in Staged
    BY <2>2 DEF PairingInv, DraftsHidden, Draft
  <2> QED
    BY <2>2, <2>3, DraftLabels
<1> QED
  BY <1>1, PairingInvariant, PTL

-----------------------------------------------------------------------------
(* What a step may never do                                                *)

\* Every way a stored share's blob or row may go.
LEMMA BlobsLost ==
  ASSUME TypeInv, PairingInv, [Next]_vars
  PROVE  /\ Blobs \cap Registered \subseteq Registered'
         /\ \A i \in Blobs \ Blobs' :
              \/ i \in tampered'
              \/ i \notin Registered
              \/ ~pass.walking /\ i \in Retired
              \/ pass.walking /\ pass.kind = "reconcile" /\ i \in pass.todo
<1> DEFINE Lawful(i) == \/ i \in tampered'
                        \/ i \notin Registered
                        \/ ~pass.walking /\ i \in Retired
                        \/ pass.walking /\ pass.kind = "reconcile" /\ i \in pass.todo
<1> SUFFICES Blobs \cap Registered \subseteq Registered' /\ \A i \in Blobs \ Blobs' : Lawful(i)
  OBVIOUS
<1>0. /\ file \in [Ids -> {"none", "regular", "directory"}] /\ pass \in Pass
      /\ PassShape /\ Worklist /\ Exclusion
  BY Domains DEF PairingInv, PassFacts
<1>1. ASSUME NEW u \in Uploaders, Upload(u)
      PROVE  Blobs \cap Registered \subseteq Registered' /\ \A i \in Blobs \ Blobs' : Lawful(i)
  <2>1. Registered \subseteq Registered' /\ \A i \in Ids \ {target[u]} : file'[i] = file[i]
    BY <1>1, UploadFootprint
  <2>2. target[u] \in Registered => file' = file
    BY <1>1, PublishedRests DEF PairingInv, DraftsHidden, Draft
  <2>3. \A i \in Blobs \ Blobs' : i \notin Registered
    BY <2>1, <2>2 DEF Blobs
  <2> QED
    BY <2>1, <2>3
<1>2. ASSUME NEW c \in Clients, Request(c)
      PROVE  Blobs \cap Registered \subseteq Registered' /\ \A i \in Blobs \ Blobs' : Lawful(i)
  BY <1>2, RequestFootprint DEF disk, Blobs, Registered
<1>3. ASSUME NEW p \in Procs, Passes(p)
      PROVE  Blobs \cap Registered \subseteq Registered' /\ \A i \in Blobs \ Blobs' : Lawful(i)
  <2>1. Blobs \cap Registered \subseteq Registered'
    BY <1>0, <1>3, PassDrops
  <2>2. CASE \E i \in Ids : UnlinkBlob(p, i)
    <3>1. PICK i \in Ids : UnlinkBlob(p, i)
      BY <2>2
    <3>2. /\ Blobs \ Blobs' \subseteq {i} /\ i \in pass.todo /\ i \in Blobs /\ ~pass.walking
          /\ pass.kind = KindOf(pc[p]) /\ pc[p] \in Calls /\ pass.kind # "reconcile"
      BY <1>0, <3>1, Names, CallsApart DEF UnlinkBlob, Examines, Blobs, Exclusion
    <3>3. pass.kind \in {"unprotected", "expired", "remove"}
      BY <3>2 DEF KindOf, Calls, UnprotectedCalls, ExpiredCalls, ReconcileCalls, RemoveCalls
    <3>4. i \in Registered => i \in Retired
      BY <1>0, <3>2, <3>3 DEF Worklist, Retired
    <3> QED
      BY <2>1, <3>2, <3>4
  <2>3. CASE \E i \in Ids : RemoveOrphan(p, i)
    <3>1. PICK i \in Ids : RemoveOrphan(p, i)
      BY <2>3
    <3>2. Blobs \ Blobs' \subseteq {i} /\ i \in pass.todo /\ pass.walking
      BY <1>0, <3>1 DEF RemoveOrphan, Blobs
    <3> QED
      BY <1>0, <2>1, <3>2 DEF PassShape
  <2>4. CASE ~(\E i \in Ids : UnlinkBlob(p, i) \/ RemoveOrphan(p, i))
    <3>1. Blobs' = Blobs
      BY <1>3, <2>4 DEF Passes, PassStep, StartPass, FindVacant, KeepKnown, SkipFailing, DeleteRow,
         StartWalk, EndPass, disk, Blobs
    <3> QED
      BY <2>1, <3>1
  <2> QED
    BY <2>2, <2>3, <2>4
<1>4. ASSUME NEW i \in Ids, Tamper(i)
      PROVE  Blobs \cap Registered \subseteq Registered' /\ \A j \in Blobs \ Blobs' : Lawful(j)
  BY <1>0, <1>4 DEF Tamper, Blobs, Registered
<1>5. CASE ClearStaging \/ Midnight \/ Crash \/ Tick \/ UNCHANGED vars
  BY <1>5 DEF ClearStaging, Midnight, Crash, Tick, vars, disk, Blobs, Registered
<1> QED
  BY <1>1, <1>2, <1>3, <1>4, <1>5 DEF Next

\* No pass, rollback, stale reader or restart takes the blob or the row of a
\* share that is neither expired nor unprotected nor chosen by an admin nor
\* edited from outside.  Where a blob may be unreadable for a moment, or the
\* query for all shares may fail, Reconcile does: the theorem is about stores
\* where reads work.
THEOREM SharesAreKept == ReadsWork => (Spec => StoredSharesKept)
<1> SUFFICES ASSUME ReadsWork PROVE Spec => StoredSharesKept
  OBVIOUS
<1>1. TypeInv /\ PairingInv /\ [Next]_vars => [Stored \ Stored' \subseteq Retired \cup tampered']_vars
  <2> SUFFICES ASSUME TypeInv, PairingInv, [Next]_vars, NEW i \in Stored \ Stored'
               PROVE  i \in Retired \cup tampered'
    OBVIOUS
  <2>1. i \in Blobs /\ i \in Registered /\ i \in Registered' /\ i \notin Blobs'
    BY BlobsLost DEF Stored
  <2>2. ~(pass.walking /\ pass.kind = "reconcile" /\ i \in pass.todo)
    BY <2>1 DEF PairingInv, PassFacts, WalkSpares
  <2> QED
    BY <2>1, <2>2, BlobsLost
<1> QED
  BY <1>1, PairingInvariant, PTL DEF Spec, StoredSharesKept

\* Reconcile takes no blob for an orphan whose row is in the table, in a store
\* where reads work; where they may fail it does, as a run of TLC shows.
THEOREM OrphansAreOrphans == ReadsWork => (Spec => OrphansHaveNoRow)
<1> SUFFICES ASSUME ReadsWork PROVE Spec => OrphansHaveNoRow
  OBVIOUS
<1>1. TypeInv /\ PairingInv /\ [Next]_vars
        => [pass.walking => (Blobs \ Blobs') \cap Registered \subseteq tampered']_vars
  <2> SUFFICES ASSUME TypeInv, PairingInv, [Next]_vars, pass.walking,
                      NEW i \in Blobs \ Blobs', i \in Registered
               PROVE  i \in tampered'
    OBVIOUS
  <2>1. ~(pass.kind = "reconcile" /\ i \in pass.todo)
    BY DEF PairingInv, PassFacts, WalkSpares
  <2> QED
    BY <2>1, BlobsLost
<1> QED
  BY <1>1, PairingInvariant, PTL DEF Spec, OrphansHaveNoRow

-----------------------------------------------------------------------------
(* The server implements the life of a share                               *)

\* What ShareLifecycle sees of the server.
LivePayload == [i \in Ids |-> IF i \in Stored THEN size[i] ELSE 0]
Spent == issued \ Drafts
Doomed == Stored \cap Retired

\* The instance counts as this module does.
LEMMA SameCount == \A S : Lifecycle!Cardinality(S) = Cardinality(S)
  BY DEF Lifecycle!Cardinality, Cardinality

\* What ShareLifecycle calls the load is a sum.
LEMMA LoadIsTotal ==
  ASSUME NEW S \in SUBSET Ids, NEW f
  PROVE  Lifecycle!Load([i \in Ids |-> IF i \in S THEN f[i] ELSE 0]) = Total(S, f)
<1> DEFINE g == [i \in Ids |-> IF i \in S THEN f[i] ELSE 0]
<1>1. {b \in Ids \X (1..MaxUpload) : b[2] <= g[b[1]]} = {b \in S \X Units : b[2] <= f[b[1]]}
  <2>1. \A i \in Ids : g[i] = IF i \in S THEN f[i] ELSE 0
    OBVIOUS
  <2>2. \A n \in 1..MaxUpload : ~(n <= 0)
    BY CapacityAssumption
  <2> HIDE DEF g
  <2> QED
    BY <2>1, <2>2 DEF Units
<1> HIDE DEF g
<1>2. Lifecycle!Load(g) = Total(S, f)
  BY <1>1, SameCount DEF Lifecycle!Load, Total
<1> QED
  BY <1>2 DEF g

\* Whatever is live of the blobs fits the cap when they do.
LEMMA LiveLoad ==
  ASSUME NEW S \in SUBSET Blobs
  PROVE  /\ Lifecycle!Load([i \in Ids |-> IF i \in S THEN size[i] ELSE 0]) <= UsedBytes
         /\ Lifecycle!Load([i \in Ids |-> IF i \in S THEN size[i] ELSE 0]) \in Nat
<1>1. S \subseteq Ids /\ IsFiniteSet(S)
  BY SetsFinite, FS_Subset
<1>2. Lifecycle!Load([i \in Ids |-> IF i \in S THEN size[i] ELSE 0]) = Total(S, size)
  BY <1>1, LoadIsTotal
<1>3. Total(S, size) <= UsedBytes
  BY SetsFinite, TotalMono DEF UsedBytes, UsedBy
<1>4. Total(S, size) \in Nat /\ UsedBytes \in Nat
  BY <1>1, TotalType, SumsTyped
<1> QED
  BY <1>2, <1>3, <1>4

\* Steps that only use up ids, or miscount.
LEMMA AsAbandon ==
  ASSUME UNCHANGED <<Stored, Doomed, tampered>>, \A i \in Stored : size'[i] = size[i],
         Spent \subseteq Spent', issued' \subseteq Ids, MissedGrows
  PROVE  Lifecycle!Next
<1>1. LivePayload' = LivePayload
  BY DEF LivePayload
<1> QED
  BY <1>1 DEF Lifecycle!Next, Lifecycle!Abandon, Lifecycle!Miscount, LivePayload, Spent, Doomed, MissedGrows

\* A share appears.
LEMMA AsPut ==
  ASSUME NEW i \in Ids, i \notin Spent, NEW n \in 0..MaxUpload,
         LivePayload' = [LivePayload EXCEPT ![i] = n],
         Lifecycle!Load(LivePayload') <= Cap + missed * MaxUpload,
         Stored' = Stored \cup {i}, Spent' = Spent \cup {i},
         Doomed' \in {Doomed, Doomed \cup {i}}, UNCHANGED <<tampered, missed>>
  PROVE  Lifecycle!Next
  BY DEF Lifecycle!Next, Lifecycle!Put, LivePayload, Spent, Doomed

\* Steps that give shares up.
LEMMA AsDoom ==
  ASSUME UNCHANGED <<Stored, size, Spent, tampered, missed>>, Doomed \subseteq Doomed'
  PROVE  Lifecycle!Next
<1>1. UNCHANGED LivePayload /\ Doomed' \subseteq Stored
  BY DEF LivePayload, Doomed
<1> QED
  BY <1>1 DEF Lifecycle!Next, Lifecycle!Doom, LivePayload, Spent, Doomed

\* A share leaves.
LEMMA Leaves ==
  ASSUME NEW i \in Ids, Stored' = Stored \ {i}, size' = size
  PROVE  LivePayload' = [LivePayload EXCEPT ![i] = 0]
<1>1. /\ LivePayload = [j \in Ids |-> IF j \in Stored THEN size[j] ELSE 0]
      /\ LivePayload' = [j \in Ids |-> IF j \in Stored \ {i} THEN size[j] ELSE 0]
  BY DEF LivePayload
<1> QED
  BY <1>1

\* A doomed share that goes is dropped by the abstract specification.
LEMMA AsDrop ==
  ASSUME NEW i \in Doomed, i \in Ids, Stored' = Stored \ {i}, Doomed' = Doomed \ {i},
         UNCHANGED <<size, Spent, tampered, missed>>
  PROVE  Lifecycle!Next
<1>1. LivePayload' = [LivePayload EXCEPT ![i] = 0]
  BY Leaves
<1> QED
  BY <1>1 DEF Lifecycle!Next, Lifecycle!Drop, Lifecycle!Gone, LivePayload, Spent, Doomed

\* A stored share whose blob is edited away is lost by it.
LEMMA AsLose ==
  ASSUME NEW i \in Stored, i \in Ids, Stored' = Stored \ {i}, Doomed' = Doomed \ {i},
         tampered' = tampered \cup {i}, UNCHANGED <<size, Spent, missed>>
  PROVE  Lifecycle!Next
<1>1. LivePayload' = [LivePayload EXCEPT ![i] = 0]
  BY Leaves
<1> QED
  BY <1>1 DEF Lifecycle!Next, Lifecycle!Lose, Lifecycle!Gone, LivePayload, Spent, Doomed

\* An edit of what is not stored is an edit there too.
LEMMA AsEdit ==
  ASSUME UNCHANGED <<Stored, size, Spent, Doomed, missed>>, tampered' \subseteq Ids
  PROVE  Lifecycle!Next
<1>1. UNCHANGED LivePayload
  BY DEF LivePayload
<1> QED
  BY <1>1 DEF Lifecycle!Next, Lifecycle!Edit, LivePayload, Spent, Doomed

\* The drafts are the ids of uploads on their way to their row.
LEMMA DraftsFrame ==
  ASSUME \A u \in Uploaders : target'[u] = target[u]
                              /\ (pc'[u] \in Claiming \cup {"insert"} <=> pc[u] \in Claiming \cup {"insert"})
  PROVE  Drafts' = Drafts
  BY DEF Drafts

\* What is drafted stays drafted or is used up, and only fresh ids are drawn.
LEMMA SpentGrows ==
  ASSUME issued \subseteq issued', \A u \in Uploaders : pc'[u] \in Claiming \cup {"insert"} =>
                                      \/ target'[u] \notin issued
                                      \/ /\ pc[u] \in Claiming \cup {"insert"}
                                         /\ target'[u] = target[u]
  PROVE  Spent \subseteq Spent'
  BY DEF Spent, Drafts

\* An upload's step gives no spent id back.
LEMMA UploadSpends ==
  ASSUME TypeInv, PairingInv, NEW u \in Uploaders, Upload(u)
  PROVE  Spent \subseteq Spent'
<1>0. /\ u \in Procs /\ pc \in [Procs -> Labels] /\ target \in [Procs -> Ids \cup {NoId}]
      /\ NoId \notin issued /\ Uploaders \subseteq Procs
  BY Names, Domains
<1>1. \A v \in Uploaders \ {u} : pc'[v] = pc[v] /\ target'[v] = target[v]
  BY UploadFootprint
<1>2. issued \subseteq issued'
  BY UploadCases
     DEF BeginUpload, ListForReserve, Reserve, LockHash, Hash, OpenStaging, StageBody, RefuseBody,
         LockCapacity, LockStorage, RejectOverCap, Commit, Publish, RenameFails, InsertRow, RollBack, Unlock, Unstage,
         Release, uploads
<1>3. pc[u] \in BeforeUUID => target[u] = NoId
  BY DEF PairingInv, DraftsHidden, Draft
<1>4. pc'[u] \in Claiming \cup {"insert"} =>
        \/ target'[u] \notin issued
        \/ pc[u] \in Claiming \cup {"insert"} /\ target'[u] = target[u]
  <2>1. CASE BeginUpload(u) \/ ListForReserve(u) \/ Reserve(u)
    BY <1>0, <1>3, <2>1, DraftLabels DEF BeginUpload, ListForReserve, Reserve, Goto, Finish, BeforeUUID
  <2>2. CASE OpenStaging(u)
    BY <1>0, <2>2 DEF OpenStaging
  <2>3. CASE \/ LockHash(u) \/ Hash(u) \/ StageBody(u) \/ RefuseBody(u) \/ LockCapacity(u)
             \/ LockStorage(u) \/ RejectOverCap(u) \/ Commit(u)
    BY <1>0, <2>3, DraftLabels
       DEF LockHash, Hash, StageBody, RefuseBody, LockCapacity, LockStorage, RejectOverCap, Commit, Publish, RenameFails, Goto
  <2>4. CASE InsertRow(u) \/ RollBack(u) \/ Unlock(u) \/ Unstage(u) \/ Release(u)
    BY <1>0, <2>4, DraftLabels DEF InsertRow, RollBack, Unlock, Unstage, Release, Goto, Finish
  <2> QED
    BY <2>1, <2>2, <2>3, <2>4, UploadCases
<1> QED
  BY <1>1, <1>2, <1>4, SpentGrows

\* An upload that does not insert its row changes nothing a share is seen by.
LEMMA UploadHidden ==
  ASSUME TypeInv, PairingInv, NEW u \in Uploaders, Upload(u), ~InsertRow(u)
  PROVE  Lifecycle!Next
<1>1. UNCHANGED <<rows, now, selected, tampered>>
  BY UploadCases
     DEF Upload, history, BeginUpload, ListForReserve, Reserve, LockHash, Hash, OpenStaging, StageBody,
         RefuseBody, LockCapacity, LockStorage, RejectOverCap, Commit, Publish, RenameFails, RollBack, Unlock, Unstage, Release
<1>2. pc[u] \in {"check", "insert"} => target[u] \notin Registered
  BY DraftLabels DEF PairingInv, DraftsHidden, Draft
<1>3. \A i \in Ids : i \in Registered => file'[i] = file[i] /\ size'[i] = size[i]
  <2>1. CASE Commit(u) \/ RollBack(u)
    <3>1. target[u] \notin Registered
      BY <1>2, <2>1 DEF Commit, Publish, RenameFails, RollBack
    <3> QED
      BY <3>1, UploadFootprint
  <2>2. CASE ~(Commit(u) \/ RollBack(u))
    BY <2>2, UploadCases
       DEF BeginUpload, ListForReserve, Reserve, LockHash, Hash, OpenStaging, StageBody, RefuseBody,
           LockCapacity, LockStorage, RejectOverCap, Unlock, Unstage, Release, disk
  <2> QED
    BY <2>1, <2>2
<1>4. UNCHANGED <<Registered, Retired>>
  BY <1>1 DEF Registered, Retired, ExpiredIds, UnprotectedIds
<1>5. Stored' = Stored /\ \A i \in Stored : size'[i] = size[i]
  BY <1>3, <1>4 DEF Stored, Blobs
<1>6. Spent \subseteq Spent'
  BY UploadSpends
<1>7. issued' \subseteq Ids
  BY StepTypes DEF Next, TypeInv, TypeOK
<1>8. MissedGrows
  BY UploadCases
     DEF BeginUpload, ListForReserve, Reserve, LockHash, Hash, OpenStaging, StageBody, RefuseBody,
         LockCapacity, LockStorage, RejectOverCap, Commit, RollBack, Unlock, Unstage, Release, uploads,
         WalkSucceeds, WalkFails, MissedGrows
<1> QED
  BY <1>1, <1>4, <1>5, <1>6, <1>7, <1>8, AsAbandon DEF Doomed

\* A row inserted beside its blob is the share's first appearance; beside a
\* blob that was taken from outside in the meantime it is none.
LEMMA InsertPublishes ==
  ASSUME TypeInv, PairingInv, CapacityRespected, NEW u \in Uploaders, Upload(u), InsertRow(u)
  PROVE  Lifecycle!Next
<1> DEFINE t == target[u]
<1>0. /\ u \in Procs /\ pc \in [Procs -> Labels] /\ issued \subseteq Ids /\ t \in Ids
      /\ Uploaders \subseteq Procs /\ NoId \notin Ids /\ size \in [Ids -> Nat] /\ pc[u] = "insert"
      /\ target \in [Procs -> Ids \cup {NoId}]
  BY Names, Domains, UploadLabels DEF InsertRow, TypeInv, TypeOK, TargetsKnown
<1>1. /\ Registered' = Registered \cup {t} /\ Blobs' = Blobs
      /\ UNCHANGED <<size, issued, target, tampered, selected, now, missed>>
  BY InsertRegisters DEF InsertRow, Upload, history, disk, Blobs
<1>2. t \notin Registered /\ size[t] = got[u] /\ got[u] \in 0..MaxUpload /\ t \in issued
  BY <1>0, DraftLabels DEF PairingInv, DraftsHidden, Draft, IdsDrawn, TypeInv, TypeOK
<1>3. Retired \subseteq Retired' /\ Retired' \subseteq Retired \cup {t}
  <2> DEFINE row == [id |-> t, exp |-> exp[u], protected |-> TRUE]
  <2>1. rows' = rows \cup {row} /\ row.id = t
    BY DEF InsertRow
  <2> HIDE DEF row, t
  <2>2. /\ ExpiredIds(now) \subseteq ExpiredIds(now)'
        /\ ExpiredIds(now)' \subseteq ExpiredIds(now) \cup {t}
    BY <1>1, <2>1 DEF ExpiredIds
  <2>3. /\ UnprotectedIds \subseteq UnprotectedIds' /\ UnprotectedIds' \subseteq UnprotectedIds \cup {t}
    BY <2>1 DEF UnprotectedIds
  <2> QED
    BY <1>1, <2>2, <2>3 DEF Retired
<1>4. Spent' = Spent \cup {t} /\ t \notin Spent
  <2>1. \A v \in Uploaders \ {u} : pc'[v] = pc[v] /\ target[v] # t
    BY <1>0, UploadFootprint DEF PairingInv, IdsDrawn
  <2>2. pc'[u] \notin Claiming \cup {"insert"}
    BY <1>0, DraftLabels DEF InsertRow, Finish, Goto
  <2>3. Drafts' = Drafts \ {t} /\ t \in Drafts
    BY <1>0, <1>1, <2>1, <2>2 DEF Drafts
  <2> QED
    BY <1>1, <1>2, <2>3 DEF Spent
<1>5. CASE t \notin Blobs
  <2>1. Stored' = Stored /\ t \notin Stored
    BY <1>1, <1>5 DEF Stored
  <2>2. Doomed' = Doomed
    BY <1>3, <2>1 DEF Doomed
  <2>3. issued' \subseteq Ids /\ Spent \subseteq Spent'
    BY <1>0, <1>1, <1>4
  <2> QED
    BY <1>1, <2>1, <2>2, <2>3, AsAbandon DEF MissedGrows
<1>6. CASE t \in Blobs
  <2>1. Stored' = Stored \cup {t} /\ t \notin Stored /\ Stored' \subseteq Blobs
    BY <1>1, <1>2, <1>6 DEF Stored
  <2>2. Doomed' \in {Doomed, Doomed \cup {t}}
    BY <1>3, <2>1 DEF Doomed
  <2>3. LivePayload' = [LivePayload EXCEPT ![t] = size[t]]
    <3>1. /\ LivePayload = [j \in Ids |-> IF j \in Stored THEN size[j] ELSE 0]
          /\ LivePayload' = [j \in Ids |-> IF j \in Stored \cup {t} THEN size[j] ELSE 0]
      BY <1>1, <2>1 DEF LivePayload
    <3> QED
      BY <1>0, <3>1
  <2>4. Lifecycle!Load([i \in Ids |-> IF i \in Stored' THEN size[i] ELSE 0]) <= Cap + missed * MaxUpload
    <3>1. UsedBytes + ClaimsOf(Claimants) <= Cap + Slack /\ Slack \in Nat
      BY SlackGrows, <1>1 DEF CapacityRespected, Slack, MissedGrows
    <3>2. Lifecycle!Load([i \in Ids |-> IF i \in Stored' THEN size[i] ELSE 0]) <= Cap + Slack
      BY <2>1, <3>1, LiveLoad, SumsTyped, CapacityAssumption
    <3> QED
      BY <3>2 DEF Slack
  <2>5. Lifecycle!Load(LivePayload') <= Cap + missed * MaxUpload
    BY <1>1, <2>4 DEF LivePayload
  <2>6. size[t] \in 0..MaxUpload
    BY <1>2
  <2> HIDE DEF t
  <2> QED
    BY <1>0, <1>1, <1>4, <2>1, <2>2, <2>3, <2>5, <2>6, AsPut
<1> QED
  BY <1>5, <1>6

\* A pass unlinks the blobs of shares that are given up, or of none.
LEMMA PassRefines ==
  ASSUME TypeInv, PairingInv, ReadsWork, NEW p \in Procs, Passes(p)
  PROVE  Lifecycle!Next
<1>0. /\ UNCHANGED <<size, now, selected, tampered, issued, missed>> /\ issued \subseteq Ids
      /\ Uploaders \subseteq Procs /\ pc \in [Procs -> Labels]
      /\ target \in [Procs -> Ids \cup {NoId}] /\ PassFacts /\ PassShape
      /\ file \in [Ids -> {"none", "regular", "directory"}]
  BY Names, Domains, PassFootprint DEF uploads, history, PairingInv, PassFacts
<1>1. Drafts' = Drafts
  <2>1. CASE EndPass(p)
    <3> SUFFICES ASSUME NEW u \in Uploaders
                 PROVE  /\ target'[u] = target[u]
                        /\ pc'[u] \in Claiming \cup {"insert"} <=> pc[u] \in Claiming \cup {"insert"}
      BY DraftsFrame
    <3>1. CASE u = p
      <4>1. pc[u] \in Calls /\ pc[u] \in UploadPlaces /\ pc'[u] = Return(pc[u])
        BY <1>0, <2>1, <3>1 DEF EndPass, Goto, PairingInv, Places
      <4>2. target'[u] = target[u]
        BY <1>0, <2>1, <3>1, <4>1, ReturnPlaces DEF EndPass
      <4> QED
        BY <4>1, <4>2, ReturnDraft
    <3>2. CASE u # p
      BY <1>0, <2>1, <3>2 DEF EndPass, Goto
    <3> QED
      BY <3>1, <3>2
  <2>2. CASE ~EndPass(p)
    BY <2>2, PassMoves DEF Drafts
  <2> QED
    BY <2>1, <2>2
<1>2. Spent' = Spent
  BY <1>0, <1>1 DEF Spent
<1>3. CASE UNCHANGED <<file, rows>>
  <2>1. UNCHANGED <<Stored, Doomed>>
    BY <1>0, <1>3
       DEF Stored, Blobs, Registered, Doomed, Retired, ExpiredIds, UnprotectedIds
  <2> QED
    BY <1>0, <1>2, <2>1, AsAbandon DEF MissedGrows
<1>4. ASSUME NEW i \in Ids, UnlinkBlob(p, i) PROVE Lifecycle!Next
  <2>1. /\ Blobs' = Blobs \ {i} /\ rows' = rows /\ i \in pass.todo /\ i \in Blobs
        /\ pass.kind = KindOf(pc[p]) /\ pc[p] \in Calls /\ pass.kind # "reconcile"
    BY <1>0, <1>4, Names, CallsApart
       DEF UnlinkBlob, Examines, Blobs, PairingInv, Exclusion
  <2>2. UNCHANGED <<Registered, Retired>>
    BY <1>0, <2>1 DEF Registered, Retired, ExpiredIds, UnprotectedIds
  <2>3. Stored' = Stored \ {i} /\ Doomed' = Doomed \ {i}
    BY <2>1, <2>2 DEF Stored, Doomed
  <2>4. CASE i \in Registered
    <3>1. pass.kind \in {"unprotected", "expired", "remove"}
      BY <2>1 DEF KindOf, Calls, UnprotectedCalls, ExpiredCalls, ReconcileCalls, RemoveCalls
    <3>2. i \in Retired
      BY <1>0, <2>1, <2>4, <3>1 DEF PassFacts, Worklist, Retired
    <3>3. i \in Doomed
      BY <2>1, <2>4, <3>2 DEF Stored, Doomed
    <3> QED
      BY <1>0, <1>2, <2>3, <3>3, AsDrop
  <2>5. CASE i \notin Registered
    <3>1. i \notin Stored /\ i \notin Doomed
      BY <2>5 DEF Stored, Doomed
    <3> QED
      BY <1>0, <1>2, <2>3, <3>1, AsAbandon DEF MissedGrows
  <2> QED
    BY <2>4, <2>5
<1>5. ASSUME NEW i \in Ids, RemoveOrphan(p, i) PROVE Lifecycle!Next
  <2>1. /\ Blobs' \subseteq Blobs /\ Blobs \ Blobs' \subseteq {i} /\ rows' = rows
        /\ i \in pass.todo /\ pass.walking
    BY <1>0, <1>5 DEF RemoveOrphan, Blobs
  <2>2. i \notin Registered
    BY <1>0, <2>1 DEF PassShape, PassFacts, WalkSpares
  <2>3. UNCHANGED <<Registered, Retired>>
    BY <1>0, <2>1 DEF Registered, Retired, ExpiredIds, UnprotectedIds
  <2>4. UNCHANGED <<Stored, Doomed>>
    BY <2>1, <2>2, <2>3 DEF Stored, Doomed
  <2> QED
    BY <1>0, <1>2, <2>4, AsAbandon DEF MissedGrows
<1>6. CASE DeleteRow(p)
  <2>1. file' = file /\ (rows' = rows \/ rows' = RowsWithout(pass.cur)) /\ pass.cur \notin Blobs
    BY <1>0, <1>6 DEF DeleteRow, disk, PassShape
  <2>2. CASE rows' = RowsWithout(pass.cur)
    <3>1. /\ Registered' = Registered \ {pass.cur}
          /\ ExpiredIds(now)' = ExpiredIds(now) \ {pass.cur}
          /\ UnprotectedIds' = UnprotectedIds \ {pass.cur}
      BY <1>0, <2>2 DEF RowsWithout, Registered, ExpiredIds, UnprotectedIds
    <3>2. Stored' = Stored /\ pass.cur \notin Stored
      BY <2>1, <3>1 DEF Stored, Blobs
    <3>3. Doomed' = Doomed
      BY <1>0, <3>1, <3>2 DEF Doomed, Retired
    <3> QED
      BY <1>0, <1>2, <3>2, <3>3, AsAbandon DEF MissedGrows
  <2> QED
    BY <1>3, <2>1, <2>2
<1>7. CASE ~DeleteRow(p) /\ \A i \in Ids : ~UnlinkBlob(p, i) /\ ~RemoveOrphan(p, i)
  <2>1. UNCHANGED <<file, rows>>
    BY <1>7 DEF Passes, PassStep, StartPass, FindVacant, KeepKnown, SkipFailing, StartWalk, EndPass, disk
  <2> QED
    BY <1>3, <2>1
<1> QED
  BY <1>4, <1>5, <1>6, <1>7

\* An edit from outside is a step of the abstract specification.
LEMMA TamperRefines ==
  ASSUME TypeInv, NEW i \in Ids, Tamper(i)
  PROVE  Lifecycle!Next
<1>1. /\ UNCHANGED <<size, rows, now, selected, issued, pc, target, missed>>
      /\ Blobs' = Blobs \ {i} /\ tampered' = tampered \cup {i} /\ tampered \subseteq Ids
  BY Domains DEF Tamper, goroutines, uploads, Blobs
<1>2. Registered' = Registered /\ Retired' = Retired \cup {i} /\ Spent' = Spent
  BY <1>1 DEF Registered, Retired, ExpiredIds, UnprotectedIds, Spent, Drafts
<1>3. Stored' = Stored \ {i} /\ Doomed' = Doomed \ {i}
  BY <1>1, <1>2 DEF Stored, Doomed
<1>4. CASE i \in Stored
  BY <1>1, <1>2, <1>3, <1>4, AsLose
<1>5. CASE i \notin Stored
  <2>1. Stored' = Stored /\ Doomed' = Doomed /\ tampered' \subseteq Ids
    BY <1>1, <1>3, <1>5 DEF Doomed
  <2> QED
    BY <1>1, <1>2, <2>1, AsEdit
<1> QED
  BY <1>4, <1>5

\* A request or the clock gives shares up; a crash or a start ends uploads.
LEMMA RestRefines ==
  ASSUME TypeInv, (\E c \in Clients : Request(c)) \/ Tick \/ ClearStaging \/ Midnight \/ Crash \/ UNCHANGED vars
  PROVE  Lifecycle!Next
<1>0. /\ issued \subseteq Ids /\ now \in Nat /\ Uploaders \subseteq Procs /\ Clients \subseteq Procs
      /\ Cleaner \in Procs /\ pc \in [Procs -> Labels]
  BY Names, Domains
<1>1. ASSUME NEW c \in Clients, Request(c) PROVE Lifecycle!Next
  <2>1. UNCHANGED <<file, size, rows, now, tampered, issued, missed>>
    BY <1>1, RequestFootprint DEF disk
  <2>2. selected \subseteq selected'
    BY <1>1
       DEF Request, RequestArrives, RequestRuns, OpenPage, OpenShare, GetRow, LookAtBlob, Serve,
           ShowSharePage, SelectShares, DeleteNext, DeleteDone, history
  <2>3. Drafts' = Drafts
    <3>1. \A u \in Uploaders : target'[u] = target[u] /\ pc'[u] = pc[u]
      BY <1>0, <1>1, Names, RequestTargets
    <3> QED
      BY <3>1, DraftsFrame
  <2>4. UNCHANGED <<Stored, Spent>> /\ Doomed \subseteq Doomed'
    BY <2>1, <2>2, <2>3
       DEF Stored, Blobs, Registered, Spent, Doomed, Retired, ExpiredIds, UnprotectedIds
  <2> QED
    BY <2>1, <2>4, AsDoom
<1>2. CASE Tick
  <2>1. UNCHANGED <<file, size, rows, tampered, issued, selected, pc, target, missed>> /\ now' = now + 1
    BY <1>2 DEF Tick, disk, uploads, goroutines, history
  <2>2. ExpiredIds(now) \subseteq ExpiredIds(now)'
    <3>1. \A q \in rows : q.exp \in Nat
      BY Domains DEF Row
    <3>2. \A q \in rows : Expired(q.exp, now) => Expired(q.exp, now')
      BY <1>0, <2>1, <3>1 DEF Expired
    <3> QED
      BY <2>1, <3>2 DEF ExpiredIds
  <2>3. UNCHANGED <<Stored, Spent>> /\ Doomed \subseteq Doomed'
    BY <2>1, <2>2 DEF Stored, Blobs, Registered, Spent, Drafts, Doomed, Retired, UnprotectedIds
  <2> QED
    BY <2>1, <2>3, AsDoom
<1>3. CASE ClearStaging \/ Midnight \/ Crash \/ UNCHANGED vars
  <2>1. UNCHANGED <<file, size, rows, tampered, issued, selected, now, missed>>
    BY <1>3 DEF ClearStaging, Midnight, Crash, vars, disk, uploads, history
  <2>2. UNCHANGED <<Stored, Doomed>>
    BY <2>1 DEF Stored, Blobs, Registered, Doomed, Retired, ExpiredIds, UnprotectedIds
  <2>3. Drafts' \subseteq Drafts
    <3>1. \A u \in Uploaders : pc'[u] = "idle" \/ (pc'[u] = pc[u] /\ target'[u] = target[u])
      BY <1>0, <1>3, Names DEF ClearStaging, Midnight, Crash, vars, goroutines, Goto
    <3> QED
      BY <3>1, DraftLabels DEF Drafts
  <2>4. Spent \subseteq Spent'
    BY <2>1, <2>3 DEF Spent
  <2> QED
    BY <1>0, <2>1, <2>2, <2>4, AsAbandon DEF MissedGrows
<1> QED
  BY <1>1, <1>2, <1>3

\* The initial states of the server are initial there.
LEMMA LifecycleInit == Init => Lifecycle!Init
<1> SUFFICES ASSUME Init PROVE Lifecycle!Init
  OBVIOUS
<1>1. UsedBytes <= Cap /\ missed = 0 /\ issued = Legacy /\ tampered = {} /\ Legacy \subseteq Ids
      /\ size \in [Ids -> Nat]
  BY SetsAssumption DEF Init
<1>2. Registered \subseteq Legacy
  BY DEF Init, LegacyRows, Registered
<1>3. Stored \subseteq Legacy /\ Stored \subseteq Blobs
  BY <1>2 DEF Stored
<1>4. Drafts = {}
  BY Names, DraftLabels DEF Init, Drafts
<1>5. Lifecycle!Load(LivePayload) <= Cap
  <2>1. Lifecycle!Load(LivePayload) <= UsedBytes /\ Lifecycle!Load(LivePayload) \in Nat
    BY <1>3, LiveLoad DEF LivePayload
  <2> QED
    BY <1>1, <2>1, SumsTyped, CapacityAssumption
<1>6. /\ LivePayload \in [Ids -> Nat] /\ \A i \in Ids \ Stored : LivePayload[i] = 0
  BY <1>1 DEF LivePayload
<1> QED
  BY <1>1, <1>3, <1>4, <1>5, <1>6 DEF Lifecycle!Init, LivePayload

\* In a store where reads work, whatever the server does to files, rows and
\* claims, and whatever fails, dies or is edited, is a step in the life of its
\* shares: a share appears whole when its row is inserted, within the cap and
\* under an id never live before, and leaves for a reason only.
THEOREM ServerImplementsLifecycle == ReadsWork => (Spec => ImplementsLifecycle)
<1> SUFFICES ASSUME ReadsWork PROVE Spec => ImplementsLifecycle
  OBVIOUS
<1>1. TypeInv /\ PairingInv /\ CapacityInv /\ [Next]_vars => [Lifecycle!Next]_(Lifecycle!abstractVars)
  <2> SUFFICES ASSUME TypeInv, PairingInv, CapacityInv, [Next]_vars PROVE Lifecycle!Next
    OBVIOUS
  <2>1. ASSUME NEW u \in Uploaders, Upload(u) PROVE Lifecycle!Next
    BY <2>1, UploadHidden, InsertPublishes DEF CapacityInv
  <2>2. ASSUME NEW p \in Procs, Passes(p) PROVE Lifecycle!Next
    BY <2>2, PassRefines
  <2>3. ASSUME NEW i \in Ids, Tamper(i) PROVE Lifecycle!Next
    BY <2>3, TamperRefines
  <2> QED
    BY <2>1, <2>2, <2>3, RestRefines DEF Next
<1>2. Spec => []CapacityInv
  BY CapacityInvariant
<1> QED
  BY <1>1, <1>2, LifecycleInit, PairingInvariant, PTL DEF Spec, ImplementsLifecycle, Lifecycle!Spec

-----------------------------------------------------------------------------
(* What is staged is covered by claims                                     *)

\* The uploads whose claim is not used up: they have not published, or their
\* staged file is still there.
Holders == Claimants \cup {u \in Uploaders : target[u] \in staging}

\* A payload fits the claim of its upload, and only an upload that has made one
\* holds a claim.
ClaimsHeld == \A u \in Uploaders : got[u] <= res[u] /\ (pc[u] \notin Reserving => res[u] = 0)

\* FootprintRespected is not inductive: what may still be staged counts as well.
Room == faults = 0 => UsedBytes + ClaimsOf(Holders) <= Cap

FootprintInv == ClaimsHeld /\ Room

\* Claims are held on while uploads reserve and nothing is measured.
LEMMA ClaimsFrame ==
  ASSUME ClaimsHeld, UNCHANGED <<res, got>>,
         \A u \in Uploaders : pc[u] \in Reserving => pc'[u] \in Reserving
  PROVE  ClaimsHeld'
  BY DEF ClaimsHeld

\* The uploads that hold room are finite, and so is what they hold.
LEMMA HoldersFinite ==
  Holders \subseteq Uploaders /\ IsFiniteSet(Holders) /\ ClaimsOf(Holders) \in Nat
<1>1. Holders \subseteq Uploaders
  BY SetsFinite DEF Holders
<1>2. IsFiniteSet(Holders)
  BY <1>1, FS_Subset, SetsAssumption
<1> QED
  BY <1>1, <1>2, TotalType DEF ClaimsOf

\* While nothing has failed, who holds a claim is counted in the reservations.
LEMMA HoldersReserve ==
  ASSUME DraftsHidden, faults = 0
  PROVE  Holders \subseteq Reservers
<1>1. Staged \subseteq Reserving /\ Claiming \subseteq Reserving
  BY DEF Staged, Reserving, Claiming
<1> QED
  BY <1>1 DEF Holders, Claimants, Reservers, DraftsHidden, Draft

\* Room is left by every step that adds neither a blob nor a claim.
LEMMA RoomFrame ==
  ASSUME Room, faults' = 0 => faults = 0,
         faults' = 0 => Blobs' \subseteq Blobs /\ Holders' \subseteq Holders,
         \A i \in Blobs' : size'[i] = size[i], \A u \in Holders' : res'[u] = res[u]
  PROVE  Room'
<1> SUFFICES ASSUME faults' = 0 PROVE UsedBytes' + ClaimsOf(Holders)' <= Cap
  BY DEF Room
<1>1. UsedBytes + ClaimsOf(Holders) <= Cap
  BY DEF Room
<1>2. UsedBytes' <= UsedBytes /\ UsedBytes' \in Nat
  <2>1. Total(Blobs', size') = Total(Blobs', size)
    BY TotalAgree
  <2>2. Total(Blobs', size) <= Total(Blobs, size) /\ Total(Blobs', size) \in Nat
    BY SetsFinite, FS_Subset, TotalMono, TotalType
  <2> QED
    BY <2>1, <2>2 DEF UsedBytes, UsedBy
<1>3. ClaimsOf(Holders)' <= ClaimsOf(Holders) /\ ClaimsOf(Holders)' \in Nat
  <2>1. Total(Holders', res') = Total(Holders', res)
    BY TotalAgree
  <2>2. Total(Holders', res) <= Total(Holders, res) /\ Total(Holders', res) \in Nat
    BY HoldersFinite, FS_Subset, TotalMono, TotalType
  <2> QED
    BY <2>1, <2>2 DEF ClaimsOf
<1> QED
  BY <1>1, <1>2, <1>3, SumsTyped, HoldersFinite, CapacityAssumption

\* reserveCapacity's claim fits beside the blobs and everybody's claim.
LEMMA ReserveLeavesRoom ==
  ASSUME TypeInv, CapacityInv, PairingInv, FootprintInv, NEW u \in Uploaders, Reserve(u)
  PROVE  FootprintInv'
<1>0. /\ u \in Procs /\ Uploaders \subseteq Procs /\ pc \in [Procs -> Labels] /\ res \in [Uploaders -> 0..MaxUpload]
      /\ got \in [Uploaders -> 0..MaxUpload] /\ reservations \in Nat /\ snap \subseteq Ids
      /\ pc[u] = "reserving" /\ UNCHANGED <<file, size, staging, target, got>> /\ faults \in Nat
      /\ "reserving" \notin Reserving /\ "hash" \in Reserving
      /\ "idle" \notin Reserving /\ "idle" \notin Claiming
  BY Names, Domains, SidesOfLabels DEF TypeInv, TypeOK, Reserve, disk
<1>1. UsedBytes' = UsedBytes /\ got[u] = 0 /\ u \notin Reservers
  BY <1>0, CapacityAssumption DEF UsedBytes, UsedBy, Blobs, FootprintInv, ClaimsHeld, Reservers
<1>2. PICK S \in SUBSET snap :
        /\ faults' # 0 \/ (faults' = faults /\ Blobs \cap snap \subseteq S)
        /\ \/ Finish(u, "ErrCap", "idle") /\ UNCHANGED res
           \/ /\ Available(S) > 0
              /\ res' = [res EXCEPT ![u] = ClaimFor(Available(S))]
              /\ Goto(u, "hash")
  BY <1>0 DEF Reserve, WalkSucceeds, WalkFails, Succeeds, Fails
<1>3. CASE Finish(u, "ErrCap", "idle") /\ UNCHANGED res
  <2>1. pc' = [pc EXCEPT ![u] = "idle"]
    BY <1>3 DEF Finish, Goto
  <2>2. Holders' \subseteq Holders /\ Blobs' = Blobs
    BY <1>0, <2>1 DEF Holders, Claimants, Blobs
  <2>3. Room'
    BY <1>0, <1>2, <1>3, <2>2, RoomFrame DEF FootprintInv
  <2>4. ClaimsHeld'
    BY <1>0, <1>3, <2>1, ClaimsFrame DEF FootprintInv
  <2> QED
    BY <2>3, <2>4 DEF FootprintInv
<1>4. CASE /\ Available(S) > 0
           /\ res' = [res EXCEPT ![u] = ClaimFor(Available(S))]
           /\ Goto(u, "hash")
  <2> DEFINE claim == ClaimFor(Available(S))
  <2>1. UsedBy(S) \in Nat /\ (faults' = 0 => faults = 0 /\ UsedBytes <= UsedBy(S))
    <3>1. S \subseteq Ids /\ (faults' = 0 => faults = 0 /\ Blobs \subseteq S)
      BY <1>0, <1>2 DEF CapacityInv, WalkSeesAll
    <3> QED
      BY <3>1, UsedByType, FS_Subset, SetsAssumption, TotalMono DEF UsedBytes, UsedBy
  <2>2. claim \in 0..MaxUpload /\ claim <= Cap - UsedBy(S) - reservations
    BY <1>0, <1>4, <2>1, CapacityAssumption DEF ClaimFor, Available
  <2>3. res'[u] = claim /\ \A v \in Uploaders \ {u} : res'[v] = res[v]
    BY <1>0, <1>4
  <2> HIDE DEF claim
  <2>4. pc' = [pc EXCEPT ![u] = "hash"]
    BY <1>4 DEF Goto
  <2>5. ClaimsHeld'
    BY <1>0, <1>1, <2>2, <2>3, <2>4, CapacityAssumption DEF FootprintInv, ClaimsHeld
  <2>6. ASSUME faults' = 0 PROVE UsedBytes' + ClaimsOf(Holders)' <= Cap
    <3>1. Holders \subseteq Reservers /\ Holders' \subseteq Holders \cup {u} /\ u \notin Holders
      <4>1. Holders \subseteq Reservers
        BY <1>0, <2>1, <2>6, HoldersReserve DEF PairingInv
      <4> QED
        BY <1>0, <1>1, <2>4, <4>1 DEF Holders, Claimants
    <3>2. Total(Holders \cup {u}, res') = Total(Holders, res') + claim
      BY <2>2, <2>3, <3>1, HoldersFinite, TotalAdd
    <3>3. Total(Holders, res') = Total(Holders, res)
      BY <2>3, <3>1, HoldersFinite, TotalAgree
    <3>4. Total(Holders', res') <= Total(Holders \cup {u}, res') /\ Total(Holders', res') \in Nat
      <4>1. IsFiniteSet(Holders \cup {u})
        BY <3>1, HoldersFinite, FS_Subset, SetsAssumption
      <4> QED
        BY <3>1, <4>1, FS_Subset, TotalMono, TotalType
    <3>5. Total(Holders, res) <= reservations
      BY <3>1, SetsFinite, TotalMono DEF CapacityInv, ReservationsExact, ClaimsOf
    <3>6. ClaimsOf(Holders)' <= reservations + claim
      BY <1>0, <2>2, <3>2, <3>3, <3>4, <3>5, HoldersFinite, CapacityAssumption DEF ClaimsOf
    <3>7. ClaimsOf(Holders)' \in Nat
      BY <3>4 DEF ClaimsOf
    <3> QED
      BY <1>0, <1>1, <2>1, <2>2, <2>6, <3>6, <3>7, SumsTyped, CapacityAssumption
  <2> QED
    BY <2>5, <2>6 DEF FootprintInv, Room
<1> QED
  BY <1>2, <1>3, <1>4

\* A commit turns a claim into bytes the final check has made room for.
LEMMA CommitLeavesRoom ==
  ASSUME TypeInv, CapacityInv, PairingInv, FootprintInv, NEW u \in Uploaders, Upload(u), Commit(u)
  PROVE  FootprintInv'
<1>0. /\ u \in Procs /\ pc \in [Procs -> Labels] /\ res \in [Uploaders -> 0..MaxUpload]
      /\ got \in [Uploaders -> 0..MaxUpload] /\ reservations \in Nat /\ size \in [Ids -> Nat]
      /\ file \in [Ids -> {"none", "regular", "directory"}] /\ Uploaders \subseteq Procs
      /\ pc[u] = "check" /\ UNCHANGED <<target, got, res>> /\ target[u] \in Ids
      /\ NoId \notin Ids
  BY Names, Domains, UploadLabels DEF TypeInv, TypeOK, TargetsKnown, Commit, Publish, RenameFails
<1>1. ClaimsHeld'
  BY <1>0, ClaimsFrame, SidesOfLabels DEF FootprintInv, Commit, Publish, RenameFails, Goto, Finish
<1>2. CASE Fails("rename") \/ WalkFails
  <2>1. faults' # 0
    BY <1>2, Domains DEF Fails, WalkFails
  <2> QED
    BY <1>1, <2>1 DEF FootprintInv, Room
<1>3. CASE /\ file' = [file EXCEPT ![target[u]] = "regular"]
           /\ size' = [size EXCEPT ![target[u]] = got[u]]
           /\ staging' = staging \ {target[u]}
           /\ Goto(u, "insert") /\ Succeeds /\ Admits(u, Blobs)
  <2> SUFFICES ASSUME faults' = 0 PROVE UsedBytes' + ClaimsOf(Holders)' <= Cap
    BY <1>1 DEF FootprintInv, Room
  <2> DEFINE t == target[u]
  <2>1. t \notin Blobs
    BY <1>0, DraftLabels DEF PairingInv, DraftsHidden, Draft
  <2>2. Blobs' = Blobs \cup {t} /\ size'[t] = got[u] /\ \A i \in Blobs : size'[i] = size[i]
    BY <1>0, <1>3, <2>1 DEF Blobs
  <2>3. UsedBytes' = UsedBytes + got[u]
    <3>0. size'[t] \in 0..MaxUpload
      BY <1>0, <2>2
    <3> HIDE DEF t
    <3>1. Total(Blobs \cup {t}, size') = Total(Blobs, size') + got[u]
      BY <2>1, <2>2, <3>0, SetsFinite, TotalAdd
    <3>2. Total(Blobs, size') = Total(Blobs, size)
      BY <2>2, TotalAgree
    <3> QED
      BY <2>2, <3>1, <3>2 DEF UsedBytes, UsedBy
  <2>4. Holders' \subseteq Reservers \ {u}
    <3>1. Holders \subseteq Reservers
      BY <1>3, HoldersReserve DEF PairingInv, Succeeds
    <3>2. pc' = [pc EXCEPT ![u] = "insert"]
      BY <1>3 DEF Goto
    <3>3. u \notin Holders'
      BY <1>0, <1>3, <3>2, SidesOfLabels DEF Holders, Claimants
    <3>4. Holders' \subseteq Holders \cup {u}
      BY <1>0, <1>3, <3>2 DEF Holders, Claimants
    <3> QED
      BY <3>1, <3>3, <3>4
  <2>5. ClaimsOf(Holders)' <= reservations - res[u] /\ ClaimsOf(Holders)' \in Nat
    <3>1. u \in Reservers /\ IsFiniteSet(Reservers \ {u})
      BY <1>0, SetsFinite, FS_Subset, SidesOfLabels DEF Reservers
    <3>2. reservations = Total(Reservers \ {u}, res) + res[u]
      BY <1>0, <3>1, SetsFinite, TotalRemove DEF CapacityInv, ReservationsExact, ClaimsOf
    <3>3. /\ Total(Holders', res) <= Total(Reservers \ {u}, res)
          /\ Total(Holders', res) \in Nat /\ Total(Reservers \ {u}, res) \in Nat
      BY <2>4, <3>1, FS_Subset, TotalMono, TotalType
    <3>4. ClaimsOf(Holders)' = Total(Holders', res)
      BY <1>0 DEF ClaimsOf
    <3>5. res[u] \in Nat
      BY <1>0, CapacityAssumption
    <3> QED
      BY <3>2, <3>3, <3>4, <3>5
  <2>6. UsedBytes + got[u] + (reservations - res[u]) <= Cap
    BY <1>3 DEF Admits, UsedBytes
  <2>7. got[u] \in Nat /\ res[u] \in Nat
    BY <1>0, CapacityAssumption
  <2> QED
    BY <1>0, <2>3, <2>5, <2>6, <2>7, SumsTyped, CapacityAssumption
<1> QED
  BY <1>2, <1>3 DEF Commit, Publish, WalkSucceeds

\* A claim is given back when nothing of the upload is staged any more.
LEMMA ReleaseLeavesRoom ==
  ASSUME TypeInv, PairingInv, FootprintInv, NEW u \in Uploaders, Release(u)
  PROVE  FootprintInv'
<1>0. /\ u \in Procs /\ pc \in [Procs -> Labels] /\ res \in [Uploaders -> 0..MaxUpload]
      /\ got \in [Uploaders -> 0..MaxUpload] /\ Uploaders \subseteq Procs
      /\ UNCHANGED <<file, size, staging, target, faults>> /\ pc[u] = "release"
      /\ pc' = [pc EXCEPT ![u] = "idle"] /\ res' = [res EXCEPT ![u] = 0] /\ got' = [got EXCEPT ![u] = 0]
  BY Names, Domains DEF TypeInv, TypeOK, Release, Goto, disk
<1>1. ClaimsHeld'
  BY <1>0 DEF FootprintInv, ClaimsHeld
<1>2. faults = 0 => target[u] \notin staging
  BY <1>0, DraftLabels DEF PairingInv, DraftsHidden, Draft
<1>3. Room'
  <2> SUFFICES ASSUME faults = 0 PROVE Room'
    BY <1>0 DEF Room
  <2>1. Holders' \subseteq Holders \ {u} /\ Blobs' = Blobs
    BY <1>0, <1>2, SidesOfLabels DEF Holders, Claimants, Blobs
  <2>2. \A v \in Holders' : res'[v] = res[v]
    BY <1>0, <2>1, HoldersFinite
  <2> QED
    BY <1>0, <2>1, <2>2, RoomFrame DEF FootprintInv
<1> QED
  BY <1>1, <1>3 DEF FootprintInv

\* An upload's step keeps the room that its staged file needs.
LEMMA UploadLeavesRoom ==
  ASSUME TypeInv, CapacityInv, PairingInv, FootprintInv, NEW u \in Uploaders, Upload(u)
  PROVE  FootprintInv'
<1>0. /\ u \in Procs /\ pc \in [Procs -> Labels] /\ target \in [Procs -> Ids \cup {NoId}]
      /\ Uploaders \subseteq Procs /\ faults \in Nat /\ NoId \notin staging /\ staging \subseteq issued
      /\ file \in [Ids -> {"none", "regular", "directory"}] /\ faults' \in {faults, faults + 1}
      /\ res \in [Uploaders -> 0..MaxUpload] /\ got \in [Uploaders -> 0..MaxUpload]
  BY Names, Domains, UploadFootprint DEF PairingInv, IdsDrawn, TypeInv, TypeOK
<1>1. CASE Reserve(u) \/ Commit(u) \/ Release(u)
  BY <1>1, ReserveLeavesRoom, CommitLeavesRoom, ReleaseLeavesRoom
<1>2. CASE StageBody(u)
  <2>1. /\ UNCHANGED <<file, size, staging, target, faults, res>> /\ pc[u] = "staging"
        /\ pc' = [pc EXCEPT ![u] = "lockCapacity"] \/ pc' = [pc EXCEPT ![u] = "unstage"]
    BY <1>2 DEF StageBody, Goto, Finish, disk
  <2>2. Blobs' = Blobs /\ Holders' \subseteq Holders
    BY <1>0, <2>1, SidesOfLabels DEF Blobs, Holders, Claimants
  <2>3. Room'
    BY <2>1, <2>2, RoomFrame DEF FootprintInv
  <2>4. PICK n \in 0..res[u] : got' = [got EXCEPT ![u] = n]
    BY <1>2 DEF StageBody
  <2>5. ClaimsHeld'
    BY <1>0, <2>1, <2>4, SidesOfLabels, CapacityAssumption DEF FootprintInv, ClaimsHeld
  <2> QED
    BY <2>3, <2>5 DEF FootprintInv
<1>3. CASE ~(Reserve(u) \/ Commit(u) \/ Release(u) \/ StageBody(u))
  <2>1. UNCHANGED <<res, got, size>> /\ Blobs' \subseteq Blobs
    BY <1>0, <1>3, UploadCases
       DEF BeginUpload, ListForReserve, LockHash, Hash, OpenStaging, RefuseBody, LockCapacity, LockStorage,
           RejectOverCap, InsertRow, RollBack, Unlock, Unstage, disk, uploads, Blobs
  <2>2. \A v \in Uploaders \ {u} : pc'[v] = pc[v] /\ target'[v] = target[v]
    BY UploadFootprint
  <2>3. /\ pc[u] \in Reserving => pc'[u] \in Reserving
        /\ pc'[u] \in Claiming => pc[u] \in Claiming
    <3>1. CASE BeginUpload(u) \/ ListForReserve(u) \/ LockHash(u) \/ Hash(u) \/ OpenStaging(u) \/ RefuseBody(u)
      BY <1>0, <3>1, SidesOfLabels
         DEF BeginUpload, ListForReserve, LockHash, Hash, OpenStaging, RefuseBody, Goto, Finish
    <3>2. CASE LockCapacity(u) \/ LockStorage(u) \/ RejectOverCap(u) \/ InsertRow(u)
      BY <1>0, <3>2, SidesOfLabels DEF LockCapacity, LockStorage, RejectOverCap, InsertRow, Goto, Finish
    <3>3. CASE RollBack(u) \/ Unlock(u) \/ Unstage(u)
      BY <1>0, <3>3, SidesOfLabels DEF RollBack, Unlock, Unstage, Goto, Finish
    <3> QED
      BY <1>3, <3>1, <3>2, <3>3, UploadCases
  <2>4. Holders' \subseteq Holders
    <3>1. CASE OpenStaging(u)
      <4>1. PICK i \in Ids \ issued : target' = [target EXCEPT ![u] = i] /\ staging' \subseteq staging \cup {i}
        BY <3>1 DEF OpenStaging
      <4>2. u \in Holders
        BY <3>1, SidesOfLabels DEF OpenStaging, Holders, Claimants
      <4>3. \A v \in Uploaders \ {u} : target[v] # i
        BY <1>0, <4>1, Names, Domains DEF PairingInv, IdsDrawn
      <4> QED
        BY <2>2, <4>1, <4>2, <4>3 DEF Holders, Claimants
    <3>2. CASE ~OpenStaging(u)
      <4>1. staging' \subseteq staging /\ target'[u] \in {target[u], NoId}
        BY <1>0, <1>3, <3>2, UploadCases
           DEF BeginUpload, ListForReserve, LockHash, Hash, RefuseBody, LockCapacity, LockStorage,
               RejectOverCap, InsertRow, RollBack, Unlock, Unstage, disk
      <4> QED
        BY <1>0, <2>2, <2>3, <4>1 DEF Holders, Claimants
    <3> QED
      BY <3>1, <3>2
  <2>5. \A v \in Uploaders : pc[v] \in Reserving => pc'[v] \in Reserving
    BY <2>2, <2>3
  <2>6. ClaimsHeld'
    BY <2>1, <2>5, ClaimsFrame DEF FootprintInv
  <2>7. Room'
    BY <1>0, <2>1, <2>4, RoomFrame DEF FootprintInv
  <2> QED
    BY <2>6, <2>7 DEF FootprintInv
<1> QED
  BY <1>1, <1>2, <1>3

\* Nobody else adds a blob or a claim.
LEMMA OtherLeavesRoom ==
  ASSUME TypeInv, PairingInv, FootprintInv, UNCHANGED <<size, res, got>>, Blobs' \subseteq Blobs,
         staging' \subseteq staging, faults' \in {faults, faults + 1},
         \A u \in Uploaders : /\ target'[u] \in {target[u], NoId}
                              /\ pc[u] \in Reserving => pc'[u] \in Reserving
                              /\ pc'[u] \in Claiming => pc[u] \in Claiming
  PROVE  FootprintInv'
<1>1. NoId \notin staging /\ faults \in Nat
  BY Names, Domains
<1>2. Holders' \subseteq Holders
  BY <1>1 DEF Holders, Claimants
<1>3. Room'
  BY <1>1, <1>2, RoomFrame DEF FootprintInv
<1>4. ClaimsHeld'
  BY ClaimsFrame DEF FootprintInv
<1> QED
  BY <1>3, <1>4 DEF FootprintInv

\* Every step does.
LEMMA FootprintKept == TypeInv /\ CapacityInv /\ PairingInv /\ FootprintInv /\ [Next]_vars => FootprintInv'
<1> SUFFICES ASSUME TypeInv, CapacityInv, PairingInv, FootprintInv, [Next]_vars PROVE FootprintInv'
  OBVIOUS
<1>0. /\ pc \in [Procs -> Labels] /\ target \in [Procs -> Ids \cup {NoId}] /\ Uploaders \subseteq Procs
      /\ file \in [Ids -> {"none", "regular", "directory"}] /\ faults \in Nat
  BY Names, Domains
<1>1. ASSUME NEW u \in Uploaders, Upload(u) PROVE FootprintInv'
  BY <1>1, UploadLeavesRoom
<1>2. ASSUME NEW c \in Clients, Request(c) PROVE FootprintInv'
  <2>1. \A u \in Uploaders : target'[u] = target[u] /\ pc'[u] = pc[u]
    BY <1>0, <1>2, Names, RequestTargets
  <2>2. UNCHANGED <<file, size, staging, res, got>> /\ faults' \in {faults, faults + 1}
    BY <1>2, RequestFootprint DEF disk
  <2> QED
    BY <2>1, <2>2, OtherLeavesRoom DEF Blobs
<1>3. ASSUME NEW p \in Procs, Passes(p) PROVE FootprintInv'
  <2>1. /\ UNCHANGED <<size, staging, res, got>> /\ Blobs' \subseteq Blobs
        /\ faults' \in {faults, faults + 1}
    BY <1>3, PassFootprint DEF uploads
  <2>2. CASE EndPass(p)
    <3>1. pc[p] \in Calls /\ pc' = [pc EXCEPT ![p] = Return(pc[p])]
      BY <2>2 DEF EndPass, Goto
    <3>2. \A u \in Uploaders : target'[u] \in {target[u], NoId}
      BY <1>0, <2>2 DEF EndPass
    <3>3. \A u \in Uploaders : /\ pc[u] \in Reserving => pc'[u] \in Reserving
                               /\ pc'[u] \in Claiming => pc[u] \in Claiming
      BY <1>0, <3>1, PassKeepsSets
    <3> QED
      BY <2>1, <3>2, <3>3, OtherLeavesRoom
  <2>3. CASE ~EndPass(p)
    BY <1>3, <2>1, <2>3, PassMoves, OtherLeavesRoom
  <2> QED
    BY <2>2, <2>3
<1>4. CASE Crash
  <2>1. /\ UNCHANGED <<file, size, staging, faults>>
        /\ \A u \in Uploaders : pc'[u] = "idle" /\ target'[u] = NoId /\ res'[u] = 0 /\ got'[u] = 0
    BY <1>0, <1>4, Names DEF Crash, disk
  <2>2. Holders' = {} /\ Blobs' = Blobs
    BY <2>1, Names, Domains, SidesOfLabels DEF Holders, Claimants, Blobs
  <2>3. Room'
    BY <1>0, <2>1, <2>2, RoomFrame DEF FootprintInv
  <2>4. ClaimsHeld'
    BY <2>1 DEF ClaimsHeld
  <2> QED
    BY <2>3, <2>4 DEF FootprintInv
<1>5. CASE ClearStaging \/ Midnight
  <2>1. \A u \in Uploaders : target'[u] = target[u] /\ pc'[u] = pc[u]
    BY <1>0, <1>5, Names DEF ClearStaging, Midnight, Goto
  <2>2. /\ UNCHANGED <<file, size, res, got>> /\ staging' \subseteq staging
        /\ faults' \in {faults, faults + 1}
    BY <1>5 DEF ClearStaging, Midnight, disk, uploads, Fails, Succeeds
  <2> QED
    BY <2>1, <2>2, OtherLeavesRoom DEF Blobs
<1>6. ASSUME NEW i \in Ids, Tamper(i) PROVE FootprintInv'
  <2>1. Blobs' \subseteq Blobs /\ UNCHANGED <<size, staging, res, got, pc, target, faults>>
    BY <1>0, <1>6 DEF Tamper, goroutines, uploads, Blobs
  <2> QED
    BY <2>1, OtherLeavesRoom
<1>7. CASE Tick \/ UNCHANGED vars
  <2>1. UNCHANGED <<file, size, staging, res, got, pc, target, faults>>
    BY <1>7 DEF Tick, vars, disk, goroutines, uploads
  <2> QED
    BY <2>1, OtherLeavesRoom DEF Blobs
<1> QED
  BY <1>1, <1>2, <1>3, <1>4, <1>5, <1>6, <1>7 DEF Next

\* While nothing has failed, blobs and staged payloads together fit the cap, on
\* disk and not only on the books (upload.go:162-170, 203-231).
THEOREM FootprintFits == Spec => []FootprintRespected
<1>1. Init => FootprintInv
  <2> SUFFICES ASSUME Init PROVE FootprintInv
    OBVIOUS
  <2>1. ClaimsHeld
    BY DEF Init, ClaimsHeld
  <2>2. Holders = {} /\ UsedBytes <= Cap
    BY Names, SetsAssumption, SidesOfLabels DEF Init, Holders, Claimants
  <2> QED
    BY <2>1, <2>2, TotalEmpty, SumsTyped, CapacityAssumption DEF FootprintInv, Room, ClaimsOf
<1>2. TypeInv /\ CapacityInv /\ PairingInv /\ FootprintInv /\ [Next]_vars => FootprintInv'
  BY FootprintKept
<1>3. TypeInv /\ FootprintInv => FootprintRespected
  <2> SUFFICES ASSUME TypeInv, FootprintInv, faults = 0
               PROVE  UsedBytes + Total({u \in Uploaders : target[u] \in staging}, got) <= Cap
    BY DEF FootprintRespected
  <2> DEFINE S == {u \in Uploaders : target[u] \in staging}
  <2>1. S \subseteq Holders
    BY DEF Holders
  <2>2. Total(S, got) <= Total(S, res)
    <3>1. /\ got \in [Uploaders -> 0..MaxUpload] /\ res \in [Uploaders -> 0..MaxUpload]
          /\ \A u \in S : got[u] <= res[u]
      BY DEF FootprintInv, ClaimsHeld, TypeInv, TypeOK
    <3>2. \A b \in S \X Units : b[2] <= got[b[1]] => b[2] <= res[b[1]]
      BY <3>1, CapacityAssumption DEF Units
    <3>3. {b \in S \X Units : b[2] <= got[b[1]]} \subseteq {b \in S \X Units : b[2] <= res[b[1]]}
      BY <3>2
    <3>4. IsFiniteSet(S)
      BY <2>1, HoldersFinite, FS_Subset
    <3> HIDE DEF S
    <3> QED
      BY <3>3, <3>4, TotalType, FS_Subset DEF Total
  <2>3. Total(S, res) <= Total(Holders, res) /\ Total(S, res) \in Nat /\ Total(S, got) \in Nat
    BY <2>1, HoldersFinite, FS_Subset, TotalMono, TotalType
  <2>4. UsedBytes + Total(Holders, res) <= Cap /\ Total(Holders, res) \in Nat
    BY HoldersFinite DEF FootprintInv, Room, ClaimsOf
  <2> HIDE DEF S
  <2>5. UsedBytes + Total(S, got) <= Cap
    BY <2>2, <2>3, <2>4, SumsTyped, CapacityAssumption
  <2> QED
    BY <2>5 DEF S
<1> QED
  BY <1>1, <1>2, <1>3, PairingInvariant, CapacityInvariant, PTL DEF Spec
=============================================================================
