----------------------------- MODULE ShareServer -----------------------------
(***************************************************************************)
(* The share server's storage as a whole: uploads and integrity passes    *)
(* composed with the requests that read or delete shares                  *)
(* (internal/http), the startup and daily maintenance of StartCleanup,    *)
(* the death and restart of the process, and a data directory that is     *)
(* edited from outside.                                                   *)
(***************************************************************************)
EXTENDS Upload

CONSTANTS
  MaxTime,      \* bound on the clock
  MaxCrashes,   \* bound on the number of times the process dies
  MaxTampers    \* bound on the number of blobs edited from outside

VARIABLES
  chosen,     \* ids of a bulk delete still to be handled
  rowExp,     \* expires_at in the copy of a row a download holds
  selected,   \* history: ids an admin has chosen for deletion
  tampered,   \* history: ids whose blob was edited from outside
  crashes     \* history: how often the process has died

requests == <<chosen, rowExp>>
history  == <<selected, tampered, crashes>>
vars == <<disk, rows, now, mu, capMu, reservations, goroutines, pass, faults,
          uploads, requests, history>>

BootLabels == {"bootClear", "bootUnprotected", "bootReconcile", "bootExpired"}

\* main listens only after StartCleanup has returned.
Serving == pc[Cleaner] \notin BootLabels

-----------------------------------------------------------------------------
(* Requests                                                                *)

\* A page or list that shows shares: home, archive, upload list, API page,
\* private lookup, admin dashboard and admin share list reconcile first.
OpenPage(c) ==
  /\ pc[c] = "idle"
  /\ Goto(c, "page")
  /\ UNCHANGED <<disk, rows, now, mu, capMu, reservations, asof, target, pass, faults,
                 uploads, requests, history>>

\* A download or share page for one id; withClock fixes the request's instant.
OpenShare(c, i) ==
  /\ pc[c] = "idle"
  /\ target' = [target EXCEPT ![c] = i]
  /\ asof' = [asof EXCEPT ![c] = now]
  /\ Goto(c, "get")
  /\ UNCHANGED <<disk, rows, now, mu, capMu, reservations, pass, faults,
                 uploads, requests, history>>

\* The request lets go of the share it looked at.
Forget(c) ==
  /\ target' = [target EXCEPT ![c] = NoId]
  /\ asof' = [asof EXCEPT ![c] = 0]
  /\ rowExp' = [rowExp EXCEPT ![c] = 0]

Answered(c) == Goto(c, "idle") /\ Forget(c)

\* getShare reads the row without a lock and keeps the copy.  A failing query
\* is "not found" as well.
GetRow(c) ==
  /\ pc[c] = "get"
  /\ \/ /\ target[c] \notin Registered
        /\ Answered(c)
        /\ Succeeds
     \/ /\ \E r \in rows : r.id = target[c] /\ rowExp' = [rowExp EXCEPT ![c] = r.exp]
        /\ Goto(c, "lstat")
        /\ Succeeds /\ UNCHANGED <<target, asof>>
     \/ Fails("query") /\ Answered(c)
  /\ UNCHANGED <<disk, rows, now, mu, capMu, reservations, pass, uploads, chosen, history>>

\* getShare then looks at the path in that copy.  A vacant path makes it call
\* Remove; an unreadable one makes it answer "not found".
LookAtBlob(c) ==
  /\ pc[c] = "lstat"
  /\ \/ /\ file[target[c]] = "regular"
        /\ Goto(c, "serve")
        /\ Succeeds /\ UNCHANGED <<target, asof, rowExp>>
     \/ /\ file[target[c]] # "regular"
        /\ Goto(c, "removeMissing")
        /\ rowExp' = [rowExp EXCEPT ![c] = 0]
        /\ Succeeds /\ UNCHANGED <<target, asof>>
     \/ Fails("lstat") /\ Answered(c)
  /\ UNCHANGED <<disk, rows, now, mu, capMu, reservations, pass, uploads, chosen, history>>

\* The download serves the file unless the share was expired at the request's
\* instant (410) or the file has gone since it was looked at (404).
Serves(c) == /\ pc[c] = "serve"
             /\ ~Expired(rowExp[c], asof[c])
             /\ file[target[c]] = "regular"

Serve(c) ==
  /\ pc[c] = "serve"
  /\ Answered(c)
  /\ UNCHANGED <<disk, rows, now, mu, capMu, reservations, pass, faults,
                 uploads, chosen, history>>

\* The share page goes on to list the archive beside it.
ShowSharePage(c) ==
  /\ pc[c] = "serve"
  /\ Goto(c, "page") /\ Forget(c)
  /\ UNCHANGED <<disk, rows, now, mu, capMu, reservations, pass, faults,
                 uploads, chosen, history>>

\* adminBulkDelete: the selected ids, duplicates dropped.
SelectShares(c) ==
  /\ pc[c] = "idle"
  /\ \E ids \in SUBSET issued :
       /\ ids # {}
       /\ chosen' = [chosen EXCEPT ![c] = ids]
       /\ selected' = selected \cup ids
  /\ Goto(c, "delete")
  /\ UNCHANGED <<disk, rows, now, mu, capMu, reservations, asof, target, pass, faults,
                 uploads, rowExp, tampered, crashes>>

\* One id of the selection: skipped when no row is found, else removed.
DeleteNext(c, i) ==
  /\ pc[c] = "delete"
  /\ i \in chosen[c]
  /\ chosen' = [chosen EXCEPT ![c] = @ \ {i}]
  /\ \/ i \notin Registered /\ Succeeds /\ UNCHANGED <<pc, target>>
     \/ Fails("query") /\ UNCHANGED <<pc, target>>
     \/ /\ i \in Registered
        /\ target' = [target EXCEPT ![c] = i]
        /\ Goto(c, "removeSelected")
        /\ Succeeds
  /\ UNCHANGED <<disk, rows, now, mu, capMu, reservations, asof, pass,
                 uploads, rowExp, history>>

DeleteDone(c) ==
  /\ pc[c] = "delete"
  /\ chosen[c] = {}
  /\ Goto(c, "deleteDone")
  /\ UNCHANGED <<disk, rows, now, mu, capMu, reservations, asof, target, pass, faults,
                 uploads, requests, history>>

RequestRuns(c) ==
  \/ GetRow(c) \/ LookAtBlob(c) \/ Serve(c) \/ ShowSharePage(c)
  \/ \E i \in Ids : DeleteNext(c, i)
  \/ DeleteDone(c)

RequestArrives(c) == OpenPage(c) \/ SelectShares(c) \/ \E i \in issued : OpenShare(c, i)

-----------------------------------------------------------------------------
(* Startup, maintenance, crashes, and the world outside                    *)

\* Mutated form of ClearStaging: startup leaves .staging alone.
KeepStaging ==
  /\ pc[Cleaner] = "bootClear"
  /\ Goto(Cleaner, "bootUnprotected")
  /\ UNCHANGED <<disk, rows, now, mu, capMu, reservations, asof, target, pass, faults,
                 uploads, requests, history>>

\* StartCleanup: staged fragments of an earlier process go first; a failure
\* is logged and startup continues.
ClearStaging ==
  /\ pc[Cleaner] = "bootClear"
  /\ \/ staging' = {} /\ Succeeds
     \/ Fails("clear") /\ UNCHANGED staging
  /\ Goto(Cleaner, "bootUnprotected")
  /\ UNCHANGED <<file, size, rows, now, mu, capMu, reservations, asof, target, pass,
                 uploads, requests, history>>

\* The maintenance goroutine wakes at midnight.
Midnight ==
  /\ pc[Cleaner] = "sleep"
  /\ Goto(Cleaner, "dayUnprotected")
  /\ UNCHANGED <<disk, rows, now, mu, capMu, reservations, asof, target, pass, faults,
                 uploads, requests, history>>

\* The process dies and is started again: everything but the data directory
\* and the database is lost.
Crash ==
  /\ crashes < MaxCrashes
  /\ crashes' = crashes + 1
  /\ pc' = [p \in Procs |-> IF p = Cleaner THEN "bootClear" ELSE "idle"]
  /\ asof' = [p \in Procs |-> 0]
  /\ target' = [p \in Procs |-> NoId]
  /\ mu' = NoOne /\ capMu' = NoOne /\ pass' = NoPass
  /\ reservations' = 0 /\ snap' = {}
  /\ res' = [u \in Uploaders |-> 0]
  /\ got' = [u \in Uploaders |-> 0]
  /\ exp' = [u \in Uploaders |-> 0]
  /\ answer' = [u \in Uploaders |-> "none"]
  /\ chosen' = [c \in Clients |-> {}]
  /\ rowExp' = [c \in Clients |-> 0]
  /\ UNCHANGED <<disk, rows, now, faults, issued, missed, selected, tampered>>

Tick ==
  /\ now < MaxTime
  /\ now' = now + 1
  /\ UNCHANGED <<disk, rows, mu, capMu, reservations, goroutines, pass, faults,
                 uploads, requests, history>>

\* Somebody deletes a blob, or puts a directory in its place.
Tamper(i) ==
  /\ file[i] = "regular"
  /\ Cardinality(tampered) < MaxTampers
  /\ tampered' = tampered \cup {i}
  /\ \E kind \in {"none", "directory"} : file' = [file EXCEPT ![i] = kind]
  /\ pass' = [pass EXCEPT !.clean = (@ /\ pass.kind = "none")]
  /\ UNCHANGED <<size, staging, rows, now, mu, capMu, reservations, goroutines, faults,
                 uploads, requests, selected, crashes>>

-----------------------------------------------------------------------------

\* The rows a data directory may hold at the first start: none or one for an
\* id, from any release, expired or not.
LegacyRows ==
  {t \in SUBSET [id : Legacy, exp : {NoExpiry} \cup Lifetimes, protected : BOOLEAN] :
     \A q, r \in t : q.id = r.id => q = r}

\* The first start, over whatever an earlier process left behind.
Init ==
  /\ file \in {f \in [Ids -> {"none", "regular"}] : \A i \in Ids \ Legacy : f[i] = "none"}
  /\ size = [i \in Ids |-> IF i \in Legacy THEN 1 ELSE 0]
  /\ UsedBytes <= Cap
  /\ staging \in SUBSET Legacy
  /\ rows \in LegacyRows
  /\ now = 1
  /\ mu = NoOne /\ capMu = NoOne /\ pass = NoPass
  /\ reservations = 0 /\ snap = {}
  /\ pc = [p \in Procs |-> IF p = Cleaner THEN "bootClear" ELSE "idle"]
  /\ asof = [p \in Procs |-> 0]
  /\ target = [p \in Procs |-> NoId]
  /\ faults = 0
  /\ res = [u \in Uploaders |-> 0]
  /\ got = [u \in Uploaders |-> 0]
  /\ exp = [u \in Uploaders |-> 0]
  /\ answer = [u \in Uploaders |-> "none"]
  /\ issued = Legacy /\ missed = 0
  /\ chosen = [c \in Clients |-> {}]
  /\ rowExp = [c \in Clients |-> 0]
  /\ selected = {} /\ tampered = {} /\ crashes = 0

\* Requests reach the server while it listens.
Upload(u) == Serving /\ UploadStep(u) /\ UNCHANGED <<requests, history>>
Request(c) == Serving /\ (RequestArrives(c) \/ RequestRuns(c))
Passes(p) == (StartPass(p) \/ PassStep(p)) /\ UNCHANGED <<uploads, requests, history>>

Next ==
  \/ \E u \in Uploaders : Upload(u)
  \/ \E c \in Clients : Request(c)
  \/ \E p \in Procs : Passes(p)
  \/ ClearStaging \/ Midnight \/ Crash \/ Tick
  \/ \E i \in Ids : Tamper(i)

Spec == Init /\ [][Next]_vars

\* What each goroutine does by itself, once it has been called.
UploaderRuns(u) == (Serving /\ UploadRuns(u) /\ UNCHANGED <<requests, history>>) \/ Passes(u)
ClientRuns(c)   == (Serving /\ RequestRuns(c)) \/ Passes(c)
CleanerRuns     == ClearStaging \/ Midnight \/ Passes(Cleaner)

\* A goroutine that keeps asking for a mutex gets it: a waiter that has starved
\* for a millisecond is handed the lock in arrival order (Go's sync.Mutex).  So
\* every goroutine runs under strong fairness.  Nothing makes a client send its
\* body, and nothing makes a request arrive.
Fairness ==
  /\ \A u \in Uploaders : SF_vars(UploaderRuns(u))
  /\ \A c \in Clients : SF_vars(ClientRuns(c))
  /\ SF_vars(CleanerRuns)

FairSpec == Spec /\ Fairness

-----------------------------------------------------------------------------
(* Properties                                                              *)

Labels == BeforeUUID \cup Claiming \cup HoldsCapacity \cup Calls \cup BootLabels
            \cup {"idle", "unstage", "release", "sleep", "get", "lstat", "serve", "delete"}

\* Every variable stays in its domain: sizes and claims fit the upload limit,
\* the reservation total is never negative, pass records are well formed.
TypeOK ==
  /\ file \in [Ids -> {"none", "regular", "directory"}]
  /\ size \in [Ids -> Nat]
  /\ staging \in SUBSET Ids
  /\ rows \in SUBSET Row
  /\ now \in Nat
  /\ mu \in Procs \cup {NoOne} /\ capMu \in Uploaders \cup {NoOne}
  /\ reservations \in Nat
  /\ pc \in [Procs -> Labels]
  /\ asof \in [Procs -> Nat]
  /\ target \in [Procs -> Ids \cup {NoId}]
  /\ pass \in Pass
  /\ faults \in Nat
  /\ res \in [Uploaders -> 0..MaxUpload]
  /\ got \in [Uploaders -> 0..MaxUpload]
  /\ exp \in [Uploaders -> Nat]
  /\ answer \in [Uploaders -> Errors \cup {"none", "created"}]
  /\ snap \in SUBSET Ids /\ issued \in SUBSET Ids /\ missed \in Nat
  /\ chosen \in [Clients -> SUBSET Ids]
  /\ rowExp \in [Clients -> Nat]
  /\ selected \in SUBSET Ids /\ tampered \in SUBSET Ids /\ crashes \in Nat

\* The storage cap: what is stored and what uploads under way still hold a
\* claim to do not exceed STORAGE_CAP_BYTES together, whatever passes, crashes
\* and failures do between the first check and the last (upload.go:203-209,
\* 234-246).  The exception is a walk of UsedBytes that fails: the error is
\* dropped (blobstore.go:82-88) and too little is counted.  Each such walk lets
\* at most one upload past the cap.
CapacityRespected == UsedBytes + ClaimsOf(Claimants) <= Cap + missed * MaxUpload

\* No claim is lost and none is left behind: the shared total is the sum of
\* what the uploaders hold, so capacity is not leaked by any way out of Do.
ReservationsExact == reservations = ClaimsOf(Reservers)

\* Completely staged payloads are covered by claims until they are gone:
\* blobs and staged payloads together fit the cap while nothing has failed.
FootprintRespected ==
  faults = 0 => UsedBytes + Total({u \in Uploaders : target[u] \in staging}, got) <= Cap

\* One blob for one row: whenever nobody is in the middle of a change, the
\* stored blobs are exactly those of the table, also after any number of
\* crashes, as long as no call failed and nobody edited the directory.
PairedAtRest ==
  Serving /\ mu = NoOne /\ faults = 0 /\ tampered = {} => Blobs = Registered

\* Whatever went wrong before, a Reconcile in which nothing fails ends with
\* blobs and rows paired: it repairs crashes, failed rollbacks and edits.
ReconcileRepairs ==
  pass.kind = "reconcile" /\ pass.walking /\ pass.todo = {} /\ pass.clean => Blobs = Registered

\* A share is stored when both its row and its blob are there.
Stored == Blobs \cap Registered

\* Shares the server may drop: expired, unprotected, chosen by an admin, or
\* edited from outside.
Retired == ExpiredIds(now) \cup UnprotectedIds \cup selected \cup tampered

\* No pass, rollback, stale reader or restart takes the blob or the row of a
\* share that is neither expired nor unprotected nor selected for deletion.
StoredSharesKept == [][Stored \ Stored' \subseteq Retired \cup tampered']_vars

\* Ids of uploads that have not published their share yet.
Drafts == {target[u] : u \in {v \in Uploaders : pc[v] \in Claiming \cup {"insert"}}}

\* The server implements the life of a share as ShareLifecycle tells it: a share
\* appears whole when its row is inserted, is dropped for a reason only, and its
\* id is never live again; the live shares fit the cap, miscounts excepted.
Lifecycle == INSTANCE ShareLifecycle WITH
  live    <- Stored,
  payload <- [i \in Ids |-> IF i \in Stored THEN size[i] ELSE 0],
  spent   <- issued \ Drafts,
  doomed  <- Stored \cap Retired,
  lost    <- tampered,
  missed  <- missed

ImplementsLifecycle == Lifecycle!Spec

\* The blob goes before the row: a download never serves a share whose row is
\* gone, so a removed share is not readable through a stale copy of its row.
ServedSharesRegistered == \A c \in Clients : Serves(c) => target[c] \in Registered

\* "On any error no share row is left behind; a blob written before a late
\* failure is removed" (upload.go:87-88), nor is its staged file kept.
FailedUploadsLeaveNothing ==
  \A u \in Uploaders :
    pc[u] = "idle" /\ answer[u] \in Errors =>
      /\ target[u] \notin Registered
      /\ "unlink" \notin IOFaults => target[u] \notin Blobs \cup staging

\* Every staged file belongs to an upload under way: nothing a dead process
\* was streaming survives the next start.
StagingOwned ==
  Serving /\ faults = 0 =>
    staging \subseteq {target[u] : u \in {v \in Uploaders : pc[v] # "idle"}}

\* Reconcile removes "blob files with no row" (cleanup.go:49-51): a blob whose
\* row is in the table is never taken for an orphan.
OrphansHaveNoRow == [][pass.walking => (Blobs \ Blobs') \cap Registered \subseteq tampered']_vars

\* Once its body has ended, an upload is answered, however slow other clients
\* are: locks are handed on and released on every path.
UploadsAnswered ==
  \A u \in Uploaders : pc[u] \in {"lockCapacity", "unstage", "release"} ~> pc[u] = "idle"

\* An expired share leaves the table in the end, without any request.
ExpiredSharesRemoved == \A i \in Ids : i \in ExpiredIds(now) ~> i \notin Registered

\* A start, whatever it finds on disk, ends with the server listening.
StartupCompletes == ~Serving ~> Serving
=============================================================================
