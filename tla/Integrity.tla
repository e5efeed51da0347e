------------------------------ MODULE Integrity ------------------------------
(***************************************************************************)
(* internal/storage/integrity.go: the passes that keep blobs and rows     *)
(* paired.  Remove, Purge, PurgeUnprotected and Reconcile all run under   *)
(* Integrity.mu from start to end, so at most one of them is in progress; *)
(* its local variables are the record pass.  A goroutine calls a pass by  *)
(* reaching one of the labels below; the pass takes it to Return(label).  *)
(*                                                                        *)
(* The rows a pass works on are read in the step that takes the lock:     *)
(* rows change only under that lock.  Every file operation and every row  *)
(* deletion is a step of its own, so a crash can fall between any two.    *)
(***************************************************************************)
EXTENDS ShareData

CONSTANT MaxFaults   \* bound on the number of failing calls in a behaviour

VARIABLES
  pc,       \* where each goroutine is
  asof,     \* the instant a goroutine captured with time.Now()
  target,   \* the share a goroutine is working on
  pass,     \* locals of the pass in progress
  faults    \* how many calls have failed so far

goroutines == <<pc, asof, target>>

\* Labels at which a goroutine calls a pass, by the pass they call.
UnprotectedCalls == {"unprotected1", "unprotected2", "bootUnprotected", "dayUnprotected"}
ExpiredCalls     == {"expired1", "expired2", "bootExpired", "dayExpired"}
ReconcileCalls   == {"page", "deleteDone", "bootReconcile", "dayReconcile"}
RemoveCalls      == {"removeMissing", "removeSelected"}
Calls == UnprotectedCalls \cup ExpiredCalls \cup ReconcileCalls \cup RemoveCalls

\* Mutated forms: startup forgets to reconcile; the daily maintenance to purge.
AfterBootWithoutReconcile(l) ==
  CASE l = "bootUnprotected" -> "bootExpired"
    [] l = "bootReconcile"   -> "bootExpired"
    [] l = "bootExpired"     -> "sleep"
AfterDayWithoutPurge(l) ==
  CASE l = "dayUnprotected" -> "dayReconcile"
    [] l = "dayReconcile"   -> "sleep"
    [] l = "dayExpired"     -> "sleep"

\* The passes of startup and of the daily maintenance, in order.
AfterBoot(l) ==
  CASE l = "bootUnprotected" -> "bootReconcile"
    [] l = "bootReconcile"   -> "bootExpired"
    [] l = "bootExpired"     -> "sleep"
AfterDay(l) ==
  CASE l = "dayUnprotected" -> "dayReconcile"
    [] l = "dayReconcile"   -> "dayExpired"
    [] l = "dayExpired"     -> "sleep"

\* Where a pass leaves its caller.
Return(l) ==
  CASE l = "unprotected1"   -> "expired1"
    [] l = "expired1"       -> "reserve"
    [] l = "unprotected2"   -> "expired2"
    [] l = "expired2"       -> "lockStorage"
    [] l = "removeSelected" -> "delete"
    [] l \in {"bootUnprotected", "bootReconcile", "bootExpired"} -> AfterBoot(l)
    [] l \in {"dayUnprotected", "dayReconcile", "dayExpired"} -> AfterDay(l)
    [] OTHER                -> "idle"

Kinds == {"none", "unprotected", "expired", "reconcile", "remove"}

KindOf(l) ==
  CASE l \in UnprotectedCalls -> "unprotected"
    [] l \in ExpiredCalls     -> "expired"
    [] l \in ReconcileCalls   -> "reconcile"
    [] l \in RemoveCalls      -> "remove"
    [] OTHER                  -> "none"

\* todo    ids of rows, then in the walk of files, still to be looked at
\* known   Reconcile's set of registered paths
\* cur     the share whose row remove() is about to delete
\* walking Reconcile has entered the directory walk
\* clean   no call has failed since the pass began
Pass == [kind : Kinds, todo : SUBSET Ids, known : SUBSET Ids,
         cur : Ids \cup {NoId}, walking : BOOLEAN, clean : BOOLEAN]

NewPass(kind, todo, clean) ==
  [kind |-> kind, todo |-> todo, known |-> {}, cur |-> NoId,
   walking |-> FALSE, clean |-> clean]
NoPass == NewPass("none", {}, TRUE)

Goto(p, l) == pc' = [pc EXCEPT ![p] = l]

\* A call fails: allowed for the kinds in IOFaults, MaxFaults times.
Fails(call) == call \in IOFaults /\ faults < MaxFaults /\ faults' = faults + 1
Succeeds == UNCHANGED faults

-----------------------------------------------------------------------------

\* Mutated form of Listed: Purge takes every share that has an expiry.
ListedUnfiltered(p) ==
  CASE KindOf(pc[p]) = "unprotected" -> UnprotectedIds
    [] KindOf(pc[p]) = "expired"     -> {r.id : r \in {q \in rows : q.exp # NoExpiry}}
    [] KindOf(pc[p]) = "reconcile"   -> Registered
    [] KindOf(pc[p]) = "remove"      -> {target[p]}

\* The ids the pass p calls starts from.
Listed(p) ==
  CASE KindOf(pc[p]) = "unprotected" -> UnprotectedIds
    [] KindOf(pc[p]) = "expired"     -> ExpiredIds(asof[p])
    [] KindOf(pc[p]) = "reconcile"   -> Registered
    [] KindOf(pc[p]) = "remove"      -> {target[p]}

\* Integrity.Lock and the query under it.  Store.query answers a database
\* error with no rows; Remove asks the database nothing.
StartPass(p) ==
  /\ pc[p] \in Calls
  /\ mu = NoOne
  /\ mu' = p
  /\ \/ pass' = NewPass(KindOf(pc[p]), Listed(p), TRUE) /\ Succeeds
     \/ /\ pc[p] \notin RemoveCalls
        /\ Fails("query")
        /\ pass' = NewPass(KindOf(pc[p]), {}, FALSE)
  /\ UNCHANGED <<disk, rows, now, capMu, reservations, goroutines>>

\* The pass p runs is about to look at row i.
Examines(p, i) ==
  /\ mu = p /\ pc[p] \in Calls
  /\ pass.cur = NoId /\ ~pass.walking
  /\ i \in pass.todo

Looked(i) == [pass EXCEPT !.todo = @ \ {i}]

\* remove(): the path is missing or not a regular file; the row goes next.
FindVacant(p, i) ==
  /\ Examines(p, i)
  /\ file[i] # "regular"
  /\ pass' = [Looked(i) EXCEPT !.cur = i]
  /\ Succeeds
  /\ UNCHANGED <<disk, rows, now, mu, capMu, reservations, goroutines>>

\* Mutated form of UnlinkBlob: the row is deleted before the blob.
UnlinkAfterRow(p, i) ==
  /\ Examines(p, i)
  /\ pass.kind # "reconcile"
  /\ file[i] = "regular"
  /\ rows' = RowsWithout(i)
  /\ pass' = Looked(i)
  /\ Succeeds
  /\ UNCHANGED <<disk, now, mu, capMu, reservations, goroutines>>

\* remove(): unlink the blob; the row goes next.
UnlinkBlob(p, i) ==
  /\ Examines(p, i)
  /\ pass.kind # "reconcile"
  /\ file[i] = "regular"
  /\ file' = [file EXCEPT ![i] = "none"]
  /\ pass' = [Looked(i) EXCEPT !.cur = i]
  /\ Succeeds
  /\ UNCHANGED <<size, staging, rows, now, mu, capMu, reservations, goroutines>>

\* Mutated form of KeepKnown: anything at the path will do.
KeepAnything(p, i) ==
  /\ Examines(p, i)
  /\ pass.kind = "reconcile"
  /\ file[i] # "none"
  /\ pass' = [Looked(i) EXCEPT !.known = @ \cup {i}]
  /\ Succeeds
  /\ UNCHANGED <<disk, rows, now, mu, capMu, reservations, goroutines>>

\* Reconcile: a row whose blob is there is known to the walk.
KeepKnown(p, i) ==
  /\ Examines(p, i)
  /\ pass.kind = "reconcile"
  /\ file[i] = "regular"
  /\ pass' = [Looked(i) EXCEPT !.known = @ \cup {i}]
  /\ Succeeds
  /\ UNCHANGED <<disk, rows, now, mu, capMu, reservations, goroutines>>

\* Lstat or os.Remove fails: the row and the file are left as they are.
\* Reconcile passes over the row without making its path known.
SkipFailing(p, i) ==
  /\ Examines(p, i)
  /\ \/ Fails("lstat")
     \/ pass.kind # "reconcile" /\ file[i] = "regular" /\ Fails("unlink")
  /\ pass' = [Looked(i) EXCEPT !.clean = FALSE]
  /\ UNCHANGED <<disk, rows, now, mu, capMu, reservations, goroutines>>

\* remove(): Store.Delete, the last thing done for a share.
DeleteRow(p) ==
  /\ mu = p /\ pc[p] \in Calls
  /\ pass.cur # NoId
  /\ \/ /\ rows' = RowsWithout(pass.cur)
        /\ pass' = [pass EXCEPT !.cur = NoId]
        /\ Succeeds
     \/ /\ Fails("delete")
        /\ pass' = [pass EXCEPT !.cur = NoId, !.clean = FALSE]
        /\ UNCHANGED rows
  /\ UNCHANGED <<disk, now, mu, capMu, reservations, goroutines>>

\* Reconcile enters the walk: the directory is listed once, .staging and
\* directories are passed over.  When it cannot be opened nothing is walked.
StartWalk(p) ==
  /\ mu = p /\ pc[p] \in Calls
  /\ pass.kind = "reconcile" /\ ~pass.walking
  /\ pass.todo = {} /\ pass.cur = NoId
  /\ \/ /\ pass' = [pass EXCEPT !.walking = TRUE, !.todo = Blobs \ pass.known]
        /\ Succeeds
     \/ /\ Fails("opendir")
        /\ pass' = [pass EXCEPT !.walking = TRUE, !.clean = FALSE]
  /\ UNCHANGED <<disk, rows, now, mu, capMu, reservations, goroutines>>

\* Reconcile removes one file that no row accounted for.
RemoveOrphan(p, i) ==
  /\ mu = p /\ pc[p] \in Calls
  /\ pass.walking /\ i \in pass.todo
  /\ \/ /\ file' = [file EXCEPT ![i] = "none"]
        /\ pass' = Looked(i)
        /\ Succeeds
     \/ /\ Fails("unlink")
        /\ pass' = [Looked(i) EXCEPT !.clean = FALSE]
        /\ UNCHANGED file
  /\ UNCHANGED <<size, staging, rows, now, mu, capMu, reservations, goroutines>>

\* Mutated form of EndPass: one way out forgets the lock.
EndPassLocked(p) ==
  LET next == Return(pc[p]) IN
  /\ mu = p /\ pc[p] \in Calls /\ pass.kind = KindOf(pc[p])
  /\ pass.todo = {} /\ pass.cur = NoId
  /\ pass.kind = "reconcile" => pass.walking
  /\ mu' = (IF pass.clean THEN NoOne ELSE mu) /\ pass' = NoPass
  /\ Goto(p, next)
  /\ asof' = [asof EXCEPT ![p] = IF next \in ExpiredCalls THEN now ELSE 0]
  /\ target' = [target EXCEPT ![p] = IF next \in {"idle", "delete"} THEN NoId ELSE @]
  /\ UNCHANGED <<disk, rows, now, capMu, reservations, faults>>

\* The pass has nothing left to look at: unlock and return to the caller.
\* Purge's argument is time.Now(), evaluated when it is called.
EndPass(p) ==
  LET next == Return(pc[p]) IN
  /\ mu = p /\ pc[p] \in Calls /\ pass.kind = KindOf(pc[p])
  /\ pass.todo = {} /\ pass.cur = NoId
  /\ pass.kind = "reconcile" => pass.walking
  /\ mu' = NoOne /\ pass' = NoPass
  /\ Goto(p, next)
  /\ asof' = [asof EXCEPT ![p] = IF next \in ExpiredCalls THEN now ELSE 0]
  /\ target' = [target EXCEPT ![p] = IF next \in {"idle", "delete"} THEN NoId ELSE @]
  /\ UNCHANGED <<disk, rows, now, capMu, reservations, faults>>

\* Every step of p inside a pass it called.
PassStep(p) ==
  \/ \E i \in Ids : \/ FindVacant(p, i) \/ UnlinkBlob(p, i) \/ KeepKnown(p, i)
                    \/ SkipFailing(p, i) \/ RemoveOrphan(p, i)
  \/ DeleteRow(p) \/ StartWalk(p) \/ EndPass(p)
=============================================================================
