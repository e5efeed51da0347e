-------------------------------- MODULE Upload --------------------------------
(***************************************************************************)
(* internal/upload/upload.go: Uploader.Do from the moment a request has   *)
(* passed validation (lines 149-231), with storage.Stage and              *)
(* storage.Commit.  An uploader claims capacity, hashes, streams the body *)
(* into .staging without holding a lock, and publishes the share under    *)
(* capMu and Integrity.mu.                                                *)
(*                                                                        *)
(* Deferred calls run last-in first-out: Integrity.mu and capMu are       *)
(* released, then the staged file is removed, then the claim is given     *)
(* back, each a step of its own.                                          *)
(***************************************************************************)
EXTENDS Integrity

VARIABLES
  res,      \* the claim an uploader holds in reservations
  got,      \* size of the payload it staged
  exp,      \* the expiry it computed when the request came in
  answer,   \* what Do returned
  snap,     \* files UsedBytes listed in reserveCapacity
  issued,   \* ids drawn so far: a UUID is never drawn twice
  missed    \* history: how many walks of UsedBytes have failed

uploads == <<res, got, exp, answer, snap, issued, missed>>

\* ErrBody stands for what an unusable body is answered with: ErrInvalidBody,
\* ErrStore, ErrTooLarge, or ErrCap when the claim is what it did not fit.
Errors == {"ErrCap", "ErrStore", "ErrBody", "ErrEncryptionRequired"}

\* Labels before storage.UUID(), and labels while Integrity.mu is held.
BeforeUUID == {"unprotected1", "expired1", "reserve", "reserving", "hash", "hashing", "stage"}
Publishing == {"check", "insert", "unlock"}

\* Labels at which capMu is held, and at which an uncommitted claim counts.
HoldsCapacity == {"reserving", "unprotected2", "expired2", "lockStorage"} \cup Publishing
Claiming == {"hash", "hashing", "stage", "staging", "lockCapacity", "unprotected2",
             "expired2", "lockStorage", "check"}

\* Labels between reserveCapacity and releaseCapacity.
Reserving == Claiming \cup {"insert", "unlock", "unstage", "release"}

ClaimsOf(S) == Total(S, res)
Reservers == {u \in Uploaders : pc[u] \in Reserving}
Claimants == {u \in Uploaders : pc[u] \in Claiming}

Finish(u, a, l) == answer' = [answer EXCEPT ![u] = a] /\ Goto(u, l)

-----------------------------------------------------------------------------

\* A validated request: expires_at is fixed before anything is read.  The
\* guard on Ids keeps an id in stock for every upload under way.
BeginUpload(u) ==
  /\ pc[u] = "idle"
  /\ Cardinality(Ids \ issued) > Cardinality({v \in Uploaders : pc[v] \in BeforeUUID})
  /\ \E life \in Lifetimes : exp' = [exp EXCEPT ![u] = now + life]
  /\ target' = [target EXCEPT ![u] = NoId]
  /\ Finish(u, "none", "unprotected1")
  /\ UNCHANGED <<disk, rows, now, mu, capMu, reservations, asof, pass, faults,
                 res, got, snap, issued, missed>>

\* reserveCapacity locks capMu and lists the blob directory.
ListForReserve(u) ==
  /\ pc[u] = "reserve"
  /\ capMu = NoOne /\ capMu' = u
  /\ snap' = Blobs
  /\ Goto(u, "reserving")
  /\ UNCHANGED <<disk, rows, now, mu, reservations, asof, target, pass, faults,
                 res, got, exp, answer, issued, missed>>

\* Mutated forms of Available and ClaimFor: other claims are forgotten; the
\* upload limit is.
AvailableBesideBlobs(S) == Cap - UsedBy(S)
UnlimitedClaim(available) == available

\* What is left when the blobs in S are counted, and the claim made on it.
Available(S) == Cap - UsedBy(S) - reservations
ClaimFor(available) == IF MaxUpload < available THEN MaxUpload ELSE available

\* UsedBytes drops every error of its walk: a directory it cannot read, or a
\* file it cannot look at, counts as nothing, and the caller does not learn it.
WalkFails == (\E call \in {"opendir", "lstat"} : Fails(call)) /\ missed' = missed + 1
WalkSucceeds == Succeeds /\ UNCHANGED missed

\* A pass may unlink files while UsedBytes walks, for the walk holds only
\* capMu: a file that was listed counts if it was still there when it was
\* looked at.  S is the set that was; a walk that fails counts any part.
Reserve(u) ==
  /\ pc[u] = "reserving"
  /\ capMu' = NoOne /\ snap' = {}
  /\ \E S \in SUBSET snap :
       /\ (Blobs \cap snap \subseteq S /\ WalkSucceeds) \/ WalkFails
       /\ \/ /\ Available(S) <= 0
             /\ Finish(u, "ErrCap", "idle")
             /\ UNCHANGED <<res, reservations>>
          \/ /\ Available(S) > 0
             /\ res' = [res EXCEPT ![u] = ClaimFor(Available(S))]
             /\ reservations' = reservations + ClaimFor(Available(S))
             /\ Goto(u, "hash")
             /\ UNCHANGED answer
  /\ UNCHANGED <<disk, rows, now, mu, asof, target, pass, got, exp, issued>>

\* hashMu admits one KDF at a time.
LockHash(u) ==
  /\ pc[u] = "hash"
  /\ \A v \in Uploaders : pc[v] # "hashing"
  /\ Goto(u, "hashing")
  /\ UNCHANGED <<disk, rows, now, mu, capMu, reservations, asof, target, pass, faults, uploads>>

Hash(u) ==
  /\ pc[u] = "hashing"
  /\ \/ Goto(u, "stage") /\ Succeeds /\ UNCHANGED answer
     \/ Fails("hash") /\ Finish(u, "ErrStore", "release")
  /\ UNCHANGED <<disk, rows, now, mu, capMu, reservations, asof, target, pass,
                 res, got, exp, snap, issued, missed>>

\* storage.UUID and the creation of the temporary file.
OpenStaging(u) ==
  /\ pc[u] = "stage"
  /\ \E i \in Ids \ issued :
       /\ issued' = issued \cup {i}
       /\ target' = [target EXCEPT ![u] = i]
       /\ \/ staging' = staging \cup {i} /\ Goto(u, "staging") /\ Succeeds /\ UNCHANGED answer
          \/ Fails("create") /\ Finish(u, "ErrStore", "release") /\ UNCHANGED staging
  /\ UNCHANGED <<file, size, rows, now, mu, capMu, reservations, asof, pass,
                 res, got, exp, snap, missed>>

\* Mutated form of StageBody: the body is limited by MAX_UPLOAD_BYTES only.
StageUpToMaximum(u) ==
  /\ pc[u] = "staging"
  /\ \E n \in MinBlob..MaxUpload : got' = [got EXCEPT ![u] = n]
  /\ Goto(u, "lockCapacity")
  /\ UNCHANGED <<disk, rows, now, mu, capMu, reservations, asof, target, pass, faults,
                 res, exp, answer, snap, issued, missed>>

\* The whole body arrived and fits the claim.
StageBody(u) ==
  /\ pc[u] = "staging"
  /\ \E n \in 0..res[u] :
       /\ got' = [got EXCEPT ![u] = n]
       /\ \/ n >= MinBlob /\ Goto(u, "lockCapacity") /\ UNCHANGED answer
          \/ n < MinBlob /\ Finish(u, "ErrEncryptionRequired", "unstage")
  /\ UNCHANGED <<disk, rows, now, mu, capMu, reservations, asof, target, pass, faults,
                 res, exp, snap, issued, missed>>

\* Mutated form of RefuseBody: an early return keeps the claim.
RefuseAndKeepClaim(u) ==
  /\ pc[u] = "staging"
  /\ Finish(u, "ErrBody", "idle")
  /\ staging' = staging \ {target[u]}
  /\ UNCHANGED <<file, size, rows, now, mu, capMu, reservations, asof, target, pass, faults,
                 res, got, exp, snap, issued, missed>>

\* The body is malformed, breaks off, or exceeds the claim.  Stage removes its
\* temporary file itself, unless that fails too.
RefuseBody(u) ==
  /\ pc[u] = "staging"
  /\ Finish(u, "ErrBody", "release")
  /\ \/ staging' = staging \ {target[u]} /\ Succeeds
     \/ Fails("unlink") /\ UNCHANGED staging
  /\ UNCHANGED <<file, size, rows, now, mu, capMu, reservations, asof, target, pass,
                 res, got, exp, snap, issued, missed>>

\* capMu, then the two purges, then Integrity.mu.
LockCapacity(u) ==
  /\ pc[u] = "lockCapacity"
  /\ capMu = NoOne /\ capMu' = u
  /\ Goto(u, "unprotected2")
  /\ UNCHANGED <<disk, rows, now, mu, reservations, asof, target, pass, faults, uploads>>

\* Mutated form of LockStorage: publishing without the integrity lock.
PublishUnlocked(u) ==
  /\ pc[u] = "lockStorage"
  /\ Goto(u, "check")
  /\ UNCHANGED <<disk, rows, now, mu, capMu, reservations, asof, target, pass, faults, uploads>>

LockStorage(u) ==
  /\ pc[u] = "lockStorage"
  /\ mu = NoOne /\ mu' = u
  /\ Goto(u, "check")
  /\ UNCHANGED <<disk, rows, now, capMu, reservations, asof, target, pass, faults, uploads>>

\* The final check, when UsedBytes counts the blobs in S: other uploads' claims
\* are the total less this one's.  Nothing is removed meanwhile, for the walk
\* holds Integrity.mu here.
Admits(u, S) == UsedBy(S) + got[u] + (reservations - res[u]) <= Cap

\* Counting too little never refuses what counting everything admits.
RejectOverCap(u) ==
  /\ pc[u] = "check"
  /\ ~Admits(u, Blobs)
  /\ Finish(u, "ErrCap", "unlock")
  /\ UNCHANGED <<disk, rows, now, mu, capMu, reservations, asof, target, pass, faults,
                 res, got, exp, snap, issued, missed>>

\* The staged file at its final path.
Publish(u) ==
  /\ file' = [file EXCEPT ![target[u]] = "regular"]
  /\ size' = [size EXCEPT ![target[u]] = got[u]]
  /\ staging' = staging \ {target[u]}
  /\ Goto(u, "insert")
  /\ UNCHANGED answer

RenameFails(u) == Finish(u, "ErrStore", "unlock") /\ UNCHANGED disk

\* storage.Commit renames the staged file to its final path.
Commit(u) ==
  /\ pc[u] = "check"
  /\ \/ Admits(u, Blobs) /\ Publish(u) /\ WalkSucceeds
     \/ Admits(u, Blobs) /\ RenameFails(u) /\ Fails("rename") /\ UNCHANGED missed
     \/ /\ \E S \in SUBSET Blobs : Admits(u, S)
        /\ WalkFails
        /\ Publish(u) \/ ("rename" \in IOFaults /\ RenameFails(u))
  /\ UNCHANGED <<rows, now, mu, capMu, reservations, asof, target, pass,
                 res, got, exp, snap, issued>>

\* Store.Insert: the share exists from here on.
InsertRow(u) ==
  /\ pc[u] = "insert"
  /\ rows' = rows \cup {[id |-> target[u], exp |-> exp[u], protected |-> TRUE]}
  /\ Finish(u, "created", "unlock")
  /\ UNCHANGED <<disk, now, mu, capMu, reservations, asof, target, pass, faults,
                 res, got, exp, snap, issued, missed>>

\* Mutated form of RollBack: the committed blob is forgotten.
RollBackNothing(u) ==
  /\ pc[u] = "insert"
  /\ Fails("insert")
  /\ Finish(u, "ErrStore", "unlock")
  /\ UNCHANGED <<disk, rows, now, mu, capMu, reservations, asof, target, pass,
                 res, got, exp, snap, issued, missed>>

\* Store.Insert fails: the blob is removed, as far as that succeeds.
RollBack(u) ==
  /\ pc[u] = "insert"
  /\ Fails("insert")
  /\ \/ file' = [file EXCEPT ![target[u]] = "none"]
     \/ "unlink" \in IOFaults /\ UNCHANGED file
  /\ Finish(u, "ErrStore", "unlock")
  /\ UNCHANGED <<size, staging, rows, now, mu, capMu, reservations, asof, target, pass,
                 res, got, exp, snap, issued, missed>>

\* Mutated form of Unlock: capMu stays locked.
UnlockStorageOnly(u) ==
  /\ pc[u] = "unlock"
  /\ mu' = NoOne
  /\ Goto(u, "unstage")
  /\ UNCHANGED <<disk, rows, now, capMu, reservations, asof, target, pass, faults, uploads>>

\* The deferred unlocks, Integrity.mu before capMu.
Unlock(u) ==
  /\ pc[u] = "unlock"
  /\ mu' = NoOne /\ capMu' = NoOne
  /\ Goto(u, "unstage")
  /\ UNCHANGED <<disk, rows, now, reservations, asof, target, pass, faults, uploads>>

\* The deferred RemoveBlobBestEffort(stagedPath).
Unstage(u) ==
  /\ pc[u] = "unstage"
  /\ \/ staging' = staging \ {target[u]} /\ Succeeds
     \/ target[u] \in staging /\ Fails("unlink") /\ UNCHANGED staging
  /\ Goto(u, "release")
  /\ UNCHANGED <<file, size, rows, now, mu, capMu, reservations, asof, target, pass, uploads>>

\* releaseCapacity, deferred first and so run last, under capMu again.  The
\* map entry is deleted, and reads as zero, when nothing is left.
Release(u) ==
  /\ pc[u] = "release"
  /\ capMu = NoOne
  /\ reservations' = IF reservations <= res[u] THEN 0 ELSE reservations - res[u]
  /\ res' = [res EXCEPT ![u] = 0]
  /\ got' = [got EXCEPT ![u] = 0]
  /\ exp' = [exp EXCEPT ![u] = 0]
  /\ Goto(u, "idle")
  /\ UNCHANGED <<disk, rows, now, mu, capMu, asof, target, pass, faults, answer, snap, issued, missed>>

-----------------------------------------------------------------------------
(* The steps that wait for nobody but other goroutines of the server, and  *)
(* the two that wait for the client's body.                                *)

UploadRuns(u) ==
  \/ ListForReserve(u) \/ Reserve(u) \/ LockHash(u) \/ Hash(u) \/ OpenStaging(u)
  \/ LockCapacity(u) \/ LockStorage(u) \/ RejectOverCap(u) \/ Commit(u)
  \/ InsertRow(u) \/ RollBack(u) \/ Unlock(u) \/ Unstage(u) \/ Release(u)

BodyEnds(u) == StageBody(u) \/ RefuseBody(u)

UploadStep(u) == BeginUpload(u) \/ UploadRuns(u) \/ BodyEnds(u)
=============================================================================
