--------------------------- MODULE ShareServerProofs ---------------------------
(***************************************************************************)
(* Theorems about ShareServer for any number of ids, uploaders, clients,  *)
(* crashes and failures, any cap and any upload limit: every variable     *)
(* keeps its type, the storage cap holds, and the reservations are exact. *)
(***************************************************************************)
EXTENDS ShareServer, FiniteSetTheorems, TLAPS

-----------------------------------------------------------------------------
(* Facts about Total, the sum in which the capacity accounting is written  *)

\* There are finitely many units.
LEMMA UnitsFinite == IsFiniteSet(Units) /\ Units \subseteq Nat
  BY FS_Interval, CapacityAssumption DEF Units

\* A sum over a finite set is a natural number.
LEMMA TotalType ==
  ASSUME NEW S, IsFiniteSet(S), NEW f
  PROVE  Total(S, f) \in Nat /\ IsFiniteSet({b \in S \X Units : b[2] <= f[b[1]]})
<1>1. IsFiniteSet(S \X Units)
  BY UnitsFinite, FS_Product
<1>2. IsFiniteSet({b \in S \X Units : b[2] <= f[b[1]]})
  BY <1>1, FS_Subset
<1> QED
  BY <1>2, FS_CardinalityType DEF Total

\* The space some blobs use is a natural number.
LEMMA UsedByType ==
  ASSUME NEW S \in SUBSET Ids
  PROVE  UsedBy(S) \in Nat
  BY TotalType, FS_Subset, SetsAssumption DEF UsedBy

\* A sum over no elements is zero.
LEMMA TotalEmpty == \A f : Total({}, f) = 0
<1> SUFFICES ASSUME NEW f PROVE Total({}, f) = 0
  OBVIOUS
<1>1. {b \in {} \X Units : b[2] <= f[b[1]]} = {}
  OBVIOUS
<1> QED
  BY <1>1, FS_EmptySet DEF Total

\* A sum over more elements is at least as large.
LEMMA TotalMono ==
  ASSUME NEW T, IsFiniteSet(T), NEW S \in SUBSET T, NEW f
  PROVE  Total(S, f) <= Total(T, f)
<1>1. {b \in S \X Units : b[2] <= f[b[1]]} \subseteq {b \in T \X Units : b[2] <= f[b[1]]}
  OBVIOUS
<1> QED
  BY <1>1, TotalType, FS_Subset DEF Total

\* A sum depends only on the values of the elements summed.
LEMMA TotalAgree ==
  ASSUME NEW S, NEW f, NEW g, \A x \in S : f[x] = g[x]
  PROVE  Total(S, f) = Total(S, g)
<1>1. {b \in S \X Units : b[2] <= f[b[1]]} = {b \in S \X Units : b[2] <= g[b[1]]}
  OBVIOUS
<1> QED
  BY <1>1 DEF Total

\* The sum over one element is its value.
LEMMA TotalSingle ==
  ASSUME NEW x, NEW f, f[x] \in 0..MaxUpload
  PROVE  Total({x}, f) = f[x]
<1>1. {b \in {x} \X Units : b[2] <= f[b[1]]} = {x} \X (1..f[x])
  BY CapacityAssumption DEF Units
<1>0. f[x] \in Nat
  BY CapacityAssumption
<1>2. IsFiniteSet(1..f[x]) /\ Cardinality(1..f[x]) = f[x]
  BY <1>0, FS_Interval
<1>3. IsFiniteSet({x}) /\ Cardinality({x}) = 1
  BY FS_Singleton
<1>4. Cardinality({x} \X (1..f[x])) = 1 * f[x]
  BY <1>2, <1>3, FS_Product
<1>5. Total({x}, f) = 1 * f[x]
  BY <1>1, <1>4 DEF Total
<1> QED
  BY <1>0, <1>5

\* One more element adds its value.
LEMMA TotalAdd ==
  ASSUME NEW S, IsFiniteSet(S), NEW x, x \notin S, NEW f, f[x] \in 0..MaxUpload
  PROVE  Total(S \cup {x}, f) = Total(S, f) + f[x]
<1> DEFINE old == {b \in S \X Units : b[2] <= f[b[1]]}
           new == {b \in {x} \X Units : b[2] <= f[b[1]]}
           all == {b \in (S \cup {x}) \X Units : b[2] <= f[b[1]]}
<1>1. all = old \cup new /\ old \cap new = {}
  OBVIOUS
<1>2. IsFiniteSet(old) /\ IsFiniteSet(new)
  <2>1. IsFiniteSet({x})
    BY FS_Singleton
  <2>2. IsFiniteSet(old)
    BY TotalType
  <2>3. IsFiniteSet(new)
    BY <2>1, TotalType
  <2> QED
    BY <2>2, <2>3
<1>3. Cardinality(all) = Cardinality(old) + Cardinality(new)
  <2> HIDE DEF old, new, all
  <2>1. Cardinality(old \cup new) = Cardinality(old) + Cardinality(new) - Cardinality(old \cap new)
    BY <1>2, FS_Union
  <2>2. Cardinality(old) \in Nat /\ Cardinality(new) \in Nat
    BY <1>2, FS_CardinalityType
  <2> QED
    BY <1>1, <2>1, <2>2, FS_EmptySet
<1> QED
  BY <1>3, TotalSingle DEF Total

\* One element less takes its value away.
LEMMA TotalRemove ==
  ASSUME NEW S, IsFiniteSet(S), NEW x \in S, NEW f, f[x] \in 0..MaxUpload
  PROVE  Total(S, f) = Total(S \ {x}, f) + f[x]
<1>1. IsFiniteSet(S \ {x}) /\ x \notin S \ {x} /\ S = (S \ {x}) \cup {x}
  BY FS_Subset
<1> QED
  BY <1>1, TotalAdd

-----------------------------------------------------------------------------
(* Types: labels at which a goroutine works on a share it knows            *)

\* Labels at which a goroutine works on a share it knows.
NeedsTarget == {"staging", "lockCapacity", "unprotected2", "expired2", "lockStorage",
                "check", "insert", "get", "lstat", "serve", "removeMissing", "removeSelected"}

TargetsKnown == \A p \in Procs : pc[p] \in NeedsTarget => target[p] \in Ids

TypeInv == TypeOK /\ TargetsKnown

-----------------------------------------------------------------------------
(* Labels and records                                                      *)

\* A pass returns to a label, which needs a share only if the call did.
LEMMA ReturnLabels ==
  ASSUME NEW l \in Calls
  PROVE  /\ Return(l) \in Labels
         /\ Return(l) \in NeedsTarget => l \in NeedsTarget /\ Return(l) \notin {"idle", "delete"}
  BY DEF Calls, UnprotectedCalls, ExpiredCalls, ReconcileCalls, RemoveCalls, Return, AfterBoot,
         AfterDay, Labels, BeforeUUID, Claiming, HoldsCapacity, Publishing, BootLabels, NeedsTarget

\* The sets of labels are made of labels.
LEMMA LabelSets ==
  /\ Calls \subseteq Labels /\ BeforeUUID \subseteq Labels /\ Claiming \subseteq Labels
  /\ HoldsCapacity \subseteq Labels /\ BootLabels \subseteq Labels /\ NeedsTarget \subseteq Labels
  /\ {"idle", "unstage", "release", "sleep", "get", "lstat", "serve", "delete"} \subseteq Labels
  /\ {"insert", "unlock", "reserve", "reserving", "hash", "hashing", "stage", "staging"} \subseteq Labels
  BY DEF Calls, UnprotectedCalls, ExpiredCalls, ReconcileCalls, RemoveCalls,
         Labels, BeforeUUID, Claiming, HoldsCapacity, Publishing, BootLabels, NeedsTarget

\* The locals of a pass that starts, and of none, are of their type.
LEMMA NewPassType ==
  ASSUME NEW l, NEW T \in SUBSET Ids, NEW b \in BOOLEAN
  PROVE  NewPass(KindOf(l), T, b) \in Pass /\ NoPass \in Pass
  BY DEF NewPass, NoPass, Pass, Kinds, KindOf

\* The invariant holds at the start.
LEMMA InitTypeInv == Init => TypeInv
<1> SUFFICES ASSUME Init PROVE TypeInv
  OBVIOUS
<1>1. pc \in [Procs -> Labels] /\ TargetsKnown
  BY LabelSets, NamesAssumption DEF Init, TargetsKnown, NeedsTarget, BootLabels, Procs
<1>2. rows \in SUBSET Row
  <2>1. [id : Legacy, exp : {NoExpiry} \cup Lifetimes, protected : BOOLEAN] \subseteq Row
    <3>1. Legacy \subseteq Ids /\ {NoExpiry} \cup Lifetimes \subseteq Nat
      BY SetsAssumption DEF NoExpiry
    <3> QED
      BY <3>1, Zenon DEF Row
  <2>2. rows \in SUBSET [id : Legacy, exp : {NoExpiry} \cup Lifetimes, protected : BOOLEAN]
    BY Zenon DEF Init, LegacyRows
  <2> QED
    BY <2>1, <2>2
<1>3. pass \in Pass
  BY DEF Init, NoPass, NewPass, Pass, Kinds
<1>4. file \in [Ids -> {"none", "regular", "directory"}] /\ size \in [Ids -> Nat]
  BY DEF Init
<1>5. /\ staging \in SUBSET Ids /\ issued \in SUBSET Ids
  BY SetsAssumption DEF Init
<1>6. /\ res \in [Uploaders -> 0..MaxUpload] /\ got \in [Uploaders -> 0..MaxUpload]
  BY CapacityAssumption DEF Init
<1> QED
  BY <1>1, <1>2, <1>3, <1>4, <1>5, <1>6 DEF Init, TypeInv, TypeOK, Procs

-----------------------------------------------------------------------------
(* The steps of an integrity pass keep the types                           *)

\* A step of a pass, but its last, changes files, rows, the lock and the pass.
LEMMA PassFrame ==
  ASSUME TypeInv,
         UNCHANGED <<size, staging, now, capMu, reservations, goroutines, uploads, requests, history>>,
         file' \in [Ids -> {"none", "regular", "directory"}], rows' \in SUBSET Row,
         mu' \in Procs \cup {NoOne}, pass' \in Pass, faults' \in Nat
  PROVE  TypeInv'
  BY DEF TypeInv, TypeOK, TargetsKnown, goroutines, uploads, requests, history

\* The steps of a pass keep the types.
LEMMA PassTypes ==
  ASSUME TypeInv, NEW p \in Procs, Passes(p)
  PROVE  TypeInv'
<1> DEFINE Files == [Ids -> {"none", "regular", "directory"}]
<1>0. /\ file \in Files /\ rows \in SUBSET Row /\ mu \in Procs \cup {NoOne}
      /\ pass \in Pass /\ faults \in Nat /\ target \in [Procs -> Ids \cup {NoId}]
      /\ UNCHANGED <<uploads, requests, history>>
  BY DEF TypeInv, TypeOK, Passes
<1>1. ASSUME StartPass(p) PROVE TypeInv'
  <2>1. Listed(p) \in SUBSET Ids
    <3>1. pc[p] \in RemoveCalls => target[p] \in Ids
      BY DEF TypeInv, TargetsKnown, RemoveCalls, NeedsTarget
    <3>2. UnprotectedIds \subseteq Ids /\ ExpiredIds(asof[p]) \subseteq Ids /\ Registered \subseteq Ids
      BY <1>0 DEF UnprotectedIds, ExpiredIds, Registered, Row
    <3>3. pc[p] \in Calls
      BY <1>1 DEF StartPass
    <3> QED
      BY <3>1, <3>2, <3>3 DEF Listed, KindOf, Calls, UnprotectedCalls, ExpiredCalls, ReconcileCalls, RemoveCalls
  <2>2. \A b \in BOOLEAN, T \in SUBSET Ids : NewPass(KindOf(pc[p]), T, b) \in Pass
    BY NewPassType
  <2>3. /\ \/ pass' = NewPass(KindOf(pc[p]), Listed(p), TRUE)
           \/ pass' = NewPass(KindOf(pc[p]), {}, FALSE)
        /\ faults' = faults \/ faults' = faults + 1
        /\ mu' = p
        /\ UNCHANGED <<file, size, staging, rows, now, capMu, reservations, goroutines>>
    BY <1>1 DEF StartPass, Fails, Succeeds, disk
  <2>4. pass' \in Pass
    BY <2>1, <2>2, <2>3
  <2>5. faults' \in Nat
    BY <1>0, <2>3
  <2> QED
    BY <1>0, <2>3, <2>4, <2>5, PassFrame
<1>2. ASSUME NEW i \in Ids, FindVacant(p, i) PROVE TypeInv'
  <2>1. pass' \in Pass
    BY <1>0, <1>2 DEF FindVacant, Looked, Pass
  <2> QED
    BY <1>0, <1>2, <2>1, PassFrame DEF FindVacant, Succeeds, disk
<1>3. ASSUME NEW i \in Ids, UnlinkBlob(p, i) PROVE TypeInv'
  <2>1. pass' \in Pass /\ file' \in Files
    BY <1>0, <1>3 DEF UnlinkBlob, Looked, Pass
  <2> QED
    BY <1>0, <1>3, <2>1, PassFrame DEF UnlinkBlob, Succeeds
<1>4. ASSUME NEW i \in Ids, KeepKnown(p, i) PROVE TypeInv'
  <2>1. pass' \in Pass
    BY <1>0, <1>4 DEF KeepKnown, Looked, Pass
  <2> QED
    BY <1>0, <1>4, <2>1, PassFrame DEF KeepKnown, Succeeds, disk
<1>5. ASSUME NEW i \in Ids, SkipFailing(p, i) PROVE TypeInv'
  <2>1. pass' \in Pass
    BY <1>0, <1>5 DEF SkipFailing, Looked, Pass
  <2> QED
    BY <1>0, <1>5, <2>1, PassFrame DEF SkipFailing, Fails, disk
<1>6. ASSUME NEW i \in Ids, RemoveOrphan(p, i) PROVE TypeInv'
  <2>1. pass' \in Pass /\ file' \in Files
    BY <1>0, <1>6 DEF RemoveOrphan, Looked, Pass
  <2> QED
    BY <1>0, <1>6, <2>1, PassFrame DEF RemoveOrphan, Succeeds, Fails
<1>7. ASSUME DeleteRow(p) PROVE TypeInv'
  <2>1. pass' \in Pass /\ rows' \in SUBSET Row
    BY <1>0, <1>7 DEF DeleteRow, Pass, RowsWithout
  <2> QED
    BY <1>0, <1>7, <2>1, PassFrame DEF DeleteRow, Succeeds, Fails, disk
<1>8. ASSUME StartWalk(p) PROVE TypeInv'
  <2>0. Blobs \ pass.known \in SUBSET Ids
    BY DEF Blobs
  <2>1. pass' \in Pass
    BY <1>0, <1>8, <2>0 DEF StartWalk, Pass
  <2> QED
    BY <1>0, <1>8, <2>1, PassFrame DEF StartWalk, Succeeds, Fails, disk
<1>9. ASSUME EndPass(p) PROVE TypeInv'
  <2>1. pc' \in [Procs -> Labels] /\ asof' \in [Procs -> Nat] /\ target' \in [Procs -> Ids \cup {NoId}]
    BY <1>9, ReturnLabels DEF EndPass, Goto, TypeInv, TypeOK
  <2>2. TargetsKnown'
    BY <1>9, ReturnLabels DEF EndPass, Goto, TypeInv, TypeOK, TargetsKnown
  <2>3. pass' \in Pass
    BY <1>9, NewPassType DEF EndPass
  <2> QED
    BY <1>0, <1>9, <2>1, <2>2, <2>3 DEF EndPass, TypeInv, TypeOK, disk, uploads, requests, history
<1> QED
  BY <1>1, <1>2, <1>3, <1>4, <1>5, <1>6, <1>7, <1>8, <1>9 DEF Passes, PassStep

-----------------------------------------------------------------------------
(* The steps of an upload keep the types                                   *)

\* A goroutine moves to a label it may be at.
LEMMA MoveTypes ==
  ASSUME TypeInv, NEW p \in Procs, NEW l \in Labels, Goto(p, l),
         target' \in [Procs -> Ids \cup {NoId}],
         \A q \in Procs \ {p} : target'[q] = target[q],
         l \in NeedsTarget => target'[p] \in Ids
  PROVE  pc' \in [Procs -> Labels] /\ TargetsKnown'
  BY DEF TypeInv, TypeOK, TargetsKnown, Goto

\* The same for a goroutine that stays with its target.
LEMMA StayTypes ==
  ASSUME TypeInv, NEW p \in Procs, NEW l \in Labels, Goto(p, l), UNCHANGED target,
         l \in NeedsTarget => pc[p] \in NeedsTarget
  PROVE  pc' \in [Procs -> Labels] /\ TargetsKnown'
<1>1. l \in NeedsTarget => target'[p] \in Ids
  BY DEF TypeInv, TargetsKnown
<1>2. target' \in [Procs -> Ids \cup {NoId}]
  BY DEF TypeInv, TypeOK
<1> QED
  BY <1>1, <1>2, MoveTypes

\* The labels an upload passes through, and where it knows its target.
LEMMA UploadLabels ==
  /\ {"unprotected1", "reserving", "hash", "hashing", "stage", "staging", "lockCapacity",
      "unprotected2", "check", "insert", "unlock", "unstage", "release", "idle"} \subseteq Labels
  /\ {"staging", "lockCapacity", "unprotected2", "check", "insert", "lockStorage"} \subseteq NeedsTarget
  /\ {"unprotected1", "reserving", "hash", "hashing", "stage", "unlock", "unstage", "release",
      "idle"} \cap NeedsTarget = {}
  BY DEF Calls, UnprotectedCalls, ExpiredCalls, ReconcileCalls, RemoveCalls,
         Labels, BeforeUUID, Claiming, HoldsCapacity, Publishing, BootLabels, NeedsTarget

\* The steps of an upload do.
LEMMA UploadTypes ==
  ASSUME TypeInv, NEW u \in Uploaders, Upload(u)
  PROVE  TypeInv'
<1>0. /\ u \in Procs /\ NoId \in Ids \cup {NoId}
      /\ UNCHANGED <<requests, history>>
  BY DEF Procs, Upload
<1>1. CASE BeginUpload(u)
  <2>1. pc' \in [Procs -> Labels] /\ TargetsKnown' /\ target' \in [Procs -> Ids \cup {NoId}]
    BY <1>0, <1>1, MoveTypes, UploadLabels DEF BeginUpload, Finish, TypeInv, TypeOK
  <2>2. exp' \in [Uploaders -> Nat] /\ answer' \in [Uploaders -> Errors \cup {"none", "created"}]
    BY <1>1, SetsAssumption DEF BeginUpload, Finish, TypeInv, TypeOK
  <2> QED
    BY <1>0, <1>1, <2>1, <2>2 DEF BeginUpload, TypeInv, TypeOK, disk, requests, history
<1>2. CASE ListForReserve(u)
  <2>1. pc' \in [Procs -> Labels] /\ TargetsKnown'
    BY <1>0, <1>2, StayTypes, UploadLabels DEF ListForReserve
  <2>2. snap' \in SUBSET Ids
    BY <1>2 DEF ListForReserve, Blobs
  <2> QED
    BY <1>0, <1>2, <2>1, <2>2 DEF ListForReserve, TypeInv, TypeOK, disk, requests, history
<1>3. CASE Reserve(u)
  <2>1. pc' \in [Procs -> Labels] /\ TargetsKnown'
    BY <1>0, <1>3, StayTypes, UploadLabels DEF Reserve, Finish
  <2>2. ASSUME NEW S \in SUBSET snap, Available(S) > 0
        PROVE  ClaimFor(Available(S)) \in 0..MaxUpload
    <3>1. S \in SUBSET Ids
      BY DEF TypeInv, TypeOK
    <3>2. Available(S) \in Int
      BY <3>1, UsedByType, CapacityAssumption DEF Available, TypeInv, TypeOK
    <3> QED
      BY <2>2, <3>2, CapacityAssumption DEF ClaimFor
  <2>3. res' \in [Uploaders -> 0..MaxUpload] /\ reservations' \in Nat
    BY <1>3, <2>2 DEF Reserve, TypeInv, TypeOK
  <2>4. answer' \in [Uploaders -> Errors \cup {"none", "created"}]
    BY <1>3 DEF Reserve, Finish, Errors, TypeInv, TypeOK
  <2>5. faults' \in Nat /\ missed' \in Nat
    BY <1>3 DEF Reserve, WalkSucceeds, WalkFails, Succeeds, Fails, TypeInv, TypeOK
  <2> QED
    BY <1>0, <1>3, <2>1, <2>3, <2>4, <2>5 DEF Reserve, TypeInv, TypeOK, disk, requests, history
<1>4. CASE LockHash(u)
  <2>1. pc' \in [Procs -> Labels] /\ TargetsKnown'
    BY <1>0, <1>4, StayTypes, UploadLabels DEF LockHash
  <2> QED
    BY <1>0, <1>4, <2>1 DEF LockHash, TypeInv, TypeOK, disk, uploads, requests, history
<1>5. CASE Hash(u)
  <2>1. pc' \in [Procs -> Labels] /\ TargetsKnown'
    BY <1>0, <1>5, StayTypes, UploadLabels DEF Hash, Finish
  <2>2. answer' \in [Uploaders -> Errors \cup {"none", "created"}]
    BY <1>5 DEF Hash, Finish, Errors, TypeInv, TypeOK
  <2>3. faults' \in Nat
    BY <1>5 DEF Hash, Fails, Succeeds, TypeInv, TypeOK
  <2> QED
    BY <1>0, <1>5, <2>1, <2>2, <2>3 DEF Hash, Finish, TypeInv, TypeOK, disk, uploads, requests, history
<1>6. CASE OpenStaging(u)
  <2>1. PICK i \in Ids \ issued :
          /\ issued' = issued \cup {i}
          /\ target' = [target EXCEPT ![u] = i]
          /\ \/ staging' = staging \cup {i} /\ Goto(u, "staging") /\ Succeeds /\ UNCHANGED answer
             \/ Fails("create") /\ Finish(u, "ErrStore", "release") /\ UNCHANGED staging
    BY <1>6 DEF OpenStaging
  <2>2. target' \in [Procs -> Ids \cup {NoId}] /\ target'[u] \in Ids
        /\ \A q \in Procs \ {u} : target'[q] = target[q]
    BY <1>0, <2>1 DEF TypeInv, TypeOK
  <2>3. pc' \in [Procs -> Labels] /\ TargetsKnown'
    BY <1>0, <2>1, <2>2, MoveTypes, UploadLabels DEF Finish
  <2>4. answer' \in [Uploaders -> Errors \cup {"none", "created"}]
    BY <2>1 DEF Finish, Errors, TypeInv, TypeOK
  <2>5. issued' \in SUBSET Ids /\ staging' \in SUBSET Ids /\ faults' \in Nat
    BY <2>1 DEF Fails, Succeeds, TypeInv, TypeOK
  <2> QED
    BY <1>0, <1>6, <2>2, <2>3, <2>4, <2>5 DEF OpenStaging, TypeInv, TypeOK, disk, requests, history
<1>7. CASE StageBody(u)
  <2>1. pc' \in [Procs -> Labels] /\ TargetsKnown'
    BY <1>0, <1>7, StayTypes, UploadLabels DEF StageBody, Finish
  <2>2. answer' \in [Uploaders -> Errors \cup {"none", "created"}]
    BY <1>7 DEF StageBody, Finish, Errors, TypeInv, TypeOK
  <2>3. got' \in [Uploaders -> 0..MaxUpload]
    BY <1>7, CapacityAssumption DEF StageBody, TypeInv, TypeOK
  <2> QED
    BY <1>0, <1>7, <2>1, <2>2, <2>3 DEF StageBody, Finish, TypeInv, TypeOK, disk, uploads, requests, history
<1>8. CASE RefuseBody(u)
  <2>1. pc' \in [Procs -> Labels] /\ TargetsKnown'
    BY <1>0, <1>8, StayTypes, UploadLabels DEF RefuseBody, Finish
  <2>2. answer' \in [Uploaders -> Errors \cup {"none", "created"}]
    BY <1>8 DEF RefuseBody, Finish, Errors, TypeInv, TypeOK
  <2>3. staging' \in SUBSET Ids /\ faults' \in Nat
    BY <1>8 DEF RefuseBody, Fails, Succeeds, TypeInv, TypeOK
  <2> QED
    BY <1>0, <1>8, <2>1, <2>2, <2>3 DEF RefuseBody, Finish, TypeInv, TypeOK, disk, uploads, requests, history
<1>9. CASE LockCapacity(u)
  <2>1. pc' \in [Procs -> Labels] /\ TargetsKnown'
    BY <1>0, <1>9, StayTypes, UploadLabels DEF LockCapacity
  <2> QED
    BY <1>0, <1>9, <2>1 DEF LockCapacity, TypeInv, TypeOK, disk, uploads, requests, history
<1>10. CASE LockStorage(u)
  <2>1. pc' \in [Procs -> Labels] /\ TargetsKnown'
    BY <1>0, <1>10, StayTypes, UploadLabels DEF LockStorage
  <2> QED
    BY <1>0, <1>10, <2>1 DEF LockStorage, TypeInv, TypeOK, disk, uploads, requests, history
<1>11. CASE RejectOverCap(u)
  <2>1. pc' \in [Procs -> Labels] /\ TargetsKnown'
    BY <1>0, <1>11, StayTypes, UploadLabels DEF RejectOverCap, Finish
  <2>2. answer' \in [Uploaders -> Errors \cup {"none", "created"}]
    BY <1>11 DEF RejectOverCap, Finish, Errors, TypeInv, TypeOK
  <2> QED
    BY <1>0, <1>11, <2>1, <2>2 DEF RejectOverCap, Finish, TypeInv, TypeOK, disk, uploads, requests, history
<1>12. CASE Commit(u)
  <2>1. pc' \in [Procs -> Labels] /\ TargetsKnown'
    BY <1>0, <1>12, StayTypes, UploadLabels DEF Commit, Publish, RenameFails, Finish
  <2>2. answer' \in [Uploaders -> Errors \cup {"none", "created"}]
    BY <1>12 DEF Commit, Publish, RenameFails, Finish, Errors, TypeInv, TypeOK
  <2>3. /\ file' \in [Ids -> {"none", "regular", "directory"}]
        /\ size' \in [Ids -> Nat] /\ staging' \in SUBSET Ids
    <3>1. got[u] \in Nat
      BY CapacityAssumption DEF TypeInv, TypeOK
    <3> QED
      BY <1>12, <3>1 DEF Commit, Publish, RenameFails, disk, TypeInv, TypeOK
  <2>4. faults' \in Nat /\ missed' \in Nat
    BY <1>12 DEF Commit, WalkSucceeds, WalkFails, Succeeds, Fails, TypeInv, TypeOK
  <2> QED
    BY <1>0, <1>12, <2>1, <2>2, <2>3, <2>4 DEF Commit, TypeInv, TypeOK, requests, history
<1>13. CASE InsertRow(u)
  <2>1. pc' \in [Procs -> Labels] /\ TargetsKnown'
    BY <1>0, <1>13, StayTypes, UploadLabels DEF InsertRow, Finish
  <2>2. answer' \in [Uploaders -> Errors \cup {"none", "created"}]
    BY <1>13 DEF InsertRow, Finish, Errors, TypeInv, TypeOK
  <2>3. rows' \in SUBSET Row
    <3>1. target[u] \in Ids
      BY <1>0, <1>13, UploadLabels DEF InsertRow, TypeInv, TargetsKnown
    <3>2. exp[u] \in Nat
      BY DEF TypeInv, TypeOK
    <3>3. [id |-> target[u], exp |-> exp[u], protected |-> TRUE] \in Row
      BY <3>1, <3>2 DEF Row
    <3> QED
      BY <1>13, <3>3 DEF InsertRow, TypeInv, TypeOK
  <2> QED
    BY <1>0, <1>13, <2>1, <2>2, <2>3 DEF InsertRow, TypeInv, TypeOK, disk, requests, history
<1>14. CASE RollBack(u)
  <2>1. pc' \in [Procs -> Labels] /\ TargetsKnown'
    BY <1>0, <1>14, StayTypes, UploadLabels DEF RollBack, Finish
  <2>2. answer' \in [Uploaders -> Errors \cup {"none", "created"}]
    BY <1>14 DEF RollBack, Finish, Errors, TypeInv, TypeOK
  <2>3. file' \in [Ids -> {"none", "regular", "directory"}] /\ faults' \in Nat
    BY <1>14 DEF RollBack, Fails, TypeInv, TypeOK
  <2> QED
    BY <1>0, <1>14, <2>1, <2>2, <2>3 DEF RollBack, Finish, TypeInv, TypeOK, disk, uploads, requests, history
<1>15. CASE Unlock(u)
  <2>1. pc' \in [Procs -> Labels] /\ TargetsKnown'
    BY <1>0, <1>15, StayTypes, UploadLabels DEF Unlock
  <2> QED
    BY <1>0, <1>15, <2>1 DEF Unlock, TypeInv, TypeOK, disk, uploads, requests, history
<1>16. CASE Unstage(u)
  <2>1. pc' \in [Procs -> Labels] /\ TargetsKnown'
    BY <1>0, <1>16, StayTypes, UploadLabels DEF Unstage
  <2>2. staging' \in SUBSET Ids /\ faults' \in Nat
    BY <1>16 DEF Unstage, Fails, Succeeds, TypeInv, TypeOK
  <2> QED
    BY <1>0, <1>16, <2>1, <2>2 DEF Unstage, TypeInv, TypeOK, disk, uploads, requests, history
<1>17. CASE Release(u)
  <2>1. pc' \in [Procs -> Labels] /\ TargetsKnown'
    BY <1>0, <1>17, StayTypes, UploadLabels DEF Release
  <2>2. reservations' \in Nat
    BY <1>17, CapacityAssumption DEF Release, TypeInv, TypeOK
  <2>3. /\ res' \in [Uploaders -> 0..MaxUpload] /\ got' \in [Uploaders -> 0..MaxUpload]
        /\ exp' \in [Uploaders -> Nat]
    BY <1>17, CapacityAssumption DEF Release, TypeInv, TypeOK
  <2> QED
    BY <1>0, <1>17, <2>1, <2>2, <2>3 DEF Release, TypeInv, TypeOK, disk, uploads, requests, history
<1> QED
  BY <1>1, <1>2, <1>3, <1>4, <1>5, <1>6, <1>7, <1>8, <1>9, <1>10, <1>11, <1>12, <1>13, <1>14,
     <1>15, <1>16, <1>17 DEF Upload, UploadStep, UploadRuns, BodyEnds

-----------------------------------------------------------------------------
(* Requests, startup, crashes and edits keep the types                     *)

\* The labels of a request, and which of them need a share.
LEMMA RequestLabels ==
  /\ {"idle", "page", "get", "lstat", "serve", "removeMissing", "removeSelected", "delete",
      "deleteDone"} \subseteq Labels
  /\ {"get", "lstat", "serve", "removeMissing", "removeSelected"} \subseteq NeedsTarget
  /\ {"idle", "page", "delete", "deleteDone"} \cap NeedsTarget = {}
  BY DEF Calls, UnprotectedCalls, ExpiredCalls, ReconcileCalls, RemoveCalls,
         Labels, BeforeUUID, Claiming, HoldsCapacity, Publishing, BootLabels, NeedsTarget

\* A request that leaves storage alone moves, and changes its own locals.
LEMMA RequestFrame ==
  ASSUME TypeInv, NEW c \in Clients, NEW l \in Labels, Goto(c, l),
         target' \in [Procs -> Ids \cup {NoId}],
         \A q \in Procs \ {c} : target'[q] = target[q],
         l \in NeedsTarget => target'[c] \in Ids,
         asof' \in [Procs -> Nat], rowExp' \in [Clients -> Nat],
         chosen' \in [Clients -> SUBSET Ids], selected' \in SUBSET Ids, faults' \in Nat,
         UNCHANGED <<disk, rows, now, mu, capMu, reservations, pass, uploads, tampered, crashes>>
  PROVE  TypeInv'
<1>1. pc' \in [Procs -> Labels] /\ TargetsKnown'
  BY MoveTypes DEF Procs
<1> QED
  BY <1>1 DEF TypeInv, TypeOK, disk, uploads

\* The steps of a request do.
LEMMA RequestTypes ==
  ASSUME TypeInv, NEW c \in Clients, Request(c)
  PROVE  TypeInv'
<1>0. /\ c \in Procs /\ NoId \in Ids \cup {NoId}
      /\ target \in [Procs -> Ids \cup {NoId}] /\ asof \in [Procs -> Nat]
      /\ rowExp \in [Clients -> Nat] /\ chosen \in [Clients -> SUBSET Ids]
      /\ selected \in SUBSET Ids /\ faults \in Nat /\ now \in Nat /\ issued \in SUBSET Ids
      /\ pc[c] \in NeedsTarget => target[c] \in Ids
  BY DEF Procs, TypeInv, TypeOK, TargetsKnown
<1>1. CASE OpenPage(c)
  BY <1>0, <1>1, RequestFrame, RequestLabels DEF OpenPage, requests, history
<1>2. ASSUME NEW i \in issued, OpenShare(c, i) PROVE TypeInv'
  BY <1>0, <1>2, RequestFrame, RequestLabels DEF OpenShare, requests, history
<1>3. CASE GetRow(c)
  <2>1. CASE Answered(c) /\ faults' \in Nat
    BY <1>0, <1>3, <2>1, RequestFrame, RequestLabels DEF GetRow, Answered, Forget, history
  <2>2. CASE /\ \E r \in rows : r.id = target[c] /\ rowExp' = [rowExp EXCEPT ![c] = r.exp]
             /\ Goto(c, "lstat") /\ Succeeds /\ UNCHANGED <<target, asof>>
    <3>1. PICK r \in rows : r.id = target[c] /\ rowExp' = [rowExp EXCEPT ![c] = r.exp]
      BY <2>2
    <3>2. r.exp \in Nat
      BY DEF TypeInv, TypeOK, Row
    <3>3. rowExp' \in [Clients -> Nat]
      BY <1>0, <3>1, <3>2
    <3>4. target[c] \in Ids
      BY <1>0, <1>3, RequestLabels DEF GetRow
    <3> QED
      BY <1>0, <1>3, <2>2, <3>3, <3>4, RequestFrame, RequestLabels DEF GetRow, Succeeds, history
  <2> QED
    BY <1>0, <1>3, <2>1, <2>2 DEF GetRow, Fails, Succeeds
<1>4. CASE LookAtBlob(c)
  <2>1. target[c] \in Ids
    BY <1>0, <1>4, RequestLabels DEF LookAtBlob
  <2> QED
    BY <1>0, <1>4, <2>1, RequestFrame, RequestLabels
       DEF LookAtBlob, Answered, Forget, Fails, Succeeds, history
<1>5. CASE Serve(c)
  BY <1>0, <1>5, RequestFrame, RequestLabels DEF Serve, Answered, Forget, history
<1>6. CASE ShowSharePage(c)
  BY <1>0, <1>6, RequestFrame, RequestLabels DEF ShowSharePage, Forget, history
<1>7. CASE SelectShares(c)
  <2>1. PICK ids \in SUBSET issued :
          chosen' = [chosen EXCEPT ![c] = ids] /\ selected' = selected \cup ids
    BY <1>7 DEF SelectShares
  <2>2. chosen' \in [Clients -> SUBSET Ids] /\ selected' \in SUBSET Ids
    BY <1>0, <2>1
  <2> QED
    BY <1>0, <1>7, <2>2, RequestFrame, RequestLabels DEF SelectShares
<1>8. ASSUME NEW i \in Ids, DeleteNext(c, i) PROVE TypeInv'
  <2>1. chosen' \in [Clients -> SUBSET Ids]
    BY <1>0, <1>8 DEF DeleteNext
  <2>0. faults' \in Nat
    BY <1>0, <1>8 DEF DeleteNext, Fails, Succeeds
  <2>2. CASE UNCHANGED <<pc, target>>
    BY <1>0, <1>8, <2>0, <2>1, <2>2 DEF DeleteNext, TypeInv, TypeOK, TargetsKnown, disk, uploads, history
  <2>3. CASE target' = [target EXCEPT ![c] = i] /\ Goto(c, "removeSelected")
    BY <1>0, <1>8, <2>0, <2>1, <2>3, RequestFrame, RequestLabels DEF DeleteNext, history
  <2> QED
    BY <1>8, <2>2, <2>3 DEF DeleteNext
<1>9. CASE DeleteDone(c)
  BY <1>0, <1>9, RequestFrame, RequestLabels DEF DeleteDone, requests, history
<1> QED
  BY <1>1, <1>2, <1>3, <1>4, <1>5, <1>6, <1>7, <1>8, <1>9 DEF Request, RequestArrives, RequestRuns

\* So do the maintenance, a crash, the clock and an edit from outside.
LEMMA OtherTypes ==
  ASSUME TypeInv, ClearStaging \/ Midnight \/ Crash \/ Tick \/ \E i \in Ids : Tamper(i)
  PROVE  TypeInv'
<1>0. Cleaner \in Procs /\ {"bootUnprotected", "dayUnprotected", "bootClear", "idle"} \subseteq Labels
      /\ {"bootUnprotected", "dayUnprotected", "bootClear", "idle"} \cap NeedsTarget = {}
  BY DEF Procs, Calls, UnprotectedCalls, Labels, BootLabels, NeedsTarget
<1>1. CASE ClearStaging
  <2>1. pc' \in [Procs -> Labels] /\ TargetsKnown'
    BY <1>0, <1>1, StayTypes DEF ClearStaging
  <2>2. staging' \in SUBSET Ids /\ faults' \in Nat
    BY <1>1 DEF ClearStaging, Fails, Succeeds, TypeInv, TypeOK
  <2> QED
    BY <1>1, <2>1, <2>2 DEF ClearStaging, TypeInv, TypeOK, uploads, requests, history
<1>2. CASE Midnight
  <2>1. pc' \in [Procs -> Labels] /\ TargetsKnown'
    BY <1>0, <1>2, StayTypes DEF Midnight
  <2> QED
    BY <1>2, <2>1 DEF Midnight, TypeInv, TypeOK, disk, uploads, requests, history
<1>3. CASE Crash
  <2>1. pc' \in [Procs -> Labels] /\ TargetsKnown'
    BY <1>0, <1>3 DEF Crash, TargetsKnown
  <2>2. pass' \in Pass
    BY <1>3 DEF Crash, NoPass, NewPass, Pass, Kinds
  <2>3. res' \in [Uploaders -> 0..MaxUpload] /\ got' \in [Uploaders -> 0..MaxUpload]
    BY <1>3, CapacityAssumption DEF Crash
  <2>4. /\ asof' \in [Procs -> Nat] /\ target' \in [Procs -> Ids \cup {NoId}]
        /\ exp' \in [Uploaders -> Nat] /\ answer' \in [Uploaders -> Errors \cup {"none", "created"}]
        /\ chosen' \in [Clients -> SUBSET Ids] /\ rowExp' \in [Clients -> Nat]
    BY <1>3 DEF Crash
  <2> QED
    BY <1>3, <2>1, <2>2, <2>3, <2>4 DEF Crash, TypeInv, TypeOK, disk
<1>4. CASE Tick
  BY <1>4 DEF Tick, TypeInv, TypeOK, TargetsKnown, disk, goroutines, uploads, requests, history
<1>5. ASSUME NEW i \in Ids, Tamper(i) PROVE TypeInv'
  <2>1. pass' \in Pass
    BY <1>5 DEF Tamper, Pass, TypeInv, TypeOK
  <2>2. file' \in [Ids -> {"none", "regular", "directory"}] /\ tampered' \in SUBSET Ids
    BY <1>5 DEF Tamper, TypeInv, TypeOK
  <2> QED
    BY <1>5, <2>1, <2>2 DEF Tamper, TypeInv, TypeOK, TargetsKnown, goroutines, uploads, requests
<1> QED
  BY <1>1, <1>2, <1>3, <1>4, <1>5

\* Every step keeps the types.
LEMMA StepTypes == TypeInv /\ [Next]_vars => TypeInv'
<1> SUFFICES ASSUME TypeInv, [Next]_vars PROVE TypeInv'
  OBVIOUS
<1>1. CASE UNCHANGED vars
  BY <1>1 DEF vars, TypeInv, TypeOK, TargetsKnown, disk, goroutines, uploads, requests, history
<1>2. CASE Next
  BY <1>2, UploadTypes, RequestTypes, PassTypes, OtherTypes DEF Next
<1> QED
  BY <1>1, <1>2

\* Type correctness, for any number of goroutines, ids, crashes and failures:
\* in particular a goroutine that stages, publishes, serves or removes a share
\* has one to work on, claims stay within the upload limit, and the shared
\* total of the claims never goes below zero.
THEOREM TypeCorrect == Spec => []TypeOK
<1>1. Spec => []TypeInv
  BY InitTypeInv, StepTypes, PTL DEF Spec
<1>2. TypeInv => TypeOK
  BY DEF TypeInv
<1> QED
  BY <1>1, <1>2, PTL

-----------------------------------------------------------------------------
(* The storage cap and the reservations                                    *)

\* capMu is held where the code between Lock and Unlock runs.
LockHeld == \A u \in Uploaders : pc[u] \in HoldsCapacity => capMu = u

\* While reserveCapacity walks, no blob appears that it did not list: blobs are
\* committed under capMu only.
WalkSeesAll == \A u \in Uploaders : pc[u] = "reserving" => Blobs \subseteq snap

\* The inductive invariant.  CapacityRespected alone is not: a claim is made and
\* checked against the reservation total, and against a walk of the directory.
CapacityInv == LockHeld /\ WalkSeesAll /\ ReservationsExact /\ CapacityRespected

\* What failed walks may have let past the cap, and that it only grows.
Slack == missed * MaxUpload
MissedGrows == missed' = missed \/ missed' = missed + 1

-----------------------------------------------------------------------------

\* A failed walk adds one upload to the slack.
LEMMA SlackGrows ==
  ASSUME TypeInv, MissedGrows
  PROVE  /\ Slack \in Nat /\ Slack' \in Nat /\ Slack <= Slack'
         /\ missed' = missed + 1 => Slack' = Slack + MaxUpload
<1>1. missed \in Nat /\ MaxUpload \in Nat
  BY CapacityAssumption DEF TypeInv, TypeOK
<1>2. (missed + 1) * MaxUpload = missed * MaxUpload + MaxUpload
  BY <1>1
<1>3. missed * MaxUpload \in Nat
  BY <1>1
<1> QED
  BY <1>1, <1>2, <1>3 DEF Slack, MissedGrows

\* The sets summed over are finite, and who claims also reserves.
LEMMA SetsFinite ==
  /\ IsFiniteSet(Blobs) /\ IsFiniteSet(Reservers) /\ IsFiniteSet(Claimants)
  /\ Blobs \subseteq Ids /\ Claimants \subseteq Reservers /\ Reservers \subseteq Uploaders
<1>1. Blobs \subseteq Ids /\ Claimants \subseteq Reservers /\ Reservers \subseteq Uploaders
  BY DEF Blobs, Claimants, Reservers, Reserving
<1>2. IsFiniteSet(Reservers) /\ IsFiniteSet(Blobs)
  BY <1>1, FS_Subset, SetsAssumption
<1>3. IsFiniteSet(Claimants)
  BY <1>1, <1>2, FS_Subset
<1> QED
  BY <1>1, <1>2, <1>3

\* The sums of the invariant are natural numbers.
LEMMA SumsTyped ==
  /\ UsedBytes \in Nat /\ ClaimsOf(Claimants) \in Nat /\ ClaimsOf(Reservers) \in Nat
  /\ ClaimsOf(Claimants) <= ClaimsOf(Reservers)
<1>1. UsedBytes \in Nat
  BY SetsFinite, UsedByType DEF UsedBytes
<1>2. ClaimsOf(Claimants) \in Nat /\ ClaimsOf(Reservers) \in Nat
  BY SetsFinite, TotalType DEF ClaimsOf
<1>3. ClaimsOf(Claimants) <= ClaimsOf(Reservers)
  BY SetsFinite, TotalMono DEF ClaimsOf
<1> QED
  BY <1>1, <1>2, <1>3

\* The invariant holds at the start.
LEMMA CapacityInit == Init => CapacityInv
<1> SUFFICES ASSUME Init PROVE CapacityInv
  OBVIOUS
<1>1. \A u \in Uploaders : pc[u] = "idle"
  BY NamesAssumption DEF Init, Procs
<1>2. Reservers = {} /\ Claimants = {}
  BY <1>1 DEF Reservers, Claimants, Reserving, Claiming
<1>3. LockHeld /\ WalkSeesAll
  BY <1>1 DEF LockHeld, WalkSeesAll, HoldsCapacity, Publishing
<1>4. ReservationsExact
  BY <1>2, TotalEmpty DEF Init, ReservationsExact, ClaimsOf
<1>5. CapacityRespected
  <2>1. missed * MaxUpload = 0
    BY CapacityAssumption DEF Init
  <2> QED
    BY <1>2, <2>1, TotalEmpty, SumsTyped, CapacityAssumption DEF Init, CapacityRespected, ClaimsOf
<1> QED
  BY <1>3, <1>4, <1>5 DEF CapacityInv

\* Steps that add no blob, change no claim and no uploader's part in the sums.
LEMMA QuietStep ==
  ASSUME TypeInv, CapacityInv, MissedGrows,
         UNCHANGED <<size, res, reservations>>, Blobs' \subseteq Blobs,
         \A u \in Uploaders :
           /\ pc'[u] \in Claiming => pc[u] \in Claiming
           /\ pc'[u] \in Reserving <=> pc[u] \in Reserving
           /\ pc'[u] \in HoldsCapacity => capMu' = u
           /\ pc'[u] = "reserving" => Blobs \subseteq snap'
  PROVE  CapacityInv'
<1>1. LockHeld' /\ WalkSeesAll'
  BY DEF LockHeld, WalkSeesAll
<1>2. Reservers' = Reservers /\ Claimants' \subseteq Claimants
  BY DEF Reservers, Claimants
<1>3. ReservationsExact'
  BY <1>2 DEF CapacityInv, ReservationsExact, ClaimsOf
<1>4. UsedBytes' <= UsedBytes
  BY SetsFinite, TotalMono DEF UsedBytes, UsedBy
<1>5. ClaimsOf(Claimants)' <= ClaimsOf(Claimants)
  BY <1>2, SetsFinite, TotalMono DEF ClaimsOf
<1>6. (UsedBytes \in Nat /\ ClaimsOf(Claimants) \in Nat)'
  BY SumsTyped, PTL
<1>7. CapacityRespected'
  BY <1>4, <1>5, <1>6, SlackGrows, SumsTyped, CapacityAssumption DEF CapacityInv, CapacityRespected, Slack
<1> QED
  BY <1>1, <1>3, <1>7 DEF CapacityInv

\* Quiet steps in which no uploader moves.
LEMMA StillStep ==
  ASSUME TypeInv, CapacityInv, Blobs' \subseteq Blobs,
         UNCHANGED <<size, res, reservations, capMu, snap, missed>>,
         \A u \in Uploaders : pc'[u] = pc[u]
  PROVE  CapacityInv'
<1>1. \A u \in Uploaders :
        /\ pc'[u] \in HoldsCapacity => capMu' = u
        /\ pc'[u] = "reserving" => Blobs \subseteq snap'
  BY DEF CapacityInv, LockHeld, WalkSeesAll
<1> QED
  BY <1>1, QuietStep DEF MissedGrows

\* A pass returns its caller to the same side of reserveCapacity, of the final
\* check and of capMu.
LEMMA PassKeepsSets ==
  ASSUME NEW l \in Calls
  PROVE  /\ Return(l) \in Claiming <=> l \in Claiming
         /\ Return(l) \in Reserving <=> l \in Reserving
         /\ Return(l) \in HoldsCapacity => l \in HoldsCapacity
         /\ Return(l) # "reserving"
  BY DEF Calls, UnprotectedCalls, ExpiredCalls, ReconcileCalls, RemoveCalls, Return, AfterBoot,
         AfterDay, Claiming, Reserving, HoldsCapacity, Publishing

\* A pass adds no blob and touches no claim.
LEMMA PassKeepsCapacity ==
  ASSUME TypeInv, CapacityInv, NEW p \in Procs, Passes(p)
  PROVE  CapacityInv'
<1>1. ASSUME StartPass(p) PROVE CapacityInv'
  BY <1>1, StillStep DEF StartPass, Passes, disk, goroutines, uploads, Blobs
<1>2. ASSUME NEW i \in Ids, FindVacant(p, i) \/ KeepKnown(p, i) \/ SkipFailing(p, i)
      PROVE  CapacityInv'
  BY <1>2, StillStep
     DEF FindVacant, KeepKnown, SkipFailing, Passes, disk, goroutines, uploads, Blobs
<1>3. ASSUME NEW i \in Ids, UnlinkBlob(p, i) \/ RemoveOrphan(p, i) PROVE CapacityInv'
  <2>1. Blobs' \subseteq Blobs
    BY <1>3 DEF UnlinkBlob, RemoveOrphan, Blobs, TypeInv, TypeOK
  <2> QED
    BY <1>3, <2>1, StillStep DEF UnlinkBlob, RemoveOrphan, Passes, goroutines, uploads
<1>4. ASSUME DeleteRow(p) \/ StartWalk(p) PROVE CapacityInv'
  BY <1>4, StillStep DEF DeleteRow, StartWalk, Passes, disk, goroutines, uploads, Blobs
<1>5. ASSUME EndPass(p) PROVE CapacityInv'
  <2>1. /\ pc[p] \in Calls /\ pc' = [pc EXCEPT ![p] = Return(pc[p])]
        /\ UNCHANGED <<file, size, res, reservations, capMu, snap, missed>>
    BY <1>5 DEF EndPass, Goto, Passes, disk, uploads
  <2>2. \A u \in Uploaders : u \in Procs /\ pc'[u] = IF u = p THEN Return(pc[p]) ELSE pc[u]
    BY <2>1 DEF TypeInv, TypeOK, Procs
  <2>3. \A u \in Uploaders :
          /\ pc'[u] \in Claiming => pc[u] \in Claiming
          /\ pc'[u] \in Reserving <=> pc[u] \in Reserving
          /\ pc'[u] \in HoldsCapacity => pc[u] \in HoldsCapacity
          /\ pc'[u] = "reserving" => pc[u] = "reserving"
    BY <2>1, <2>2, PassKeepsSets
  <2>4. \A u \in Uploaders :
          /\ pc'[u] \in HoldsCapacity => capMu' = u
          /\ pc'[u] = "reserving" => Blobs \subseteq snap'
    BY <2>1, <2>3 DEF CapacityInv, LockHeld, WalkSeesAll
  <2>5. Blobs' \subseteq Blobs
    BY <2>1 DEF Blobs
  <2> QED
    BY <2>1, <2>3, <2>4, <2>5, QuietStep DEF MissedGrows
<1> QED
  BY <1>1, <1>2, <1>3, <1>4, <1>5 DEF Passes, PassStep

-----------------------------------------------------------------------------
(* The steps of an upload                                                  *)

\* An uploader moves, the sums and the sides of the others stay as they are.
LEMMA QuietMove ==
  ASSUME TypeInv, CapacityInv, MissedGrows, NEW u \in Uploaders, NEW l, Goto(u, l),
         UNCHANGED <<size, res, reservations>>, Blobs' \subseteq Blobs,
         capMu' = capMu \/ (capMu = NoOne /\ capMu' = u) \/ (capMu = u /\ capMu' = NoOne),
         snap' = snap \/ (capMu = NoOne),
         l \in Claiming => pc[u] \in Claiming,
         l \in Reserving <=> pc[u] \in Reserving,
         l \in HoldsCapacity => capMu' = u,
         l = "reserving" => Blobs \subseteq snap'
  PROVE  CapacityInv'
<1>1. \A v \in Uploaders : v \in Procs /\ pc'[v] = IF v = u THEN l ELSE pc[v]
  BY DEF Goto, TypeInv, TypeOK, Procs
<1>2. \A v \in Uploaders \ {u} : pc[v] \in HoldsCapacity => capMu = v /\ v # NoOne
  BY NamesAssumption DEF CapacityInv, LockHeld
<1>3. \A v \in Uploaders : pc[v] = "reserving" => pc[v] \in HoldsCapacity /\ Blobs \subseteq snap
  BY DEF HoldsCapacity, CapacityInv, WalkSeesAll
<1>4. \A v \in Uploaders :
        /\ pc'[v] \in Claiming => pc[v] \in Claiming
        /\ pc'[v] \in Reserving <=> pc[v] \in Reserving
        /\ pc'[v] \in HoldsCapacity => capMu' = v
        /\ pc'[v] = "reserving" => Blobs \subseteq snap'
  BY <1>1, <1>2, <1>3
<1> QED
  BY <1>4, QuietStep

\* reserveCapacity takes no more than is left beside blobs and claims.
LEMMA ReserveKeepsCapacity ==
  ASSUME TypeInv, CapacityInv, NEW u \in Uploaders, Reserve(u)
  PROVE  CapacityInv'
<1>1. PICK S \in SUBSET snap :
        /\ (Blobs \cap snap \subseteq S /\ WalkSucceeds) \/ WalkFails
        /\ \/ /\ Available(S) <= 0
              /\ Finish(u, "ErrCap", "idle")
              /\ UNCHANGED <<res, reservations>>
           \/ /\ Available(S) > 0
              /\ res' = [res EXCEPT ![u] = ClaimFor(Available(S))]
              /\ reservations' = reservations + ClaimFor(Available(S))
              /\ Goto(u, "hash")
              /\ UNCHANGED answer
  BY DEF Reserve
<1>2. /\ pc[u] = "reserving" /\ capMu' = NoOne /\ UNCHANGED <<file, size>>
      /\ u \in Procs /\ capMu = u
  BY DEF Reserve, disk, CapacityInv, LockHeld, HoldsCapacity, Procs
<1>3. /\ Blobs' = Blobs /\ S \in SUBSET Ids /\ MissedGrows
      /\ missed' = missed + 1 \/ Blobs \subseteq S
  BY <1>1, <1>2 DEF Blobs, CapacityInv, WalkSeesAll, TypeInv, TypeOK, WalkSucceeds, WalkFails, MissedGrows
<1>4. CASE Finish(u, "ErrCap", "idle") /\ UNCHANGED <<res, reservations>>
  <2>1. Goto(u, "idle")
    BY <1>4 DEF Finish
  <2>2. /\ "idle" \notin Claiming /\ "idle" \notin Reserving /\ "idle" \notin HoldsCapacity
        /\ "reserving" \notin Reserving
    BY DEF Claiming, Reserving, HoldsCapacity, Publishing
  <2>3. \A v \in Uploaders : v \in Procs /\ pc'[v] = IF v = u THEN "idle" ELSE pc[v]
    BY <2>1 DEF Goto, TypeInv, TypeOK, Procs
  <2>4. \A v \in Uploaders : pc'[v] \in HoldsCapacity => FALSE
    BY <1>2, <2>2, <2>3 DEF CapacityInv, LockHeld
  <2>5. \A v \in Uploaders : pc'[v] # "reserving"
    BY <2>4 DEF HoldsCapacity
  <2> QED
    BY <1>2, <1>3, <1>4, <2>2, <2>3, <2>4, <2>5, QuietStep
<1>5. CASE /\ Available(S) > 0
           /\ res' = [res EXCEPT ![u] = ClaimFor(Available(S))]
           /\ reservations' = reservations + ClaimFor(Available(S))
           /\ Goto(u, "hash")
  <2> DEFINE claim == ClaimFor(Available(S))
  <2>1. \A v \in Uploaders : v \in Procs /\ pc'[v] = IF v = u THEN "hash" ELSE pc[v]
    BY <1>5 DEF Goto, TypeInv, TypeOK, Procs
  <2>2. /\ "hash" \in Claiming /\ "hash" \in Reserving /\ "hash" \notin HoldsCapacity
        /\ "reserving" \notin Reserving /\ "reserving" \notin Claiming
        /\ "reserving" \in HoldsCapacity
    BY DEF Claiming, Reserving, HoldsCapacity, Publishing
  <2>3. LockHeld' /\ WalkSeesAll'
    BY <1>2, <2>1, <2>2 DEF CapacityInv, LockHeld, WalkSeesAll
  <2>4. /\ u \notin Reservers /\ u \notin Claimants
        /\ Reservers' = Reservers \cup {u} /\ Claimants' = Claimants \cup {u}
    BY <1>2, <2>1, <2>2 DEF Reservers, Claimants
  <2>5. Available(S) \in Int /\ UsedBy(S) \in Nat /\ reservations \in Nat
    BY <1>3, UsedByType, CapacityAssumption DEF Available, TypeInv, TypeOK
  <2>6. claim \in 0..MaxUpload /\ claim <= Available(S) /\ claim \in Nat
    BY <1>5, <2>5, CapacityAssumption DEF ClaimFor
  <2>7. res'[u] = claim /\ \A v \in Uploaders \ {u} : res'[v] = res[v]
    BY <1>5 DEF TypeInv, TypeOK
  <2> HIDE DEF claim
  <2>8. ClaimsOf(Reservers)' = ClaimsOf(Reservers) + claim
    <3>1. Total(Reservers, res') = Total(Reservers, res)
      BY <2>4, <2>7, SetsFinite, TotalAgree
    <3>2. Total(Reservers \cup {u}, res') = Total(Reservers, res') + res'[u]
      BY <2>4, <2>6, <2>7, SetsFinite, TotalAdd
    <3> QED
      BY <2>4, <2>7, <3>1, <3>2 DEF ClaimsOf
  <2>9. ClaimsOf(Claimants)' = ClaimsOf(Claimants) + claim
    <3>1. Total(Claimants, res') = Total(Claimants, res)
      BY <2>4, <2>7, SetsFinite, TotalAgree
    <3>2. Total(Claimants \cup {u}, res') = Total(Claimants, res') + res'[u]
      BY <2>4, <2>6, <2>7, SetsFinite, TotalAdd
    <3> QED
      BY <2>4, <2>7, <3>1, <3>2 DEF ClaimsOf
  <2>10. ReservationsExact'
    BY <1>5, <2>8 DEF claim, ReservationsExact, CapacityInv
  <2>11. UsedBytes' = UsedBytes /\ (missed' = missed + 1 \/ UsedBytes <= UsedBy(S))
    <3>1. UsedBytes' = UsedBytes
      BY <1>2, <1>3 DEF UsedBytes, UsedBy
    <3>2. missed' = missed + 1 \/ UsedBytes <= UsedBy(S)
      BY <1>3, FS_Subset, SetsAssumption, TotalMono DEF UsedBytes, UsedBy
    <3> QED
      BY <3>1, <3>2
  <2>12. claim <= Cap - UsedBy(S) - reservations
    BY <2>6 DEF Available
  <2>13. ClaimsOf(Claimants) <= reservations
    BY SumsTyped DEF CapacityInv, ReservationsExact
  <2>14. CapacityRespected'
    <3>1. UsedBytes + ClaimsOf(Claimants) <= Cap + Slack
      BY DEF CapacityInv, CapacityRespected, Slack
    <3>2. UsedBytes' + ClaimsOf(Claimants)' <= Cap + Slack'
      BY <1>3, <2>5, <2>6, <2>9, <2>11, <2>12, <2>13, <3>1, SlackGrows, SumsTyped, CapacityAssumption
    <3> QED
      BY <3>2 DEF CapacityRespected, Slack
  <2> QED
    BY <2>3, <2>10, <2>14 DEF CapacityInv
<1> QED
  BY <1>1, <1>4, <1>5

\* The final check makes room for the blob that is committed, and the commit
\* turns the uploader's claim into stored bytes.
LEMMA CommitKeepsCapacity ==
  ASSUME TypeInv, CapacityInv, NEW u \in Uploaders, Commit(u)
  PROVE  CapacityInv'
<1>1. /\ pc[u] = "check"
      /\ Admits(u, Blobs) \/ missed' = missed + 1
      /\ u \in Procs /\ MissedGrows
      /\ UNCHANGED <<capMu, reservations, res, got, snap>>
  BY DEF Commit, Procs, WalkSucceeds, WalkFails, MissedGrows
<1>2. CASE RenameFails(u)
  <2>1. Goto(u, "unlock") /\ Blobs' = Blobs /\ UNCHANGED size
    BY <1>2 DEF RenameFails, Finish, disk, Blobs
  <2>2. capMu = u
    BY <1>1 DEF CapacityInv, LockHeld, HoldsCapacity, Publishing
  <2>3. /\ "unlock" \notin Claiming /\ "unlock" \in Reserving /\ "check" \in Reserving
        /\ "unlock" # "reserving"
    BY DEF Claiming, Reserving
  <2> QED
    BY <1>1, <2>1, <2>2, <2>3, QuietMove
<1>3. CASE /\ file' = [file EXCEPT ![target[u]] = "regular"]
           /\ size' = [size EXCEPT ![target[u]] = got[u]]
           /\ Goto(u, "insert")
  <2> DEFINE t == target[u]
             others == Blobs \ {t}
  <2>1. t \in Ids
    BY <1>1, UploadLabels DEF TypeInv, TargetsKnown
  <2>2. \A v \in Uploaders : v \in Procs /\ pc'[v] = IF v = u THEN "insert" ELSE pc[v]
    BY <1>3 DEF Goto, TypeInv, TypeOK, Procs
  <2>3. /\ "insert" \notin Claiming /\ "insert" \in Reserving /\ "insert" \in HoldsCapacity
        /\ "check" \in Claiming /\ "check" \in Reserving /\ "check" \in HoldsCapacity
        /\ "reserving" \in HoldsCapacity /\ "insert" # "reserving"
    BY DEF Claiming, Reserving, HoldsCapacity, Publishing
  <2>4. \A v \in Uploaders : pc[v] \in HoldsCapacity => v = u
    BY <1>1, <2>3 DEF CapacityInv, LockHeld
  <2>5. LockHeld' /\ WalkSeesAll'
    BY <1>1, <2>2, <2>3, <2>4 DEF CapacityInv, LockHeld, WalkSeesAll
  <2>6. Reservers' = Reservers /\ Claimants' = Claimants \ {u} /\ u \in Reservers
    BY <1>1, <2>2, <2>3 DEF Reservers, Claimants
  <2>7. ReservationsExact'
    BY <1>1, <2>6 DEF CapacityInv, ReservationsExact, ClaimsOf
  <2>8. Blobs' = others \cup {t} /\ t \notin others
    BY <1>3, <2>1 DEF Blobs, TypeInv, TypeOK
  <2>9. /\ got[u] \in 0..MaxUpload /\ got[u] \in Nat
        /\ res[u] \in 0..MaxUpload /\ res[u] \in Nat /\ reservations \in Nat
    BY CapacityAssumption DEF TypeInv, TypeOK
  <2>10. size'[t] = got[u] /\ \A i \in others : size'[i] = size[i]
    BY <1>3, <2>1, SetsFinite DEF TypeInv, TypeOK
  <2> HIDE DEF others, t
  <2>11. IsFiniteSet(others) /\ others \in SUBSET Blobs
    BY SetsFinite, FS_Subset DEF others
  <2>12. UsedBytes' <= UsedBytes + got[u]
    <3>1. Total(others \cup {t}, size') = Total(others, size') + size'[t]
      BY <2>8, <2>9, <2>10, <2>11, TotalAdd
    <3>2. Total(others, size') = Total(others, size)
      BY <2>10, TotalAgree
    <3>3. Total(others, size) <= Total(Blobs, size) /\ Total(others, size) \in Nat
      BY <2>11, SetsFinite, TotalMono, TotalType
    <3>4. UsedBytes' = Total(others, size) + got[u]
      BY <2>8, <2>10, <3>1, <3>2 DEF UsedBytes, UsedBy
    <3>5. UsedBytes = Total(Blobs, size)
      BY DEF UsedBytes, UsedBy
    <3> QED
      BY <2>9, <3>3, <3>4, <3>5, SumsTyped
  <2>13. ClaimsOf(Claimants)' <= reservations - res[u]
    <3>1. ClaimsOf(Reservers) = Total(Reservers \ {u}, res) + res[u]
      BY <2>6, <2>9, SetsFinite, TotalRemove DEF ClaimsOf
    <3>2. /\ Claimants \ {u} \in SUBSET (Reservers \ {u}) /\ IsFiniteSet(Reservers \ {u})
      BY SetsFinite, FS_Subset
    <3>3. Total(Claimants \ {u}, res) <= Total(Reservers \ {u}, res)
      BY <3>2, TotalMono
    <3>4. Total(Reservers \ {u}, res) \in Nat /\ Total(Claimants \ {u}, res) \in Nat
      BY <3>2, FS_Subset, TotalType
    <3>5. ClaimsOf(Claimants)' = Total(Claimants \ {u}, res)
      BY <1>1, <2>6 DEF ClaimsOf
    <3> QED
      BY <2>9, <3>1, <3>3, <3>4, <3>5 DEF CapacityInv, ReservationsExact
  <2>14. \/ missed' = missed + 1
         \/ UsedBytes + got[u] + (reservations - res[u]) <= Cap
    BY <1>1 DEF Admits, UsedBytes
  <2>15. (UsedBytes \in Nat /\ ClaimsOf(Claimants) \in Nat)'
    BY SumsTyped, PTL
  <2>16. CapacityRespected'
    <3>1. UsedBytes + ClaimsOf(Claimants) <= Cap + Slack
      BY DEF CapacityInv, CapacityRespected, Slack
    <3>2. ClaimsOf(Claimants)' <= ClaimsOf(Claimants)
      BY <1>1, <2>6, SetsFinite, TotalMono DEF ClaimsOf
    <3>3. CASE missed' = missed + 1
      <4>1. Slack' = Slack + MaxUpload /\ Slack \in Nat
        BY <1>1, <3>3, SlackGrows
      <4>2. UsedBytes' + ClaimsOf(Claimants)' <= Cap + Slack'
        BY <2>9, <2>12, <2>15, <3>1, <3>2, <4>1, SumsTyped, CapacityAssumption
      <4> QED
        BY <4>2 DEF CapacityRespected, Slack
    <3>4. CASE UsedBytes + got[u] + (reservations - res[u]) <= Cap
      <4>1. Slack' \in Nat
        BY <1>1, SlackGrows
      <4>2. UsedBytes' + ClaimsOf(Claimants)' <= Cap + Slack'
        BY <2>9, <2>12, <2>13, <2>15, <3>4, <4>1, SumsTyped, CapacityAssumption
      <4> QED
        BY <4>2 DEF CapacityRespected, Slack
    <3> QED
      BY <2>14, <3>3, <3>4
  <2> QED
    BY <2>5, <2>7, <2>16 DEF CapacityInv
<1> QED
  BY <1>2, <1>3 DEF Commit, Publish

\* releaseCapacity gives back what the uploader holds, no more and no less.
LEMMA ReleaseKeepsCapacity ==
  ASSUME TypeInv, CapacityInv, NEW u \in Uploaders, Release(u)
  PROVE  CapacityInv'
<1>1. /\ pc[u] = "release" /\ Goto(u, "idle") /\ res' = [res EXCEPT ![u] = 0]
      /\ reservations' = IF reservations <= res[u] THEN 0 ELSE reservations - res[u]
      /\ UNCHANGED <<file, size, capMu, snap, missed>>
  BY DEF Release, disk
<1>2. \A v \in Uploaders : v \in Procs /\ pc'[v] = IF v = u THEN "idle" ELSE pc[v]
  BY <1>1 DEF Goto, TypeInv, TypeOK, Procs
<1>3. /\ "idle" \notin Claiming /\ "idle" \notin Reserving /\ "idle" \notin HoldsCapacity
      /\ "release" \notin Claiming /\ "release" \in Reserving /\ "idle" # "reserving"
  BY DEF Claiming, Reserving, HoldsCapacity, Publishing
<1>4. Blobs' = Blobs /\ UsedBytes' = UsedBytes
  BY <1>1 DEF Blobs, UsedBytes, UsedBy
<1>5. LockHeld' /\ WalkSeesAll'
  BY <1>1, <1>2, <1>3, <1>4 DEF CapacityInv, LockHeld, WalkSeesAll
<1>6. /\ Reservers' = Reservers \ {u} /\ u \in Reservers
      /\ Claimants' = Claimants /\ u \notin Claimants
  BY <1>1, <1>2, <1>3 DEF Reservers, Claimants
<1>7. \A v \in Uploaders \ {u} : res'[v] = res[v]
  BY <1>1 DEF TypeInv, TypeOK
<1>8. res[u] \in 0..MaxUpload /\ res[u] \in Nat /\ reservations \in Nat
  BY CapacityAssumption DEF TypeInv, TypeOK
<1>9. ReservationsExact'
  <2>1. ClaimsOf(Reservers) = Total(Reservers \ {u}, res) + res[u]
    BY <1>6, <1>8, SetsFinite, TotalRemove DEF ClaimsOf
  <2>2. Total(Reservers \ {u}, res) \in Nat
    BY SetsFinite, FS_Subset, TotalType
  <2>3. Total(Reservers \ {u}, res') = Total(Reservers \ {u}, res)
    BY <1>7, SetsFinite, TotalAgree
  <2>4. ClaimsOf(Reservers)' = Total(Reservers \ {u}, res)
    BY <1>6, <2>3 DEF ClaimsOf
  <2>5. reservations = Total(Reservers \ {u}, res) + res[u]
    BY <2>1 DEF CapacityInv, ReservationsExact
  <2> QED
    BY <1>1, <1>8, <2>2, <2>4, <2>5 DEF ReservationsExact
<1>10. ClaimsOf(Claimants)' = ClaimsOf(Claimants)
  <2>1. Total(Claimants, res') = Total(Claimants, res)
    BY <1>6, <1>7, SetsFinite, TotalAgree
  <2> QED
    BY <1>6, <2>1 DEF ClaimsOf
<1>11. CapacityRespected'
  BY <1>1, <1>4, <1>10 DEF CapacityInv, CapacityRespected
<1> QED
  BY <1>5, <1>9, <1>11 DEF CapacityInv

\* Where the labels of an upload stand to the sums and to capMu.
LEMMA SidesOfLabels ==
  /\ {"hash", "hashing", "stage", "staging", "lockCapacity", "unprotected2", "lockStorage",
      "check"} \subseteq Claiming
  /\ {"hash", "hashing", "stage", "staging", "lockCapacity", "unprotected2", "lockStorage",
      "check", "insert", "unlock", "unstage", "release"} \subseteq Reserving
  /\ {"idle", "unprotected1", "reserve", "reserving"} \cap Reserving = {}
  /\ {"insert", "unlock", "unstage", "release", "idle", "unprotected1", "reserve",
      "reserving"} \cap Claiming = {}
  /\ {"reserving", "unprotected2", "lockStorage", "check", "insert", "unlock"}
       \subseteq HoldsCapacity
  /\ {"idle", "unprotected1", "reserve", "hash", "hashing", "stage", "staging", "lockCapacity",
      "unstage", "release"} \cap HoldsCapacity = {}
  BY DEF Claiming, Reserving, HoldsCapacity, Publishing

\* An upload's steps keep the sums: they claim, store and give back what is
\* theirs.
LEMMA UploadKeepsCapacity ==
  ASSUME TypeInv, CapacityInv, NEW u \in Uploaders, Upload(u)
  PROVE  CapacityInv'
<1>0. pc[u] \in HoldsCapacity => capMu = u
  BY DEF CapacityInv, LockHeld
<1>1. CASE BeginUpload(u)
  BY <1>1, QuietMove, SidesOfLabels DEF MissedGrows, BeginUpload, Finish, disk, Blobs
<1>2. CASE ListForReserve(u)
  BY <1>2, QuietMove, SidesOfLabels DEF MissedGrows, ListForReserve, disk, Blobs
<1>3. CASE LockHash(u)
  BY <1>3, QuietMove, SidesOfLabels DEF MissedGrows, LockHash, disk, uploads, Blobs
<1>4. CASE Hash(u)
  BY <1>4, QuietMove, SidesOfLabels DEF MissedGrows, Hash, Finish, disk, Blobs
<1>5. CASE OpenStaging(u)
  BY <1>5, QuietMove, SidesOfLabels DEF MissedGrows, OpenStaging, Finish, Blobs
<1>6. CASE StageBody(u)
  BY <1>6, QuietMove, SidesOfLabels DEF MissedGrows, StageBody, Finish, disk, Blobs
<1>7. CASE RefuseBody(u)
  BY <1>7, QuietMove, SidesOfLabels DEF MissedGrows, RefuseBody, Finish, Blobs
<1>8. CASE LockCapacity(u)
  BY <1>8, QuietMove, SidesOfLabels DEF MissedGrows, LockCapacity, disk, uploads, Blobs
<1>9. CASE LockStorage(u)
  BY <1>0, <1>9, QuietMove, SidesOfLabels DEF MissedGrows, LockStorage, disk, uploads, Blobs
<1>10. CASE RejectOverCap(u)
  BY <1>0, <1>10, QuietMove, SidesOfLabels DEF MissedGrows, RejectOverCap, Finish, disk, Blobs
<1>11. CASE InsertRow(u)
  BY <1>0, <1>11, QuietMove, SidesOfLabels DEF MissedGrows, InsertRow, Finish, disk, Blobs
<1>12. CASE RollBack(u)
  <2>1. Blobs' \subseteq Blobs
    BY <1>12 DEF RollBack, Blobs, TypeInv, TypeOK
  <2> QED
    BY <1>0, <1>12, <2>1, QuietMove, SidesOfLabels DEF MissedGrows, RollBack, Finish
<1>13. CASE Unlock(u)
  BY <1>0, <1>13, QuietMove, SidesOfLabels DEF MissedGrows, Unlock, disk, uploads, Blobs
<1>14. CASE Unstage(u)
  BY <1>14, QuietMove, SidesOfLabels DEF MissedGrows, Unstage, uploads, Blobs
<1>15. CASE Reserve(u) \/ Commit(u) \/ Release(u)
  BY <1>15, ReserveKeepsCapacity, CommitKeepsCapacity, ReleaseKeepsCapacity
<1> QED
  BY <1>1, <1>2, <1>3, <1>4, <1>5, <1>6, <1>7, <1>8, <1>9, <1>10, <1>11, <1>12, <1>13, <1>14,
     <1>15 DEF Upload, UploadStep, UploadRuns, BodyEnds

-----------------------------------------------------------------------------
(* Everything else                                                         *)

\* A request at most removes a blob.
LEMMA RequestKeepsCapacity ==
  ASSUME TypeInv, CapacityInv, NEW c \in Clients, Request(c)
  PROVE  CapacityInv'
<1>1. \A l : \A u \in Uploaders : Goto(c, l) => pc'[u] = pc[u]
  BY NamesAssumption DEF Goto, TypeInv, TypeOK, Procs
<1>2. UNCHANGED <<file, size, res, reservations, capMu, snap, missed>>
  BY DEF Request, RequestArrives, RequestRuns, OpenPage, OpenShare, GetRow, LookAtBlob, Serve,
         ShowSharePage, SelectShares, DeleteNext, DeleteDone, disk, uploads
<1>3. \A u \in Uploaders : pc'[u] = pc[u]
  BY <1>1 DEF Request, RequestArrives, RequestRuns, OpenPage, OpenShare, GetRow, LookAtBlob,
              Answered, Serve, ShowSharePage, SelectShares, DeleteNext, DeleteDone
<1>4. Blobs' \subseteq Blobs
  BY <1>2 DEF Blobs
<1> QED
  BY <1>2, <1>3, <1>4, StillStep

\* So do the clock, the maintenance, a crash and an edit from outside.
LEMMA OtherKeepsCapacity ==
  ASSUME TypeInv, CapacityInv, ClearStaging \/ Midnight \/ Crash \/ Tick \/ \E i \in Ids : Tamper(i)
  PROVE  CapacityInv'
<1>1. CASE ClearStaging \/ Midnight
  <2>1. \A l : \A u \in Uploaders : Goto(Cleaner, l) => pc'[u] = pc[u]
    BY NamesAssumption DEF Goto, TypeInv, TypeOK, Procs
  <2> QED
    BY <1>1, <2>1, StillStep DEF ClearStaging, Midnight, disk, uploads, Blobs
<1>2. CASE Tick
  BY <1>2, StillStep DEF Tick, disk, uploads, goroutines, Blobs
<1>3. ASSUME NEW i \in Ids, Tamper(i) PROVE CapacityInv'
  <2>1. Blobs' \subseteq Blobs
    BY <1>3 DEF Tamper, Blobs, TypeInv, TypeOK
  <2> QED
    BY <1>3, <2>1, StillStep DEF Tamper, uploads, goroutines
<1>4. CASE Crash
  <2>1. \A u \in Uploaders : pc'[u] = "idle"
    BY <1>4, NamesAssumption DEF Crash, Procs
  <2>2. Reservers' = {} /\ Claimants' = {}
    BY <2>1, SidesOfLabels DEF Reservers, Claimants
  <2>3. LockHeld' /\ WalkSeesAll'
    BY <2>1, SidesOfLabels DEF LockHeld, WalkSeesAll
  <2>4. ReservationsExact'
    BY <1>4, <2>2, TotalEmpty DEF Crash, ReservationsExact, ClaimsOf
  <2>5. UsedBytes' = UsedBytes
    BY <1>4 DEF Crash, disk, UsedBytes, UsedBy, Blobs
  <2>6. ClaimsOf(Claimants)' = 0
    BY <2>2, TotalEmpty DEF ClaimsOf
  <2>7. CapacityRespected'
    <3>1. missed' = missed /\ UsedBytes + ClaimsOf(Claimants) <= Cap + Slack
      BY <1>4 DEF Crash, CapacityInv, CapacityRespected, Slack
    <3>2. Slack \in Nat /\ Slack' = Slack
      BY <3>1, SlackGrows DEF MissedGrows, Slack
    <3>3. UsedBytes' + ClaimsOf(Claimants)' <= Cap + Slack'
      BY <2>5, <2>6, <3>1, <3>2, SumsTyped, CapacityAssumption
    <3> QED
      BY <3>3 DEF CapacityRespected, Slack
  <2> QED
    BY <2>3, <2>4, <2>7 DEF CapacityInv
<1> QED
  BY <1>1, <1>2, <1>3, <1>4

\* Every step keeps the invariant.
LEMMA StepKeepsCapacity == TypeInv /\ CapacityInv /\ [Next]_vars => CapacityInv'
<1> SUFFICES ASSUME TypeInv, CapacityInv, [Next]_vars PROVE CapacityInv'
  OBVIOUS
<1>1. CASE UNCHANGED vars
  BY <1>1, StillStep DEF vars, disk, goroutines, uploads, Blobs
<1>2. CASE Next
  BY <1>2, UploadKeepsCapacity, RequestKeepsCapacity, PassKeepsCapacity, OtherKeepsCapacity DEF Next
<1> QED
  BY <1>1, <1>2

\* The invariant holds in every reachable state.
LEMMA CapacityInvariant == Spec => []CapacityInv
<1>1. Init => TypeInv /\ CapacityInv
  BY InitTypeInv, CapacityInit
<1>2. TypeInv /\ CapacityInv /\ [Next]_vars => (TypeInv /\ CapacityInv)'
  BY StepTypes, StepKeepsCapacity
<1> QED
  BY <1>1, <1>2, PTL DEF Spec

\* The storage cap holds in every reachable state: stored blobs and the claims
\* of uploads under way fit STORAGE_CAP_BYTES, but for one upload limit per walk
\* of UsedBytes whose error was dropped (blobstore.go:82-88).
THEOREM CapacityHolds == Spec => []CapacityRespected
<1>1. CapacityInv => CapacityRespected
  BY DEF CapacityInv
<1> QED
  BY <1>1, CapacityInvariant, PTL

\* The shared total is the sum of the claims in flight: no return path of Do
\* loses or leaks a claim.
THEOREM ReservationsAccounted == Spec => []ReservationsExact
<1>1. CapacityInv => ReservationsExact
  BY DEF CapacityInv
<1> QED
  BY <1>1, CapacityInvariant, PTL
=============================================================================
