-------------------------- MODULE DownloadBansProofs --------------------------
(***************************************************************************)
(* The guard of DownloadBans limits guesses, for any number of requests   *)
(* and addresses, any limit, any window, and any failures and crashes.    *)
(*                                                                        *)
(* GuessesLimited counts what was answered, recordFailure counts rows of  *)
(* the database: the two agree because a request that was told its        *)
(* password was wrong is remembered for as long as it counts, and the one *)
(* that is about to be told has its own row already.                      *)
(***************************************************************************)
EXTENDS DownloadBans, FiniteSetTheorems, TLAPS

NobodyAhead == \A r \in Requests : at[r] <= now

DeniedAtTheEnd == \A r \in Requests : answer[r] = "denied" => pc[r] \in {"unlock", "done"}

DeniedRemembered ==
  \A r \in Requests : answer[r] = "denied" /\ at[r] > now - Window => r \in events

OwnEventStored == \A r \in Requests : pc[r] \in {"prune", "count"} => r \in events

\* What the proof needs of every state besides GuessesLimited itself.
GuardInv == TypeOK /\ NobodyAhead /\ DeniedAtTheEnd /\ DeniedRemembered /\ OwnEventStored

-----------------------------------------------------------------------------

\* The invariant holds at the start.
LEMMA InitGuard == Init => GuardInv
BY GuardAssumption DEF Init, GuardInv, TypeOK, NobodyAhead, DeniedAtTheEnd, DeniedRemembered,
  OwnEventStored, Labels, Locked, Answers, NoBan

\* A failing call uses up one fault.
LEMMA FailsType == ASSUME faults \in Nat, NEW call, Fails(call) PROVE faults' \in Nat
BY DEF Fails

\* Types, and the mutex.
LEMMA TypesKept == ASSUME TypeOK, [Next]_vars PROVE TypeOK'
<1> USE GuardAssumption DEF TypeOK, Labels, Locked, Answers, Goto, Finish, Succeeds, locals, bounds, NoBan
<1>1. ASSUME NEW r \in Requests, Arrive(r) PROVE TypeOK'
  BY <1>1 DEF Arrive
<1>2. ASSUME NEW r \in Requests, ReadBan(r) PROVE TypeOK'
  BY <1>2, FailsType DEF ReadBan
<1>3. ASSUME NEW r \in Requests, LiftBan(r) PROVE TypeOK'
  BY <1>3, FailsType DEF LiftBan, SetBan
<1>4. ASSUME NEW r \in Requests, CheckPassword(r) PROVE TypeOK'
  BY <1>4 DEF CheckPassword
<1>5. ASSUME NEW r \in Requests, LockGuard(r) PROVE TypeOK'
  BY <1>5 DEF LockGuard
<1>6. ASSUME NEW r \in Requests, RecordFailure(r) PROVE TypeOK'
  BY <1>6, FailsType DEF RecordFailure, GiveUp
<1>7. ASSUME NEW r \in Requests, PruneFailures(r) PROVE TypeOK'
  BY <1>7, FailsType DEF PruneFailures, GiveUp
<1>8. ASSUME NEW r \in Requests, CountFailures(r) PROVE TypeOK'
  BY <1>8, FailsType DEF CountFailures, GiveUp
<1>9. ASSUME NEW r \in Requests, FindBan(r) PROVE TypeOK'
  BY <1>9, FailsType DEF FindBan, GiveUp
<1>10. ASSUME NEW r \in Requests, WriteBan(r) PROVE TypeOK'
  BY <1>10, FailsType DEF WriteBan, GiveUp, SetBan
<1>11. ASSUME NEW r \in Requests, Unlock(r) PROVE TypeOK'
  BY <1>11 DEF Unlock
<1>12. ASSUME Crash PROVE TypeOK'
  BY <1>12 DEF Crash
<1>13. ASSUME Tick PROVE TypeOK'
  BY <1>13 DEF Tick
<1>14. CASE UNCHANGED vars
  BY <1>14 DEF vars
<1> QED
  BY <1>1, <1>2, <1>3, <1>4, <1>5, <1>6, <1>7, <1>8, <1>9, <1>10, <1>11, <1>12, <1>13, <1>14
  DEF Next, Steps

\* What is remembered is pruned only when it no longer counts, by a request
\* that is not ahead of the clock, and by the only one that is not done with
\* its own row: the holder of the mutex.
LEMMA GuardKept == ASSUME GuardInv, [Next]_vars PROVE GuardInv'
<1> DEFINE Rest == NobodyAhead /\ DeniedAtTheEnd /\ DeniedRemembered /\ OwnEventStored
<1>0. TypeOK'
  BY TypesKept DEF GuardInv
<1> SUFFICES Rest'
  BY <1>0 DEF GuardInv
<1> USE GuardAssumption DEF GuardInv, TypeOK, Labels, Locked, Answers, Goto, Finish, locals, bounds,
    NobodyAhead, DeniedAtTheEnd, DeniedRemembered, OwnEventStored
<1>1. ASSUME NEW r \in Requests, Arrive(r) PROVE Rest'
  BY <1>1 DEF Arrive
<1>2. ASSUME NEW r \in Requests, ReadBan(r) PROVE Rest'
  BY <1>2 DEF ReadBan
<1>3. ASSUME NEW r \in Requests, LiftBan(r) PROVE Rest'
  BY <1>3 DEF LiftBan
<1>4. ASSUME NEW r \in Requests, CheckPassword(r) PROVE Rest'
  BY <1>4 DEF CheckPassword
<1>5. ASSUME NEW r \in Requests, LockGuard(r) PROVE Rest'
  BY <1>5 DEF LockGuard
<1>6. ASSUME NEW r \in Requests, RecordFailure(r) PROVE Rest'
  BY <1>6 DEF RecordFailure, GiveUp
<1>7. ASSUME NEW r \in Requests, PruneFailures(r) PROVE Rest'
  BY <1>7 DEF PruneFailures, GiveUp, Stale
<1>8. ASSUME NEW r \in Requests, CountFailures(r) PROVE Rest'
  BY <1>8 DEF CountFailures, GiveUp
<1>9. ASSUME NEW r \in Requests, FindBan(r) PROVE Rest'
  BY <1>9 DEF FindBan, GiveUp
<1>10. ASSUME NEW r \in Requests, WriteBan(r) PROVE Rest'
  BY <1>10 DEF WriteBan, GiveUp
<1>11. ASSUME NEW r \in Requests, Unlock(r) PROVE Rest'
  BY <1>11 DEF Unlock
<1>12. ASSUME Crash PROVE Rest'
  BY <1>12 DEF Crash
<1>13. ASSUME Tick PROVE Rest'
  BY <1>13 DEF Tick
<1>14. CASE UNCHANGED vars
  BY <1>14 DEF vars
<1> QED
  BY <1>1, <1>2, <1>3, <1>4, <1>5, <1>6, <1>7, <1>8, <1>9, <1>10, <1>11, <1>12, <1>13, <1>14
  DEF Next, Steps

-----------------------------------------------------------------------------

\* A smaller set of answers is within the limit as well.
LEMMA FewerDenied ==
  ASSUME NEW D, NEW E \in SUBSET D, IsFiniteSet(D), Cardinality(D) <= Limit
  PROVE  Cardinality(E) <= Limit
<1>1. Cardinality(D) \in Nat /\ Cardinality(E) \in Nat
  BY FS_Subset, FS_CardinalityType
<1> QED
  BY <1>1, FS_Subset, GuardAssumption

\* Finitely many requests are denied lately, before and after a step.
LEMMA DeniedFinite == ASSUME NEW a PROVE IsFiniteSet(DeniedLately(a)) /\ IsFiniteSet(DeniedLately(a))'
BY FS_Subset, GuardAssumption DEF DeniedLately

\* Only CountFailures denies; then all that were denied, and the one that is,
\* are among the events it counted.
LEMMA DeniedAreCounted ==
  ASSUME GuardInv, NEW r \in Requests, pc[r] = "count"
  PROVE  DeniedLately(from[r]) \cup {r} \subseteq Recent(r)
BY GuardAssumption DEF GuardInv, TypeOK, NobodyAhead, DeniedRemembered, OwnEventStored, DeniedLately, Recent

\* A step that denies nobody keeps the limit, whatever the clock does.
LEMMA NobodyNewlyDenied ==
  ASSUME GuardInv, GuessesLimited, now' >= now, now' \in Nat, from' = from,
         \A q \in Requests : answer'[q] = "denied" => answer[q] = "denied" /\ at'[q] = at[q]
  PROVE  GuessesLimited'
<1> SUFFICES ASSUME NEW a \in Addresses PROVE Cardinality(DeniedLately(a)') <= Limit
  BY DEF GuessesLimited
<1>1. DeniedLately(a)' \subseteq DeniedLately(a)
  BY GuardAssumption DEF GuardInv, TypeOK, DeniedLately
<1> QED
  BY <1>1, FewerDenied, DeniedFinite DEF GuessesLimited

\* Every step keeps the limit: the one that denies has counted.
LEMMA GuessesStayLimited == ASSUME GuardInv, GuessesLimited, [Next]_vars PROVE GuessesLimited'
<1> DEFINE Quiet == /\ now' >= now /\ now' \in Nat /\ from' = from
                    /\ \A q \in Requests : answer'[q] = "denied" => answer[q] = "denied" /\ at'[q] = at[q]
<1> USE DEF GuardInv, TypeOK, DeniedAtTheEnd, Goto, Finish, locals
<1>1. ASSUME NEW r \in Requests, Arrive(r) PROVE Quiet
  BY <1>1 DEF Arrive
<1>2. ASSUME NEW r \in Requests, ReadBan(r) PROVE Quiet
  BY <1>2 DEF ReadBan
<1>3. ASSUME NEW r \in Requests, LiftBan(r) PROVE Quiet
  BY <1>3 DEF LiftBan
<1>4. ASSUME NEW r \in Requests, CheckPassword(r) PROVE Quiet
  BY <1>4 DEF CheckPassword
<1>5. ASSUME NEW r \in Requests, LockGuard(r) PROVE Quiet
  BY <1>5 DEF LockGuard
<1>6. ASSUME NEW r \in Requests, RecordFailure(r) PROVE Quiet
  BY <1>6 DEF RecordFailure, GiveUp
<1>7. ASSUME NEW r \in Requests, PruneFailures(r) PROVE Quiet
  BY <1>7 DEF PruneFailures, GiveUp
<1>8. ASSUME NEW r \in Requests, CountFailures(r) PROVE GuessesLimited'
  <2>1. CASE answer'[r] # "denied"
    <3>1. Quiet
      BY <1>8, <2>1 DEF CountFailures, GiveUp
    <3> QED
      BY <3>1, NobodyNewlyDenied
  <2>2. CASE answer'[r] = "denied"
    <3>1. Cardinality(Recent(r)) <= Limit /\ pc[r] = "count"
      BY <1>8, <2>2 DEF CountFailures, GiveUp
    <3> SUFFICES ASSUME NEW a \in Addresses PROVE Cardinality(DeniedLately(a)') <= Limit
      BY DEF GuessesLimited
    <3>2. DeniedLately(a)' \subseteq DeniedLately(a) \cup (IF a = from[r] THEN {r} ELSE {})
      BY <1>8 DEF CountFailures, GiveUp, DeniedLately
    <3>3. CASE a = from[r]
      <4>1. DeniedLately(a)' \in SUBSET Recent(r)
        BY <3>1, <3>2, <3>3, DeniedAreCounted
      <4>2. IsFiniteSet(Recent(r))
        BY FS_Subset, GuardAssumption DEF Recent
      <4> QED
        BY <3>1, <4>1, <4>2, FewerDenied
    <3>4. CASE a # from[r]
      BY <3>2, <3>4, FewerDenied, DeniedFinite DEF GuessesLimited
    <3> QED
      BY <3>3, <3>4
  <2> QED
    BY <2>1, <2>2
<1>9. ASSUME NEW r \in Requests, FindBan(r) PROVE Quiet
  BY <1>9 DEF FindBan, GiveUp
<1>10. ASSUME NEW r \in Requests, WriteBan(r) PROVE Quiet
  BY <1>10 DEF WriteBan, GiveUp
<1>11. ASSUME NEW r \in Requests, Unlock(r) PROVE Quiet
  BY <1>11 DEF Unlock
<1>12. ASSUME Crash PROVE Quiet
  BY <1>12 DEF Crash
<1>13. ASSUME Tick PROVE Quiet
  BY <1>13 DEF Tick
<1>14. ASSUME UNCHANGED vars PROVE Quiet
  BY <1>14 DEF vars
<1>15. Quiet => GuessesLimited'
  BY NobodyNewlyDenied
<1> QED
  BY <1>1, <1>2, <1>3, <1>4, <1>5, <1>6, <1>7, <1>8, <1>9, <1>10, <1>11, <1>12, <1>13, <1>14, <1>15
  DEF Next, Steps

\* However requests interleave, are delayed, meet failing calls or a crash: of the
\* requests of one address within the window, at most Limit are told that their
\* password was wrong (recordFailure, download.go:67-108).
THEOREM GuessesAreLimited == Spec => []GuessesLimited
<1>1. Init => GuessesLimited
  <2> SUFFICES ASSUME Init, NEW a \in Addresses PROVE Cardinality(DeniedLately(a)) <= Limit
    BY DEF GuessesLimited
  <2>1. DeniedLately(a) = {}
    BY DEF Init, DeniedLately
  <2> QED
    BY <2>1, FS_EmptySet, GuardAssumption
<1>2. GuardInv /\ GuessesLimited /\ [Next]_vars => (GuardInv /\ GuessesLimited)'
  BY GuardKept, GuessesStayLimited
<1> QED
  BY <1>1, <1>2, InitGuard, PTL DEF Spec

\* Types hold, and recordFailure runs under the mutex, on every path.
THEOREM GuardTypeCorrect == Spec => []TypeOK
<1>1. GuardInv /\ [Next]_vars => GuardInv'
  BY GuardKept
<1>2. GuardInv => TypeOK
  BY DEF GuardInv
<1> QED
  BY <1>1, <1>2, InitGuard, PTL DEF Spec

-----------------------------------------------------------------------------
(* Bans are earned                                                         *)

\* Rows are of failures that were recorded, and a recorded failure has arrived.
EventsFailed == events \subseteq failed /\ \A r \in failed : pc[r] # "new"

Counted == {"find", "create", "update"}

OwnFailureKnown == \A r \in Requests : pc[r] \in Counted \cup {"prune", "count"} => r \in failed

\* Who is about to write a ban has seen more than Limit failures.
CountedMany == \A r \in Requests : pc[r] \in Counted => Cardinality(HeldAgainst(r)) > Limit

\* BansEarned speaks of bans that are written; the invariant, of who may write one.
EarnInv == TypeOK /\ EventsFailed /\ OwnFailureKnown /\ CountedMany /\ BansEarned

\* The failures held against a request are finite in number.
LEMMA HeldFinite ==
  ASSUME TypeOK, NEW r
  PROVE  IsFiniteSet(HeldAgainst(r)) /\ Cardinality(HeldAgainst(r)) \in Nat
<1>1. IsFiniteSet(HeldAgainst(r))
  BY FS_Subset, GuardAssumption DEF HeldAgainst, TypeOK
<1> QED
  BY <1>1, FS_CardinalityType

\* Failures are never forgotten, nor moved in time: counts only grow.
LEMMA HeldGrow ==
  ASSUME TypeOK, TypeOK', failed \subseteq failed', from' = from,
         \A q \in failed : at'[q] = at[q], NEW r \in failed, Cardinality(HeldAgainst(r)) > Limit
  PROVE  Cardinality(HeldAgainst(r)') > Limit
<1>1. IsFiniteSet(HeldAgainst(r)')
  <2>1. HeldAgainst(r)' \subseteq Requests
    BY DEF HeldAgainst, TypeOK
  <2> QED
    BY <2>1, FS_Subset, GuardAssumption
<1>2. HeldAgainst(r) \subseteq HeldAgainst(r)'
  BY DEF HeldAgainst, TypeOK
<1>3. Cardinality(HeldAgainst(r)) <= Cardinality(HeldAgainst(r)')
  BY <1>1, <1>2, FS_Subset
<1> QED
  BY <1>1, <1>3, HeldFinite, FS_CardinalityType, GuardAssumption

\* A ban is kept, lifted, or written for somebody who has seen enough failures.
Written(a) == \E r \in failed : /\ from[r] = a
                                /\ \E d \in BanLengths : bans'[a] = at[r] + d
                                /\ Cardinality(HeldAgainst(r)) > Limit

\* Bans stay earned while failures are kept and bans are lifted, or written by
\* who counted.
LEMMA EarnedFrame ==
  ASSUME TypeOK, TypeOK', BansEarned, failed \subseteq failed', from' = from,
         \A q \in failed : at'[q] = at[q],
         \A a \in Addresses : bans'[a] = bans[a] \/ bans'[a] = NoBan \/ Written(a)
  PROVE  BansEarned'
<1> SUFFICES ASSUME NEW a \in Addresses, bans'[a] > OldBan
             PROVE  \E r \in failed' :
                      /\ from'[r] = a /\ \E d \in BanLengths : bans'[a] = at'[r] + d
                      /\ Cardinality(HeldAgainst(r)') > Limit
  BY DEF BansEarned
<1>1. bans'[a] = bans[a] \/ Written(a)
  BY GuardAssumption DEF NoBan
<1>2. PICK r \in failed :
        /\ from[r] = a /\ \E d \in BanLengths : bans'[a] = at[r] + d
        /\ Cardinality(HeldAgainst(r)) > Limit
  BY <1>1 DEF BansEarned, Written
<1>3. Cardinality(HeldAgainst(r)') > Limit
  BY <1>2, HeldGrow
<1> QED
  BY <1>2, <1>3

\* Every step keeps what a ban was earned by.
LEMMA EarnKept == ASSUME EarnInv, [Next]_vars PROVE EarnInv'
<1>0. TypeOK /\ TypeOK' /\ EventsFailed /\ OwnFailureKnown /\ CountedMany /\ BansEarned
  BY TypesKept DEF EarnInv
<1> DEFINE Lasting == /\ failed \subseteq failed' /\ from' = from /\ \A q \in failed : at'[q] = at[q]
                      /\ EventsFailed' /\ OwnFailureKnown'
           NoneCounted == \A r \in Requests : pc'[r] \in Counted => pc[r] \in Counted
           BansKept == \A a \in Addresses : bans'[a] = bans[a] \/ bans'[a] = NoBan \/ Written(a)
<1>s. Lasting /\ NoneCounted => CountedMany'
  BY <1>0, HeldGrow DEF CountedMany, OwnFailureKnown
<1>b. Lasting /\ BansKept => BansEarned'
  BY <1>0, EarnedFrame
<1>q. Lasting /\ CountedMany' /\ BansEarned' => EarnInv'
  BY <1>0 DEF EarnInv
<1>x. Lasting /\ NoneCounted /\ BansKept => EarnInv'
  BY <1>s, <1>b, <1>q
<1> USE <1>0 DEF TypeOK, EventsFailed, OwnFailureKnown, Counted, Goto, Finish, locals
<1>1. ASSUME NEW r \in Requests, Arrive(r) PROVE Lasting /\ NoneCounted /\ BansKept
  BY <1>1 DEF Arrive
<1>2. ASSUME NEW r \in Requests, ReadBan(r) PROVE Lasting /\ NoneCounted /\ BansKept
  BY <1>2 DEF ReadBan
<1>3. ASSUME NEW r \in Requests, LiftBan(r) PROVE Lasting /\ NoneCounted /\ BansKept
  BY <1>3 DEF LiftBan, SetBan
<1>4. ASSUME NEW r \in Requests, CheckPassword(r) PROVE Lasting /\ NoneCounted /\ BansKept
  BY <1>4 DEF CheckPassword
<1>5. ASSUME NEW r \in Requests, LockGuard(r) PROVE Lasting /\ NoneCounted /\ BansKept
  BY <1>5 DEF LockGuard
<1>6. ASSUME NEW r \in Requests, RecordFailure(r) PROVE Lasting /\ NoneCounted /\ BansKept
  BY <1>6 DEF RecordFailure, GiveUp
<1>7. ASSUME NEW r \in Requests, PruneFailures(r) PROVE Lasting /\ NoneCounted /\ BansKept
  BY <1>7 DEF PruneFailures, GiveUp
<1>8. ASSUME NEW r \in Requests, CountFailures(r) PROVE Lasting /\ BansKept /\ CountedMany'
  <2>1. Lasting /\ BansKept
    BY <1>8 DEF CountFailures, GiveUp
  <2>2. UNCHANGED <<from, at, failed, events>>
    BY <1>8 DEF CountFailures
  <2>3. ASSUME Cardinality(Recent(r)) > Limit PROVE Cardinality(HeldAgainst(r)) > Limit
    <3>1. Recent(r) \subseteq HeldAgainst(r)
      BY DEF Recent, HeldAgainst
    <3>2. IsFiniteSet(Recent(r)) /\ Cardinality(Recent(r)) <= Cardinality(HeldAgainst(r))
      BY <3>1, HeldFinite, FS_Subset
    <3> QED
      BY <2>3, <3>2, HeldFinite, FS_CardinalityType, GuardAssumption
  <2>4. \A q \in Requests : pc'[q] \in Counted => Cardinality(HeldAgainst(q)) > Limit
    BY <1>8, <2>3 DEF CountFailures, GiveUp, CountedMany
  <2>5. \A q \in Requests : HeldAgainst(q)' = HeldAgainst(q)
    BY <2>2 DEF HeldAgainst
  <2> QED
    BY <2>1, <2>4, <2>5 DEF CountedMany
<1>9. ASSUME NEW r \in Requests, FindBan(r) PROVE Lasting /\ NoneCounted /\ BansKept
  BY <1>9 DEF FindBan, GiveUp
<1>10. ASSUME NEW r \in Requests, WriteBan(r) PROVE Lasting /\ NoneCounted /\ BansKept
  <2>1. Lasting /\ NoneCounted
    BY <1>10 DEF WriteBan, GiveUp
  <2>2. r \in failed /\ Cardinality(HeldAgainst(r)) > Limit
    BY <1>10 DEF WriteBan, CountedMany
  <2>3. CASE bans' = bans
    BY <2>1, <2>3
  <2>4. CASE \E d \in BanLengths : bans' = [bans EXCEPT ![from[r]] = at[r] + d]
    BY <2>1, <2>2, <2>4 DEF Written
  <2> QED
    BY <1>10, <2>3, <2>4 DEF WriteBan, GiveUp, SetBan
<1>11. ASSUME NEW r \in Requests, Unlock(r) PROVE Lasting /\ NoneCounted /\ BansKept
  BY <1>11 DEF Unlock
<1>12. ASSUME Crash PROVE Lasting /\ NoneCounted /\ BansKept
  BY <1>12 DEF Crash
<1>13. ASSUME Tick PROVE Lasting /\ NoneCounted /\ BansKept
  BY <1>13 DEF Tick
<1>14. ASSUME UNCHANGED vars PROVE Lasting /\ NoneCounted /\ BansKept
  BY <1>14 DEF vars
<1> QED
  BY <1>1, <1>2, <1>3, <1>4, <1>5, <1>6, <1>7, <1>8, <1>9, <1>10, <1>11, <1>12, <1>13, <1>14,
     <1>x, <1>s, <1>b, <1>q DEF Next, Steps

\* A ban an address has is one an earlier process left, or is reckoned from a
\* failure of its own, with more than Limit recorded failures of its own since
\* one window before that one arrived (download.go:67-108).
THEOREM BansAreEarned == Spec => []BansEarned
<1>1. Init => EarnInv
  <2> SUFFICES ASSUME Init PROVE EarnInv
    OBVIOUS
  <2>1. TypeOK
    BY InitGuard DEF GuardInv
  <2>2. EventsFailed /\ OwnFailureKnown /\ CountedMany
    BY DEF Init, EventsFailed, OwnFailureKnown, CountedMany, Counted
  <2>3. BansEarned
    BY GuardAssumption DEF Init, BansEarned, NoBan
  <2> QED
    BY <2>1, <2>2, <2>3 DEF EarnInv
<1>2. EarnInv /\ [Next]_vars => EarnInv'
  BY EarnKept
<1>3. EarnInv => BansEarned
  BY DEF EarnInv
<1> QED
  BY <1>1, <1>2, <1>3, PTL DEF Spec
=============================================================================
