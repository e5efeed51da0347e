----------------------------- MODULE DownloadBans -----------------------------
(***************************************************************************)
(* internal/http/download.go and its caller apiDownloadPost: the guard    *)
(* that bans an address after too many failed download passwords.  Every  *)
(* database call is a step; recordFailure runs under the guard's mutex,   *)
(* the first look at the ban (bannedUntil, called by the handler) does    *)
(* not.                                                                   *)
(*                                                                        *)
(* Each request is served by a process of its own and fixes its time when *)
(* it arrives.  Failure events are identified by the request that failed. *)
(***************************************************************************)
EXTENDS Integers, FiniteSets

CONSTANTS
  Requests,     \* POST /api/v0/download requests
  Addresses,    \* client addresses
  NoRequest,    \* the holder of the mutex when nobody holds it
  Limit,        \* downloadFailureLimit
  Window,       \* downloadFailureWindow
  BanLengths,   \* downloadBanBase plus jitter
  OldBan,       \* the end of a ban an earlier process left behind
  DBFaults,     \* which database calls may fail
  MaxFaults,    \* bound on the number of failing calls
  MaxTime,      \* bound on the clock
  MaxCrashes    \* bound on the number of times the process dies

ASSUME GuardAssumption ==
  /\ IsFiniteSet(Requests) /\ NoRequest \notin Requests
  /\ Limit \in Nat /\ Window \in Nat \ {0} /\ OldBan \in Nat \ {0}
  /\ BanLengths \subseteq Nat \ {0}

VARIABLES
  now,        \* the wall clock
  bans,       \* banned_until of an address's row, NoBan when there is none
  events,     \* requests with a row in login_failure_events
  mu,         \* holder of downloadProtection.mu
  pc,         \* where each request is
  from, at,   \* its address, and the now it takes on arrival
  answer,     \* what it was answered
  failed,     \* history: requests whose failure was recorded
  faults, crashes

vars == <<now, bans, events, mu, pc, from, at, answer, failed, faults, crashes>>
locals == <<from, at>>
bounds == <<faults, crashes>>

NoBan == 0

\* 429 for a ban; 429 for want of certainty; 401; 200 or 410.
Answers == {"none", "refused", "unsure", "denied", "allowed"}

\* Labels of the handler, and of recordFailure under the mutex.
Locked == {"recheck", "relift", "record", "prune", "count", "find", "update", "create", "unlock"}
Labels == {"new", "check", "lift", "password", "lock", "done"} \cup Locked

Goto(r, l) == pc' = [pc EXCEPT ![r] = l]
Finish(r, a, l) == answer' = [answer EXCEPT ![r] = a] /\ Goto(r, l)

Fails(call) == call \in DBFaults /\ faults < MaxFaults /\ faults' = faults + 1
Succeeds == UNCHANGED faults

Ban(r) == bans[from[r]]
SetBan(r, until) == bans' = [bans EXCEPT ![from[r]] = until]

-----------------------------------------------------------------------------

Arrive(r) ==
  /\ pc[r] = "new"
  /\ at' = [at EXCEPT ![r] = now]
  /\ Goto(r, "check")
  /\ UNCHANGED <<now, bans, events, mu, from, answer, failed, bounds>>

\* bannedUntil reads the row.  What cannot be read is taken for a ban.
ReadBan(r) ==
  LET first == pc[r] = "check" IN
  /\ pc[r] \in {"check", "recheck"}
  /\ \/ /\ Ban(r) = NoBan
        /\ Goto(r, IF first THEN "password" ELSE "record")
        /\ Succeeds /\ UNCHANGED answer
     \/ /\ Ban(r) # NoBan /\ Ban(r) <= at[r]
        /\ Goto(r, IF first THEN "lift" ELSE "relift")
        /\ Succeeds /\ UNCHANGED answer
     \/ /\ \/ Ban(r) > at[r] /\ Succeeds
           \/ Fails("query")
        /\ Finish(r, "refused", IF first THEN "done" ELSE "unlock")
  /\ UNCHANGED <<now, bans, events, mu, locals, failed, crashes>>

\* bannedUntil deletes the row it found expired, by its key; an error is
\* ignored.
LiftBan(r) ==
  /\ pc[r] \in {"lift", "relift"}
  /\ \/ SetBan(r, NoBan) /\ Succeeds
     \/ Fails("delete") /\ UNCHANGED bans
  /\ Goto(r, IF pc[r] = "lift" THEN "password" ELSE "record")
  /\ UNCHANGED <<now, events, mu, locals, answer, failed, crashes>>

\* The handler reads the body and checks the password.
CheckPassword(r) ==
  /\ pc[r] = "password"
  /\ \/ Finish(r, "allowed", "done")
     \/ Goto(r, "lock") /\ UNCHANGED answer
  /\ UNCHANGED <<now, bans, events, mu, locals, failed, bounds>>

\* Mutated form of LockGuard: a failure is recorded without the mutex.
LookAgain(r) ==
  /\ pc[r] = "lock"
  /\ Goto(r, "recheck")
  /\ UNCHANGED <<now, bans, events, mu, locals, answer, failed, bounds>>

\* recordFailure: the mutex, and another look at the ban.
LockGuard(r) ==
  /\ pc[r] = "lock"
  /\ mu = NoRequest /\ mu' = r
  /\ Goto(r, "recheck")
  /\ UNCHANGED <<now, bans, events, locals, answer, failed, bounds>>

\* An error in the middle of recordFailure: 429 with a Retry-After of 60.
GiveUp(r, call) ==
  /\ Fails(call)
  /\ Finish(r, "unsure", "unlock")

RecordFailure(r) ==
  /\ pc[r] = "record"
  /\ \/ /\ events' = events \cup {r} /\ failed' = failed \cup {r}
        /\ Goto(r, "prune")
        /\ Succeeds /\ UNCHANGED answer
     \/ GiveUp(r, "insert") /\ UNCHANGED <<events, failed>>
  /\ UNCHANGED <<now, bans, mu, locals, crashes>>

\* Mutated form of Stale: everything an earlier request left is pruned.
EarlierThan(r) == {e \in events : at[e] < at[r]}

\* Events at or before the cutoff, of every address.
Stale(r) == {e \in events : at[e] <= at[r] - Window}

PruneFailures(r) ==
  /\ pc[r] = "prune"
  /\ \/ events' = events \ Stale(r) /\ Goto(r, "count") /\ Succeeds /\ UNCHANGED answer
     \/ GiveUp(r, "delete") /\ UNCHANGED events
  /\ UNCHANGED <<now, bans, mu, locals, failed, crashes>>

\* Mutated form of Recent: all addresses share one count.
RecentOfAnyone(r) == {e \in events : at[e] > at[r] - Window}

Recent(r) == {e \in events : from[e] = from[r] /\ at[e] > at[r] - Window}

CountFailures(r) ==
  /\ pc[r] = "count"
  /\ \/ Cardinality(Recent(r)) <= Limit /\ Finish(r, "denied", "unlock") /\ Succeeds
     \/ Cardinality(Recent(r)) > Limit /\ Goto(r, "find") /\ Succeeds /\ UNCHANGED answer
     \/ GiveUp(r, "query")
  /\ UNCHANGED <<now, bans, events, mu, locals, failed, crashes>>

\* A row may be there, expired, when its deletion failed.
FindBan(r) ==
  /\ pc[r] = "find"
  /\ \/ Goto(r, IF Ban(r) = NoBan THEN "create" ELSE "update") /\ Succeeds /\ UNCHANGED answer
     \/ GiveUp(r, "query")
  /\ UNCHANGED <<now, bans, events, mu, locals, failed, crashes>>

\* The row is created, or updated if it is still there.
WriteBan(r) ==
  /\ pc[r] \in {"create", "update"}
  /\ \/ /\ pc[r] = "update" => Ban(r) # NoBan
        /\ \E d \in BanLengths : SetBan(r, at[r] + d)
        /\ Finish(r, "refused", "unlock") /\ Succeeds
     \/ /\ pc[r] = "update" /\ Ban(r) = NoBan
        /\ Finish(r, "unsure", "unlock") /\ Succeeds /\ UNCHANGED bans
     \/ GiveUp(r, "insert") /\ UNCHANGED bans
  /\ UNCHANGED <<now, events, mu, locals, failed, crashes>>

\* Mutated form of Unlock: an answer given for want of certainty keeps the mutex.
UnlockWhenSure(r) ==
  /\ pc[r] = "unlock"
  /\ mu' = IF answer[r] = "unsure" THEN mu ELSE NoRequest
  /\ Goto(r, "done")
  /\ UNCHANGED <<now, bans, events, locals, answer, failed, bounds>>

\* The deferred unlock, and the answer.
Unlock(r) ==
  /\ pc[r] = "unlock"
  /\ mu' = NoRequest
  /\ Goto(r, "done")
  /\ UNCHANGED <<now, bans, events, locals, answer, failed, bounds>>

\* The process dies; rows survive it, requests do not.
Crash ==
  /\ crashes < MaxCrashes
  /\ crashes' = crashes + 1
  /\ pc' = [r \in Requests |-> IF pc[r] = "new" THEN "new" ELSE "done"]
  /\ mu' = NoRequest
  /\ UNCHANGED <<now, bans, events, locals, answer, failed, faults>>

Tick ==
  /\ now < MaxTime
  /\ now' = now + 1
  /\ UNCHANGED <<bans, events, mu, pc, locals, answer, failed, bounds>>

-----------------------------------------------------------------------------

\* A database an earlier process may have left a ban in.
Init ==
  /\ now = OldBan
  /\ bans \in [Addresses -> {NoBan, OldBan}]
  /\ events = {} /\ failed = {}
  /\ mu = NoRequest
  /\ pc = [r \in Requests |-> "new"]
  /\ from \in [Requests -> Addresses]
  /\ at = [r \in Requests |-> 0]
  /\ answer = [r \in Requests |-> "none"]
  /\ faults = 0 /\ crashes = 0

Steps(r) ==
  \/ ReadBan(r) \/ LiftBan(r) \/ CheckPassword(r) \/ LockGuard(r) \/ RecordFailure(r)
  \/ PruneFailures(r) \/ CountFailures(r) \/ FindBan(r) \/ WriteBan(r) \/ Unlock(r)

Next == (\E r \in Requests : Arrive(r) \/ Steps(r)) \/ Crash \/ Tick

Spec == Init /\ [][Next]_vars

-----------------------------------------------------------------------------
(* Properties                                                              *)

\* Types; whoever holds the mutex is in its critical section, and nobody else.
TypeOK ==
  /\ now \in Nat
  /\ bans \in [Addresses -> Nat]
  /\ events \in SUBSET Requests /\ failed \in SUBSET Requests
  /\ mu \in Requests \cup {NoRequest}
  /\ pc \in [Requests -> Labels]
  /\ \A r \in Requests : pc[r] \in Locked <=> mu = r
  /\ from \in [Requests -> Addresses] /\ at \in [Requests -> Nat]
  /\ answer \in [Requests -> Answers]
  /\ faults \in Nat /\ crashes \in Nat

\* Requests from address a of the last minute that were told their password
\* was wrong.
DeniedLately(a) ==
  {r \in Requests : answer[r] = "denied" /\ from[r] = a /\ at[r] > now - Window}

\* "Exactly ten failures do not ban; the eleventh failure in that rolling window
\* creates the ban" (LLM_WIKI.md:1040-1041): however requests interleave, are
\* delayed or meet failing calls, no more than Limit of the last minute learn
\* that their password was wrong.
GuessesLimited == \A a \in Addresses : Cardinality(DeniedLately(a)) <= Limit

\* What recordFailure may hold against r: recorded failures of its own address
\* newer than one window before r arrived.  Requests that arrived after r are
\* among them when they were recorded first; a slow r is counted with failures
\* of more than one window, though "only events strictly newer than now - 1
\* minute count" and "the eleventh failure in that rolling window creates the
\* ban" (LLM_WIKI.md:1039-1041) sound like one.
HeldAgainst(r) == {q \in failed : from[q] = from[r] /\ at[q] > at[r] - Window}

\* A ban is reckoned from a failure of the banned address that had more than
\* Limit failures held against it, and never earned by the failures of others
\* (download.go:91-107).
BansEarned ==
  \A a \in Addresses :
    bans[a] > OldBan =>
      \E r \in failed :
        /\ from[r] = a /\ \E d \in BanLengths : bans[a] = at[r] + d
        /\ Cardinality(HeldAgainst(r)) > Limit

\* "Expired ban rows are deleted when the next request checks them"
\* (LLM_WIKI.md:1046): a ban that has not expired is not deleted.
OnlyExpiredBansDeleted ==
  [][\A a \in Addresses : bans[a] # NoBan /\ bans'[a] = NoBan => bans[a] <= now]_vars
=============================================================================
