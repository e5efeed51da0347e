----------------------------- MODULE AdminLogin -----------------------------
(***************************************************************************)
(* internal/auth: AdminLogin and the failure window and bans behind it,   *)
(* one step per database call.  There is no lock: attempts of one address *)
(* interleave freely, and the errors of every call are decisions of their *)
(* own: a ban that cannot be read is a ban, a failure that cannot be      *)
(* stored or counted is none.                                             *)
(***************************************************************************)
EXTENDS Sessions

CONSTANTS
  Addresses,
  Limit,      \* failures within the window that ban: 5
  Window,     \* one minute
  BanLength   \* six hours and a random part of one, in units of time

ASSUME LoginAssumption ==
  Limit \in Nat \ {0} /\ Window \in Nat /\ BanLength \in Nat /\ BanLength > Window

VARIABLES
  bans,       \* ip_bans: the instant a ban of an address ends, 0 for none
  events,     \* login_failure_events, named by the request that failed
  from,       \* clientIP of a request
  at,         \* time.Now() when AdminLogin was called
  right       \* the name and the password are an admin's

login   == <<bans, events, from, at, right>>
attempt == <<from, at, right>>

Recent(r) == {e \in events : from[e] = from[r] /\ at[e] >= at[r] - Window}

\* Mutated form of CheckBan: a ban that cannot be read is none.
CheckBanOpen(r) ==
  /\ pc[r] = "login"
  /\ at' = [at EXCEPT ![r] = now]
  /\ \/ bans[from[r]] > now /\ Answer(r, "banned") /\ Succeeds
     \/ bans[from[r]] <= now /\ Goto(r, "password") /\ Succeeds /\ UNCHANGED status
     \/ Fails("get") /\ Goto(r, "password") /\ UNCHANGED status
  /\ UNCHANGED <<now, database, request, sess, setCookie, bans, events, from, right>>

\* isBanned
CheckBan(r) ==
  /\ pc[r] = "login"
  /\ at' = [at EXCEPT ![r] = now]
  /\ \/ bans[from[r]] > now /\ Answer(r, "banned") /\ Succeeds
     \/ bans[from[r]] <= now /\ Goto(r, "password") /\ Succeeds /\ UNCHANGED status
     \/ Fails("get") /\ Answer(r, "banned")
  /\ UNCHANGED <<now, database, request, sess, setCookie, bans, events, from, right>>

\* The admin is looked up and the password compared; an error is a failure.
CheckPassword(r) ==
  /\ pc[r] = "password"
  /\ \/ right[r] /\ Goto(r, "reset") /\ Succeeds
     \/ ~right[r] /\ Goto(r, "record") /\ Succeeds
     \/ Fails("query") /\ Goto(r, "record")
  /\ UNCHANGED <<now, database, request, sess, setCookie, status, login>>

\* recordLoginFailure: the event is stored, or not.
RecordFailure(r) ==
  /\ pc[r] = "record"
  /\ (events' = events \cup {r} /\ Succeeds) \/ (Fails("insert") /\ UNCHANGED events)
  /\ Goto(r, "count")
  /\ UNCHANGED <<now, database, request, sess, setCookie, status, bans, attempt>>

\* Mutated form of CountFailures: one failure more before the ban.
CountBeyond(r) ==
  /\ pc[r] = "count"
  /\ IF Cardinality(Recent(r)) > Limit
       THEN Goto(r, "ban") /\ UNCHANGED status
       ELSE Answer(r, "failed")
  /\ Succeeds
  /\ UNCHANGED <<now, database, request, sess, setCookie, login>>

\* The failures of the last minute, this one among them; an error counts none.
CountFailures(r) ==
  /\ pc[r] = "count"
  /\ \/ Cardinality(Recent(r)) >= Limit /\ Goto(r, "ban") /\ Succeeds /\ UNCHANGED status
     \/ Cardinality(Recent(r)) < Limit /\ Answer(r, "failed") /\ Succeeds
     \/ Fails("query") /\ Answer(r, "failed")
  /\ UNCHANGED <<now, database, request, sess, setCookie, login>>

\* The ban of the address is updated, or created when there seems to be none;
\* the error of either is ignored.
Ban(r) ==
  /\ pc[r] = "ban"
  /\ \/ bans' = [bans EXCEPT ![from[r]] = at[r] + BanLength] /\ Succeeds
     \/ (Fails("insert") \/ (bans[from[r]] # 0 /\ Fails("get"))) /\ UNCHANGED bans
  /\ Answer(r, "failed")
  /\ UNCHANGED <<now, database, request, sess, setCookie, events, attempt>>

\* resetFailures: a success forgets the failures of its address, not its ban.
ResetFailures(r) ==
  /\ pc[r] = "reset"
  /\ \/ events' = {e \in events : from[e] # from[r]} /\ Succeeds
     \/ Fails("delete") /\ UNCHANGED events
  /\ Goto(r, "rotate")
  /\ UNCHANGED <<now, database, request, sess, setCookie, status, bans, attempt>>

LoginStep(r) ==
  \/ CheckBan(r) \/ CheckPassword(r) \/ RecordFailure(r) \/ CountFailures(r) \/ Ban(r)
  \/ ResetFailures(r)
=============================================================================
