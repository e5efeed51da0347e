----------------------------- MODULE AccessProofs -----------------------------
(***************************************************************************)
(* Who is an admin, for any number of requests, tabs, ids and addresses,  *)
(* any limits and any failures.                                           *)
(*                                                                        *)
(* One inductive invariant carries the safety properties of Access.  Ids  *)
(* are drawn once, so a row that is gone never comes back and a dead      *)
(* session stays dead (Dead...); a login keeps what it was asked until it *)
(* is answered (Login...); and the cookie of an admin's session is that   *)
(* of an answered login (AdminsAnswered).                                 *)
(***************************************************************************)
EXTENDS Access, FiniteSetTheorems, TLAPS

\* The labels of a request that is being told whether it may log in.
Proved    == {"reset", "rotate", "createAdmin"}
Past      == {"password", "record", "count", "ban"} \cup Proved
Answered  == {"done", "gone"}
Unrouted  == {"new", "session", "drop", "create"}

\* A login is a login until it is answered, has a right password once it is
\* past the comparison, and did not begin under a ban if it goes on.
LoginsAreLogins ==
  \A r \in Requests : pc[r] \in {"login"} \cup Past => kind[r] = "login"
LockedAnswered == \A r \in locked : r \in Requests /\ pc[r] \in Answered
ProvedRight == \A r \in Requests : pc[r] \in Proved => right[r]

\* The session of an admin was made for a login that has been answered since:
\* its cookie is set once more by nothing.
AdminsAnswered ==
  \A s \in Sids :
    rows[s].admin /\ s # Earlier =>
      \E r \in Requests : /\ setCookie[r] = s /\ kind[r] = "login" /\ right[r]
                          /\ r \notin locked /\ pc[r] \in Answered

\* A request that has not been routed has no answer, and none that has not
\* found a session carries one.
NothingYet ==
  \A r \in Requests :
    /\ pc[r] \in Unrouted => setCookie[r] = NoSid /\ ~sess[r].admin
    /\ pc[r] \in Unrouted => status[r] = "none"

\* An ended session has no row, so that no request that was sent late finds it.
EndedGone == \A s \in ended : s \in 0..drawn /\ (s # NoSid => rows[s] = NoRow)
LateDead ==
  \A r \in Requests :
    late[r] => ~Alive(sent[r]) /\ ~sess[r].admin /\ status[r] # "authorised"

\* While no call has failed, a response sets a cookie only for a login, or
\* because the session the request was sent with is dead.
CookieForDead ==
  \A r \in Requests :
    /\ pc[r] \in {"drop", "create"} => ~Sessionless(kind[r])
    /\ setCookie[r] # NoSid => ~Sessionless(kind[r])
    /\ faults = 0 /\ (pc[r] \in {"drop", "create"} \/ (setCookie[r] # NoSid /\ kind[r] # "login"))
         => ~Alive(sent[r])

AccessInv ==
  /\ TypeOK /\ LoginsAreLogins /\ LockedAnswered /\ ProvedRight /\ AdminsAnswered
  /\ NothingYet /\ EndedGone /\ LateDead /\ CookieForDead

-----------------------------------------------------------------------------
(* Types *)

\* The records of sessions and rows are of their types, and the empty ones
\* authorise nobody.
LEMMA Records ==
  /\ NoSession \in Session /\ NoRow \in Row /\ NoSession.sid = NoSid /\ ~NoSession.admin
  /\ ~NoRow.admin /\ NoRow.exp = 0
  /\ \A s \in Nat, b \in BOOLEAN : /\ [sid |-> s, admin |-> b] \in Session
                                 /\ [admin |-> b, exp |-> s] \in Row
BY DEF NoSession, NoRow, NoSid, Session, Row

\* What a request copies of a live row is that row's session.
LEMMA CopyType ==
  ASSUME TypeOK, NEW s \in Nat, Alive(s), s <= drawn
  PROVE  s \in Sids /\ Copy(s) \in Session /\ Copy(s).sid = s /\ Copy(s).admin = rows[s].admin
BY SessionAssumption DEF TypeOK, Alive, Sids, NoSid, Copy, Session, Row

\* A failing call uses up one fault.
LEMMA FailsType == ASSUME TypeOK, NEW call, Fails(call) PROVE faults' \in 0..MaxFaults /\ faults' # faults
BY SessionAssumption DEF TypeOK, Fails

\* The ids of a step that draws none.
LEMMA IdsStay ==
  ASSUME IdsDrawnOnce, UNCHANGED <<drawn, jar, tokens, sent, token, setCookie>>,
         \A s \in Sids : rows'[s] \in {rows[s], NoRow},
         \A r \in Requests : sess'[r].sid <= drawn
  PROVE  IdsDrawnOnce'
BY DEF IdsDrawnOnce

\* The ids of a step that draws one, for the cookie of a response.
LEMMA IdsDrawn ==
  ASSUME IdsDrawnOnce, drawn \in Nat, jar \in Nat, tokens \in SUBSET Nat, setCookie \in [Requests -> Nat],
         sent \in [Requests -> Nat], token \in [Requests -> Nat],
         NEW r \in Requests, drawn' = drawn + 1, setCookie' = [setCookie EXCEPT ![r] = drawn'],
         UNCHANGED <<jar, tokens, sent, token>>,
         \A s \in Sids : s # drawn' => rows'[s] = rows[s],
         \A q \in Requests : sess'[q].sid <= drawn'
  PROVE  IdsDrawnOnce'
<1>1. \A q \in Requests : setCookie[q] \in Nat /\ setCookie[q] <= drawn /\ setCookie'[q] \in {setCookie[q], drawn'}
  BY DEF IdsDrawnOnce
<1>2. \A q \in Requests : setCookie'[q] <= drawn'
  BY <1>1
<1>3. \A q, p \in Requests : q # p /\ setCookie'[q] = setCookie'[p] => setCookie'[q] = NoSid
  BY <1>1 DEF IdsDrawnOnce
<1>4. \A s \in Sids : s > drawn' => rows'[s] = NoRow
  BY DEF IdsDrawnOnce, Sids
<1>5. \A q \in Requests : sent'[q] <= drawn' /\ token'[q] <= drawn'
  BY DEF IdsDrawnOnce
<1>6. jar' <= drawn' /\ \A t \in tokens' : t <= drawn'
  BY DEF IdsDrawnOnce
<1> QED
  BY <1>2, <1>3, <1>4, <1>5, <1>6 DEF IdsDrawnOnce

\* The invariant holds at the start.
LEMMA InitAccess == Init => AccessInv
<1> SUFFICES ASSUME Init PROVE AccessInv
  OBVIOUS
<1>1. rows \in [Sids -> Row] /\ \A s \in Sids : s > Earlier => rows[s] = NoRow
  <2>1. PICK row \in {NoRow} \cup [admin : BOOLEAN, exp : {now + SessionLife}] :
            rows = [s \in Sids |-> IF s = Earlier THEN row ELSE NoRow]
    BY DEF Init
  <2>2. row \in Row
    BY Records, SessionAssumption DEF Init, Row
  <2> QED
    BY <2>1, <2>2, Records DEF Sids, Earlier
<1>2. IdsDrawnOnce
  BY <1>1 DEF Init, IdsDrawnOnce, Earlier, NoSid, NoSession
<1>3. HistoryTypes
  BY DEF Init, HistoryTypes
<1>4. TypeOK
  BY <1>1, <1>2, <1>3, SessionAssumption, AccessAssumption, Records
  DEF Init, TypeOK, Labels, Statuses, Kinds, NoSid, Earlier
<1> QED
  BY <1>4, Records DEF Init, AccessInv, LoginsAreLogins, LockedAnswered, ProvedRight, AdminsAnswered, NothingYet,
    EndedGone, LateDead, CookieForDead, Proved, Past, Answered, Unrouted, NoSession, NoRow, Sids, NoSid, Earlier

\* The labels, statuses and kinds the actions use are among those declared.
LEMMA Vocabulary ==
  /\ \A l \in {"new", "session", "drop", "create", "route", "login", "logout", "password", "record",
               "count", "ban", "reset", "rotate", "createAdmin", "done", "gone"} : l \in Labels
  /\ \A s \in {"none", "ok", "forbidden", "redirected", "authorised", "banned", "failed"} : s \in Statuses
  /\ "asset" \in Kinds /\ {"login", "logout"} \subseteq Kinds
BY DEF Labels, Statuses, Kinds

\* History keeps its domains.
LEMMA HistoryKept == ASSUME TypeOK, [Next]_vars PROVE HistoryTypes'
<1>1. HistoryTypes /\ events \in SUBSET Requests /\ \A r \in Requests : sess[r].sid \in Nat
  BY DEF TypeOK, Session
<1>2. ASSUME NEW r \in Requests, Send(r) PROVE HistoryTypes'
  BY <1>1, <1>2 DEF Send, HistoryTypes, Denied
<1>3. ASSUME NEW r \in Requests, Runs(r) PROVE HistoryTypes'
  BY <1>1, <1>3 DEF Runs, HistoryTypes
<1>4. ASSUME NEW r \in Requests, Deliver(r) PROVE HistoryTypes'
  BY <1>1, <1>4 DEF Deliver, HistoryTypes
<1> QED
  BY <1>1, <1>2, <1>3, <1>4 DEF Next, Clean, Tick, vars, history, HistoryTypes

\* Every step keeps the domains, and draws no id twice.
LEMMA TypesKept == ASSUME TypeOK, [Next]_vars PROVE TypeOK'
<1>0. /\ drawn \in Nat /\ drawn <= MaxSids /\ now \in Nat
      /\ \A r \in Requests : sess[r].sid \in Nat /\ sess[r].admin \in BOOLEAN
      /\ \A s \in Nat : Alive(s) /\ s <= drawn =>
           /\ s \in Sids /\ Copy(s) \in Session /\ Copy(s).sid = s
      /\ \A call : Fails(call) => faults' \in 0..MaxFaults
      /\ \A r \in Requests, l \in Labels : Goto(r, l) => pc' \in [Requests -> Labels]
      /\ \A r \in Requests, a \in Statuses : Answer(r, a) =>
           pc' \in [Requests -> Labels] /\ status' \in [Requests -> Statuses]
  <2>1. drawn \in Nat /\ drawn <= MaxSids /\ now \in Nat
    BY SessionAssumption DEF TypeOK
  <2>2. \A r \in Requests : sess[r].sid \in Nat /\ sess[r].admin \in BOOLEAN
    BY DEF TypeOK, Session
  <2>3. \A r \in Requests, l \in Labels : Goto(r, l) => pc' \in [Requests -> Labels]
    BY DEF TypeOK, Goto
  <2>4. \A r \in Requests, a \in Statuses : Answer(r, a) => status' \in [Requests -> Statuses]
    BY DEF TypeOK, Answer
  <2> QED
    BY <2>1, <2>2, <2>3, <2>4, CopyType, FailsType, Vocabulary DEF Answer
<1>h. HistoryTypes'
  BY HistoryKept
<1> USE <1>0, <1>h, SessionAssumption, Records, Vocabulary DEF Succeeds, database, request, requests, login, attempt, browser, history
<1>1. ASSUME NEW r \in Requests, Send(r) PROVE TypeOK'
  <2>1. IdsDrawnOnce'
    <3>1. /\ UNCHANGED <<rows, drawn, sess, setCookie, jar, tokens>> /\ sent' = [sent EXCEPT ![r] = jar]
          /\ \E t \in tokens \cup {NoSid} : token' = [token EXCEPT ![r] = t]
      BY <1>1 DEF Send
    <3> QED
      BY <3>1 DEF TypeOK, IdsDrawnOnce, NoSid
  <2>2. \E k \in Kinds : kind' = [kind EXCEPT ![r] = k]
    BY <1>1, AccessAssumption DEF Send
  <2> QED
    BY <1>1, <2>1, <2>2 DEF Send, TypeOK, NoSid
<1>2. ASSUME NEW r \in Requests, Deliver(r) PROVE TypeOK'
  <2>1. jar' \in {jar, setCookie[r]} /\ tokens' \in {tokens, tokens \cup {sess[r].sid}}
    BY <1>2 DEF Deliver
  <2>2. /\ sent' = [sent EXCEPT ![r] = NoSid] /\ token' = [token EXCEPT ![r] = NoSid]
        /\ sess' = [sess EXCEPT ![r] = NoSession] /\ status' = [status EXCEPT ![r] = "none"]
        /\ kind' \in {kind, [kind EXCEPT ![r] = "asset"]}
        /\ setCookie' \in {setCookie, [setCookie EXCEPT ![r] = NoSid]}
        /\ Goto(r, "gone") /\ UNCHANGED <<now, database, faults, login>>
    BY <1>2 DEF Deliver
  <2>3. IdsDrawnOnce'
    BY <2>1, <2>2 DEF TypeOK, IdsDrawnOnce, NoSid
  <2>4. /\ sent' \in [Requests -> Nat] /\ token' \in [Requests -> Nat] /\ setCookie' \in [Requests -> Nat]
        /\ jar' \in Nat /\ tokens' \in SUBSET Nat
    <3>1. sent' \in [Requests -> Nat] /\ token' \in [Requests -> Nat] /\ setCookie' \in [Requests -> Nat]
      BY <2>2 DEF TypeOK, NoSid
    <3>2. jar' \in Nat /\ tokens' \in SUBSET Nat
      BY <2>1 DEF TypeOK
    <3> QED
      BY <3>1, <3>2
  <2>5. sess' \in [Requests -> Session] /\ kind' \in [Requests -> Kinds]
    BY <2>2 DEF TypeOK
  <2> QED
    BY <2>2, <2>3, <2>4, <2>5 DEF TypeOK
<1>3. ASSUME NEW r \in Requests, PeekSession(r), UNCHANGED login, UNCHANGED browser PROVE TypeOK'
  <2>1. sess' = sess \/ \E c \in Session : c.sid <= drawn /\ sess' = [sess EXCEPT ![r] = c]
    <3>1. sent[r] \in Nat /\ sent[r] <= drawn
      BY DEF TypeOK, IdsDrawnOnce
    <3> QED
      BY <1>3, <3>1 DEF PeekSession, NoSid
  <2>2. IdsDrawnOnce' /\ sess' \in [Requests -> Session]
    <3>1. sess' \in [Requests -> Session] /\ \A q \in Requests : sess'[q].sid <= drawn
      BY <2>1 DEF TypeOK, IdsDrawnOnce
    <3> QED
      BY <1>3, <3>1, IdsStay DEF PeekSession, TypeOK
  <2> QED
    BY <1>3, <2>2 DEF PeekSession, TypeOK
<1>4. ASSUME NEW r \in Requests, FindSession(r), UNCHANGED login, UNCHANGED browser PROVE TypeOK'
  <2>1. sess' = sess \/ \E c \in Session : c.sid <= drawn /\ sess' = [sess EXCEPT ![r] = c]
    <3>1. sent[r] \in Nat /\ sent[r] <= drawn
      BY DEF TypeOK, IdsDrawnOnce
    <3> QED
      BY <1>4, <3>1 DEF FindSession, NoSid
  <2>2. IdsDrawnOnce' /\ sess' \in [Requests -> Session]
    BY <1>4, <2>1 DEF FindSession, TypeOK, IdsDrawnOnce
  <2> QED
    BY <1>4, <2>2 DEF FindSession, TypeOK
<1>5. ASSUME NEW r \in Requests, DropSession(r), UNCHANGED login, UNCHANGED browser PROVE TypeOK'
  <2>1. IdsDrawnOnce'
    BY <1>5, IdsStay DEF DropSession, TypeOK, IdsDrawnOnce, NoSid
  <2> QED
    BY <1>5, <2>1 DEF DropSession, TypeOK
<1>6. ASSUME NEW r \in Requests, Route(r), UNCHANGED login, UNCHANGED browser PROVE TypeOK'
  <2>1. IdsDrawnOnce'
    BY <1>6, IdsStay DEF Route, TypeOK, IdsDrawnOnce, NoSid
  <2> QED
    BY <1>6, <2>1 DEF Route, TypeOK
<1>7. ASSUME NEW r \in Requests, DeleteSession(r), UNCHANGED login, UNCHANGED browser PROVE TypeOK'
  <2>1. IdsDrawnOnce'
    BY <1>7, IdsStay DEF DeleteSession, TypeOK, IdsDrawnOnce, NoSid
  <2> QED
    BY <1>7, <2>1 DEF DeleteSession, TypeOK
<1>8. ASSUME NEW r \in Requests, RetireSession(r), UNCHANGED login, UNCHANGED browser PROVE TypeOK'
  <2>1. IdsDrawnOnce'
    BY <1>8, IdsStay DEF RetireSession, TypeOK, IdsDrawnOnce, NoSid
  <2> QED
    BY <1>8, <2>1 DEF RetireSession, TypeOK
<1>9. ASSUME NEW r \in Requests, CreateSession(r), UNCHANGED login, UNCHANGED browser PROVE TypeOK'
  <2>1. drawn' = drawn + 1 /\ drawn' \in Sids /\ setCookie' = [setCookie EXCEPT ![r] = drawn']
    BY <1>9 DEF CreateSession
  <2>2. rows' = [rows EXCEPT ![drawn'] = [admin |-> FALSE, exp |-> now + SessionLife]] \/ rows' = rows
    BY <1>9, <2>1 DEF CreateSession, Insert
  <2>3. rows' \in [Sids -> Row] /\ \A s \in Sids : s # drawn' => rows'[s] = rows[s]
    <3>1. [admin |-> FALSE, exp |-> now + SessionLife] \in Row
      BY DEF Row
    <3> QED
      BY <2>1, <2>2, <3>1 DEF TypeOK
  <2>4. faults' \in 0..MaxFaults
    BY <1>9 DEF CreateSession, TypeOK
  <2>5. sess' \in [Requests -> Session] /\ \A q \in Requests : sess'[q].sid <= drawn'
    <3>1. [sid |-> drawn', admin |-> FALSE] \in Session /\ [sid |-> drawn', admin |-> FALSE].sid = drawn'
      BY <2>1 DEF Session, Sids
    <3>2. sess' = [sess EXCEPT ![r] = [sid |-> drawn', admin |-> FALSE]]
      BY <1>9, <2>1 DEF CreateSession
    <3> QED
      BY <2>1, <3>1, <3>2 DEF TypeOK, IdsDrawnOnce
  <2>6. IdsDrawnOnce'
    <3>1. UNCHANGED <<jar, tokens, sent, token>> /\ \A p \in Requests : sess'[p].sid <= drawn'
      BY <1>9, <2>1, <2>5 DEF CreateSession, TypeOK, IdsDrawnOnce
    <3> QED
      BY <2>1, <2>3, <3>1, IdsDrawn DEF TypeOK
  <2> QED
    BY <1>9, <2>1, <2>3, <2>4, <2>5, <2>6 DEF CreateSession, TypeOK, Sids
<1>10. ASSUME NEW r \in Requests, CreateAdminSession(r), UNCHANGED login, UNCHANGED browser PROVE TypeOK'
  <2>1. drawn' = drawn + 1 /\ drawn' \in Sids /\ setCookie' = [setCookie EXCEPT ![r] = drawn']
    BY <1>10 DEF CreateAdminSession
  <2>2. rows' = [rows EXCEPT ![drawn'] = [admin |-> TRUE, exp |-> now + SessionLife]] \/ rows' = rows
    BY <1>10, <2>1 DEF CreateAdminSession, Insert
  <2>3. rows' \in [Sids -> Row] /\ \A s \in Sids : s # drawn' => rows'[s] = rows[s]
    <3>1. [admin |-> TRUE, exp |-> now + SessionLife] \in Row
      BY DEF Row
    <3> QED
      BY <2>1, <2>2, <3>1 DEF TypeOK
  <2>4. faults' \in 0..MaxFaults
    BY <1>10 DEF CreateAdminSession, TypeOK
  <2>6. IdsDrawnOnce'
    <3>1. UNCHANGED <<jar, tokens, sent, token>> /\ \A p \in Requests : sess'[p].sid <= drawn'
      BY <1>10, <2>1 DEF CreateAdminSession, TypeOK, IdsDrawnOnce
    <3> QED
      BY <2>1, <2>3, <3>1, IdsDrawn DEF TypeOK
  <2> QED
    BY <1>10, <2>1, <2>3, <2>4, <2>6 DEF CreateAdminSession, TypeOK, Sids
<1>11. ASSUME NEW r \in Requests, CheckBan(r), UNCHANGED browser PROVE TypeOK'
  <2>1. IdsDrawnOnce'
    BY <1>11 DEF CheckBan, TypeOK, IdsDrawnOnce
  <2> QED
    BY <1>11, <2>1, LoginAssumption DEF CheckBan, TypeOK
<1>12. ASSUME NEW r \in Requests, CheckPassword(r), UNCHANGED browser PROVE TypeOK'
  <2>1. IdsDrawnOnce'
    BY <1>12 DEF CheckPassword, TypeOK, IdsDrawnOnce
  <2> QED
    BY <1>12, <2>1, LoginAssumption DEF CheckPassword, TypeOK
<1>13. ASSUME NEW r \in Requests, RecordFailure(r), UNCHANGED browser PROVE TypeOK'
  <2>1. IdsDrawnOnce'
    BY <1>13 DEF RecordFailure, TypeOK, IdsDrawnOnce
  <2> QED
    BY <1>13, <2>1, LoginAssumption DEF RecordFailure, TypeOK
<1>14. ASSUME NEW r \in Requests, CountFailures(r), UNCHANGED browser PROVE TypeOK'
  <2>1. IdsDrawnOnce'
    BY <1>14 DEF CountFailures, TypeOK, IdsDrawnOnce
  <2> QED
    BY <1>14, <2>1, LoginAssumption DEF CountFailures, TypeOK
<1>15. ASSUME NEW r \in Requests, Ban(r), UNCHANGED browser PROVE TypeOK'
  <2>1. IdsDrawnOnce'
    BY <1>15 DEF Ban, TypeOK, IdsDrawnOnce
  <2> QED
    BY <1>15, <2>1, LoginAssumption DEF Ban, TypeOK
<1>16. ASSUME NEW r \in Requests, ResetFailures(r), UNCHANGED browser PROVE TypeOK'
  <2>1. IdsDrawnOnce'
    BY <1>16 DEF ResetFailures, TypeOK, IdsDrawnOnce
  <2> QED
    BY <1>16, <2>1, LoginAssumption DEF ResetFailures, TypeOK
<1>17. ASSUME Clean PROVE TypeOK'
  <2>1. IdsDrawnOnce' /\ rows' \in [Sids -> Row]
    BY <1>17 DEF Clean, CleanExpiredSessions, TypeOK, IdsDrawnOnce
  <2> QED
    BY <1>17, <2>1 DEF Clean, CleanExpiredSessions, TypeOK
<1>18. ASSUME Tick PROVE TypeOK'
  BY <1>18 DEF Tick, TypeOK, IdsDrawnOnce
<1>19. CASE UNCHANGED vars
  BY <1>19 DEF vars, TypeOK, IdsDrawnOnce
<1> QED
  BY <1>1, <1>2, <1>3, <1>4, <1>5, <1>6, <1>7, <1>8, <1>9, <1>10, <1>11, <1>12, <1>13, <1>14, <1>15, <1>16, <1>17, <1>18, <1>19
  DEF Next, Runs, SessionStep, LoginStep

-----------------------------------------------------------------------------
(* Dead sessions stay dead *)

\* Time passes, calls fail and ids are drawn; a row that was made for an id goes
\* in the end, and is never made anew or changed.
LEMMA RowsOnlyGo ==
  ASSUME TypeOK, [Next]_vars
  PROVE  /\ now' >= now /\ drawn' >= drawn /\ faults' >= faults
         /\ \A s \in 1..drawn : rows'[s] \in {rows[s], NoRow}
<1> DEFINE Goal == /\ now' >= now /\ drawn' >= drawn /\ faults' >= faults
                   /\ \A s \in 1..drawn : rows'[s] \in {rows[s], NoRow}
<1> SUFFICES Goal
  OBVIOUS
<1>0. /\ drawn \in Nat /\ drawn <= MaxSids /\ now \in Nat /\ faults \in Nat
      /\ rows \in [Sids -> Row] /\ \A s \in 1..drawn : s \in Sids
  BY SessionAssumption DEF TypeOK, Sids
<1> HIDE DEF Row, Sids, NoRow
<1> USE <1>0 DEF Succeeds, Fails, database, request, requests, login, attempt, browser, history
<1>1. ASSUME NEW r \in Requests, Send(r) PROVE Goal
  BY <1>1 DEF Send
<1>2. ASSUME NEW r \in Requests, Deliver(r) PROVE Goal
  BY <1>2 DEF Deliver
<1>3. ASSUME NEW r \in Requests, PeekSession(r), Runs(r), UNCHANGED login PROVE Goal
  BY <1>3 DEF PeekSession, Runs
<1>4. ASSUME NEW r \in Requests, FindSession(r), Runs(r), UNCHANGED login PROVE Goal
  BY <1>4 DEF FindSession, Runs
<1>5. ASSUME NEW r \in Requests, DropSession(r), Runs(r), UNCHANGED login PROVE Goal
  BY <1>5 DEF DropSession, Runs
<1>6. ASSUME NEW r \in Requests, CreateSession(r), Runs(r), UNCHANGED login PROVE Goal
  BY <1>6 DEF CreateSession, Insert, Runs
<1>7. ASSUME NEW r \in Requests, Route(r), Runs(r), UNCHANGED login PROVE Goal
  BY <1>7 DEF Route, Runs
<1>8. ASSUME NEW r \in Requests, DeleteSession(r), Runs(r), UNCHANGED login PROVE Goal
  BY <1>8 DEF DeleteSession, Runs
<1>9. ASSUME NEW r \in Requests, RetireSession(r), Runs(r), UNCHANGED login PROVE Goal
  BY <1>9 DEF RetireSession, Runs
<1>10. ASSUME NEW r \in Requests, CreateAdminSession(r), Runs(r), UNCHANGED login PROVE Goal
  BY <1>10 DEF CreateAdminSession, Insert, Runs
<1>11. ASSUME NEW r \in Requests, CheckBan(r), Runs(r) PROVE Goal
  BY <1>11 DEF CheckBan, Runs
<1>12. ASSUME NEW r \in Requests, CheckPassword(r), Runs(r) PROVE Goal
  BY <1>12 DEF CheckPassword, Runs
<1>13. ASSUME NEW r \in Requests, RecordFailure(r), Runs(r) PROVE Goal
  BY <1>13 DEF RecordFailure, Runs
<1>14. ASSUME NEW r \in Requests, CountFailures(r), Runs(r) PROVE Goal
  BY <1>14 DEF CountFailures, Runs
<1>15. ASSUME NEW r \in Requests, Ban(r), Runs(r) PROVE Goal
  BY <1>15 DEF Ban, Runs
<1>16. ASSUME NEW r \in Requests, ResetFailures(r), Runs(r) PROVE Goal
  BY <1>16 DEF ResetFailures, Runs
<1>17. ASSUME Clean PROVE Goal
  BY <1>17 DEF Clean, CleanExpiredSessions
<1>18. ASSUME Tick PROVE Goal
  BY <1>18 DEF Tick
<1>19. CASE UNCHANGED vars
  BY <1>19 DEF vars
<1> QED
  BY <1>1, <1>2, <1>3, <1>4, <1>5, <1>6, <1>7, <1>8, <1>9, <1>10, <1>11, <1>12, <1>13, <1>14, <1>15,
     <1>16, <1>17, <1>18, <1>19
  DEF Next, Runs, SessionStep, LoginStep

\* A session that is not alive never is again: its id is not drawn anew.
LEMMA DeadStaysDead ==
  ASSUME TypeOK, [Next]_vars, NEW s \in Nat, s <= drawn, ~Alive(s)
  PROVE  ~Alive(s)'
<1>1. TypeOK' /\ now' >= now /\ (s # NoSid => rows'[s] \in {rows[s], NoRow})
  BY TypesKept, RowsOnlyGo DEF NoSid, TypeOK
<1>2. CASE s # NoSid
  <2>1. s \in Sids /\ rows[s].exp \in Nat
    BY <1>2, SessionAssumption DEF TypeOK, Sids, NoSid, Row
  <2> QED
    BY <1>1, <1>2, <2>1 DEF TypeOK, Alive
<1> QED
  BY <1>2 DEF Alive

-----------------------------------------------------------------------------
(* The invariant is inductive *)

\* Where a request is, and what it may have by then.
LEMMA PlacesKept ==
  ASSUME AccessInv, [Next]_vars
  PROVE  (LoginsAreLogins /\ LockedAnswered /\ ProvedRight /\ NothingYet)'
<1> DEFINE Goal == LoginsAreLogins /\ LockedAnswered /\ ProvedRight /\ NothingYet
<1> SUFFICES Goal'
  OBVIOUS
<1>0. /\ pc \in [Requests -> Labels] /\ kind \in [Requests -> Kinds] /\ right \in [Requests -> BOOLEAN]
      /\ sess \in [Requests -> Session] /\ setCookie \in [Requests -> Nat] /\ status \in [Requests -> Statuses]
      /\ bans \in [Addresses -> Nat] /\ from \in [Requests -> Addresses] /\ now \in Nat
      /\ Goal
  BY DEF AccessInv, TypeOK
<1> USE <1>0, Records DEF LoginsAreLogins, LockedAnswered, ProvedRight, NothingYet, Proved, Past, Answered,
    Unrouted, Goto, Answer, database, request, requests, login, attempt, browser, history
<1>1. ASSUME NEW r \in Requests, Send(r) PROVE Goal'
  BY <1>1 DEF Send
<1>2. ASSUME NEW r \in Requests, Deliver(r) PROVE Goal'
  BY <1>2 DEF Deliver
<1>3. ASSUME NEW r \in Requests, PeekSession(r), Runs(r), UNCHANGED login PROVE Goal'
  BY <1>3 DEF PeekSession, Runs
<1>4. ASSUME NEW r \in Requests, FindSession(r), Runs(r), UNCHANGED login PROVE Goal'
  BY <1>4 DEF FindSession, Runs
<1>5. ASSUME NEW r \in Requests, DropSession(r), Runs(r), UNCHANGED login PROVE Goal'
  BY <1>5 DEF DropSession, Runs
<1>6. ASSUME NEW r \in Requests, CreateSession(r), Runs(r), UNCHANGED login PROVE Goal'
  BY <1>6 DEF CreateSession, Insert, Runs
<1>7. ASSUME NEW r \in Requests, Route(r), Runs(r), UNCHANGED login PROVE Goal'
  BY <1>7 DEF Route, Runs
<1>8. ASSUME NEW r \in Requests, DeleteSession(r), Runs(r), UNCHANGED login PROVE Goal'
  BY <1>8 DEF DeleteSession, Runs
<1>9. ASSUME NEW r \in Requests, RetireSession(r), Runs(r), UNCHANGED login PROVE Goal'
  BY <1>9 DEF RetireSession, Runs
<1>10. ASSUME NEW r \in Requests, CreateAdminSession(r), Runs(r), UNCHANGED login PROVE Goal'
  BY <1>10 DEF CreateAdminSession, Insert, Runs
<1>11. ASSUME NEW r \in Requests, CheckBan(r), Runs(r) PROVE Goal'
  BY <1>11 DEF CheckBan, Runs
<1>12. ASSUME NEW r \in Requests, CheckPassword(r), Runs(r) PROVE Goal'
  BY <1>12 DEF CheckPassword, Runs
<1>13. ASSUME NEW r \in Requests, RecordFailure(r), Runs(r) PROVE Goal'
  BY <1>13 DEF RecordFailure, Runs
<1>14. ASSUME NEW r \in Requests, CountFailures(r), Runs(r) PROVE Goal'
  BY <1>14 DEF CountFailures, Runs
<1>15. ASSUME NEW r \in Requests, Ban(r), Runs(r) PROVE Goal'
  BY <1>15 DEF Ban, Runs
<1>16. ASSUME NEW r \in Requests, ResetFailures(r), Runs(r) PROVE Goal'
  BY <1>16 DEF ResetFailures, Runs
<1>17. ASSUME Clean PROVE Goal'
  BY <1>17 DEF Clean, CleanExpiredSessions
<1>18. ASSUME Tick PROVE Goal'
  BY <1>18 DEF Tick
<1>19. CASE UNCHANGED vars
  BY <1>19 DEF vars
<1> QED
  BY <1>1, <1>2, <1>3, <1>4, <1>5, <1>6, <1>7, <1>8, <1>9, <1>10, <1>11, <1>12, <1>13, <1>14, <1>15,
     <1>16, <1>17, <1>18, <1>19
  DEF Next, Runs, SessionStep, LoginStep

\* An ended session's row is not written again.
LEMMA EndedStayGone == ASSUME AccessInv, [Next]_vars PROVE EndedGone'
<1>0. /\ drawn \in Nat /\ drawn' \in Nat /\ drawn <= MaxSids /\ drawn' >= drawn /\ faults \in Nat
      /\ rows \in [Sids -> Row] /\ EndedGone
      /\ \A s \in 1..drawn : s \in Sids /\ rows'[s] \in {rows[s], NoRow}
      /\ \A q \in Requests : sess[q].sid \in 0..drawn
  <2>1. drawn \in Nat /\ drawn <= MaxSids /\ faults \in Nat /\ rows \in [Sids -> Row] /\ EndedGone
    BY SessionAssumption DEF AccessInv, TypeOK
  <2>2. drawn' \in Nat /\ drawn' >= drawn /\ \A s \in 1..drawn : rows'[s] \in {rows[s], NoRow}
    BY TypesKept, RowsOnlyGo, SessionAssumption DEF AccessInv, TypeOK
  <2>3. \A q \in Requests : sess[q].sid \in 0..drawn
    BY <2>1 DEF AccessInv, TypeOK, IdsDrawnOnce, Session
  <2> QED
    BY <2>1, <2>2, <2>3, SessionAssumption DEF Sids
<1>1. ASSUME ended' = ended PROVE EndedGone'
  BY <1>0, <1>1 DEF EndedGone, NoSid
<1>2. ASSUME NEW r \in Requests, pc[r] \in {"logout", "rotate"}, Runs(r), faults' = faults,
             ended' = ended \cup {sess[r].sid}
      PROVE  EndedGone'
  <2>1. DeleteSession(r) \/ RetireSession(r)
    BY <1>2 DEF Runs, SessionStep, LoginStep, PeekSession, FindSession, DropSession, CreateSession, Route,
      CreateAdminSession, CheckBan, CheckPassword, RecordFailure, CountFailures, Ban, ResetFailures
  <2>2. rows' = [rows EXCEPT ![sess[r].sid] = NoRow]
    BY <1>0, <1>2, <2>1 DEF DeleteSession, RetireSession, Fails
  <2> QED
    BY <1>0, <1>2, <2>2 DEF EndedGone, NoSid
<1> QED
  BY <1>1, <1>2 DEF Next, vars, history, Send, Deliver, Runs, Clean, Tick

\* A late request's session stays dead, so nothing revives the request.
LEMMA LateStayDead == ASSUME AccessInv, [Next]_vars PROVE LateDead'
<1>0. /\ now \in Nat /\ faults \in Nat /\ faults' >= faults
      /\ pc \in [Requests -> Labels] /\ kind \in [Requests -> Kinds] /\ sent \in [Requests -> Nat]
      /\ sess \in [Requests -> Session] /\ setCookie \in [Requests -> Nat] /\ status \in [Requests -> Statuses]
      /\ late \in [Requests -> BOOLEAN]
      /\ \A s \in Nat : s <= drawn /\ ~Alive(s) => ~Alive(s)'
      /\ \A q \in Requests : sent[q] <= drawn
      /\ LoginsAreLogins /\ NothingYet /\ EndedGone /\ jar \in Nat /\ jar <= drawn
  BY DeadStaysDead, RowsOnlyGo, SessionAssumption DEF AccessInv, TypeOK, HistoryTypes, IdsDrawnOnce
<1>a. LateDead
  BY DEF AccessInv
<1>b. \A s \in Nat : s <= drawn /\ s # NoSid => rows[s].exp \in Nat
  BY SessionAssumption DEF AccessInv, TypeOK, Sids, NoSid, Row
<1> USE <1>0, <1>a, Records DEF LateDead, NothingYet, Unrouted, Goto, Answer, database, request, requests, login, attempt, browser, history
<1>1. ASSUME NEW r \in Requests, Send(r) PROVE LateDead'
  <2>1. jar \in ended \/ (jar # NoSid /\ rows[jar].exp <= now) => ~Alive(jar)
    BY <1>0, <1>b DEF EndedGone, Alive, NoSid
  <2> QED
    BY <1>1, <2>1 DEF Send
<1>2. ASSUME NEW r \in Requests, Deliver(r) PROVE LateDead'
  BY <1>2 DEF Deliver
<1>3. ASSUME NEW r \in Requests, PeekSession(r), Runs(r), UNCHANGED login PROVE LateDead'
  BY <1>3 DEF PeekSession, Runs
<1>4. ASSUME NEW r \in Requests, FindSession(r), Runs(r), UNCHANGED login PROVE LateDead'
  BY <1>4 DEF FindSession, Runs
<1>5. ASSUME NEW r \in Requests, DropSession(r), Runs(r), UNCHANGED login PROVE LateDead'
  BY <1>5 DEF DropSession, Runs
<1>6. ASSUME NEW r \in Requests, CreateSession(r), Runs(r), UNCHANGED login PROVE LateDead'
  BY <1>6 DEF CreateSession, Insert, Runs
<1>7. ASSUME NEW r \in Requests, Route(r), Runs(r), UNCHANGED login PROVE LateDead'
  BY <1>7 DEF Route, Runs
<1>8. ASSUME NEW r \in Requests, DeleteSession(r), Runs(r), UNCHANGED login PROVE LateDead'
  BY <1>8 DEF DeleteSession, Runs
<1>9. ASSUME NEW r \in Requests, RetireSession(r), Runs(r), UNCHANGED login PROVE LateDead'
  BY <1>9 DEF RetireSession, Runs
<1>10. ASSUME NEW r \in Requests, CreateAdminSession(r), Runs(r), UNCHANGED login PROVE LateDead'
  BY <1>10 DEF CreateAdminSession, Insert, Runs
<1>11. ASSUME NEW r \in Requests, CheckBan(r), Runs(r) PROVE LateDead'
  BY <1>11 DEF CheckBan, Runs
<1>12. ASSUME NEW r \in Requests, CheckPassword(r), Runs(r) PROVE LateDead'
  BY <1>12 DEF CheckPassword, Runs
<1>13. ASSUME NEW r \in Requests, RecordFailure(r), Runs(r) PROVE LateDead'
  BY <1>13 DEF RecordFailure, Runs
<1>14. ASSUME NEW r \in Requests, CountFailures(r), Runs(r) PROVE LateDead'
  BY <1>14 DEF CountFailures, Runs
<1>15. ASSUME NEW r \in Requests, Ban(r), Runs(r) PROVE LateDead'
  BY <1>15 DEF Ban, Runs
<1>16. ASSUME NEW r \in Requests, ResetFailures(r), Runs(r) PROVE LateDead'
  BY <1>16 DEF ResetFailures, Runs
<1>17. ASSUME Clean PROVE LateDead'
  BY <1>17 DEF Clean, CleanExpiredSessions
<1>18. ASSUME Tick PROVE LateDead'
  BY <1>18 DEF Tick
<1>19. CASE UNCHANGED vars
  BY <1>19 DEF vars
<1> QED
  BY <1>1, <1>2, <1>3, <1>4, <1>5, <1>6, <1>7, <1>8, <1>9, <1>10, <1>11, <1>12, <1>13, <1>14, <1>15,
     <1>16, <1>17, <1>18, <1>19
  DEF Next, Runs, SessionStep, LoginStep

\* While no call has failed, a response sets a cookie for a login only, or
\* because its request's session is dead.
LEMMA CookiesStayDue == ASSUME AccessInv, [Next]_vars PROVE CookieForDead'
<1>0. /\ now \in Nat /\ faults \in Nat /\ faults' >= faults
      /\ pc \in [Requests -> Labels] /\ kind \in [Requests -> Kinds] /\ sent \in [Requests -> Nat]
      /\ sess \in [Requests -> Session] /\ setCookie \in [Requests -> Nat] /\ status \in [Requests -> Statuses]
      /\ late \in [Requests -> BOOLEAN]
      /\ \A s \in Nat : s <= drawn /\ ~Alive(s) => ~Alive(s)'
      /\ \A q \in Requests : sent[q] <= drawn
      /\ LoginsAreLogins /\ NothingYet /\ EndedGone /\ jar \in Nat /\ jar <= drawn
  BY DeadStaysDead, RowsOnlyGo, SessionAssumption DEF AccessInv, TypeOK, HistoryTypes, IdsDrawnOnce
<1>a. CookieForDead
  BY DEF AccessInv
<1>b. ~Alive(NoSid) /\ ~Alive(NoSid)' /\ ~Sessionless("login")
  BY DEF Alive, Sessionless
<1> USE <1>0, <1>a, <1>b DEF Fails, Succeeds,  CookieForDead, NothingYet, LoginsAreLogins, Past, Proved, Unrouted, Goto, Answer, NoSid, database, request, requests, login, attempt, browser, history
<1>1. ASSUME NEW r \in Requests, Send(r) PROVE CookieForDead'
  BY <1>1 DEF Send
<1>2. ASSUME NEW r \in Requests, Deliver(r) PROVE CookieForDead'
  BY <1>2 DEF Deliver
<1>3. ASSUME NEW r \in Requests, PeekSession(r), Runs(r), UNCHANGED login PROVE CookieForDead'
  BY <1>3 DEF PeekSession, Runs
<1>4. ASSUME NEW r \in Requests, FindSession(r), Runs(r), UNCHANGED login PROVE CookieForDead'
  BY <1>4 DEF FindSession, Runs
<1>5. ASSUME NEW r \in Requests, DropSession(r), Runs(r), UNCHANGED login PROVE CookieForDead'
  BY <1>5 DEF DropSession, Runs
<1>6. ASSUME NEW r \in Requests, CreateSession(r), Runs(r), UNCHANGED login PROVE CookieForDead'
  BY <1>6 DEF CreateSession, Insert, Runs
<1>7. ASSUME NEW r \in Requests, Route(r), Runs(r), UNCHANGED login PROVE CookieForDead'
  BY <1>7 DEF Route, Runs
<1>8. ASSUME NEW r \in Requests, DeleteSession(r), Runs(r), UNCHANGED login PROVE CookieForDead'
  BY <1>8 DEF DeleteSession, Runs
<1>9. ASSUME NEW r \in Requests, RetireSession(r), Runs(r), UNCHANGED login PROVE CookieForDead'
  BY <1>9 DEF RetireSession, Runs
<1>10. ASSUME NEW r \in Requests, CreateAdminSession(r), Runs(r), UNCHANGED login PROVE CookieForDead'
  BY <1>10 DEF CreateAdminSession, Insert, Runs
<1>11. ASSUME NEW r \in Requests, CheckBan(r), Runs(r) PROVE CookieForDead'
  BY <1>11 DEF CheckBan, Runs
<1>12. ASSUME NEW r \in Requests, CheckPassword(r), Runs(r) PROVE CookieForDead'
  BY <1>12 DEF CheckPassword, Runs
<1>13. ASSUME NEW r \in Requests, RecordFailure(r), Runs(r) PROVE CookieForDead'
  BY <1>13 DEF RecordFailure, Runs
<1>14. ASSUME NEW r \in Requests, CountFailures(r), Runs(r) PROVE CookieForDead'
  BY <1>14 DEF CountFailures, Runs
<1>15. ASSUME NEW r \in Requests, Ban(r), Runs(r) PROVE CookieForDead'
  BY <1>15 DEF Ban, Runs
<1>16. ASSUME NEW r \in Requests, ResetFailures(r), Runs(r) PROVE CookieForDead'
  BY <1>16 DEF ResetFailures, Runs
<1>17. ASSUME Clean PROVE CookieForDead'
  BY <1>17 DEF Clean, CleanExpiredSessions
<1>18. ASSUME Tick PROVE CookieForDead'
  BY <1>18 DEF Tick
<1>19. CASE UNCHANGED vars
  BY <1>19 DEF vars
<1> QED
  BY <1>1, <1>2, <1>3, <1>4, <1>5, <1>6, <1>7, <1>8, <1>9, <1>10, <1>11, <1>12, <1>13, <1>14, <1>15,
     <1>16, <1>17, <1>18, <1>19
  DEF Next, Runs, SessionStep, LoginStep

\* A login that proved itself and has been answered stays what it was: nothing
\* is asked of it again, and its response goes on naming the same session.
LEMMA AnsweredStay ==
  ASSUME AccessInv, [Next]_vars, NEW q \in Requests,
         pc[q] \in Answered, kind[q] = "login", right[q], q \notin locked
  PROVE  /\ setCookie'[q] = setCookie[q] /\ kind'[q] = "login" /\ right'[q]
         /\ q \notin locked' /\ pc'[q] \in Answered
<1> DEFINE Goal == /\ setCookie'[q] = setCookie[q] /\ kind'[q] = "login" /\ right'[q]
                   /\ q \notin locked' /\ pc'[q] \in Answered
<1>0. /\ pc \in [Requests -> Labels] /\ kind \in [Requests -> Kinds] /\ right \in [Requests -> BOOLEAN]
      /\ setCookie \in [Requests -> Nat]
  BY DEF AccessInv, TypeOK
<1> SUFFICES Goal
  OBVIOUS
<1> USE <1>0 DEF Answered, Goto, Answer, database, request, requests, login, attempt, browser, history
<1>1. ASSUME NEW r \in Requests, Send(r) PROVE Goal
  BY <1>1 DEF Send
<1>2. ASSUME NEW r \in Requests, Deliver(r) PROVE Goal
  BY <1>2 DEF Deliver
<1>3. ASSUME NEW r \in Requests, PeekSession(r), Runs(r), UNCHANGED login PROVE Goal
  BY <1>3 DEF PeekSession, Runs
<1>4. ASSUME NEW r \in Requests, FindSession(r), Runs(r), UNCHANGED login PROVE Goal
  BY <1>4 DEF FindSession, Runs
<1>5. ASSUME NEW r \in Requests, DropSession(r), Runs(r), UNCHANGED login PROVE Goal
  BY <1>5 DEF DropSession, Runs
<1>6. ASSUME NEW r \in Requests, CreateSession(r), Runs(r), UNCHANGED login PROVE Goal
  BY <1>6 DEF CreateSession, Insert, Runs
<1>7. ASSUME NEW r \in Requests, Route(r), Runs(r), UNCHANGED login PROVE Goal
  BY <1>7 DEF Route, Runs
<1>8. ASSUME NEW r \in Requests, DeleteSession(r), Runs(r), UNCHANGED login PROVE Goal
  BY <1>8 DEF DeleteSession, Runs
<1>9. ASSUME NEW r \in Requests, RetireSession(r), Runs(r), UNCHANGED login PROVE Goal
  BY <1>9 DEF RetireSession, Runs
<1>10. ASSUME NEW r \in Requests, CreateAdminSession(r), Runs(r), UNCHANGED login PROVE Goal
  BY <1>10 DEF CreateAdminSession, Insert, Runs
<1>11. ASSUME NEW r \in Requests, CheckBan(r), Runs(r) PROVE Goal
  BY <1>11 DEF CheckBan, Runs
<1>12. ASSUME NEW r \in Requests, CheckPassword(r), Runs(r) PROVE Goal
  BY <1>12 DEF CheckPassword, Runs
<1>13. ASSUME NEW r \in Requests, RecordFailure(r), Runs(r) PROVE Goal
  BY <1>13 DEF RecordFailure, Runs
<1>14. ASSUME NEW r \in Requests, CountFailures(r), Runs(r) PROVE Goal
  BY <1>14 DEF CountFailures, Runs
<1>15. ASSUME NEW r \in Requests, Ban(r), Runs(r) PROVE Goal
  BY <1>15 DEF Ban, Runs
<1>16. ASSUME NEW r \in Requests, ResetFailures(r), Runs(r) PROVE Goal
  BY <1>16 DEF ResetFailures, Runs
<1>17. ASSUME Clean PROVE Goal
  BY <1>17 DEF Clean, CleanExpiredSessions
<1>18. ASSUME Tick PROVE Goal
  BY <1>18 DEF Tick
<1>19. CASE UNCHANGED vars
  BY <1>19 DEF vars
<1> QED
  BY <1>1, <1>2, <1>3, <1>4, <1>5, <1>6, <1>7, <1>8, <1>9, <1>10, <1>11, <1>12, <1>13, <1>14, <1>15,
     <1>16, <1>17, <1>18, <1>19
  DEF Next, Runs, SessionStep, LoginStep

\* An admin's row is new, or was there.
LEMMA AdminRows ==
  ASSUME AccessInv, [Next]_vars, NEW s \in Sids, rows'[s].admin, ~(s <= drawn /\ rows'[s] = rows[s])
  PROVE  \E r \in Requests : CreateAdminSession(r) /\ Runs(r) /\ UNCHANGED login /\ s = drawn + 1
<1>0. /\ drawn \in Nat /\ rows \in [Sids -> Row] /\ rows'[s] # NoRow
      /\ \A i \in Sids : i > drawn => rows[i] = NoRow
      /\ s > drawn
  <2>1. s \in Nat /\ drawn \in Nat /\ rows'[s] # NoRow
    BY Records, SessionAssumption DEF AccessInv, TypeOK, Sids
  <2>2. s <= drawn => rows'[s] \in {rows[s], NoRow}
    BY <2>1, RowsOnlyGo, SessionAssumption DEF AccessInv, TypeOK, Sids
  <2> QED
    BY <2>1, <2>2 DEF AccessInv, TypeOK, IdsDrawnOnce
<1>1. rows' # rows
  BY <1>0
<1>2. \A r \in Requests : \A i : rows' # [rows EXCEPT ![i] = NoRow]
  BY <1>0
<1>3. ~Clean
  BY <1>0 DEF Clean, CleanExpiredSessions
<1>4. PICK r \in Requests : Runs(r) /\ SessionStep(r) /\ UNCHANGED login
  BY <1>1, <1>3 DEF Next, vars, Send, Deliver, Tick, Runs, LoginStep, CheckBan, CheckPassword, RecordFailure,
    CountFailures, Ban, ResetFailures, database
<1>5. CreateSession(r) \/ CreateAdminSession(r)
  BY <1>1, <1>2, <1>4 DEF SessionStep, PeekSession, FindSession, DropSession, Route, DeleteSession,
    RetireSession, database
<1>6. ASSUME NEW b \in BOOLEAN, drawn + 1 \in Sids, Insert(drawn + 1, b) \/ UNCHANGED rows
      PROVE  s = drawn + 1 /\ b
  BY <1>0, <1>1, <1>6 DEF Insert
<1> QED
  BY <1>4, <1>5, <1>6 DEF CreateSession, CreateAdminSession

\* A new admin's row is made by a login that proved itself.
LEMMA AdminsStayAnswered == ASSUME AccessInv, [Next]_vars PROVE AdminsAnswered'
<1> SUFFICES ASSUME NEW s \in Sids, rows'[s].admin, s # Earlier
             PROVE  \E r \in Requests : /\ setCookie'[r] = s /\ kind'[r] = "login" /\ right'[r]
                                        /\ r \notin locked' /\ pc'[r] \in Answered
  BY DEF AdminsAnswered
<1>1. CASE s <= drawn /\ rows'[s] = rows[s]
  <2>1. PICK r \in Requests : /\ setCookie[r] = s /\ kind[r] = "login" /\ right[r]
                              /\ r \notin locked /\ pc[r] \in Answered
    BY <1>1 DEF AccessInv, AdminsAnswered
  <2> QED
    BY <2>1, AnsweredStay
<1>2. CASE ~(s <= drawn /\ rows'[s] = rows[s])
  <2>1. PICK r \in Requests : CreateAdminSession(r) /\ Runs(r) /\ UNCHANGED login /\ s = drawn + 1
    BY <1>2, AdminRows
  <2>2. pc[r] = "createAdmin" /\ r \notin locked /\ kind[r] = "login" /\ right[r]
    BY <2>1 DEF CreateAdminSession, AccessInv, LockedAnswered, LoginsAreLogins, ProvedRight, Past, Proved, Answered
  <2>3. locked' = locked /\ UNCHANGED <<kind, right>>
    BY <2>1, <2>2 DEF Runs, CreateAdminSession, request, login
  <2>4. setCookie'[r] = s /\ pc'[r] = "done"
    BY <2>1 DEF CreateAdminSession, Answer, Goto, AccessInv, TypeOK
  <2> QED
    BY <2>2, <2>3, <2>4 DEF Answered
<1> QED
  BY <1>1, <1>2

\* Every step keeps the whole invariant.
LEMMA AccessKept == ASSUME AccessInv, [Next]_vars PROVE AccessInv'
BY TypesKept, PlacesKept, AdminsStayAnswered, EndedStayGone, LateStayDead, CookiesStayDue DEF AccessInv

\* The invariant holds in every reachable state.
LEMMA AccessInvariant == Spec => []AccessInv
<1>1. AccessInv /\ [Next]_vars => AccessInv'
  BY AccessKept
<1> QED
  BY InitAccess, <1>1, PTL DEF Spec

-----------------------------------------------------------------------------
(* The theorems *)

\* Every variable keeps its domain, no id is in use before it is drawn, and no
\* two responses set the same cookie (sessions.go:86-107).
THEOREM AccessTypes == Spec => []TypeOK
<1>1. AccessInv => TypeOK
  BY DEF AccessInv
<1> QED
  BY AccessInvariant, <1>1, PTL

\* A session that was logged out, rotated away or has expired authorises no
\* request sent afterwards (sessions.go:45-55, 74-83): whatever row of it a
\* request finds is dead, and its own copy of one is older than the request.
THEOREM EndedRefused == Spec => []EndedSessionsRefused
<1>1. AccessInv => EndedSessionsRefused
  BY DEF AccessInv, LateDead, EndedSessionsRefused
<1> QED
  BY AccessInvariant, <1>1, PTL

\* An admin's session is that of an answered login with a right password that
\* did not begin under a ban, whatever calls failed (auth.go:75-110).
THEOREM AdminsProved == Spec => []AdminsProvedThemselves
<1>1. AccessInv => AdminsProvedThemselves
  BY DEF AccessInv, AdminsAnswered, AdminsProvedThemselves
<1> QED
  BY AccessInvariant, <1>1, PTL

\* No row is changed in place: a login rotates the id, and never elevates the
\* one the browser came with (middleware.go:208-210).
THEOREM NeverElevated == Spec => RowsNeverElevated
<1>1. AccessInv /\ [Next]_vars => [\A s \in 1..drawn : rows'[s] \in {rows[s], NoRow}]_vars
  BY RowsOnlyGo DEF AccessInv
<1> QED
  BY AccessInvariant, <1>1, PTL DEF Spec, RowsNeverElevated

\* What AdminCookieKept says of a step.
CookieStep ==
  Alive(jar) /\ rows[jar].admin /\ jar' # jar /\ faults = 0 =>
    \E r \in Requests :
      /\ pc[r] = "done" /\ pc'[r] = "gone"
      /\ kind[r] = "login" \/ (sent[r] # jar /\ kind[r] \notin {"asset", "upload"})

\* No step from a state of the invariant takes an admin's cookie without need.
LEMMA CookieStepKept == ASSUME AccessInv, [Next]_vars PROVE CookieStep
<1> SUFFICES ASSUME Alive(jar), jar' # jar, faults = 0
             PROVE  \E r \in Requests :
                      /\ pc[r] = "done" /\ pc'[r] = "gone"
                      /\ kind[r] = "login" \/ (sent[r] # jar /\ kind[r] \notin {"asset", "upload"})
  BY DEF CookieStep
<1>1. PICK r \in Requests : Deliver(r)
  BY DEF Next, vars, Send, Runs, Clean, Tick, browser
<1>2. pc[r] = "done" /\ pc'[r] = "gone" /\ setCookie[r] # NoSid
  BY <1>1 DEF Deliver, Goto, AccessInv, TypeOK, browser
<1>3. ~Sessionless(kind[r]) /\ (kind[r] = "login" \/ ~Alive(sent[r]))
  BY <1>2 DEF AccessInv, CookieForDead
<1> QED
  BY <1>2, <1>3 DEF Sessionless

\* "A late asset response must not replace the cookie rotated by admin login"
\* (middleware.go:72): while no call has failed, a live admin's cookie gives way
\* to another login, or to a page asked for with another cookie.
THEOREM CookieKept == Spec => AdminCookieKept
<1>1. AccessInv /\ [Next]_vars => [CookieStep]_vars
  BY CookieStepKept
<1> QED
  BY AccessInvariant, <1>1, PTL DEF Spec, AdminCookieKept, CookieStep

-----------------------------------------------------------------------------
(* Failures lock an address out                                            *)
(*                                                                         *)
(* A ban ends BanLength after its attempt began, not after it was written.  *)
(* An attempt that is Prompt writes a ban that outlasts every failure of    *)
(* its time, so that it does no harm to write it over another one.          *)

Sending == {"session", "drop", "create", "route", "login"}

\* Fewer than Limit failures of S count at time t.
Few(S, t) == Cardinality({q \in S : at[q] >= t - Window}) < Limit

Told(r) == kind[r] = "login" /\ (pc[r] \in Past \/ (pc[r] = "done" /\ status[r] \in {"ok", "failed"}))

Clocks == \A r \in Requests : at[r] <= now

Places ==
  /\ \A r \in Requests : pc[r] = "logout" => kind[r] = "logout"
  /\ \A q \in events : pc[q] \in {"count", "ban"} \cup Answered
  /\ \A r \in Requests : \A q \in failedAt[r] : pc[q] \in Answered

\* When a ban is over, few of the failures answered still count: the one
\* counted last saw all the others.
DeniedFew ==
  faults = 0 =>
    \A a \in Addresses, t \in Nat : t >= now /\ bans[a] <= t => Few(Denied(a), t)
SentFew ==
  faults = 0 =>
    \A r \in Requests, t \in Nat :
      kind[r] = "login" /\ pc[r] \in Sending /\ t >= now /\ bans[from[r]] <= t => Few(failedAt[r], t)
ToldFew == faults = 0 => \A r \in Requests : Told(r) => Few(failedAt[r], at[r])

LockOutInv == AccessInv /\ Clocks /\ Places /\ DeniedFew /\ SentFew /\ ToldFew

\* A part of few failures is few.
LEMMA FewerFailures ==
  ASSUME NEW D \in SUBSET Requests, NEW E \in SUBSET D, Cardinality(D) < Limit
  PROVE  Cardinality(E) < Limit
<1>1. IsFiniteSet(D)
  BY FS_Subset, AccessAssumption
<1>2. Cardinality(D) \in Nat /\ Cardinality(E) \in Nat /\ Cardinality(E) <= Cardinality(D)
  BY <1>1, FS_Subset, FS_CardinalityType
<1> QED
  BY <1>2, LoginAssumption

\* The invariant of lock-outs holds at the start.
LEMMA InitLockOut == Init => LockOutInv
<1> SUFFICES ASSUME Init PROVE LockOutInv
  OBVIOUS
<1>1. AccessInv
  BY InitAccess
<1>3. Clocks
  BY DEF Init, Clocks
<1>4. Places
  BY DEF Init, Places
<1>5. \A a \in Addresses, t \in Nat : Few(Denied(a), t)
  <2>1. \A a \in Addresses, t \in Nat : {q \in Denied(a) : at[q] >= t - Window} = {}
    BY DEF Init, Denied
  <2> QED
    BY <2>1, FS_EmptySet, LoginAssumption DEF Few
<1>6. \A r \in Requests : pc[r] \notin Sending /\ ~Told(r)
  BY DEF Init, Sending, Told, Past, Proved
<1> QED
  BY <1>1, <1>3, <1>4, <1>5, <1>6 DEF LockOutInv, DeniedFew, SentFew, ToldFew

\* No attempt is dated ahead of the clock, and labels keep to their kinds of
\* request.
LEMMA ClocksKept == ASSUME LockOutInv, [Next]_vars PROVE Clocks' /\ Places'
<1> DEFINE Goal == Clocks /\ Places
<1>0. /\ pc \in [Requests -> Labels] /\ kind \in [Requests -> Kinds] /\ status \in [Requests -> Statuses]
      /\ bans \in [Addresses -> Nat] /\ from \in [Requests -> Addresses] /\ now \in Nat
      /\ at \in [Requests -> Nat] /\ events \in SUBSET Requests /\ failedAt \in [Requests -> SUBSET Requests]
      /\ Clocks /\ Places
  BY DEF LockOutInv, AccessInv, TypeOK, HistoryTypes
<1> SUFFICES Goal'
  OBVIOUS
<1> USE <1>0 DEF Clocks, Places, Denied, Answered, Past, Proved, Goto, Answer, database, request, requests, login, attempt, browser, history
<1>1. ASSUME NEW r \in Requests, Send(r) PROVE Goal'
  BY <1>1 DEF Send
<1>2. ASSUME NEW r \in Requests, Deliver(r) PROVE Goal'
  BY <1>2 DEF Deliver
<1>3. ASSUME NEW r \in Requests, PeekSession(r), Runs(r), UNCHANGED login PROVE Goal'
  BY <1>3 DEF PeekSession, Runs
<1>4. ASSUME NEW r \in Requests, FindSession(r), Runs(r), UNCHANGED login PROVE Goal'
  BY <1>4 DEF FindSession, Runs
<1>5. ASSUME NEW r \in Requests, DropSession(r), Runs(r), UNCHANGED login PROVE Goal'
  BY <1>5 DEF DropSession, Runs
<1>6. ASSUME NEW r \in Requests, CreateSession(r), Runs(r), UNCHANGED login PROVE Goal'
  BY <1>6 DEF CreateSession, Insert, Runs
<1>7. ASSUME NEW r \in Requests, Route(r), Runs(r), UNCHANGED login PROVE Goal'
  BY <1>7 DEF Route, Runs
<1>8. ASSUME NEW r \in Requests, DeleteSession(r), Runs(r), UNCHANGED login PROVE Goal'
  BY <1>8 DEF DeleteSession, Runs
<1>9. ASSUME NEW r \in Requests, RetireSession(r), Runs(r), UNCHANGED login PROVE Goal'
  BY <1>9 DEF RetireSession, Runs
<1>10. ASSUME NEW r \in Requests, CreateAdminSession(r), Runs(r), UNCHANGED login PROVE Goal'
  BY <1>10 DEF CreateAdminSession, Insert, Runs
<1>11. ASSUME NEW r \in Requests, CheckBan(r), Runs(r) PROVE Goal'
  BY <1>11 DEF CheckBan, Runs
<1>12. ASSUME NEW r \in Requests, CheckPassword(r), Runs(r) PROVE Goal'
  BY <1>12 DEF CheckPassword, Runs
<1>13. ASSUME NEW r \in Requests, RecordFailure(r), Runs(r) PROVE Goal'
  BY <1>13 DEF RecordFailure, Runs
<1>14. ASSUME NEW r \in Requests, CountFailures(r), Runs(r) PROVE Goal'
  BY <1>14 DEF CountFailures, Runs
<1>15. ASSUME NEW r \in Requests, Ban(r), Runs(r) PROVE Goal'
  BY <1>15 DEF Ban, Runs
<1>16. ASSUME NEW r \in Requests, ResetFailures(r), Runs(r) PROVE Goal'
  BY <1>16 DEF ResetFailures, Runs
<1>17. ASSUME Clean PROVE Goal'
  BY <1>17 DEF Clean, CleanExpiredSessions
<1>18. ASSUME Tick PROVE Goal'
  BY <1>18 DEF Tick
<1>19. CASE UNCHANGED vars
  BY <1>19 DEF vars
<1> QED
  BY <1>1, <1>2, <1>3, <1>4, <1>5, <1>6, <1>7, <1>8, <1>9, <1>10, <1>11, <1>12, <1>13, <1>14, <1>15,
     <1>16, <1>17, <1>18, <1>19
  DEF Next, Runs, SessionStep, LoginStep

\* The failures of an answered request are not stamped again.
LEMMA StampsStay ==
  ASSUME AccessInv, [Next]_vars, NEW q \in Requests, pc[q] # "login"
  PROVE  at'[q] = at[q] /\ (pc[q] \in Answered => pc'[q] \in Answered)
<1> DEFINE Goal == at'[q] = at[q] /\ (pc[q] \in Answered => pc'[q] \in Answered)
<1>0. pc \in [Requests -> Labels] /\ at \in [Requests -> Nat]
  BY DEF AccessInv, TypeOK
<1> SUFFICES Goal
  OBVIOUS
<1> USE <1>0 DEF Answered, Goto, Answer, database, request, requests, login, attempt, browser, history
<1>1. ASSUME NEW r \in Requests, Send(r) PROVE Goal
  BY <1>1 DEF Send
<1>2. ASSUME NEW r \in Requests, Deliver(r) PROVE Goal
  BY <1>2 DEF Deliver
<1>3. ASSUME NEW r \in Requests, PeekSession(r), Runs(r), UNCHANGED login PROVE Goal
  BY <1>3 DEF PeekSession, Runs
<1>4. ASSUME NEW r \in Requests, FindSession(r), Runs(r), UNCHANGED login PROVE Goal
  BY <1>4 DEF FindSession, Runs
<1>5. ASSUME NEW r \in Requests, DropSession(r), Runs(r), UNCHANGED login PROVE Goal
  BY <1>5 DEF DropSession, Runs
<1>6. ASSUME NEW r \in Requests, CreateSession(r), Runs(r), UNCHANGED login PROVE Goal
  BY <1>6 DEF CreateSession, Insert, Runs
<1>7. ASSUME NEW r \in Requests, Route(r), Runs(r), UNCHANGED login PROVE Goal
  BY <1>7 DEF Route, Runs
<1>8. ASSUME NEW r \in Requests, DeleteSession(r), Runs(r), UNCHANGED login PROVE Goal
  BY <1>8 DEF DeleteSession, Runs
<1>9. ASSUME NEW r \in Requests, RetireSession(r), Runs(r), UNCHANGED login PROVE Goal
  BY <1>9 DEF RetireSession, Runs
<1>10. ASSUME NEW r \in Requests, CreateAdminSession(r), Runs(r), UNCHANGED login PROVE Goal
  BY <1>10 DEF CreateAdminSession, Insert, Runs
<1>11. ASSUME NEW r \in Requests, CheckBan(r), Runs(r) PROVE Goal
  BY <1>11 DEF CheckBan, Runs
<1>12. ASSUME NEW r \in Requests, CheckPassword(r), Runs(r) PROVE Goal
  BY <1>12 DEF CheckPassword, Runs
<1>13. ASSUME NEW r \in Requests, RecordFailure(r), Runs(r) PROVE Goal
  BY <1>13 DEF RecordFailure, Runs
<1>14. ASSUME NEW r \in Requests, CountFailures(r), Runs(r) PROVE Goal
  BY <1>14 DEF CountFailures, Runs
<1>15. ASSUME NEW r \in Requests, Ban(r), Runs(r) PROVE Goal
  BY <1>15 DEF Ban, Runs
<1>16. ASSUME NEW r \in Requests, ResetFailures(r), Runs(r) PROVE Goal
  BY <1>16 DEF ResetFailures, Runs
<1>17. ASSUME Clean PROVE Goal
  BY <1>17 DEF Clean, CleanExpiredSessions
<1>18. ASSUME Tick PROVE Goal
  BY <1>18 DEF Tick
<1>19. CASE UNCHANGED vars
  BY <1>19 DEF vars
<1> QED
  BY <1>1, <1>2, <1>3, <1>4, <1>5, <1>6, <1>7, <1>8, <1>9, <1>10, <1>11, <1>12, <1>13, <1>14, <1>15,
     <1>16, <1>17, <1>18, <1>19
  DEF Next, Runs, SessionStep, LoginStep

\* Failures that were few in a window stay few: the attempts that made them
\* keep their dates.
LEMMA FewStays ==
  ASSUME LockOutInv, [Next]_vars, NEW r \in Requests, NEW t \in Nat, Few(failedAt[r], t)
  PROVE  Cardinality({q \in failedAt[r] : at'[q] >= t - Window}) < Limit
<1>1. \A q \in failedAt[r] : at'[q] = at[q]
  BY StampsStay DEF LockOutInv, AccessInv, TypeOK, HistoryTypes, Places, Answered
<1>2. {q \in failedAt[r] : at'[q] >= t - Window} = {q \in failedAt[r] : at[q] >= t - Window}
  BY <1>1
<1> QED
  BY <1>2 DEF Few

\* How a login comes to be sent, and to be told.
LEMMA LoginMoves ==
  ASSUME LockOutInv, [Next]_vars, NEW r \in Requests, kind'[r] = "login"
  PROVE  /\ pc'[r] \in Sending =>
              \/ /\ pc[r] = "new" /\ failedAt'[r] = Denied(from[r])
                 /\ UNCHANGED <<bans, from, at, now, faults>>
              \/ pc[r] \in Sending /\ kind[r] = "login" /\ failedAt'[r] = failedAt[r]
         /\ Told(r)' =>
              \/ /\ CheckBan(r) /\ bans[from[r]] <= now /\ faults' = faults /\ UNCHANGED now
                 /\ failedAt' = failedAt /\ at'[r] = now /\ kind[r] = "login" /\ pc[r] \in Sending
              \/ Fails("get")
              \/ Told(r) /\ failedAt'[r] = failedAt[r] /\ at'[r] = at[r]
<1> DEFINE Sent1 == pc[r] = "new" /\ failedAt'[r] = Denied(from[r]) /\ UNCHANGED <<bans, from, at, now, faults>>
           Sent2 == pc[r] \in Sending /\ kind[r] = "login" /\ failedAt'[r] = failedAt[r]
           Told1 == /\ CheckBan(r) /\ bans[from[r]] <= now /\ faults' = faults /\ UNCHANGED now
                    /\ failedAt' = failedAt /\ at'[r] = now /\ kind[r] = "login" /\ pc[r] \in Sending
           Told2 == Told(r) /\ failedAt'[r] = failedAt[r] /\ at'[r] = at[r]
           Goal == (pc'[r] \in Sending => Sent1 \/ Sent2) /\ (Told(r)' => Told1 \/ Fails("get") \/ Told2)
<1>0. /\ pc \in [Requests -> Labels] /\ kind \in [Requests -> Kinds] /\ status \in [Requests -> Statuses]
      /\ at \in [Requests -> Nat] /\ failedAt \in [Requests -> SUBSET Requests]
      /\ LoginsAreLogins /\ Places
  BY DEF LockOutInv, AccessInv, TypeOK, HistoryTypes
<1> SUFFICES Goal
  OBVIOUS
<1> USE <1>0 DEF LoginsAreLogins, Places, Sending, Told, Past, Proved, Answered, Goto, Answer, Succeeds, database, request, requests, login, attempt, browser, history
<1>1. ASSUME NEW p \in Requests, Send(p) PROVE Goal
  BY <1>1 DEF Send
<1>2. ASSUME NEW p \in Requests, Deliver(p) PROVE Goal
  BY <1>2 DEF Deliver
<1>3. ASSUME NEW p \in Requests, PeekSession(p), Runs(p), UNCHANGED login PROVE Goal
  BY <1>3 DEF PeekSession, Runs
<1>4. ASSUME NEW p \in Requests, FindSession(p), Runs(p), UNCHANGED login PROVE Goal
  BY <1>4 DEF FindSession, Runs
<1>5. ASSUME NEW p \in Requests, DropSession(p), Runs(p), UNCHANGED login PROVE Goal
  BY <1>5 DEF DropSession, Runs
<1>6. ASSUME NEW p \in Requests, CreateSession(p), Runs(p), UNCHANGED login PROVE Goal
  BY <1>6 DEF CreateSession, Insert, Runs
<1>7. ASSUME NEW p \in Requests, Route(p), Runs(p), UNCHANGED login PROVE Goal
  BY <1>7 DEF Route, Runs
<1>8. ASSUME NEW p \in Requests, DeleteSession(p), Runs(p), UNCHANGED login PROVE Goal
  BY <1>8 DEF DeleteSession, Runs
<1>9. ASSUME NEW p \in Requests, RetireSession(p), Runs(p), UNCHANGED login PROVE Goal
  BY <1>9 DEF RetireSession, Runs
<1>10. ASSUME NEW p \in Requests, CreateAdminSession(p), Runs(p), UNCHANGED login PROVE Goal
  BY <1>10 DEF CreateAdminSession, Insert, Runs
<1>11. ASSUME NEW p \in Requests, CheckBan(p), Runs(p) PROVE Goal
  BY <1>11 DEF CheckBan, Runs
<1>12. ASSUME NEW p \in Requests, CheckPassword(p), Runs(p) PROVE Goal
  BY <1>12 DEF CheckPassword, Runs
<1>13. ASSUME NEW p \in Requests, RecordFailure(p), Runs(p) PROVE Goal
  BY <1>13 DEF RecordFailure, Runs
<1>14. ASSUME NEW p \in Requests, CountFailures(p), Runs(p) PROVE Goal
  BY <1>14 DEF CountFailures, Runs
<1>15. ASSUME NEW p \in Requests, Ban(p), Runs(p) PROVE Goal
  BY <1>15 DEF Ban, Runs
<1>16. ASSUME NEW p \in Requests, ResetFailures(p), Runs(p) PROVE Goal
  BY <1>16 DEF ResetFailures, Runs
<1>17. ASSUME Clean PROVE Goal
  BY <1>17 DEF Clean, CleanExpiredSessions
<1>18. ASSUME Tick PROVE Goal
  BY <1>18 DEF Tick
<1>19. CASE UNCHANGED vars
  BY <1>19 DEF vars
<1> QED
  BY <1>1, <1>2, <1>3, <1>4, <1>5, <1>6, <1>7, <1>8, <1>9, <1>10, <1>11, <1>12, <1>13, <1>14, <1>15,
     <1>16, <1>17, <1>18, <1>19
  DEF Next, Runs, SessionStep, LoginStep

\* The failures of the past do not count any more at the time t.
LEMMA NoneCount ==
  ASSUME LockOutInv, NEW S \in SUBSET Requests, NEW t \in Nat, t > now + Window
  PROVE  Few(S, t)
<1>1. {q \in S : at[q] >= t - Window} = {}
  BY LoginAssumption DEF LockOutInv, Clocks, AccessInv, TypeOK
<1> QED
  BY <1>1, FS_EmptySet, LoginAssumption DEF Few

\* A ban is written over by one that outlasts the failures of its time.
LEMMA BansOutlast ==
  ASSUME LockOutInv, Prompt, [Next]_vars, NEW a \in Addresses, NEW t \in Nat, bans'[a] <= t
  PROVE  bans[a] <= t \/ (t > now + Window /\ UNCHANGED <<now, at, failedAt, events, kind>>)
<1>1. \/ bans' = bans
      \/ \E r \in Requests : /\ pc[r] = "ban" /\ bans' = [bans EXCEPT ![from[r]] = at[r] + BanLength]
                             /\ UNCHANGED <<now, at, failedAt, events, kind>>
  BY DEF Next, vars, Send, Deliver, Runs, SessionStep, LoginStep, CheckBan, CheckPassword, RecordFailure,
    CountFailures, Ban, ResetFailures, Clean, Tick, login, attempt, request
<1>2. bans \in [Addresses -> Nat] /\ BanLength \in Nat /\ Window \in Nat /\ at \in [Requests -> Nat] /\ now \in Nat
  BY LoginAssumption DEF LockOutInv, AccessInv, TypeOK
<1> QED
  BY <1>1, <1>2 DEF Prompt

\* While no call fails and the address is not banned, a failure becomes an
\* answered one only when its own request has counted too few.
LEMMA NewlyDenied ==
  ASSUME LockOutInv, [Next]_vars, faults' = 0, NEW q \in Requests,
         q \in events', pc'[q] \in Answered, q \notin Denied(from[q])
  PROVE  /\ UNCHANGED <<events, at, now, from>>
         /\ \/ Ban(q) /\ bans' = [bans EXCEPT ![from[q]] = at[q] + BanLength]
            \/ CountFailures(q) /\ Cardinality(Recent(q)) < Limit
<1> DEFINE Goal == /\ UNCHANGED <<events, at, now, from>>
                   /\ \/ Ban(q) /\ bans' = [bans EXCEPT ![from[q]] = at[q] + BanLength]
                      \/ CountFailures(q) /\ Cardinality(Recent(q)) < Limit
<1>0. pc \in [Requests -> Labels] /\ faults \in Nat /\ events \in SUBSET Requests /\ Places
  BY SessionAssumption DEF LockOutInv, AccessInv, TypeOK
<1> SUFFICES Goal
  OBVIOUS
<1> USE <1>0 DEF Places, Denied, Answered, Goto, Answer, Succeeds, Fails, database, request, requests, login, attempt, browser, history
<1>1. ASSUME NEW p \in Requests, Send(p) PROVE Goal
  BY <1>1 DEF Send
<1>2. ASSUME NEW p \in Requests, Deliver(p) PROVE Goal
  BY <1>2 DEF Deliver
<1>3. ASSUME NEW p \in Requests, PeekSession(p), Runs(p), UNCHANGED login PROVE Goal
  BY <1>3 DEF PeekSession, Runs
<1>4. ASSUME NEW p \in Requests, FindSession(p), Runs(p), UNCHANGED login PROVE Goal
  BY <1>4 DEF FindSession, Runs
<1>5. ASSUME NEW p \in Requests, DropSession(p), Runs(p), UNCHANGED login PROVE Goal
  BY <1>5 DEF DropSession, Runs
<1>6. ASSUME NEW p \in Requests, CreateSession(p), Runs(p), UNCHANGED login PROVE Goal
  BY <1>6 DEF CreateSession, Insert, Runs
<1>7. ASSUME NEW p \in Requests, Route(p), Runs(p), UNCHANGED login PROVE Goal
  BY <1>7 DEF Route, Runs
<1>8. ASSUME NEW p \in Requests, DeleteSession(p), Runs(p), UNCHANGED login PROVE Goal
  BY <1>8 DEF DeleteSession, Runs
<1>9. ASSUME NEW p \in Requests, RetireSession(p), Runs(p), UNCHANGED login PROVE Goal
  BY <1>9 DEF RetireSession, Runs
<1>10. ASSUME NEW p \in Requests, CreateAdminSession(p), Runs(p), UNCHANGED login PROVE Goal
  BY <1>10 DEF CreateAdminSession, Insert, Runs
<1>11. ASSUME NEW p \in Requests, CheckBan(p), Runs(p) PROVE Goal
  BY <1>11 DEF CheckBan, Runs
<1>12. ASSUME NEW p \in Requests, CheckPassword(p), Runs(p) PROVE Goal
  BY <1>12 DEF CheckPassword, Runs
<1>13. ASSUME NEW p \in Requests, RecordFailure(p), Runs(p) PROVE Goal
  BY <1>13 DEF RecordFailure, Runs
<1>14. ASSUME NEW p \in Requests, CountFailures(p), Runs(p) PROVE Goal
  BY <1>14 DEF CountFailures, Runs
<1>15. ASSUME NEW p \in Requests, Ban(p), Runs(p) PROVE Goal
  <2>1. p = q
    BY <1>15 DEF Ban, Runs
  <2>2. bans' = [bans EXCEPT ![from[p]] = at[p] + BanLength]
    BY <1>15 DEF Ban
  <2>3. UNCHANGED <<events, at, now, from>>
    BY <1>15 DEF Ban
  <2> QED
    BY <1>15, <2>1, <2>2, <2>3
<1>16. ASSUME NEW p \in Requests, ResetFailures(p), Runs(p) PROVE Goal
  BY <1>16 DEF ResetFailures, Runs
<1>17. ASSUME Clean PROVE Goal
  BY <1>17 DEF Clean, CleanExpiredSessions
<1>18. ASSUME Tick PROVE Goal
  BY <1>18 DEF Tick
<1>19. CASE UNCHANGED vars
  BY <1>19 DEF vars
<1> QED
  BY <1>1, <1>2, <1>3, <1>4, <1>5, <1>6, <1>7, <1>8, <1>9, <1>10, <1>11, <1>12, <1>13, <1>14, <1>15,
     <1>16, <1>17, <1>18, <1>19
  DEF Next, Runs, SessionStep, LoginStep

\* Unless a ban is in force, the failures answered so far are few.
LEMMA DeniedStayFew == ASSUME LockOutInv, Prompt, [Next]_vars PROVE DeniedFew'
<1> SUFFICES ASSUME faults' = 0, NEW a \in Addresses, NEW t \in Nat, t >= now', bans'[a] <= t
             PROVE  Few(Denied(a), t)'
  BY DEF DeniedFew
<1> DEFINE Late(S) == {q \in S : at[q] >= t - Window}
<1>0. /\ now \in Nat /\ now' >= now /\ faults = 0 /\ events \in SUBSET Requests /\ events' \in SUBSET Requests
      /\ at \in [Requests -> Nat] /\ from' = from /\ from \in [Requests -> Addresses]
      /\ bans \in [Addresses -> Nat] /\ t >= now /\ Window \in Nat /\ BanLength \in Nat
  <2>1. from' = from
    BY DEF Next, vars, Send, Deliver, Runs, SessionStep, LoginStep, CheckBan, CheckPassword, RecordFailure,
      CountFailures, Ban, ResetFailures, Clean, Tick, login, attempt
  <2>2. TypeOK /\ TypeOK'
    BY TypesKept DEF LockOutInv, AccessInv
  <2>3. now' >= now /\ faults' >= faults /\ now \in Nat /\ now' \in Nat /\ faults \in Nat
    BY <2>2, RowsOnlyGo, SessionAssumption DEF TypeOK
  <2> QED
    BY <2>1, <2>2, <2>3, LoginAssumption DEF TypeOK
<1>1. CASE t > now + Window /\ UNCHANGED <<now, at>>
  <2>1. Late(Denied(a))' \subseteq {}
    BY <1>0, <1>1 DEF LockOutInv, Clocks, Denied
  <2>2. Cardinality({}) < Limit
    BY FS_EmptySet, LoginAssumption
  <2> QED
    BY <2>1, <2>2, FewerFailures DEF Few
<1>2. ASSUME NEW r \in Denied(a)', r \notin Denied(a), ~(t > now + Window /\ UNCHANGED <<now, at>>)
      PROVE  Few(Denied(a), t)'
  <2>1. UNCHANGED <<events, at, now, from>> /\ from[r] = a /\ at[r] <= now /\ r \in Requests
    BY <1>0, <1>2, NewlyDenied DEF Denied, Answered, LockOutInv, Clocks
  <2>2. CASE CountFailures(r) /\ Cardinality(Recent(r)) < Limit
    <3>1. Late(Denied(a))' \subseteq Recent(r)
      BY <1>0, <2>1 DEF Denied, Recent
    <3>2. Recent(r) \in SUBSET Requests
      BY <1>0 DEF Recent
    <3> QED
      BY <2>2, <3>1, <3>2, FewerFailures DEF Few
  <2>3. CASE Ban(r) /\ bans' = [bans EXCEPT ![from[r]] = at[r] + BanLength]
    <3>1. bans'[a] = at[r] + BanLength /\ pc[r] = "ban"
      BY <1>0, <2>1, <2>3 DEF Ban
    <3> QED
      BY <1>0, <1>2, <2>1, <3>1 DEF Prompt
  <2> QED
    BY <1>0, <1>2, <2>1, <2>2, <2>3, NewlyDenied DEF Denied, Answered
<1>3. CASE Denied(a)' \subseteq Denied(a) /\ bans[a] <= t
  <2>1. \A q \in Denied(a)' : at'[q] = at[q]
    BY <1>0, <1>3, StampsStay DEF Denied, LockOutInv
  <2>2. Late(Denied(a))' \subseteq Late(Denied(a))
    BY <1>3, <2>1
  <2>3. Cardinality(Late(Denied(a))) < Limit
    BY <1>0, <1>3 DEF LockOutInv, DeniedFew, Few
  <2>4. Late(Denied(a)) \in SUBSET Requests
    BY <1>0 DEF Denied
  <2> QED
    BY <2>2, <2>3, <2>4, FewerFailures DEF Few
<1> QED
  BY <1>1, <1>2, <1>3, BansOutlast

\* An attempt past the check of the ban was sent when failures were few.
LEMMA SentStayFew == ASSUME LockOutInv, Prompt, [Next]_vars PROVE SentFew'
<1> SUFFICES ASSUME faults' = 0, NEW r \in Requests, NEW t \in Nat, kind'[r] = "login", pc'[r] \in Sending,
                    bans'[from'[r]] <= t, t >= now'
             PROVE  Few(failedAt[r], t)'
  BY DEF SentFew
<1>0. TypeOK /\ now \in Nat /\ now' \in Nat /\ now' >= now /\ faults = 0 /\ from' = from /\ t >= now
      /\ from[r] \in Addresses /\ failedAt[r] \in SUBSET Requests
  <2>1. from' = from
    BY DEF Next, vars, Send, Deliver, Runs, SessionStep, LoginStep, CheckBan, CheckPassword, RecordFailure,
      CountFailures, Ban, ResetFailures, Clean, Tick, login, attempt
  <2>2. TypeOK /\ TypeOK'
    BY TypesKept DEF LockOutInv, AccessInv
  <2>3. now' >= now /\ faults' >= faults /\ now \in Nat /\ now' \in Nat /\ faults \in Nat
    BY <2>2, RowsOnlyGo, SessionAssumption DEF TypeOK
  <2>4. from[r] \in Addresses /\ failedAt[r] \in SUBSET Requests
    BY <2>2 DEF TypeOK, HistoryTypes
  <2> QED
    BY <2>1, <2>2, <2>3, <2>4
<1>1. CASE t > now + Window /\ UNCHANGED <<now, at, failedAt, events, kind>>
  <2>1. Few(failedAt[r], t)
    BY <1>0, <1>1, NoneCount
  <2> QED
    BY <1>1, <2>1 DEF Few
<1>2. CASE /\ pc[r] = "new" /\ failedAt'[r] = Denied(from[r]) /\ bans[from[r]] <= t
           /\ UNCHANGED <<bans, from, at, now, faults>>
  BY <1>0, <1>2 DEF LockOutInv, DeniedFew, Few
<1>3. CASE pc[r] \in Sending /\ kind[r] = "login" /\ failedAt'[r] = failedAt[r] /\ bans[from[r]] <= t
  <2>1. Few(failedAt[r], t)
    BY <1>0, <1>3 DEF LockOutInv, SentFew
  <2> QED
    BY <1>3, <2>1, FewStays DEF Few
<1> QED
  BY <1>0, <1>1, <1>2, <1>3, LoginMoves, BansOutlast

\* So was one that has been told about its password.
LEMMA ToldStayFew == ASSUME LockOutInv, [Next]_vars PROVE ToldFew'
<1> SUFFICES ASSUME faults' = 0, NEW r \in Requests, Told(r)'
             PROVE  Few(failedAt[r], at[r])'
  BY DEF ToldFew
<1>0. TypeOK /\ now \in Nat /\ faults = 0 /\ faults \in Nat /\ at[r] \in Nat /\ kind'[r] = "login"
  <2>1. TypeOK
    BY DEF LockOutInv, AccessInv
  <2>2. faults' >= faults /\ faults \in Nat
    BY <2>1, RowsOnlyGo, SessionAssumption DEF TypeOK
  <2> QED
    BY <2>1, <2>2 DEF TypeOK, Told
<1>1. CASE /\ CheckBan(r) /\ bans[from[r]] <= now /\ faults' = faults /\ UNCHANGED now
           /\ failedAt' = failedAt /\ at'[r] = now /\ kind[r] = "login" /\ pc[r] \in Sending
  <2>2. Few(failedAt[r], now)
    BY <1>0, <1>1 DEF LockOutInv, SentFew
  <2> QED
    BY <1>0, <1>1, <2>2, FewStays DEF Few
<1>2. CASE Told(r) /\ failedAt'[r] = failedAt[r] /\ at'[r] = at[r]
  <2>1. Few(failedAt[r], at[r])
    BY <1>0, <1>2 DEF LockOutInv, ToldFew
  <2> QED
    BY <1>0, <1>2, <2>1, FewStays DEF Few
<1>3. ~Fails("get")
  BY <1>0 DEF Fails
<1> QED
  BY <1>0, <1>1, <1>2, <1>3, LoginMoves

\* "Five failures within one minute" ban (auth.go:156): while no call fails, and
\* as long as no attempt takes so long that a ban of its time would be over, an
\* attempt sent when Limit failures of the last minute had been answered is not
\* told whether its password is right.
THEOREM LockedOut == Spec /\ []Prompt => []FailuresLockOut
<1>1. Init => LockOutInv
  BY InitLockOut
<1>2. LockOutInv /\ Prompt /\ [Next]_vars => LockOutInv'
  <2> SUFFICES ASSUME LockOutInv, Prompt, [Next]_vars PROVE LockOutInv'
    OBVIOUS
  <2>1. AccessInv'
    BY AccessKept DEF LockOutInv
  <2>2. Clocks' /\ Places'
    BY ClocksKept
  <2> QED
    BY <2>1, <2>2, DeniedStayFew, SentStayFew, ToldStayFew DEF LockOutInv
<1>3. LockOutInv => FailuresLockOut
  BY DEF LockOutInv, ToldFew, Told, Few, FailuresLockOut
<1> QED
  BY <1>1, <1>2, <1>3, PTL DEF Spec
=============================================================================
