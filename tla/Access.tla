------------------------------- MODULE Access -------------------------------
(***************************************************************************)
(* Who is an admin, and for how long: Sessions and AdminLogin under one    *)
(* browser that sends requests from several tabs and gets the responses in *)
(* any order, or never.  The browser is external: it keeps one cookie, the *)
(* last one set, and the tokens of the pages it was shown.                 *)
(***************************************************************************)
EXTENDS AdminLogin

CONSTANTS
  Asked,     \* what the browser asks for: all of Kinds, or the part a run is about
  Tabs,      \* tabs of the browser, each with one request under way at most
  MaxTime    \* bound on the clock

\* There is room for the session a browser may bring along.
ASSUME AccessAssumption ==
  MaxTime \in Nat /\ MaxSids > 0 /\ IsFiniteSet(Requests) /\ Asked \subseteq Kinds

VARIABLES
  jar,       \* the browser's sid cookie
  tokens,    \* CSRF tokens in the pages it has open
  ended,     \* history: sessions logged out or rotated away while no call failed
  late,      \* history: the request was sent after its session had ended or expired
  locked,    \* history: logins that began while their address was banned
  failedAt   \* history: failures answered and not forgotten when the request was sent

browser == <<jar, tokens>>
history == <<ended, late, locked, failedAt>>
vars == <<now, database, faults, requests, login, browser, history>>

\* A browser may still have a session of an earlier visit, an admin's or not,
\* with or without its row, and a page rendered for it.
Earlier == 1

Init ==
  /\ now = 1
  /\ \E row \in {NoRow} \cup [admin : BOOLEAN, exp : {now + SessionLife}] :
       rows = [s \in Sids |-> IF s = Earlier THEN row ELSE NoRow]
  /\ drawn = Earlier /\ faults = 0
  /\ pc = [r \in Requests |-> "new"]
  /\ kind = [r \in Requests |-> "asset"]
  /\ sent = [r \in Requests |-> NoSid] /\ token = [r \in Requests |-> NoSid]
  /\ sess = [r \in Requests |-> NoSession]
  /\ setCookie = [r \in Requests |-> NoSid]
  /\ status = [r \in Requests |-> "none"]
  /\ bans = [a \in Addresses |-> 0] /\ events = {}
  /\ from \in [Requests -> Addresses]
  /\ at = [r \in Requests |-> 0]
  /\ right = [r \in Requests |-> FALSE]
  /\ jar \in {Earlier} \cup (IF rows[Earlier] = NoRow THEN {NoSid} ELSE {})
  /\ tokens = {jar} \ {NoSid}
  /\ ended = {} /\ locked = {}
  /\ late = [r \in Requests |-> FALSE] /\ failedAt = [r \in Requests |-> {}]

\* Failures of r's address that were answered and that no success has reset.
Denied(a) == {q \in events : from[q] = a /\ pc[q] \in {"done", "gone"}}

\* A tab sends a request with the cookie of the moment and the token of a page.
Send(r) ==
  /\ pc[r] = "new"
  /\ Cardinality({q \in Requests : pc[q] \notin {"new", "gone"}}) < Tabs
  /\ \E k \in Asked : kind' = [kind EXCEPT ![r] = k]
  /\ sent' = [sent EXCEPT ![r] = jar]
  /\ \E t \in tokens \cup {NoSid} :
       /\ t # NoSid => Unsafe(kind'[r]) \/ kind'[r] = "upload"
       /\ token' = [token EXCEPT ![r] = t]
  /\ \E b \in BOOLEAN : (b => kind'[r] = "login") /\ right' = [right EXCEPT ![r] = b]
  /\ late' = [late EXCEPT ![r] = jar \in ended \/ (jar # NoSid /\ rows[jar].exp <= now)]
  /\ failedAt' = [failedAt EXCEPT ![r] = IF kind'[r] = "login" THEN Denied(from[r]) ELSE {}]
  /\ Goto(r, "session")
  /\ UNCHANGED <<now, database, faults, sess, setCookie, status, bans, events, from, at,
                 browser, ended, locked>>

\* A response arrives, if its tab is still there: its cookie replaces the one
\* there is, and a page it shows carries the token of the session it was
\* rendered for.  What the request was made of is forgotten, but for the
\* cookie of a login with a right password.
Deliver(r) ==
  /\ pc[r] = "done"
  /\ Goto(r, "gone")
  /\ \/ UNCHANGED browser
     \/ /\ jar' = IF setCookie[r] = NoSid THEN jar ELSE setCookie[r]
        /\ tokens' = tokens \cup
             (IF status[r] \in {"ok", "authorised"} /\ kind[r] \in {"page", "admin"}
                THEN {sess[r].sid} ELSE {})
  /\ sent' = [sent EXCEPT ![r] = NoSid] /\ token' = [token EXCEPT ![r] = NoSid]
  /\ sess' = [sess EXCEPT ![r] = NoSession] /\ status' = [status EXCEPT ![r] = "none"]
  /\ late' = [late EXCEPT ![r] = FALSE] /\ failedAt' = [failedAt EXCEPT ![r] = {}]
  /\ IF kind[r] = "login" /\ right[r] THEN UNCHANGED <<kind, setCookie>>
     ELSE /\ kind' = [kind EXCEPT ![r] = "asset"]
          /\ setCookie' = [setCookie EXCEPT ![r] = NoSid]
  /\ UNCHANGED <<now, database, faults, login, ended, locked>>

Runs(r) ==
  /\ \/ SessionStep(r) /\ UNCHANGED login
     \/ LoginStep(r)
  /\ ended' = IF pc[r] \in {"logout", "rotate"} /\ faults' = faults
              THEN ended \cup {sess[r].sid} ELSE ended
  /\ locked' = IF pc[r] = "login" /\ bans[from[r]] > now THEN locked \cup {r} ELSE locked
  /\ UNCHANGED <<browser, late, failedAt>>

Clean == CleanExpiredSessions /\ UNCHANGED <<login, browser, history>>

Tick ==
  /\ now < MaxTime
  /\ now' = now + 1
  /\ UNCHANGED <<database, faults, requests, login, browser, history>>

Next ==
  \/ \E r \in Requests : Send(r) \/ Runs(r) \/ Deliver(r)
  \/ Clean \/ Tick

Spec == Init /\ [][Next]_vars

-----------------------------------------------------------------------------
(* Properties                                                              *)

Labels == {"new", "session", "drop", "create", "route", "login", "logout", "password",
           "record", "count", "ban", "reset", "rotate", "createAdmin", "done", "gone"}
Statuses == {"none", "ok", "forbidden", "redirected", "authorised", "banned", "failed"}

Row     == [admin : BOOLEAN, exp : Nat]
Session == [sid : Nat, admin : BOOLEAN]

\* No id is in use before it is drawn, and no two responses hand out the same.
IdsDrawnOnce ==
  /\ \A s \in Sids : s > drawn => rows[s] = NoRow
  /\ \A r \in Requests : sent[r] <= drawn /\ token[r] <= drawn
  /\ \A r \in Requests : sess[r].sid <= drawn /\ setCookie[r] <= drawn
  /\ jar <= drawn /\ \A t \in tokens : t <= drawn
  /\ \A r, q \in Requests : r # q /\ setCookie[r] = setCookie[q] => setCookie[r] = NoSid

HistoryTypes ==
  /\ ended \in SUBSET Nat /\ locked \in SUBSET Requests
  /\ late \in [Requests -> BOOLEAN] /\ failedAt \in [Requests -> SUBSET Requests]

\* Every variable keeps its domain, and every id in use was drawn, for one response.
TypeOK ==
  /\ now \in Nat /\ faults \in 0..MaxFaults /\ drawn \in 0..MaxSids
  /\ rows \in [Sids -> Row]
  /\ pc \in [Requests -> Labels] /\ kind \in [Requests -> Kinds]
  /\ sent \in [Requests -> Nat] /\ token \in [Requests -> Nat]
  /\ sess \in [Requests -> Session]
  /\ setCookie \in [Requests -> Nat] /\ status \in [Requests -> Statuses]
  /\ bans \in [Addresses -> Nat] /\ events \in SUBSET Requests
  /\ from \in [Requests -> Addresses] /\ at \in [Requests -> Nat]
  /\ right \in [Requests -> BOOLEAN]
  /\ jar \in Nat /\ tokens \in SUBSET Nat
  /\ HistoryTypes /\ IdsDrawnOnce

\* A session that was logged out, rotated away or has expired never authorises
\* a request sent afterwards, whatever is still in the table or in a tab
\* (sessions.go:45-55, 74-83).
EndedSessionsRefused ==
  \A r \in Requests : status[r] = "authorised" => ~late[r]

\* "rotates the session id on successful admin login to defeat session fixation"
\* (middleware.go:208-210): a row is never changed in place, so an id that was an
\* anonymous browser's, perhaps planted, never becomes an admin's.
RowsNeverElevated == [][\A s \in 1..drawn : rows'[s] \in {rows[s], NoRow}]_vars

\* "A late asset response must not replace the cookie rotated by admin login"
\* (middleware.go:72): a live admin's cookie gives way to another login, or to a
\* page that was asked for with another cookie, and to nothing else.
AdminCookieKept ==
  [][Alive(jar) /\ rows[jar].admin /\ jar' # jar /\ faults = 0 =>
       \E r \in Requests :
         /\ pc[r] = "done" /\ pc'[r] = "gone"
         /\ kind[r] = "login" \/ (sent[r] # jar /\ kind[r] \notin {"asset", "upload"})]_vars

\* "AdminLogin verifies an admin login attempt in fail-closed order" (auth.go:75):
\* who is an admin gave a right password in a request that did not begin under
\* a ban, whatever calls failed.
AdminsProvedThemselves ==
  \A s \in Sids :
    rows[s].admin /\ s # Earlier =>
      \E r \in Requests : setCookie[r] = s /\ kind[r] = "login" /\ right[r] /\ r \notin locked

\* An attempt is answered well before a ban of its time would end.
Prompt ==
  \A r \in Requests :
    pc[r] \in {"password", "record", "count", "ban"} => now + Window < at[r] + BanLength

\* "Five failures within one minute" ban (auth.go:156): an attempt sent when
\* Limit failures of the last minute have been answered is not told whether its
\* password is right.  Attempts already under way are another matter: nothing
\* makes them wait for each other.  And as a ban is reckoned from the start of
\* its attempt (auth.go:163), one that took hours would write a ban that has
\* ended over a fresh one: the property is about behaviours that are Prompt.
FailuresLockOut ==
  \A r \in Requests :
    faults = 0 /\ kind[r] = "login" /\ pc[r] = "done" /\ status[r] \in {"ok", "failed"} =>
      Cardinality({q \in failedAt[r] : at[q] >= at[r] - Window}) < Limit
=============================================================================
