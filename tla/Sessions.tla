------------------------------ MODULE Sessions ------------------------------
(***************************************************************************)
(* internal/http/sessions.go and the middleware around it: session rows,  *)
(* the cookie that names them, CSRF tokens, and the routing of a request  *)
(* to what its session allows.  Every database call of a request is a     *)
(* step of its own; nothing here holds a lock.                            *)
(*                                                                        *)
(* A session id and its CSRF token are drawn together and never repeat,   *)
(* so a token is written as the id it was drawn with.                     *)
(***************************************************************************)
EXTENDS Integers, FiniteSets

CONSTANTS
  Requests,      \* requests the browser may send
  MaxSids,       \* bound on the session ids drawn
  SessionLife,   \* sessionDuration, in units of time
  DBFaults,      \* database calls that may fail: "get" "insert" "delete" "query"
  MaxFaults      \* bound on the calls that fail in a behaviour

ASSUME SessionAssumption == MaxSids \in Nat /\ SessionLife \in Nat /\ MaxFaults \in Nat

NoSid == 0
Sids  == 1..MaxSids
NoRow == [admin |-> FALSE, exp |-> 0]   \* no row has expired at the epoch

VARIABLES
  now,
  rows,      \* the sessions table
  drawn,     \* how many session ids have been drawn
  faults,
  pc,        \* where a request is
  kind,      \* what it asks for
  sent,      \* the cookie it carries
  token,     \* the CSRF token it carries
  sess,      \* CurrentSession: a copy of the row, made once
  setCookie, \* the Set-Cookie of its response
  status     \* how it was answered

database == <<rows, drawn>>
requests == <<pc, kind, sent, token, sess, setCookie, status>>
request  == <<kind, sent, token>>

NoSession == [sid |-> NoSid, admin |-> FALSE]
Copy(s)   == [sid |-> s, admin |-> rows[s].admin]

\* Mutated form of Sessionless: static files are served like pages.
UploadsOnly(k) == k = "upload"

\* static files, the download worker, robots.txt and the API carry no session
\* of their own; an upload may present one.
Sessionless(k) == k \in {"asset", "upload"}

Unsafe(k) == k \in {"delete", "login", "logout"}
Kinds == {"asset", "upload", "page", "admin", "delete", "login", "logout"}

Fails(call) == call \in DBFaults /\ faults < MaxFaults /\ faults' = faults + 1
Succeeds == UNCHANGED faults
Goto(r, l) == pc' = [pc EXCEPT ![r] = l]
Answer(r, s) == Goto(r, "done") /\ status' = [status EXCEPT ![r] = s]

\* Mutated form of Alive: only the daily cleanup ends a session.
InTable(s) == s # NoSid /\ rows[s] # NoRow

\* Get: the row is there and not expired.
Alive(s) == s # NoSid /\ rows[s] # NoRow /\ rows[s].exp > now

Insert(s, admin) ==
  rows' = [rows EXCEPT ![s] = [admin |-> admin, exp |-> now + SessionLife]]

-----------------------------------------------------------------------------

\* withSession, for paths without a session: look, create nothing, set nothing.
PeekSession(r) ==
  /\ pc[r] = "session" /\ Sessionless(kind[r])
  /\ \/ sess' = [sess EXCEPT ![r] = IF Alive(sent[r]) THEN Copy(sent[r]) ELSE NoSession]
        /\ Succeeds
     \/ sent[r] # NoSid /\ Fails("get") /\ sess' = [sess EXCEPT ![r] = NoSession]
  /\ Goto(r, "route")
  /\ UNCHANGED <<now, database, request, setCookie, status>>

\* GetOrCreate: the session the cookie names, if it is alive.  An error of the
\* database looks like a dead session.
FindSession(r) ==
  /\ pc[r] = "session" /\ ~Sessionless(kind[r])
  /\ \/ /\ Alive(sent[r])
        /\ sess' = [sess EXCEPT ![r] = Copy(sent[r])]
        /\ Goto(r, "route") /\ Succeeds
     \/ /\ sent[r] = NoSid
        /\ Goto(r, "create") /\ Succeeds /\ UNCHANGED sess
     \/ /\ sent[r] # NoSid
        /\ (~Alive(sent[r]) /\ Succeeds) \/ Fails("get")
        /\ Goto(r, "drop") /\ UNCHANGED sess
  /\ UNCHANGED <<now, database, request, setCookie, status>>

\* GetOrCreate: whatever row the id still has is deleted, errors ignored.
DropSession(r) ==
  /\ pc[r] = "drop"
  /\ \/ rows' = [rows EXCEPT ![sent[r]] = NoRow] /\ Succeeds
     \/ rows[sent[r]] # NoRow /\ (Fails("get") \/ Fails("delete")) /\ UNCHANGED rows
  /\ Goto(r, "create")
  /\ UNCHANGED <<now, drawn, request, sess, setCookie, status>>

\* Mutated form of CreateSession: the browser keeps the id it came with.
CreateUnderOldId(r) ==
  LET s == IF sent[r] = NoSid THEN drawn + 1 ELSE sent[r] IN
  /\ pc[r] = "create" /\ s \in Sids
  /\ drawn' = IF sent[r] = NoSid THEN s ELSE drawn
  /\ Insert(s, FALSE) /\ Succeeds
  /\ sess' = [sess EXCEPT ![r] = [sid |-> s, admin |-> FALSE]]
  /\ setCookie' = [setCookie EXCEPT ![r] = s]
  /\ Goto(r, "route")
  /\ UNCHANGED <<now, request, status>>

\* create: a fresh id for an anonymous browser; the cookie is set whether or
\* not the row could be saved.
CreateSession(r) ==
  LET s == drawn + 1 IN
  /\ pc[r] = "create" /\ s \in Sids
  /\ drawn' = s
  /\ (Insert(s, FALSE) /\ Succeeds) \/ (Fails("insert") /\ UNCHANGED rows)
  /\ sess' = [sess EXCEPT ![r] = [sid |-> s, admin |-> FALSE]]
  /\ setCookie' = [setCookie EXCEPT ![r] = s]
  /\ Goto(r, "route")
  /\ UNCHANGED <<now, request, status>>

\* csrf: an unsafe request must carry the token of its own session; an upload
\* must if it carries one at all.
TokenAccepted(r) ==
  \/ ~Unsafe(kind[r]) /\ kind[r] # "upload"
  \/ kind[r] = "upload" /\ token[r] = NoSid
  \/ sess[r].sid # NoSid /\ token[r] = sess[r].sid

\* The handler by kind: requireAdmin for the admin's pages and deletions, the
\* longer expiry and the notices of an upload that presented a token.
Route(r) ==
  /\ pc[r] = "route"
  /\ \/ ~TokenAccepted(r) /\ Answer(r, "forbidden")
     \/ TokenAccepted(r) /\ kind[r] \in {"asset", "page"} /\ Answer(r, "ok")
     \/ /\ TokenAccepted(r) /\ kind[r] = "upload"
        /\ Answer(r, IF token[r] # NoSid /\ sess[r].admin THEN "authorised" ELSE "ok")
     \/ /\ TokenAccepted(r) /\ kind[r] \in {"admin", "delete"}
        /\ Answer(r, IF sess[r].admin THEN "authorised" ELSE "redirected")
     \/ /\ TokenAccepted(r) /\ kind[r] \in {"login", "logout"}
        /\ Goto(r, kind[r]) /\ UNCHANGED status
  /\ UNCHANGED <<now, database, faults, request, sess, setCookie>>

\* Mutated form of DeleteSession: logging out only redirects.
KeepSession(r) ==
  /\ pc[r] = "logout"
  /\ Answer(r, "ok")
  /\ UNCHANGED <<now, database, faults, request, sess, setCookie>>

\* adminLogout: the row goes, if the database lets it; the cookie stays.
DeleteSession(r) ==
  /\ pc[r] = "logout"
  /\ \/ rows' = [rows EXCEPT ![sess[r].sid] = NoRow] /\ Succeeds
     \/ Fails("delete") /\ UNCHANGED rows
  /\ Answer(r, "ok")
  /\ UNCHANGED <<now, drawn, request, sess, setCookie>>

\* Rotate, first half: the session the browser came with is deleted.
RetireSession(r) ==
  /\ pc[r] = "rotate"
  /\ \/ rows' = [rows EXCEPT ![sess[r].sid] = NoRow] /\ Succeeds
     \/ Fails("delete") /\ UNCHANGED rows
  /\ Goto(r, "createAdmin")
  /\ UNCHANGED <<now, drawn, request, sess, setCookie, status>>

\* Mutated form of CreateAdminSession: the session that logs in is elevated.
ElevateSession(r) ==
  /\ pc[r] = "createAdmin"
  /\ Insert(sess[r].sid, TRUE) /\ Succeeds
  /\ Answer(r, "ok")
  /\ UNCHANGED <<now, drawn, request, sess, setCookie>>

\* Rotate, second half: a fresh id for the admin, and the answer that sets it.
CreateAdminSession(r) ==
  LET s == drawn + 1 IN
  /\ pc[r] = "createAdmin" /\ s \in Sids
  /\ drawn' = s
  /\ (Insert(s, TRUE) /\ Succeeds) \/ (Fails("insert") /\ UNCHANGED rows)
  /\ setCookie' = [setCookie EXCEPT ![r] = s]
  /\ Answer(r, "ok")
  /\ UNCHANGED <<now, request, sess>>

\* CleanExpiredSessions, once a day.
CleanExpiredSessions ==
  /\ \E s \in Sids : InTable(s) /\ ~Alive(s)
  /\ rows' = [s \in Sids |-> IF Alive(s) THEN rows[s] ELSE NoRow]
  /\ UNCHANGED <<now, drawn, faults, requests>>

SessionStep(r) ==
  \/ PeekSession(r) \/ FindSession(r) \/ DropSession(r) \/ CreateSession(r) \/ Route(r)
  \/ DeleteSession(r) \/ RetireSession(r) \/ CreateAdminSession(r)
=============================================================================
