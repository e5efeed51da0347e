--------------------------- MODULE UploadRequests ---------------------------
(***************************************************************************)
(* An upload from the form or the API client that asks for it to the row  *)
(* that is listed: the page, or a client that sends what it likes; the    *)
(* sessions its cookie and token are compared with; apiUploadPost and     *)
(* Uploader.Do; and the clock, which runs while the body arrives.         *)
(*                                                                        *)
(* One upload is under way at a time: what uploads do to each other, and  *)
(* how space is claimed, is Upload's business, and whether there is space *)
(* is left open here.  Access has the sessions in full.                   *)
(***************************************************************************)
EXTENDS UploadPage

CONSTANTS
  MaxUploads,  \* bound on the shares stored
  MaxNow,      \* bound on the clock
  Old          \* a share that is there from the start

VARIABLES
  source,   \* who uploads: "page" or "client"
  now,
  rows,     \* the shares table
  cookie,   \* the session id the browser holds
  live,     \* session rows that are there and have not expired
  up,       \* the upload under way
  asked     \* of the shares stored: whether an admin asked, and when

world == <<now, cookie, live>>
vars == <<page, source, world, rows, up, asked>>

\* Session ids: the browser's first, an admin's, and one it gets when its
\* session is gone.  A CSRF token is written as the id it was drawn with.
Guest == 1
Admin == 2
Later == 3
Sids  == {Guest, Admin, Later}

CurrentSession(c) ==
  [csrf |-> IF c \in live THEN c ELSE Null, admin |-> c \in live /\ c = Admin]

ProvedAdmin(r) == r.token = Admin /\ r.cookie = Admin /\ Admin \in live

NoUpload == [stage |-> "none"]
Stage(l) == up' = [up EXCEPT !.stage = l]

-----------------------------------------------------------------------------
(* Requests of API clients *)

Ordinary ==
  [secure |-> TRUE, cookie |-> Null, token |-> Null, multipart |-> TRUE, parts |-> "proper",
   title |-> 0, visibility |-> "", key |-> "", hours |-> 0, warning |-> "",
   message |-> NoMessage, encrypted |-> TRUE, cipher |-> TRUE, verifier |-> "valid",
   size |-> MinBlob, trailing |-> FALSE]

RequestValues ==
  [secure |-> {FALSE}, multipart |-> {FALSE}, parts |-> {"unexpected", "no blob"},
   title |-> {MaxTitle, MaxTitle + 1, FieldLimit}, key |-> DOMAIN KeyBytes,
   warning |-> {"0", "1", "odd"},
   message |-> {Message(1, 0, TRUE), Message(MaxMessage, 0, FALSE),
                Message(MaxMessage + 1, 0, FALSE)},
   encrypted |-> {FALSE}, cipher |-> {FALSE}, verifier |-> {"", "invalid", "long"},
   size |-> {MinBlob - 1, MaxUpload, MaxUpload + 1}, trailing |-> {TRUE}]

\* Any cookie, token, visibility, key and hours, and something else besides.
Requests ==
  UNION {Variants([Ordinary EXCEPT !.cookie = c, !.token = t, !.visibility = v,
                                   !.key = k, !.hours = h], RequestValues) :
           c \in {Null, Guest, Admin}, t \in {Null, Guest, Admin},
           v \in {"private", "odd"}, k \in {"", "key"}, h \in {0, 1, AdminHours + 1}}

-----------------------------------------------------------------------------
(* The server *)

\* http.Error, or the 201: it reaches the page that still waits for it.
Answer(a) ==
  /\ up' = NoUpload
  /\ IF up.posted /\ at = "waiting" THEN Answered(a) ELSE UNCHANGED page

\* The gates, the fields and the validation, which look at nothing but the
\* request, its session and, for the expiry, the clock.
Verdict(r) ==
  LET session == CurrentSession(r.cookie)
  IN  FirstOf(<<
        Refusal(Gate(r, session) # Passed, Gate(r, session)),
        Refusal(Parts(r) # Passed, Parts(r)),
        Refusal(Policy(r, IsAdmin(r, session)) # Passed, Policy(r, IsAdmin(r, session)))>>)

Accepted(r, posted) ==
  [stage |-> "accepted", posted |-> posted, size |-> r.size, trailing |-> r.trailing,
   share |-> ShareOf(r, IsAdmin(r, CurrentSession(r.cookie)), now),
   proved |-> ProvedAdmin(r), arrived |-> now]

MayStore == up = NoUpload /\ Len(asked) < MaxUploads

\* A request of a client that is refused leaves no trace.
ReceiveFromClient ==
  /\ source = "client" /\ MayStore
  /\ \E r \in Requests : Verdict(r) = Passed /\ up' = Accepted(r, FALSE)
  /\ UNCHANGED <<page, source, world, rows, asked>>

ReceiveFromPage ==
  /\ source = "page" /\ at = "sending" /\ MayStore
  /\ LET r == Outgoing(cookie) IN
     IF Verdict(r) = Passed
       THEN Posted /\ up' = Accepted(r, TRUE)
       ELSE /\ at' = "ready" /\ result' = Verdict(r)
            /\ UNCHANGED <<form, box, fd, blob, edits, token, notices, up>>
  /\ UNCHANGED <<source, world, rows, asked>>

\* The connection breaks before an answer: xhr.onerror.
LoseConnection ==
  /\ at \in {"sending", "waiting"} /\ Report("upload network error")
  /\ UNCHANGED <<form, box, fd, blob, edits, token, notices>>
  /\ UNCHANGED <<source, world, rows, up, asked>>

\* PurgeUnprotected and Purge at t, which may fail to remove a share.
Purge(rs) == {left \in SUBSET rs : \A r \in rs \ left : Purgeable(r, now)}

\* The first purge, reserveCapacity and the verifier: no space, or an error.
Claim ==
  /\ up.stage = "accepted"
  /\ rows' \in Purge(rows)
  /\ \/ Stage("claimed") /\ UNCHANGED page
     \/ \E a \in {"storage cap reached", "store failed"} : Answer(a)
  /\ UNCHANGED <<source, world, asked>>

\* uploadPart.Read: another part after the blob is noticed at the blob's end.
PartFollows == up.trailing /\ up.size <= MaxUpload

\* storage.Stage reads the body no further than the claim, which may be smaller
\* than MaxUpload; and the body may break off.
StageBody ==
  /\ up.stage = "claimed"
  /\ \/ \E a \in {"store failed", "storage cap reached"} : Answer(a)
     \/ up.size > MaxUpload /\ Answer("upload too large")
     \/ PartFollows /\ Answer("bad upload")
     \/ ~up.trailing /\ up.size < MinBlob /\ Answer("invalid encryption mode")
     \/ /\ ~up.trailing /\ up.size \in MinBlob..MaxUpload
        /\ Stage("staged") /\ UNCHANGED page
  /\ UNCHANGED <<source, world, rows, asked>>

\* The second purge, the check of the space, the rename and the row.
Publish ==
  /\ up.stage = "staged"
  /\ \E left \in Purge(rows) :
       \/ /\ rows' = left /\ UNCHANGED asked
          /\ \E a \in {"storage cap reached", "store failed"} : Answer(a)
       \/ /\ asked' = Append(asked, [proved |-> up.proved, arrived |-> up.arrived])
          /\ rows' = left \cup {RowOf([up.share EXCEPT !.id = Len(asked')], now)}
          /\ Answer("created")
  /\ UNCHANGED <<source, world>>

-----------------------------------------------------------------------------
(* The world around it *)

\* The clock of a page's upload stands still: the page looks at none.
Tick ==
  /\ source = "client" /\ now < MaxNow /\ now' = now + 1
  /\ UNCHANGED <<page, source, cookie, live, rows, up, asked>>

\* The daily cleanup and every listing's request remove what has expired.
PurgeExpired ==
  /\ rows' \in Purge(rows) \ {rows}
  /\ UNCHANGED <<page, source, world, up, asked>>

\* Twelve hours pass, or the visitor logs out elsewhere.
EndSession ==
  /\ \E s \in live \ {Later} : live' = live \ {s}
  /\ UNCHANGED <<page, source, now, cookie, rows, up, asked>>

\* Another tab asks for a page and gets a session in place of a dead one.
NewSession ==
  /\ cookie \notin live /\ cookie # Later
  /\ cookie' = Later /\ live' = live \cup {Later}
  /\ UNCHANGED <<page, source, now, rows, up, asked>>

\* Another tab logs in: the session is rotated.
Login ==
  /\ cookie = Guest /\ Guest \in live
  /\ cookie' = Admin /\ live' = (live \ {Guest}) \cup {Admin}
  /\ UNCHANGED <<page, source, now, rows, up, asked>>

-----------------------------------------------------------------------------

\* A share left by an earlier version or an earlier run of the server.
OldRows ==
  Variants([id |-> Old, visibility |-> "public", key |-> Null, verifier |-> "valid",
            encrypted |-> TRUE, notice |-> FALSE, exp |-> Null, created |-> 0, purged |-> FALSE],
           [visibility |-> {"private"}, verifier |-> {Null}, encrypted |-> {FALSE},
            exp |-> {Hour}, purged |-> {TRUE}])

OldTables == {{}} \cup {{IF r.visibility = "private" THEN [r EXCEPT !.key = "key"] ELSE r} :
                         r \in OldRows}

\* A page served to a guest or to an admin, and filled in.
PageInit ==
  /\ source = "page"
  /\ cookie \in {Guest, Admin} /\ live = {cookie}
  /\ token = cookie /\ notices = (cookie = Admin)
  /\ form \in Variants(Filled, FormValues)
  /\ at = "ready" /\ edits = 0
  /\ rows = {}

\* A client without a page; the sessions are those whose cookies it may have.
ClientInit ==
  /\ source = "client"
  /\ cookie = Guest /\ live \in SUBSET {Guest, Admin}
  /\ token = Null /\ notices = FALSE
  /\ form = Filled /\ at = "closed" /\ edits = MaxEdits
  /\ rows \in OldTables

Init ==
  /\ PageInit \/ ClientInit
  /\ now = 0 /\ up = NoUpload /\ asked = <<>>
  /\ clip = {} /\ previews = {} /\ since = {} /\ reads = 0
  /\ fd = form /\ blob = 0 /\ result = ""

Browse == PageStep /\ UNCHANGED <<source, world, rows, up, asked>>

Next ==
  \/ Browse \/ LoseConnection
  \/ ReceiveFromClient \/ ReceiveFromPage \/ Claim \/ StageBody \/ Publish
  \/ Tick \/ PurgeExpired \/ EndSession \/ NewSession \/ Login

Spec == Init /\ [][Next]_vars

-----------------------------------------------------------------------------
(* Properties *)

SameSecond(r, t) == r.exp # Null /\ Second(r.exp) = Second(t)

\* l is a listing at t that had rs to choose from.
Follows(l, rs, t) ==
  /\ \A r \in l : r \in rs /\ (IsActive(FromEnt(r), t) \/ SameSecond(r, t))
  /\ \A r \in rs \ l :
       ~Protected(r) \/ ~IsActive(FromEnt(r), t) \/ SameSecond(r, t) \/ Cardinality(l) = ListLimit

\* Listings show the shares the share page would serve at the same instant, of
\* their own kind or key only, and up to their limit - except that within the
\* very second of an expiry the text of the timestamps may say otherwise.  And
\* a key that was good enough to upload with is accepted to look up with.
ListingsFollowTheRule ==
  \A t \in 0..now :
    /\ \A l \in ListPublic(rows, t) : Follows(l, {r \in rows : r.visibility = "public"}, t)
    /\ \A k \in DOMAIN KeyBytes \ {""} : \A l \in ListByKey(rows, t, k) :
         Follows(l, {r \in rows : r.visibility = "private" /\ FromEnt(r).key = k}, t)
    /\ \A r \in rows : r.visibility = "private" => LookupAccepts(KeyBytes[FromEnt(r).key])

\* A notice, or a life beyond a guest's, is stored only for a request that came
\* with the cookie and the CSRF token of an admin's session that was alive; and
\* no upload lives for longer than the limit of who sent it, counted from the
\* request, however long its body took.
StoredAsAllowed ==
  \A r \in rows : r.id # Old =>
    LET a == asked[r.id] IN
    /\ r.notice => a.proved
    /\ r.exp # Null
    /\ r.exp <= a.arrived + Hour * (IF a.proved THEN AdminHours ELSE GuestHours)
    /\ Protected(r) /\ (r.visibility = "private" <=> r.key # Null)

\* The server refuses what its own page sends for no other reason than these:
\* the session of the page is gone or was replaced; a private share has no key;
\* a title or a key is too long, which the page does not check, or a message is
\* once its line breaks are sent; or the server is out of space or fails. Its
\* size in particular the page has checked: the server never refuses that.
OwnFormRefusals ==
  source = "page" /\ at = "ready" =>
    \/ result \in {"", "created", "storage cap reached", "store failed", "upload network error"}
    \/ result \in {"password required", "message too long", "no file", "error"}
    \/ result = "upload too large" /\ blob > MaxUpload
    \/ result = "csrf rejected" /\ (token \notin live \/ cookie # token)
    \/ result = "private key required" /\ fd.visibility = "private" /\ fd.key = ""
    \/ result = "metadata too large"
         /\ \/ fd.title > MaxTitle \/ FieldTooLarge(KeyBytes[fd.key])
            \/ fd.message.breaks > 0

\* The clipboard box shows what an upload would take with it, in both ways.
\* What it shows is sent, unless a read of the clipboard was begun since: that
\* empties the list at once and leaves the previews. And what is sent was
\* shown, unless a read is pending, which puts its files beside whatever was
\* pasted meanwhile; or one has failed since, which leaves the files it had
\* got in the list unshown; or the visitor has erased a preview since, which
\* keeps its file (clip.onclick and the paste handler of upload.js).
PreviewsUploaded ==
  /\ "emptied" \in since \/ previews \subseteq clip
  /\ reads > 0 \/ since \cap {"failed", "erased"} # {} \/ clip \subseteq previews
=============================================================================
