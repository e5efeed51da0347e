------------------------- MODULE UploadRequestsProofs -------------------------
(***************************************************************************)
(* From the form to the listing, for any limits, files, keys, acts of the *)
(* visitor, requests, instants and number of shares.                      *)
(*                                                                        *)
(* The first part is about the operators: which timestamps are in order   *)
(* as text, and which refusal is the answer.  The second is an invariant  *)
(* in three parts: the page reads a form that keeps its rules (PageInv);  *)
(* its session only moves on (SessionInv); and an upload under way, like  *)
(* every row, is what its request was allowed (StoreInv).                 *)
(***************************************************************************)
EXTENDS UploadRequests, TLAPS

-----------------------------------------------------------------------------
(* Timestamps as text *)

\* A sequence keeps its head when another is appended.
LEMMA HeadStays ==
  ASSUME NEW x \in Seq(Int), NEW y \in Seq(Int), Len(x) > 0
  PROVE  x \o y \in Seq(Int) /\ Len(x \o y) > 0 /\ (x \o y)[1] = x[1]
OBVIOUS

\* A timestamp's text starts with its second.
LEMMA EncodedStart ==
  ASSUME NEW t \in Int
  PROVE  /\ Second(t) \in Int
         /\ 1 \in DOMAIN Encoded(t) /\ Encoded(t)[1] = Second(t)
         /\ DOMAIN Encoded(t) \subseteq Nat \ {0}
<1> DEFINE f == Fractions[(t % TicksPerSecond) + 1]
<1>1. Second(t) \in Int
  BY DEF Second, TicksPerSecond
<1>2. f \in Seq(Int)
  <2>1. t % 4 \in 0..3
    OBVIOUS
  <2>2. /\ <<>> \in Seq(Int) /\ <<1>> \in Seq(Int) /\ <<1, 1>> \in Seq(Int) /\ <<2>> \in Seq(Int)
    OBVIOUS
  <2>3. Fractions[1] = <<>> /\ Fractions[2] = <<1>> /\ Fractions[3] = <<1, 1>> /\ Fractions[4] = <<2>>
    BY DEF Fractions
  <2>4. (t % 4) + 1 \in {1, 2, 3, 4}
    BY <2>1
  <2>5. f \in {Fractions[1], Fractions[2], Fractions[3], Fractions[4]}
    BY <2>4 DEF TicksPerSecond
  <2> QED
    BY <2>2, <2>3, <2>5
<1> DEFINE i == IF f = <<>> THEN <<>> ELSE <<Dot>>
<1>3. /\ <<Second(t)>> \in Seq(Int) /\ Len(<<Second(t)>>) > 0 /\ <<Second(t)>>[1] = Second(t)
      /\ i \in Seq(Int) /\ <<Zulu>> \in Seq(Int)
  BY <1>1 DEF Dot, Zulu
<1>4. Encoded(t) = <<Second(t)>> \o i \o f \o <<Zulu>>
  BY DEF Encoded
<1> HIDE DEF f, i
<1>5. /\ <<Second(t)>> \o i \in Seq(Int) /\ Len(<<Second(t)>> \o i) > 0
      /\ (<<Second(t)>> \o i)[1] = Second(t)
  BY <1>3, HeadStays
<1>6. /\ <<Second(t)>> \o i \o f \in Seq(Int) /\ Len(<<Second(t)>> \o i \o f) > 0
      /\ (<<Second(t)>> \o i \o f)[1] = Second(t)
  BY <1>2, <1>5, HeadStays
<1>7. /\ Encoded(t) \in Seq(Int) /\ Len(Encoded(t)) > 0 /\ Encoded(t)[1] = Second(t)
  BY <1>3, <1>4, <1>6, HeadStays
<1> QED
  BY <1>1, <1>7

\* Instants in order are in seconds in order.
LEMMA SecondsAreOrdered ==
  ASSUME NEW s \in Int, NEW t \in Int
  PROVE  s <= t => Second(s) <= Second(t)
BY DEF Second, TicksPerSecond

\* Instants of different seconds are in order as text, and in no other.
LEMMA TextOrdersSeconds ==
  ASSUME NEW s \in Int, NEW t \in Int, Second(s) < Second(t)
  PROVE  TextBefore(s, t) /\ ~TextBefore(t, s)
<1>1. TextBefore(s, t)
  BY EncodedStart DEF TextBefore
<1>2. ASSUME TextBefore(t, s) PROVE FALSE
  <2>1. PICK n \in DOMAIN Encoded(t) \cap DOMAIN Encoded(s) :
          Encoded(t)[n] < Encoded(s)[n] /\ \A m \in 1..(n - 1) : Encoded(t)[m] = Encoded(s)[m]
    BY <1>2 DEF TextBefore
  <2>2. n = 1 \/ 1 \in 1..(n - 1)
    BY EncodedStart
  <2>3. Second(t) < Second(s) \/ Second(t) = Second(s)
    BY <2>1, <2>2, EncodedStart
  <2> QED
    BY <2>3, EncodedStart
<1> QED
  BY <1>1, <1>2

\* FirstOf gives the answer of the first refusal that applies (Do has seven).
LEMMA FirstOfDecides ==
  ASSUME NEW refusals, NEW k \in Nat, k <= 7, DOMAIN refusals = 1..k
  PROVE  \/ /\ FirstOf(refusals) = Passed
            /\ \A n \in 1..k : ~refusals[n].applies
         \/ \E n \in 1..k :
              /\ refusals[n].applies
              /\ FirstOf(refusals) = refusals[n].answer
              /\ \A m \in 1..(n - 1) : ~refusals[m].applies
<1> DEFINE hits == {n \in DOMAIN refusals : refusals[n].applies}
           first(n) == n \in hits /\ \A m \in hits : n <= m
<1>1. CASE hits = {}
  BY <1>1 DEF FirstOf
<1>2. CASE hits # {}
  <2>1. \E n \in hits : \A m \in hits : n <= m
    <3>1. hits \subseteq 1..7 /\ hits # {}
      BY <1>2
    <3> HIDE DEF hits
    <3>2. CASE 1 \in hits
      BY <3>1, <3>2
    <3>3. CASE 1 \notin hits /\ 2 \in hits
      BY <3>1, <3>3
    <3>4. CASE 1 \notin hits /\ 2 \notin hits /\ 3 \in hits
      BY <3>1, <3>4
    <3>5. CASE hits \subseteq 4..7 /\ 4 \in hits
      BY <3>5
    <3>6. CASE hits \subseteq 5..7 /\ 5 \in hits
      BY <3>6
    <3>7. CASE hits \subseteq 6..7
      <4> PICK n \in hits : TRUE
        BY <3>1
      <4>1. n = 6 \/ n = 7
        BY <3>7
      <4>2. CASE 6 \in hits
        BY <3>7, <4>2
      <4>3. CASE 6 \notin hits
        <5>1. 7 \in hits /\ \A m \in hits : m = 7
          BY <3>7, <4>1, <4>3
        <5> QED
          BY <5>1
      <4> QED
        BY <4>2, <4>3
    <3> QED
      BY <3>1, <3>2, <3>3, <3>4, <3>5, <3>6, <3>7
  <2> DEFINE n == CHOOSE n \in hits : \A m \in hits : n <= m
  <2>2. n \in hits /\ \A m \in hits : n <= m
    BY <2>1
  <2>3. FirstOf(refusals) = refusals[n].answer
    BY <1>2 DEF FirstOf
  <2>4. n \in 1..k /\ refusals[n].applies
    BY <2>2
  <2>5. \A m \in 1..(n - 1) : ~refusals[m].applies
    BY <2>2, <2>4
  <2> QED
    BY <2>3, <2>4, <2>5
<1> QED
  BY <1>1, <1>2

-----------------------------------------------------------------------------
(* The answers of the checks *)

\* A session's token opens nothing but that session.
LEMMA SessionOf ==
  ASSUME NEW c
  PROVE  /\ CurrentSession(c).csrf = IF c \in live THEN c ELSE Null
         /\ CurrentSession(c).admin <=> c \in live /\ c = Admin
<1>1. CurrentSession(c).csrf = IF c \in live THEN c ELSE Null
  BY DEF CurrentSession
<1>2. CurrentSession(c).admin <=> c \in live /\ c = Admin
  BY DEF CurrentSession
<1> QED
  BY <1>1, <1>2

\* What the gates' answer says of a request and its session.
LEMMA GateSays ==
  ASSUME NEW r, NEW session
  PROVE  \/ /\ Gate(r, session) = Passed
            /\ r.secure /\ r.multipart
            /\ r.token # Null => session.csrf # Null /\ r.token = session.csrf
         \/ /\ Gate(r, session) = "csrf rejected"
            /\ r.token # Null /\ (session.csrf = Null \/ r.token # session.csrf)
         \/ Gate(r, session) # Passed /\ ~(r.secure /\ r.multipart)
<1> DEFINE s == <<
  Refusal(~r.secure, "HTTPS required"),
  Refusal(r.token # Null /\ (session.csrf = Null \/ r.token # session.csrf), "csrf rejected"),
  Refusal(~r.multipart, "multipart upload required")>>
<1>1. DOMAIN s = 1..3 /\ 1..3 = {1, 2, 3} /\ 3 \in Nat /\ 3 <= 7
  OBVIOUS
<1>2. s[1].applies <=> ~r.secure
  BY DEF Refusal
<1>3. s[2].applies <=> r.token # Null /\ (session.csrf = Null \/ r.token # session.csrf)
  BY DEF Refusal
<1>4. s[3].applies <=> ~r.multipart
  BY DEF Refusal
<1>5. /\ s[1].answer = "HTTPS required" /\ s[2].answer = "csrf rejected"
      /\ s[3].answer = "multipart upload required"
  BY DEF Refusal
<1>6. Gate(r, session) = FirstOf(s)
  BY DEF Gate
<1> HIDE DEF s
<1>7. \/ FirstOf(s) = Passed /\ \A n \in 1..3 : ~s[n].applies
      \/ \E n \in 1..3 : s[n].applies /\ FirstOf(s) = s[n].answer
  BY <1>1, FirstOfDecides
<1> QED
  BY <1>1, <1>2, <1>3, <1>4, <1>5, <1>6, <1>7 DEF Passed

\* What the answer of uploadParts says of the fields.
LEMMA PartsSay ==
  ASSUME NEW r
  PROVE  \/ /\ Parts(r) = Passed
            /\ ~FieldTooLarge(r.title) /\ ~FieldTooLarge(KeyBytes[r.key])
            /\ ~FieldTooLarge(r.message.bytes)
         \/ /\ Parts(r) = "metadata too large"
            /\ \/ FieldTooLarge(r.title) \/ FieldTooLarge(KeyBytes[r.key])
               \/ FieldTooLarge(r.message.bytes)
         \/ Parts(r) # Passed /\ r.parts \in {"unexpected", "no blob"}
<1> DEFINE large == \E n \in {r.title, KeyBytes[r.key], r.message.bytes} : FieldTooLarge(n)
           s == <<Refusal(r.parts = "unexpected", "bad upload"),
                  Refusal(large, "metadata too large"),
                  Refusal(r.parts = "no blob", "missing blob")>>
<1>1. DOMAIN s = 1..3 /\ 1..3 = {1, 2, 3} /\ 3 \in Nat /\ 3 <= 7
  OBVIOUS
<1>2. Parts(r) = FirstOf(s)
  BY DEF Parts
<1>3. large <=> \/ FieldTooLarge(r.title) \/ FieldTooLarge(KeyBytes[r.key])
                \/ FieldTooLarge(r.message.bytes)
  OBVIOUS
<1> HIDE DEF large
<1>4. s[1].applies <=> r.parts = "unexpected"
  BY DEF Refusal
<1>5. s[2].applies <=> large
  BY DEF Refusal
<1>6. s[3].applies <=> r.parts = "no blob"
  BY DEF Refusal
<1>7. /\ s[1].answer = "bad upload" /\ s[2].answer = "metadata too large"
      /\ s[3].answer = "missing blob"
  BY DEF Refusal
<1> HIDE DEF s
<1>8. \/ FirstOf(s) = Passed /\ \A n \in 1..3 : ~s[n].applies
      \/ \E n \in 1..3 : s[n].applies /\ FirstOf(s) = s[n].answer
  BY <1>1, FirstOfDecides
<1> QED
  BY <1>1, <1>2, <1>3, <1>4, <1>5, <1>6, <1>7, <1>8 DEF Passed

\* What the answer of Do's validation says of the request.
LEMMA PolicySays ==
  ASSUME NEW r, NEW admin \in BOOLEAN
  PROVE  \/ /\ Policy(r, admin) = Passed
            /\ r.warning \in {"", "0", "1"} /\ (HasNotice(r) => admin)
            /\ r.encrypted /\ r.cipher /\ r.verifier \notin {"", "invalid", "long"}
            /\ r.visibility = "private" => r.key # ""
         \/ /\ Policy(r, admin) = "metadata too large"
            /\ r.title > MaxTitle \/ r.message.bytes > MaxMessage \/ r.verifier = "long"
         \/ /\ Policy(r, admin) # Passed
            /\ \/ r.warning \notin {"", "0", "1"} \/ (~admin /\ HasNotice(r))
               \/ ~r.encrypted \/ ~r.cipher \/ r.verifier \in {"", "invalid"}
         \/ /\ Policy(r, admin) = "private key required"
            /\ r.visibility = "private" /\ r.key = ""
<1> DEFINE large == r.title > MaxTitle \/ r.message.bytes > MaxMessage \/ r.verifier = "long"
           s == <<Refusal(large, "metadata too large"),
                  Refusal(r.warning \notin {"", "0", "1"}, "bad upload"),
                  Refusal(~admin /\ HasNotice(r), "admin required"),
                  Refusal(~r.encrypted \/ ~r.cipher, "invalid encryption mode"),
                  Refusal(r.verifier = "", "download password hash required"),
                  Refusal(r.verifier = "invalid", "invalid password hash"),
                  Refusal(r.visibility = "private" /\ r.key = "", "private key required")>>
<1>1. DOMAIN s = 1..7 /\ 1..7 = {1, 2, 3, 4, 5, 6, 7} /\ 7 \in Nat /\ 7 <= 7
  OBVIOUS
<1>2. Policy(r, admin) = FirstOf(s)
  BY DEF Policy
<1>3. large <=> r.title > MaxTitle \/ r.message.bytes > MaxMessage \/ r.verifier = "long"
  OBVIOUS
<1> HIDE DEF large
<1>4. (s[1].applies <=> large) /\ s[1].answer = "metadata too large"
  BY DEF Refusal
<1>5. (s[2].applies <=> r.warning \notin {"", "0", "1"}) /\ s[2].answer = "bad upload"
  BY DEF Refusal
<1>6. (s[3].applies <=> ~admin /\ HasNotice(r)) /\ s[3].answer = "admin required"
  BY DEF Refusal
<1>7. (s[4].applies <=> ~r.encrypted \/ ~r.cipher) /\ s[4].answer = "invalid encryption mode"
  BY DEF Refusal
<1>8. (s[5].applies <=> r.verifier = "") /\ s[5].answer = "download password hash required"
  BY DEF Refusal
<1>9. (s[6].applies <=> r.verifier = "invalid") /\ s[6].answer = "invalid password hash"
  BY DEF Refusal
<1>10. (s[7].applies <=> r.visibility = "private" /\ r.key = "") /\ s[7].answer = "private key required"
  BY DEF Refusal
<1> HIDE DEF s
<1>11. \/ FirstOf(s) = Passed /\ \A n \in 1..7 : ~s[n].applies
       \/ \E n \in 1..7 : s[n].applies /\ FirstOf(s) = s[n].answer
  BY <1>1, FirstOfDecides
<1>12. CASE FirstOf(s) = Passed /\ \A n \in 1..7 : ~s[n].applies
  BY <1>1, <1>2, <1>3, <1>4, <1>5, <1>6, <1>7, <1>8, <1>9, <1>10, <1>12
<1>13. CASE s[1].applies /\ FirstOf(s) = s[1].answer
  BY <1>2, <1>3, <1>4, <1>13
<1>14. ASSUME NEW n \in {2, 3, 4, 5, 6}, s[n].applies, FirstOf(s) = s[n].answer
       PROVE  /\ Policy(r, admin) # Passed
              /\ \/ r.warning \notin {"", "0", "1"} \/ (~admin /\ HasNotice(r))
                 \/ ~r.encrypted \/ ~r.cipher \/ r.verifier \in {"", "invalid"}
  <2>1. FirstOf(s) # Passed
    BY <1>5, <1>6, <1>7, <1>8, <1>9, <1>14 DEF Passed
  <2> QED
    BY <2>1, <1>2, <1>5, <1>6, <1>7, <1>8, <1>9, <1>14
<1>15. CASE s[7].applies /\ FirstOf(s) = s[7].answer
  BY <1>2, <1>10, <1>15
<1>16. \/ FirstOf(s) = Passed /\ \A n \in 1..7 : ~s[n].applies
       \/ \E n \in {1, 2, 3, 4, 5, 6, 7} : s[n].applies /\ FirstOf(s) = s[n].answer
  BY <1>1, <1>11
<1> QED
  BY <1>12, <1>13, <1>14, <1>15, <1>16

\* A request is refused by the gate, by the parts, or by the policy; and who is
\* taken for an admin past the gate is one.
LEMMA VerdictSays ==
  ASSUME NEW r, Null \notin live
  PROVE  LET session == CurrentSession(r.cookie)
             admin   == IsAdmin(r, session)
         IN  \/ /\ Verdict(r) = Passed /\ Gate(r, session) = Passed
                /\ Parts(r) = Passed /\ Policy(r, admin) = Passed
             \/ Verdict(r) = Gate(r, session) /\ Gate(r, session) # Passed
             \/ /\ Gate(r, session) = Passed
                /\ Verdict(r) = Parts(r) /\ Parts(r) # Passed
             \/ /\ Gate(r, session) = Passed
                /\ Verdict(r) = Policy(r, admin) /\ Policy(r, admin) # Passed
<1> DEFINE session == CurrentSession(r.cookie)
           admin   == IsAdmin(r, session)
           s == <<Refusal(Gate(r, session) # Passed, Gate(r, session)),
                  Refusal(Parts(r) # Passed, Parts(r)),
                  Refusal(Policy(r, admin) # Passed, Policy(r, admin))>>
<1>1. DOMAIN s = 1..3 /\ 1..3 = {1, 2, 3} /\ 3 \in Nat /\ 3 <= 7
  OBVIOUS
<1>2. Verdict(r) = FirstOf(s)
  BY DEF Verdict
<1>3. (s[1].applies <=> Gate(r, session) # Passed) /\ s[1].answer = Gate(r, session)
  BY DEF Refusal
<1>4. (s[2].applies <=> Parts(r) # Passed) /\ s[2].answer = Parts(r)
  BY DEF Refusal
<1>5. (s[3].applies <=> Policy(r, admin) # Passed) /\ s[3].answer = Policy(r, admin)
  BY DEF Refusal
<1> HIDE DEF s, session, admin
<1>6. \/ FirstOf(s) = Passed /\ \A n \in 1..3 : ~s[n].applies
      \/ \E n \in 1..3 : /\ s[n].applies /\ FirstOf(s) = s[n].answer
                         /\ \A m \in 1..(n - 1) : ~s[m].applies
  BY <1>1, FirstOfDecides
<1>7. ~s[1].applies \/ FirstOf(s) = s[1].answer
  <2>1. ASSUME NEW n \in {2, 3} PROVE 1 \in 1..(n - 1)
    OBVIOUS
  <2> QED
    BY <1>1, <1>6, <2>1
<1>8. \/ FirstOf(s) = Passed /\ \A n \in 1..3 : ~s[n].applies
      \/ s[1].applies /\ FirstOf(s) = s[1].answer
      \/ ~s[1].applies /\ s[2].applies /\ FirstOf(s) = s[2].answer
      \/ ~s[1].applies /\ s[3].applies /\ FirstOf(s) = s[3].answer
  BY <1>1, <1>6, <1>7
<1>9. \/ /\ Verdict(r) = Passed /\ Gate(r, session) = Passed
         /\ Parts(r) = Passed /\ Policy(r, admin) = Passed
      \/ Verdict(r) = Gate(r, session) /\ Gate(r, session) # Passed
      \/ Gate(r, session) = Passed /\ Verdict(r) = Parts(r) /\ Parts(r) # Passed
      \/ Gate(r, session) = Passed /\ Verdict(r) = Policy(r, admin) /\ Policy(r, admin) # Passed
  BY <1>1, <1>2, <1>3, <1>4, <1>5, <1>8
<1> QED
  BY <1>9 DEF session, admin

\* Past the gate, only the cookie and the token of a live admin's session make
\* an admin.
LEMMA AdminsAreProved ==
  ASSUME NEW r, Null \notin live, Gate(r, CurrentSession(r.cookie)) = Passed
  PROVE  /\ IsAdmin(r, CurrentSession(r.cookie)) => ProvedAdmin(r)
         /\ (ProvedAdmin(r) /\ Admin # Null) => IsAdmin(r, CurrentSession(r.cookie))
<1> DEFINE session == CurrentSession(r.cookie)
<1>1. r.token # Null => r.token = session.csrf
  <2>1. Gate(r, session) = Passed
    OBVIOUS
  <2> HIDE DEF session
  <2> QED
    BY <2>1, GateSays DEF Passed
<1> QED
  BY <1>1, SessionOf DEF IsAdmin, ProvedAdmin

-----------------------------------------------------------------------------
(* The invariant *)

Messages == [bytes : Nat, breaks : Nat, blank : BOOLEAN]

Forms ==
  [title : Nat, visibility : {"public", "private"}, key : DOMAIN KeyBytes, hours : Nat,
   warning : BOOLEAN, message : Messages, password : BOOLEAN, picked : SUBSET Files,
   text : BOOLEAN]

\* Only a page rendered for an admin has the fields of a notice.
FormRule(f) ==
  /\ f \in Forms
  /\ ~notices => ~f.warning /\ f.message = NoMessage

\* The handler has read a form that keeps the rules, with a message that was
\* not too long, and reports once.
PageInv ==
  /\ notices \in BOOLEAN /\ clip \in SUBSET Files
  /\ FormRule(form) /\ FormRule(fd)
  /\ at \in {"ready", "settling", "packing", "sending", "waiting", "closed"}
  /\ at # "ready" => result = ""
  /\ at \in {"packing", "sending", "waiting"} => fd.message.bytes <= MaxMessage
  /\ at = "sending" => blob \in MinBlob..MaxUpload

\* The cookie moves on and never back: a page whose session was replaced does
\* not meet it again.
SessionInv ==
  /\ live \in SUBSET Sids /\ cookie \in Sids
  /\ source = "page" =>
       /\ token \in {Guest, Admin} /\ (notices <=> token = Admin)
       /\ token = Admin => cookie # Guest

\* What a share may be, given who asked for it and when.
Allowed(s, proved, arrived) ==
  /\ s.notice => proved
  /\ s.exp \in Nat
  /\ s.exp <= arrived + Hour * (IF proved THEN AdminHours ELSE GuestHours)

Drafts ==
  [id : {Null}, visibility : {"public", "private"}, key : DOMAIN KeyBytes,
   verifier : {"valid"}, encrypted : {TRUE}, notice : BOOLEAN, exp : Nat, created : Nat,
   purged : {FALSE}]

Accepteds ==
  [stage : {"accepted", "claimed", "staged"}, posted : BOOLEAN, size : Int,
   trailing : BOOLEAN, share : Drafts, proved : BOOLEAN, arrived : Nat]

Underway ==
  up # NoUpload =>
    /\ up \in Accepteds
    /\ Allowed(up.share, up.proved, up.arrived)
    /\ up.share.visibility = "private" <=> up.share.key # ""
    /\ KeyBytes[up.share.key] <= MaxKey
    /\ source = "page" => up.size \in MinBlob..MaxUpload /\ ~up.trailing

Rows ==
  [id : {Old} \cup Nat, visibility : {"public", "private"},
   key : {Null} \cup (DOMAIN KeyBytes \ {""}), verifier : {Null, "valid"},
   encrypted : BOOLEAN, notice : BOOLEAN, exp : {Null} \cup Nat, created : Nat,
   purged : BOOLEAN]

\* A row as an upload left it, or as it was at the start.
RowRule(r, answered) ==
  /\ r \in Rows
  /\ r.visibility = "private" => r.key # Null /\ KeyBytes[r.key] <= MaxKey
  /\ r.id # Old =>
       /\ r.id \in DOMAIN answered
       /\ Allowed(r, answered[r.id].proved, answered[r.id].arrived)
       /\ Protected(r) /\ (r.visibility = "private" <=> r.key # Null)

StoreInv ==
  /\ now \in Nat
  /\ asked \in Seq([proved : BOOLEAN, arrived : Nat])
  /\ Underway
  /\ \A r \in rows : RowRule(r, asked)

RequestsInv == PageInv /\ SessionInv /\ StoreInv /\ OwnFormRefusals

-----------------------------------------------------------------------------
(* The page *)

\* The limits are numbers.
LEMMA Limits ==
  /\ MaxTitle \in Nat /\ MaxMessage \in Nat /\ FieldLimit \in Nat
  /\ Hour \in Nat /\ DefaultHours \in Nat /\ GuestHours \in Nat /\ AdminHours \in Nat
  /\ MinBlob \in Nat /\ MaxUpload \in Nat /\ MinBlob <= MaxUpload
<1>1. {FieldLimit, MaxTitle, MaxMessage} \subseteq Nat
  BY PolicyAssumption
<1>2. {DefaultHours, GuestHours, AdminHours} \subseteq Nat
  BY PolicyAssumption
<1>3. Hour \in Nat
  BY PolicyAssumption
<1>4. {MinBlob, MaxUpload, MaxEdits} \subseteq Nat /\ MinBlob <= MaxUpload
  BY PageAssumption
<1> QED
  BY <1>1, <1>2, <1>3, <1>4

\* A variant differs in one field.
LEMMA VariantOf ==
  ASSUME NEW base, NEW values, NEW v \in Variants(base, values)
  PROVE  \/ v = base
         \/ \E f \in DOMAIN values : \E x \in values[f] : v = [base EXCEPT ![f] = x]
BY DEF Variants

\* The form a visitor starts from keeps the rules.
LEMMA FilledIsAForm == FormRule(Filled)
<1>1. NoMessage \in Messages
  BY DEF NoMessage, Message, Messages
<1>2. DefaultHours \in Nat /\ "key" \in DOMAIN KeyBytes
  BY PolicyAssumption
<1>3. Filled \in Forms
  BY <1>1, <1>2 DEF Filled, Forms
<1> QED
  BY <1>3 DEF FormRule, Filled

\* What a field of the form may come to hold.
LEMMA FieldsOfForms ==
         /\ DOMAIN FormValues =
              {"title", "visibility", "key", "hours", "warning", "message", "password",
               "picked", "text"}
         /\ FormValues["title"] \subseteq Nat
         /\ FormValues["visibility"] \subseteq {"public", "private"}
         /\ FormValues["key"] = DOMAIN KeyBytes
         /\ FormValues["hours"] \subseteq Nat
         /\ FormValues["warning"] = {notices}
         /\ FormValues["message"] \subseteq Messages
         /\ ~notices => FormValues["message"] = {NoMessage}
         /\ FormValues["password"] \subseteq BOOLEAN
         /\ FormValues["picked"] = SUBSET Files
         /\ FormValues["text"] \subseteq BOOLEAN
<1>1. DOMAIN FormValues =
        {"title", "visibility", "key", "hours", "warning", "message", "password", "picked", "text"}
  BY DEF FormValues
<1>2. /\ FormValues["title"] = {0, MaxTitle + 1} /\ FormValues["visibility"] = {"public"}
      /\ FormValues["key"] = DOMAIN KeyBytes /\ FormValues["warning"] = {notices}
      /\ FormValues["password"] = {FALSE} /\ FormValues["picked"] = SUBSET Files
      /\ FormValues["text"] = {FALSE}
  BY DEF FormValues
<1>3. FormValues["hours"] = {h \in {GuestHours, AdminHours} : notices \/ h <= GuestHours}
  BY DEF FormValues
<1>4. FormValues["message"] =
        IF notices
          THEN {Message(1, 1, TRUE), Message(MaxMessage, 0, FALSE),
                Message(MaxMessage, 1, FALSE), Message(MaxMessage + 1, 0, FALSE)}
          ELSE {NoMessage}
  BY DEF FormValues
<1>5. \A b, n \in Nat : \A e \in BOOLEAN : Message(b, n, e) \in Messages
  BY DEF Message, Messages
<1>6. NoMessage \in Messages
  BY <1>5 DEF NoMessage
<1>7. /\ MaxMessage \in Nat /\ MaxMessage + 1 \in Nat /\ MaxTitle + 1 \in Nat
      /\ GuestHours \in Nat /\ AdminHours \in Nat /\ 0 \in Nat /\ 1 \in Nat
  BY Limits
<1>8. /\ Message(1, 1, TRUE) \in Messages /\ Message(MaxMessage, 0, FALSE) \in Messages
      /\ Message(MaxMessage, 1, FALSE) \in Messages
      /\ Message(MaxMessage + 1, 0, FALSE) \in Messages
  BY <1>5, <1>7
<1>9. FormValues["message"] \subseteq Messages
  BY <1>4, <1>6, <1>8
<1>10. FormValues["hours"] \subseteq Nat
  BY <1>3, <1>7
<1>11. FormValues["title"] \subseteq Nat
  BY <1>2, <1>7
<1> QED
  BY <1>1, <1>2, <1>4, <1>9, <1>10, <1>11

\* A change of one field keeps the rules.
LEMMA FormsVary ==
  ASSUME notices \in BOOLEAN, NEW base, FormRule(base), NEW v \in Variants(base, FormValues)
  PROVE  FormRule(v)
<1>1. CASE v = base
  BY <1>1
<1>2. ASSUME NEW f \in DOMAIN FormValues, NEW x \in FormValues[f], v = [base EXCEPT ![f] = x]
      PROVE  FormRule(v)
  <2>1. CASE f \in {"title", "visibility", "hours"}
    BY <1>2, <2>1, FieldsOfForms DEF FormRule, Forms
  <2>2. CASE f = "key"
    BY <1>2, <2>2, FieldsOfForms DEF FormRule, Forms
  <2>3. CASE f = "warning"
    BY <1>2, <2>3, FieldsOfForms DEF FormRule, Forms
  <2>4. CASE f = "message"
    BY <1>2, <2>4, FieldsOfForms DEF FormRule, Forms
  <2>5. CASE f \in {"password", "text"}
    BY <1>2, <2>5, FieldsOfForms DEF FormRule, Forms
  <2>6. CASE f = "picked"
    BY <1>2, <2>6, FieldsOfForms DEF FormRule, Forms
  <2> QED
    BY <2>1, <2>2, <2>3, <2>4, <2>5, <2>6, FieldsOfForms
<1> QED
  BY <1>1, <1>2, VariantOf

\* A title taken from a file's name is a length.
LEMMA Titles ==
  ASSUME FormRule(form), NEW f \in Files \cup {TextFile}
  PROVE  TitledBy(f) \in Nat
<1>1. NameBytes[f] \in Nat
  BY PageAssumption
<1>2. form.title \in Nat
  BY DEF FormRule, Forms
<1> QED
  BY <1>1, <1>2 DEF TitledBy

\* A form with such a title keeps the rules.
LEMMA FormsTitled ==
  ASSUME FormRule(form), NEW f \in Files \cup {TextFile}
  PROVE  FormRule([form EXCEPT !.title = TitledBy(f)])
BY Titles DEF FormRule, Forms

\* So does the form beside previews.
LEMMA Previewed ==
  ASSUME PageInv, NEW fs \in SUBSET Files, Preview(fs)
  PROVE  FormRule(form')
<1>1. PICK first \in fs : form' = [form EXCEPT !.title = TitledBy(first)]
  BY DEF Preview
<1> QED
  BY <1>1, FormsTitled DEF PageInv

\* Where the page stays as it is, so does what is known of it.
LEMMA PageStays ==
  ASSUME PageInv, UNCHANGED page
  PROVE  PageInv'
BY DEF PageInv, page, box, FormRule

\* A report ends the handler and changes nothing it read.
LEMMA PageReports ==
  ASSUME PageInv, at' = "ready", UNCHANGED <<form, box, fd, blob, edits, token, notices>>
  PROVE  PageInv'
BY DEF PageInv, box, FormRule

\* Whoever edits the form leaves the handler alone.
LEMMA FormEdited ==
  ASSUME PageInv, FormRule(form'), clip' \in SUBSET Files,
         UNCHANGED <<at, fd, blob, result, notices>>
  PROVE  PageInv'
BY DEF PageInv, FormRule

\* Every step of the page keeps its invariant.
LEMMA PageSteps ==
  ASSUME PageInv, PageStep
  PROVE  PageInv'
<1>0. /\ FormRule(form) /\ FormRule(fd) /\ notices \in BOOLEAN /\ clip \in SUBSET Files
  BY DEF PageInv
<1>1. CASE Edit
  <2>1. form' \in Variants(form, FormValues)
    BY <1>1 DEF Edit
  <2>2. FormRule(form')
    BY <1>0, <2>1, FormsVary
  <2> QED
    BY <1>0, <1>1, <2>2, FormEdited DEF Edit, box
<1>2. CASE PickFiles
  <2>1. PICK fs \in SUBSET Files \ {{}} : \E first \in fs :
          form' = [form EXCEPT !.picked = fs, !.title = TitledBy(first)]
    BY <1>2 DEF PickFiles
  <2>2. PICK first \in fs : form' = [form EXCEPT !.picked = fs, !.title = TitledBy(first)]
    BY <2>1
  <2>3. TitledBy(first) \in Nat
    BY <1>0, <2>1, <2>2, Titles
  <2>4. form' = [form EXCEPT !.picked = fs, !.title = TitledBy(first)] /\ fs \in SUBSET Files
    BY <2>1, <2>2
  <2>5. notices' = notices
    BY <1>2 DEF PickFiles
  <2>6. FormRule(form')
    BY <1>0, <2>3, <2>4, <2>5 DEF FormRule, Forms
  <2> QED
    BY <1>0, <1>2, <2>6, FormEdited DEF PickFiles, box
<1>3. CASE Paste
  <2>1. PICK f \in Files : clip' = {f} /\ Preview({f})
    BY <1>3 DEF Paste
  <2>2. FormRule(form') /\ clip' \in SUBSET Files
    BY <2>1, Previewed
  <2> QED
    BY <1>3, <2>2, FormEdited DEF Paste
<1>4. CASE PressReadClipboard \/ ErasePreviews \/ FailRead
  BY <1>0, <1>4, FormEdited DEF PressReadClipboard, ErasePreviews, FailRead
<1>5. CASE ReadItem
  <2>1. FormRule([form EXCEPT !.text = TRUE])
    BY <1>0 DEF FormRule, Forms
  <2>2. FormRule(form') /\ clip' \in SUBSET Files
    BY <1>0, <1>5, <2>1 DEF ReadItem
  <2> QED
    BY <1>5, <2>2, FormEdited DEF ReadItem
<1>6. CASE EndRead
  <2>1. FormRule(form')
    BY <1>0, <1>6, Previewed DEF EndRead
  <2> QED
    BY <1>0, <1>6, <2>1, FormEdited DEF EndRead
<1>7. CASE Submit
  BY <1>7 DEF PageInv, Submit, box, FormRule
<1>8. CASE ReadForm
  <2>1. CASE at' = "ready"
    <3>1. fd' = fd
      BY <1>8, <2>1 DEF ReadForm
    <3> QED
      BY <1>8, <2>1, <3>1, PageReports DEF ReadForm, box
  <2>2. CASE at' # "ready"
    <3>1. /\ form.password /\ ~MessageTooLong /\ at' = "packing" /\ result' = result
          /\ \E first \in FirstFiles : fd' = [form EXCEPT !.title = TitledBy(first)]
      BY <1>8, <2>2 DEF ReadForm, Report
    <3>2. PICK first \in FirstFiles : fd' = [form EXCEPT !.title = TitledBy(first)]
      BY <3>1
    <3>3. FirstFiles \subseteq Files \cup {TextFile}
      BY <1>0 DEF FirstFiles, FormRule, Forms
    <3>4. FormRule(fd')
      BY <1>0, <3>2, <3>3, FormsTitled
    <3>5. fd'.message = form.message /\ form.message.bytes \in Nat
      BY <1>0, <3>2 DEF FormRule, Forms, Messages
    <3>6. fd'.message.bytes <= MaxMessage
      <4>1. CASE notices
        BY <3>1, <3>5, <4>1, Limits DEF MessageTooLong
      <4>2. CASE ~notices
        <5>1. fd'.message.bytes = 0
          BY <1>0, <3>5, <4>2 DEF FormRule, NoMessage, Message
        <5> QED
          BY <5>1, Limits
      <4> QED
        BY <4>1, <4>2
    <3> QED
      BY <1>8, <3>1, <3>4, <3>6 DEF PageInv, ReadForm, box, FormRule
  <2> QED
    BY <2>1, <2>2
<1>9. CASE Pack
  <2>1. PICK n \in {MinBlob, MaxUpload, MaxUpload + 1} :
          /\ blob' = n
          /\ IF n > MaxUpload THEN Report("upload too large")
                              ELSE at' = "sending" /\ UNCHANGED result
    BY <1>9 DEF Pack
  <2>2. n <= MaxUpload => n \in MinBlob..MaxUpload
    BY Limits
  <2>3. n \in Nat /\ MaxUpload \in Nat
    BY Limits
  <2>4. CASE n > MaxUpload
    BY <1>9, <2>1, <2>4 DEF PageInv, Pack, Report, box, FormRule
  <2>5. CASE n <= MaxUpload
    <3>0. ~(n > MaxUpload)
      BY <2>3, <2>5
    <3>1. at' = "sending" /\ result' = result /\ blob' \in MinBlob..MaxUpload
      BY <2>1, <2>2, <2>5, <3>0 DEF Report
    <3> QED
      BY <1>9, <3>1 DEF PageInv, Pack, box, FormRule
  <2> QED
    BY <2>3, <2>4, <2>5
<1>10. CASE FailToPack
  BY <1>10, PageReports DEF FailToPack, Report, box
<1> QED
  BY <1>1, <1>2, <1>3, <1>4, <1>5, <1>6, <1>7, <1>8, <1>9, <1>10 DEF PageStep

-----------------------------------------------------------------------------
(* Requests and what they are allowed *)

UploadRequest ==
  [secure : BOOLEAN, cookie : {Null} \cup Sids, token : {Null} \cup Sids,
   multipart : BOOLEAN, parts : {"proper", "unexpected", "no blob"}, title : Nat,
   visibility : {"public", "private", "odd", ""}, key : DOMAIN KeyBytes, hours : Int,
   warning : {"", "0", "1", "odd"}, message : Messages, encrypted : BOOLEAN,
   cipher : BOOLEAN, verifier : {"valid", "", "invalid", "long"}, size : Int,
   trailing : BOOLEAN]

\* What a field of a client's request may hold.
LEMMA FieldsOfRequests ==
  /\ DOMAIN RequestValues =
       {"secure", "multipart", "parts", "title", "key", "warning", "message", "encrypted",
        "cipher", "verifier", "size", "trailing"}
  /\ RequestValues["parts"] = {"unexpected", "no blob"}
  /\ RequestValues["title"] \subseteq Nat
  /\ RequestValues["key"] = DOMAIN KeyBytes
  /\ RequestValues["warning"] = {"0", "1", "odd"}
  /\ RequestValues["message"] \subseteq Messages
  /\ RequestValues["verifier"] = {"", "invalid", "long"}
  /\ RequestValues["size"] \subseteq Int
  /\ \A f \in {"secure", "multipart", "encrypted", "cipher", "trailing"} :
       RequestValues[f] \subseteq BOOLEAN
<1>1. DOMAIN RequestValues =
        {"secure", "multipart", "parts", "title", "key", "warning", "message", "encrypted",
         "cipher", "verifier", "size", "trailing"}
  BY DEF RequestValues
<1>2. /\ RequestValues["parts"] = {"unexpected", "no blob"}
      /\ RequestValues["title"] = {MaxTitle, MaxTitle + 1, FieldLimit}
      /\ RequestValues["key"] = DOMAIN KeyBytes
      /\ RequestValues["warning"] = {"0", "1", "odd"}
      /\ RequestValues["verifier"] = {"", "invalid", "long"}
  BY DEF RequestValues
<1>3. /\ RequestValues["secure"] = {FALSE} /\ RequestValues["multipart"] = {FALSE}
      /\ RequestValues["encrypted"] = {FALSE} /\ RequestValues["cipher"] = {FALSE}
      /\ RequestValues["trailing"] = {TRUE}
  BY DEF RequestValues
<1>4. /\ RequestValues["size"] = {MinBlob - 1, MaxUpload, MaxUpload + 1}
      /\ RequestValues["message"] =
           {Message(1, 0, TRUE), Message(MaxMessage, 0, FALSE), Message(MaxMessage + 1, 0, FALSE)}
  BY DEF RequestValues
<1>5. \A b, n \in Nat : \A e \in BOOLEAN : Message(b, n, e) \in Messages
  BY DEF Message, Messages
<1>6. /\ MaxMessage \in Nat /\ MaxMessage + 1 \in Nat /\ MaxTitle + 1 \in Nat
      /\ MaxTitle \in Nat /\ FieldLimit \in Nat /\ 0 \in Nat /\ 1 \in Nat
      /\ MinBlob - 1 \in Int /\ MaxUpload \in Int /\ MaxUpload + 1 \in Int
  BY Limits
<1>7. /\ Message(1, 0, TRUE) \in Messages /\ Message(MaxMessage, 0, FALSE) \in Messages
      /\ Message(MaxMessage + 1, 0, FALSE) \in Messages
  BY <1>5, <1>6
<1>8. RequestValues["message"] \subseteq Messages /\ RequestValues["size"] \subseteq Int
  BY <1>4, <1>6, <1>7
<1>9. RequestValues["title"] \subseteq Nat
  BY <1>2, <1>6
<1> QED
  BY <1>1, <1>2, <1>3, <1>8, <1>9

\* A request with one field changed is one.
LEMMA RequestsVary ==
  ASSUME NEW base \in UploadRequest, NEW r \in Variants(base, RequestValues)
  PROVE  r \in UploadRequest
<1>1. CASE r = base
  BY <1>1
<1>2. ASSUME NEW f \in DOMAIN RequestValues, NEW x \in RequestValues[f], r = [base EXCEPT ![f] = x]
      PROVE  r \in UploadRequest
  <2>1. CASE f \in {"secure", "multipart", "encrypted", "cipher", "trailing"}
    <3>1. x \in BOOLEAN
      BY <2>1, FieldsOfRequests
    <3>2. CASE f = "secure"
      BY <1>2, <3>1, <3>2 DEF UploadRequest
    <3>3. CASE f = "multipart"
      BY <1>2, <3>1, <3>3 DEF UploadRequest
    <3>4. CASE f = "encrypted"
      BY <1>2, <3>1, <3>4 DEF UploadRequest
    <3>5. CASE f = "cipher"
      BY <1>2, <3>1, <3>5 DEF UploadRequest
    <3>6. CASE f = "trailing"
      BY <1>2, <3>1, <3>6 DEF UploadRequest
    <3> QED
      BY <2>1, <3>2, <3>3, <3>4, <3>5, <3>6
  <2>2. CASE f = "parts"
    BY <1>2, <2>2, FieldsOfRequests DEF UploadRequest
  <2>3. CASE f = "title"
    BY <1>2, <2>3, FieldsOfRequests DEF UploadRequest
  <2>4. CASE f = "key"
    BY <1>2, <2>4, FieldsOfRequests DEF UploadRequest
  <2>5. CASE f = "warning"
    BY <1>2, <2>5, FieldsOfRequests DEF UploadRequest
  <2>6. CASE f = "message"
    BY <1>2, <2>6, FieldsOfRequests DEF UploadRequest
  <2>7. CASE f = "verifier"
    BY <1>2, <2>7, FieldsOfRequests DEF UploadRequest
  <2>8. CASE f = "size"
    BY <1>2, <2>8, FieldsOfRequests DEF UploadRequest
  <2> QED
    BY <2>1, <2>2, <2>3, <2>4, <2>5, <2>6, <2>7, <2>8, FieldsOfRequests
<1> QED
  BY <1>1, <1>2, VariantOf

\* Session ids are numbers, and none is Null.
LEMMA SidsAreIds == Sids \subseteq Nat /\ Null \notin Sids
<1>1. Null \notin Int
  BY StoreAssumption
<1>2. Sids \subseteq Nat /\ Nat \subseteq Int
  BY DEF Sids, Guest, Admin, Later
<1> QED
  BY <1>1, <1>2

\* The three session ids are different.
LEMMA SidsDiffer ==
  /\ Sids = {Guest, Admin, Later}
  /\ Guest # Admin /\ Admin # Later /\ Guest # Later
BY DEF Sids, Guest, Admin, Later

\* An ordinary request with any cookie, token, visibility, key and hours is
\* one.
LEMMA OrdinaryRequests ==
  ASSUME NEW c \in {Null} \cup Sids, NEW t \in {Null} \cup Sids, NEW v \in {"private", "odd"},
         NEW k \in DOMAIN KeyBytes, NEW h \in Int
  PROVE  [Ordinary EXCEPT !.cookie = c, !.token = t, !.visibility = v, !.key = k, !.hours = h]
           \in UploadRequest
<1>1. NoMessage \in Messages
  BY DEF NoMessage, Message, Messages
<1>2. "" \in DOMAIN KeyBytes
  BY PolicyAssumption
<1>3. 0 \in Nat /\ 0 \in Int
  OBVIOUS
<1>4. MinBlob \in Int
  BY Limits
<1>5. Ordinary \in UploadRequest
  BY <1>1, <1>2, <1>3, <1>4 DEF Ordinary, UploadRequest
<1>6. [Ordinary EXCEPT !.cookie = c, !.token = t] \in UploadRequest
  BY <1>5 DEF UploadRequest
<1>7. [Ordinary EXCEPT !.cookie = c, !.token = t, !.visibility = v] \in UploadRequest
  BY <1>6 DEF UploadRequest
<1> QED
  BY <1>7 DEF UploadRequest

\* The requests of clients are requests.
LEMMA ClientsRequests == Requests \subseteq UploadRequest
<1>1. {Null, Guest, Admin} \subseteq {Null} \cup Sids
  BY DEF Sids
<1>2. {"", "key"} \subseteq DOMAIN KeyBytes
  BY PolicyAssumption
<1>3. {0, 1, AdminHours + 1} \subseteq Int
  <2>1. 0 \in Int /\ 1 \in Int /\ AdminHours + 1 \in Int
    BY Limits
  <2> QED
    BY <2>1
<1> SUFFICES ASSUME NEW r \in Requests PROVE r \in UploadRequest
  OBVIOUS
<1>4. PICK c \in {Null, Guest, Admin}, t \in {Null, Guest, Admin}, v \in {"private", "odd"},
           k \in {"", "key"}, h \in {0, 1, AdminHours + 1} :
             r \in Variants([Ordinary EXCEPT !.cookie = c, !.token = t, !.visibility = v,
                                             !.key = k, !.hours = h], RequestValues)
  BY DEF Requests
<1>5. [Ordinary EXCEPT !.cookie = c, !.token = t, !.visibility = v, !.key = k, !.hours = h]
        \in UploadRequest
  BY <1>1, <1>2, <1>3, OrdinaryRequests
<1> QED
  BY <1>4, <1>5, RequestsVary

\* What the page sends is a request.
LEMMA PagesRequest ==
  ASSUME PageInv, blob \in Int, token \in Sids, NEW c \in Sids
  PROVE  Outgoing(c) \in UploadRequest
<1>1. fd \in Forms
  BY DEF PageInv, FormRule
<1>2. AsSent(fd.message) \in Messages
  BY <1>1 DEF Forms, AsSent, Messages
<1>3. Warning \in {"", "0", "1", "odd"}
  BY DEF Warning
<1>4. /\ fd.title \in Nat /\ fd.visibility \in {"public", "private"}
      /\ fd.key \in DOMAIN KeyBytes /\ fd.hours \in Int
  BY <1>1 DEF Forms
<1> QED
  BY <1>2, <1>3, <1>4 DEF Outgoing, UploadRequest

\* More hours take no less time.
LEMMA TimesIsMonotone ==
  ASSUME NEW n \in Nat, NEW a \in Nat, NEW b \in Nat, a <= b
  PROVE  n * a \in Nat /\ n * a <= n * b
OBVIOUS

\* The share of a request that passed is what its sender is allowed.
LEMMA PassedIsAllowed ==
  ASSUME NEW r \in UploadRequest, NEW posted \in BOOLEAN, live \in SUBSET Sids, now \in Nat,
         Verdict(r) = Passed
  PROVE  LET u == Accepted(r, posted) IN
         /\ u \in Accepteds /\ u # NoUpload
         /\ Allowed(u.share, u.proved, u.arrived)
         /\ u.share.visibility = "private" <=> u.share.key # ""
         /\ KeyBytes[u.share.key] <= MaxKey
         /\ u.size = r.size /\ u.trailing = r.trailing
<1> DEFINE session == CurrentSession(r.cookie)
           admin   == IsAdmin(r, session)
           u       == Accepted(r, posted)
           proved  == ProvedAdmin(r)
<1>1. Null \notin live
  BY SidsAreIds
<1>2. Gate(r, session) = Passed /\ Parts(r) = Passed /\ Policy(r, admin) = Passed
  BY <1>1, VerdictSays, GateSays, PartsSay DEF Passed
<1>3. /\ r.visibility \in {"public", "private", "odd", ""} /\ r.key \in DOMAIN KeyBytes
      /\ r.hours \in Int /\ r.size \in Int /\ r.trailing \in BOOLEAN
      /\ r.verifier \in {"valid", "", "invalid", "long"}
  BY DEF UploadRequest
<1>4. admin \in BOOLEAN /\ proved \in BOOLEAN /\ HasNotice(r) \in BOOLEAN
  BY DEF IsAdmin, ProvedAdmin, HasNotice, CurrentSession, UploadRequest, Messages
<1>5. admin => proved
  BY <1>1, <1>2, AdminsAreProved
<1>6. /\ HasNotice(r) => admin
      /\ r.verifier = "valid" /\ (r.visibility = "private" => r.key # "")
  BY <1>2, <1>3, <1>4, PolicySays DEF Passed
<1>7. ~FieldTooLarge(KeyBytes[r.key])
  BY <1>2, PartsSay DEF Passed
<1>8. KeyBytes[r.key] <= MaxKey
  <2>1. KeyBytes[r.key] \in Nat /\ FieldLimit <= MaxKey + 1
    BY <1>3, PolicyAssumption
  <2>2. MaxKey \in Nat /\ FieldLimit \in Nat
    BY StoreAssumption, Limits
  <2> QED
    BY <1>7, <2>1, <2>2 DEF FieldTooLarge
<1>9. /\ "" \in DOMAIN KeyBytes /\ KeyBytes[""] <= MaxKey
  <2>1. "" \in DOMAIN KeyBytes /\ KeyBytes[""] = 0
    BY PolicyAssumption
  <2>2. 0 <= MaxKey
    BY StoreAssumption
  <2> QED
    BY <2>1, <2>2
<1> DEFINE limit == IF proved THEN AdminHours ELSE GuestHours
           s     == ShareOf(r, admin, now)
<1>10. Hours(r, admin) \in Nat /\ limit \in Nat /\ Hours(r, admin) <= limit
  <2>1. GuestHours <= AdminHours
    BY PolicyAssumption
  <2> HIDE DEF admin, proved
  <2>2. r.hours <= 0 \/ r.hours \in Nat
    <3>1. r.hours \in Int
      BY <1>3
    <3> QED
      BY <3>1
  <2> QED
    BY <1>5, <2>1, <2>2, Limits DEF Hours
<1>11. Hour * Hours(r, admin) \in Nat /\ Hour * Hours(r, admin) <= Hour * limit /\ Hour * limit \in Nat
  <2> HIDE DEF limit, admin
  <2> QED
    BY <1>10, TimesIsMonotone, Limits
<1>12. now + Hour * Hours(r, admin) \in Nat /\ now + Hour * Hours(r, admin) <= now + Hour * limit
  <2> HIDE DEF limit, admin
  <2> QED
    BY <1>11
<1>13. /\ s.exp = now + Hour * Hours(r, admin) /\ s.notice = HasNotice(r)
       /\ s.visibility = Visibility(r)
       /\ s.key = IF Visibility(r) = "private" THEN r.key ELSE ""
  BY DEF ShareOf
<1>14. s \in Drafts
  <2>1. /\ Visibility(r) \in {"public", "private"}
        /\ (IF Visibility(r) = "private" THEN r.key ELSE "") \in DOMAIN KeyBytes
    BY <1>3, <1>9 DEF Visibility
  <2> HIDE DEF admin
  <2> QED
    BY <1>4, <1>6, <1>12, <2>1 DEF ShareOf, Drafts
<1>15. s.visibility = "private" <=> s.key # ""
  BY <1>6, <1>13 DEF Visibility
<1>16. KeyBytes[s.key] <= MaxKey
  BY <1>8, <1>9, <1>13
<1>17. Allowed(s, proved, now)
  <2>1. s.notice => proved
    BY <1>5, <1>6, <1>13
  <2> QED
    BY <1>12, <1>13, <2>1 DEF Allowed
<1>18. /\ u.stage = "accepted" /\ u.posted = posted /\ u.size = r.size
       /\ u.trailing = r.trailing /\ u.share = s /\ u.proved = proved /\ u.arrived = now
  BY DEF Accepted
<1>19. u \in Accepteds
  <2>1. u = [stage |-> "accepted", posted |-> posted, size |-> r.size, trailing |-> r.trailing,
             share |-> s, proved |-> proved, arrived |-> now]
    BY DEF Accepted
  <2> HIDE DEF s, proved, u
  <2> QED
    BY <1>3, <1>4, <1>14, <2>1 DEF Accepteds
<1>20. u # NoUpload
  BY <1>18 DEF NoUpload
<1> HIDE DEF s, proved, u
<1> QED
  BY <1>15, <1>16, <1>17, <1>18, <1>19, <1>20 DEF u

\* What the server refuses of a form that keeps the rules.
LEMMA OwnRefusals ==
  ASSUME PageInv, SessionInv, source = "page", at = "sending", Verdict(Outgoing(cookie)) # Passed
  PROVE  LET v == Verdict(Outgoing(cookie)) IN
         \/ v = "csrf rejected" /\ (token \notin live \/ cookie # token)
         \/ v = "private key required" /\ fd.visibility = "private" /\ fd.key = ""
         \/ v = "metadata too large"
              /\ \/ fd.title > MaxTitle \/ FieldTooLarge(KeyBytes[fd.key])
                 \/ fd.message.breaks > 0
<1> DEFINE r       == Outgoing(cookie)
           session == CurrentSession(r.cookie)
           admin   == IsAdmin(r, session)
           v       == Verdict(r)
<1>1. /\ r.secure /\ r.multipart /\ r.parts = "proper" /\ r.token = token /\ r.cookie = cookie
      /\ r.encrypted /\ r.cipher /\ r.verifier = "valid" /\ r.warning = Warning
  BY DEF Outgoing
<1>2. /\ r.title = fd.title /\ r.key = fd.key /\ r.visibility = fd.visibility
      /\ r.message = AsSent(fd.message)
  BY DEF Outgoing
<1> HIDE DEF r
<1>3. /\ fd.title \in Nat /\ fd.message \in Messages
      /\ notices \in BOOLEAN /\ fd.message.bytes <= MaxMessage
      /\ ~notices => ~fd.warning /\ fd.message = NoMessage
  BY DEF PageInv, FormRule, Forms
<1>4. /\ token \in {Guest, Admin} /\ (notices <=> token = Admin)
      /\ live \in SUBSET Sids
  BY DEF SessionInv
<1>5. token \in Sids /\ token # Null /\ Null \notin live
  BY <1>4, SidsAreIds DEF Sids
<1>6. session.csrf = IF cookie \in live THEN cookie ELSE Null
  BY <1>1, SessionOf
<1>7. session.admin <=> cookie \in live /\ cookie = Admin
  BY <1>1, SessionOf
<1>8. /\ fd.message.bytes \in Nat /\ fd.message.breaks \in Nat
      /\ r.message.bytes = fd.message.bytes + fd.message.breaks
      /\ r.message.blank = fd.message.blank
  BY <1>2, <1>3 DEF AsSent, Messages
<1>9. r.message.bytes > MaxMessage => fd.message.breaks > 0
  BY <1>3, <1>8, Limits
<1>10. /\ MaxTitle < FieldLimit /\ MaxMessage < FieldLimit
  BY PolicyAssumption
<1>11. /\ FieldTooLarge(r.title) => fd.title > MaxTitle
       /\ FieldTooLarge(r.message.bytes) => fd.message.breaks > 0
  <2>1. r.message.bytes \in Nat
    BY <1>8
  <2> QED
    BY <1>2, <1>3, <1>9, <1>10, <2>1, Limits DEF FieldTooLarge
<1>12. CASE v = Gate(r, session) /\ Gate(r, session) # Passed
  <2>1. Gate(r, session) = "csrf rejected" /\ (session.csrf = Null \/ r.token # session.csrf)
    BY <1>1, <1>12, GateSays
  <2>2. token \notin live \/ cookie # token
    BY <1>1, <1>5, <1>6, <2>1
  <2> QED
    BY <1>12, <2>1, <2>2 DEF r
<1>13. CASE Gate(r, session) = Passed /\ v = Parts(r) /\ Parts(r) # Passed
  <2>1. /\ Parts(r) = "metadata too large"
        /\ \/ FieldTooLarge(r.title) \/ FieldTooLarge(KeyBytes[r.key])
           \/ FieldTooLarge(r.message.bytes)
    BY <1>1, <1>13, PartsSay
  <2>2. fd.title > MaxTitle \/ FieldTooLarge(KeyBytes[fd.key]) \/ fd.message.breaks > 0
    BY <1>2, <1>11, <2>1
  <2> QED
    BY <1>13, <2>1, <2>2 DEF r
<1>14. CASE Gate(r, session) = Passed /\ v = Policy(r, admin) /\ Policy(r, admin) # Passed
  <2>1. admin \in BOOLEAN
    BY <1>7 DEF IsAdmin
  <2>2. HasNotice(r) => admin
    <3>1. HasNotice(r) => notices
      <4>1. ~notices => Warning \in {"", "0"}
        BY <1>3 DEF Warning
      <4>2. ~notices => r.message.blank
        BY <1>3, <1>8 DEF NoMessage, Message
      <4> QED
        BY <1>1, <1>3, <4>1, <4>2 DEF HasNotice
    <3>2. session.csrf = token
      BY <1>1, <1>5, <1>14, GateSays DEF Passed
    <3>3. cookie \in live /\ cookie = token
      BY <1>5, <1>6, <3>2
    <3> QED
      BY <1>1, <1>4, <1>5, <1>7, <3>1, <3>3 DEF IsAdmin
  <2>3. r.warning \in {"", "0", "1"}
    BY <1>1 DEF Warning
  <2>4. \/ /\ Policy(r, admin) = "metadata too large"
           /\ r.title > MaxTitle \/ r.message.bytes > MaxMessage
        \/ /\ Policy(r, admin) = "private key required"
           /\ r.visibility = "private" /\ r.key = ""
    <3> HIDE DEF admin
    <3> QED
      BY <1>1, <1>14, <2>1, <2>2, <2>3, PolicySays
  <2> QED
    BY <1>2, <1>9, <1>14, <2>4 DEF r
<1> QED
  BY <1>5, <1>12, <1>13, <1>14, VerdictSays DEF r

-----------------------------------------------------------------------------
(* The table *)

\* A row that keeps the rule keeps it when another share is stored.
LEMMA RowsKept ==
  ASSUME asked \in Seq([proved : BOOLEAN, arrived : Nat]), NEW a \in [proved : BOOLEAN, arrived : Nat],
         NEW r, RowRule(r, asked)
  PROVE  RowRule(r, Append(asked, a))
<1>1. DOMAIN asked \subseteq DOMAIN Append(asked, a)
  OBVIOUS
<1>2. \A n \in DOMAIN asked : Append(asked, a)[n] = asked[n]
  OBVIOUS
<1> QED
  BY <1>1, <1>2 DEF RowRule

\* The row of an upload that keeps its rule keeps the rule of rows.
LEMMA RowsAreStoredAsAllowed ==
  ASSUME Underway, up # NoUpload, now \in Nat, asked \in Seq([proved : BOOLEAN, arrived : Nat])
  PROVE  LET a == [proved |-> up.proved, arrived |-> up.arrived]
             r == RowOf([up.share EXCEPT !.id = Len(Append(asked, a))], now)
         IN  a \in [proved : BOOLEAN, arrived : Nat] /\ RowRule(r, Append(asked, a))
<1> DEFINE a == [proved |-> up.proved, arrived |-> up.arrived]
           n == Len(Append(asked, a))
           s == up.share
           r == RowOf([s EXCEPT !.id = n], now)
<1>1. /\ up \in Accepteds /\ Allowed(s, up.proved, up.arrived)
      /\ s.visibility = "private" <=> s.key # ""
      /\ KeyBytes[s.key] <= MaxKey
  BY DEF Underway
<1>2. a \in [proved : BOOLEAN, arrived : Nat] /\ s \in Drafts
  BY <1>1 DEF Accepteds
<1>3. n \in Nat /\ n \in DOMAIN Append(asked, a) /\ Append(asked, a)[n] = a
  BY <1>2
<1>4. a.proved = up.proved /\ a.arrived = up.arrived
  OBVIOUS
<1> HIDE DEF a, n, s
<1>5. /\ DOMAIN s = {"id", "visibility", "key", "verifier", "encrypted", "notice", "exp", "created", "purged"}
      /\ s.verifier = "valid" /\ s.encrypted = TRUE /\ s.notice \in BOOLEAN /\ s.exp \in Nat
      /\ s.purged = FALSE /\ s.key \in DOMAIN KeyBytes /\ s.visibility \in {"public", "private"}
  BY <1>2 DEF Drafts
<1>6. r = [id |-> n, visibility |-> s.visibility, key |-> NilIfEmpty(s.key), verifier |-> "valid",
           encrypted |-> s.encrypted, notice |-> s.notice, exp |-> s.exp, created |-> now,
           purged |-> s.purged]
  <2> DEFINE q == [s EXCEPT !.id = n]
  <2>1. q = [id |-> n, visibility |-> s.visibility, key |-> s.key, verifier |-> s.verifier,
             encrypted |-> s.encrypted, notice |-> s.notice, exp |-> s.exp,
             created |-> s.created, purged |-> s.purged]
    BY <1>2 DEF Drafts
  <2>2. r = [q EXCEPT !.key = NilIfEmpty(q.key), !.verifier = NilIfEmpty(q.verifier), !.created = now]
    BY DEF RowOf
  <2> HIDE DEF q
  <2>3. q.key = s.key /\ NilIfEmpty(q.verifier) = "valid"
    BY <1>5, <2>1 DEF NilIfEmpty
  <2> QED
    BY <2>1, <2>2, <2>3
<1> HIDE DEF r
<1>7. Null \notin DOMAIN KeyBytes /\ Null # "valid"
  BY PolicyAssumption
<1>8. /\ NilIfEmpty(s.key) \in {Null} \cup (DOMAIN KeyBytes \ {""})
      /\ NilIfEmpty(s.key) = Null <=> s.key = ""
      /\ s.key # "" => NilIfEmpty(s.key) = s.key
  BY <1>5, <1>7 DEF NilIfEmpty
<1>9. r \in Rows
  BY <1>3, <1>5, <1>6, <1>8 DEF Rows
<1>10. r.visibility = "private" => r.key # Null /\ KeyBytes[r.key] <= MaxKey
  BY <1>1, <1>6, <1>8
<1>11. r.id \in DOMAIN Append(asked, a) /\ Append(asked, a)[r.id] = a
  BY <1>3, <1>6
<1>12. Allowed(r, a.proved, a.arrived)
  BY <1>1, <1>4, <1>6 DEF Allowed
<1>13. Protected(r) /\ (r.visibility = "private" <=> r.key # Null)
  BY <1>1, <1>5, <1>6, <1>7, <1>8 DEF Protected
<1>14. RowRule(r, Append(asked, a))
  BY <1>9, <1>10, <1>11, <1>12, <1>13 DEF RowRule
<1> QED
  BY <1>2, <1>14 DEF a, n, s, r

\* So does a row that is there from the start.
LEMMA OldRowsKeepTheRule ==
  ASSUME NEW t \in OldTables, NEW r \in t, NEW answered
  PROVE  RowRule(r, answered)
<1> DEFINE base   == [id |-> Old, visibility |-> "public", key |-> Null, verifier |-> "valid",
                      encrypted |-> TRUE, notice |-> FALSE, exp |-> Null, created |-> 0,
                      purged |-> FALSE]
           values == [visibility |-> {"private"}, verifier |-> {Null}, encrypted |-> {FALSE},
                      exp |-> {Hour}, purged |-> {TRUE}]
<1>1. PICK q \in OldRows : r = IF q.visibility = "private" THEN [q EXCEPT !.key = "key"] ELSE q
  BY DEF OldTables
<1>2. q = base \/ \E f \in DOMAIN values : \E x \in values[f] : q = [base EXCEPT ![f] = x]
  BY VariantOf DEF OldRows
<1>3. \/ q = base
      \/ q = [base EXCEPT !.visibility = "private"] \/ q = [base EXCEPT !.verifier = Null]
      \/ q = [base EXCEPT !.encrypted = FALSE] \/ q = [base EXCEPT !.exp = Hour]
      \/ q = [base EXCEPT !.purged = TRUE]
  <2>1. /\ DOMAIN values = {"visibility", "verifier", "encrypted", "exp", "purged"}
        /\ values["visibility"] = {"private"} /\ values["verifier"] = {Null}
        /\ values["encrypted"] = {FALSE} /\ values["exp"] = {Hour} /\ values["purged"] = {TRUE}
    OBVIOUS
  <2> HIDE DEF base, values
  <2> QED
    BY <1>2, <2>1
<1>4. /\ base \in Rows /\ Hour \in Nat
  BY Limits DEF Rows
<1>5. base.id = Old /\ base.visibility = "public"
  OBVIOUS
<1> HIDE DEF base, values
<1>6. q \in Rows /\ q.id = Old
  BY <1>3, <1>4, <1>5 DEF Rows
<1>7. "key" \in DOMAIN KeyBytes \ {""} /\ KeyBytes["key"] <= MaxKey /\ "key" # Null
  BY PolicyAssumption
<1>8. CASE q.visibility = "private"
  <2>1. r = [q EXCEPT !.key = "key"]
    BY <1>1, <1>8
  <2>2. r \in Rows /\ r.id = Old /\ r.key = "key"
    BY <1>6, <1>7, <2>1 DEF Rows
  <2> QED
    BY <1>7, <2>2 DEF RowRule
<1>9. CASE q.visibility # "private"
  BY <1>1, <1>6, <1>9 DEF RowRule
<1> QED
  BY <1>8, <1>9

-----------------------------------------------------------------------------
(* The invariant holds *)

\* An answer reaches a page that waits, and nothing of it but the handler.
LEMMA AnswersReport ==
  ASSUME NEW a, Answer(a)
  PROVE  /\ up' = NoUpload
         /\ \/ UNCHANGED page
            \/ /\ at = "waiting" /\ at' = "ready" /\ result' = a
               /\ UNCHANGED <<form, box, fd, blob, edits, token, notices>>
BY DEF Answer, Answered, Report

\* An upload that goes on to its next stage keeps its rule.
LEMMA Staged ==
  ASSUME Underway, NEW l \in {"claimed", "staged"}, up # NoUpload, Stage(l), source' = source
  PROVE  Underway'
<1>1. up \in Accepteds
  BY DEF Underway
<1>2. up' = [up EXCEPT !.stage = l]
  BY DEF Stage
<1>3. /\ up' \in Accepteds /\ up'.share = up.share /\ up'.proved = up.proved
      /\ up'.arrived = up.arrived /\ up'.size = up.size /\ up'.trailing = up.trailing
  BY <1>1, <1>2 DEF Accepteds
<1> QED
  BY <1>3 DEF Underway, Allowed

\* The invariant holds at the start.
LEMMA RequestsStart == Init => RequestsInv
<1> SUFFICES ASSUME Init PROVE RequestsInv
  OBVIOUS
<1>1. form \in Variants(Filled, FormValues) /\ notices \in BOOLEAN
  <2>1. Filled \in Variants(Filled, FormValues)
    BY DEF Variants
  <2> QED
    BY <2>1 DEF Init, PageInit, ClientInit
<1>2. PageInv
  <2>1. FormRule(form)
    BY <1>1, FilledIsAForm, FormsVary
  <2>2. at \in {"ready", "closed"}
    BY DEF Init, PageInit, ClientInit
  <2>3. fd = form /\ clip = {} /\ result = ""
    BY DEF Init
  <2> QED
    BY <1>1, <2>1, <2>2, <2>3 DEF PageInv
<1>3. SessionInv
  <2>1. CASE PageInit
    <3>1. /\ cookie \in {Guest, Admin} /\ live = {cookie} /\ token = cookie
          /\ notices = (cookie = Admin)
      BY <2>1 DEF PageInit
    <3> QED
      BY <3>1, SidsDiffer DEF SessionInv
  <2>2. CASE ClientInit
    BY <2>2, SidsDiffer DEF SessionInv, ClientInit
  <2> QED
    BY <2>1, <2>2 DEF Init
<1>4. StoreInv
  <2>1. now \in Nat /\ asked \in Seq([proved : BOOLEAN, arrived : Nat]) /\ Underway
    <3>1. now = 0 /\ asked = <<>> /\ up = NoUpload
      BY DEF Init
    <3>2. 0 \in Nat /\ <<>> \in Seq([proved : BOOLEAN, arrived : Nat])
      OBVIOUS
    <3> QED
      BY <3>1, <3>2 DEF Underway
  <2>2. \A r \in rows : RowRule(r, asked)
    <3>1. CASE PageInit
      BY <3>1 DEF PageInit
    <3>2. CASE ClientInit
      BY <3>2, OldRowsKeepTheRule DEF ClientInit
    <3> QED
      BY <3>1, <3>2 DEF Init
  <2> QED
    BY <2>1, <2>2 DEF StoreInv
<1>5. OwnFormRefusals
  BY DEF Init, OwnFormRefusals
<1> QED
  BY <1>2, <1>3, <1>4, <1>5 DEF RequestsInv

\* What a report keeps: it is one of those the page makes itself, or a reason.
Reasons(text) ==
  \/ text \in {"", "created", "storage cap reached", "store failed", "upload network error"}
  \/ text \in {"password required", "message too long", "no file", "error"}
  \/ text = "upload too large" /\ blob > MaxUpload
  \/ text = "csrf rejected" /\ (token \notin live \/ cookie # token)
  \/ text = "private key required" /\ fd.visibility = "private" /\ fd.key = ""
  \/ text = "metadata too large"
       /\ \/ fd.title > MaxTitle \/ FieldTooLarge(KeyBytes[fd.key])
          \/ fd.message.breaks > 0

\* OwnFormRefusals says that what is reported is one of the reasons.
LEMMA ReasonsAreListed == OwnFormRefusals <=> (source = "page" /\ at = "ready" => Reasons(result))
BY DEF OwnFormRefusals, Reasons

\* It is kept by a report for a reason, while session and form stay as they
\* are.
LEMMA ReportedForAReason ==
  ASSUME OwnFormRefusals, source' = source, UNCHANGED <<token, fd, blob, cookie, live>>,
         at' = "ready" => (at = "ready" /\ result' = result) \/ (source = "page" => Reasons(result'))
  PROVE  OwnFormRefusals'
<1> SUFFICES ASSUME source' = "page", at' = "ready" PROVE Reasons(result)'
  BY ReasonsAreListed DEF OwnFormRefusals, Reasons
<1>1. Reasons(result')
  BY ReasonsAreListed
<1> QED
  BY <1>1 DEF Reasons

\* The page goes on with its form: the table and the session are not its own.
LEMMA BrowseKeeps ==
  ASSUME RequestsInv, Browse
  PROVE  RequestsInv'
<1>1. PageStep /\ source' = source /\ now' = now /\ cookie' = cookie /\ live' = live
      /\ rows' = rows /\ up' = up /\ asked' = asked
  BY DEF Browse, world
<1>2. PageInv'
  BY <1>1, PageSteps DEF RequestsInv
<1>3. token' = token /\ notices' = notices
  BY <1>1 DEF PageStep, Edit, PickFiles, Paste, ErasePreviews, PressReadClipboard, ReadItem,
              EndRead, FailRead, Submit, ReadForm, Pack, FailToPack
<1>4. SessionInv'
  BY <1>1, <1>3 DEF RequestsInv, SessionInv
<1>5. StoreInv'
  BY <1>1 DEF RequestsInv, StoreInv, Underway
<1>6. OwnFormRefusals'
  <2>1. CASE fd' = fd /\ blob' = blob
    <3>1. at' = "ready" =>
            \/ at = "ready" /\ result' = result
            \/ result' \in {"password required", "message too long", "no file", "error"}
            \/ result' = "upload too large" /\ blob' > MaxUpload
      BY <1>1 DEF PageStep, Edit, PickFiles, Paste, ErasePreviews, PressReadClipboard, ReadItem,
                  EndRead, FailRead, Submit, ReadForm, Pack, FailToPack, Report
    <3> QED
      BY <1>1, <1>3, <2>1, <3>1, ReportedForAReason DEF RequestsInv, Reasons
  <2>3. CASE blob' # blob
    <3>1. Pack
      BY <1>1, <2>3 DEF PageStep, Edit, PickFiles, Paste, ErasePreviews, PressReadClipboard, ReadItem,
                        EndRead, FailRead, Submit, ReadForm, FailToPack
    <3>2. at' = "ready" => result' = "upload too large" /\ blob' > MaxUpload
      <4>1. PICK n \in {MinBlob, MaxUpload, MaxUpload + 1} :
              /\ blob' = n
              /\ IF n > MaxUpload THEN Report("upload too large")
                                  ELSE at' = "sending" /\ UNCHANGED result
        BY <3>1 DEF Pack
      <4> QED
        BY <4>1 DEF Report
    <3> QED
      BY <3>2 DEF OwnFormRefusals
  <2>2. CASE fd' # fd
    <3>1. at' = "packing"
      BY <1>1, <2>2 DEF PageStep, Edit, PickFiles, Paste, ErasePreviews, PressReadClipboard, ReadItem,
                        EndRead, FailRead, Submit, ReadForm, Pack, FailToPack
    <3> QED
      BY <3>1 DEF OwnFormRefusals
  <2> QED
    BY <2>1, <2>2, <2>3
<1> QED
  BY <1>2, <1>4, <1>5, <1>6 DEF RequestsInv

\* A step of the server that answers, or that leaves the page alone.
LEMMA AnsweredKeeps ==
  ASSUME RequestsInv, source' = source, UNCHANGED world,
         \/ UNCHANGED page
         \/ \E a : Answer(a) /\ (source = "page" => Reasons(a))
  PROVE  PageInv' /\ SessionInv' /\ OwnFormRefusals'
<1>1. CASE UNCHANGED page
  <2>1. PageInv'
    BY <1>1, PageStays DEF RequestsInv
  <2>2. SessionInv'
    BY <1>1 DEF RequestsInv, SessionInv, page, world
  <2>3. OwnFormRefusals'
    BY <1>1 DEF RequestsInv, OwnFormRefusals, page, world
  <2> QED
    BY <2>1, <2>2, <2>3
<1>2. CASE ~UNCHANGED page
  <2> PICK a : Answer(a) /\ (source = "page" => Reasons(a))
    BY <1>2
  <2>1. /\ at' = "ready" /\ result' = a
        /\ UNCHANGED <<form, box, fd, blob, edits, token, notices>>
    BY <1>2, AnswersReport
  <2>2. PageInv'
    BY <2>1, PageReports DEF RequestsInv
  <2>3. SessionInv'
    BY <2>1 DEF RequestsInv, SessionInv, world
  <2>4. OwnFormRefusals'
    BY <1>2, <2>1, ReportedForAReason DEF RequestsInv, world
  <2> QED
    BY <2>2, <2>3, <2>4
<1> QED
  BY <1>1, <1>2

\* A request that arrives, or is refused or lost, keeps the invariant.
LEMMA ReceivedKeeps ==
  ASSUME RequestsInv, ReceiveFromClient \/ ReceiveFromPage \/ LoseConnection
  PROVE  RequestsInv'
<1>1. /\ source' = source /\ world' = world /\ rows' = rows /\ asked' = asked
      /\ now' = now /\ cookie' = cookie /\ live' = live
  BY DEF ReceiveFromClient, ReceiveFromPage, LoseConnection, world
<1>2. live \in SUBSET Sids /\ cookie \in Sids /\ now \in Nat
  BY DEF RequestsInv, SessionInv, StoreInv
<1>3. CASE ReceiveFromClient
  <2>1. PICK r \in Requests : Verdict(r) = Passed /\ up' = Accepted(r, FALSE)
    BY <1>3 DEF ReceiveFromClient
  <2>2. r \in UploadRequest /\ FALSE \in BOOLEAN
    BY ClientsRequests
  <2>3. source # "page" /\ UNCHANGED page
    BY <1>3 DEF ReceiveFromClient
  <2>4. Underway'
    BY <1>1, <1>2, <2>1, <2>2, <2>3, PassedIsAllowed DEF Underway, Allowed
  <2>5. StoreInv'
    BY <1>1, <2>4 DEF RequestsInv, StoreInv
  <2> QED
    BY <1>1, <2>3, <2>5, AnsweredKeeps DEF RequestsInv
<1>4. CASE ReceiveFromPage
  <2> DEFINE r == Outgoing(cookie)
  <2>1. source = "page" /\ at = "sending" /\ PageInv /\ SessionInv /\ OwnFormRefusals
    BY <1>4 DEF ReceiveFromPage, RequestsInv
  <2>2. CASE Verdict(r) = Passed
    <3>1. Posted /\ up' = Accepted(r, TRUE)
      BY <1>4, <2>2 DEF ReceiveFromPage
    <3>2. at' = "waiting" /\ UNCHANGED <<form, box, fd, blob, result, edits, token, notices>>
      BY <3>1 DEF Posted
    <3>3. PageInv'
      BY <2>1, <3>2 DEF PageInv, box, FormRule
    <3>4. SessionInv'
      BY <1>1, <2>1, <3>2 DEF SessionInv
    <3>5. OwnFormRefusals'
      BY <3>2 DEF OwnFormRefusals
    <3>6. blob \in MinBlob..MaxUpload
      BY <2>1 DEF PageInv
    <3>7. r \in UploadRequest /\ TRUE \in BOOLEAN
      <4>1. blob \in Int
        BY <3>6, Limits
      <4>2. token \in Sids
        BY <2>1 DEF SessionInv, Sids
      <4> QED
        BY <1>2, <2>1, <4>1, <4>2, PagesRequest
    <3>8. r.size \in MinBlob..MaxUpload /\ ~r.trailing
      <4>1. r.size = blob /\ ~r.trailing
        BY DEF Outgoing
      <4> QED
        BY <3>6, <4>1, Limits
    <3> HIDE DEF r
    <3>9. Underway'
      BY <1>1, <1>2, <2>2, <3>1, <3>7, <3>8, PassedIsAllowed DEF Underway, Allowed
    <3>10. StoreInv'
      BY <1>1, <3>9 DEF RequestsInv, StoreInv
    <3> QED
      BY <3>3, <3>4, <3>5, <3>10 DEF RequestsInv
  <2>3. CASE Verdict(r) # Passed
    <3>1. /\ at' = "ready" /\ result' = Verdict(r)
          /\ UNCHANGED <<form, box, fd, blob, edits, token, notices, up>>
      BY <1>4, <2>3 DEF ReceiveFromPage
    <3>2. PageInv'
      BY <2>1, <3>1, PageReports
    <3>3. SessionInv'
      BY <1>1, <2>1, <3>1 DEF SessionInv
    <3>4. StoreInv'
      BY <1>1, <3>1 DEF RequestsInv, StoreInv, Underway
    <3>5. Reasons(Verdict(r))
      BY <2>1, <2>3, OwnRefusals DEF Reasons
    <3>6. OwnFormRefusals'
      BY <1>1, <2>1, <3>1, <3>5, ReportedForAReason
    <3> QED
      BY <3>2, <3>3, <3>4, <3>6 DEF RequestsInv
  <2> QED
    BY <2>2, <2>3
<1>5. CASE LoseConnection
  <2>1. /\ at' = "ready" /\ result' = "upload network error"
        /\ UNCHANGED <<form, box, fd, blob, edits, token, notices, up>>
    BY <1>5 DEF LoseConnection, Report
  <2>2. PageInv'
    BY <2>1, PageReports DEF RequestsInv
  <2>3. SessionInv'
    BY <1>1, <2>1 DEF RequestsInv, SessionInv
  <2>4. StoreInv'
    BY <1>1, <2>1 DEF RequestsInv, StoreInv, Underway
  <2>5. OwnFormRefusals'
    BY <1>1, <2>1, ReportedForAReason DEF RequestsInv, Reasons
  <2> QED
    BY <2>2, <2>3, <2>4, <2>5 DEF RequestsInv
<1> QED
  BY <1>3, <1>4, <1>5

\* So do the steps of Do.
LEMMA ServedKeeps ==
  ASSUME RequestsInv, Claim \/ StageBody \/ Publish
  PROVE  RequestsInv'
<1> DEFINE Rejections == {"storage cap reached", "store failed", "created"}
<1>1. source' = source /\ world' = world /\ now' = now /\ up # NoUpload
  <2>1. up.stage \in {"accepted", "claimed", "staged"} /\ NoUpload.stage = "none"
    BY DEF Claim, StageBody, Publish, NoUpload
  <2>2. source' = source /\ world' = world
    BY DEF Claim, StageBody, Publish
  <2> QED
    BY <2>1, <2>2 DEF world
<1>2. /\ PageInv /\ SessionInv /\ StoreInv /\ OwnFormRefusals
      /\ Underway /\ asked \in Seq([proved : BOOLEAN, arrived : Nat]) /\ now \in Nat
      /\ \A r \in rows : RowRule(r, asked)
  BY DEF RequestsInv, StoreInv
<1>3. up \in Accepteds /\ (source = "page" => up.size \in MinBlob..MaxUpload /\ ~up.trailing)
  BY <1>1, <1>2 DEF Underway
<1>4. \A a \in Rejections : Reasons(a)
  BY DEF Reasons
<1>5. NoUpload = NoUpload /\ (up' = NoUpload => Underway')
  BY DEF Underway, NoUpload
<1>6. ASSUME source' = source, asked' = asked, rows' \subseteq rows, Underway' PROVE StoreInv'
  BY <1>1, <1>2, <1>6 DEF StoreInv
<1>7. CASE Claim
  <2>1. rows' \subseteq rows /\ asked' = asked
    BY <1>7 DEF Claim, Purge
  <2>2. CASE Stage("claimed") /\ UNCHANGED page
    <3>1. Underway'
      BY <1>1, <1>2, <2>2, Staged
    <3> QED
      BY <1>1, <1>6, <2>1, <2>2, <3>1, AnsweredKeeps DEF RequestsInv
  <2>3. ASSUME NEW a \in {"storage cap reached", "store failed"}, Answer(a) PROVE RequestsInv'
    <3>1. Underway'
      BY <1>5, <2>3, AnswersReport
    <3> QED
      BY <1>1, <1>4, <1>6, <2>1, <2>3, <3>1, AnsweredKeeps DEF RequestsInv
  <2> QED
    BY <1>7, <2>2, <2>3 DEF Claim
<1>8. CASE StageBody
  <2>1. rows' = rows /\ asked' = asked
    BY <1>8 DEF StageBody
  <2>2. CASE Stage("staged") /\ UNCHANGED page
    <3>1. Underway'
      BY <1>1, <1>2, <2>2, Staged
    <3> QED
      BY <1>1, <1>6, <2>1, <2>2, <3>1, AnsweredKeeps DEF RequestsInv
  <2>3. ASSUME NEW a, Answer(a), source = "page" => Reasons(a) PROVE RequestsInv'
    <3>1. Underway'
      BY <1>5, <2>3, AnswersReport
    <3> QED
      BY <1>1, <1>6, <2>1, <2>3, <3>1, AnsweredKeeps DEF RequestsInv
  <2>4. \/ Stage("staged") /\ UNCHANGED page
        \/ \E a \in Rejections : Answer(a)
        \/ up.size > MaxUpload /\ Answer("upload too large")
        \/ PartFollows /\ Answer("bad upload")
        \/ up.size < MinBlob /\ Answer("invalid encryption mode")
    BY <1>8 DEF StageBody
  <2>5. PartFollows => source # "page"
    BY <1>3 DEF PartFollows
  <2>6. up.size < MinBlob \/ up.size > MaxUpload => source # "page"
    <3>1. up.size \in Int
      BY <1>3 DEF Accepteds
    <3> QED
      BY <1>3, <3>1, Limits
  <2> QED
    BY <1>4, <2>2, <2>3, <2>4, <2>5, <2>6
<1>9. CASE Publish
  <2> DEFINE a == [proved |-> up.proved, arrived |-> up.arrived]
  <2>1. PICK left \in Purge(rows) :
          \/ /\ rows' = left /\ UNCHANGED asked
             /\ \E e \in {"storage cap reached", "store failed"} : Answer(e)
          \/ /\ asked' = Append(asked, a)
             /\ rows' = left \cup {RowOf([up.share EXCEPT !.id = Len(asked')], now)}
             /\ Answer("created")
    BY <1>9 DEF Publish
  <2>2. left \subseteq rows
    BY DEF Purge
  <2>3. \E e \in Rejections : Answer(e)
    BY <2>1
  <2>4. Underway'
    BY <1>5, <2>3, AnswersReport
  <2>5. PageInv' /\ SessionInv' /\ OwnFormRefusals'
    BY <1>1, <1>4, <2>3, AnsweredKeeps
  <2>6. CASE rows' = left /\ asked' = asked
    BY <1>1, <1>6, <2>2, <2>4, <2>5, <2>6 DEF RequestsInv
  <2>7. CASE /\ asked' = Append(asked, a)
             /\ rows' = left \cup {RowOf([up.share EXCEPT !.id = Len(asked')], now)}
    <3>1. /\ a \in [proved : BOOLEAN, arrived : Nat]
          /\ RowRule(RowOf([up.share EXCEPT !.id = Len(asked')], now), asked')
      BY <1>1, <1>2, <2>7, RowsAreStoredAsAllowed
    <3> HIDE DEF a
    <3>2. asked' \in Seq([proved : BOOLEAN, arrived : Nat])
      BY <1>2, <2>7, <3>1
    <3>3. \A r \in left : RowRule(r, asked')
      BY <1>2, <2>2, <2>7, <3>1, RowsKept
    <3>4. \A r \in rows' : RowRule(r, asked')
      BY <2>7, <3>1, <3>3
    <3>5. StoreInv'
      BY <1>1, <1>2, <2>4, <3>2, <3>4 DEF StoreInv, RowRule
    <3> QED
      BY <2>5, <3>5 DEF RequestsInv
  <2> QED
    BY <2>1, <2>6, <2>7
<1> QED
  BY <1>7, <1>8, <1>9

\* So do the clock, the purges and what other tabs do to the session.
LEMMA WorldKeeps ==
  ASSUME RequestsInv, Tick \/ PurgeExpired \/ EndSession \/ NewSession \/ Login
  PROVE  RequestsInv'
<1>1. /\ source' = source /\ UNCHANGED page /\ up' = up /\ asked' = asked
      /\ PageInv /\ SessionInv /\ StoreInv /\ OwnFormRefusals
  BY DEF RequestsInv, Tick, PurgeExpired, EndSession, NewSession, Login
<1>2. PageInv'
  BY <1>1, PageStays
<1>3. /\ at' = at /\ result' = result /\ fd' = fd /\ token' = token /\ notices' = notices
      /\ blob' = blob
  BY <1>1 DEF page
<1>4. rows' \subseteq rows
  BY DEF Tick, PurgeExpired, Purge, EndSession, NewSession, Login
<1>5. now' \in Nat
  BY <1>1 DEF StoreInv, Tick, PurgeExpired, EndSession, NewSession, Login, world
<1>6. StoreInv'
  BY <1>1, <1>4, <1>5 DEF StoreInv, Underway
<1>7. CASE Tick \/ PurgeExpired
  <2>1. live' = live /\ cookie' = cookie
    BY <1>7 DEF Tick, PurgeExpired, world
  <2> QED
    BY <1>1, <1>2, <1>3, <1>6, <2>1 DEF RequestsInv, SessionInv, OwnFormRefusals
<1>8. CASE EndSession
  <2>1. live' \subseteq live /\ cookie' = cookie
    BY <1>8 DEF EndSession
  <2> QED
    BY <1>1, <1>2, <1>3, <1>6, <2>1 DEF RequestsInv, SessionInv, OwnFormRefusals
<1>9. CASE NewSession
  <2>1. cookie' = Later /\ live' = live \cup {Later} /\ source' = source
    BY <1>9 DEF NewSession
  <2>2. SessionInv'
    BY <1>1, <1>3, <2>1, SidsDiffer DEF SessionInv
  <2>3. OwnFormRefusals'
    BY <1>1, <1>3, <2>1, SidsDiffer DEF OwnFormRefusals, SessionInv
  <2> QED
    BY <1>2, <1>6, <2>2, <2>3 DEF RequestsInv
<1>10. CASE Login
  <2>1. cookie = Guest /\ cookie' = Admin /\ live' = (live \ {Guest}) \cup {Admin} /\ source' = source
    BY <1>10 DEF Login
  <2>2. source = "page" => token = Guest
    BY <1>1, <2>1 DEF SessionInv
  <2>3. SessionInv'
    BY <1>1, <1>3, <2>1, <2>2, SidsDiffer DEF SessionInv
  <2>4. OwnFormRefusals'
    BY <1>1, <1>3, <2>1, <2>2, SidsDiffer DEF OwnFormRefusals
  <2> QED
    BY <1>2, <1>6, <2>3, <2>4 DEF RequestsInv
<1> QED
  BY <1>7, <1>8, <1>9, <1>10

\* Every step keeps the page's rules, the order of its sessions, and what the
\* upload under way and the rows were allowed.
THEOREM RequestsInvariant == Spec => []RequestsInv
<1>1. ASSUME RequestsInv, UNCHANGED vars PROVE RequestsInv'
  <2>1. UNCHANGED page /\ UNCHANGED world /\ source' = source
    BY <1>1 DEF vars
  <2>2. PageInv' /\ SessionInv' /\ OwnFormRefusals'
    BY <1>1, <2>1, AnsweredKeeps
  <2>3. StoreInv'
    BY <1>1, <2>1 DEF RequestsInv, vars, world, StoreInv, Underway
  <2> QED
    BY <2>2, <2>3 DEF RequestsInv
<1>2. RequestsInv /\ [Next]_vars => RequestsInv'
  BY <1>1, BrowseKeeps, ReceivedKeeps, ServedKeeps, WorldKeeps DEF Next
<1> QED
  BY <1>2, RequestsStart, PTL DEF Spec

-----------------------------------------------------------------------------
(* What it says of the properties *)

\* What is stored was allowed: a notice, or a life beyond a guest's, goes back to
\* a request with the cookie and the token of a live admin's session
\* (handlers.go:172-181, upload.go:105, 127).  The session may end while the body
\* arrives: what counts is the instant of the request.
THEOREM StoredWasAllowed == Spec => []StoredAsAllowed
<1>1. RequestsInv => StoredAsAllowed
  <2> SUFFICES ASSUME RequestsInv, NEW r \in rows, r.id # Old
               PROVE  LET a == asked[r.id] IN
                      /\ r.notice => a.proved
                      /\ r.exp # Null
                      /\ r.exp <= a.arrived + Hour * (IF a.proved THEN AdminHours ELSE GuestHours)
                      /\ Protected(r) /\ (r.visibility = "private" <=> r.key # Null)
    BY DEF StoredAsAllowed
  <2>1. /\ Allowed(r, asked[r.id].proved, asked[r.id].arrived)
        /\ Protected(r) /\ (r.visibility = "private" <=> r.key # Null)
    BY DEF RequestsInv, StoreInv, RowRule
  <2>2. Null \notin Int
    BY StoreAssumption
  <2>3. r.exp # Null
    BY <2>1, <2>2 DEF Allowed
  <2> QED
    BY <2>1, <2>3 DEF Allowed
<1> QED
  BY <1>1, RequestsInvariant, PTL

\* The server refuses the page's own form for the named reasons only: the page
\* checks enough for all others (upload.js:398-432), however the visitor edits
\* the form and whatever becomes of the session meanwhile.
THEOREM OwnFormRefusedForAReason == Spec => []OwnFormRefusals
<1>1. RequestsInv => OwnFormRefusals
  BY DEF RequestsInv
<1> QED
  BY <1>1, RequestsInvariant, PTL

\* A listing at t of some rows out of rs: the active ones of them, by their
\* text, the newest.
LEMMA NewestFollow ==
  ASSUME NEW rs, NEW t \in Nat, \A r \in rs : r \in Rows,
         NEW l \in Newest({r \in rs : Active(r, t) /\ Protected(r)})
  PROVE  Follows(l, rs, t)
<1> DEFINE all == {r \in rs : Active(r, t) /\ Protected(r)}
<1>1. l \subseteq all /\ (l = all \/ Cardinality(l) = ListLimit)
  BY DEF Newest
<1>2. ASSUME NEW r \in rs
      PROVE  /\ Active(r, t) => IsActive(FromEnt(r), t) \/ SameSecond(r, t)
             /\ IsActive(FromEnt(r), t) /\ ~SameSecond(r, t) => Active(r, t)
  <2>1. r.exp \in {Null} \cup Nat /\ r.purged \in BOOLEAN
    BY <1>2 DEF Rows
  <2>2. FromEnt(r).exp = r.exp /\ FromEnt(r).purged = r.purged
    BY <1>2 DEF FromEnt, Rows
  <2>3. CASE r.exp = Null
    BY <2>1, <2>2, <2>3 DEF Active, IsActive, IsExpired
  <2>4. CASE r.exp # Null
    <3>1. r.exp \in Int /\ t \in Int
      BY <2>1, <2>4
    <3>2. Second(r.exp) \in Int /\ Second(t) \in Int
      BY <3>1, EncodedStart
    <3>3. CASE Second(r.exp) = Second(t)
      BY <2>4, <3>3 DEF SameSecond
    <3>4. CASE Second(t) < Second(r.exp)
      <4>1. TextBefore(t, r.exp)
        BY <3>1, <3>4, TextOrdersSeconds
      <4>2. ~(r.exp <= t)
        BY <3>1, <3>2, <3>4, SecondsAreOrdered
      <4> QED
        BY <2>1, <2>2, <4>1, <4>2 DEF Active, IsActive, IsExpired
    <3>5. CASE Second(r.exp) < Second(t)
      <4>1. ~TextBefore(t, r.exp)
        BY <3>1, <3>5, TextOrdersSeconds
      <4>2. r.exp <= t
        BY <3>1, <3>2, <3>5, SecondsAreOrdered
      <4> QED
        BY <2>1, <2>2, <2>4, <4>1, <4>2 DEF Active, IsActive, IsExpired
    <3> QED
      BY <3>2, <3>3, <3>4, <3>5
  <2> QED
    BY <2>3, <2>4
<1>3. \A r \in l : r \in rs /\ (IsActive(FromEnt(r), t) \/ SameSecond(r, t))
  BY <1>1, <1>2
<1>4. \A r \in rs \ l :
        ~Protected(r) \/ ~IsActive(FromEnt(r), t) \/ SameSecond(r, t) \/ Cardinality(l) = ListLimit
  BY <1>1, <1>2
<1> QED
  BY <1>3, <1>4 DEF Follows

\* Listings show what the share page would serve, and a key that was good enough
\* to upload with is accepted to look up with (handlers.go:26-27, 144): the order
\* of two timestamps as text is the order of their seconds.
THEOREM ListingsFollow == Spec => []ListingsFollowTheRule
<1>1. RequestsInv => ListingsFollowTheRule
  <2> SUFFICES ASSUME RequestsInv PROVE ListingsFollowTheRule
    OBVIOUS
  <2>1. now \in Nat /\ \A r \in rows : RowRule(r, asked) /\ r \in Rows
    BY DEF RequestsInv, StoreInv, RowRule
  <2>2. Null \notin DOMAIN KeyBytes
    BY PolicyAssumption
  <2> SUFFICES ASSUME NEW t \in 0..now
               PROVE  /\ \A l \in ListPublic(rows, t) :
                           Follows(l, {r \in rows : r.visibility = "public"}, t)
                      /\ \A k \in DOMAIN KeyBytes \ {""} : \A l \in ListByKey(rows, t, k) :
                           Follows(l, {r \in rows : r.visibility = "private" /\ FromEnt(r).key = k}, t)
                      /\ \A r \in rows :
                           r.visibility = "private" => LookupAccepts(KeyBytes[FromEnt(r).key])
    BY DEF ListingsFollowTheRule
  <2>3. t \in Nat
    BY <2>1
  <2>4. ASSUME NEW l \in ListPublic(rows, t)
        PROVE  Follows(l, {r \in rows : r.visibility = "public"}, t)
    <3> DEFINE rs == {r \in rows : r.visibility = "public"}
    <3>1. {r \in rows : Active(r, t) /\ r.visibility = "public" /\ Protected(r)}
            = {r \in rs : Active(r, t) /\ Protected(r)}
      OBVIOUS
    <3>2. l \in Newest({r \in rs : Active(r, t) /\ Protected(r)})
      BY <2>4, <3>1 DEF ListPublic
    <3> QED
      BY <2>1, <2>3, <3>2, NewestFollow
  <2>5. \A r \in rows : \A k \in DOMAIN KeyBytes \ {""} : FromEnt(r).key = k <=> r.key = k
    <3> SUFFICES ASSUME NEW r \in rows, NEW k \in DOMAIN KeyBytes \ {""}
                 PROVE  FromEnt(r).key = k <=> r.key = k
      OBVIOUS
    <3>1. r \in Rows
      BY <2>1
    <3>2. FromEnt(r).key = EmptyIfNil(r.key)
      BY <3>1 DEF FromEnt, Rows
    <3> QED
      BY <2>2, <3>2 DEF EmptyIfNil
  <2>6. ASSUME NEW k \in DOMAIN KeyBytes \ {""}, NEW l \in ListByKey(rows, t, k)
        PROVE  Follows(l, {r \in rows : r.visibility = "private" /\ FromEnt(r).key = k}, t)
    <3> DEFINE rs == {r \in rows : r.visibility = "private" /\ FromEnt(r).key = k}
    <3>1. {r \in rows : Active(r, t) /\ r.visibility = "private" /\ r.key = k /\ Protected(r)}
            = {r \in rs : Active(r, t) /\ Protected(r)}
      BY <2>5
    <3>2. l \in Newest({r \in rs : Active(r, t) /\ Protected(r)})
      BY <2>6, <3>1 DEF ListByKey
    <3> QED
      BY <2>1, <2>3, <3>2, NewestFollow
  <2>7. ASSUME NEW r \in rows, r.visibility = "private"
        PROVE  LookupAccepts(KeyBytes[FromEnt(r).key])
    <3>1. r.key # Null /\ KeyBytes[r.key] <= MaxKey /\ r.key \in {Null} \cup (DOMAIN KeyBytes \ {""})
      BY <2>1, <2>7 DEF RowRule, Rows
    <3>2. r.key \in DOMAIN KeyBytes /\ r.key # ""
      BY <3>1
    <3>3. FromEnt(r).key = r.key
      BY <2>5, <3>2
    <3>4. KeyBytes[r.key] \in Nat /\ KeyBytes[r.key] # 0
      BY <3>2, PolicyAssumption
    <3>5. KeyBytes[r.key] > 0
      BY <3>4
    <3> QED
      BY <3>1, <3>3, <3>5 DEF LookupAccepts
  <2> QED
    BY <2>4, <2>6, <2>7
<1> QED
  BY <1>1, RequestsInvariant, PTL

\* The clipboard box shows what an upload would take with it and no more, except
\* after a read of the clipboard was begun (shown, not sent), and while one is
\* pending, has failed, or a preview was erased (sent, not shown): in upload.js,
\* whoever sets the one list shows it, but clip.onclick empties and fills it.
THEOREM PreviewsAreUploaded == Spec => []PreviewsUploaded
<1>1. Init => PreviewsUploaded
  BY DEF Init, PreviewsUploaded
<1>2. ASSUME PreviewsUploaded, PageStep PROVE PreviewsUploaded'
  <2>1. CASE Paste
    BY <2>1 DEF PreviewsUploaded, Paste, Preview
  <2>2. CASE EndRead
    <3>1. CASE clip # {}
      BY <2>2, <3>1 DEF PreviewsUploaded, EndRead, Preview
    <3>2. CASE clip = {}
      BY <1>2, <2>2, <3>2 DEF PreviewsUploaded, EndRead
    <3> QED
      BY <3>1, <3>2
  <2>3. CASE PressReadClipboard
    BY <2>3 DEF PreviewsUploaded, PressReadClipboard
  <2>4. CASE FailRead
    BY <1>2, <2>4 DEF PreviewsUploaded, FailRead
  <2>5. ASSUME NEW fs, Erase(fs), clip' = clip, reads' = reads PROVE PreviewsUploaded'
    BY <1>2, <2>5 DEF PreviewsUploaded, Erase
  <2>6. CASE ErasePreviews
    BY <2>5, <2>6 DEF ErasePreviews
  <2>7. CASE ReadItem
    <3>1. CASE \E f \in Files : clip' = clip \cup {f} /\ UNCHANGED <<form, previews, since>>
      BY <1>2, <2>7, <3>1 DEF PreviewsUploaded, ReadItem
    <3>2. CASE clip' = clip /\ \E fs \in SUBSET Files : Erase(fs)
      BY <2>5, <2>7, <3>2 DEF ReadItem
    <3> QED
      BY <2>7, <3>1, <3>2 DEF ReadItem
  <2>8. CASE Edit \/ PickFiles \/ Submit \/ ReadForm \/ Pack \/ FailToPack
    BY <1>2, <2>8 DEF PreviewsUploaded, Edit, PickFiles, Submit, ReadForm, Pack, FailToPack, box
  <2> QED
    BY <1>2, <2>1, <2>2, <2>3, <2>4, <2>6, <2>7, <2>8 DEF PageStep
<1>3. ASSUME PreviewsUploaded, Next, ~Browse PROVE PreviewsUploaded'
  <2>1. box' = box
    <3>1. CASE Claim \/ StageBody \/ Publish
      <4>1. (\E a : Answer(a)) \/ UNCHANGED page
        BY <3>1 DEF Claim, StageBody, Publish
      <4> QED
        BY <4>1, AnswersReport DEF page
    <3>2. CASE ~(Claim \/ StageBody \/ Publish)
      BY <1>3, <3>2 DEF Next, LoseConnection, ReceiveFromClient, ReceiveFromPage, Posted, Tick,
                        PurgeExpired, EndSession, NewSession, Login, page
    <3> QED
      BY <3>1, <3>2
  <2> QED
    BY <1>3, <2>1 DEF PreviewsUploaded, box
<1>4. PreviewsUploaded /\ UNCHANGED vars => PreviewsUploaded'
  BY DEF PreviewsUploaded, vars, page, box
<1>5. PreviewsUploaded /\ [Next]_vars => PreviewsUploaded'
  BY <1>2, <1>3, <1>4 DEF Browse
<1> QED
  BY <1>1, <1>5, PTL DEF Spec
=============================================================================
