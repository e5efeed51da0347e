---------------------------- MODULE UploadPolicy ----------------------------
(***************************************************************************)
(* What POST /api/v0/upload asks of a request before it stores anything:  *)
(* apiUploadPost, uploadParts and the validation at the head of           *)
(* Uploader.Do.  A request is a record of what these checks look at;      *)
(* texts are their lengths in bytes, where only that matters.             *)
(*                                                                        *)
(* Each group of checks is a sequence of refusals in the order of the     *)
(* code, and the first one that applies is the answer.                    *)
(***************************************************************************)
EXTENDS ShareStore

CONSTANTS
  FieldLimit,    \* maxUploadFieldBytes
  MaxTitle,      \* maxTitleBytes
  MaxMessage,    \* MaxAdminMessageBytes
  KeyBytes,      \* the length of every private key
  Hour,          \* in ticks, whole seconds
  DefaultHours,  \* 6
  GuestHours,    \* 24
  AdminHours     \* 24 * 90

\* A field ends below FieldLimit, and a key as long as that can be looked up.
ASSUME PolicyAssumption ==
  /\ Hour \in Nat \ {0} /\ Hour % TicksPerSecond = 0
  /\ {DefaultHours, GuestHours, AdminHours} \subseteq Nat \ {0}
  /\ DefaultHours <= GuestHours /\ GuestHours <= AdminHours
  /\ {FieldLimit, MaxTitle, MaxMessage} \subseteq Nat
  /\ MaxTitle < FieldLimit /\ MaxMessage < FieldLimit /\ FieldLimit <= MaxKey + 1
  /\ {"", "key"} \subseteq DOMAIN KeyBytes /\ Null \notin DOMAIN KeyBytes \cup {"valid"}
  /\ KeyBytes \in [DOMAIN KeyBytes -> Nat] /\ KeyBytes["key"] <= MaxKey
  /\ \A k \in DOMAIN KeyBytes : KeyBytes[k] = 0 <=> k = ""

Passed == "passed"
Refusal(condition, answer) == [applies |-> condition, answer |-> answer]

FirstOf(refusals) ==
  LET hits == {n \in DOMAIN refusals : refusals[n].applies}
  IN  IF hits = {} THEN Passed
      ELSE refusals[CHOOSE n \in hits : \A m \in hits : n <= m].answer

\* Mutated form of IsAdmin: the cookie alone makes an admin.
AdminByCookie(r, session) == session.admin

\* A browser admin opts in by presenting the CSRF token of its session.
IsAdmin(r, session) == r.token # Null /\ session.admin

\* session is CurrentSession, a record whose csrf is Null when there is none.
Gate(r, session) == FirstOf(<<
  Refusal(~r.secure, "HTTPS required"),
  Refusal(r.token # Null /\ (session.csrf = Null \/ r.token # session.csrf), "csrf rejected"),
  Refusal(~r.multipart, "multipart upload required")>>)

\* uploadParts reads at most the limit of a field.
FieldTooLarge(bytes) == bytes >= FieldLimit

\* uploadParts.  Of an unexpected part and a field that is too large, either
\* may come first; here the former does.
Parts(r) == FirstOf(<<
  Refusal(r.parts = "unexpected", "bad upload"),
  Refusal(\E n \in {r.title, KeyBytes[r.key], r.message.bytes} : FieldTooLarge(n),
          "metadata too large"),
  Refusal(r.parts = "no blob", "missing blob")>>)

HasNotice(r) == r.warning = "1" \/ ~r.message.blank

\* Uploader.Do, up to line 136.
Policy(r, admin) == FirstOf(<<
  Refusal(r.title > MaxTitle \/ r.message.bytes > MaxMessage \/ r.verifier = "long",
          "metadata too large"),
  Refusal(r.warning \notin {"", "0", "1"}, "bad upload"),
  Refusal(~admin /\ HasNotice(r), "admin required"),
  Refusal(~r.encrypted \/ ~r.cipher, "invalid encryption mode"),
  Refusal(r.verifier = "", "download password hash required"),
  Refusal(r.verifier = "invalid", "invalid password hash"),
  Refusal(r.visibility = "private" /\ r.key = "", "private key required")>>)

\* The expiry: a default for what is no number of hours, and a limit by sender.
Hours(r, admin) ==
  LET asked == IF r.hours <= 0 THEN DefaultHours ELSE r.hours
      most  == IF admin THEN AdminHours ELSE GuestHours
  IN  IF asked > most THEN most ELSE asked

Visibility(r) == IF r.visibility = "private" THEN "private" ELSE "public"

\* The share Do means to store, its expiry counted from t; its id is not drawn
\* before the body arrives.
ShareOf(r, admin, t) ==
  [id         |-> Null,
   visibility |-> Visibility(r),
   key        |-> IF Visibility(r) = "private" THEN r.key ELSE "",
   verifier   |-> r.verifier,
   encrypted  |-> TRUE,
   notice     |-> HasNotice(r),
   exp        |-> t + Hour * Hours(r, admin),
   created    |-> t,
   purged     |-> FALSE]
=============================================================================
