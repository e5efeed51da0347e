----------------------------- MODULE UploadPage -----------------------------
(***************************************************************************)
(* web/static/js/upload.js: the upload form, the clipboard box, and the   *)
(* submit handler, which reads the form after an await and sends what it  *)
(* read after two more.  The visitor goes on editing in between.          *)
(*                                                                        *)
(* How a password is settled and how progress is drawn are the business   *)
(* of SharePage and Progress.                                             *)
(***************************************************************************)
EXTENDS UploadPolicy

CONSTANTS
  Files,       \* what a visitor may pick or paste
  NameBytes,   \* the length of a file's base name
  TextFile,    \* the file the typed text becomes
  MinBlob,     \* bytes of an encrypted empty archive: 16
  MaxUpload,   \* MaxUploadBytes, of the server and of the page
  MaxEdits     \* bound on the visitor's acts once the form is filled in

ASSUME PageAssumption ==
  /\ {MinBlob, MaxUpload, MaxEdits} \subseteq Nat /\ MinBlob <= MaxUpload
  /\ TextFile \notin Files /\ NameBytes \in [Files \cup {TextFile} -> Nat]

VARIABLES
  form,      \* the fields, as the visitor sees them
  clip,      \* clipFiles
  previews,  \* the files shown in the clipboard box
  since,     \* history: what happened since the box last showed clipFiles:
             \* "emptied" (the list), "failed" (a read), "erased" (a preview)
  reads,     \* reads of the clipboard that are pending
  at,        \* where the submit handler is; "ready" when the button is enabled
  fd,        \* what the handler read from the form
  blob,      \* the size of the encrypted archive
  result,    \* the text under the form
  edits,
  token,     \* the CSRF token the page was rendered with
  notices    \* it was rendered for an admin, with the fields for notices

box  == <<clip, previews, since, reads>>
page == <<form, box, at, fd, blob, result, edits, token, notices>>

Message(bytes, breaks, blank) == [bytes |-> bytes, breaks |-> breaks, blank |-> blank]
NoMessage == Message(0, 0, TRUE)

\* A form a visitor has filled in, and what each field may hold.
Filled ==
  [title |-> 5, visibility |-> "private", key |-> "key", hours |-> DefaultHours,
   warning |-> FALSE, message |-> NoMessage, password |-> TRUE, picked |-> {}, text |-> TRUE]

FormValues ==
  [title      |-> {0, MaxTitle + 1},
   visibility |-> {"public"},
   key        |-> DOMAIN KeyBytes,
   hours      |-> {h \in {GuestHours, AdminHours} : notices \/ h <= GuestHours},
   warning    |-> {notices},
   message    |-> IF notices
                    THEN {Message(1, 1, TRUE), Message(MaxMessage, 0, FALSE),
                          Message(MaxMessage, 1, FALSE), Message(MaxMessage + 1, 0, FALSE)}
                    ELSE {NoMessage},
   password   |-> {FALSE},
   picked     |-> SUBSET Files,
   text       |-> {FALSE}]

\* The records that differ from base in at most one field, taken from values.
Variants(base, values) ==
  {base} \cup UNION {{[base EXCEPT ![f] = v] : v \in values[f]} : f \in DOMAIN values}

\* An act of the visitor, before the form is answered.
Act == edits < MaxEdits /\ result = "" /\ edits' = edits + 1

TitledBy(f) == IF form.title = 0 THEN NameBytes[f] ELSE form.title

-----------------------------------------------------------------------------
(* The visitor *)

\* Picked and dropped files give the form a title if it has none.
Edit ==
  /\ Act
  /\ form' \in Variants(form, FormValues) \ {form}
  /\ form'.picked = form.picked
  /\ UNCHANGED <<box, at, fd, blob, result, token, notices>>

PickFiles ==
  /\ Act
  /\ \E fs \in SUBSET Files \ {{}} : \E first \in fs :
       form' = [form EXCEPT !.picked = fs, !.title = TitledBy(first)]
  /\ UNCHANGED <<box, at, fd, blob, result, token, notices>>

\* showClipboard
Preview(fs) ==
  /\ previews' = fs /\ since' = {}
  /\ \E first \in fs : form' = [form EXCEPT !.title = TitledBy(first)]

Paste ==
  /\ Act
  /\ \E f \in Files : clip' = {f} /\ Preview({f})
  /\ UNCHANGED <<reads, at, fd, blob, result, token, notices>>

\* The box is editable: the visitor removes previews, by a key or with what is
\* written or pasted in their place; clipFiles keeps the files.
Erase(fs) ==
  /\ fs \subseteq previews /\ previews' = previews \ fs
  /\ since' = IF fs = {} THEN since ELSE since \cup {"erased"}

ErasePreviews ==
  /\ Act
  /\ \E fs \in SUBSET Files \ {{}} : Erase(fs)
  /\ UNCHANGED <<form, clip, reads, at, fd, blob, result, token, notices>>

\* clip.onclick empties clipFiles before it asks for the clipboard. Nothing
\* keeps the visitor from pressing again while a read is pending.
PressReadClipboard ==
  /\ Act
  /\ reads' = reads + 1 /\ clip' = {} /\ since' = since \cup {"emptied"}
  /\ UNCHANGED <<form, previews, at, fd, blob, result, token, notices>>

\* The next item of a read: a file for whatever list there is by then, or text
\* in the place of what is selected in the box.
ReadItem ==
  /\ reads > 0
  /\ \/ \E f \in Files : clip' = clip \cup {f} /\ UNCHANGED <<form, previews, since>>
     \/ /\ form' = [form EXCEPT !.text = TRUE] /\ UNCHANGED clip
        /\ \E fs \in SUBSET Files : Erase(fs)
  /\ UNCHANGED <<reads, at, fd, blob, result, edits, token, notices>>

\* Mutated form of EndRead: what was read is not shown.
EndUnshown ==
  /\ reads > 0 /\ reads' = reads - 1
  /\ UNCHANGED <<form, clip, previews, since, at, fd, blob, result, edits, token, notices>>

\* All items of a read are there, and the list is shown if it has any.
EndRead ==
  /\ reads > 0 /\ reads' = reads - 1
  /\ IF clip # {} THEN Preview(clip) ELSE UNCHANGED <<form, previews, since>>
  /\ UNCHANGED <<clip, at, fd, blob, result, edits, token, notices>>

\* The clipboard is refused, or one of its items: those before it stay in the
\* list, and nothing is shown.
FailRead ==
  /\ reads > 0 /\ reads' = reads - 1
  /\ since' = since \cup {"failed"}
  /\ UNCHANGED <<form, clip, previews, at, fd, blob, result, edits, token, notices>>

\* The guard on result bounds the submissions to one.
Submit ==
  /\ at = "ready" /\ result = ""
  /\ at' = "settling"
  /\ UNCHANGED <<form, box, fd, blob, result, edits, token, notices>>

-----------------------------------------------------------------------------
(* The submit handler *)

\* catch and finally
Report(text) == at' = "ready" /\ result' = text

\* files, in order: the typed text, the picked files, the clipboard's.
FirstFiles ==
  IF form.text THEN {TextFile} ELSE IF form.picked # {} THEN form.picked ELSE clip

\* Mutated form of MessageTooLong: the characters are not counted.
MessageUnchecked == FALSE

MessageTooLong == notices /\ form.message.bytes > MaxMessage

\* FormData, the password, the check of the message and the files, read at one
\* instant once the password input is settled.
ReadForm ==
  /\ at = "settling"
  /\ \/ ~form.password /\ Report("password required") /\ UNCHANGED fd
     \/ form.password /\ MessageTooLong /\ Report("message too long") /\ UNCHANGED fd
     \/ /\ form.password /\ ~MessageTooLong /\ FirstFiles = {}
        /\ Report("no file") /\ UNCHANGED fd
     \/ /\ form.password /\ ~MessageTooLong
        /\ \E first \in FirstFiles : fd' = [form EXCEPT !.title = TitledBy(first)]
        /\ at' = "packing" /\ UNCHANGED result
  /\ UNCHANGED <<form, box, blob, edits, token, notices>>

\* Zip and encrypt, and the check of the encrypted size; either may throw.
Pack ==
  /\ at = "packing"
  /\ \E n \in {MinBlob, MaxUpload, MaxUpload + 1} :
       /\ blob' = n
       /\ IF n > MaxUpload THEN Report("upload too large")
                           ELSE at' = "sending" /\ UNCHANGED result
  /\ UNCHANGED <<form, box, fd, edits, token, notices>>

FailToPack ==
  /\ at = "packing" /\ Report("error")
  /\ UNCHANGED <<form, box, fd, blob, edits, token, notices>>

\* A browser sends every line break of a text as two bytes.
AsSent(message) == [message EXCEPT !.bytes = @ + message.breaks]

Warning == IF fd.warning THEN "1" ELSE IF notices THEN "0" ELSE ""

\* The FormData of the handler, the blob its last part.  The page runs where
\* the deployment serves it, over HTTPS.
Outgoing(cookie) ==
  [secure |-> TRUE, cookie |-> cookie, token |-> token, multipart |-> TRUE,
   parts |-> "proper", title |-> fd.title, visibility |-> fd.visibility, key |-> fd.key,
   hours |-> fd.hours, warning |-> Warning,
   message |-> AsSent(fd.message), encrypted |-> TRUE, cipher |-> TRUE,
   verifier |-> "valid", size |-> blob, trailing |-> FALSE]

Posted == at' = "waiting" /\ UNCHANGED <<form, box, fd, blob, result, edits, token, notices>>

\* xhr.onload and xhr.onerror: the answer, or none.
Answered(answer) ==
  /\ at = "waiting" /\ Report(answer)
  /\ UNCHANGED <<form, box, fd, blob, edits, token, notices>>

PageStep ==
  \/ Edit \/ PickFiles \/ Paste \/ ErasePreviews
  \/ PressReadClipboard \/ ReadItem \/ EndRead \/ FailRead
  \/ Submit \/ ReadForm \/ Pack \/ FailToPack
=============================================================================
