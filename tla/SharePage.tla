------------------------------ MODULE SharePage ------------------------------
(***************************************************************************)
(* share.js: the page of a share.  The visitor types the password, has    *)
(* the archive fetched, decrypted and unzipped in the page, opens its     *)
(* entries one at a time and downloads them, while the input method of a  *)
(* phone (ime.js), the progress display and the worker each run on timers *)
(* of their own.                                                          *)
(***************************************************************************)
EXTENDS Progress, DownloadWorker

CONSTANTS
  All,          \* the entry that stands for the archive of all of them
  MaxAttempts   \* times the visitor asks for the archive

VARIABLES
  pc,         \* where loadEntries is; "idle": the button is enabled
  composing,  \* the input method has not committed the text
  typed,      \* what the password field holds: "right", "wrong" or "empty"
  password,   \* the value load() read
  blob,       \* downloadedBlob is there
  progress,
  listed,     \* the entries are shown
  open,       \* the entry in the detail pane
  anchor,     \* the click that keeps its link busy, 0 for none
  zipBusy,    \* the click that keeps the button for all files busy
  attempts,
  left        \* the page was closed, or another took its place

page == <<pc, composing, typed, password, blob, listed, open, anchor, zipBusy, attempts, left>>
vars == <<page, progress, worker>>

Typed == {"right", "wrong", "empty"}
Files == Entries \ {All}
First == CHOOSE e \in Files : TRUE

\* An archive without files shows a note and offers nothing to download.
ASSUME PageAssumption == All \in Entries /\ Files # {}

Init ==
  /\ WorkerInit
  /\ pc = "idle" /\ composing = FALSE /\ typed = "empty" /\ password = "empty" /\ blob = FALSE
  /\ progress = Fresh /\ listed = FALSE /\ open = NoEntry /\ anchor = 0 /\ zipBusy = 0
  /\ attempts = 0 /\ left = FALSE

Loading == pc # "idle"

-----------------------------------------------------------------------------
(* The password field *)

\* The visitor types; on a phone, into a composition that ends later.
Type ==
  /\ pc = "idle" /\ ~listed /\ ~composing /\ ~left
  /\ typed' \in Typed /\ composing' \in BOOLEAN
  /\ UNCHANGED <<pc, password, blob, progress, listed, open, anchor, zipBusy, attempts, left, worker>>

\* compositionend, maybe with another text than was there before.
Commit ==
  /\ composing /\ composing' = FALSE /\ typed' \in Typed
  /\ UNCHANGED <<pc, password, blob, progress, listed, open, anchor, zipBusy, attempts, left, worker>>

-----------------------------------------------------------------------------
(* loadEntries and load *)

At(here, there) == pc = here /\ pc' = there
Rest == UNCHANGED <<composing, typed, listed, open, anchor, zipBusy, attempts, left, worker>>

\* The button, or Enter, is ignored while an earlier call runs.
PressLoad ==
  /\ At("idle", "settle") /\ ~listed /\ ~left
  /\ attempts < MaxAttempts /\ attempts' = attempts + 1
  /\ UNCHANGED <<composing, typed, password, blob, progress, listed, open, anchor, zipBusy, left, worker>>

\* Mutated form of Settle: nothing bounds the wait for the end of a composition.
SettleEnded ==
  /\ pc = "settle" /\ ~composing /\ pc' = "read" /\ UNCHANGED <<password, blob, progress>> /\ Rest

\* settlePasswordInput: the composition has ended, or 350 ms are over.
Settle == At("settle", "read") /\ UNCHANGED <<password, blob, progress>> /\ Rest

\* progress.reset and the start of load; a blob of an attempt that threw before
\* opening it is used again.
ReadPassword ==
  /\ pc = "read" /\ password' = typed
  /\ IF typed = "empty" THEN pc' = "idle" /\ progress' = Fail(Fresh, "decrypt")
     ELSE IF blob THEN pc' = "open" /\ progress' = Done(Fresh, "download")
     ELSE pc' = "fetch" /\ progress' = Set(Fresh, "download", "working")
  /\ UNCHANGED blob /\ Rest

\* The answer to the download request.  401, or a browser that cannot hash the
\* password, fails the phase of the password; anything else the phase seen last.
Fetch ==
  /\ pc = "fetch"
  /\ \/ password = "right" /\ pc' = "body" /\ progress' = Set(progress, "download", "working")
     \/ pc' = "idle" /\ \E f \in {"decrypt", "download"} : progress' = Fail(progress, f)
  /\ UNCHANGED <<password, blob>> /\ Rest

\* One chunk, the end of the stream, or its failure.
ReadBody ==
  /\ pc = "body"
  /\ \/ UNCHANGED <<pc, blob>> /\ progress' = Set(progress, "download", "working")
     \/ pc' = "open" /\ blob' = TRUE /\ progress' = Done(progress, "download")
     \/ pc' = "idle" /\ progress' = Fail(progress, "download") /\ UNCHANGED blob
  /\ UNCHANGED password /\ Rest

\* The cipher data of the page is read, or cannot be.
OpenArchive ==
  /\ pc = "open"
  /\ \/ pc' = "decrypt" /\ progress' = Pulse(progress, "decrypt")
     \/ pc' = "idle" /\ progress' = Fail(progress, "download")
  /\ UNCHANGED <<password, blob>> /\ Rest

\* decryptBlob; whatever happens, the pulse is stopped and the ciphertext dropped.
Decrypt ==
  /\ pc = "decrypt"
  /\ LET stopped == StopPulse(progress, "decrypt") IN
       \/ /\ password = "right" /\ pc' = "unzip" /\ UNCHANGED blob
          /\ progress' = Pulse(Done(stopped, "decrypt"), "unzip")
       \/ pc' = "idle" /\ blob' = FALSE /\ progress' = Fail(stopped, "decrypt")
  /\ UNCHANGED password /\ Rest

OpenEntry(e) == open' = e /\ anchor' = 0

\* unzipBytes, then renderList, which opens the first entry; the form is hidden,
\* whatever it holds.
Unzip ==
  /\ pc = "unzip" /\ pc' = "idle" /\ blob' = FALSE
  /\ LET stopped == StopPulse(progress, "unzip") IN
       \/ /\ progress' = Done(stopped, "unzip") /\ listed' = TRUE /\ OpenEntry(First)
          /\ typed' = "empty" /\ password' = "empty" /\ composing' = FALSE
       \/ /\ progress' = Fail(stopped, "unzip")
          /\ UNCHANGED <<listed, open, anchor, composing, typed, password>>
  /\ UNCHANGED <<zipBusy, attempts, left, worker>>

Load == Settle \/ ReadPassword \/ Fetch \/ ReadBody \/ OpenArchive \/ Decrypt \/ Unzip

-----------------------------------------------------------------------------
(* The listing *)

Shown == UNCHANGED <<pc, composing, typed, password, blob, progress, listed, attempts, left>>

\* Opening an entry makes a new link: it is not busy, even if one it replaces is.
Open(e) ==
  /\ listed /\ e # open
  /\ OpenEntry(e) /\ UNCHANGED <<zipBusy, worker>> /\ Shown

\* renderList once more.
ChangeLanguage ==
  /\ listed /\ OpenEntry(First) /\ zipBusy' = 0
  /\ UNCHANGED worker /\ Shown

\* A link or a button is busy until its click has its file, or has failed.
Busy(c) == IF at'[c] \in Waiting THEN c ELSE 0

ClickLink ==
  /\ listed /\ anchor = 0 /\ StartDownload(open)
  /\ anchor' = Busy(clicks')
  /\ UNCHANGED <<open, zipBusy>> /\ Shown

ClickAll ==
  /\ listed /\ zipBusy = 0 /\ StartZip(All)
  /\ zipBusy' = clicks'
  /\ UNCHANGED <<open, anchor>> /\ Shown

\* The finally of a click frees what it keeps busy, if that is still there.
Freed ==
  /\ anchor'  = (IF anchor = 0 THEN 0 ELSE Busy(anchor))
  /\ zipBusy' = (IF zipBusy = 0 THEN 0 ELSE Busy(zipBusy))
  /\ UNCHANGED open /\ Shown

Continue(c) == ClickStep(c) /\ Freed

ProgressTimer ==
  /\ progress' \in TimerResults(progress)
  /\ UNCHANGED <<page, worker>>

\* The visitor closes the page, reloads it, or follows a link: the display ends
\* as it is, and all that ran in the page with it.
Leave ==
  /\ ~left /\ left' = TRUE /\ LeaveClicks
  /\ pc' = "idle" /\ composing' = FALSE /\ typed' = "empty" /\ password' = "empty"
  /\ blob' = FALSE /\ listed' = FALSE /\ open' = NoEntry /\ anchor' = 0 /\ zipBusy' = 0
  /\ progress' = [progress EXCEPT !.pulses = {}, !.pending = Nothing, !.timer = FALSE]
  /\ UNCHANGED attempts

Work == (WorkerStep \/ StopWorker) /\ UNCHANGED <<page, progress>>

Visit == Type \/ PressLoad \/ ChangeLanguage \/ ClickLink \/ ClickAll \/ \E e \in Files : Open(e)

Next ==
  \/ Visit \/ Commit \/ Load \/ ProgressTimer
  \/ \E c \in Clicks : Continue(c)
  \/ (Registering \/ Controlling) /\ Freed
  \/ Work \/ Leave

\* In a page that is not left and not in the background, timers and frames
\* fire, the requests of load() end, and events are handled.  The registration
\* of the worker need not end: only the wait for its control has a timer.  The
\* visitor need not act, the browser need not stop the worker, and a
\* composition need not end.
Fairness ==
  /\ WF_vars(Settle)
  /\ WF_vars(ReadPassword \/ Fetch \/ OpenArchive \/ Decrypt \/ Unzip)
  /\ SF_vars(ReadBody /\ pc' # "body")
  /\ \A c \in Clicks : WF_vars(Continue(c))
  /\ WF_vars(Controlling /\ Freed)
  /\ WF_vars(WorkerStep /\ UNCHANGED <<page, progress>>)

Spec == Init /\ [][Next]_vars /\ Fairness

-----------------------------------------------------------------------------
(* Properties *)

\* A click saves the file it was made on, never another's - unless the two have
\* one name, and with it one URL: then the later staging replaces the earlier.
OwnFileSaved ==
  \A c \in Clicks :
    got[c] # NoEntry =>
      /\ BaseName[got[c]] = BaseName[of[c]]
      /\ (\A e \in Entries \ {of[c]} : BaseName[e] # BaseName[of[c]]) => got[c] = of[c]

\* Once the display says that a phase is done or has failed, no update that was
\* queued before, and no pulse, makes it work again until the next attempt.
FinishedLinesStay ==
  [][\A f \in Phases :
       progress.line[f] \in {"done", "failed"} /\ pc # "read" =>
         progress'.line[f] \in {"done", "failed"}]_vars

\* No button stays disabled: not when the input method never commits, the
\* server fails, the archive cannot be made, the worker does not control the
\* page, or is stopped with the page's message in hand.  (The exception is a
\* registration that never ends: ensureDownloadWorker awaits it without a
\* timeout, every later click awaits the same promise, and their buttons stay.)
ButtonsComeBack ==
  /\ Loading ~> ~Loading
  /\ []<>(workerReady # "registering") =>
       \A c \in Clicks : anchor = c \/ zipBusy = c ~> anchor # c /\ zipBusy # c

\* A file in the worker's memory is dropped in the end: by the timer of a click,
\* or with the worker.  (The exceptions: the page had given up on a confirmation
\* that took too long; it had no controller when the minute was over; or it was
\* left, and its timer with it.  Nothing tells the worker to forget those.)
StagedFilesForgotten ==
  \A n \in Names :
    downloads[n] # NoEntry ~> downloads[n] = NoEntry \/ n \in abandoned \/ left

=============================================================================
