--------------------------- MODULE DownloadWorker ---------------------------
(***************************************************************************)
(* download-sw.js and download.js: a click waits until the service worker *)
(* is registered and controls the page, hands it the decrypted file in a  *)
(* message, navigates to a URL the worker answers with the file, and has  *)
(* the worker forget it a minute later.  Where that fails, the file is    *)
(* saved from an object URL.  The worker keeps files in memory only, the  *)
(* browser may stop it at any time, and it outlives the page; messages of *)
(* the page arrive in order, navigations take another way.                *)
(*                                                                        *)
(* URLs are made of the share and of the last part of an entry's name:    *)
(* entries of different folders may share one.                            *)
(***************************************************************************)
EXTENDS Naturals, Sequences

CONSTANTS
  Entries,      \* the files of the archive, and the archive of all of them
  Names,        \* last parts of their names
  BaseName,     \* entry -> name
  NoEntry,
  MaxClicks,    \* downloads started
  MaxStops      \* times the browser stops the worker

ASSUME WorkerAssumption ==
  /\ BaseName \in [Entries -> Names] /\ NoEntry \notin Entries
  /\ MaxClicks \in Nat /\ MaxStops \in Nat

VARIABLES
  downloads,   \* the worker's map: name -> the file staged under it
  inbox,       \* messages of the page the worker has not handled
  workerReady, \* the promise all clicks of the page share, null if there is none
  clicks,      \* how many downloads were started
  of,          \* click -> its entry
  at,          \* click -> where its download is
  answered,    \* clicks whose staging the worker has confirmed
  got,         \* click -> the file the browser saved
  forgetting,  \* clicks whose timer of one minute runs
  stops,
  abandoned    \* history: names of stagings that nothing tells the worker to forget

worker == <<downloads, inbox, workerReady, clicks, of, at, answered, got, forgetting, stops, abandoned>>

Clicks == 1..MaxClicks
\* "zip": the archive of all entries is made.  "worker": waits for workerReady.
\* "stage": waits for the worker's answer.  "navigate": the request is on its way.
Waiting == {"zip", "worker", "stage"}
Places == {"none", "navigate", "saved", "expired", "failed", "left"} \cup Waiting
Messages == [type : {"stage"}, name : Names, file : Entries, click : Clicks]
       \cup [type : {"forget"}, name : Names]

WorkerTypeOK ==
  /\ downloads \in [Names -> Entries \cup {NoEntry}]
  /\ inbox \in Seq(Messages) /\ clicks \in 0..MaxClicks
  /\ workerReady \in {"null", "registering", "controlling", "resolved"}
  /\ of \in [Clicks -> Entries \cup {NoEntry}] /\ at \in [Clicks -> Places]
  /\ answered \subseteq Clicks /\ forgetting \subseteq Clicks
  /\ got \in [Clicks -> Entries \cup {NoEntry}]
  /\ stops \in 0..MaxStops /\ abandoned \subseteq Names

WorkerInit ==
  /\ downloads = [n \in Names |-> NoEntry] /\ inbox = <<>> /\ workerReady = "null"
  /\ clicks = 0 /\ of = [c \in Clicks |-> NoEntry] /\ at = [c \in Clicks |-> "none"]
  /\ answered = {} /\ got = [c \in Clicks |-> NoEntry]
  /\ forgetting = {} /\ stops = 0 /\ abandoned = {}

-----------------------------------------------------------------------------
(* The page: a click up to the message *)

\* Mutated form of Key: one file per share.
ShareKey(e) == CHOOSE n \in Names : TRUE

\* downloadURLPath, and downloadKey of it: the query that makes each click a
\* navigation of its own is no part of the key.
Key(e) == BaseName[e]

\* objectDownload and the click on its URL.
SaveObject(c) ==
  at' = [at EXCEPT ![c] = "saved"] /\ got' = [got EXCEPT ![c] = of'[c]]

\* prepareDownload: a browser that cannot stage saves an object; else the click
\* waits for the worker, whose registration the first one begins.
Prepare(c) ==
  \/ SaveObject(c) /\ UNCHANGED workerReady
  \/ /\ at' = [at EXCEPT ![c] = "worker"] /\ UNCHANGED got
     /\ workerReady' = IF workerReady = "null" THEN "registering" ELSE workerReady

Click(e) ==
  /\ clicks < MaxClicks /\ clicks' = clicks + 1
  /\ of' = [of EXCEPT ![clicks'] = e]
  /\ UNCHANGED <<downloads, inbox, answered, forgetting, stops, abandoned>>

\* armDownloadAction
StartDownload(e) == Click(e) /\ Prepare(clicks')

\* The button for all files makes their archive first.
StartZip(e) ==
  Click(e) /\ at' = [at EXCEPT ![clicks'] = "zip"] /\ UNCHANGED <<workerReady, got>>

\* entriesToZip ends, or throws.
Zipped(c) ==
  /\ at[c] = "zip" /\ UNCHANGED of
  /\ \/ Prepare(c)
     \/ at' = [at EXCEPT ![c] = "failed"] /\ UNCHANGED <<workerReady, got>>
  /\ UNCHANGED <<downloads, inbox, clicks, answered, forgetting, stops, abandoned>>

\* register() and serviceWorker.ready are done; nothing bounds that wait.
Registered ==
  /\ workerReady = "registering" /\ workerReady' = "controlling"
  /\ UNCHANGED <<downloads, inbox, clicks, of, at, answered, got, forgetting, stops, abandoned>>

\* waitForController
Controlled ==
  /\ workerReady = "controlling" /\ workerReady' = "resolved"
  /\ UNCHANGED <<downloads, inbox, clicks, of, at, answered, got, forgetting, stops, abandoned>>

\* The registration fails, or the worker does not control the page within five
\* seconds: all clicks that wait save an object, and the next one tries again.
NoWorker(stage) ==
  /\ workerReady = stage /\ workerReady' = "null"
  /\ at'  = [c \in Clicks |-> IF at[c] = "worker" THEN "saved" ELSE at[c]]
  /\ got' = [c \in Clicks |-> IF at[c] = "worker" THEN of[c] ELSE got[c]]
  /\ UNCHANGED <<downloads, inbox, clicks, of, answered, forgetting, stops, abandoned>>

\* stagedDownloadURL goes on; postDownloadMessage rejects without a controller.
PostStage(c) ==
  /\ at[c] = "worker" /\ workerReady = "resolved" /\ UNCHANGED of
  /\ \/ /\ at' = [at EXCEPT ![c] = "stage"] /\ UNCHANGED got
        /\ inbox' = Append(inbox, [type |-> "stage", name |-> Key(of[c]), file |-> of[c], click |-> c])
     \/ SaveObject(c) /\ UNCHANGED inbox
  /\ UNCHANGED <<downloads, workerReady, clicks, answered, forgetting, stops, abandoned>>

-----------------------------------------------------------------------------
(* The page: the worker's answer *)

\* Mutated form of Staged: nothing is told to forget the file.
StagedForGood(c) ==
  /\ at[c] = "stage" /\ c \in answered
  /\ at' = [at EXCEPT ![c] = "navigate"]
  /\ UNCHANGED <<downloads, inbox, workerReady, clicks, of, answered, got, forgetting, stops, abandoned>>

\* The confirmation arrives: clickPreparedDownload navigates, cleanup starts the timer.
Staged(c) ==
  /\ at[c] = "stage" /\ c \in answered
  /\ at' = [at EXCEPT ![c] = "navigate"]
  /\ forgetting' = forgetting \cup {c}
  /\ UNCHANGED <<downloads, inbox, workerReady, clicks, of, answered, got, stops, abandoned>>

\* Five seconds are over, whether or not an answer is on its way: object URL.
GiveUp(c) ==
  /\ at[c] = "stage" /\ UNCHANGED of /\ SaveObject(c)
  /\ abandoned' = abandoned \cup {Key(of[c])}
  /\ UNCHANGED <<downloads, inbox, workerReady, clicks, answered, forgetting, stops>>

\* The minute of a click is over; without a controller nothing can be sent.
ForgetStaged(c) ==
  /\ c \in forgetting /\ forgetting' = forgetting \ {c}
  /\ \/ /\ inbox' = Append(inbox, [type |-> "forget", name |-> Key(of[c])])
        /\ UNCHANGED abandoned
     \/ abandoned' = abandoned \cup {Key(of[c])} /\ UNCHANGED inbox
  /\ UNCHANGED <<downloads, workerReady, clicks, of, at, answered, got, stops>>

\* The page is left, and its promises and timers go with it; messages and
\* navigations that are on their way arrive.
LeaveClicks ==
  /\ workerReady' = "null" /\ forgetting' = {}
  /\ at' = [c \in Clicks |-> IF at[c] \in Waiting THEN "left" ELSE at[c]]
  /\ UNCHANGED <<downloads, inbox, clicks, of, answered, got, stops, abandoned>>

-----------------------------------------------------------------------------
(* The worker *)

HandleStage ==
  /\ inbox # <<>> /\ Head(inbox).type = "stage" /\ inbox' = Tail(inbox)
  /\ LET msg == Head(inbox) IN
       /\ downloads' = [downloads EXCEPT ![msg.name] = msg.file]
       /\ answered' = answered \cup {msg.click}
  /\ UNCHANGED <<workerReady, clicks, of, at, got, forgetting, stops, abandoned>>

HandleForget ==
  /\ inbox # <<>> /\ Head(inbox).type = "forget" /\ inbox' = Tail(inbox)
  /\ downloads' = [downloads EXCEPT ![Head(inbox).name] = NoEntry]
  /\ UNCHANGED <<workerReady, clicks, of, at, answered, got, forgetting, stops, abandoned>>

\* downloadResponse: 200, 404 when nothing is staged, 500 when it cannot be read.
Respond(c) ==
  /\ at[c] = "navigate"
  /\ LET file == downloads[Key(of[c])] IN
       \/ file = NoEntry /\ at' = [at EXCEPT ![c] = "expired"] /\ UNCHANGED got
       \/ file # NoEntry /\ at' = [at EXCEPT ![c] = "saved"] /\ got' = [got EXCEPT ![c] = file]
       \/ file # NoEntry /\ at' = [at EXCEPT ![c] = "failed"] /\ UNCHANGED got
  /\ UNCHANGED <<downloads, inbox, workerReady, clicks, of, answered, forgetting, stops, abandoned>>

\* The browser stops the worker, perhaps with a message it had just taken; it
\* starts it again for the next event.
StopWorker ==
  /\ stops < MaxStops /\ stops' = stops + 1
  /\ downloads' = [n \in Names |-> NoEntry]
  /\ inbox' \in {inbox} \cup (IF inbox = <<>> THEN {} ELSE {Tail(inbox)})
  /\ UNCHANGED <<workerReady, clicks, of, at, answered, got, forgetting, abandoned>>

WorkerStep == HandleStage \/ HandleForget \/ \E c \in Clicks : Respond(c)
ClickStep(c) == Zipped(c) \/ PostStage(c) \/ Staged(c) \/ GiveUp(c) \/ ForgetStaged(c)
Controlling == Controlled \/ NoWorker("controlling")
Registering == Registered \/ NoWorker("registering")

=============================================================================
