---------------------------- MODULE SharePageProofs ----------------------------
(***************************************************************************)
(* The page of a share, for any entries and names, and any number of      *)
(* clicks, attempts and stops of the worker: each click saves its own     *)
(* file, and a line that is finished stays so.                            *)
(***************************************************************************)
EXTENDS SharePage, SequenceTheorems, TLAPS

-----------------------------------------------------------------------------
(* The progress display                                                    *)

Finished == {"done", "failed"}

\* What is queued, or pulses, is of a phase that still works.
OnlyWorkQueued(g) ==
  /\ g \in ProgressType
  /\ \A f \in g.failed : g.line[f] = "failed"
  /\ \A f \in g.pulses : g.line[f] = "working"
  /\ g.pending # Nothing => g.pending.state = "working" /\ g.line[g.pending.phase] = "working"

\* From g to h, finished lines stay, and lines but f's do.
Stay(g, h) == \A f \in Phases : g.line[f] \in Finished => h.line[f] \in Finished
Others(g, h, f) == \A e \in Phases \ {f} : h.line[e] = g.line[e]

\* An object that has been reset.
LEMMA FreshIsQuiet ==
  /\ OnlyWorkQueued(Fresh) /\ Fresh.pulses = {} /\ Fresh.pending = Nothing
  /\ \A f \in Phases : Fresh.line[f] = "none"
BY DEF OnlyWorkQueued, Fresh, ProgressType, States

\* A line that is written anew.
LEMMA LineWritten ==
  ASSUME NEW g \in ProgressType, NEW h \in ProgressType, NEW f \in Phases, NEW s \in States,
         h.line = [g.line EXCEPT ![f] = s], g.line[f] \in Finished => s \in Finished
  PROVE  h.line[f] = s /\ Others(g, h, f) /\ Stay(g, h)
BY DEF ProgressType, Others, Stay

\* Work is shown, or queued, on a line that is not finished.
LEMMA SetWorks ==
  ASSUME NEW g, OnlyWorkQueued(g), NEW f \in Phases, g.line[f] \notin Finished
  PROVE  LET h == Set(g, f, "working") IN
         /\ OnlyWorkQueued(h) /\ h.line[f] = "working" /\ Others(g, h, f) /\ Stay(g, h)
         /\ h.pulses = g.pulses /\ h.failed = g.failed
<1>1. f \notin g.failed /\ g.line[f] \in {"none", "working"}
  BY DEF OnlyWorkQueued, Finished, ProgressType, States
<1>2. CASE g.line[f] = "none"
  <2>1. Set(g, f, "working") = [g EXCEPT !.line[f] = "working"]
    BY <1>1, <1>2 DEF Set, Seen
  <2> DEFINE h == Set(g, f, "working")
  <2>2. /\ h \in ProgressType /\ h.line = [g.line EXCEPT ![f] = "working"]
        /\ h.pulses = g.pulses /\ h.failed = g.failed /\ h.pending = g.pending
    BY <2>1 DEF OnlyWorkQueued, ProgressType, States
  <2> HIDE DEF h
  <2>3. h.line[f] = "working" /\ Others(g, h, f) /\ Stay(g, h)
    <3>1. g \in ProgressType /\ "working" \in States
      BY DEF OnlyWorkQueued, States
    <3>2. g.line[f] \notin Finished
      BY <1>2 DEF Finished
    <3> QED
      BY <2>2, <3>1, <3>2, LineWritten
  <2>4. OnlyWorkQueued(h)
    BY <1>1, <1>2, <2>2, <2>3, ProgressAssumption DEF OnlyWorkQueued, ProgressType, Others
  <2> QED
    BY <2>2, <2>3, <2>4 DEF h
<1>3. CASE g.line[f] = "working"
  <2> DEFINE h == Set(g, f, "working")
             wish == [phase |-> f, state |-> "working"]
  <2>1. h = [g EXCEPT !.pending = wish, !.timer = TRUE]
    BY <1>1, <1>3 DEF Set, Seen
  <2>2. wish \in [phase : Phases, state : States] /\ wish.phase = f /\ wish.state = "working"
    BY DEF States
  <2> HIDE DEF wish, h
  <2>3. /\ h \in ProgressType /\ h.line = g.line
        /\ h.pulses = g.pulses /\ h.failed = g.failed /\ h.pending = wish
    <3>1. g \in ProgressType
      BY DEF OnlyWorkQueued
    <3>2. h \in ProgressType
      BY <2>1, <2>2, <3>1 DEF ProgressType
    <3> QED
      BY <2>1, <3>1, <3>2 DEF ProgressType
  <2>4. OnlyWorkQueued(h) /\ h.line[f] = "working" /\ Others(g, h, f) /\ Stay(g, h)
    BY <1>3, <2>2, <2>3 DEF OnlyWorkQueued, Others, Stay
  <2> QED
    BY <2>3, <2>4 DEF h
<1> QED
  BY <1>1, <1>2, <1>3

\* A failure is final, whatever was shown or queued, once its pulse has stopped.
LEMMA FailEnds ==
  ASSUME NEW g, OnlyWorkQueued(g), NEW f \in Phases, f \notin g.pulses
  PROVE  LET h == Fail(g, f) IN
         /\ OnlyWorkQueued(h) /\ h.line[f] = "failed" /\ Others(g, h, f) /\ Stay(g, h)
         /\ h.pulses = g.pulses /\ h.pending = Nothing
<1> DEFINE h == Fail(g, f)
<1>1. /\ h \in ProgressType /\ h.line = [g.line EXCEPT ![f] = "failed"]
      /\ h.pulses = g.pulses /\ h.failed = g.failed \cup {f} /\ h.pending = Nothing
  BY DEF Fail, OnlyWorkQueued, ProgressType, States
<1> HIDE DEF h
<1>2. h.line[f] = "failed" /\ Others(g, h, f) /\ Stay(g, h)
  BY <1>1, LineWritten DEF OnlyWorkQueued, Finished, States
<1>3. OnlyWorkQueued(h)
  BY <1>1, <1>2 DEF OnlyWorkQueued, ProgressType, Others
<1> QED
  BY <1>1, <1>2, <1>3 DEF h

\* So is success, of a phase that works and whose pulse has stopped.
LEMMA DoneEnds ==
  ASSUME NEW g, OnlyWorkQueued(g), NEW f \in Phases, f \notin g.pulses, g.line[f] # "failed"
  PROVE  LET h == Done(g, f) IN
         /\ OnlyWorkQueued(h) /\ h.line[f] = "done" /\ Others(g, h, f) /\ Stay(g, h)
         /\ h.pulses = g.pulses /\ h.pending = Nothing
<1>1. g \in ProgressType /\ Done(g, f) = [g EXCEPT !.timer = FALSE, !.pending = Nothing, !.line[f] = "done"]
  BY DEF Done, OnlyWorkQueued
<1> DEFINE h == Done(g, f)
<1>2. /\ h \in ProgressType /\ h.line = [g.line EXCEPT ![f] = "done"]
      /\ h.pulses = g.pulses /\ h.failed = g.failed /\ h.pending = Nothing
  <2>1. [g.line EXCEPT ![f] = "done"] \in [Phases -> States \cup {"none"}]
    BY <1>1 DEF ProgressType, States
  <2> DEFINE line == [g.line EXCEPT ![f] = "done"]
  <2>2. h = [g EXCEPT !.timer = FALSE, !.pending = Nothing, !.line = line]
    BY <1>1 DEF ProgressType
  <2> HIDE DEF line, h
  <2>3. h \in ProgressType
    BY <1>1, <2>1, <2>2 DEF ProgressType, line
  <2> QED
    BY <1>1, <2>2, <2>3 DEF ProgressType, line
<1> HIDE DEF h
<1>3. h.line[f] = "done" /\ Others(g, h, f) /\ Stay(g, h)
  <2>1. g \in ProgressType /\ "done" \in States /\ "done" \in Finished
    BY DEF OnlyWorkQueued, States, Finished
  <2> QED
    BY <1>2, <2>1, LineWritten
<1>4. OnlyWorkQueued(h)
  BY <1>2, <1>3 DEF OnlyWorkQueued, ProgressType, Others
<1> QED
  BY <1>2, <1>3, <1>4 DEF h

\* A pulse starts on a line that has not begun.
LEMMA PulseWorks ==
  ASSUME NEW g, OnlyWorkQueued(g), NEW f \in Phases, g.line[f] = "none"
  PROVE  LET h == Pulse(g, f) IN
         /\ OnlyWorkQueued(h) /\ h.line[f] = "working" /\ Others(g, h, f) /\ Stay(g, h)
         /\ h.pulses = g.pulses \cup {f}
<1>1. f \notin g.failed
  BY DEF OnlyWorkQueued
<1>2. Pulse(g, f) = [g EXCEPT !.pulses = @ \cup {f}, !.line[f] = "working"]
  BY <1>1 DEF Pulse, Set, Seen, OnlyWorkQueued, ProgressType
<1> DEFINE h == Pulse(g, f)
<1>3. /\ h \in ProgressType /\ h.line = [g.line EXCEPT ![f] = "working"]
      /\ h.pulses = g.pulses \cup {f} /\ h.failed = g.failed /\ h.pending = g.pending
  <2>0. g \in ProgressType
    BY DEF OnlyWorkQueued
  <2> DEFINE line == [g.line EXCEPT ![f] = "working"]
             pulses == g.pulses \cup {f}
  <2>1. line \in [Phases -> States \cup {"none"}] /\ pulses \in SUBSET Phases
    BY <2>0 DEF ProgressType, States
  <2>2. h = [g EXCEPT !.pulses = pulses, !.line = line]
    BY <1>2, <2>0 DEF ProgressType
  <2> HIDE DEF line, pulses, h
  <2>3. h \in ProgressType
    BY <2>0, <2>1, <2>2 DEF ProgressType
  <2> QED
    BY <2>0, <2>2, <2>3 DEF ProgressType, line, pulses
<1> HIDE DEF h
<1>4. h.line[f] = "working" /\ Others(g, h, f) /\ Stay(g, h)
  <2>1. g \in ProgressType /\ "working" \in States /\ g.line[f] \notin Finished
    BY DEF OnlyWorkQueued, States, Finished
  <2> QED
    BY <1>3, <2>1, LineWritten
<1>5. OnlyWorkQueued(h)
  BY <1>1, <1>3, <1>4, ProgressAssumption DEF OnlyWorkQueued, ProgressType, Others
<1> QED
  BY <1>3, <1>4, <1>5 DEF h

\* A pulse that is stopped leaves the lines as they are.
LEMMA StopKeeps ==
  ASSUME NEW g, OnlyWorkQueued(g), NEW f \in Phases
  PROVE  LET h == StopPulse(g, f) IN
         OnlyWorkQueued(h) /\ h.line = g.line /\ h.pulses = g.pulses \ {f} /\ Stay(g, h)
BY DEF OnlyWorkQueued, StopPulse, ProgressType, Stay

\* The timers change no line that does not work, and start nothing.
LEMMA TimersKeep ==
  ASSUME NEW g, OnlyWorkQueued(g), NEW h \in TimerResults(g)
  PROVE  OnlyWorkQueued(h) /\ h.line = g.line /\ h.pulses = g.pulses
<1>1. CASE h = Flush(g)
  <2>1. g.pending # Nothing => g.pending \in [phase : Phases, state : States]
    BY DEF OnlyWorkQueued, ProgressType
  <2>2. h.line = g.line
    BY <1>1, <2>1 DEF Flush, OnlyWorkQueued, ProgressType
  <2> QED
    BY <1>1, <2>2, ProgressAssumption DEF Flush, OnlyWorkQueued, ProgressType
<1>2. ASSUME NEW f \in g.pulses, h = Tick(g, f) PROVE OnlyWorkQueued(h) /\ h.line = g.line /\ h.pulses = g.pulses
  <2>1. f \in Phases /\ g.line[f] = "working"
    BY DEF OnlyWorkQueued, ProgressType
  <2>2. h = [g EXCEPT !.pending = [phase |-> f, state |-> "working"], !.timer = TRUE]
    BY <1>2, <2>1 DEF Tick, Set, Seen, OnlyWorkQueued
  <2> QED
    BY <2>1, <2>2, ProgressAssumption DEF OnlyWorkQueued, ProgressType, States
<1> QED
  BY <1>1, <1>2 DEF TimerResults

-----------------------------------------------------------------------------
(* Where loadEntries is, and what the display shows there                  *)

Shows(download, decrypt, unzip) ==
  /\ progress.line["download"] = download /\ progress.line["decrypt"] = decrypt
  /\ progress.line["unzip"] = unzip

StageInv ==
  /\ pc \in {"idle", "settle", "read", "fetch", "body", "open", "decrypt", "unzip"}
  /\ pc \in {"idle", "settle", "read"} => progress.pulses = {} /\ progress.pending = Nothing
  /\ pc \in {"fetch", "body"} => progress.pulses = {} /\ Shows("working", "none", "none")
  /\ pc = "open" => progress.pulses = {} /\ Shows("done", "none", "none")
  /\ pc = "decrypt" => progress.pulses = {"decrypt"} /\ Shows("done", "working", "none")
  /\ pc = "unzip" => progress.pulses = {"unzip"} /\ Shows("done", "done", "working")

LinesInv == OnlyWorkQueued(progress) /\ StageInv

\* The invariant holds at the start.
LEMMA LinesStart == Init => LinesInv
BY FreshIsQuiet DEF Init, LinesInv, StageInv

\* Every step keeps it, and finished lines with it, but for the one that resets.
LEMMA LinesKept ==
  ASSUME LinesInv, [Next]_vars
  PROVE  LinesInv' /\ (pc # "read" => Stay(progress, progress'))
<1> DEFINE Kept == LinesInv' /\ (pc # "read" => Stay(progress, progress'))
<1> USE ProgressAssumption
<1>0. /\ OnlyWorkQueued(progress) /\ progress \in ProgressType
      /\ "download" \in Phases /\ "decrypt" \in Phases /\ "unzip" \in Phases
  BY DEF LinesInv, OnlyWorkQueued
<1>1. ASSUME UNCHANGED <<pc, progress>> PROVE Kept
  BY <1>1 DEF LinesInv, StageInv, Shows, Stay, OnlyWorkQueued
<1>2. CASE PressLoad \/ Settle
  <2>1. progress' = progress /\ pc \in {"idle", "settle"} /\ pc' \in {"settle", "read"}
    BY <1>2 DEF PressLoad, Settle, At
  <2> QED
    BY <2>1 DEF LinesInv, StageInv, Shows, Stay, OnlyWorkQueued
<1>3. CASE ReadPassword
  <2>1. CASE pc' = "idle" /\ progress' = Fail(Fresh, "decrypt")
    BY <1>0, <1>3, <2>1, FreshIsQuiet, FailEnds DEF ReadPassword, LinesInv, StageInv
  <2>2. CASE pc' = "open" /\ progress' = Done(Fresh, "download")
    BY <1>0, <1>3, <2>2, FreshIsQuiet, DoneEnds DEF ReadPassword, LinesInv, StageInv, Shows, Others
  <2>3. CASE pc' = "fetch" /\ progress' = Set(Fresh, "download", "working")
    BY <1>0, <1>3, <2>3, FreshIsQuiet, SetWorks DEF ReadPassword, LinesInv, StageInv, Shows, Others, Finished
  <2> QED
    BY <1>3, <2>1, <2>2, <2>3 DEF ReadPassword
<1>4. CASE Fetch \/ ReadBody
  <2>0. pc \in {"fetch", "body"} /\ progress.pulses = {} /\ Shows("working", "none", "none")
    BY <1>4 DEF Fetch, ReadBody, LinesInv, StageInv
  <2>1. CASE pc' \in {pc, "body"} /\ progress' = Set(progress, "download", "working")
    BY <1>0, <2>0, <2>1, SetWorks DEF LinesInv, StageInv, Shows, Others, Finished
  <2>2. CASE pc' = "open" /\ progress' = Done(progress, "download")
    BY <1>0, <2>0, <2>2, DoneEnds DEF LinesInv, StageInv, Shows, Others
  <2>3. CASE pc' = "idle" /\ \E f \in {"decrypt", "download"} : progress' = Fail(progress, f)
    BY <1>0, <2>0, <2>3, FailEnds DEF LinesInv, StageInv
  <2> QED
    BY <1>4, <2>1, <2>2, <2>3 DEF Fetch, ReadBody
<1>5. CASE OpenArchive
  <2>0. progress.pulses = {} /\ Shows("done", "none", "none")
    BY <1>5 DEF OpenArchive, LinesInv, StageInv
  <2>1. CASE pc' = "decrypt" /\ progress' = Pulse(progress, "decrypt")
    BY <1>0, <2>0, <2>1, PulseWorks DEF LinesInv, StageInv, Shows, Others
  <2>2. CASE pc' = "idle" /\ progress' = Fail(progress, "download")
    BY <1>0, <2>0, <2>2, FailEnds DEF LinesInv, StageInv
  <2> QED
    BY <1>5, <2>1, <2>2 DEF OpenArchive
<1>6. CASE Decrypt
  <2> DEFINE stopped == StopPulse(progress, "decrypt")
             done    == Done(stopped, "decrypt")
  <2>0. progress.pulses = {"decrypt"} /\ Shows("done", "working", "none")
    BY <1>6 DEF Decrypt, LinesInv, StageInv
  <2>1. /\ OnlyWorkQueued(stopped) /\ stopped.line = progress.line /\ stopped.pulses = {}
        /\ Stay(progress, stopped)
    BY <1>0, <2>0, StopKeeps
  <2>2. /\ OnlyWorkQueued(done) /\ done.line["decrypt"] = "done" /\ Others(stopped, done, "decrypt")
        /\ done.pulses = {} /\ Stay(stopped, done)
    BY <1>0, <2>0, <2>1, DoneEnds DEF Shows
  <2> HIDE DEF stopped, done
  <2>3. CASE pc' = "unzip" /\ progress' = Pulse(done, "unzip")
    <3>1. done.line["unzip"] = "none" /\ done.line["download"] = "done"
      BY <1>0, <2>0, <2>1, <2>2 DEF Shows, Others
    <3>2. LinesInv'
      BY <1>0, <2>2, <2>3, <3>1, PulseWorks DEF LinesInv, StageInv, Shows, Others
    <3>3. Stay(progress, progress')
      BY <1>0, <2>1, <2>2, <2>3, <3>1, PulseWorks DEF Stay
    <3> QED
      BY <3>2, <3>3
  <2>4. CASE pc' = "idle" /\ progress' = Fail(stopped, "decrypt")
    BY <1>0, <2>1, <2>4, FailEnds DEF LinesInv, StageInv, Stay
  <2> QED
    BY <1>6, <2>3, <2>4 DEF Decrypt, stopped, done
<1>7. CASE Unzip
  <2> DEFINE stopped == StopPulse(progress, "unzip")
  <2>0. pc' = "idle" /\ progress.pulses = {"unzip"} /\ Shows("done", "done", "working")
    BY <1>7 DEF Unzip, LinesInv, StageInv
  <2>1. /\ OnlyWorkQueued(stopped) /\ stopped.line = progress.line /\ stopped.pulses = {}
        /\ Stay(progress, stopped)
    BY <1>0, <2>0, StopKeeps
  <2> HIDE DEF stopped
  <2>2. CASE progress' = Done(stopped, "unzip")
    BY <1>0, <2>0, <2>1, <2>2, DoneEnds DEF LinesInv, StageInv, Stay, Shows
  <2>3. CASE progress' = Fail(stopped, "unzip")
    BY <1>0, <2>0, <2>1, <2>3, FailEnds DEF LinesInv, StageInv, Stay
  <2> QED
    BY <1>7, <2>2, <2>3 DEF Unzip, stopped
<1>8. CASE ProgressTimer
  <2>1. pc' = pc /\ OnlyWorkQueued(progress') /\ progress'.line = progress.line /\ progress'.pulses = progress.pulses
    BY <1>0, <1>8, TimersKeep DEF ProgressTimer, page
  <2>2. progress.pulses = {} /\ progress.pending = Nothing => progress'.pending = Nothing
    <3>1. progress' = Flush(progress) \/ \E f \in progress.pulses : progress' = Tick(progress, f)
      BY <1>8 DEF ProgressTimer, TimerResults
    <3>2. Flush(progress).pending = Nothing
      BY <1>0 DEF Flush, ProgressType
    <3> QED
      BY <3>1, <3>2
  <2> QED
    BY <2>1, <2>2 DEF LinesInv, StageInv, Shows, Stay
<1>9. CASE Type \/ Commit \/ ChangeLanguage \/ ClickLink \/ ClickAll \/ \E e \in Files : Open(e)
  BY <1>1, <1>9 DEF Type, Commit, ChangeLanguage, ClickLink, ClickAll, Open, Shown
<1>10. CASE (\E c \in Clicks : Continue(c)) \/ ((Registering \/ Controlling) /\ Freed) \/ Work
  BY <1>1, <1>10 DEF Continue, Freed, Work, Shown, page
<1>11. CASE Leave
  <2>1. pc' = "idle" /\ progress' = [progress EXCEPT !.pulses = {}, !.pending = Nothing, !.timer = FALSE]
    BY <1>11 DEF Leave
  <2>2. /\ progress' \in ProgressType /\ progress'.line = progress.line /\ progress'.failed = progress.failed
        /\ progress'.pulses = {} /\ progress'.pending = Nothing
    BY <1>0, <2>1 DEF ProgressType
  <2> QED
    BY <1>0, <2>1, <2>2 DEF LinesInv, StageInv, OnlyWorkQueued, Stay
<1>12. CASE UNCHANGED vars
  BY <1>1, <1>12 DEF vars, page
<1> QED
  BY <1>2, <1>3, <1>4, <1>5, <1>6, <1>7, <1>8, <1>9, <1>10, <1>11, <1>12 DEF Next, Visit, Load

\* Once the display says that a phase is done or has failed, no queued update
\* and no pulse makes it work again before the next attempt (progress.js,
\* set, flush, pulse): what is queued or pulses is of a phase that still works.
THEOREM LinesStay == Spec => FinishedLinesStay
<1> DEFINE Step == \A f \in Phases :
                     progress.line[f] \in {"done", "failed"} /\ pc # "read" =>
                       progress'.line[f] \in {"done", "failed"}
<1>1. LinesInv /\ [Next]_vars => LinesInv'
  BY LinesKept
<1>2. LinesInv /\ [Next]_vars => [Step]_vars
  BY LinesKept DEF Stay, Finished
<1> QED
  BY LinesStart, <1>1, <1>2, PTL DEF Spec, FinishedLinesStay

-----------------------------------------------------------------------------
(* Which file a click saves                                                *)

\* A staged file, in a message or in the worker's map, is under its own name.
OwnName == {msg \in Messages : msg.type = "stage" => msg.name = BaseName[msg.file]}

OfClicks ==
  \A c \in Clicks :
    /\ c <= clicks => of[c] \in Entries
    /\ c > clicks => at[c] = "none" /\ got[c] = NoEntry /\ c \notin forgetting
    /\ got[c] # NoEntry => BaseName[got[c]] = BaseName[of[c]]

WorkerInv ==
  /\ WorkerTypeOK
  /\ inbox \in Seq(OwnName)
  /\ \A n \in Names : downloads[n] # NoEntry => BaseName[downloads[n]] = n
  /\ OfClicks

FilesInv == WorkerInv /\ (listed => open \in Entries)

\* The first file there is one.
LEMMA FirstIsAFile == First \in Files
BY PageAssumption DEF First

\* A queue of such messages has one at its head, and only such ones behind it.
LEMMA QueueKept ==
  ASSUME NEW S, NEW queue \in Seq(S)
  PROVE  /\ \A msg \in S : Append(queue, msg) \in Seq(S)
         /\ queue # <<>> => Head(queue) \in S /\ Tail(queue) \in Seq(S)
BY AppendProperties, HeadTailProperties

\* Such a queue is one of messages.
LEMMA QueueTyped ==
  ASSUME NEW queue \in Seq(OwnName) PROVE queue \in Seq(Messages)
BY DEF OwnName

\* The invariant holds at the start.
LEMMA FilesStart == Init => FilesInv
<1> SUFFICES ASSUME Init PROVE FilesInv
  OBVIOUS
<1>1. WorkerTypeOK
  BY WorkerAssumption DEF Init, WorkerInit, WorkerTypeOK, Clicks, Places
<1>2. OfClicks
  BY WorkerAssumption DEF Init, WorkerInit, OfClicks, Clicks
<1> QED
  BY <1>1, <1>2 DEF Init, WorkerInit, FilesInv, WorkerInv

\* What a step of the page does to the click c, or to a new one, keeps the
\* invariant, if it ends with the click's own file or with none.
LEMMA ClickKeepsFiles ==
  ASSUME WorkerInv, NEW c \in Clicks, NEW place \in Places,
         at' = [at EXCEPT ![c] = place],
         \/ UNCHANGED <<clicks, of>> /\ c <= clicks
         \/ clicks' = clicks + 1 /\ c = clicks' /\ \E e \in Entries : of' = [of EXCEPT ![c] = e],
         UNCHANGED got \/ got' = [got EXCEPT ![c] = of'[c]],
         workerReady' \in {workerReady, "registering"},
         inbox' \in Seq(OwnName), forgetting' \in {forgetting, forgetting \cup {c}},
         abandoned' \in SUBSET Names, UNCHANGED <<downloads, answered, stops>>
  PROVE  WorkerInv'
<1>1. clicks \in Nat /\ MaxClicks \in Nat /\ c \in Nat /\ c <= MaxClicks /\ c <= clicks'
  BY WorkerAssumption DEF WorkerInv, WorkerTypeOK, Clicks
<1>2. clicks' \in 0..MaxClicks /\ clicks <= clicks' /\ \A k \in Clicks : k # c /\ k > clicks => k > clicks'
  BY <1>1 DEF WorkerInv, WorkerTypeOK, Clicks
<1>3. \A k \in Clicks : k # c /\ k <= clicks' => k <= clicks
  BY <1>1 DEF Clicks
<1>4. of' \in [Clicks -> Entries \cup {NoEntry}] /\ of'[c] \in Entries /\ \A k \in Clicks \ {c} : of'[k] = of[k]
  BY <1>1 DEF WorkerInv, WorkerTypeOK, OfClicks
<1>5. got[c] # NoEntry => BaseName[got[c]] = BaseName[of'[c]]
  BY <1>1 DEF WorkerInv, WorkerTypeOK, OfClicks, Clicks
<1>6. inbox' \in Seq(Messages)
  BY QueueTyped
<1>7. got' \in [Clicks -> Entries \cup {NoEntry}] /\ (got'[c] # NoEntry => BaseName[got'[c]] = BaseName[of'[c]])
      /\ \A k \in Clicks \ {c} : got'[k] = got[k]
  BY <1>4, <1>5 DEF WorkerInv, WorkerTypeOK
<1>8. WorkerTypeOK'
  BY <1>2, <1>4, <1>6, <1>7 DEF WorkerInv, WorkerTypeOK
<1>9. OfClicks'
  <2> SUFFICES ASSUME NEW k \in Clicks
               PROVE  /\ k <= clicks' => of'[k] \in Entries
                      /\ k > clicks' => at'[k] = "none" /\ got'[k] = NoEntry /\ k \notin forgetting'
                      /\ got'[k] # NoEntry => BaseName[got'[k]] = BaseName[of'[k]]
    BY DEF OfClicks
  <2>1. CASE k = c
    BY <1>1, <1>2, <1>4, <1>7, <2>1
  <2>2. CASE k # c
    <3>1. k \in Nat /\ at'[k] = at[k] /\ of'[k] = of[k] /\ got'[k] = got[k] /\ (k \in forgetting' <=> k \in forgetting)
      BY <1>4, <1>7, <2>2 DEF WorkerInv, WorkerTypeOK, Clicks
    <3>2. k > clicks' => k > clicks
      BY <1>1, <1>2, <3>1
    <3> QED
      BY <1>3, <2>2, <3>1, <3>2 DEF WorkerInv, OfClicks
  <2> QED
    BY <2>1, <2>2
<1> QED
  BY <1>8, <1>9 DEF WorkerInv

\* A click that is prepared either waits or has its own file.
LEMMA PrepareKeeps ==
  ASSUME NEW c, Prepare(c)
  PROVE  /\ \E place \in Places : at' = [at EXCEPT ![c] = place]
         /\ UNCHANGED got \/ got' = [got EXCEPT ![c] = of'[c]]
         /\ workerReady' \in {workerReady, "registering"}
BY DEF Prepare, SaveObject, Places, Waiting

\* A click on an entry, or on the button for all of them, keeps it.
LEMMA DownloadStarts ==
  ASSUME WorkerInv, NEW e \in Entries, StartDownload(e) \/ StartZip(e)
  PROVE  WorkerInv'
<1>1. /\ clicks < MaxClicks /\ clicks' = clicks + 1 /\ of' = [of EXCEPT ![clicks'] = e]
      /\ UNCHANGED <<downloads, inbox, answered, forgetting, stops, abandoned>>
  BY DEF StartDownload, StartZip, Click
<1>2. clicks' \in Clicks
  BY <1>1, WorkerAssumption DEF WorkerInv, WorkerTypeOK, Clicks
<1>3. /\ \E place \in Places : at' = [at EXCEPT ![clicks'] = place]
      /\ UNCHANGED got \/ got' = [got EXCEPT ![clicks'] = of'[clicks']]
      /\ workerReady' \in {workerReady, "registering"}
  BY PrepareKeeps DEF StartDownload, StartZip, Places, Waiting
<1>4. inbox' \in Seq(OwnName) /\ abandoned' \in SUBSET Names
  BY <1>1 DEF WorkerInv, WorkerTypeOK
<1> QED
  BY <1>1, <1>2, <1>3, <1>4, ClickKeepsFiles

\* A click that was made is of an entry, whose URL is one of the names.
LEMMA ClickWasMade ==
  ASSUME WorkerInv, NEW c \in Clicks, at[c] # "none" \/ c \in forgetting
  PROVE  c <= clicks /\ of[c] \in Entries /\ Key(of[c]) \in Names /\ Key(of[c]) = BaseName[of[c]]
<1>1. clicks \in Nat /\ c \in Nat /\ (~ c > clicks => c <= clicks)
  BY DEF WorkerInv, WorkerTypeOK, Clicks
<1>2. c <= clicks /\ of[c] \in Entries
  BY <1>1 DEF WorkerInv, OfClicks
<1> QED
  BY <1>2, WorkerAssumption DEF Key

\* So do the steps of a click: its awaits, and its timers.
LEMMA ClickStepKeepsFiles ==
  ASSUME WorkerInv, NEW c \in Clicks, ClickStep(c)
  PROVE  WorkerInv'
<1>0. at[c] # "none" \/ c \in forgetting
  BY DEF ClickStep, Zipped, PostStage, Staged, GiveUp, ForgetStaged
<1>1. c <= clicks /\ of[c] \in Entries /\ Key(of[c]) \in Names /\ Key(of[c]) = BaseName[of[c]]
  BY <1>0, ClickWasMade
<1>2. inbox \in Seq(OwnName) /\ abandoned \in SUBSET Names /\ at \in [Clicks -> Places]
  BY DEF WorkerInv, WorkerTypeOK
<1>3. CASE Zipped(c)
  <2>1. \E place \in Places : at' = [at EXCEPT ![c] = place]
    BY <1>3, PrepareKeeps DEF Zipped, Places
  <2>2. /\ UNCHANGED got \/ got' = [got EXCEPT ![c] = of'[c]]
        /\ workerReady' \in {workerReady, "registering"}
        /\ UNCHANGED <<downloads, inbox, clicks, of, answered, forgetting, stops, abandoned>>
    BY <1>3, PrepareKeeps DEF Zipped
  <2> QED
    BY <1>1, <1>2, <2>1, <2>2, ClickKeepsFiles
<1>4. CASE PostStage(c)
  <2> DEFINE msg == [type |-> "stage", name |-> Key(of[c]), file |-> of[c], click |-> c]
  <2>1. msg \in OwnName
    BY <1>1 DEF OwnName, Messages
  <2>2. inbox' \in {inbox, Append(inbox, msg)}
    BY <1>4 DEF PostStage
  <2> HIDE DEF msg
  <2>3. inbox' \in Seq(OwnName)
    BY <1>2, <2>1, <2>2, QueueKept
  <2>4. \E place \in Places : at' = [at EXCEPT ![c] = place]
    BY <1>4 DEF PostStage, SaveObject, Places, Waiting
  <2>5. /\ UNCHANGED got \/ got' = [got EXCEPT ![c] = of'[c]]
        /\ UNCHANGED <<workerReady, downloads, clicks, of, answered, forgetting, stops, abandoned>>
    BY <1>4 DEF PostStage, SaveObject
  <2> QED
    BY <1>1, <1>2, <2>3, <2>4, <2>5, ClickKeepsFiles
<1>5. CASE Staged(c)
  <2>1. /\ at' = [at EXCEPT ![c] = "navigate"] /\ "navigate" \in Places /\ forgetting' = forgetting \cup {c}
        /\ UNCHANGED <<downloads, inbox, workerReady, clicks, of, answered, got, stops, abandoned>>
    BY <1>5 DEF Staged, Places
  <2> QED
    BY <1>1, <1>2, <2>1, ClickKeepsFiles
<1>6. CASE GiveUp(c)
  <2>1. /\ at' = [at EXCEPT ![c] = "saved"] /\ "saved" \in Places /\ got' = [got EXCEPT ![c] = of'[c]]
        /\ abandoned' = abandoned \cup {Key(of[c])}
        /\ UNCHANGED <<downloads, inbox, workerReady, clicks, of, answered, forgetting, stops>>
    BY <1>6 DEF GiveUp, SaveObject, Places
  <2>2. abandoned' \in SUBSET Names
    BY <1>1, <1>2, <2>1
  <2> QED
    BY <1>1, <1>2, <2>1, <2>2, ClickKeepsFiles
<1>7. CASE ForgetStaged(c)
  <2> DEFINE msg == [type |-> "forget", name |-> Key(of[c])]
  <2>1. msg \in OwnName
    BY <1>1 DEF OwnName, Messages
  <2>2. inbox' \in {inbox, Append(inbox, msg)}
    BY <1>7 DEF ForgetStaged
  <2> HIDE DEF msg
  <2>3. inbox' \in Seq(OwnName) /\ inbox' \in Seq(Messages)
    BY <1>2, <2>1, <2>2, QueueKept, QueueTyped
  <2>4. /\ forgetting' = forgetting \ {c} /\ abandoned' \in SUBSET Names
        /\ UNCHANGED <<downloads, workerReady, clicks, of, at, answered, got, stops>>
    BY <1>1, <1>2, <1>7 DEF ForgetStaged
  <2>5. WorkerTypeOK' /\ OfClicks'
    BY <2>3, <2>4 DEF WorkerInv, WorkerTypeOK, OfClicks
  <2> QED
    BY <2>3, <2>4, <2>5 DEF WorkerInv
<1> QED
  BY <1>3, <1>4, <1>5, <1>6, <1>7 DEF ClickStep

\* So do the end of the wait for the worker, which settles all clicks that
\* wait, and the end of the page.
LEMMA WaitKeepsFiles ==
  ASSUME WorkerInv, Registering \/ Controlling \/ LeaveClicks
  PROVE  WorkerInv'
<1>1. CASE Registered \/ Controlled
  BY <1>1 DEF Registered, Controlled, WorkerInv, WorkerTypeOK, OfClicks
<1>2. ASSUME NEW stage, NoWorker(stage) PROVE WorkerInv'
  <2>1. /\ workerReady' = "null"
        /\ at'  = [c \in Clicks |-> IF at[c] = "worker" THEN "saved" ELSE at[c]]
        /\ got' = [c \in Clicks |-> IF at[c] = "worker" THEN of[c] ELSE got[c]]
        /\ UNCHANGED <<downloads, inbox, clicks, of, answered, forgetting, stops, abandoned>>
    BY <1>2 DEF NoWorker
  <2>2. WorkerTypeOK'
    BY <2>1 DEF WorkerInv, WorkerTypeOK, Places
  <2>3. OfClicks'
    BY <2>1 DEF WorkerInv, OfClicks
  <2> QED
    BY <2>1, <2>2, <2>3 DEF WorkerInv
<1>3. CASE LeaveClicks
  <2>1. /\ workerReady' = "null" /\ forgetting' = {}
        /\ at' = [c \in Clicks |-> IF at[c] \in Waiting THEN "left" ELSE at[c]]
        /\ UNCHANGED <<downloads, inbox, clicks, of, answered, got, stops, abandoned>>
    BY <1>3 DEF LeaveClicks
  <2>2. WorkerTypeOK'
    BY <2>1 DEF WorkerInv, WorkerTypeOK, Places
  <2>3. OfClicks'
    BY <2>1 DEF WorkerInv, OfClicks, Waiting
  <2> QED
    BY <2>1, <2>2, <2>3 DEF WorkerInv
<1> QED
  BY <1>1, <1>2, <1>3 DEF Registering, Controlling

\* The worker answers a click with a file of the name the click asked for.
LEMMA ResponseKeepsFiles ==
  ASSUME WorkerInv, NEW c \in Clicks, Respond(c)
  PROVE  WorkerInv'
<1> DEFINE name == Key(of[c])
           file == downloads[name]
<1>1. ~ c > clicks /\ of[c] \in Entries
  BY DEF WorkerInv, WorkerTypeOK, OfClicks, Respond, Clicks
<1>2. name \in Names /\ name = BaseName[of[c]]
  BY <1>1, WorkerAssumption DEF Key
<1>3. file \in Entries \cup {NoEntry} /\ (file # NoEntry => BaseName[file] = BaseName[of[c]])
  BY <1>2 DEF WorkerInv, WorkerTypeOK
<1>4. /\ \E place \in {"expired", "saved", "failed"} : at' = [at EXCEPT ![c] = place]
      /\ got' = got \/ (file # NoEntry /\ got' = [got EXCEPT ![c] = file])
      /\ UNCHANGED <<downloads, inbox, workerReady, clicks, of, answered, forgetting, stops, abandoned>>
  BY DEF Respond
<1> HIDE DEF file, name
<1>5. WorkerTypeOK'
  BY <1>3, <1>4 DEF WorkerInv, WorkerTypeOK, Places
<1>6. OfClicks'
  BY <1>1, <1>3, <1>4 DEF WorkerInv, WorkerTypeOK, OfClicks
<1> QED
  BY <1>4, <1>5, <1>6 DEF WorkerInv

\* So do the messages it handles, and its end.
LEMMA WorkerKeepsFiles ==
  ASSUME WorkerInv, WorkerStep \/ StopWorker
  PROVE  WorkerInv'
<1>1. CASE HandleStage \/ HandleForget
  <2> DEFINE msg == Head(inbox)
  <2>0. inbox # <<>>
    BY <1>1 DEF HandleStage, HandleForget
  <2>1. msg \in OwnName /\ inbox' \in Seq(OwnName) /\ inbox' \in Seq(Messages)
    BY <1>1, <2>0, QueueKept, QueueTyped DEF WorkerInv, HandleStage, HandleForget
  <2>2. UNCHANGED <<workerReady, clicks, of, at, got, forgetting, stops, abandoned>>
    BY <1>1 DEF HandleStage, HandleForget
  <2>3. CASE HandleStage
    <3>1. /\ msg.type = "stage" /\ downloads' = [downloads EXCEPT ![msg.name] = msg.file]
          /\ answered' = answered \cup {msg.click}
      BY <2>3 DEF HandleStage
    <3> HIDE DEF msg
    <3>2. msg.name \in Names /\ msg.file \in Entries /\ msg.click \in Clicks /\ msg.name = BaseName[msg.file]
      BY <2>1, <3>1 DEF OwnName, Messages
    <3>3. WorkerTypeOK'
      BY <2>1, <2>2, <3>1, <3>2 DEF WorkerInv, WorkerTypeOK
    <3>4. \A n \in Names : downloads'[n] # NoEntry => BaseName[downloads'[n]] = n
      BY <3>1, <3>2 DEF WorkerInv, WorkerTypeOK
    <3> QED
      BY <2>1, <2>2, <3>3, <3>4 DEF WorkerInv, OfClicks
  <2>4. CASE HandleForget
    <3>1. downloads' = [downloads EXCEPT ![msg.name] = NoEntry] /\ UNCHANGED answered
      BY <2>4 DEF HandleForget
    <3> HIDE DEF msg
    <3>2. WorkerTypeOK'
      BY <2>1, <2>2, <3>1 DEF WorkerInv, WorkerTypeOK
    <3>3. \A n \in Names : downloads'[n] # NoEntry => BaseName[downloads'[n]] = n
      BY <3>1 DEF WorkerInv, WorkerTypeOK
    <3> QED
      BY <2>1, <2>2, <3>2, <3>3 DEF WorkerInv, OfClicks
  <2> QED
    BY <1>1, <2>3, <2>4
<1>2. CASE StopWorker
  <2>1. inbox' \in Seq(OwnName) /\ inbox' \in Seq(Messages)
    BY <1>2, QueueKept, QueueTyped DEF WorkerInv, StopWorker
  <2>2. WorkerTypeOK'
    BY <1>2, <2>1, WorkerAssumption DEF WorkerInv, WorkerTypeOK, StopWorker
  <2> QED
    BY <1>2, <2>1, <2>2 DEF WorkerInv, OfClicks, StopWorker
<1>3. CASE \E c \in Clicks : Respond(c)
  BY <1>3, ResponseKeepsFiles
<1> QED
  BY <1>1, <1>2, <1>3 DEF WorkerStep

\* Every step keeps the invariant.
LEMMA FilesKept ==
  ASSUME FilesInv, [Next]_vars
  PROVE  FilesInv'
<1>1. ASSUME UNCHANGED worker PROVE WorkerInv'
  BY <1>1 DEF FilesInv, worker, WorkerInv, WorkerTypeOK, OfClicks
<1>2. ASSUME UNCHANGED <<listed, open, worker>> PROVE FilesInv'
  BY <1>1, <1>2 DEF FilesInv
<1>3. CASE Type \/ Commit \/ PressLoad \/ Settle \/ ReadPassword
  BY <1>2, <1>3 DEF Type, Commit, PressLoad, Settle, ReadPassword, Rest
<1>4. CASE Fetch \/ ReadBody \/ OpenArchive \/ Decrypt
  BY <1>2, <1>4 DEF Fetch, ReadBody, OpenArchive, Decrypt, Rest
<1>5. CASE Unzip
  BY <1>1, <1>5, FirstIsAFile DEF FilesInv, Unzip, OpenEntry, Files
<1>6. CASE ChangeLanguage \/ \E e \in Files : Open(e)
  BY <1>1, <1>6, FirstIsAFile DEF FilesInv, ChangeLanguage, Open, OpenEntry, Shown, Files
<1>7. CASE ClickLink
  BY <1>7, DownloadStarts DEF FilesInv, ClickLink, Shown
<1>8. CASE ClickAll
  BY <1>8, DownloadStarts, PageAssumption DEF FilesInv, ClickAll, Shown
<1>9. CASE (\E c \in Clicks : Continue(c)) \/ ((Registering \/ Controlling) /\ Freed)
  BY <1>9, ClickStepKeepsFiles, WaitKeepsFiles DEF FilesInv, Continue, Freed, Shown
<1>10. CASE ProgressTimer \/ UNCHANGED vars
  BY <1>2, <1>10 DEF ProgressTimer, vars, page
<1>11. CASE Work
  BY <1>11, WorkerKeepsFiles DEF FilesInv, Work, page
<1>12. CASE Leave
  BY <1>12, WaitKeepsFiles DEF FilesInv, Leave
<1> QED
  BY <1>3, <1>4, <1>5, <1>6, <1>7, <1>8, <1>9, <1>10, <1>11, <1>12 DEF Next, Visit, Load

\* A click saves the file it was made on, or one of the same name that was
\* staged after it - never another (download.js, prepareDownload;
\* download-sw.js, downloadResponse) - though the worker is stopped, messages
\* are lost with it, the page gives up on answers that are on their way or is
\* left, and all clicks share one wait for the worker.
THEOREM OwnFiles == Spec => []OwnFileSaved
<1>1. FilesInv => OwnFileSaved
  BY DEF FilesInv, WorkerInv, WorkerTypeOK, OfClicks, OwnFileSaved
<1>2. FilesInv /\ [Next]_vars => FilesInv'
  BY FilesKept
<1> QED
  BY FilesStart, <1>1, <1>2, PTL DEF Spec
=============================================================================
