------------------------------ MODULE Progress ------------------------------
(***************************************************************************)
(* web/static/js/progress.js: the lines of the phases of a transfer.  The *)
(* first update of a phase is painted at once; later ones wait in one     *)
(* slot, shared by all phases, for a timer; a pulse repeats an update     *)
(* until it is stopped.  Percentages are left out: a line works, is done, *)
(* or has failed.                                                         *)
(*                                                                        *)
(* Every method is a function from the object to the object it leaves.    *)
(***************************************************************************)
EXTENDS FiniteSets

CONSTANTS Phases, Nothing

States == {"working", "done", "failed"}

\* The phases share.js names, among them.
ASSUME ProgressAssumption ==
  {"download", "decrypt", "unzip"} \subseteq Phases /\ Nothing \notin [phase : Phases, state : States]

\* pending is the queued update, timer whether a flush is scheduled.
ProgressType ==
  [line    : [Phases -> States \cup {"none"}],
   failed  : SUBSET Phases,
   pulses  : SUBSET Phases,
   pending : [phase : Phases, state : States] \cup {Nothing},
   timer   : BOOLEAN]

\* reset
Fresh ==
  [line |-> [f \in Phases |-> "none"], failed |-> {}, pulses |-> {},
   pending |-> Nothing, timer |-> FALSE]

Seen(g, f) == g.line[f] # "none"

\* set
Set(g, f, state) ==
  IF f \in g.failed THEN g
  ELSE IF ~Seen(g, f) THEN [g EXCEPT !.line[f] = state]
  ELSE [g EXCEPT !.pending = [phase |-> f, state |-> state], !.timer = TRUE]

\* flush, when the timer fires
Flush(g) ==
  [g EXCEPT !.timer = FALSE, !.pending = Nothing,
            !.line = IF g.pending = Nothing \/ g.pending.phase \in g.failed THEN @
                     ELSE [@ EXCEPT ![g.pending.phase] = g.pending.state]]

\* fail and done drop what is queued, whatever phase it is of.
Fail(g, f) ==
  [g EXCEPT !.failed = @ \cup {f}, !.timer = FALSE, !.pending = Nothing, !.line[f] = "failed"]

\* Mutated form of Done: the queued update survives.
DoneKeepsQueue(g, f) ==
  IF f \in g.failed THEN g ELSE [g EXCEPT !.line[f] = "done"]

Done(g, f) ==
  IF f \in g.failed THEN g
  ELSE [g EXCEPT !.timer = FALSE, !.pending = Nothing, !.line[f] = "done"]

\* pulse, its interval, and the function it returns
Pulse(g, f)     == Set([g EXCEPT !.pulses = @ \cup {f}], f, "working")
Tick(g, f)      == IF f \in g.pulses THEN Set(g, f, "working") ELSE g
StopPulse(g, f) == [g EXCEPT !.pulses = @ \ {f}]

\* What the timers of the object may do to it, at any time.
TimerResults(g) ==
  (IF g.timer THEN {Flush(g)} ELSE {}) \cup {Tick(g, f) : f \in g.pulses}

=============================================================================
