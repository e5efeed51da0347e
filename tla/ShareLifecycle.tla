---------------------------- MODULE ShareLifecycle ----------------------------
(***************************************************************************)
(* What the share server promises about shares, without files, rows or    *)
(* locks: a share is one thing that appears whole, stays until there is a *)
(* reason for it to go, and never comes back; the live shares fit the     *)
(* storage cap, but for one upload for each time they were miscounted.    *)
(***************************************************************************)
EXTENDS Integers, FiniteSets

CONSTANTS Ids, Legacy, Cap, MaxUpload

VARIABLES
  live,      \* shares that exist
  payload,   \* their sizes, 0 for what does not exist
  spent,     \* ids that have been used up, for a share or a failed upload
  doomed,    \* live shares there is a reason to drop
  lost,      \* shares somebody outside the server has destroyed
  missed     \* how often the stored shares could not be counted

abstractVars == <<live, payload, spent, doomed, lost, missed>>

Load(f) == Cardinality({b \in Ids \X (1..MaxUpload) : b[2] <= f[b[1]]})

Init ==
  /\ live \in SUBSET Legacy /\ spent = Legacy /\ doomed \in SUBSET live
  /\ payload \in [Ids -> Nat] /\ \A i \in Ids \ live : payload[i] = 0
  /\ Load(payload) <= Cap
  /\ lost = {} /\ missed = 0

\* A share appears under an id never used before, within the cap.  A slow
\* upload may find its share expired by then.
Put(i) ==
  /\ i \notin spent
  /\ \E n \in 0..MaxUpload : payload' = [payload EXCEPT ![i] = n]
  /\ Load(payload') <= Cap + missed * MaxUpload
  /\ live' = live \cup {i} /\ spent' = spent \cup {i}
  /\ doomed' \in {doomed, doomed \cup {i}}
  /\ UNCHANGED <<lost, missed>>

\* Uploads end without a share, one by failing or all at once in a crash.
Abandon == spent' \in SUBSET Ids /\ spent \subseteq spent' /\ UNCHANGED <<live, payload, doomed, lost, missed>>

\* A reason arises: expiry, or an administrator's choice.
Doom == doomed' \in SUBSET live /\ doomed \subseteq doomed' /\ UNCHANGED <<live, payload, spent, lost, missed>>

Gone(i) ==
  /\ live' = live \ {i} /\ doomed' = doomed \ {i}
  /\ payload' = [payload EXCEPT ![i] = 0]
  /\ UNCHANGED <<spent, missed>>

\* The server drops only what is doomed.
Drop(i) == i \in doomed /\ Gone(i) /\ UNCHANGED lost

\* A share may be destroyed from outside, and is remembered as such.
Lose(i) == i \in live /\ Gone(i) /\ lost' = lost \cup {i}

\* What is no share may be edited from outside as well.
Edit == lost' \in SUBSET Ids /\ UNCHANGED <<live, payload, spent, doomed, missed>>

\* The stored shares are miscounted once more, for an upload that may fail.
Miscount ==
  /\ missed' = missed + 1
  /\ spent' \in SUBSET Ids /\ spent \subseteq spent'
  /\ UNCHANGED <<live, payload, doomed, lost>>

Next == (\E i \in Ids : Put(i) \/ Drop(i) \/ Lose(i)) \/ Abandon \/ Doom \/ Edit \/ Miscount

Spec == Init /\ [][Next]_abstractVars
=============================================================================
