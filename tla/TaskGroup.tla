----------------------------- MODULE TaskGroup -----------------------------
(***************************************************************************)
(* What a scheduler promises about the tasks it runs, whatever makes it    *)
(* run them: tasks begin while it is open, it drains when no more begin,   *)
(* it closes when the last one has ended, and it does close.               *)
(***************************************************************************)
CONSTANT Workers

VARIABLES
  phase,   \* "open", "draining" or "closed"
  busy     \* the workers that have a task

groupVars == <<phase, busy>>

GroupInit == phase = "open" /\ busy = {}

Begin(S) ==
  /\ phase = "open"
  /\ busy' = busy \cup S
  /\ UNCHANGED phase

End(w) ==
  /\ w \in busy
  /\ busy' = busy \ {w}
  /\ UNCHANGED phase

Drain == phase = "open" /\ phase' = "draining" /\ UNCHANGED busy

Close == phase = "draining" /\ busy = {} /\ phase' = "closed" /\ UNCHANGED busy

GroupNext ==
  \/ \E S \in SUBSET (Workers \ busy) : Begin(S)
  \/ \E w \in Workers : End(w)
  \/ Drain \/ Close

GroupSafe == GroupInit /\ [][GroupNext]_groupVars

GroupSpec ==
  /\ GroupSafe
  /\ WF_groupVars(Close)
  /\ \A w \in Workers : WF_groupVars(End(w))
=============================================================================
