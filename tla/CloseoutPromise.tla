--------------------------- MODULE CloseoutPromise ---------------------------
(***************************************************************************)
(* What the end of a run promises, without files, scripts or crashes: the  *)
(* run holds its branch and worktree until they are released, a decision   *)
(* is recorded only while it holds them, and the verdict, given once and   *)
(* never changed, is the decision on record at the release.                *)
(***************************************************************************)
CONSTANTS Outcomes, None

VARIABLES
  held,      \* the run's branch or worktree exists
  decision,  \* outcome its removal was authorised for, or None
  verdict    \* terminal outcome of the run, or None

vars == <<held, decision, verdict>>

Init == held = TRUE /\ decision = None /\ verdict = None

Decide(o) ==
  /\ held
  /\ decision' = o
  /\ UNCHANGED <<held, verdict>>

Release ==
  /\ held
  /\ held' = FALSE
  /\ UNCHANGED <<decision, verdict>>

Conclude ==
  /\ ~held
  /\ verdict = None
  /\ decision # None
  /\ verdict' = decision
  /\ UNCHANGED <<held, decision>>

Next == (\E o \in Outcomes : Decide(o)) \/ Release \/ Conclude

Spec == Init /\ [][Next]_vars
=============================================================================
