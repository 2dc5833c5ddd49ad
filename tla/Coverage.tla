------------------------------ MODULE Coverage ------------------------------
(***************************************************************************)
(* What batch coverage promises: a batch is bound once to one commit, and  *)
(* is counted once after that.  Neither is ever taken back or changed.     *)
(***************************************************************************)
CONSTANTS Batches, Commits, NoCommit

VARIABLES
  audited,   \* commit each batch is bound to
  done       \* batches that count as covered

Init ==
  /\ audited = [b \in Batches |-> NoCommit]
  /\ done = {}

Bind(b, c) ==
  /\ audited[b] = NoCommit
  /\ audited' = [audited EXCEPT ![b] = c]
  /\ UNCHANGED done

Finish(b) ==
  /\ audited[b] # NoCommit /\ b \notin done
  /\ done' = done \cup {b}
  /\ UNCHANGED audited

Next == \E b \in Batches : Finish(b) \/ \E c \in Commits : Bind(b, c)

Spec == Init /\ [][Next]_<<audited, done>>
=============================================================================
