------------------------------ MODULE JournalLog ------------------------------
(***************************************************************************)
(* What the Journal of the offline queue (src/src/core/journal.ts)         *)
(* promises: records come back in the order they were appended, and one    *)
(* leaves the log only after it has been sent - "never a gap".  Records    *)
(* are numbered in the order of their append() calls.                      *)
(***************************************************************************)
EXTENDS Naturals, Sequences

VARIABLES
  issued,   \* append() calls so far
  waiting,  \* the uncommitted records, oldest first
  sent      \* the records sent to FDMS at least once

vars == <<issued, waiting, sent>>

Init ==
  /\ issued = 0
  /\ waiting = <<>>
  /\ sent = {}

Enter ==
  /\ issued' = issued + 1
  /\ waiting' = Append(waiting, issued + 1)
  /\ UNCHANGED sent

\* An append() cut short by a crash leaves no record.
EnterLost ==
  /\ issued' = issued + 1
  /\ UNCHANGED <<waiting, sent>>

Send ==
  /\ waiting # <<>>
  /\ sent' = sent \cup {Head(waiting)}
  /\ UNCHANGED <<issued, waiting>>

Commit ==
  /\ waiting # <<>> /\ Head(waiting) \in sent
  /\ waiting' = Tail(waiting)
  /\ UNCHANGED <<issued, sent>>

Next == Enter \/ EnterLost \/ Send \/ Commit

Spec == Init /\ [][Next]_vars

=============================================================================
