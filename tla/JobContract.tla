---------------------------- MODULE JobContract ----------------------------
(***************************************************************************)
(* What a Job promises to the holders of its tickets, whatever its task    *)
(* does inside: a serial server.  Normal controls are answered one at a    *)
(* time, oldest first; a to_wait is answered only when the process it      *)
(* could have waited for is over; at most one process lives at any time.   *)
(***************************************************************************)
EXTENDS Naturals

VARIABLES
  issued,   \* number of controls sent
  line,     \* normal controls that wait for their answer
  waits,    \* to_wait controls that wait for their answer
  urgent,   \* urgent controls that wait for their answer
  live,     \* the live process, 0 for none
  started,  \* number of processes started
  over      \* the job is gone

vars == <<issued, line, waits, urgent, live, started, over>>

Init ==
  /\ issued = 0
  /\ line = {} /\ waits = {} /\ urgent = {}
  /\ live = 0 /\ started = 0 /\ over = FALSE

Issue ==
  /\ issued' = issued + 1
  /\ \/ line' = line \cup {issued + 1} /\ UNCHANGED <<waits, urgent>>
     \/ waits' = waits \cup {issued + 1} /\ UNCHANGED <<line, urgent>>
     \/ urgent' = urgent \cup {issued + 1} /\ UNCHANGED <<line, waits>>
  /\ UNCHANGED <<live, started, over>>

Same    == UNCHANGED <<live, started>>
End     == live' = 0 /\ UNCHANGED started
Begin   == live = 0 /\ started' = started + 1 /\ live' = started'
Replace == live # 0 /\ started' = started + 1 /\ live' = started'

AnswerOldest == \E t \in line : (\A u \in line : t <= u) /\ line' = line \ {t}
AnswerUrgent == \E t \in urgent : urgent' = urgent \ {t}
AnswerWaits  == waits' \subseteq waits /\ (live' = live => live = 0)

(* One step of the task: the process may change, one control at most is    *)
(* answered, and waiters with it once their process is over.               *)
Serve ==
  /\ ~over
  /\ Same \/ End \/ Begin \/ Replace
  /\ AnswerOldest \/ UNCHANGED line
  /\ AnswerUrgent \/ UNCHANGED urgent
  /\ AnswerWaits \/ UNCHANGED waits
  /\ UNCHANGED <<issued, over>>

Close == over' = TRUE /\ UNCHANGED <<issued, line, waits, urgent, live, started>>

(* A process outlives the job only until it is killed.                     *)
Reap == over /\ live # 0 /\ End /\ UNCHANGED <<issued, line, waits, urgent, over>>

Next == Issue \/ Serve \/ Close \/ Reap

Spec == Init /\ [][Next]_vars
=============================================================================
