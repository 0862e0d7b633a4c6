------------------------ MODULE SupervisorRefinement ------------------------
(***************************************************************************)
(* The job task implements the contract of a Job: the refinement mapping.  *)
(***************************************************************************)
EXTENDS SupervisorJob

Unanswered == (1 .. Len(sent)) \ raised
OfPriority(p) == {t \in Unanswered : sent[t].prio = p}
LiveProcess == IF spawned \in alive THEN spawned ELSE 0

Contract == INSTANCE JobContract WITH
  issued  <- Len(sent),
  line    <- OfPriority("Normal"),
  waits   <- OfPriority("High"),
  urgent  <- OfPriority("Urgent"),
  live    <- LiveProcess,
  started <- spawned,
  over    <- gone

(* Every behaviour of the job task is one the contract allows.             *)
ImplementsContract == Contract!Spec
=============================================================================
