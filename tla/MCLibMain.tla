----------------------------- MODULE MCLibMain -----------------------------
(* Instances of MainTask for TLC.  The keyboard's threads and the rest     *)
(* interleave too freely to run together at full length: one behaviour has *)
(* either many settings, or many signals and errors, or a few of each; and *)
(* the signal worker fails at the start only where there are no settings.  *)
EXTENDS MainTask

Keys  == toggles = 0 /\ wanted /\ raised = MaxRaises /\ reported = MaxErrors
Core  == toggles = MaxToggles /\ ~wanted /\ raised = 0 /\ reported = 0
Mixed == toggles = MaxToggles /\ wanted /\ raised = MaxRaises - 1 /\ reported = MaxErrors

FocusedInit == Init /\ (Keys \/ Core \/ Mixed) /\ (worker["signal"] = "failed" => Core)
FocusedSpec == FocusedInit /\ [][Next]_vars /\ Fairness
=============================================================================
