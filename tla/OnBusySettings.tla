---------------------------- MODULE OnBusySettings --------------------------
(* Settings of watchexec for TLC: one for every mode, three batches for    *)
(* the queue mode (to run, to queue, to find a queued run), two elsewhere. *)
EXTENDS TLC

Setting(mode, interactive, timeout, exitOnError, windows) ==
  [mode |-> mode, interactive |-> interactive, timeout |-> timeout,
   exitOnError |-> exitOnError, windows |-> windows]
FourSettings ==
  {Setting("queue", FALSE, FALSE, FALSE, FALSE), Setting("restart", TRUE, TRUE, TRUE, FALSE),
   Setting("do-nothing", FALSE, TRUE, FALSE, TRUE), Setting("signal", FALSE, FALSE, TRUE, TRUE)}
ExitOnErrorSettings == {Setting("queue", FALSE, FALSE, TRUE, FALSE)}
SomeBatches == {{"change"}, {"restart"}, {"pause", "quit"}, {"change", "signal"},
                {"change", "interrupt"}}
UpToThree == "queue" :> 3 @@ [mode \in {"do-nothing", "signal", "restart"} |-> 2]
=============================================================================
