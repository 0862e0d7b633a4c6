------------------------------ MODULE MainTask ------------------------------
(***************************************************************************)
(* The main task of watchexec and the five workers it joins: the action    *)
(* worker, the filesystem, signal and keyboard sources, and the error      *)
(* hook.  Sources send events, everybody sends runtime errors, the hook    *)
(* may turn one into a critical error, and the end of a worker decides     *)
(* whether the main task goes on, closes the event channel, ends well or   *)
(* fails.                                                                  *)
(*                                                                         *)
(* Of the action and filesystem workers only what they send and how they   *)
(* end is here (see ActionWorker and FsWorker); the keyboard's worker is   *)
(* the one of Keyboard.                                                    *)
(***************************************************************************)
EXTENDS Keyboard, Bags

CONSTANTS
  Signals,     \* signals the process listens to
  Urgent,      \* those that by-pass the filters
  EventSize,   \* config.event_channel_size
  ErrorSize,   \* config.error_channel_size
  MaxRaises,   \* bound: signals raised in one behaviour
  MaxErrors    \* bound: errors the filter and the watcher report in one behaviour

ASSUME MainBounds ==
  /\ Urgent \subseteq Signals /\ EventSize \in Nat \ {0} /\ ErrorSize \in Nat \ {0}
  /\ MaxRaises \in Nat /\ MaxErrors \in Nat

Workers == {"action", "fs", "signal", "keyboard", "error"}
Ended == {"ok", "exit", "failed", "panicked"}

VARIABLES
  worker,      \* worker[x]: "run", a value of Ended, "joined" or "aborted"
  events,      \* the event channel, a bag of signals and "key"
  closed,      \* the event channel is closed
  errors,      \* the error channel: "plain", or "exit" for RuntimeError::Exit
  report,      \* report[x]: the error worker x is sending, or "none"
  handling,    \* the event the user's handler was called for, or "none"
  raised,      \* number of signals raised, from a start that leaves room for some
  reported,    \* number of errors of the filter and the watcher, likewise
  pending,     \* signals the OS keeps for the process
  inHand,      \* the signal the signal worker is sending, or "none"
  main,        \* "joining", "closing" or "ended"
  result,      \* result of the main task: "none", "ok" or "err"
  runtime,     \* the runtime is up
  asked,       \* history: the hook took a request for a graceful exit
  lateReport   \* history: a report found the hook gone

channels == <<events, closed, errors, report>>
signalVars == <<raised, pending, inHand>>
mainVars == <<main, result, runtime>>
history == <<asked, lateReport>>
coreVars == <<worker, channels, handling, signalVars, reported, mainVars, history>>
vars == <<keyboardVars, coreVars>>

(* The signal worker has its listeners set, or failed to set one.          *)
Init ==
  /\ KeyboardInit
  /\ \E signal \in {"run", "failed"} :
       worker = [x \in Workers |-> IF x = "signal" THEN signal ELSE "run"]
  /\ events = EmptyBag /\ closed = FALSE /\ errors = <<>>
  /\ report = [x \in Workers |-> "none"]
  /\ handling = "none" /\ pending = {} /\ inHand = "none"
  /\ raised \in 0 .. MaxRaises /\ reported \in 0 .. MaxErrors
  /\ main = "joining" /\ result = "none" /\ runtime = TRUE
  /\ asked = FALSE /\ lateReport = FALSE

Runs(x) == worker[x] = "run" /\ report[x] = "none"
Ends(x, how) == worker' = [worker EXCEPT ![x] = how]
Room == BagCardinality(events) < EventSize
HookGone == worker["error"] # "run"

-----------------------------------------------------------------------------
(* mpsc::Sender::send of an error: it waits for room, and fails once the   *)
(* hook dropped the receiver; `?` makes that failure the worker's end.     *)
Report(x) ==
  /\ worker[x] = "run" /\ report[x] # "none"
  /\ report' = [report EXCEPT ![x] = "none"]
  /\ \/ /\ HookGone
        /\ Ends(x, "failed") /\ lateReport' = TRUE /\ UNCHANGED errors
     \/ /\ ~HookGone /\ Len(errors) < ErrorSize
        /\ errors' = Append(errors, report[x]) /\ UNCHANGED <<worker, lateReport>>
  /\ UNCHANGED <<keyboardVars, events, closed, handling, signalVars, reported, mainVars, asked>>

(* error_hook: Exit becomes critical at once; any other error goes to the  *)
(* user's handler, which may set a critical error of its own.              *)
Hook ==
  /\ Runs("error") /\ errors # <<>>
  /\ errors' = Tail(errors)
  /\ \/ Ends("error", "exit") /\ asked' = TRUE
     \/ Head(errors) = "plain" /\ (UNCHANGED worker \/ Ends("error", "failed")) /\ UNCHANGED asked
  /\ UNCHANGED <<keyboardVars, events, closed, report, handling, signalVars, reported, mainVars, lateReport>>

(* The filesystem worker fails to make a watcher, or to watch a path.      *)
Watch ==
  /\ Runs("fs") /\ reported < MaxErrors /\ reported' = reported + 1
  /\ \/ Ends("fs", "failed") /\ UNCHANGED report
     \/ report' = [report EXCEPT !["fs"] = "plain"] /\ UNCHANGED worker
  /\ UNCHANGED <<keyboardVars, events, closed, errors, handling, signalVars, mainVars, history>>

-----------------------------------------------------------------------------
(* The process gets a signal; the listener keeps one of each kind.         *)
Raise(s) ==
  /\ raised < MaxRaises /\ raised' = raised + 1
  /\ pending' = pending \cup {s}
  /\ UNCHANGED <<keyboardVars, worker, channels, handling, inHand, reported, mainVars, history>>

Receive(s) ==
  /\ Runs("signal") /\ inHand = "none" /\ s \in pending
  /\ inHand' = s /\ pending' = pending \ {s}
  /\ UNCHANGED <<keyboardVars, worker, channels, handling, raised, reported, mainVars, history>>

(* Sender::send waits for room; on a closed channel it fails, and that     *)
(* failure is reported.                                                    *)
AnySendSignal(whenFull) ==
  /\ Runs("signal") /\ inHand # "none" /\ inHand' = "none"
  /\ \/ closed /\ report' = [report EXCEPT !["signal"] = "plain"] /\ UNCHANGED events
     \/ ~closed /\ Room /\ events' = events (+) SetToBag({inHand}) /\ UNCHANGED report
     \/ ~closed /\ ~Room /\ whenFull /\ UNCHANGED <<events, report>>
  /\ UNCHANGED <<keyboardVars, worker, closed, errors, handling, raised, pending, reported, mainVars, history>>
TrySendSignal == AnySendSignal(TRUE)
SendSignal == AnySendSignal(FALSE)

(* The keyboard's send_event, whose own failure nobody looks at.           *)
SendKey(n) ==
  /\ Sent(n)
  /\ \/ ~closed /\ Room /\ events' = events (+) SetToBag({"key"}) /\ UNCHANGED errors
     \/ closed /\ HookGone /\ UNCHANGED <<events, errors>>
     \/ closed /\ ~HookGone /\ Len(errors) < ErrorSize /\ errors' = Append(errors, "plain") /\ UNCHANGED events
  /\ UNCHANGED <<worker, closed, report, handling, signalVars, reported, mainVars, history>>

-----------------------------------------------------------------------------
(* The action worker takes an urgent event first; others pass the filter,  *)
(* which turns them down or fails, with RuntimeError::Exit at will.        *)
First(e) == BagIn(e, events) /\ (e \in Urgent \/ BagToSet(events) \cap Urgent = {})

Act(e) ==
  /\ Runs("action") /\ handling = "none" /\ ~closed /\ First(e)
  /\ events' = events (-) SetToBag({e})
  /\ \/ handling' = e /\ UNCHANGED <<report, reported>>
     \/ /\ e \notin Urgent /\ reported < MaxErrors /\ UNCHANGED handling
        /\ \/ UNCHANGED <<report, reported>>
           \/ /\ report' \in {[report EXCEPT !["action"] = k] : k \in {"plain", "exit"}}
              /\ reported' = reported + 1
  /\ UNCHANGED <<keyboardVars, worker, closed, errors, signalVars, mainVars, history>>

(* The user's handler returns; for a signal it may ask to quit, or panic.  *)
HandlerEnds ==
  /\ Runs("action") /\ handling # "none" /\ handling' = "none"
  /\ \/ UNCHANGED worker
     \/ handling \in Signals /\ (Ends("action", "ok") \/ Ends("action", "panicked"))
  /\ UNCHANGED <<keyboardVars, channels, signalVars, reported, mainVars, history>>

ChannelClosed ==
  /\ Runs("action") /\ handling = "none" /\ closed /\ Ends("action", "ok")
  /\ UNCHANGED <<keyboardVars, channels, handling, signalVars, reported, mainVars, history>>

-----------------------------------------------------------------------------
(* The main task joins the workers that ended, in any order.  Only the     *)
(* action worker ever ends well or panics; either ends the main task well. *)
Closing(how) == main' = "closing" /\ result' = how
Fail == main' = "ended" /\ result' = "err" /\ UNCHANGED closed

AnyJoin(x, OnExit) ==
  /\ main = "joining" /\ worker[x] \in Ended
  /\ Ends(x, "joined")
  /\ \/ worker[x] \in {"ok", "panicked"} /\ Closing("ok") /\ UNCHANGED closed
     \/ worker[x] = "exit" /\ OnExit
     \/ worker[x] = "failed" /\ Fail
  /\ UNCHANGED <<keyboardVars, events, errors, report, handling, signalVars, reported, runtime, history>>
JoinKeepsOpen(x) == AnyJoin(x, UNCHANGED <<closed, main, result>>)
JoinExitFails(x) == AnyJoin(x, Fail)
Join(x) == AnyJoin(x, closed' = TRUE /\ UNCHANGED <<main, result>>)

(* shutdown() and the drop of the JoinSet abort the workers that are left, *)
(* in any order; it matters only for the keyboard's.                       *)
Abort(group) ==
  /\ main # "joining" /\ \E x \in group : worker[x] = "run"
  /\ worker' = [x \in Workers |-> IF x \in group /\ worker[x] = "run" THEN "aborted" ELSE worker[x]]
  /\ IF "keyboard" \in group THEN DropWorker ELSE UNCHANGED keyboardVars
  /\ UNCHANGED <<channels, handling, signalVars, reported, mainVars, history>>

(* shutdown() also waits for them.                                         *)
MainEnds ==
  /\ main = "closing" /\ \A x \in Workers : worker[x] # "run"
  /\ main' = "ended"
  /\ UNCHANGED <<keyboardVars, worker, channels, handling, signalVars, reported, result, runtime, history>>

(* The command's main returns: the runtime drops the tasks that are left,  *)
(* and waits for the blocking threads.                                     *)
RuntimeEnds ==
  /\ main = "ended" /\ runtime /\ runtime' = FALSE
  /\ worker' = [x \in Workers |-> IF worker[x] = "run" THEN "aborted" ELSE worker[x]]
  /\ task' = [n \in Sessions |-> IF Listening(n) THEN "dropped" ELSE task[n]]
  /\ watching' = "gone" /\ current' = 0 /\ closing' = closing \cup ({current} \ {0})
  /\ UNCHANGED <<settings, born, cancel, threads, pipe, channels, handling, signalVars, reported, main, result, history>>

-----------------------------------------------------------------------------
KeyboardWorker == worker["keyboard"] = "run" /\ WorkerStep /\ UNCHANGED coreVars
KeyboardTask(n) == (Closed(n) \/ Take(n) \/ ThreadEnded(n)) /\ UNCHANGED coreVars
KeyboardThread(n) == ThreadStep(n) /\ UNCHANGED coreVars
Type(n) == Read(n) /\ UNCHANGED coreVars
Configure == Toggle /\ UNCHANGED coreVars

Groups == {{"keyboard"}, Workers \ {"keyboard"}}

MainStep == (\E x \in Workers : Join(x)) \/ (\E g \in Groups : Abort(g)) \/ MainEnds \/ RuntimeEnds
ActionStep ==
  Report("action") \/ HandlerEnds \/ ChannelClosed \/ \E e \in Signals \cup {"key"} : Act(e)
SignalStep == Report("signal") \/ SendSignal \/ \E s \in Signals : Receive(s)

Next == \/ MainStep \/ Hook \/ ActionStep \/ SignalStep \/ Watch \/ Report("fs")
        \/ KeyboardWorker \/ Configure
        \/ \E s \in Signals : Raise(s)
        \/ \E n \in Sessions : KeyboardTask(n) \/ SendKey(n) \/ KeyboardThread(n) \/ Type(n)

Spec == Init /\ [][Next]_vars

(* The runtime polls every task, select! takes either of its branches, and *)
(* a channel serves those who wait for room in turn; threads run, and a    *)
(* handler returns.  The user owes no key, and nobody a signal or setting. *)
Fairness ==
  /\ WF_vars(MainStep) /\ WF_vars(Hook) /\ WF_vars(ActionStep) /\ SF_vars(SignalStep)
  /\ WF_vars(KeyboardWorker)
  /\ \A n \in Sessions : /\ WF_vars(Closed(n) /\ UNCHANGED coreVars)
                         /\ WF_vars(KeyboardTask(n) \/ SendKey(n)) /\ WF_vars(KeyboardThread(n))

FairSpec == Spec /\ Fairness

-----------------------------------------------------------------------------
(* critical.rs:12, a pseudo-error that asks for a graceful exit: once the  *)
(* hook took it, the main task ends, whatever the channels hold and        *)
(* whatever the workers are waiting for.                                   *)
ExitIsAnswered == asked ~> main = "ended"

(* And it ends without an error, unless a worker failed by itself or had   *)
(* an error to report in the time between the hook's end and its own.      *)
ExitIsClean ==
  asked /\ result = "err" => lateReport \/ "joined" \in {worker["fs"], worker["signal"]}

(* A signal the process got becomes an event, also when the channel is     *)
(* full, unless watchexec ends.                                            *)
SignalsArrive ==
  \A s \in Signals : s \in pending ~> BagIn(s, events) \/ main # "joining" \/ closed

(* keyboard.rs:201-202, the thread is told to stop since a stdin that      *)
(* blocks would hang the process on shutdown.                              *)
ProcessEnds == main = "ended" ~> AllLeft
=============================================================================
