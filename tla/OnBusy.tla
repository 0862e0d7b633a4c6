------------------------------- MODULE OnBusy -------------------------------
(***************************************************************************)
(* The action handler of the watchexec command: what a batch of events     *)
(* does to the one command it runs, in the four --on-busy-update modes,    *)
(* with --interactive keys, --timeout and --exit-on-error.                 *)
(*                                                                         *)
(* Four kinds of task send controls to the job: the handler, the job       *)
(* itself (a function it runs may send), the queued restart, and one       *)
(* watcher per run of the command, which waits for its end or times it     *)
(* out.  The job is SupervisorJob seen from outside: it serves its normal  *)
(* queue in order, stands still in a grace period, and every kill works.   *)
(***************************************************************************)
EXTENDS Naturals, Sequences, Functions

CONSTANTS
  Configs,     \* the settings explored: a set of Config
  Batches,     \* the batches of events explored: sets of Kind
  MaxBatches   \* bound: batches in one behaviour, for every one of Modes

Modes == {"do-nothing", "signal", "restart", "queue"}
Config == [mode: Modes, interactive: BOOLEAN, timeout: BOOLEAN, exitOnError: BOOLEAN,
           windows: BOOLEAN]

ASSUME BusyAssumption == Configs \subseteq Config /\ MaxBatches \in [Modes -> Nat]

(* Kinds of event: a change (a path, or the empty event), the three keys,  *)
(* an unmapped interrupt or terminate signal, another signal.              *)
Keys == {"quit", "pause", "restart"}
Kind == {"change", "interrupt", "signal"} \cup Keys

Bound == CHOOSE n \in Range(MaxBatches) : \A i \in Range(MaxBatches) : i <= n

Senders == {"handler", "job", "queuer"}

VARIABLES
  setting,     \* the settings of this behaviour
  calls,       \* batches handled so far
  asked,       \* calls that got as far as asking the job to run
  restarts,    \* calls that were a restart key
  paused,      \* paused
  quitting,    \* the handler has asked to quit
  shouldQuit,  \* should_quit
  synthetic,   \* the synthetic event is on its way to the handler
  todo,        \* todo[s]: controls s is about to send, in order
  queue,       \* the job's normal queue
  cmd,         \* the job's command state
  grace,       \* its stop timer is set
  gone,        \* it was deleted
  runs,        \* the outcome of every process spawned; the last is the child
  watchers,    \* where every watcher is
  queuer,      \* where the queued restart is
  queued,      \* queued
  tried,       \* history: `asked` at the last attempt to spawn
  skipped,     \* history: changes a busy job did nothing about
  followed     \* history: the child at the setup of every watcher, 0 for none

handlerVars == <<setting, calls, asked, restarts, paused, quitting>>
procVars    == <<cmd, grace, runs>>
busyVars == <<setting, calls, asked, restarts, paused, quitting, shouldQuit, synthetic, todo,
             queue, cmd, grace, gone, runs, watchers, queuer, queued, tried, skipped, followed>>

child == Len(runs)

(* A control and whom it is from or for: the number of a change (query) or *)
(* of a watcher (its end, its stop), "queuer", or none.                    *)
Nobody == 0
Queuer == 2 * Bound + 1
Item(do, by) == [do |-> do, by |-> by]

BusyInit ==
  /\ setting \in Configs
  /\ calls = 0 /\ asked = 0 /\ restarts = 0
  /\ paused = FALSE /\ quitting = FALSE /\ shouldQuit = FALSE /\ synthetic = FALSE
  /\ todo = [s \in Senders |-> <<>>] /\ queue = <<>>
  /\ cmd = "Pending" /\ grace = FALSE /\ gone = FALSE /\ runs = <<>>
  /\ watchers = <<>> /\ followed = <<>>
  /\ queuer = "none" /\ queued = FALSE
  /\ tried = 0 /\ skipped = {}

-----------------------------------------------------------------------------
(* Sending.  Nobody waits between two sends, but another sender's control  *)
(* may land between them.                                                  *)

StopControl == IF setting.windows THEN "stop" ELSE "graceful"
StartAndSetup(who) == <<Item("start", who), Item("setup", who)>>
RestartAndSetup == <<Item(StopControl, Nobody)>> \o StartAndSetup(Nobody)

Send(s) ==
  /\ todo[s] # <<>>
  /\ queue' = Append(queue, Head(todo[s]))
  /\ todo' = [todo EXCEPT ![s] = Tail(@)]
  /\ UNCHANGED <<handlerVars, shouldQuit, synthetic, procVars, gone, watchers, queuer, queued,
                 tried, skipped, followed>>

HandlerSends(items) == todo' = [todo EXCEPT !["handler"] = items]
JobSends(items) == todo' = [todo EXCEPT !["job"] = items]

-----------------------------------------------------------------------------
(* The handler, one batch at a time.  Its early returns are in order: a    *)
(* command failed, a key, a signal to quit, nothing but signals, paused.   *)

QuitCmd ==
  /\ quitting' = TRUE
  /\ HandlerSends(<<Item(StopControl, Nobody), Item("stop", Nobody), Item("delete", Nobody)>>)
  /\ UNCHANGED <<asked, restarts, paused>>

(* The first key of the batch decides, whatever else is in it.             *)
PressKey(key) ==
  \/ key = "quit" /\ QuitCmd
  \/ key = "pause" /\ paused' = ~paused /\ UNCHANGED <<asked, restarts, quitting, todo>>
  \/ /\ key = "restart" /\ restarts' = restarts + 1
     /\ HandlerSends(RestartAndSetup)
     /\ UNCHANGED <<asked, paused, quitting>>

PassOn(batch) ==
  LET signals == IF "signal" \in batch THEN <<Item("signal", Nobody)>> ELSE <<>>
      goesOn  == "change" \in batch /\ ~paused
  IN  /\ asked' = IF goesOn THEN asked + 1 ELSE asked
      /\ HandlerSends(IF goesOn THEN Append(signals, Item("query", asked + 1)) ELSE signals)
      /\ UNCHANGED <<restarts, paused, quitting>>

Act(batch) ==
  LET keys == batch \cap Keys
  IN  \/ shouldQuit /\ QuitCmd
      \/ ~shouldQuit /\ \E key \in keys : PressKey(key)
      \/ ~shouldQuit /\ keys = {} /\ "interrupt" \in batch /\ QuitCmd
      \/ ~shouldQuit /\ keys = {} /\ "interrupt" \notin batch /\ PassOn(batch)

HandlerFree == ~quitting /\ todo["handler"] = <<>>

Handle(batch) ==
  /\ HandlerFree /\ calls < MaxBatches[setting.mode]
  /\ setting.interactive \/ batch \cap Keys = {}
  /\ calls' = calls + 1
  /\ Act(batch)
  /\ UNCHANGED <<setting, shouldQuit, synthetic, queue, procVars, gone, watchers, queuer, queued,
                 tried, skipped, followed>>

HandleSynthetic ==
  /\ HandlerFree /\ synthetic /\ synthetic' = FALSE
  /\ Act({"change"})
  /\ UNCHANGED <<setting, calls, shouldQuit, queue, procVars, gone, watchers, queuer, queued,
                 tried, skipped, followed>>

-----------------------------------------------------------------------------
(* The job.  A ticket for the end of the process resolves with it.         *)

Idle == cmd # "Running"
(* The ticket of a watcher's stop resolves at once when nothing runs, and  *)
(* with the end of the process otherwise.                                  *)
Answered(ws, w, state) == IF w = Nobody THEN ws ELSE [ws EXCEPT ![w] = state]
Answer(state) == watchers' = Answered(watchers, Head(queue).by, state)

Wakened ==
  [w \in DOMAIN watchers |-> IF watchers[w] \in {"await", "halting"} THEN "ended" ELSE watchers[w]]

ProcessEnds(by, outcome) ==
  /\ cmd = "Running"
  /\ cmd' = "Finished" /\ grace' = FALSE
  /\ runs' = [runs EXCEPT ![child] = outcome]
  /\ watchers' = Answered(Wakened, by, "ended")
  /\ queuer' = IF queuer = "await" THEN "run" ELSE queuer
  /\ todo' = IF queuer = "await" THEN [todo EXCEPT !["queuer"] = StartAndSetup(Queuer)] ELSE todo

EndsByItself(outcome) ==
  /\ ~gone /\ ProcessEnds(Nobody, outcome)
  /\ UNCHANGED <<handlerVars, shouldQuit, synthetic, queue, gone, queued, tried, skipped, followed>>

GraceEnds ==
  /\ ~gone /\ grace /\ ProcessEnds(Nobody, "stopped")
  /\ UNCHANGED <<handlerVars, shouldQuit, synthetic, queue, gone, queued, tried, skipped, followed>>

(* The job takes the next control of its normal queue once the function it *)
(* ran has sent what it wanted to.                                         *)
Serving(do) ==
  /\ ~gone /\ ~grace /\ todo["job"] = <<>>
  /\ queue # <<>> /\ Head(queue).do = do
  /\ queue' = Tail(queue)
  /\ UNCHANGED handlerVars

StartCmd ==
  /\ Serving("start")
  /\ \/ /\ ~Idle /\ UNCHANGED <<procVars, tried>>
        /\ skipped' = IF Head(queue).by = Queuer THEN skipped \cup (tried + 1 .. asked) ELSE skipped
     \/ /\ Idle /\ tried' = asked
        /\ \/ cmd' = "Running" /\ runs' = Append(runs, "running")
           \/ cmd' = "Pending" /\ UNCHANGED runs
        /\ UNCHANGED <<grace, skipped>>
  /\ UNCHANGED <<shouldQuit, synthetic, todo, gone, watchers, queuer, queued, followed>>

Stop ==
  /\ Serving("stop")
  /\ \/ /\ Idle /\ Answer("ended")
        /\ UNCHANGED <<procVars, todo, queuer>>
     \/ ProcessEnds(Head(queue).by, "stopped")
  /\ UNCHANGED <<shouldQuit, synthetic, gone, queued, tried, skipped, followed>>

Graceful ==
  /\ Serving("graceful")
  /\ Answer(IF Idle THEN "ended" ELSE "halting")
  /\ grace' = ~Idle
  /\ UNCHANGED <<shouldQuit, synthetic, todo, cmd, gone, runs, queuer, queued, tried,
                 skipped, followed>>

Signal ==
  /\ Serving("signal")
  /\ UNCHANGED <<shouldQuit, synthetic, todo, procVars, gone, watchers, queuer, queued, tried,
                 skipped, followed>>

Delete ==
  /\ Serving("delete") /\ gone' = TRUE
  /\ UNCHANGED <<shouldQuit, synthetic, todo, procVars, watchers, queuer, queued, tried, skipped,
                 followed>>

-----------------------------------------------------------------------------
(* The function that asks whether the job is busy, for change n.           *)

Ignore(n) ==
  /\ setting.mode = "do-nothing"
  /\ skipped' = skipped \cup {n}
  /\ UNCHANGED <<todo, queuer, queued>>

SignalIt(n) ==
  /\ setting.mode = "signal"
  /\ JobSends(<<Item("signal", Nobody)>>)
  /\ skipped' = skipped \cup {n}
  /\ UNCHANGED <<queuer, queued>>

AnyRestartIt(items) ==
  /\ setting.mode = "restart"
  /\ JobSends(items)
  /\ UNCHANGED <<queuer, queued, skipped>>
StopIt == AnyRestartIt(<<Item(StopControl, Nobody)>>)
RestartIt == AnyRestartIt(RestartAndSetup)

QueueRestart ==
  /\ setting.mode = "queue" /\ ~queued
  /\ queued' = TRUE /\ queuer' = "ask"
  /\ UNCHANGED <<todo, skipped>>

(* A restart is queued already; it is too late for it to see this change   *)
(* when its start was served and the flag not yet reset.                   *)
TooLate ==
  queuer \in {"run", "reset"} /\ Item("start", Queuer) \notin Range(todo["queuer"] \o queue)
AlreadyQueued(n) ==
  /\ setting.mode = "queue" /\ queued
  /\ skipped' = IF TooLate THEN skipped \cup {n} ELSE skipped
  /\ UNCHANGED <<todo, queuer, queued>>

WhenBusy(n) == Ignore(n) \/ SignalIt(n) \/ RestartIt \/ QueueRestart \/ AlreadyQueued(n)

Query ==
  /\ Serving("query")
  /\ \/ Idle /\ JobSends(StartAndSetup(Nobody)) /\ UNCHANGED <<queuer, queued, skipped>>
     \/ ~Idle /\ WhenBusy(Head(queue).by)
  /\ UNCHANGED <<shouldQuit, synthetic, procVars, gone, watchers, tried, followed>>

-----------------------------------------------------------------------------
(* setup_process spawns a watcher.  The watcher asks for the end of the    *)
(* process that runs by then, races it against the timeout, and lets the   *)
(* job look at the result.                                                 *)

Setup ==
  /\ Serving("setup")
  /\ watchers' = Append(watchers, "ask")
  /\ followed' = Append(followed, IF cmd = "Pending" THEN 0 ELSE child)
  /\ queuer' = IF Head(queue).by = Queuer THEN "reset" ELSE queuer
  /\ UNCHANGED <<shouldQuit, synthetic, todo, procVars, gone, queued, tried, skipped>>

Move(w, from, to) ==
  /\ ~gone /\ watchers[w] \in from
  /\ watchers' = [watchers EXCEPT ![w] = to]
  /\ UNCHANGED <<handlerVars, shouldQuit, todo, procVars, gone, queuer, queued, tried, skipped,
                 followed>>

AskForEnd(w) ==
  /\ Move(w, {"ask"}, IF cmd = "Finished" THEN "ended" ELSE "await")
  /\ UNCHANGED <<synthetic, queue>>

(* select! may see the time run out even though the process has ended.     *)
LetItRun(w) ==
  /\ setting.timeout
  /\ Move(w, {"ask", "await"}, "ended")
  /\ UNCHANGED <<synthetic, queue>>
TimeRunsOut(w) ==
  /\ setting.timeout
  /\ Move(w, {"ask", "await", "ended"}, "stopping")
  /\ queue' = Append(queue, Item(StopControl, w))
  /\ UNCHANGED synthetic

LookAtEnd(w) ==
  /\ Move(w, {"ended"}, "ending")
  /\ queue' = Append(queue, Item("end", w))
  /\ UNCHANGED synthetic

(* end_of_process: there is a result only while no other process runs.     *)
Failed == cmd = "Finished" /\ runs[child] # "ok"

End ==
  /\ Serving("end")
  /\ LET quits == setting.exitOnError /\ Failed
     IN  /\ shouldQuit' = (shouldQuit \/ quits)
         /\ Answer(IF quits THEN "told" ELSE "done")
  /\ UNCHANGED <<synthetic, todo, procVars, gone, queuer, queued, tried, skipped, followed>>

SendSynthetic(w) ==
  /\ Move(w, {"told"}, "done")
  /\ synthetic' = TRUE
  /\ UNCHANGED queue

-----------------------------------------------------------------------------
(* The queued restart: it waits for the end, starts, sets up, and resets   *)
(* the flag once the job has got that far.                                 *)

QueuerAsks ==
  /\ ~gone /\ queuer = "ask"
  /\ \/ /\ cmd = "Finished" /\ queuer' = "run"
        /\ todo' = [todo EXCEPT !["queuer"] = StartAndSetup(Queuer)]
     \/ cmd # "Finished" /\ queuer' = "await" /\ UNCHANGED todo
  /\ UNCHANGED <<handlerVars, shouldQuit, synthetic, queue, procVars, gone, watchers, queued,
                 tried, skipped, followed>>

AnyQueuerResets(flag) ==
  /\ queuer = "reset"
  /\ queuer' = "none" /\ queued' = flag
  /\ UNCHANGED <<handlerVars, shouldQuit, synthetic, todo, queue, procVars, gone, watchers,
                 tried, skipped, followed>>
QueuerForgets == AnyQueuerResets(queued)
QueuerResets == AnyQueuerResets(FALSE)

-----------------------------------------------------------------------------
Serve == StartCmd \/ Stop \/ Graceful \/ Signal \/ Delete \/ Query \/ Setup \/ End

Watch(w) == AskForEnd(w) \/ LookAtEnd(w) \/ SendSynthetic(w)

BusyNext ==
  \/ \E batch \in Batches : Handle(batch)
  \/ HandleSynthetic
  \/ \E s \in Senders : Send(s)
  \/ \E outcome \in {"ok", "fail"} : EndsByItself(outcome)
  \/ GraceEnds
  \/ Serve
  \/ \E w \in DOMAIN watchers : Watch(w) \/ TimeRunsOut(w)
  \/ QueuerAsks \/ QueuerResets

BusySpec == BusyInit /\ [][BusyNext]_busyVars

(* The runtime runs every task and time passes; neither a command nor a    *)
(* change is ever due.                                                     *)
Watcher == \E w \in DOMAIN watchers : Watch(w)
Timeout == \E w \in DOMAIN watchers : TimeRunsOut(w)
BusyFairness ==
  /\ WF_busyVars(HandleSynthetic) /\ WF_busyVars(GraceEnds) /\ WF_busyVars(Serve)
  /\ \A s \in Senders : WF_busyVars(Send(s))
  /\ WF_busyVars(Watcher) /\ WF_busyVars(Timeout)
  /\ WF_busyVars(QueuerAsks) /\ WF_busyVars(QueuerResets)

BusyFairSpec == BusySpec /\ BusyFairness

-----------------------------------------------------------------------------
(* A change has been settled: the command was started since, or the mode   *)
(* says to leave it, or the handler has asked to quit.                     *)
Settled(n) == tried >= n \/ n \in skipped \/ quitting
AllSettled == \A n \in 1 .. asked : Settled(n)

(* No change is forgotten: as long as it is not settled, the question it   *)
(* asks, a start, or a restart that waits for the end is on its way,       *)
(* whoever stops, restarts or times out the command in between.            *)
OnTheWay == Range(queue) \cup UNION {Range(todo[s]) : s \in Senders}
NoChangeForgotten ==
  \A n \in 1 .. asked :
    \/ Settled(n) \/ Item("query", n) \in OnTheWay \/ queuer \in {"ask", "await"}
    \/ \E who \in {Nobody, Queuer} : Item("start", who) \in OnTheWay

(* do-nothing, signal, restart: every change that finds the job idle       *)
(* starts the command, and in restart mode every other one does, however   *)
(* many restarts, timeouts and stops of other senders are in the queue and *)
(* whatever the process does.                                              *)
PromptlyAnswered ==
  (setting.mode # "queue" /\ ~AllSettled) ~> AllSettled

(* queue: provided that the command keeps ending, every change is followed *)
(* by a start, but for the ones that came while the queued start was being *)
(* made (they are in `skipped`): the flag is always reset, and nobody      *)
(* misses the end it waits for.                                            *)
QueuedAnswered ==
  []<>Idle => (setting.mode = "queue" /\ ~AllSettled) ~> AllSettled

(* Both: in every mode, every change is answered in the end.               *)
ChangesAnswered == PromptlyAnswered /\ QueuedAnswered

(* With --timeout no run of the command goes on for ever, whichever of the *)
(* starts it came from and however the watchers' stops are queued.         *)
TimeoutEnds ==
  (setting.timeout /\ runs # <<>>) ~> (gone \/ \A p \in DOMAIN runs : runs[p] # "running")

(* args/events.rs:137, of --exit-on-error: "it will instead exit when the  *)
(* command completes with any non-success exit status".  A watcher that    *)
(* looked at the end of a run that failed has said so.                     *)
FailureSeen ==
  setting.exitOnError => \A w \in DOMAIN watchers :
    watchers[w] = "done" /\ followed[w] # 0 /\ runs[followed[w]] = "fail" => shouldQuit
=============================================================================
