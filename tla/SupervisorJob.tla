--------------------------- MODULE SupervisorJob ---------------------------
(***************************************************************************)
(* The job task of watchexec-supervisor: one tokio task owns one child     *)
(* process and serves control messages that any number of Job handles put  *)
(* on three queues.  The task selects between the end of the child and the *)
(* next control; a stop timer, armed by the graceful controls, shuts the   *)
(* normal queue until it fires or the child ends.                          *)
(*                                                                         *)
(* A ticket is the number of the control it was returned for: sent[t] is   *)
(* that control.  A process is the number of the spawn that created it.    *)
(***************************************************************************)
EXTENDS Naturals, Sequences, FiniteSets, Functions

CONSTANTS
  Unix,        \* the build's cfg!(unix)
  Clients,     \* holders of a Job handle
  Methods,     \* the methods of Job the clients call
  MaxTickets,  \* bound: controls sent in one behaviour
  MayDrop      \* whether clients may drop their handle

Control == {"Start", "Stop", "GracefulStop", "TryRestart", "TryGracefulRestart",
            "ContinueTryGracefulRestart", "Signal", "Delete", "NextEnding", "Func"}
Priority == {"Normal", "High", "Urgent"}

(* What each method of Job sends, in order, and on which queue.            *)
GracefulOr(graceful, forced) == IF Unix THEN graceful ELSE forced

Msg(control, prio) == [control |-> control, prio |-> prio]
Sends ==
  [start   |-> <<Msg("Start", "Normal")>>,
   stop    |-> <<Msg("Stop", "Normal")>>,
   restart |-> <<Msg("Stop", "Normal"), Msg("Start", "Normal")>>,
   stop_with_signal    |-> <<Msg(GracefulOr("GracefulStop", "Stop"), "Normal")>>,
   restart_with_signal |-> <<Msg(GracefulOr("GracefulStop", "Stop"), "Normal"),
                             Msg("Start", "Normal")>>,
   try_restart             |-> <<Msg("TryRestart", "Normal")>>,
   try_restart_with_signal |-> <<Msg(GracefulOr("TryGracefulRestart", "TryRestart"), "Normal")>>,
   signal     |-> <<Msg("Signal", "Normal")>>,
   delete     |-> <<Msg("Stop", "Normal"), Msg("Delete", "Normal")>>,
   delete_now |-> <<Msg("Stop", "Urgent"), Msg("Delete", "Urgent")>>,
   to_wait    |-> <<Msg("NextEnding", "High")>>,
   run        |-> <<Msg("Func", "Normal")>>]
Method == DOMAIN Sends

ASSUME ConstantsAssumption ==
  /\ Unix \in BOOLEAN /\ MayDrop \in BOOLEAN
  /\ MaxTickets \in Nat /\ IsFiniteSet(Clients)
  /\ Methods \subseteq Method

Tickets == 1 .. MaxTickets
Message == [control: Control \ {"NextEnding", "ContinueTryGracefulRestart"}, prio: {"Normal"}]
             \cup [control: {"NextEnding"}, prio: {"High"}]
             \cup [control: {"Stop", "Delete"}, prio: {"Urgent"}]

VARIABLES
  handles,       \* clients that still hold a Job
  todo,          \* todo[c]: controls of c's call in progress, not yet queued
  sent,          \* every control sent, in order
  queue,         \* queue[p]: tickets waiting at priority p
  pc,            \* where the task is
  msg,           \* the ControlMessage being handled
  timer,         \* stop_timer
  cmd,           \* command_state
  spawned,       \* number of processes spawned; the last one is the child
  alive,         \* processes that have not ended
  onEnd,         \* on_end
  onEndRestart,  \* on_end_restart, 0 for None
  raised,        \* tickets whose control_done flag is raised
  gone,          \* the job's gone flag
  running,       \* the AtomicBool behind Job::is_running
  target,        \* history: the child running when ticket t was received
  erred,         \* history: tickets whose control met an I/O error
  startedFor     \* history: processes spawned on behalf of ticket t

clientVars == <<handles, todo, sent>>
procVars   == <<cmd, spawned, alive, startedFor>>
flagVars   == <<onEnd, onEndRestart, raised, erred>>
vars == <<handles, todo, sent, queue, pc, msg, timer, cmd, spawned, alive, onEnd,
          onEndRestart, raised, gone, running, target, erred, startedFor>>

NoTimer == [kind |-> "none", done |-> 0, past |-> FALSE]
NoMsg   == [control |-> "None", done |-> 0]

TypeOK ==
  /\ handles \subseteq Clients
  /\ todo \in [Clients -> Seq(Message)]
  /\ sent \in Seq(Message) /\ Len(sent) <= MaxTickets
  /\ queue \in [Priority -> Seq(Tickets)]
  /\ pc \in {"top", "poll", "select", "waitonly", "handle", "respawn", "exit", "dead"}
  /\ msg \in [control: Control \cup {"None"}, done: Nat]
  /\ timer \in [kind: {"none", "stop", "restart"}, done: Nat, past: BOOLEAN]
  /\ cmd \in {"Pending", "Running", "Finished"}
  /\ spawned \in Nat /\ alive \subseteq 1 .. spawned
  /\ onEnd \subseteq Tickets /\ onEndRestart \in 0 .. MaxTickets
  /\ raised \subseteq Tickets /\ erred \subseteq Tickets
  /\ gone \in BOOLEAN /\ running \in BOOLEAN
  /\ target \in [Tickets -> Nat] /\ startedFor \in [Tickets -> Nat]

Init ==
  /\ handles = Clients
  /\ todo = [c \in Clients |-> <<>>]
  /\ sent = <<>>
  /\ queue = [p \in Priority |-> <<>>]
  /\ pc = "top" /\ msg = NoMsg /\ timer = NoTimer
  /\ cmd = "Pending" /\ spawned = 0 /\ alive = {}
  /\ onEnd = {} /\ onEndRestart = 0 /\ raised = {}
  /\ gone = FALSE /\ running = FALSE
  /\ target = [t \in Tickets |-> 0] /\ erred = {} /\ startedFor = [t \in Tickets |-> 0]

-----------------------------------------------------------------------------
(* Handles.  A method that sends two controls sends them one after the     *)
(* other: another client's control may land between them.  A send to a     *)
(* finished task is dropped.                                               *)

Busy == {c \in Clients : todo[c] # <<>>}

Enqueue(m) ==
  /\ sent' = Append(sent, m)
  /\ queue' = IF pc = "dead" THEN queue
              ELSE [queue EXCEPT ![m.prio] = Append(@, Len(sent) + 1)]

Call(c, method) ==
  /\ c \in handles /\ todo[c] = <<>> /\ ~gone
  /\ Len(sent) + Cardinality(Busy) + Len(Sends[method]) <= MaxTickets
  /\ Enqueue(Head(Sends[method]))
  /\ todo' = [todo EXCEPT ![c] = Tail(Sends[method])]
  /\ UNCHANGED <<handles, pc, msg, timer, procVars, flagVars, gone, running, target>>

SendRest(c) ==
  /\ todo[c] # <<>> /\ Len(sent) < MaxTickets
  /\ Enqueue(Head(todo[c]))
  /\ todo' = [todo EXCEPT ![c] = Tail(@)]
  /\ UNCHANGED <<handles, pc, msg, timer, procVars, flagVars, gone, running, target>>

Drop(c) ==
  /\ MayDrop /\ c \in handles /\ todo[c] = <<>>
  /\ handles' = handles \ {c}
  /\ UNCHANGED <<todo, sent, queue, pc, msg, timer, procVars, flagVars, gone, running, target>>

-----------------------------------------------------------------------------
(* The environment: a process ends by itself, the grace period runs out.   *)

ProcessExits(p) ==
  /\ p \in alive
  /\ alive' = alive \ {p}
  /\ UNCHANGED <<clientVars, queue, pc, msg, timer, cmd, spawned, startedFor, flagVars, gone,
                 running, target>>

TimerElapses ==
  /\ timer.kind # "none" /\ ~timer.past
  /\ timer' = [timer EXCEPT !.past = TRUE]
  /\ UNCHANGED <<clientVars, queue, pc, msg, procVars, flagVars, gone, running, target>>

-----------------------------------------------------------------------------
(* PriorityReceiver::recv.  The first look ("poll") is ordered: a timer    *)
(* that is past, then the urgent queue, then the high one.  When it finds  *)
(* nothing the task waits ("select") and takes whatever is ready, in any   *)
(* order; the normal queue takes part only while no timer is set.          *)

TimerPast == timer.kind # "none" /\ timer.past

FirstLook(p) ==
  /\ pc = "poll" /\ ~TimerPast
  /\ p # "Normal" /\ (p = "High" => queue["Urgent"] = <<>>)
ReceivableUnderTimer(p) == FirstLook(p) \/ pc = "select"
Receivable(p) ==
  \/ FirstLook(p)
  \/ pc = "select" /\ (p = "Normal" => timer.kind = "none")

LoopTop ==
  /\ pc = "top"
  /\ running' = (cmd = "Running")
  /\ pc' = "poll"
  /\ UNCHANGED <<clientVars, queue, msg, timer, procVars, flagVars, gone, target>>

TimerFires ==
  /\ pc \in {"poll", "select"} /\ TimerPast
  /\ msg' = [control |-> IF timer.kind = "restart" THEN "ContinueTryGracefulRestart"
                         ELSE "Stop",
             done |-> timer.done]
  /\ timer' = NoTimer
  /\ pc' = "handle"
  /\ UNCHANGED <<clientVars, queue, procVars, flagVars, gone, running, target>>

Receive(p) ==
  /\ queue[p] # <<>> /\ Receivable(p)
  /\ LET t == Head(queue[p])
     IN  /\ msg' = [control |-> sent[t].control, done |-> t]
         /\ target' = [target EXCEPT ![t] = IF cmd = "Running" THEN spawned ELSE 0]
  /\ queue' = [queue EXCEPT ![p] = Tail(@)]
  /\ pc' = "handle"
  /\ UNCHANGED <<clientVars, timer, procVars, flagVars, gone, running>>

Await ==
  /\ pc = "poll" /\ ~TimerPast
  /\ queue["Urgent"] = <<>> /\ queue["High"] = <<>>
  /\ pc' = "select"
  /\ UNCHANGED <<clientVars, queue, msg, timer, procVars, flagVars, gone, running, target>>

(* With every handle dropped an empty queue answers None, which disables   *)
(* the branch: the task then waits for its child only, or leaves the loop. *)
QueueClosed ==
  /\ pc = "select" /\ handles = {}
  /\ \E p \in Priority : queue[p] = <<>> /\ Receivable(p)
  /\ pc' = IF cmd = "Running" THEN "waitonly" ELSE "exit"
  /\ UNCHANGED <<clientVars, queue, msg, timer, procVars, flagVars, gone, running, target>>

-----------------------------------------------------------------------------
(* Handlers.  Each answers its ticket and returns to the top of the loop;  *)
(* a child that cannot be killed, waited for, signalled or spawned answers *)
(* it too, after the error handler ran.                                    *)

Handling(control) == pc = "handle" /\ msg.control = control

Handled ==
  /\ pc' = "top" /\ msg' = NoMsg
  /\ UNCHANGED <<clientVars, queue, gone, running, target>>

Reply(others) == raised' = raised \cup {msg.done} \cup others

FailedSilently == erred' = erred \cup {msg.done} /\ UNCHANGED raised
Failed == erred' = erred \cup {msg.done} /\ Reply({})

(* CommandState::reset then CommandState::spawn, on behalf of ticket t.    *)
Spawn(survivors, t) ==
  \/ /\ cmd' = "Running"
     /\ spawned' = spawned + 1
     /\ alive' = survivors \cup {spawned + 1}
     /\ startedFor' = [startedFor EXCEPT ![t] = @ + 1]
     /\ UNCHANGED erred
  \/ /\ cmd' = "Pending" /\ alive' = survivors
     /\ erred' = erred \cup {t}
     /\ UNCHANGED <<spawned, startedFor>>

(* kill() fails, or the wait() after it does: the command state stays      *)
(* Running.                                                                *)
KillFails ==
  /\ cmd = "Running"
  /\ alive' \in {alive, alive \ {spawned}}
  /\ Failed
  /\ UNCHANGED <<cmd, spawned, startedFor, onEnd>>

(* Control::Start; mayStart is its test of the command state.              *)
AnyStart(mayStart) ==
  /\ Handling("Start") /\ Handled
  /\ \/ ~mayStart /\ UNCHANGED <<procVars, erred>>
     \/ mayStart /\ Spawn(alive, msg.done)
  /\ Reply({})
  /\ UNCHANGED <<timer, onEnd, onEndRestart>>
StartUnchecked == AnyStart(TRUE)
Start == AnyStart(cmd # "Running")

(* Control::Stop: the child is killed and waited for.                      *)
Stop ==
  /\ Handling("Stop") /\ Handled
  /\ \/ cmd # "Running" /\ Reply({}) /\ UNCHANGED <<procVars, onEnd, erred>>
     \/ /\ cmd = "Running"
        /\ cmd' = "Finished" /\ alive' = alive \ {spawned}
        /\ Reply(onEnd) /\ onEnd' = {}
        /\ UNCHANGED <<spawned, startedFor, erred>>
     \/ KillFails
  /\ UNCHANGED <<timer, onEndRestart>>

ArmTimer(kind) == timer' = [kind |-> kind, done |-> msg.done, past |-> FALSE]

(* Control::GracefulStop; the done flag goes to the timer, not back.       *)
AnyGracefulStop(raisedNow) ==
  /\ Handling("GracefulStop") /\ Handled
  /\ \/ cmd # "Running" /\ Reply({}) /\ UNCHANGED <<timer, erred>>
     \/ cmd = "Running" /\ ArmTimer("stop") /\ raised' = raised \cup raisedNow /\ UNCHANGED erred
     \/ cmd = "Running" /\ Failed /\ UNCHANGED timer
  /\ UNCHANGED <<procVars, onEnd, onEndRestart>>
GracefulStopReplies == AnyGracefulStop({msg.done})
GracefulStop == AnyGracefulStop({})

TryRestart ==
  /\ Handling("TryRestart") /\ Handled
  /\ \/ cmd # "Running" /\ Reply({}) /\ UNCHANGED <<procVars, onEnd, erred>>
     \/ /\ cmd = "Running" /\ Spawn(alive \ {spawned}, msg.done)
        /\ Reply(onEnd) /\ onEnd' = {}
     \/ KillFails
  /\ UNCHANGED <<timer, onEndRestart>>

TryGracefulRestart ==
  /\ Handling("TryGracefulRestart") /\ Handled
  /\ \/ cmd # "Running" /\ Reply({}) /\ UNCHANGED <<timer, onEndRestart, erred>>
     \/ /\ cmd = "Running" /\ ArmTimer("restart") /\ onEndRestart' = msg.done
        /\ UNCHANGED <<raised, erred>>
     \/ cmd = "Running" /\ Failed /\ UNCHANGED <<timer, onEndRestart>>
  /\ UNCHANGED <<procVars, onEnd>>

ContinueTryGracefulRestart ==
  /\ Handling("ContinueTryGracefulRestart") /\ Handled
  /\ \/ /\ cmd = "Running" /\ Spawn(alive \ {spawned}, msg.done)
        /\ Reply(onEnd) /\ onEnd' = {}
     \/ cmd # "Running" /\ Spawn(alive, msg.done) /\ Reply({}) /\ UNCHANGED onEnd
     \/ KillFails
  /\ UNCHANGED <<timer, onEndRestart>>

Signal ==
  /\ Handling("Signal") /\ Handled
  /\ \/ Reply({}) /\ UNCHANGED erred
     \/ cmd = "Running" /\ Failed
  /\ UNCHANGED <<timer, procVars, onEnd, onEndRestart>>

NextEnding ==
  /\ Handling("NextEnding") /\ Handled
  /\ IF cmd = "Finished" THEN Reply({}) /\ UNCHANGED onEnd
     ELSE onEnd' = onEnd \cup {msg.done} /\ UNCHANGED raised
  /\ UNCHANGED <<timer, procVars, onEndRestart, erred>>

(* Functions, hooks and handlers see the job but change none of this state. *)
Func ==
  /\ Handling("Func") /\ Handled
  /\ Reply({})
  /\ UNCHANGED <<timer, procVars, onEnd, onEndRestart, erred>>

Delete ==
  /\ Handling("Delete")
  /\ Reply({})
  /\ pc' = "exit" /\ msg' = NoMsg
  /\ UNCHANGED <<clientVars, queue, timer, procVars, onEnd, onEndRestart, erred, gone,
                 running, target>>

-----------------------------------------------------------------------------
(* The wait() branch: the child's end clears the stop timer, answers every *)
(* ticket that waits for it and, when a graceful restart asked for it,     *)
(* starts the command again.                                               *)

Waiting == pc \in {"poll", "select", "waitonly"} /\ cmd = "Running"

EndFlagsButTimer == onEnd
EndFlagsButOnEnd == IF timer.kind = "none" THEN {} ELSE {timer.done}
EndFlags == onEnd \cup (IF timer.kind = "none" THEN {} ELSE {timer.done})

Respawns == onEndRestart # 0

ChildEnds ==
  /\ Waiting /\ spawned \notin alive
  /\ cmd' = "Finished"
  /\ timer' = NoTimer
  /\ raised' = raised \cup EndFlags /\ onEnd' = {}
  /\ pc' = IF Respawns THEN "respawn" ELSE "top"
  /\ UNCHANGED <<clientVars, queue, msg, spawned, alive, startedFor, onEndRestart, erred,
                 gone, running, target>>

Respawn ==
  /\ pc = "respawn"
  /\ Spawn(alive, onEndRestart)
  /\ raised' = IF cmd' = "Running" THEN raised \cup {onEndRestart} ELSE raised
  /\ onEndRestart' = 0
  /\ pc' = "top"
  /\ UNCHANGED <<clientVars, queue, msg, timer, onEnd, gone, running, target>>

WaitFails ==
  /\ Waiting
  /\ pc' = "top"
  /\ UNCHANGED <<clientVars, queue, msg, timer, procVars, flagVars, gone, running, target>>

(* The end of the task drops its receivers and its child; a child that is  *)
(* killed on drop takes a while to end.                                    *)
Exit ==
  /\ pc = "exit"
  /\ running' = FALSE /\ gone' = TRUE
  /\ queue' = [p \in Priority |-> <<>>]
  /\ pc' = "dead"
  /\ UNCHANGED <<clientVars, msg, timer, procVars, flagVars, target>>

-----------------------------------------------------------------------------
Handle ==
  \/ Start \/ Stop \/ GracefulStop \/ TryRestart \/ TryGracefulRestart
  \/ ContinueTryGracefulRestart \/ Signal \/ NextEnding \/ Func \/ Delete

Next ==
  \/ \E c \in Clients : \/ \E m \in Methods : Call(c, m)
                        \/ SendRest(c)
                        \/ Drop(c)
  \/ \E p \in 1 .. spawned : ProcessExits(p)
  \/ TimerElapses
  \/ LoopTop \/ TimerFires \/ Await \/ QueueClosed
  \/ \E p \in Priority : Receive(p)
  \/ Handle
  \/ ChildEnds \/ Respawn \/ WaitFails \/ Exit

Spec == Init /\ [][Next]_vars

(* The runtime polls the task (weak fairness) and select! looks at its     *)
(* branches in a random order, so a branch that keeps being ready is       *)
(* taken however often another one is (strong fairness).  Time passes.     *)
(* Clients and processes owe nothing.                                      *)
Fairness ==
  /\ WF_vars(LoopTop) /\ WF_vars(Handle) /\ WF_vars(Respawn) /\ WF_vars(Exit)
  /\ SF_vars(TimerFires) /\ SF_vars(Await) /\ SF_vars(ChildEnds) /\ WF_vars(QueueClosed)
  /\ \A p \in Priority : SF_vars(Receive(p))
  /\ WF_vars(TimerElapses)

FairSpec == Spec /\ Fairness

-----------------------------------------------------------------------------
(* Safety.                                                                 *)

(* A ticket sent and not yet answered is still in somebody's hands: in a   *)
(* queue, being handled, waiting for the end of the child, or in the stop  *)
(* timer.  No path of task.rs, error paths included, drops the done flag   *)
(* of a control while the job lives.                                       *)
Held(t) ==
  \/ \E p \in Priority : t \in Range(queue[p])
  \/ pc = "handle" /\ msg.done = t
  \/ t \in onEnd
  \/ timer.kind # "none" /\ timer.done = t
NoLostTicket == \A t \in 1 .. Len(sent) : t \in raised \/ gone \/ Held(t)

(* Processes never overlap, and a live process is always the child of the  *)
(* Running state: start, restart, the forced end of a graceful restart and *)
(* every failure of kill, wait or spawn leave no orphan behind.            *)
NoOverlap == alive \subseteq IF cmd = "Running" THEN {spawned} ELSE {}

(* The answer to a control that ends the command, or waits for its end, is *)
(* true: the process that was running when the control was received has    *)
(* ended, unless an I/O error was reported for that very control.          *)
EndingControls == {"Stop", "GracefulStop", "TryRestart", "TryGracefulRestart", "NextEnding"}
ResolvedMeansEnded ==
  \A t \in raised \ erred : sent[t].control \in EndingControls => target[t] \notin alive

(* A child in its grace period is killed by an urgent control only: no     *)
(* normal control and no timer of another stop cuts the grace short.       *)
GraceRespected ==
  pc = "handle" /\ timer.kind # "none" /\ msg.control \notin {"NextEnding", "Func"}
    => sent[msg.done].prio = "Urgent"

-----------------------------------------------------------------------------
(* Liveness.                                                               *)

(* Every ticket but to_wait's resolves while a handle is held, whatever    *)
(* the process does: kills, timers and errors all end in an answer.        *)
TicketsResolve ==
  \A t \in Tickets :
    (t <= Len(sent) /\ sent[t].control # "NextEnding") ~> (t \in raised \/ gone)

(* A to_wait ticket taken while a process runs resolves once that process  *)
(* has ended, by itself or by force.                                       *)
EndingObserved ==
  \A t \in Tickets : (target[t] # 0 /\ target[t] \notin alive) ~> (t \in raised \/ gone)

-----------------------------------------------------------------------------
(* What the documentation says and the code does not do.                   *)

(* job.rs:175, "Restart the command if it's running, but don't start it if *)
(* it's not": one restart request spawns at most one process.              *)
OneRestartPerRequest == \A t \in Tickets : startedFor[t] <= 1
=============================================================================
