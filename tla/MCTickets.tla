----------------------------- MODULE MCTickets ------------------------------
(* Two ways to wait for a ticket, each explored by itself in one run of    *)
(* TLC: tasks that poll its flags, and clients of a job task that answers. *)
(* part says which, and the variables of the other do not change.          *)
EXTENDS TicketFlag

VARIABLE part     \* "flags" or "job"

VARIABLES handles, todo, sent, queue, jobPc, msg, timer, cmd, spawned, alive, onEnd,
          onEndRestart, raised, gone, running, target, erred, startedFor
theJob == <<handles, todo, sent, queue, jobPc, msg, timer, cmd, spawned, alive, onEnd,
            onEndRestart, raised, gone, running, target, erred, startedFor>>

LiveMethods == {"start", "restart", "stop_with_signal", "try_restart",
                "try_restart_with_signal", "signal", "run", "to_wait", "delete"}
J == INSTANCE SupervisorJob WITH Unix <- TRUE, Clients <- {"c1"}, Methods <- LiveMethods,
                                 MaxTickets <- 3, MayDrop <- FALSE, pc <- jobPc

-----------------------------------------------------------------------------
(* At rest: nothing to be polled, a task that ended.                       *)
FlagsAtRest ==
  /\ awaits = [w \in Tasks |-> CHOOSE k \in Controls : TRUE]
  /\ set = {} /\ raising = {} /\ waker = [f \in Flags |-> {}] /\ woken = {}
  /\ inPoll = [w \in Tasks |-> "ready"] /\ at = [w \in Tasks |-> "gone"]
JobAt(place) ==
  /\ handles = {"c1"} /\ todo = [c \in {"c1"} |-> <<>>] /\ sent = <<>>
  /\ queue = [p \in J!Priority |-> <<>>] /\ jobPc = place /\ msg = J!NoMsg /\ timer = J!NoTimer
  /\ cmd = "Pending" /\ spawned = 0 /\ alive = {} /\ onEnd = {} /\ onEndRestart = 0
  /\ raised = {} /\ gone = FALSE /\ running = FALSE
  /\ target = [t \in J!Tickets |-> 0] /\ erred = {} /\ startedFor = [t \in J!Tickets |-> 0]

TicketsInit ==
  \/ part = "flags" /\ FlagInit /\ JobAt("dead")
  \/ part = "job" /\ FlagsAtRest /\ JobAt("top")
TicketsNext ==
  \/ part = "flags" /\ FlagNext /\ UNCHANGED <<part, theJob>>
  \/ part = "job" /\ J!Next /\ UNCHANGED <<part, ticketVars>>

TicketsSpec ==
  /\ TicketsInit /\ [][TicketsNext]_<<part, ticketVars, theJob>>
  /\ \A w \in Tasks : WF_ticketVars(Poll(w))
  /\ \A f \in Flags : WF_ticketVars(Wake(f))
  /\ J!Fairness

TicketsResolve == J!TicketsResolve
EndingObserved == J!EndingObserved
=============================================================================
