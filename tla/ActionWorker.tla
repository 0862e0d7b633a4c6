---------------------------- MODULE ActionWorker ----------------------------
(***************************************************************************)
(* The action worker of watchexec: it collects events into batches behind  *)
(* a throttle, calls the user's handler with each batch, takes over the    *)
(* jobs the handler created, quits when asked to and forgets dead jobs.    *)
(*                                                                         *)
(* A job is the number of its creation; the worker keeps its handle under  *)
(* an Id (jobs) and its task (jobtasks).  What happens inside a job is     *)
(* SupervisorJob's matter: here it lives, and ends some time after its     *)
(* deletion was asked for.                                                 *)
(***************************************************************************)
EXTENDS Naturals, FiniteSets, Functions

CONSTANTS
  Ids,          \* the Ids the handler uses
  Urgencies,    \* BOOLEAN subset: priorities of the events sent, TRUE for Urgent
  ChannelSize,  \* config.event_channel_size
  MaxEvents,    \* bound: events sent in one behaviour
  MaxJobs,      \* bound: jobs created in one behaviour
  SameIdTwice   \* whether a handler may ask twice for an Id that has no job

ASSUME Bounds == ChannelSize \in Nat /\ MaxEvents \in Nat /\ MaxJobs \in Nat

Events == 1 .. MaxEvents
Jobs   == 1 .. MaxJobs
NoJobs == [i \in Ids |-> 0]

VARIABLES
  sent,      \* number of events sent so far
  urgent,    \* the urgent ones
  channel,   \* events waiting in the channel
  closed,    \* the channel is closed
  batch,     \* set: events collected for the next action
  elapsed,   \* the throttle time has passed since `last`
  pc,        \* "collect", "handler", "adopt", "stopping", "joining", "done"
  quit,      \* action.quit: "none", "abort", "graceful"
  jobs,      \* jobs[i]: the job under Id i, 0 for none
  new,       \* action.new: jobs created in this handler
  jobtasks,  \* jobs whose task the worker joins or aborts
  created,   \* number of jobs created so far
  ended,     \* jobs whose task has ended
  deleting,  \* jobs whose deletion was asked for
  handled,   \* history: events given to a handler
  filtered,  \* history: events the filter turned down, or failed on
  full,      \* history: events that found the channel full
  ripe       \* history: the throttle time has passed since the batch's first event

eventVars == <<sent, urgent, channel, closed, full>>
batchVars == <<batch, elapsed, handled, filtered, ripe>>
jobVars   == <<jobs, new, jobtasks, created, ended, deleting>>
vars == <<sent, urgent, channel, closed, batch, elapsed, pc, quit, jobs, new, jobtasks,
          created, ended, deleting, handled, filtered, full, ripe>>

TypeOK ==
  /\ sent \in 0 .. MaxEvents /\ urgent \subseteq 1 .. sent
  /\ channel \subseteq 1 .. sent /\ Cardinality(channel) <= ChannelSize
  /\ closed \in BOOLEAN /\ elapsed \in BOOLEAN /\ ripe \in BOOLEAN
  /\ batch \subseteq 1 .. sent
  /\ pc \in {"collect", "handler", "adopt", "stopping", "joining", "done"}
  /\ quit \in {"none", "abort", "graceful"}
  /\ created \in 0 .. MaxJobs
  /\ jobs \in [Ids -> 0 .. created] /\ new \in [Ids -> 0 .. created]
  /\ jobtasks \subseteq 1 .. created
  /\ ended \subseteq 1 .. created /\ deleting \subseteq 1 .. created
  /\ handled \subseteq 1 .. sent /\ filtered \subseteq 1 .. sent /\ full \subseteq 1 .. sent

Init ==
  /\ sent = 0 /\ urgent = {} /\ channel = {} /\ closed = FALSE /\ full = {}
  /\ batch = {} /\ elapsed = FALSE /\ handled = {} /\ filtered = {} /\ ripe = FALSE
  /\ pc = "collect" /\ quit = "none"
  /\ jobs = NoJobs /\ new = NoJobs /\ jobtasks = {}
  /\ created = 0 /\ ended = {} /\ deleting = {}

-----------------------------------------------------------------------------
(* Event sources use try_send: an event that finds the channel full is     *)
(* lost, and an error reported.                                            *)
SendEvent(isUrgent) ==
  /\ sent < MaxEvents /\ ~closed
  /\ sent' = sent + 1
  /\ urgent' = IF isUrgent THEN urgent \cup {sent + 1} ELSE urgent
  /\ \/ /\ Cardinality(channel) < ChannelSize
        /\ channel' = channel \cup {sent + 1} /\ UNCHANGED full
     \/ /\ Cardinality(channel) >= ChannelSize
        /\ full' = full \cup {sent + 1} /\ UNCHANGED channel
  /\ UNCHANGED <<closed, batchVars, pc, quit, jobVars>>

(* The main task closes the channel on a critical error.                   *)
CloseChannel ==
  /\ ~closed /\ closed' = TRUE
  /\ UNCHANGED <<sent, urgent, channel, full, batchVars, pc, quit, jobVars>>

ThrottlePasses ==
  /\ ~elapsed /\ elapsed' = TRUE
  /\ ripe' = (batch # {})
  /\ UNCHANGED <<eventVars, batch, handled, filtered, pc, quit, jobVars>>

-----------------------------------------------------------------------------
(* throttle_collect.  The channel gives out urgent events before others;   *)
(* among equals any order.                                                 *)
Available == IF channel \cap urgent # {} THEN channel \cap urgent ELSE channel

(* The first event of a batch opens the throttle window; an urgent event   *)
(* ends the batch, as does an event that comes when the window is over.    *)
WindowOver == elapsed /\ batch # {}

AnyCollect(e, kept, windowOver, bypass) ==
  /\ pc = "collect" /\ ~closed
  /\ channel' = channel \ {e}
  /\ batch' = kept \cup {e}
  /\ elapsed' = windowOver
  /\ ripe' = (ripe /\ batch # {})
  /\ pc' = IF bypass \/ windowOver THEN "handler" ELSE "collect"
  /\ UNCHANGED <<sent, urgent, closed, full, handled, filtered, quit, jobVars>>
CollectNoReset(e)   == e \in Available /\ AnyCollect(e, batch, elapsed, e \in urgent)
CollectReplaces(e)  == e \in Available /\ AnyCollect(e, {}, WindowOver, e \in urgent)
Collect(e)          == e \in Available /\ AnyCollect(e, batch, WindowOver, e \in urgent)

(* The filter turns the event down or fails on it; the failure goes to the *)
(* error channel and, when that is closed, ends the worker.                *)
FilterOut(e) ==
  /\ pc = "collect" /\ ~closed /\ e \in Available \ urgent
  /\ channel' = channel \ {e} /\ filtered' = filtered \cup {e}
  /\ \/ pc' = (IF WindowOver THEN "handler" ELSE "collect") /\ UNCHANGED ended
     \/ pc' = "done" /\ ended' = ended \cup jobtasks
  /\ UNCHANGED <<sent, urgent, closed, full, batch, elapsed, handled, ripe, quit, jobs, new,
                 jobtasks, created, deleting>>

WindowEnds ==
  /\ pc = "collect" /\ ~closed
  /\ WindowOver
  /\ pc' = "handler"
  /\ UNCHANGED <<eventVars, batchVars, quit, jobVars>>

(* A closed channel ends the worker, whatever was collected.               *)
ChannelClosed ==
  /\ pc = "collect" /\ closed
  /\ pc' = "done" /\ ended' = ended \cup jobtasks
  /\ UNCHANGED <<eventVars, batchVars, quit, jobs, new, jobtasks, created, deleting>>

-----------------------------------------------------------------------------
(* The user's handler works on the jobs as they were when it was called.   *)

Start(i) ==
  /\ created < MaxJobs
  /\ created' = created + 1
  /\ new' = [new EXCEPT ![i] = created + 1]

GetOrCreateJob(i) ==
  /\ pc = "handler" /\ (new[i] = 0 \/ SameIdTwice)
  /\ jobs[i] = 0 /\ Start(i)
  /\ UNCHANGED <<eventVars, batchVars, pc, quit, jobs, jobtasks, ended, deleting>>

DeleteJob(j) ==
  /\ pc = "handler" /\ j \in Range(jobs) \cup Range(new) /\ j # 0
  /\ deleting' = deleting \cup {j}
  /\ UNCHANGED <<eventVars, batchVars, pc, quit, jobs, new, jobtasks, created, ended>>

Quit(manner) ==
  /\ pc = "handler" /\ quit' = manner
  /\ UNCHANGED <<eventVars, batchVars, pc, jobVars>>

HandlerReturns ==
  /\ pc = "handler"
  /\ handled' = handled \cup batch /\ batch' = {}
  /\ elapsed' = FALSE /\ ripe' = FALSE
  /\ pc' = "adopt"
  /\ UNCHANGED <<eventVars, filtered, quit, jobVars>>

-----------------------------------------------------------------------------
(* After the handler: new jobs are taken over, then the worker quits or    *)
(* forgets the jobs that are dead.                                         *)

Merged == [i \in Ids |-> IF new[i] # 0 THEN new[i] ELSE jobs[i]]
NewJobs == Range(new) \ {0}

ForgetDeleted == deleting \cup ended
AnyCollectGarbage(dead) ==
  /\ quit = "none"
  /\ jobs' = [i \in Ids |-> IF Merged[i] \in dead THEN 0 ELSE Merged[i]]
  /\ pc' = "collect"
  /\ UNCHANGED <<ended, deleting>>
CollectGarbageEarly == AnyCollectGarbage(ForgetDeleted)
CollectGarbage == AnyCollectGarbage(ended)

(* Dropping the worker's LateJoinSet aborts the tasks in it.               *)
Abort ==
  /\ quit = "abort"
  /\ ended' = ended \cup jobtasks \cup NewJobs
  /\ jobs' = Merged /\ pc' = "done"
  /\ UNCHANGED deleting

(* Every job is stopped and deleted by a task of its own.                  *)
AnyStopJobs(stopped) ==
  /\ quit = "graceful"
  /\ deleting' = deleting \cup stopped
  /\ jobs' = Merged /\ pc' = "stopping"
  /\ UNCHANGED ended
StopKnownJobs == AnyStopJobs(Range(jobs) \ {0})
StopJobs == AnyStopJobs(Range(Merged) \ {0})

AdoptJobs ==
  /\ pc = "adopt"
  /\ jobtasks' = jobtasks \cup NewJobs /\ new' = NoJobs
  /\ CollectGarbage \/ Abort \/ StopJobs
  /\ UNCHANGED <<eventVars, batchVars, quit, created>>

(* The tickets of the deletions resolve, some before the tasks have ended. *)
JobsStopped ==
  /\ pc = "stopping"
  /\ pc' = "joining" /\ jobs' = NoJobs
  /\ UNCHANGED <<eventVars, batchVars, quit, new, jobtasks, created, ended, deleting>>

AnyTasksJoined(joined) ==
  /\ pc = "joining" /\ joined \subseteq ended
  /\ pc' = "done"
  /\ UNCHANGED <<eventVars, batchVars, quit, jobVars>>
TasksNotJoined == AnyTasksJoined({})
TasksJoined == AnyTasksJoined(jobtasks)

(* A job's task ends once its deletion was asked for.                      *)
JobEnds(j) ==
  /\ j \in deleting \ ended
  /\ ended' = ended \cup {j}
  /\ UNCHANGED <<eventVars, batchVars, pc, quit, jobs, new, jobtasks, created, deleting>>

-----------------------------------------------------------------------------
Work ==
  \/ \E e \in channel : Collect(e) \/ FilterOut(e)
  \/ WindowEnds \/ ChannelClosed
  \/ HandlerReturns \/ AdoptJobs \/ JobsStopped \/ TasksJoined

Next ==
  \/ \E u \in Urgencies : SendEvent(u)
  \/ CloseChannel \/ ThrottlePasses
  \/ Work
  \/ \E i \in Ids : GetOrCreateJob(i)
  \/ \E j \in Jobs : DeleteJob(j)
  \/ \E manner \in {"abort", "graceful"} : Quit(manner)
  \/ \E j \in Jobs : JobEnds(j)

Spec == Init /\ [][Next]_vars

(* The runtime runs the worker and the jobs, time passes, and the handler  *)
(* returns; nobody owes an event.                                          *)
FairSpec == Spec /\ WF_vars(Work) /\ WF_vars(ThrottlePasses)
                 /\ \A j \in Jobs : WF_vars(JobEnds(j))

-----------------------------------------------------------------------------
(* Debouncing is on the trailing edge (config.rs:128): a batch without an  *)
(* urgent event reaches the handler only when the throttle time has passed *)
(* since its first event, not since something before it.                   *)
TrailingEdge == pc = "handler" /\ batch \cap urgent = {} => ripe

(* A live job the worker is responsible for can be found by its Id, so     *)
(* that later handlers and the quit reach it.                              *)
NoLostJob == pc = "collect" => jobtasks \ ended \subseteq Range(jobs)

(* Both ways to quit leave no job behind (handler.rs:116, 127): abort      *)
(* kills them all, graceful waits for them all to be reaped.               *)
QuitReapsAll == pc = "done" /\ quit # "none" => ended = 1 .. created

(* A graceful quit comes to an end.                                        *)
GracefulQuitEnds == (pc = "adopt" /\ quit = "graceful") ~> pc = "done"

(* An event that found room in the channel reaches the handler or the      *)
(* filter's bin, unless the worker ends first.                             *)
EventsHandled == (channel # {}) ~> ((1 .. sent) \ full \subseteq handled \cup filtered \/ pc = "done")
=============================================================================
