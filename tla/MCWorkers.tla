----------------------------- MODULE MCWorkers ------------------------------
(* Four tasks of watchexec, each explored by itself in one run of TLC: the *)
(* action worker, the filesystem worker, the handler of the program with   *)
(* its job, and the loading of ignore files.  part says which, and the     *)
(* variables of the others do not change.                                  *)
EXTENDS ActionWorker, FsWorker, OnBusy, OnBusySettings, MCIgnores

VARIABLE part     \* "action", "paths", "handler" or "ignores"

(* A path in either mode, in both, beside another path, or none at all.    *)
SomePathsets ==
  LET deep == [path |-> "a", recursive |-> TRUE]
      flat == [path |-> "a", recursive |-> FALSE]
      beside == [path |-> "b", recursive |-> FALSE]
  IN {{}, {deep}, {flat}, {deep, beside}, {deep, flat}}

-----------------------------------------------------------------------------
(* At rest: workers that ended, a handler without events, no origin.       *)
ActionAt(place) ==
  /\ sent = 0 /\ urgent = {} /\ channel = {} /\ closed = FALSE /\ full = {}
  /\ batch = {} /\ elapsed = (place = "done") /\ handled = {} /\ filtered = {} /\ ripe = FALSE
  /\ pc = place /\ quit = "none" /\ jobs = NoJobs /\ new = NoJobs /\ jobtasks = {}
  /\ created = 0 /\ ended = {} /\ deleting = {}
WatcherAt(place, kinds) ==
  /\ paths = {} /\ kind \in kinds /\ changes = 0 /\ fsPc = place
  /\ first = TRUE /\ notified = FALSE /\ watcher = "none" /\ watched = {} /\ tracked = {}
  /\ toDrop = {} /\ toWatch = {} /\ applied = {} /\ failed = {} /\ ready = 0
  /\ swapped = FALSE /\ doubled = {}
HandlerWith(settings) == BusyInit /\ setting \in settings

NoWatcher == WatcherAt("dead", {"native"})
NoHandler == HandlerWith({CHOOSE c \in FourSettings : TRUE})
NoIgnores == IgnoresIdle /\ tree = GlobalTree /\ opts = Plain /\ ignoreStep = "off"

WorkersInit ==
  \/ part = "action" /\ ActionAt("collect") /\ NoWatcher /\ NoHandler /\ NoIgnores
  \/ part = "paths" /\ ActionAt("done") /\ WatcherAt("next", {"native", "poll"}) /\ NoHandler
       /\ NoIgnores
  \/ part = "handler" /\ ActionAt("done") /\ NoWatcher /\ HandlerWith(FourSettings) /\ NoIgnores
  \/ part = "ignores" /\ ActionAt("done") /\ NoWatcher /\ NoHandler /\ IgnoresInit

WorkersNext ==
  \/ part = "action" /\ Next /\ UNCHANGED <<part, fsVars, busyVars, ignoreVars>>
  \/ part = "paths" /\ FsNext /\ UNCHANGED <<part, vars, busyVars, ignoreVars>>
  \/ part = "handler" /\ BusyNext /\ UNCHANGED <<part, vars, fsVars, ignoreVars>>
  \/ part = "ignores" /\ IgnoresNext /\ UNCHANGED <<part, vars, fsVars, busyVars>>

(* The fairness of the three modules.  Who is at rest has no step to take. *)
Of(p, Step) == part = p /\ Step
WorkersFairness ==
  /\ WF_vars(Of("action", Work)) /\ WF_vars(Of("action", ThrottlePasses))
  /\ \A j \in Jobs : WF_vars(Of("action", JobEnds(j)))
  /\ WF_fsVars(Of("paths", Apply))
  /\ WF_busyVars(Of("handler", HandleSynthetic)) /\ WF_busyVars(Of("handler", GraceEnds))
  /\ WF_busyVars(Of("handler", Serve))
  /\ \A s \in Senders : WF_busyVars(Of("handler", Send(s)))
  /\ WF_busyVars(Of("handler", Watcher)) /\ WF_busyVars(Of("handler", Timeout))
  /\ WF_busyVars(Of("handler", QueuerAsks)) /\ WF_busyVars(Of("handler", QueuerResets))
WorkersSpec ==
  WorkersInit /\ [][WorkersNext]_<<part, vars, fsVars, busyVars, ignoreVars>> /\ WorkersFairness
=============================================================================
