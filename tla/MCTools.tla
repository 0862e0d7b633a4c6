------------------------------- MODULE MCTools ------------------------------
(* The command line tools, each explored by itself in one run of TLC; they *)
(* share nothing.  part says which one runs, and the variables of the      *)
(* others do not change.                                                   *)
EXTENDS MCFileTools, ToolSettings, Lsof, Tail, Sockets, Monitors, Capture, Find

(* The capture's command lines give numbers where numbers are asked for.   *)
ASSUME CommandLineAssumption == \A c \in Captures \cup Readers : IsCommandLine(c)

VARIABLE part    \* "files", "monitor", "tail", "lsof", "sockets", "capture" or "find"

-----------------------------------------------------------------------------
(* Tools that do not run.                                                  *)
NoFiles ==
  /\ command = CHOOSE c \in SomeCommands : TRUE
  /\ disk = Nothing /\ start = disk /\ pc = "exit" /\ units = <<>> /\ left = <<>>
  /\ status = TRUE /\ runs = MaxRuns /\ refused = {} /\ agreed = {} /\ tailLost = {}
NoMonitor ==
  /\ prog = "htop" /\ height = 1 /\ prev = {} /\ spent = 0 /\ missed = FALSE
  /\ world = [p \in {1, 2} |-> Absent] /\ since = [p \in {1, 2} |-> 0]
  /\ app = HtopStart(1) /\ screen = Draw(app) /\ place = "exit"
NoTail ==
  /\ tailFile = <<>> /\ ends = {} /\ written = 0 /\ lines = 0 /\ offset = 0 /\ printed = <<>>
  /\ spot = "off" /\ looks = 0 /\ skipped = {} /\ age = 0 /\ seen = 0
NoLsof ==
  /\ listed = <<>> /\ handles = <<>> /\ wanted = {} /\ byName = FALSE /\ asking = {}
  /\ table = [s \in {1, 2} |-> Free] /\ waiting = 0 /\ rows = {} /\ step = "off"
SocketsAt(place0, sets, queries) ==
  /\ open \in sets /\ running = [p \in {1, 2} |-> "x"] /\ query \in queries
  /\ sockStep = place0 /\ SockIdle
CaptureAt(place0, commands) ==
  options \in commands /\ adapters = Machine /\ capStep = place0 /\ CapIdle
NoSockets == SocketsAt("off", {{}}, {Query("ss", {})})
NoCapture == CaptureAt("off", {<<>>})
NoFind == land = FewFiles /\ job = FindJob /\ FindIdle /\ findStep = "off"

(* A step of one tool.                                                     *)
Rest(p) ==
  /\ p # "files" => UNCHANGED diskVars
  /\ p # "monitor" => UNCHANGED monitorVars
  /\ p # "tail" => UNCHANGED tailVars
  /\ p # "lsof" => UNCHANGED lsofVars
  /\ p # "sockets" => UNCHANGED sockVars
  /\ p # "capture" => UNCHANGED capVars
  /\ p # "find" => UNCHANGED findVars
  /\ UNCHANGED part

ToolsInit ==
  /\ part \in {"files", "monitor", "tail", "lsof", "sockets", "capture", "find"}
  /\ IF part = "files" THEN DiskInit ELSE NoFiles
  /\ IF part = "monitor" THEN MonitorInit ELSE NoMonitor
  /\ IF part = "tail" THEN TailInit ELSE NoTail
  /\ IF part = "lsof" THEN LsofInit(HandleLists) ELSE NoLsof
  /\ IF part = "sockets" THEN SocketsAt("begin", {AllSockets, {Listener, Datagrams}}, Queries)
     ELSE NoSockets
  /\ IF part = "capture" THEN CaptureAt("parse", Captures) ELSE NoCapture
  /\ IF part = "find" THEN FindInit ELSE NoFind

ToolsNext ==
  \/ part = "files" /\ Next /\ Rest("files")
  \/ part = "monitor" /\ MonitorNext /\ Rest("monitor")
  \/ part = "tail" /\ TailNext /\ Rest("tail")
  \/ part = "lsof" /\ LsofNext /\ Rest("lsof")
  \/ part = "sockets" /\ SockNext /\ Rest("sockets")
  \/ part = "capture" /\ CapNext(Readers) /\ Rest("capture")
  \/ part = "find" /\ FindNext /\ Rest("find")

ToolsSpec ==
  ToolsInit /\ [][ToolsNext]_<<part, diskVars, monitorVars, tailVars, lsofVars, sockVars,
                               capVars, findVars>>

=============================================================================
