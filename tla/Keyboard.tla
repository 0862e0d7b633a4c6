------------------------------ MODULE Keyboard ------------------------------
(***************************************************************************)
(* The keyboard source of watchexec.  A worker follows the setting that    *)
(* turns the source on; a session is what it spawns then: a task that      *)
(* turns bytes into events, and a blocking thread that reads stdin with    *)
(* the terminal in raw mode.  The worker ends a session by a close signal, *)
(* the task tells its thread by a flag, and the thread looks at the flag   *)
(* between two reads.                                                      *)
(***************************************************************************)
EXTENDS Naturals, Sequences, FiniteSets

CONSTANTS
  MaxSessions,  \* bound: sessions in one behaviour
  MaxToggles,   \* bound: changes of the setting in one behaviour
  PipeSize,     \* messages between a thread and its task (16 in the code)
  Polls         \* whether a read gives up after a while: VTIME, on Unix only

ASSUME KeyboardBounds == MaxSessions \in Nat /\ MaxToggles \in Nat /\ PipeSize \in Nat \ {0}

Sessions == 1 .. MaxSessions
Inputs == {"key", "interrupt", "end", "failed"}  \* what a read returns; "interrupt": Ctrl-C or Ctrl-D

VARIABLES
  wanted,    \* config.keyboard_events
  toggles,   \* number of changes, from a start that leaves room for some
  noticed,   \* the Notified the worker awaits has been notified
  watching,  \* the worker: "starting", "looking", "waiting" or "gone"
  current,   \* send_close: the session it can close, 0 for none
  born,      \* number of sessions spawned so far
  closing,   \* sessions whose close signal was sent or whose sender is gone
  task,      \* task[n]: "none", "listening", "sending", "last", "done" or "dropped" with the runtime
  cancel,    \* sessions whose thread is told to stop
  thread,    \* thread[n]: "none", "entering", "locking", "checking", "reading", "giving", "leaving" or "done"
  got,       \* got[n]: what the thread has read and not yet given
  pipe,      \* pipe[n]: read but not yet taken by the task
  terminal,  \* mode of the terminal
  saved,     \* saved[n]: the mode the session gives back
  overlap    \* history: a session took the mode while another had it

settings == <<wanted, toggles, noticed>>
tasks == <<closing, task, cancel>>
threads == <<thread, got, terminal, saved, overlap>>
keyboardVars == <<settings, watching, current, born, tasks, threads, pipe>>

KeyboardInit ==
  /\ wanted \in BOOLEAN /\ toggles \in 0 .. MaxToggles /\ noticed = FALSE
  /\ watching = "starting" /\ current = 0 /\ born = 0
  /\ closing = {} /\ cancel = {} /\ overlap = FALSE
  /\ task = [n \in Sessions |-> "none"] /\ thread = task /\ got = task /\ saved = task
  /\ pipe = [n \in Sessions |-> <<>>] /\ terminal = "cooked"

-----------------------------------------------------------------------------
(* Config::keyboard_events: the value, then notify_waiters().              *)
Toggle ==
  /\ toggles < MaxToggles /\ toggles' = toggles + 1
  /\ wanted' = ~wanted /\ noticed' = (noticed \/ watching = "waiting")
  /\ UNCHANGED <<watching, current, born, tasks, threads, pipe>>

(* ConfigWatched::next: the first call returns at once.                    *)
NextSetting ==
  /\ \/ watching = "starting" /\ UNCHANGED noticed
     \/ watching = "waiting" /\ noticed /\ noticed' = FALSE
  /\ watching' = "looking"
  /\ UNCHANGED <<wanted, toggles, current, born, tasks, threads, pipe>>

OpenSession ==
  /\ watching = "looking" /\ wanted /\ current = 0 /\ born < MaxSessions
  /\ born' = born + 1 /\ current' = born + 1
  /\ task' = [task EXCEPT ![born + 1] = "listening"]
  /\ thread' = [thread EXCEPT ![born + 1] = "entering"]
  /\ watching' = "waiting"
  /\ UNCHANGED <<settings, closing, cancel, got, terminal, saved, overlap, pipe>>

CloseSession ==
  /\ watching = "looking" /\ ~wanted /\ current # 0
  /\ closing' = closing \cup {current} /\ current' = 0
  /\ watching' = "waiting"
  /\ UNCHANGED <<settings, born, task, cancel, threads, pipe>>

NothingToDo ==
  /\ watching = "looking" /\ (wanted <=> current # 0)
  /\ watching' = "waiting"
  /\ UNCHANGED <<settings, current, born, tasks, threads, pipe>>

(* The worker is dropped, and with it the sender of the close signal.      *)
DropWorker ==
  /\ watching' = "gone" /\ current' = 0
  /\ closing' = closing \cup ({current} \ {0})
  /\ UNCHANGED <<settings, born, task, cancel, threads, pipe>>

-----------------------------------------------------------------------------
(* watch_stdin.  The end of its select, whichever branch ended it, tells   *)
(* the thread to stop.                                                     *)
Listening(n) == task[n] \in {"listening", "sending", "last"}

AnyEndTask(n, told) ==
  /\ task' = [task EXCEPT ![n] = "done"]
  /\ cancel' = told
  /\ UNCHANGED <<settings, watching, current, born, closing, threads, pipe>>
EndTaskQuietly(n) == AnyEndTask(n, cancel)
EndTask(n) == AnyEndTask(n, cancel \cup {n})

Closed(n) == Listening(n) /\ n \in closing /\ EndTask(n)

Take(n) ==
  /\ task[n] = "listening" /\ pipe[n] # <<>>
  /\ pipe' = [pipe EXCEPT ![n] = Tail(@)]
  /\ CASE Head(pipe[n]) = "key" -> task' = [task EXCEPT ![n] = "sending"] /\ UNCHANGED cancel
       [] Head(pipe[n]) = "failed" -> task' = [task EXCEPT ![n] = "done"] /\ cancel' = cancel \cup {n}
       [] OTHER -> task' = [task EXCEPT ![n] = "last"] /\ UNCHANGED cancel
  /\ UNCHANGED <<settings, watching, current, born, closing, threads>>

(* The event is sent, or the send failed: both end the wait.               *)
Sent(n) ==
  \/ /\ task[n] = "sending" /\ task' = [task EXCEPT ![n] = "listening"]
     /\ UNCHANGED <<settings, watching, current, born, closing, cancel, threads, pipe>>
  \/ task[n] = "last" /\ EndTask(n)

ThreadEnded(n) == task[n] = "listening" /\ thread[n] = "done" /\ pipe[n] = <<>> /\ EndTask(n)

-----------------------------------------------------------------------------
(* The blocking thread.  RawModeGuard::enter fails when stdin is not a     *)
(* terminal; the guard is taken before the lock of stdin.                  *)
To(n, where) == thread' = [thread EXCEPT ![n] = where]
Threads == UNCHANGED <<settings, watching, current, born, tasks>>

AnyEnter(n, before) ==
  /\ thread[n] = "entering" /\ To(n, "locking")
  /\ \/ /\ saved' = [saved EXCEPT ![n] = before] /\ terminal' = "raw"
        /\ overlap' = (overlap \/ \E k \in Sessions : saved[k] # "none")
     \/ UNCHANGED <<saved, terminal, overlap>>
  /\ UNCHANGED <<got, pipe>> /\ Threads
EnterThenSave(n) == AnyEnter(n, "raw")
Enter(n) == AnyEnter(n, terminal)

Holding(n) == thread[n] \in {"checking", "reading", "giving"}
Lock(n) ==
  /\ thread[n] = "locking" /\ ~\E k \in Sessions : Holding(k)
  /\ To(n, "checking")
  /\ UNCHANGED <<got, terminal, saved, overlap, pipe>> /\ Threads

Check(n) ==
  /\ thread[n] = "checking"
  /\ To(n, IF n \in cancel THEN "leaving" ELSE "reading")
  /\ UNCHANGED <<got, terminal, saved, overlap, pipe>> /\ Threads

(* A read of nothing: in raw mode the wait was over.                       *)
ReadNothing(n) ==
  /\ thread[n] = "reading" /\ Polls /\ saved[n] # "none" /\ To(n, "checking")
  /\ UNCHANGED <<got, terminal, saved, overlap, pipe>> /\ Threads

Read(n) ==
  /\ thread[n] = "reading"
  /\ \E i \in Inputs : (i = "end" => saved[n] = "none") /\ got' = [got EXCEPT ![n] = i]
  /\ To(n, "giving")
  /\ UNCHANGED <<terminal, saved, overlap, pipe>> /\ Threads

(* blocking_send waits for room and fails once the task is over.           *)
Give(n) ==
  /\ thread[n] = "giving" /\ got' = [got EXCEPT ![n] = "none"]
  /\ \/ /\ Listening(n) /\ Len(pipe[n]) < PipeSize
        /\ pipe' = [pipe EXCEPT ![n] = Append(@, got[n])]
        /\ To(n, IF got[n] \in {"key", "interrupt"} THEN "checking" ELSE "leaving")
     \/ ~Listening(n) /\ To(n, "leaving") /\ UNCHANGED pipe
  /\ UNCHANGED <<terminal, saved, overlap>> /\ Threads

(* The guard is dropped after the lock.                                    *)
Leave(n) ==
  /\ thread[n] = "leaving" /\ To(n, "done")
  /\ terminal' = (IF saved[n] = "none" THEN terminal ELSE saved[n])
  /\ saved' = [saved EXCEPT ![n] = "none"]
  /\ UNCHANGED <<got, overlap, pipe>> /\ Threads

WorkerStep == NextSetting \/ OpenSession \/ CloseSession \/ NothingToDo
ThreadStep(n) == Enter(n) \/ Lock(n) \/ Check(n) \/ ReadNothing(n) \/ Give(n) \/ Leave(n)

-----------------------------------------------------------------------------
AllLeft == \A n \in Sessions : thread[n] \in {"none", "done"}

(* keyboard.rs:62, 74: the mode of the terminal is given back on drop.     *)
(* When no reader is left the terminal is as it was, unless a session was  *)
(* opened before the one before it had left: then the later one saves raw  *)
(* mode for the original and the order of the drops decides.               *)
TerminalRestored == AllLeft /\ ~overlap => terminal = "cooked"

(* keyboard.rs:87-89, 270: a session that is closed ends its thread within *)
(* a read's wait, whatever it was doing, unless the runtime was torn down  *)
(* before the task saw the signal, stdin is no terminal and blocks, or     *)
(* another session holds it.                                               *)
Waits(n) ==
  \/ thread[n] = "reading" /\ saved[n] = "none"
  \/ thread[n] = "locking" /\ \E k \in Sessions \ {n} : Holding(k)
CloseEndsThread ==
  \A n \in Sessions : n \in closing ~> thread[n] = "done" \/ task[n] = "dropped" \/ Waits(n)
=============================================================================
