--------------------------- MODULE MainTaskProofs ---------------------------
(***************************************************************************)
(* The keyboard gives the terminal back, and an exit that was asked for is *)
(* no failure: for every number of sessions, signals and errors, and every *)
(* size of the channels.                                                   *)
(***************************************************************************)
EXTENDS MainTask, TLAPS

(* A session that has a mode to give back runs, and is the only one unless *)
(* two overlapped; the terminal is raw while there is one, and only then.  *)
ModeInv ==
  /\ saved \in [Sessions -> {"none", "cooked", "raw"}] /\ terminal \in {"cooked", "raw"}
  /\ thread \in [Sessions -> {"none", "entering", "locking", "checking", "reading", "giving",
                              "leaving", "done"}]
  /\ born \in Nat /\ \A n \in Sessions : n > born => thread[n] = "none"
  /\ \A n \in Sessions : saved[n] # "none" => thread[n] \notin {"none", "entering", "done"}
  /\ ~overlap => /\ \A n, k \in Sessions : saved[n] # "none" /\ saved[k] # "none" => n = k
                 /\ \A n \in Sessions : saved[n] \in {"none", "cooked"}
                 /\ terminal = "cooked" \/ \E n \in Sessions : saved[n] # "none"

(* Only a report that found the hook gone makes a worker fail, but for the *)
(* filesystem's and the signals', which may fail by themselves, and the    *)
(* hook, which fails only before it was asked to exit.                     *)
SelfFailing == {"fs", "signal"}
ExitInv ==
  /\ worker \in [Workers -> {"run", "joined", "aborted"} \cup Ended]
  /\ \A x \in Workers \ (SelfFailing \cup {"error"}) : worker[x] = "failed" => lateReport
  /\ asked => worker["error"] \notin {"run", "failed"}
  /\ result = "err" =>
       \/ lateReport \/ (\E x \in SelfFailing : worker[x] = "joined")
       \/ (~asked /\ worker["error"] # "run")

-----------------------------------------------------------------------------
LEMMA InitModes == Init => ModeInv
BY DEF Init, KeyboardInit, ModeInv

(* What a step that neither opens a session nor moves a thread leaves.     *)
LEMMA ModesKept ==
  ASSUME ModeInv, UNCHANGED <<born, thread, terminal, saved, overlap>>
  PROVE  ModeInv'
BY DEF ModeInv

LEMMA EnterModes ==
  ASSUME ModeInv, NEW n \in Sessions, Enter(n)
  PROVE  ModeInv'
<1>1. /\ thread[n] = "entering" /\ thread' = [thread EXCEPT ![n] = "locking"] /\ born' = born
      /\ saved[n] = "none" /\ n <= born /\ born \in Nat /\ n \in Nat
  BY KeyboardBounds DEF Enter, AnyEnter, To, Threads, ModeInv, Sessions
<1>2. CASE UNCHANGED <<saved, terminal, overlap>>
  BY <1>1, <1>2 DEF ModeInv
<1>3. CASE /\ saved' = [saved EXCEPT ![n] = terminal] /\ terminal' = "raw"
           /\ overlap' = (overlap \/ \E k \in Sessions : saved[k] # "none")
  <2>1. ~overlap' => terminal = "cooked" /\ \A k \in Sessions : saved[k] = "none"
    BY <1>3 DEF ModeInv
  <2> QED BY <1>1, <1>3, <2>1 DEF ModeInv
<1> QED BY <1>2, <1>3 DEF Enter, AnyEnter

LEMMA LeaveModes ==
  ASSUME ModeInv, NEW n \in Sessions, Leave(n)
  PROVE  ModeInv'
<1>1. /\ thread[n] = "leaving" /\ thread' = [thread EXCEPT ![n] = "done"] /\ born' = born
      /\ saved' = [saved EXCEPT ![n] = "none"] /\ overlap' = overlap
      /\ terminal' = (IF saved[n] = "none" THEN terminal ELSE saved[n])
  BY DEF Leave, To, Threads
<1>2. /\ saved' \in [Sessions -> {"none", "cooked", "raw"}] /\ terminal' \in {"cooked", "raw"}
      /\ thread' \in [Sessions -> {"none", "entering", "locking", "checking", "reading", "giving",
                                   "leaving", "done"}]
  BY <1>1 DEF ModeInv
<1>3. /\ \A k \in Sessions : k > born => thread'[k] = "none"
      /\ \A k \in Sessions : saved'[k] # "none" => thread'[k] \notin {"none", "entering", "done"}
  BY <1>1 DEF ModeInv
<1>4. ~overlap => terminal' = "cooked" \/ \E k \in Sessions : saved'[k] # "none"
  BY <1>1 DEF ModeInv
<1>5. ~overlap => /\ \A k, l \in Sessions : saved'[k] # "none" /\ saved'[l] # "none" => k = l
                  /\ \A k \in Sessions : saved'[k] \in {"none", "cooked"}
  BY <1>1 DEF ModeInv
<1> QED BY <1>1, <1>2, <1>3, <1>4, <1>5 DEF ModeInv

(* A thread on its way between the two keeps its mode.                     *)
LEMMA BetweenModes ==
  ASSUME ModeInv, NEW n \in Sessions, Lock(n) \/ Check(n) \/ ReadNothing(n) \/ Read(n) \/ Give(n)
  PROVE  ModeInv'
<1>1. /\ thread[n] \in {"locking", "checking", "reading", "giving"}
      /\ \E to \in {"checking", "reading", "giving", "leaving"} :
           thread' = [thread EXCEPT ![n] = to]
      /\ UNCHANGED <<born, terminal, saved, overlap>>
  BY DEF Lock, Check, ReadNothing, Read, Give, To, Threads
<1> QED BY <1>1 DEF ModeInv

LEMMA OpenModes ==
  ASSUME ModeInv, OpenSession
  PROVE  ModeInv'
<1> DEFINE n == born + 1
<1>1. /\ n \in Sessions /\ n > born /\ thread[n] = "none" /\ saved[n] = "none" /\ born \in Nat
      /\ thread' = [thread EXCEPT ![n] = "entering"] /\ born' = born + 1
      /\ UNCHANGED <<terminal, saved, overlap>>
  BY KeyboardBounds DEF OpenSession, ModeInv, Sessions
<1>2. \A k \in Sessions : k > born + 1 => k # n /\ k > born
  BY <1>1 DEF Sessions
<1> HIDE DEF n
<1>3. n = born'
  BY <1>1 DEF n
<1> QED BY <1>1, <1>2 DEF ModeInv

LEMMA StepModes ==
  ASSUME ModeInv, [Next]_vars
  PROVE  ModeInv'
<1>1. CASE MainStep \/ Hook \/ ActionStep \/ SignalStep \/ Watch \/ Report("fs") \/ Configure
           \/ (\E s \in Signals : Raise(s)) \/ UNCHANGED vars
  <2>1. UNCHANGED <<born, thread, terminal, saved, overlap>>
    BY <1>1 DEF MainStep, Join, AnyJoin, Abort, DropWorker, MainEnds, RuntimeEnds, Hook,
       ActionStep, Report, HandlerEnds, ChannelClosed, Act, SignalStep, SendSignal, AnySendSignal,
       Receive, Watch, Configure, Toggle, Raise, vars, keyboardVars, threads, tasks, settings
  <2> QED BY <2>1, ModesKept
<1>2. CASE KeyboardWorker
  <2>1. CASE OpenSession
    BY <2>1, OpenModes
  <2>2. CASE NextSetting \/ CloseSession \/ NothingToDo
    BY <2>2, ModesKept DEF NextSetting, CloseSession, NothingToDo, threads
  <2> QED BY <1>2, <2>1, <2>2 DEF KeyboardWorker, WorkerStep
<1>3. ASSUME NEW n \in Sessions, KeyboardTask(n) \/ SendKey(n) PROVE ModeInv'
  BY <1>3, ModesKept DEF KeyboardTask, SendKey, Closed, Take, ThreadEnded, Sent, EndTask,
     AnyEndTask, threads
<1>4. ASSUME NEW n \in Sessions, KeyboardThread(n) \/ Type(n) PROVE ModeInv'
  BY <1>4, EnterModes, LeaveModes, BetweenModes DEF KeyboardThread, ThreadStep, Type
<1> QED BY <1>1, <1>2, <1>3, <1>4 DEF Next

(* When every reader has left, the terminal is in the mode it was found    *)
(* in, unless two sessions overlapped (keyboard.rs:42-80, 189-270).        *)
THEOREM TerminalRestoredTheorem == Spec => []TerminalRestored
<1>1. ModeInv => TerminalRestored
  BY DEF ModeInv, TerminalRestored, AllLeft
<1> QED BY <1>1, InitModes, StepModes, PTL DEF Spec

-----------------------------------------------------------------------------
LEMMA InitExit == Init => ExitInv
BY DEF Init, ExitInv, Workers, SelfFailing, Ended

LEMMA JoinExit ==
  ASSUME ExitInv, NEW x \in Workers, Join(x)
  PROVE  ExitInv'
<1>1. /\ worker[x] \in Ended /\ worker' = [worker EXCEPT ![x] = "joined"]
      /\ UNCHANGED <<asked, lateReport>> /\ SelfFailing \cup {"error"} \subseteq Workers
      /\ worker \in [Workers -> {"run", "joined", "aborted"} \cup Ended]
  BY DEF Join, AnyJoin, Ends, history, ExitInv, Workers, SelfFailing
<1>2. /\ worker' \in [Workers -> {"run", "joined", "aborted"} \cup Ended]
      /\ \A y \in Workers \ (SelfFailing \cup {"error"}) : worker'[y] = "failed" => lateReport
      /\ asked => worker'["error"] \notin {"run", "failed"}
  BY <1>1 DEF ExitInv
<1>3. CASE worker[x] # "failed"
  <2>1. result' = "err" => result = "err"
    BY <1>3 DEF Join, AnyJoin, Closing
  <2>2. \A y \in SelfFailing : worker[y] = "joined" => worker'[y] = "joined"
    BY <1>1
  <2>3. worker["error"] # "run" => worker'["error"] # "run"
    BY <1>1
  <2> QED BY <1>1, <1>2, <2>1, <2>2, <2>3 DEF ExitInv
<1>4. CASE worker[x] = "failed"
  <2>1. CASE x \in SelfFailing
    BY <1>1, <1>2, <2>1 DEF ExitInv
  <2>2. CASE x = "error"
    BY <1>1, <1>2, <1>4, <2>2 DEF ExitInv
  <2>3. CASE x \notin SelfFailing \cup {"error"}
    BY <1>1, <1>2, <1>4, <2>3 DEF ExitInv
  <2> QED BY <2>1, <2>2, <2>3
<1> QED BY <1>3, <1>4

LEMMA ReportExit ==
  ASSUME ExitInv, NEW x \in Workers, Report(x)
  PROVE  ExitInv'
<1>1. /\ worker[x] = "run" /\ UNCHANGED <<asked, result>>
      /\ \/ worker' = [worker EXCEPT ![x] = "failed"] /\ lateReport' = TRUE
            /\ worker["error"] # "run"
         \/ UNCHANGED <<worker, lateReport>>
  BY DEF Report, Ends, HookGone, mainVars
<1> QED BY <1>1 DEF ExitInv, Ended, Workers, SelfFailing

(* Workers that run are dropped, and nothing else.                         *)
LEMMA DropExit ==
  ASSUME ExitInv, (\E g \in Groups : Abort(g)) \/ RuntimeEnds
  PROVE  ExitInv'
<1>1. /\ UNCHANGED <<asked, lateReport, result>>
      /\ worker' \in [Workers -> {"run", "joined", "aborted"} \cup Ended]
      /\ \A x \in Workers : worker'[x] = worker[x] \/ (worker[x] = "run" /\ worker'[x] = "aborted")
  BY DEF Abort, RuntimeEnds, mainVars, history, ExitInv
<1> QED BY <1>1 DEF ExitInv, Workers, SelfFailing

LEMMA StepExit ==
  ASSUME ExitInv, [Next]_vars
  PROVE  ExitInv'
<1>1. CASE \E x \in Workers : Join(x)
  BY <1>1, JoinExit
<1>2. CASE (\E g \in Groups : Abort(g)) \/ RuntimeEnds
  BY <1>2, DropExit
<1>3. CASE Report("action") \/ Report("signal") \/ Report("fs")
  BY <1>3, ReportExit DEF Workers
<1>4. CASE Hook
  <2>1. /\ worker["error"] = "run" /\ UNCHANGED <<lateReport, result>>
        /\ \/ worker' = [worker EXCEPT !["error"] = "exit"] /\ asked' = TRUE
           \/ worker' = [worker EXCEPT !["error"] = "failed"] /\ asked' = asked
           \/ worker' = worker /\ asked' = asked
    BY <1>4 DEF Hook, Runs, Ends, mainVars
  <2> QED BY <2>1 DEF ExitInv, Ended, Workers, SelfFailing
<1>5. CASE Watch \/ HandlerEnds \/ ChannelClosed
  <2>1. /\ UNCHANGED <<lateReport, asked, result>>
        /\ \/ worker' = worker
           \/ worker["fs"] = "run" /\ worker' = [worker EXCEPT !["fs"] = "failed"]
           \/ \E how \in {"ok", "panicked"} : worker' = [worker EXCEPT !["action"] = how]
    BY <1>5 DEF Watch, HandlerEnds, ChannelClosed, Runs, Ends, mainVars, history
  <2> QED BY <2>1 DEF ExitInv, Ended, Workers, SelfFailing
<1>6. CASE UNCHANGED <<worker, asked, lateReport, result>>
  BY <1>6 DEF ExitInv
<1>7. CASE \/ MainEnds \/ (SignalStep /\ ~Report("signal")) \/ KeyboardWorker \/ Configure
           \/ (\E e \in Signals \cup {"key"} : Act(e)) \/ (\E s \in Signals : Raise(s))
           \/ (\E n \in Sessions : KeyboardTask(n) \/ SendKey(n) \/ KeyboardThread(n) \/ Type(n))
           \/ UNCHANGED vars
  BY <1>6, <1>7 DEF MainEnds, SignalStep, SendSignal, AnySendSignal, Receive, KeyboardWorker,
     Configure, Act, Raise, KeyboardTask, SendKey, KeyboardThread, Type, vars, coreVars, mainVars,
     history
<1> QED
  BY <1>1, <1>2, <1>3, <1>4, <1>5, <1>7 DEF Next, MainStep, ActionStep, SignalStep

(* Once the hook took the request to exit, the main task ends without an   *)
(* error, but for a failure of the filesystem or signal worker, and reports*)
(* that found the hook gone (watchexec.rs:170-235, error/critical.rs:12).  *)
THEOREM ExitIsCleanTheorem == Spec => []ExitIsClean
<1>1. ExitInv => ExitIsClean
  BY DEF ExitInv, ExitIsClean, SelfFailing
<1> QED BY <1>1, InitExit, StepExit, PTL DEF Spec
=============================================================================
