---------------------------- MODULE WorkerProofs -----------------------------
(***************************************************************************)
(* Theorems about the two workers of the library: the action worker, for   *)
(* any number of Ids, jobs and events and any channel size, and the        *)
(* filesystem worker, for any path sets; and about the ignore files that   *)
(* decide which events reach the first.                                    *)
(*                                                                         *)
(* The invariant of the action worker follows a job from its creation on:  *)
(* it is in action.new or in jobtasks, whichever quit comes (Owned), and   *)
(* as long as it lives and the worker works, it is under an Id (Reachable),*)
(* which rests on handlers creating jobs only under Ids that have none     *)
(* (FreshIds).                                                             *)
(***************************************************************************)
EXTENDS ActionWorker, FsWorker, Ignores, FiniteSetTheorems, SequenceTheorems, TLAPS

Working == {"collect", "handler", "adopt"}

Owned == 1 .. created \subseteq jobtasks \cup NewJobs
Reachable == pc \in Working => jobtasks \ ended \subseteq Range(jobs)
FreshIds ==
  /\ \A i \in Ids : new[i] # 0 => jobs[i] = 0
  /\ pc \notin {"handler", "adopt"} => new = NoJobs
QuitPhase ==
  /\ pc = "collect" => quit = "none"
  /\ pc \in {"stopping", "joining"} => quit = "graceful"
  /\ pc = "done" /\ quit # "none" => 1 .. created \subseteq ended
RipeInTime ==
  /\ pc = "handler" => batch # {}
  /\ pc = "adopt" => batch = {}
  /\ pc = "collect" /\ elapsed /\ batch # {} => ripe
  /\ TrailingEdge

IInv == TypeOK /\ Owned /\ Reachable /\ FreshIds /\ QuitPhase /\ RipeInTime

LEMMA RangeOf ==
  ASSUME NEW f \in [Ids -> Nat], NEW n
  PROVE  n \in Range(f) <=> \E i \in Ids : f[i] = n
BY DEF Range

LEMMA ChannelSizes ==
  ASSUME TypeOK, NEW e
  PROVE  /\ IsFiniteSet(channel) /\ Cardinality(channel) \in Nat
         /\ Cardinality(channel \ {e}) <= Cardinality(channel)
         /\ Cardinality(channel \ {e}) \in Nat
         /\ Cardinality(channel \cup {e}) <= Cardinality(channel) + 1
<1>1. IsFiniteSet(1 .. sent)
  BY FS_Interval DEF TypeOK
<1>2. IsFiniteSet(channel)
  BY <1>1, FS_Subset DEF TypeOK
<1>3. IsFiniteSet(channel \ {e}) /\ Cardinality(channel \ {e}) <= Cardinality(channel)
  BY <1>2, FS_Subset
<1>4. /\ Cardinality(channel \cup {e}) = IF e \in channel THEN Cardinality(channel)
                                         ELSE Cardinality(channel) + 1
      /\ Cardinality(channel) \in Nat /\ Cardinality(channel \ {e}) \in Nat
  BY <1>2, <1>3, FS_AddElement, FS_CardinalityType
<1> QED BY <1>2, <1>3, <1>4

LEMMA InitIInv == Init => IInv
<1> SUFFICES ASSUME Init PROVE IInv
  OBVIOUS
<1>1. Cardinality(channel) = 0
  <2>1. channel = {}
    BY DEF Init
  <2> QED BY <2>1, FS_EmptySet
<1>2. TypeOK
  <2>1. /\ sent = 0 /\ created = 0 /\ urgent = {} /\ channel = {} /\ full = {}
        /\ batch = {} /\ handled = {} /\ filtered = {}
        /\ jobtasks = {} /\ ended = {} /\ deleting = {}
        /\ closed = FALSE /\ elapsed = FALSE /\ ripe = FALSE /\ pc = "collect" /\ quit = "none"
    BY Zenon DEF Init
  <2>2. jobs \in [Ids -> 0 .. created] /\ new \in [Ids -> 0 .. created]
    BY <2>1 DEF Init, NoJobs
  <2>3. Cardinality(channel) <= ChannelSize
    BY <1>1, Bounds
  <2>4. closed \in BOOLEAN /\ elapsed \in BOOLEAN /\ ripe \in BOOLEAN
    BY <2>1
  <2>5. sent \in 0 .. MaxEvents /\ created \in 0 .. MaxJobs
    BY <2>1, Bounds
  <2>6. /\ urgent \subseteq 1 .. sent /\ channel \subseteq 1 .. sent /\ full \subseteq 1 .. sent
        /\ batch \subseteq 1 .. sent /\ handled \subseteq 1 .. sent /\ filtered \subseteq 1 .. sent
        /\ jobtasks \subseteq 1 .. created /\ ended \subseteq 1 .. created
        /\ deleting \subseteq 1 .. created
    BY <2>1
  <2>7. /\ pc \in {"collect", "handler", "adopt", "stopping", "joining", "done"}
        /\ quit \in {"none", "abort", "graceful"}
    BY <2>1
  <2> QED BY <2>2, <2>3, <2>4, <2>5, <2>6, <2>7 DEF TypeOK
<1>3. Owned
  <2>1. 1 .. created = {}
    BY DEF Init
  <2> QED BY <2>1 DEF Owned
<1>4. Reachable /\ FreshIds /\ QuitPhase
  BY DEF Init, Reachable, FreshIds, QuitPhase, NoJobs
<1>5. RipeInTime
  BY DEF Init, RipeInTime, TrailingEdge
<1> QED BY <1>2, <1>3, <1>4, <1>5 DEF IInv

(* Steps that touch events and batches only.                               *)
LEMMA EventStep ==
  ASSUME IInv,
         \/ \E u \in Urgencies : SendEvent(u)
         \/ CloseChannel \/ ThrottlePasses \/ WindowEnds
         \/ \E e \in channel : Collect(e)
  PROVE  IInv'
<1> USE Bounds DEF IInv
<1>1. UNCHANGED <<quit, jobVars>> /\ (pc' = pc \/ (pc = "collect" /\ pc' = "handler"))
  BY DEF SendEvent, CloseChannel, ThrottlePasses, WindowEnds, Collect, AnyCollect
<1>2. TypeOK'
  <2>1. ASSUME NEW u \in Urgencies, SendEvent(u) PROVE TypeOK'
    <3>1. Cardinality(channel') <= ChannelSize
      <4>1. Cardinality(channel \cup {sent + 1}) <= Cardinality(channel) + 1
            /\ Cardinality(channel) \in Nat /\ Cardinality(channel) <= ChannelSize
            /\ IsFiniteSet(channel)
        BY ChannelSizes DEF TypeOK
      <4>2. Cardinality(channel \cup {sent + 1}) \in Nat
        BY <4>1, FS_AddElement, FS_CardinalityType
      <4>3. \/ channel' = channel
            \/ channel' = channel \cup {sent + 1} /\ Cardinality(channel) < ChannelSize
        BY <2>1 DEF SendEvent
      <4>4. CASE channel' = channel
        BY <4>1, <4>4
      <4>5. CASE channel' = channel \cup {sent + 1} /\ Cardinality(channel) < ChannelSize
        <5>1. Cardinality(channel \cup {sent + 1}) <= ChannelSize
          BY <4>1, <4>2, <4>5
        <5> QED BY <4>5, <5>1
      <4> QED BY <4>3, <4>4, <4>5
    <3>2. sent' = sent + 1 /\ sent' \in 0 .. MaxEvents /\ 1 .. sent \subseteq 1 .. sent'
      BY <2>1 DEF SendEvent, TypeOK
    <3>3. urgent' \subseteq 1 .. sent' /\ channel' \subseteq 1 .. sent' /\ full' \subseteq 1 .. sent'
      <4>1. sent + 1 \in 1 .. sent'
        BY <3>2 DEF TypeOK
      <4>2. /\ urgent' \subseteq urgent \cup {sent + 1} /\ channel' \subseteq channel \cup {sent + 1}
            /\ full' \subseteq full \cup {sent + 1}
        BY <2>1 DEF SendEvent
      <4> QED BY <4>1, <4>2, <3>2 DEF TypeOK
    <3>4. UNCHANGED <<closed, batchVars, pc, quit, jobVars>>
      BY <2>1 DEF SendEvent
    <3> QED BY <3>1, <3>2, <3>3, <3>4 DEF TypeOK, batchVars, jobVars
  <2>2. CASE CloseChannel
    BY <2>2 DEF CloseChannel, TypeOK, batchVars, jobVars
  <2>3. CASE ThrottlePasses
    BY <2>3 DEF ThrottlePasses, TypeOK, eventVars, jobVars
  <2>4. CASE WindowEnds
    BY <2>4 DEF WindowEnds, TypeOK, eventVars, batchVars, jobVars
  <2>5. ASSUME NEW e \in channel, Collect(e) PROVE TypeOK'
    <3>1. Cardinality(channel') <= ChannelSize
      <4>1. Cardinality(channel \ {e}) <= Cardinality(channel)
            /\ Cardinality(channel) \in Nat /\ Cardinality(channel) <= ChannelSize
            /\ Cardinality(channel \ {e}) \in Nat
        BY ChannelSizes DEF TypeOK
      <4>2. Cardinality(channel \ {e}) <= ChannelSize
        BY <4>1
      <4>3. channel' = channel \ {e}
        BY <2>5 DEF Collect, AnyCollect
      <4> QED BY <4>2, <4>3
    <3> QED BY <2>5, <3>1 DEF Collect, AnyCollect, TypeOK, jobVars, WindowOver
  <2> QED BY <2>1, <2>2, <2>3, <2>4, <2>5
<1>3. (Owned /\ Reachable /\ FreshIds /\ QuitPhase)'
  BY <1>1 DEF Owned, Reachable, FreshIds, QuitPhase, jobVars, NewJobs, Working, TypeOK
<1>4. RipeInTime'
  <2>1. ASSUME NEW u \in Urgencies, SendEvent(u) PROVE RipeInTime'
    BY <2>1 DEF SendEvent, RipeInTime, TrailingEdge, batchVars, TypeOK
  <2>2. CASE CloseChannel
    BY <2>2 DEF CloseChannel, RipeInTime, TrailingEdge, batchVars
  <2>4. CASE ThrottlePasses
    <3>1. pc' = pc /\ batch' = batch /\ urgent' = urgent /\ (ripe' <=> batch # {})
      BY <2>4 DEF ThrottlePasses, eventVars
    <3>2. CASE batch = {}
      BY <3>1, <3>2 DEF RipeInTime, TrailingEdge
    <3>3. CASE batch # {}
      BY <3>1, <3>3 DEF RipeInTime, TrailingEdge
    <3> QED BY <3>2, <3>3
  <2>5. CASE WindowEnds
    BY <2>5 DEF WindowEnds, RipeInTime, TrailingEdge, batchVars, eventVars, WindowOver
  <2>3. ASSUME NEW e \in channel, Collect(e) PROVE RipeInTime'
    BY <2>3 DEF Collect, AnyCollect, RipeInTime, TrailingEdge, WindowOver
  <2> QED BY <2>1, <2>2, <2>3, <2>4, <2>5
<1> QED BY <1>2, <1>3, <1>4

(* Steps that end the worker or a job.                                     *)
LEMMA EndStep ==
  ASSUME IInv,
         \/ \E e \in channel : FilterOut(e)
         \/ ChannelClosed \/ JobsStopped \/ TasksJoined
         \/ \E j \in Jobs : JobEnds(j)
  PROVE  IInv'
<1> USE Bounds DEF IInv
<1>1. ASSUME NEW e \in channel, FilterOut(e) PROVE IInv'
  <2>1. TypeOK'
    <3>1. Cardinality(channel') <= ChannelSize
      <4>1. Cardinality(channel \ {e}) <= Cardinality(channel)
            /\ Cardinality(channel) \in Nat /\ Cardinality(channel) <= ChannelSize
            /\ Cardinality(channel \ {e}) \in Nat
        BY ChannelSizes DEF TypeOK
      <4>2. Cardinality(channel \ {e}) <= ChannelSize
        BY <4>1
      <4>3. channel' = channel \ {e}
        BY <1>1 DEF FilterOut
      <4> QED BY <4>2, <4>3
    <3> QED BY <1>1, <3>1 DEF FilterOut, TypeOK
  <2>2. (Owned /\ Reachable /\ FreshIds /\ QuitPhase /\ RipeInTime)'
    BY <1>1 DEF FilterOut, Owned, Reachable, FreshIds, QuitPhase, RipeInTime, TrailingEdge,
                NewJobs, Working, WindowOver
  <2> QED BY <2>1, <2>2
<1>2. CASE ChannelClosed
  BY <1>2 DEF ChannelClosed, TypeOK, Owned, Reachable, FreshIds, QuitPhase, RipeInTime,
              TrailingEdge, NewJobs, Working, eventVars, batchVars
<1>3. CASE JobsStopped
  BY <1>3 DEF JobsStopped, TypeOK, Owned, Reachable, FreshIds, QuitPhase, RipeInTime,
              TrailingEdge, NewJobs, NoJobs, Working, eventVars, batchVars
<1>4. CASE TasksJoined
  <2>1. NewJobs = {}
    BY <1>4 DEF TasksJoined, AnyTasksJoined, FreshIds, NewJobs, NoJobs, Range
  <2> QED BY <1>4, <2>1 DEF TasksJoined, AnyTasksJoined, TypeOK, Owned, Reachable, FreshIds,
              QuitPhase, RipeInTime, TrailingEdge, NewJobs, Working, eventVars, batchVars, jobVars
<1>5. ASSUME NEW j \in Jobs, JobEnds(j) PROVE IInv'
  BY <1>5 DEF JobEnds, TypeOK, Owned, Reachable, FreshIds, QuitPhase, RipeInTime,
              TrailingEdge, NewJobs, Working, eventVars, batchVars
<1> QED BY <1>1, <1>2, <1>3, <1>4, <1>5

(* Steps of the user's handler.                                            *)
LEMMA HandlerStep ==
  ASSUME IInv, ~SameIdTwice,
         \/ \E i \in Ids : GetOrCreateJob(i)
         \/ \E j \in Jobs : DeleteJob(j)
         \/ \E manner \in {"abort", "graceful"} : Quit(manner)
         \/ HandlerReturns
  PROVE  IInv'
<1> USE Bounds DEF IInv
<1>1. ASSUME NEW i \in Ids, GetOrCreateJob(i) PROVE IInv'
  <2>1. TypeOK'
    BY <1>1 DEF GetOrCreateJob, Start, TypeOK, eventVars, batchVars
  <2>2. Owned'
    <3>1. SUFFICES ASSUME NEW j \in 1 .. created' PROVE j \in (jobtasks \cup NewJobs)'
      BY DEF Owned
    <3>2. \A k \in Ids : new'[k] = IF k = i THEN created + 1 ELSE new[k]
      BY <1>1 DEF GetOrCreateJob, Start, TypeOK
    <3>3. new \in [Ids -> Nat] /\ new' \in [Ids -> Nat] /\ new[i] = 0 /\ jobtasks' = jobtasks
          /\ created' = created + 1
      BY <1>1, <2>1 DEF GetOrCreateJob, Start, TypeOK
    <3>4. CASE j = created + 1
      BY <3>2, <3>3, <3>4, RangeOf DEF NewJobs, TypeOK
    <3>5. CASE j \in 1 .. created
      <4>1. CASE j \in jobtasks
        BY <4>1, <3>3
      <4>2. CASE j \in Range(new)
        <5>1. PICK k \in Ids : new[k] = j
          BY <4>2, <3>3, RangeOf
        <5>2. k # i
          BY <5>1, <3>3, <3>5
        <5>3. j \in Range(new')
          BY <5>1, <5>2, <3>2, <3>3, RangeOf
        <5> QED BY <5>3, <3>5 DEF NewJobs
      <4> QED BY <4>1, <4>2, <3>5 DEF Owned, NewJobs
    <3> QED BY <3>3, <3>4, <3>5 DEF TypeOK
  <2>3. (Reachable /\ FreshIds /\ QuitPhase /\ RipeInTime)'
    BY <1>1 DEF GetOrCreateJob, Start, TypeOK, Reachable, FreshIds, QuitPhase, RipeInTime,
                TrailingEdge, eventVars, batchVars
  <2> QED BY <2>1, <2>2, <2>3
<1>2. ASSUME NEW j \in Jobs, DeleteJob(j) PROVE IInv'
  <2>1. j \in 1 .. created
    BY <1>2 DEF DeleteJob, TypeOK, Range
  <2> QED BY <1>2, <2>1 DEF DeleteJob, TypeOK, Owned, Reachable, FreshIds, QuitPhase, RipeInTime,
                TrailingEdge, NewJobs, Working, eventVars, batchVars
<1>3. ASSUME NEW manner \in {"abort", "graceful"}, Quit(manner) PROVE IInv'
  BY <1>3 DEF Quit, TypeOK, Owned, Reachable, FreshIds, QuitPhase, RipeInTime,
                TrailingEdge, NewJobs, Working, eventVars, batchVars, jobVars
<1>4. CASE HandlerReturns
  BY <1>4 DEF HandlerReturns, TypeOK, Owned, Reachable, FreshIds, QuitPhase, RipeInTime,
                TrailingEdge, NewJobs, Working, eventVars, jobVars
<1> QED BY <1>1, <1>2, <1>3, <1>4

LEMMA AdoptStep ==
  ASSUME IInv, AdoptJobs
  PROVE  IInv'
<1> USE Bounds DEF IInv
<1>1. /\ new \in [Ids -> 0 .. created] /\ jobs \in [Ids -> 0 .. created] /\ created \in Nat
      /\ new \in [Ids -> Nat] /\ jobs \in [Ids -> Nat]
      /\ Merged \in [Ids -> 0 .. created] /\ Merged \in [Ids -> Nat]
      /\ NewJobs \subseteq 1 .. created
  BY DEF TypeOK, Merged, NewJobs, Range
<1>2. /\ jobtasks' = jobtasks \cup NewJobs /\ created' = created /\ new' = NoJobs
      /\ pc = "adopt" /\ UNCHANGED <<eventVars, batchVars, quit>>
  BY DEF AdoptJobs
<1>3. NewJobs \subseteq Range(Merged)
  <2>1. SUFFICES ASSUME NEW j \in NewJobs PROVE j \in Range(Merged)
    OBVIOUS
  <2>2. PICK i \in Ids : new[i] = j
    BY <1>1, RangeOf DEF NewJobs
  <2>3. Merged[i] = j
    BY <2>2, <2>1 DEF NewJobs, Merged
  <2> QED BY <2>3, <1>1, RangeOf
<1>4. jobtasks \ ended \subseteq Range(Merged)
  <2>1. SUFFICES ASSUME NEW j \in jobtasks \ ended PROVE j \in Range(Merged)
    OBVIOUS
  <2>2. j \in 1 .. created /\ j \in Range(jobs)
    BY <1>2 DEF TypeOK, Reachable, Working
  <2>3. PICK i \in Ids : jobs[i] = j
    BY <2>2, <1>1, RangeOf
  <2>4. new[i] = 0
    BY <2>2, <2>3 DEF FreshIds
  <2> QED BY <2>3, <2>4, <1>1, RangeOf DEF Merged
<1>5. TypeOK'
  <2>1. CASE CollectGarbage
    BY <1>1, <1>2, <2>1 DEF CollectGarbage, AnyCollectGarbage, TypeOK, NoJobs, eventVars, batchVars
  <2>2. CASE Abort
    BY <1>1, <1>2, <2>2 DEF Abort, TypeOK, NoJobs, eventVars, batchVars
  <2>3. CASE StopJobs
    <3>1. Range(Merged) \ {0} \subseteq 1 .. created
      BY <1>1 DEF Range
    <3>2. deleting' \subseteq 1 .. created
      BY <2>3, <3>1 DEF StopJobs, AnyStopJobs, TypeOK
    <3> QED BY <1>1, <1>2, <2>3, <3>2 DEF StopJobs, AnyStopJobs, TypeOK, NoJobs, eventVars, batchVars
  <2> QED BY <2>1, <2>2, <2>3 DEF AdoptJobs
<1>6. Owned'
  BY <1>2 DEF Owned
<1>7. Reachable'
  <2>1. CASE CollectGarbage
    <3>1. SUFFICES ASSUME NEW j \in jobtasks' \ ended' PROVE j \in Range(jobs')
      BY DEF Reachable
    <3>2. j \in Range(Merged) /\ j \notin ended
      BY <1>2, <1>3, <1>4, <2>1 DEF CollectGarbage, AnyCollectGarbage
    <3>3. PICK i \in Ids : Merged[i] = j
      BY <3>2, <1>1, RangeOf
    <3>4. jobs'[i] = j
      BY <3>2, <3>3, <2>1 DEF CollectGarbage, AnyCollectGarbage
    <3>5. jobs' \in [Ids -> Nat]
      BY <1>5 DEF TypeOK
    <3> QED BY <3>4, <3>5, RangeOf
  <2>2. CASE Abort \/ StopJobs
    BY <2>2 DEF Abort, StopJobs, AnyStopJobs, Reachable, Working
  <2> QED BY <2>1, <2>2 DEF AdoptJobs
<1>8. FreshIds' /\ RipeInTime'
  <2>1. FreshIds'
    BY <1>2 DEF FreshIds, NoJobs
  <2>2. pc' \in {"collect", "done", "stopping"}
    BY DEF AdoptJobs, CollectGarbage, AnyCollectGarbage, Abort, StopJobs, AnyStopJobs
  <2>3. RipeInTime'
    BY <1>2, <2>2 DEF RipeInTime, TrailingEdge, batchVars, eventVars, TypeOK
  <2> QED BY <2>1, <2>3
<1>9. QuitPhase'
  BY <1>2 DEF AdoptJobs, CollectGarbage, AnyCollectGarbage, Abort, StopJobs, AnyStopJobs, QuitPhase,
              Owned, RipeInTime
<1> QED BY <1>5, <1>6, <1>7, <1>8, <1>9

LEMMA NextIInv == ~SameIdTwice /\ IInv /\ [Next]_vars => IInv'
<1>1. CASE UNCHANGED vars
  BY <1>1 DEF vars, IInv, TypeOK, Owned, Reachable, FreshIds, QuitPhase, RipeInTime, TrailingEdge,
              NewJobs, Working
<1>2. ASSUME ~SameIdTwice, IInv, Next PROVE IInv'
  BY <1>2, EventStep, EndStep, HandlerStep, AdoptStep DEF Next, Work
<1> QED BY <1>1, <1>2

LEMMA IInvHolds == ASSUME ~SameIdTwice PROVE Spec => []IInv
BY InitIInv, NextIInv, PTL DEF Spec

(* A live job of the worker is always found by its Id (worker.rs:57-61,    *)
(* 88-104), when no handler asks twice for an Id without a job.            *)
THEOREM NoLostJobTheorem == ASSUME ~SameIdTwice PROVE Spec => []NoLostJob
<1>1. IInv => NoLostJob
  BY DEF IInv, Reachable, NoLostJob, Working
<1> QED BY <1>1, IInvHolds, PTL

(* Under the same condition both ways to quit (worker.rs:63-86) leave no   *)
(* job behind.                                                             *)
THEOREM QuitReapsAllTheorem == ASSUME ~SameIdTwice PROVE Spec => []QuitReapsAll
<1>1. IInv => QuitReapsAll
  BY DEF IInv, QuitPhase, QuitReapsAll, TypeOK
<1> QED BY <1>1, IInvHolds, PTL

(* Debouncing is on the trailing edge (worker.rs:124-201).                 *)
THEOREM TrailingEdgeTheorem == ASSUME ~SameIdTwice PROVE Spec => []TrailingEdge
<1>1. IInv => TrailingEdge
  BY DEF IInv, RipeInTime
<1> QED BY <1>1, IInvHolds, PTL

-----------------------------------------------------------------------------
(***************************************************************************)
(* At rest the filesystem worker watches what is configured, whatever the  *)
(* path sets, however often they changed and whatever failed on the way.   *)
(***************************************************************************)
(* The paths are configured paths.                                         *)
Configurable ==
  /\ paths \subseteq WatchedPath /\ tracked \subseteq WatchedPath
  /\ watched \subseteq WatchedPath

(* What is watched is tracked; and what is tracked is watched, unless the  *)
(* watcher was replaced over tracked paths, or it is doubled, as is every  *)
(* path that is tracked in two modes.                                      *)
TrackedIsWatched ==
  /\ watched \subseteq tracked
  /\ fsPc # "dead" /\ ~swapped => \A w \in tracked : w \in watched \/ w.path \in doubled
  /\ \A v, w \in tracked : v.path = w.path => v = w \/ v.path \in doubled

(* What a pass has still to do, place by place.                            *)
Passing ==
  /\ fsPc \in {"next", "wait", "read", "create"} =>
       tracked \subseteq applied \cup failed /\ applied \subseteq tracked \cup failed
  /\ fsPc = "drop" => /\ toDrop \cap applied = {} /\ toDrop \subseteq tracked
                    /\ tracked \subseteq applied \cup failed \cup toDrop
                    /\ applied \subseteq tracked \cup toWatch
  /\ fsPc = "watch" => /\ toWatch \subseteq applied
                     /\ tracked \subseteq applied \cup failed
                     /\ applied \subseteq tracked \cup failed \cup toWatch

ToWatchIsApplied == fsPc = "drop" => toWatch \subseteq applied

WatchInv == Configurable /\ TrackedIsWatched /\ Passing /\ ToWatchIsApplied

-----------------------------------------------------------------------------
LEMMA InitWatches == FsInit => WatchInv
BY DEF FsInit, WatchInv, Configurable, TrackedIsWatched, Passing, ToWatchIsApplied

LEMMA StepWatches ==
  ASSUME WatchInv, [FsNext]_fsVars
  PROVE  WatchInv'
<1> USE DEF WatchInv, Configurable, TrackedIsWatched, Passing, ToWatchIsApplied, config, work
<1>1. CASE ChangePaths
  <2>1. paths' \subseteq WatchedPath
    BY <1>1 DEF ChangePaths, WatchedPath
  <2> QED BY <1>1, <2>1 DEF ChangePaths
<1>2. CASE ChangeKind
  BY <1>2 DEF ChangeKind
<1>3. CASE NextChange
  BY <1>3 DEF NextChange
<1>4. CASE Notified
  BY <1>4 DEF Notified
<1>5. CASE ReadPaths
  BY <1>5 DEF ReadPaths, AnyReadPaths
<1>6. CASE CreateWatcher
  BY <1>6 DEF CreateWatcher
<1>7. CASE Difference
  BY <1>7 DEF Difference
<1>8. CASE AllDropped
  BY <1>8 DEF AllDropped
<1>9. CASE Ready
  BY <1>9 DEF Ready
<1>10. ASSUME NEW w \in WatchedPath, DropPath(w) PROVE WatchInv'
  <2>1. fsPc = "drop" /\ fsPc' = "drop" /\ w \in toDrop /\ toDrop' = toDrop \ {w}
    BY <1>10 DEF DropPath, AnyDropPath
  <2>2. UNCHANGED <<paths, toWatch, applied, swapped>>
    BY <1>10 DEF DropPath, AnyDropPath
  <2>3. CASE /\ watched' = {v \in watched : v.path # w.path} /\ tracked' = tracked \ {w}
             /\ doubled' = {p \in doubled : \E v \in tracked' : v.path = p}
             /\ UNCHANGED failed
    (* Another entry of the path that stays tracked makes it doubled. *)
    <3>1. \A v \in tracked' : v.path \in doubled => v.path \in doubled'
      BY <2>3
    <3>2. \A v \in tracked' : v \in watched \/ v.path \in doubled' \/ fsPc = "dead" \/ swapped
      BY <2>3, <3>1
    <3>3. \A v \in tracked' : v.path = w.path => v.path \in doubled'
      BY <2>1, <2>3, <3>1
    <3>4. \A v \in tracked' : v \in watched' \/ v.path \in doubled' \/ fsPc = "dead" \/ swapped
      BY <2>3, <3>2, <3>3
    <3>5. \A v, u \in tracked' : v.path = u.path => v = u \/ v.path \in doubled'
      BY <2>3, <3>1
    <3>6. watched' \subseteq tracked'
      BY <2>3
    <3>7. TrackedIsWatched'
      BY <2>1, <2>2, <3>4, <3>5, <3>6
    <3> QED BY <2>1, <2>2, <2>3, <3>7
  <2>4. CASE failed' = failed \cup {w} /\ tracked' = tracked /\ UNCHANGED <<watched, doubled>>
    BY <2>1, <2>2, <2>4
  <2> QED BY <1>10, <2>3, <2>4 DEF DropPath, AnyDropPath
<1>11. ASSUME NEW w \in WatchedPath, WatchPath(w) PROVE WatchInv'
  <2>1. fsPc = "watch" /\ fsPc' = "watch" /\ w \in toWatch /\ toWatch' = toWatch \ {w}
    BY <1>11 DEF WatchPath, AnyWatchPath
  <2>2. UNCHANGED <<paths, toDrop, applied, swapped>>
    BY <1>11 DEF WatchPath, AnyWatchPath
  <2>3. CASE /\ watched' = {v \in watched : v.path # w.path} \cup {w} /\ tracked' = tracked \cup {w}
             /\ doubled' = doubled \cup {v.path : v \in {t \in tracked : t.path = w.path /\ t # w}}
             /\ UNCHANGED failed
    (* Whatever w takes the place of becomes doubled. *)
    <3>1. \A v \in tracked : v.path = w.path => v = w \/ w.path \in doubled'
      BY <2>3
    <3>2. doubled \subseteq doubled' /\ watched' \subseteq tracked'
      BY <2>3
    <3>3. \A v \in tracked' : v \in watched' \/ v.path \in doubled' \/ fsPc = "dead" \/ swapped
      BY <2>3, <3>1, <3>2
    <3>4. \A v, u \in tracked' : v.path = u.path => v = u \/ v.path \in doubled'
      BY <2>3, <3>1, <3>2
    <3>5. TrackedIsWatched'
      BY <2>1, <2>2, <3>2, <3>3, <3>4
    <3> QED BY <2>1, <2>2, <2>3, <3>5
  <2>4. CASE failed' = failed \cup {w} /\ tracked' = tracked /\ UNCHANGED <<watched, doubled>>
    BY <2>1, <2>2, <2>4
  <2> QED BY <1>11, <2>3, <2>4 DEF WatchPath, AnyWatchPath
<1>12. CASE ErrorsClosed
  BY <1>12 DEF ErrorsClosed
<1>13. CASE UNCHANGED fsVars
  BY <1>13 DEF fsVars
<1> QED
  BY <1>1, <1>2, <1>3, <1>4, <1>5, <1>6, <1>7, <1>8, <1>9, <1>10, <1>11, <1>12, <1>13
     DEF FsNext, Apply

(* A worker that rests after a pass over the current path set watches      *)
(* these paths and no others (sources/fs.rs:157-220), for all path sets,   *)
(* also such as have a path in both modes, all kinds and numbers of        *)
(* changes; but for the failures it reported, the paths not added again    *)
(* after a change of kind, and those whose two modes were tracked at once. *)
THEOREM WatchedIsConfiguredTheorem == FsSpec => []WatchedIsConfigured
<1>1. WatchInv => WatchedIsConfigured
  BY DEF WatchInv, TrackedIsWatched, Passing, WatchedIsConfigured, FsIdle
<1> QED BY InitWatches, StepWatches, <1>1, PTL DEF FsSpec

-----------------------------------------------------------------------------
(***************************************************************************)
(* The loading of ignore files, for all trees, options and events.  First  *)
(* what the recursive definitions of the rules come to: the text of a path,*)
(* the deepest directory with rules, the search from there up.  By these a *)
(* path is ignored exactly when the weightiest of the lines about it says  *)
(* so (IgnoredIs), and only lines of directories properly above it count   *)
(* (AboveDecides).  Then the walk.                                         *)
(***************************************************************************)

(* A nonempty set of numbers has a least one, and a bounded one a greatest.*)
LEMMA LeastOf ==
  ASSUME NEW S \in SUBSET Nat, S # {}
  PROVE  \E n \in S : \A k \in S : n <= k
<1> DEFINE U == {0 .. k : k \in S}
<1>1. U \subseteq FiniteSubsetsOf(Nat) /\ U # {}
  <2>1. \A k \in S : 0 .. k \in SUBSET Nat /\ IsFiniteSet(0 .. k)
    BY FS_Interval
  <2> QED BY <2>1 DEF FiniteSubsetsOf
<1>2. PICK X \in U : \A Y \in U : <<Y, X>> \notin StrictSubsetOrdering(Nat)
  <2> HIDE DEF U
  <2> QED BY <1>1, FS_StrictSubsetOrderingWellFounded, WFMin
<1>3. PICK n \in S : X = 0 .. n
  OBVIOUS
<1>4. \A m \in S : n <= m
  <2>1. SUFFICES ASSUME NEW m \in S, m < n PROVE FALSE
    OBVIOUS
  <2>2. 0 .. m \subseteq 0 .. n /\ 0 .. m # 0 .. n /\ 0 .. m \in SUBSET Nat /\ 0 .. n \in SUBSET Nat
    BY <2>1
  <2>3. <<0 .. m, 0 .. n>> \in StrictSubsetOrdering(Nat)
    BY <2>2 DEF StrictSubsetOrdering
  <2> QED BY <1>2, <1>3, <2>3
<1> QED BY <1>4

LEMMA GreatestOf ==
  ASSUME NEW n \in Nat, NEW S \in SUBSET (0 .. n), S # {}
  PROVE  Max(S) \in S /\ \A k \in S : k <= Max(S)
<1> DEFINE U == {m \in 0 .. n : \A k \in S : k <= m}
<1>1. U \in SUBSET Nat /\ U # {}
  <2>1. n \in U
    OBVIOUS
  <2> QED BY <2>1
<1>2. PICK m \in U : \A k \in U : m <= k
  <2> HIDE DEF U
  <2> QED BY <1>1, LeastOf
<1>3. m \in S
  <2>1. SUFFICES ASSUME m \notin S PROVE FALSE
    OBVIOUS
  <2>2. PICK i \in S : TRUE
    OBVIOUS
  <2>3. m \in Nat /\ i \in 0 .. n /\ i <= m /\ i # m
    BY <2>1
  <2>4. m - 1 \in U
    <3> SUFFICES ASSUME NEW k \in S PROVE k <= m - 1
      BY <2>3
    <3>1. k \in 0 .. n /\ k <= m /\ k # m
      BY <2>1
    <3> QED BY <2>3, <3>1
  <2>5. m <= m - 1
    <3> HIDE DEF U
    <3> QED BY <1>2, <2>4
  <2> QED BY <2>3, <2>5
<1> QED BY <1>2, <1>3 DEF Max

-----------------------------------------------------------------------------
(* A function that takes one step after the other exists.                  *)
Recurs(f, n, b, H) == f = [k \in 0 .. n |-> IF k = 0 THEN b ELSE H[<<k, f[k - 1]>>]]

LEMMA RecursionExists ==
  ASSUME NEW V, NEW b \in V, NEW n \in Nat, NEW H, \A k \in 1 .. n, v \in V : H[<<k, v>>] \in V
  PROVE  \E f \in [0 .. n -> V] : Recurs(f, n, b, H)
<1> DEFINE Stuck == {k \in 0 .. n : ~ \E f \in [0 .. k -> V] : Recurs(f, k, b, H)}
<1>1. SUFFICES ASSUME Stuck # {} PROVE FALSE
  OBVIOUS
<1>2. PICK m \in Stuck : \A k \in Stuck : m <= k
  <2>1. Stuck \in SUBSET Nat
    OBVIOUS
  <2> HIDE DEF Stuck
  <2> QED BY <1>1, <2>1, LeastOf
<1>3. CASE m = 0
  <2> DEFINE f == [k \in 0 .. 0 |-> b]
  <2>1. f \in [0 .. 0 -> V] /\ Recurs(f, 0, b, H)
    BY DEF Recurs
  <2> QED BY <1>2, <1>3, <2>1
<1>4. CASE m # 0
  <2>1. m \in Nat /\ m \in 1 .. n /\ m - 1 \in 0 .. n /\ m - 1 \notin Stuck
    <3>1. m \in Nat /\ m \in 1 .. n /\ m - 1 \in 0 .. n /\ ~(m <= m - 1)
      BY <1>2, <1>4
    <3> HIDE DEF Stuck
    <3> QED BY <1>2, <3>1
  <2>2. PICK f \in [0 .. m - 1 -> V] : Recurs(f, m - 1, b, H)
    BY <2>1
  <2> DEFINE g == [k \in 0 .. m |-> IF k = m THEN H[<<m, f[m - 1]>>] ELSE f[k]]
  <2>3. g \in [0 .. m -> V]
    <3> SUFFICES ASSUME NEW k \in 0 .. m PROVE g[k] \in V
      OBVIOUS
    <3>1. f[m - 1] \in V /\ (k # m => f[k] \in V)
      BY <2>1, <2>2
    <3> QED BY <2>1, <3>1
  <2>4. ASSUME NEW k \in 0 .. m
        PROVE  g[k] = IF k = 0 THEN b ELSE H[<<k, g[k - 1]>>]
    <3>1. CASE k = m
      <4>1. k # 0 /\ m - 1 \in 0 .. m /\ m - 1 # m /\ g[m - 1] = f[m - 1]
        BY <2>1, <3>1
      <4> QED BY <3>1, <4>1
    <3>2. CASE k # m
      <4>1. k \in 0 .. m - 1 /\ g[k] = f[k]
        BY <2>1, <3>2
      <4>2. f[k] = IF k = 0 THEN b ELSE H[<<k, f[k - 1]>>]
        BY <2>2, <4>1 DEF Recurs
      <4>3. k # 0 => k - 1 \in 0 .. m /\ g[k - 1] = f[k - 1]
        BY <2>1, <4>1
      <4> QED BY <4>1, <4>2, <4>3
    <3> QED BY <3>1, <3>2
  <2>5. Recurs(g, m, b, H)
    <3> HIDE DEF g
    <3> QED BY <2>3, <2>4 DEF Recurs
  <2> HIDE DEF g
  <2> QED BY <1>2, <2>3, <2>5
<1> QED BY <1>3, <1>4

-----------------------------------------------------------------------------
(* Parts of a path.                                                        *)
LEMMA PrefixAt ==
  ASSUME NEW S, NEW p \in Seq(S), NEW q \in Seq(S)
  PROVE  IsPrefix(p, q) <=> Len(p) <= Len(q) /\ \A i \in 1 .. Len(p) : p[i] = q[i]
<1>1. Len(p) \in Nat /\ Len(q) \in Nat
  OBVIOUS
<1>2. SubSeq(p, 1, Len(p)) = p
  OBVIOUS
<1>3. CASE Len(p) <= Len(q)
  <2>1. SubSeq(q, 1, Len(p)) \in Seq(S) /\ Len(SubSeq(q, 1, Len(p))) = Len(p)
        /\ \A i \in 1 .. Len(p) : SubSeq(q, 1, Len(p))[i] = q[i]
    BY <1>1, <1>3
  <2>2. p = SubSeq(q, 1, Len(p)) <=> \A i \in 1 .. Len(p) : p[i] = SubSeq(q, 1, Len(p))[i]
    BY <2>1, SeqEqual
  <2> QED BY <1>2, <1>3, <2>1, <2>2 DEF IsPrefix
<1> QED BY <1>3 DEF IsPrefix

LEMMA PartOf ==
  ASSUME NEW S, NEW s \in Seq(S), NEW k \in 0 .. Len(s)
  PROVE  /\ SubSeq(s, 1, k) \in Seq(S) /\ Len(SubSeq(s, 1, k)) = k
         /\ \A i \in 1 .. k : SubSeq(s, 1, k)[i] = s[i]
         /\ IsPrefix(SubSeq(s, 1, k), s)
<1>1. /\ SubSeq(s, 1, k) \in Seq(S) /\ Len(SubSeq(s, 1, k)) = k
      /\ \A i \in 1 .. k : SubSeq(s, 1, k)[i] = s[i]
  OBVIOUS
<1> DEFINE t == SubSeq(s, 1, k)
<1>2. t \in Seq(S) /\ Len(t) = k /\ (\A i \in 1 .. k : t[i] = s[i]) /\ k <= Len(s)
  BY <1>1
<1> HIDE DEF t
<1>3. IsPrefix(t, s)
  BY <1>2, PrefixAt
<1> QED BY <1>1, <1>3 DEF t

(* What is above a path is the part of it that is as long.                 *)
LEMMA AboveIsPart ==
  ASSUME NEW S, NEW p \in Seq(S), NEW q \in Seq(S), IsPrefix(p, q)
  PROVE  Len(p) \in 0 .. Len(q) /\ p = SubSeq(q, 1, Len(p))
<1>1. SubSeq(p, 1, Len(p)) = p
  OBVIOUS
<1> QED BY <1>1 DEF IsPrefix

LEMMA PrefixOrder ==
  ASSUME NEW S, NEW p \in Seq(S), NEW q \in Seq(S), NEW r \in Seq(S)
  PROVE  /\ IsPrefix(p, p)
         /\ IsPrefix(p, q) /\ IsPrefix(q, r) => IsPrefix(p, r)
         /\ IsPrefix(p, q) /\ Len(p) = Len(q) => p = q
         /\ IsPrefix(p, r) /\ IsPrefix(q, r) /\ Len(p) <= Len(q) => IsPrefix(p, q)
<1>1. Len(p) \in Nat /\ Len(q) \in Nat /\ Len(r) \in Nat
  OBVIOUS
<1>2. IsPrefix(p, p)
  BY PrefixAt
<1>3. ASSUME IsPrefix(p, q), IsPrefix(q, r) PROVE IsPrefix(p, r)
  <2>1. Len(p) <= Len(q) /\ Len(q) <= Len(r)
    BY <1>3, PrefixAt
  <2>2. \A i \in 1 .. Len(p) : i \in 1 .. Len(q) /\ p[i] = q[i] /\ q[i] = r[i]
    BY <1>1, <1>3, <2>1, PrefixAt
  <2>3. Len(p) <= Len(r) /\ \A i \in 1 .. Len(p) : p[i] = r[i]
    BY <1>1, <2>1, <2>2
  <2> QED BY <2>3, PrefixAt
<1>4. ASSUME IsPrefix(p, q), Len(p) = Len(q) PROVE p = q
  <2>1. \A i \in 1 .. Len(p) : p[i] = q[i]
    BY <1>4, PrefixAt
  <2> QED BY <1>4, <2>1, SeqEqual
<1>5. ASSUME IsPrefix(p, r), IsPrefix(q, r), Len(p) <= Len(q) PROVE IsPrefix(p, q)
  <2>1. \A i \in 1 .. Len(p) : i \in 1 .. Len(q) /\ p[i] = r[i] /\ q[i] = r[i]
    BY <1>1, <1>5, PrefixAt
  <2> QED BY <1>5, <2>1, PrefixAt
<1> QED BY <1>2, <1>3, <1>4, <1>5

LEMMA Strictly ==
  ASSUME NEW S, NEW p \in Seq(S), NEW q \in Seq(S), IsPrefix(p, q), p # q
  PROVE  Len(p) < Len(q)
<1>1. Len(p) \in Nat /\ Len(q) \in Nat /\ Len(p) <= Len(q)
  BY PrefixAt
<1>2. Len(p) # Len(q)
  BY PrefixOrder
<1> QED BY <1>1, <1>2

-----------------------------------------------------------------------------
(* Texts, name by name.                                                    *)
Chained(g, n, ss) == g[0] = <<>> /\ \A k \in 1 .. n : g[k] = g[k - 1] \o ss[k]
Alike(f, g, m, n) == \A k \in m .. n : f[k] = g[k]

LEMMA ChainExists ==
  ASSUME NEW S, NEW ss \in Seq(Seq(S))
  PROVE  \E g \in [0 .. Len(ss) -> Seq(S)] : Chained(g, Len(ss), ss)
<1> DEFINE V == Seq(S)
           n == Len(ss)
           H == [p \in (1 .. n) \X V |-> p[2] \o ss[p[1]]]
<1>1. n \in Nat /\ <<>> \in V
  OBVIOUS
<1>2. ASSUME NEW k \in 1 .. n, NEW v \in V PROVE H[<<k, v>>] = v \o ss[k] /\ v \o ss[k] \in V
  <2>1. <<k, v>> \in (1 .. n) \X V
    OBVIOUS
  <2>2. ss[k] \in Seq(S)
    OBVIOUS
  <2>3. v \o ss[k] \in Seq(S)
    BY <2>2
  <2> QED BY <2>1, <2>3
<1> HIDE DEF H, n, V
<1>3. PICK g \in [0 .. n -> V] : Recurs(g, n, <<>>, H)
  BY <1>1, <1>2, RecursionExists
<1>4. g[0] = <<>>
  BY <1>1, <1>3 DEF Recurs
<1>5. ASSUME NEW k \in 1 .. n PROVE g[k] = g[k - 1] \o ss[k]
  <2>1. k \in 0 .. n /\ k # 0 /\ k - 1 \in 0 .. n
    BY <1>1
  <2>2. g[k] = H[<<k, g[k - 1]>>] /\ g[k - 1] \in V
    BY <1>3, <2>1 DEF Recurs
  <2> QED BY <1>2, <2>2
<1> QED BY <1>3, <1>4, <1>5 DEF Chained, n, V

LEMMA ChainsAgree ==
  ASSUME NEW n \in Nat, NEW m \in Nat, n <= m, NEW ss, NEW tt, Alike(ss, tt, 1, n),
         NEW f, NEW g, Chained(f, n, ss), Chained(g, m, tt)
  PROVE  Alike(f, g, 0, n)
<1> DEFINE Apart == {k \in 0 .. n : f[k] # g[k]}
<1>1. SUFFICES ASSUME Apart # {} PROVE FALSE
  BY DEF Alike
<1>2. PICK k \in Apart : \A j \in Apart : k <= j
  <2>1. Apart \in SUBSET Nat
    OBVIOUS
  <2> HIDE DEF Apart
  <2> QED BY <1>1, <2>1, LeastOf
<1>3. k \in 0 .. n /\ f[k] # g[k]
  OBVIOUS
<1>4. k # 0
  BY <1>3 DEF Chained
<1>5. k \in 1 .. n /\ k \in 1 .. m /\ k - 1 \in 0 .. n /\ ~(k <= k - 1)
  BY <1>3, <1>4
<1>6. k - 1 \notin Apart
  <2> HIDE DEF Apart
  <2> QED BY <1>2, <1>5
<1>7. f[k - 1] = g[k - 1]
  BY <1>5, <1>6
<1>8. f[k] = f[k - 1] \o ss[k] /\ g[k] = g[k - 1] \o tt[k] /\ ss[k] = tt[k]
  <2> HIDE DEF Apart
  <2> QED BY <1>5 DEF Chained, Alike
<1> QED BY <1>3, <1>7, <1>8

LEMMA FlattenIs ==
  ASSUME NEW S, NEW ss \in Seq(Seq(S)), NEW g \in [0 .. Len(ss) -> Seq(S)],
         Chained(g, Len(ss), ss)
  PROVE  FlattenSeq(ss) = g[Len(ss)]
<1> DEFINE n == Len(ss)
           Are(f) == f = [i \in 1 .. n |-> IF i = 1 THEN ss[i] ELSE f[i - 1] \o ss[i]]
           F == CHOOSE f : Are(f)
<1>1. n \in Nat
  OBVIOUS
<1>2. CASE n = 0
  <2>1. ss = <<>> /\ g[0] = <<>>
    BY <1>2 DEF Chained
  <2> QED BY <1>2, <2>1 DEF FlattenSeq
<1>3. CASE n # 0
  <2>1. FlattenSeq(ss) = F[n]
    BY <1>3 DEF FlattenSeq
  <2> DEFINE h == [i \in 1 .. n |-> g[i]]
  <2>2. ASSUME NEW i \in 1 .. n PROVE h[i] = IF i = 1 THEN ss[i] ELSE h[i - 1] \o ss[i]
    <3>1. g[i] = g[i - 1] \o ss[i]
      BY DEF Chained
    <3>2. CASE i = 1
      <4>1. g[0] = <<>> /\ ss[1] \in Seq(S) /\ i - 1 = 0
        BY <3>2 DEF Chained
      <4>2. g[1] = g[0] \o ss[1]
        BY <3>1, <3>2, <4>1
      <4>3. <<>> \o ss[1] = ss[1]
        BY <4>1
      <4> QED BY <3>2, <4>1, <4>2, <4>3
    <3>3. CASE i # 1
      <4>1. i - 1 \in 1 .. n
        BY <1>1, <3>3
      <4> QED BY <3>1, <3>3, <4>1
    <3> QED BY <3>2, <3>3
  <2>3. Are(h)
    <3>1. h = [i \in 1 .. n |-> h[i]]
      OBVIOUS
    <3> HIDE DEF h
    <3> QED BY <2>2, <3>1
  <2>4. Are(F)
    <3> HIDE DEF Are
    <3> QED BY <2>3
  <2>5. \A i \in 1 .. n : F[i] = IF i = 1 THEN ss[i] ELSE F[i - 1] \o ss[i]
    <3> HIDE DEF F
    <3> QED BY <2>4
  <2> DEFINE e == [k \in 0 .. n |-> IF k = 0 THEN <<>> ELSE F[k]]
  <2> HIDE DEF F
  <2>6. Chained(e, n, ss)
    <3>1. ASSUME NEW k \in 1 .. n PROVE e[k] = e[k - 1] \o ss[k]
      <4>1. k \in 0 .. n /\ k # 0 /\ k - 1 \in 0 .. n /\ ss[k] \in Seq(S)
        BY <1>1
      <4>2. CASE k = 1
        <5>1. e[k] = ss[k] /\ e[k - 1] = <<>>
          BY <2>5, <4>1, <4>2
        <5>2. <<>> \o ss[k] = ss[k]
          BY <4>1
        <5> QED BY <5>1, <5>2
      <4>3. CASE k # 1
        <5>1. F[k] = F[k - 1] \o ss[k]
          BY <2>5, <4>3
        <5>2. e[k] = F[k] /\ e[k - 1] = F[k - 1]
          BY <1>1, <4>1, <4>3
        <5> QED BY <5>1, <5>2
      <4> QED BY <4>2, <4>3
    <3>2. e[0] = <<>>
      BY <1>1
    <3> HIDE DEF e
    <3> QED BY <3>1, <3>2 DEF Chained
  <2> HIDE DEF e
  <2>7. \A k \in 0 .. n : e[k] = g[k]
    <3>1. Alike(ss, ss, 1, n)
      BY DEF Alike
    <3>2. Alike(e, g, 0, n)
      BY <1>1, <2>6, <3>1, ChainsAgree
    <3> QED BY <3>2 DEF Alike
  <2>8. F[n] = g[n]
    BY <1>1, <1>3, <2>7 DEF e
  <2> QED BY <2>1, <2>8
<1> QED BY <1>2, <1>3

Bytes == STRING \cup {"/"}

LEMMA TextChain ==
  ASSUME NEW path \in Paths
  PROVE  \E g \in [0 .. Len(path) -> Seq(Bytes)] :
           /\ \A k \in 0 .. Len(path) : Text(SubSeq(path, 1, k)) = g[k]
           /\ \A k \in 1 .. Len(path) : g[k] = g[k - 1] \o (<<"/">> \o path[k])
<1> DEFINE S == Bytes
           n == Len(path)
           Parts(p) == [i \in DOMAIN p |-> <<"/">> \o p[i]]
<1>1. ASSUME NEW p \in Paths
      PROVE  /\ Parts(p) \in Seq(Seq(S)) /\ Len(Parts(p)) = Len(p)
             /\ \A i \in 1 .. Len(p) : Parts(p)[i] = <<"/">> \o p[i]
  <2>1. ASSUME NEW i \in 1 .. Len(p) PROVE <<"/">> \o p[i] \in Seq(S)
    <3>1. p[i] \in Seq(STRING)
      BY DEF Paths, Names
    <3>2. p[i] \in Seq(S)
      <4>1. \A j \in 1 .. Len(p[i]) : p[i][j] \in S
        BY <3>1 DEF Bytes
      <4> QED BY <3>1, <4>1
    <3>3. <<"/">> \in Seq(S)
      BY DEF Bytes
    <3> QED BY <3>2, <3>3
  <2>2. DOMAIN p = 1 .. Len(p) /\ Len(p) \in Nat
    BY DEF Paths
  <2>3. Parts(p) \in [1 .. Len(p) -> Seq(S)]
    BY <2>1, <2>2
  <2> QED BY <2>2, <2>3
<1>2. n \in Nat
  BY DEF Paths
<1>3. PICK g \in [0 .. n -> Seq(S)] : Chained(g, n, Parts(path))
  <2>1. \E g \in [0 .. Len(Parts(path)) -> Seq(S)] : Chained(g, Len(Parts(path)), Parts(path))
    <3> HIDE DEF Parts
    <3> QED BY <1>1, ChainExists
  <2> QED BY <1>1, <2>1
<1>4. ASSUME NEW k \in 0 .. n PROVE Text(SubSeq(path, 1, k)) = g[k]
  <2> DEFINE q == SubSeq(path, 1, k)
  <2>1. q \in Paths /\ Len(q) = k /\ \A i \in 1 .. k : q[i] = path[i]
    BY PartOf DEF Paths
  <2>2. Text(q) = FlattenSeq(Parts(q))
    BY DEF Text
  <2> HIDE DEF q
  <2>3. Parts(q) \in Seq(Seq(S)) /\ Len(Parts(q)) = k
        /\ \A i \in 1 .. k : Parts(q)[i] = Parts(path)[i]
    <3>1. \A i \in 1 .. k : i \in 1 .. n
      BY <1>2
    <3>2. \A i \in 1 .. k : Parts(q)[i] = <<"/">> \o path[i]
      <4> HIDE DEF Parts
      <4> QED BY <1>1, <2>1
    <3> HIDE DEF Parts
    <3> QED BY <1>1, <2>1, <3>1, <3>2
  <2> HIDE DEF Parts
  <2>4. PICK h \in [0 .. k -> Seq(S)] : Chained(h, k, Parts(q))
    BY <2>3, ChainExists
  <2>5. FlattenSeq(Parts(q)) = h[k]
    BY <2>3, <2>4, FlattenIs
  <2>6. h[k] = g[k]
    <3>1. k \in Nat /\ k <= n /\ k \in 0 .. k
      BY <1>2
    <3> DEFINE tt == Parts(path)
               ps == Parts(q)
    <3>2. Alike(ps, tt, 1, k) /\ Chained(h, k, ps) /\ Chained(g, n, tt)
      BY <1>3, <2>3, <2>4 DEF Alike
    <3> HIDE DEF tt, ps, n, S
    <3>3. Alike(h, g, 0, k)
      BY <1>2, <3>1, <3>2, ChainsAgree
    <3> QED BY <3>1, <3>3 DEF Alike
  <2> QED BY <2>2, <2>5, <2>6 DEF q
<1>5. \A k \in 1 .. n : g[k] = g[k - 1] \o (<<"/">> \o path[k])
  BY <1>1, <1>3 DEF Chained
<1> HIDE DEF Parts
<1> QED BY <1>3, <1>4, <1>5
(* A text grows with the path.                                             *)
LEMMA TextGrows ==
  ASSUME NEW q \in Paths
  PROVE  \A k, m \in 0 .. Len(q) :
           k <= m =>
             /\ IsPrefix(Text(SubSeq(q, 1, k)), Text(SubSeq(q, 1, m)))
             /\ Len(Text(SubSeq(q, 1, k))) \in Nat
             /\ Len(Text(SubSeq(q, 1, m))) >= Len(Text(SubSeq(q, 1, k))) + (m - k)
             /\ Text(SubSeq(q, 1, k)) \in Seq(Bytes)
<1>1. PICK g \in [0 .. Len(q) -> Seq(Bytes)] :
             /\ \A k \in 0 .. Len(q) : Text(SubSeq(q, 1, k)) = g[k]
             /\ \A k \in 1 .. Len(q) : g[k] = g[k - 1] \o (<<"/">> \o q[k])
  BY TextChain
<1> DEFINE n == Len(q)
<1>2. n \in Nat
  BY DEF Paths
<1>3. ASSUME NEW k \in 1 .. n
      PROVE  IsPrefix(g[k - 1], g[k]) /\ Len(g[k]) >= Len(g[k - 1]) + 1 /\ g[k - 1] \in Seq(Bytes)
             /\ g[k] \in Seq(Bytes)
  <2>1. k - 1 \in 0 .. n /\ k \in 0 .. n
    BY <1>2
  <2>2. g[k - 1] \in Seq(Bytes) /\ g[k] \in Seq(Bytes)
    BY <2>1
  <2>3. q[k] \in Seq(Bytes)
    <3>1. q[k] \in Seq(STRING)
      BY DEF Paths, Names
    <3>2. \A j \in 1 .. Len(q[k]) : q[k][j] \in Bytes
      BY <3>1 DEF Bytes
    <3> QED BY <3>1, <3>2
  <2>4. "/" \in Bytes
    BY DEF Bytes
  <2> DEFINE more == <<"/">> \o q[k]
  <2>5. more \in Seq(Bytes) /\ Len(more) >= 1
    BY <2>3, <2>4
  <2>6. g[k] = g[k - 1] \o more
    BY <1>1
  <2> HIDE DEF more
  <2>7. Len(g[k]) = Len(g[k - 1]) + Len(more) /\ \A i \in 1 .. Len(g[k - 1]) : g[k][i] = g[k - 1][i]
    BY <2>2, <2>5, <2>6
  <2>8. Len(g[k - 1]) \in Nat /\ Len(more) \in Nat
    BY <2>2, <2>5
  <2>9. Len(g[k - 1]) <= Len(g[k])
    BY <2>5, <2>7, <2>8
  <2>10. IsPrefix(g[k - 1], g[k])
    BY <2>2, <2>7, <2>9, PrefixAt
  <2>11. Len(g[k]) >= Len(g[k - 1]) + 1
    BY <2>5, <2>7, <2>8
  <2> QED BY <2>2, <2>10, <2>11
<1> DEFINE Fine(k, m) == IsPrefix(g[k], g[m]) /\ Len(g[m]) >= Len(g[k]) + (m - k)
<1>4. ASSUME NEW k \in 0 .. n PROVE \A m \in k .. n : Fine(k, m)
  <2> DEFINE Bad == {m \in k .. n : ~Fine(k, m)}
  <2> SUFFICES ASSUME Bad # {} PROVE FALSE
    OBVIOUS
  <2>1. Bad \in SUBSET Nat
    BY <1>2
  <2>2. PICK m \in Bad : \A j \in Bad : m <= j
    <3> HIDE DEF Bad
    <3> QED BY <2>1, LeastOf
  <2>3. m \in k .. n /\ ~Fine(k, m) /\ k \in Nat /\ m \in Nat
    BY <1>2
  <2>4. g[k] \in Seq(Bytes) /\ Len(g[k]) \in Nat
    OBVIOUS
  <2>5. m # k
    <3>1. Fine(k, k)
      BY <2>4, PrefixOrder
    <3> HIDE DEF Fine
    <3> QED BY <2>3, <3>1
  <2>6. m \in 1 .. n /\ m - 1 \in k .. n /\ ~(m <= m - 1)
    BY <1>2, <2>3, <2>5
  <2>7. m - 1 \notin Bad
    <3> HIDE DEF Bad
    <3> QED BY <2>2, <2>6
  <2>8. IsPrefix(g[k], g[m - 1]) /\ Len(g[m - 1]) >= Len(g[k]) + (m - 1 - k)
    BY <2>6, <2>7
  <2>9. IsPrefix(g[m - 1], g[m]) /\ Len(g[m]) >= Len(g[m - 1]) + 1 /\ g[m - 1] \in Seq(Bytes)
        /\ g[m] \in Seq(Bytes)
    BY <1>3, <2>6
  <2>10. IsPrefix(g[k], g[m])
    BY <2>4, <2>8, <2>9, PrefixOrder
  <2>11. Len(g[m]) \in Nat /\ Len(g[m - 1]) \in Nat
    BY <2>9
  <2>12. Len(g[m]) >= Len(g[k]) + (m - k)
    BY <2>3, <2>4, <2>8, <2>9, <2>11
  <2> QED BY <2>3, <2>10, <2>12
<1> HIDE DEF n
<1> SUFFICES ASSUME NEW k \in 0 .. n, NEW m \in 0 .. n, k <= m
             PROVE  /\ IsPrefix(g[k], g[m]) /\ Len(g[k]) \in Nat
                    /\ Len(g[m]) >= Len(g[k]) + (m - k) /\ g[k] \in Seq(Bytes)
  BY <1>1 DEF n
<1>5. Fine(k, m)
  BY <1>2, <1>4
<1>6. g[k] \in Seq(Bytes)
  BY <1>1 DEF n
<1> QED BY <1>5, <1>6
-----------------------------------------------------------------------------
(* The rules of a filter: its directories, of which the root of the file   *)
(* system keeps the origin.                                                *)
Nodes == [root: Paths, builder: LineLists, gitignore: LineLists]
IsRules(R, org) ==
  /\ R \in [DOMAIN R -> Nodes] /\ DOMAIN R \subseteq Paths /\ Root \in DOMAIN R
  /\ \A d \in DOMAIN R : R[d].root = IF d = Root THEN org ELSE d
Astray(R, path) == \E d \in DOMAIN R : IsPrefix(Text(d), Text(path)) /\ ~Under(d, path)
Deepest(R, path, k, a) ==
  /\ a \in DOMAIN R /\ Under(a, path) /\ Len(a) \in 0 .. k
  /\ \A e \in DOMAIN R : Under(e, path) /\ Len(e) <= k => Len(e) <= Len(a)

LEMMA RootIsAbove ==
  ASSUME NEW path \in Paths
  PROVE  Root \in Paths /\ Len(Root) = 0 /\ Under(Root, path)
<1>1. Root \in Paths /\ Len(Root) = 0
  BY DEF Root, Paths
<1>2. \A i \in 1 .. Len(Root) : Root[i] = path[i]
  BY <1>1
<1>3. Len(Root) <= Len(path)
  BY <1>1 DEF Paths
<1> QED BY <1>1, <1>2, <1>3, PrefixAt DEF Under, Paths

LEMMA AncestorIs ==
  ASSUME NEW R, NEW org, IsRules(R, org), NEW path \in Paths, ~Astray(R, path),
         NEW k \in 0 .. Len(path)
  PROVE  Deepest(R, path, k, Ancestor(R, SubSeq(path, 1, k)))
<1> DEFINE n == Len(path)
           D == DOMAIN R
           T(d) == Text(d)
           p == SubSeq(path, 1, k)
           Fit(d) == IsPrefix(Text(d), Text(p))
<1>1. n \in Nat /\ k \in Nat /\ k <= n /\ D \subseteq Paths /\ SubSeq(path, 1, n) = path
      /\ \A d \in D : Len(d) \in Nat
  BY DEF Paths, IsRules
<1>2. \A i, j \in 0 .. n : i <= j =>
             /\ IsPrefix(Text(SubSeq(path, 1, i)), Text(SubSeq(path, 1, j)))
             /\ Len(Text(SubSeq(path, 1, i))) \in Nat
             /\ Len(Text(SubSeq(path, 1, j))) >= Len(Text(SubSeq(path, 1, i))) + (j - i)
             /\ Text(SubSeq(path, 1, i)) \in Seq(Bytes)
  BY TextGrows
<1>3. ASSUME NEW d \in D PROVE Text(d) \in Seq(Bytes)
  <2>1. d \in Paths /\ Len(d) \in 0 .. Len(d) /\ SubSeq(d, 1, Len(d)) = d
    BY <1>1 DEF Paths
  <2>2. Text(SubSeq(d, 1, Len(d))) \in Seq(Bytes)
    BY <2>1, TextGrows
  <2> QED BY <2>1, <2>2
<1>4. ASSUME NEW d \in D, Under(d, path) PROVE Len(d) \in 0 .. n /\ d = SubSeq(path, 1, Len(d))
  BY <1>1, <1>4, AboveIsPart DEF Paths, Under
<1>5. ASSUME NEW d \in D PROVE Fit(d) <=> Under(d, path) /\ Len(d) <= k
  <2>1. ASSUME Under(d, path), Len(d) <= k PROVE Fit(d)
    <3>1. Len(d) \in 0 .. n /\ k \in 0 .. n
      BY <1>4, <2>1
    <3>2. IsPrefix(Text(SubSeq(path, 1, Len(d))), Text(SubSeq(path, 1, k)))
      BY <1>2, <2>1, <3>1
    <3> QED BY <1>4, <2>1, <3>2
  <2>2. ASSUME Fit(d) PROVE Under(d, path) /\ Len(d) <= k
    <3>1. IsPrefix(Text(p), Text(path)) /\ Text(p) \in Seq(Bytes) /\ Text(path) \in Seq(Bytes)
          /\ Len(Text(p)) \in Nat
      <4>1. n \in 0 .. n /\ k \in 0 .. n /\ k <= n /\ n <= n
        BY <1>1
      <4> QED BY <1>1, <1>2, <4>1
    <3>2. IsPrefix(Text(d), Text(path))
      BY <1>3, <2>2, <3>1, PrefixOrder
    <3>3. Under(d, path)
      BY <3>2 DEF Astray
    <3>4. ASSUME Len(d) > k PROVE FALSE
      <4>1. Len(d) \in 0 .. n /\ k \in 0 .. n /\ k <= Len(d) /\ d = SubSeq(path, 1, Len(d))
        BY <1>4, <3>3, <3>4
      <4>2. Len(Text(SubSeq(path, 1, Len(d)))) >= Len(Text(p)) + (Len(d) - k)
        BY <1>2, <4>1
      <4>3. Len(Text(d)) >= Len(Text(p)) + (Len(d) - k)
        BY <4>1, <4>2
      <4>4. Len(Text(d)) <= Len(Text(p)) /\ Len(Text(d)) \in Nat
        BY <1>3, <2>2, <3>1, PrefixAt
      <4> QED BY <1>1, <3>1, <3>4, <4>3, <4>4
    <3> QED BY <1>1, <3>3, <3>4
  <2> QED BY <2>1, <2>2
<1>6. ASSUME NEW d \in D, NEW e \in D, Under(d, path), Under(e, path)
      PROVE  Len(Text(e)) <= Len(Text(d)) <=> Len(e) <= Len(d)
  <2>1. Len(d) \in 0 .. n /\ Len(e) \in 0 .. n /\ d = SubSeq(path, 1, Len(d))
        /\ e = SubSeq(path, 1, Len(e))
    BY <1>4, <1>6
  <2>2. Len(d) <= Len(e) =>
          Len(Text(SubSeq(path, 1, Len(e)))) >= Len(Text(SubSeq(path, 1, Len(d)))) + (Len(e) - Len(d))
    BY <1>2, <2>1
  <2>3. Len(e) <= Len(d) =>
          Len(Text(SubSeq(path, 1, Len(d)))) >= Len(Text(SubSeq(path, 1, Len(e)))) + (Len(d) - Len(e))
    BY <1>2, <2>1
  <2>4. Len(Text(e)) \in Nat /\ Len(Text(d)) \in Nat
    BY <1>3
  <2>5. Len(d) <= Len(e) => Len(Text(e)) >= Len(Text(d)) + (Len(e) - Len(d))
    BY <2>1, <2>2
  <2>6. Len(e) <= Len(d) => Len(Text(d)) >= Len(Text(e)) + (Len(d) - Len(e))
    BY <2>1, <2>3
  <2> HIDE DEF n
  <2> QED BY <1>1, <2>4, <2>5, <2>6
<1> DEFINE Lens == {m \in 0 .. k : \E d \in D : Under(d, path) /\ Len(d) = m}
<1>7. Max(Lens) \in Lens /\ \A m \in Lens : m <= Max(Lens)
  <2>1. 0 \in Lens
    BY <1>1, RootIsAbove DEF IsRules
  <2>2. Lens \in SUBSET (0 .. k)
    OBVIOUS
  <2> HIDE DEF Lens
  <2> QED BY <1>1, <2>1, <2>2, GreatestOf
<1>8. PICK b \in D : Under(b, path) /\ Len(b) \in 0 .. k /\ Len(b) = Max(Lens)
  BY <1>7
<1> DEFINE Is(a) == /\ IsPrefix(Text(a), Text(p))
                    /\ \A e \in D : IsPrefix(Text(e), Text(p)) => Len(Text(e)) <= Len(Text(a))
           A == CHOOSE a \in D : Is(a)
<1>9. Is(b)
  <2>1. Fit(b)
    BY <1>1, <1>5, <1>8
  <2>2. ASSUME NEW e \in D, Fit(e) PROVE Len(Text(e)) <= Len(Text(b))
    <3>1. Under(e, path) /\ Len(e) <= k
      BY <1>5, <2>2
    <3>2. Len(e) \in Lens
      BY <1>1, <3>1
    <3>3. Len(e) <= Len(b)
      <4> HIDE DEF Lens
      <4> QED BY <1>7, <1>8, <3>2
    <3> QED BY <1>6, <1>8, <3>1, <3>3
  <2> QED BY <2>1, <2>2
<1>10. A \in D /\ Is(A)
  <2> HIDE DEF Is
  <2> QED BY <1>9
<1>11. Ancestor(R, p) = A
  BY DEF Ancestor
<1> HIDE DEF A
<1>12. Under(A, path) /\ Len(A) <= k /\ Len(A) \in 0 .. k
  <2>1. Fit(A)
    BY <1>10
  <2> HIDE DEF Fit, Is
  <2> QED BY <1>1, <1>5, <1>10, <2>1
<1>13. ASSUME NEW e \in D, Under(e, path), Len(e) <= k PROVE Len(e) <= Len(A)
  <2>1. Fit(e)
    <3> HIDE DEF Fit
    <3> QED BY <1>5, <1>13
  <2>2. Len(Text(e)) <= Len(Text(A))
    BY <1>10, <2>1
  <2> QED BY <1>6, <1>10, <1>12, <1>13, <2>2
<1> HIDE DEF p
<1>14. Deepest(R, path, k, A)
  BY <1>10, <1>12, <1>13 DEF Deepest
<1> QED BY <1>11, <1>14 DEF p
-----------------------------------------------------------------------------
(* The answer of one file: that of its last line for the longest part of   *)
(* the path.                                                               *)
Hows == {"none", "allow", "ignore"}
HitsAt(lines, path, r, k) == Hits(lines, SubSeq(path, r + 1, k))
TopLine(lines, path, r, k, i) ==
  /\ k \in 1 .. Len(path) /\ i \in HitsAt(lines, path, r, k) /\ i \in DOMAIN lines
  /\ \A j \in 1 .. Len(path) : j > k => HitsAt(lines, path, r, j) = {}
  /\ \A j \in HitsAt(lines, path, r, k) : j <= i
Answers(lines, path, r, how) ==
  \/ how = "none" /\ \A k \in 1 .. Len(path) : HitsAt(lines, path, r, k) = {}
  \/ \E k, i : /\ TopLine(lines, path, r, k, i)
               /\ how = IF lines[i].allow THEN "allow" ELSE "ignore"

LEMMA MatchedIs ==
  ASSUME NEW lines \in LineLists, NEW rel
  PROVE  \/ Matched(lines, rel) = "none" /\ Hits(lines, rel) = {}
         \/ \E i \in Hits(lines, rel) :
              /\ i \in DOMAIN lines /\ \A j \in Hits(lines, rel) : j <= i
              /\ Matched(lines, rel) = IF lines[i].allow THEN "allow" ELSE "ignore"
<1> DEFINE H == Hits(lines, rel)
<1>1. H \in SUBSET (0 .. Len(lines)) /\ H \subseteq DOMAIN lines /\ Len(lines) \in Nat
  BY DEF Hits, LineLists
<1>2. CASE H = {}
  BY <1>2 DEF Matched
<1>3. CASE H # {}
  <2>1. Max(H) \in H /\ \A j \in H : j <= Max(H)
    <3> HIDE DEF H
    <3> QED BY <1>1, <1>3, GreatestOf
  <2>2. Matched(lines, rel) = IF lines[Max(H)].allow THEN "allow" ELSE "ignore"
    BY <1>3 DEF Matched
  <2> QED BY <1>1, <2>1, <2>2
<1> QED BY <1>2, <1>3

LEMMA PartOfRest ==
  ASSUME NEW S, NEW path \in Seq(S), NEW r \in 0 .. Len(path)
  PROVE  /\ SubSeq(path, r + 1, Len(path)) \in Seq(S)
         /\ Len(SubSeq(path, r + 1, Len(path))) = Len(path) - r
         /\ \A k \in 0 .. Len(path) - r :
              SubSeq(SubSeq(path, r + 1, Len(path)), 1, k) = SubSeq(path, r + 1, r + k)
         /\ \A k \in 0 .. r : SubSeq(path, r + 1, k) = <<>>
<1> DEFINE n == Len(path)
           rel == SubSeq(path, r + 1, n)
<1>1. n \in Nat /\ r \in Nat /\ r <= n
  OBVIOUS
<1>2. rel \in Seq(S) /\ Len(rel) = n - r /\ \A i \in 1 .. n - r : rel[i] = path[r + i]
  <2>1. \A i \in r + 1 .. n : path[i] \in S
    BY <1>1
  <2> QED BY <1>1, <2>1, SubSeqProperties
<1>3. ASSUME NEW k \in 0 .. n - r PROVE SubSeq(rel, 1, k) = SubSeq(path, r + 1, r + k)
  <2> DEFINE u == SubSeq(rel, 1, k)
             v == SubSeq(path, r + 1, r + k)
  <2>1. k \in Nat /\ r + k <= n /\ k <= n - r /\ k \in 0 .. Len(rel)
    BY <1>1, <1>2
  <2>2. u \in Seq(S) /\ Len(u) = k /\ \A i \in 1 .. k : u[i] = rel[i]
    <3> HIDE DEF rel, n
    <3> QED BY <1>2, <2>1, PartOf
  <2>3. v \in Seq(S) /\ Len(v) = k /\ \A i \in 1 .. k : v[i] = path[r + i]
    <3>1. \A i \in r + 1 .. r + k : path[i] \in S
      BY <1>1, <2>1
    <3> QED BY <1>1, <2>1, <3>1, SubSeqProperties
  <2>4. \A i \in 1 .. k : rel[i] = path[r + i]
    <3> HIDE DEF rel
    <3> QED BY <1>1, <1>2, <2>1
  <2> HIDE DEF u, v, rel
  <2>5. \A i \in 1 .. k : u[i] = v[i]
    BY <2>2, <2>3, <2>4
  <2>6. u = v
    BY <2>2, <2>3, <2>5, SeqEqual
  <2> QED BY <2>6 DEF u, v
<1>4. ASSUME NEW k \in 0 .. r PROVE SubSeq(path, r + 1, k) = <<>>
  <2>1. ~(r + 1 <= k) /\ k \in Nat
    BY <1>1
  <2> QED BY <1>1, <2>1
<1> HIDE DEF n
<1> QED BY <1>2, <1>3, <1>4 DEF n

LEMMA LinesAnswer ==
  ASSUME NEW lines \in LineLists, NEW path \in Paths, NEW r \in 0 .. Len(path)
  PROVE  /\ Answers(lines, path, r,
                     MatchedPathOrParents(lines, SubSeq(path, r + 1, Len(path))))
         /\ MatchedPathOrParents(lines, SubSeq(path, r + 1, Len(path))) \in Hows
<1> DEFINE n == Len(path)
           rel == SubSeq(path, r + 1, n)
           F == {k \in 1 .. Len(rel) : Matched(lines, SubSeq(rel, 1, k)) # "none"}
           how == MatchedPathOrParents(lines, rel)
<1>1. n \in Nat /\ r \in Nat /\ r <= n
  BY DEF Paths
<1>2. /\ Len(rel) = n - r
      /\ \A k \in 0 .. n - r : SubSeq(rel, 1, k) = SubSeq(path, r + 1, r + k)
      /\ \A k \in 0 .. r : SubSeq(path, r + 1, k) = <<>>
  BY PartOfRest DEF Paths
<1> HIDE DEF rel
<1>3. ASSUME NEW k \in 1 .. n, HitsAt(lines, path, r, k) # {}
      PROVE  k - r \in F /\ Matched(lines, SubSeq(rel, 1, k - r)) = Matched(lines, SubSeq(path, r + 1, k))
  <2>1. k > r
    <3> SUFFICES ASSUME k <= r PROVE FALSE
      BY <1>1
    <3>1. k \in 0 .. r
      BY <1>1
    <3>2. SubSeq(path, r + 1, k) = <<>>
      BY <1>2, <3>1
    <3> QED BY <1>3, <3>2 DEF HitsAt, Hits
  <2>2. k - r \in 1 .. Len(rel) /\ k - r \in 0 .. n - r /\ r + (k - r) = k
    BY <1>1, <1>2, <2>1
  <2>3. SubSeq(rel, 1, k - r) = SubSeq(path, r + 1, k)
    BY <1>2, <2>2
  <2>4. Matched(lines, SubSeq(path, r + 1, k)) # "none"
    BY <1>3, MatchedIs DEF HitsAt
  <2> QED BY <2>2, <2>3, <2>4
<1>4. CASE F = {}
  <2>1. how = "none"
    BY <1>4 DEF MatchedPathOrParents
  <2>2. \A k \in 1 .. n : HitsAt(lines, path, r, k) = {}
    <3> HIDE DEF F
    <3> QED BY <1>3, <1>4
  <2> HIDE DEF how, n
  <2> QED BY <2>1, <2>2 DEF Answers, how, n, rel, Hows
<1>5. CASE F # {}
  <2>1. F \in SUBSET (0 .. n) /\ how = Matched(lines, SubSeq(rel, 1, Max(F)))
    BY <1>1, <1>2, <1>5 DEF MatchedPathOrParents
  <2>2. Max(F) \in F /\ \A j \in F : j <= Max(F)
    <3> HIDE DEF F
    <3> QED BY <1>1, <1>5, <2>1, GreatestOf
  <2> DEFINE m == Max(F)
  <2>3. m \in 1 .. n - r /\ Matched(lines, SubSeq(rel, 1, m)) # "none"
    BY <1>2, <2>2
  <2> HIDE DEF m
  <2>4. SubSeq(rel, 1, m) = SubSeq(path, r + 1, r + m) /\ r + m \in 1 .. n
    BY <1>1, <1>2, <2>3
  <2>5. PICK i \in HitsAt(lines, path, r, r + m) :
             /\ i \in DOMAIN lines /\ \A j \in HitsAt(lines, path, r, r + m) : j <= i
             /\ how = IF lines[i].allow THEN "allow" ELSE "ignore"
    BY <2>1, <2>3, <2>4, MatchedIs DEF HitsAt, m
  <2>6. ASSUME NEW j \in 1 .. n, j > r + m PROVE HitsAt(lines, path, r, j) = {}
    <3> SUFFICES ASSUME HitsAt(lines, path, r, j) # {} PROVE FALSE
      OBVIOUS
    <3>1. j - r \in F
      BY <1>3
    <3>2. j - r <= m
      BY <2>2, <3>1 DEF m
    <3> QED BY <1>1, <2>3, <2>6, <3>2
  <2>7. TopLine(lines, path, r, r + m, i)
    BY <2>4, <2>5, <2>6 DEF TopLine
  <2>8. how \in Hows
    BY <2>5 DEF Hows
  <2> HIDE DEF how
  <2>9. Answers(lines, path, r, how)
    BY <2>5, <2>7 DEF Answers
  <2> QED BY <2>8, <2>9 DEF how, rel
<1> QED BY <1>4, <1>5
-----------------------------------------------------------------------------
(* A search that goes back until it may stop comes to an end.              *)
Jumps(f, n, stop, v, g) == f = [k \in 0 .. n |-> IF stop[k] THEN v[k] ELSE f[g[k]]]

LEMMA JumpsExist ==
  ASSUME NEW n \in Nat, NEW stop, NEW v, NEW g,
         \A k \in 0 .. n : ~stop[k] => k # 0 /\ g[k] \in 0 .. k - 1
  PROVE  \E f : Jumps(f, n, stop, v, g)
<1> DEFINE Stuck == {k \in 0 .. n : ~ \E f : Jumps(f, k, stop, v, g)}
<1>1. SUFFICES ASSUME Stuck # {} PROVE FALSE
  OBVIOUS
<1>2. PICK m \in Stuck : \A k \in Stuck : m <= k
  <2>1. Stuck \in SUBSET Nat
    OBVIOUS
  <2> HIDE DEF Stuck
  <2> QED BY <1>1, <2>1, LeastOf
<1>3. CASE m = 0
  <2> DEFINE f == [k \in 0 .. 0 |-> v[k]]
  <2>1. stop[0] /\ \A k \in 0 .. 0 : k = 0
    OBVIOUS
  <2>2. Jumps(f, 0, stop, v, g)
    BY <2>1 DEF Jumps
  <2> HIDE DEF f
  <2> QED BY <1>2, <1>3, <2>2
<1>4. CASE m # 0
  <2>1. m \in Nat /\ m \in 0 .. n /\ m - 1 \in 0 .. n /\ m - 1 \notin Stuck
    <3>1. m \in Nat /\ m \in 0 .. n /\ m - 1 \in 0 .. n /\ ~(m <= m - 1)
      BY <1>2, <1>4
    <3> HIDE DEF Stuck
    <3> QED BY <1>2, <3>1
  <2>2. PICK f : Jumps(f, m - 1, stop, v, g)
    BY <2>1
  <2> DEFINE h == [k \in 0 .. m |-> IF k = m THEN IF stop[m] THEN v[m] ELSE f[g[m]] ELSE f[k]]
  <2>3. ASSUME NEW k \in 0 .. m PROVE h[k] = IF stop[k] THEN v[k] ELSE h[g[k]]
    <3>1. ~stop[k] => g[k] \in 0 .. m /\ g[k] # m /\ g[k] \in 0 .. k - 1
      <4>1. k \in 0 .. n
        BY <2>1
      <4> QED BY <2>1, <4>1
    <3>2. ~stop[k] => h[g[k]] = f[g[k]]
      BY <3>1
    <3>3. CASE k = m
      BY <3>2, <3>3
    <3>4. CASE k # m
      <4>1. k \in 0 .. m - 1 /\ h[k] = f[k]
        BY <2>1, <3>4
      <4>2. f[k] = IF stop[k] THEN v[k] ELSE f[g[k]]
        BY <2>2, <4>1 DEF Jumps
      <4> HIDE DEF h
      <4> QED BY <3>2, <4>1, <4>2
    <3> QED BY <3>3, <3>4
  <2>4. h = [k \in 0 .. m |-> h[k]]
    OBVIOUS
  <2> HIDE DEF h
  <2>5. Jumps(h, m, stop, v, g)
    BY <2>3, <2>4 DEF Jumps
  <2> QED BY <1>2, <2>5
<1> QED BY <1>3, <1>4

-----------------------------------------------------------------------------
(* The answer of a filter: that of the deepest directory above the path    *)
(* that has one.                                                           *)
HowOf(R, d, path) ==
  MatchedPathOrParents(R[d].gitignore, SubSeq(path, Len(R[d].root) + 1, Len(path)))
Decides(R, path, k, d, v) ==
  /\ d \in DOMAIN R /\ Under(d, path) /\ Len(d) <= k /\ v = Verdict(HowOf(R, d, path), d)
  /\ HowOf(R, d, path) # "none" \/ d = Root
  /\ \A e \in DOMAIN R :
       Under(e, path) /\ Len(e) <= k /\ Len(e) > Len(d) => HowOf(R, e, path) = "none"

LEMMA NodeMatches ==
  ASSUME NEW R, NEW org \in Paths, IsRules(R, org), NEW path \in Paths, Under(org, path),
         NEW d \in DOMAIN R, Under(d, path)
  PROVE  /\ Match(R[d], path, Under(R[Root].root, path)) = HowOf(R, d, path)
         /\ HowOf(R, d, path) \in Hows /\ Len(R[d].root) \in 0 .. Len(path)
         /\ R[d].gitignore \in LineLists /\ Under(R[d].root, path)
<1>1. R[d] \in Nodes /\ R[Root].root = org
  BY DEF IsRules
<1>2. Under(R[d].root, path) /\ R[d].root \in Paths /\ R[d].gitignore \in LineLists
  BY <1>1 DEF IsRules, Nodes
<1>3. Len(R[d].root) \in 0 .. Len(path)
  BY <1>2, AboveIsPart DEF Paths, Under
<1>4. HowOf(R, d, path) \in Hows
  BY <1>2, <1>3, LinesAnswer DEF HowOf
<1>5. R[d].gitignore = <<>> => HowOf(R, d, path) = "none"
  <2> SUFFICES ASSUME R[d].gitignore = <<>> PROVE HowOf(R, d, path) = "none"
    OBVIOUS
  <2>1. \A rel : Hits(<<>>, rel) = {}
    BY DEF Hits
  <2>2. \A rel : Matched(<<>>, rel) = "none"
    BY <2>1 DEF Matched
  <2> QED BY <2>2 DEF HowOf, MatchedPathOrParents
<1>6. Match(R[d], path, TRUE) = HowOf(R, d, path)
  BY <1>2, <1>5 DEF Match, Strips, Strip, Rest, HowOf
<1> QED BY <1>1, <1>2, <1>3, <1>4, <1>6

LEMMA ChainOfTwo ==
  ASSUME NEW path \in Paths, NEW d \in Paths, NEW e \in Paths, Under(d, path), Under(e, path)
  PROVE  /\ Len(d) \in 0 .. Len(path) /\ Len(e) \in 0 .. Len(path) /\ Len(path) \in Nat
         /\ Len(d) = Len(e) => d = e
         /\ Len(d) <= Len(e) => Under(d, e)
<1>1. Len(d) \in 0 .. Len(path) /\ d = SubSeq(path, 1, Len(d))
  BY AboveIsPart DEF Paths, Under
<1>2. Len(e) \in 0 .. Len(path) /\ e = SubSeq(path, 1, Len(e))
  BY AboveIsPart DEF Paths, Under
<1>3. Len(d) <= Len(e) => Under(d, e)
  BY PrefixOrder DEF Paths, Under
<1>4. Len(path) \in Nat
  BY DEF Paths
<1>5. Len(d) = Len(e) => d = e
  BY <1>1, <1>2
<1> QED BY <1>1, <1>2, <1>3, <1>4, <1>5

LEMMA MatchDecides ==
  ASSUME NEW R, NEW org \in Paths, IsRules(R, org), NEW path \in Paths, Under(org, path),
         ~Astray(R, path)
  PROVE  \E d : Decides(R, path, Len(path), d, MatchPath(R, path))
<1> DEFINE n == Len(path)
           inside == Under(R[Root].root, path)
           A(k) == Ancestor(R, SubSeq(path, 1, k))
           M(k) == Match(R[A(k)], path, inside)
           stop == [k \in 0 .. n |-> M(k) # "none" \/ A(k) = Root]
           v == [k \in 0 .. n |-> Verdict(M(k), A(k))]
           g == [k \in 0 .. n |-> Len(A(k)) - 1]
           Are(f) == f = [k \in 0 .. n |-> IF M(k) # "none" \/ A(k) = Root
                                          THEN Verdict(M(k), A(k)) ELSE f[Len(A(k)) - 1]]
           F == CHOOSE f : Are(f)
<1>1. n \in Nat /\ DOMAIN R \subseteq Paths /\ Root \in DOMAIN R
  BY DEF Paths, IsRules
<1>2. \A k \in 0 .. n : Deepest(R, path, k, A(k))
  BY AncestorIs
<1>3. ASSUME NEW k \in 0 .. n
      PROVE  /\ A(k) \in DOMAIN R /\ Under(A(k), path) /\ Len(A(k)) \in 0 .. k
             /\ M(k) = HowOf(R, A(k), path)
             /\ \A e \in DOMAIN R : Under(e, path) /\ Len(e) <= k => Len(e) <= Len(A(k))
  <2> DEFINE a == A(k)
  <2>1. Deepest(R, path, k, a)
    BY <1>2
  <2> HIDE DEF a
  <2>2. Match(R[a], path, inside) = HowOf(R, a, path)
    BY <2>1, NodeMatches DEF Deepest
  <2> QED BY <2>1, <2>2 DEF Deepest, a
<1>4. ASSUME NEW k \in 0 .. n, A(k) # Root PROVE k # 0 /\ Len(A(k)) - 1 \in 0 .. k - 1
  <2> DEFINE a == A(k)
  <2>1. a \in Paths /\ Under(a, path) /\ Len(a) \in 0 .. k /\ a # Root
    BY <1>1, <1>3, <1>4
  <2> HIDE DEF a
  <2>2. Len(a) # 0
    BY <2>1, ChainOfTwo, RootIsAbove
  <2>3. k # 0 /\ Len(a) - 1 \in 0 .. k - 1
    BY <1>1, <2>1, <2>2
  <2> QED BY <2>3 DEF a
<1>5. MatchPath(R, path) = F[n]
  BY DEF MatchPath
<1> HIDE DEF A, M, inside
<1>6. \A k \in 0 .. n : ~stop[k] => k # 0 /\ g[k] \in 0 .. k - 1
  BY <1>4
<1>7. \E f : Are(f)
  <2>1. PICK f : Jumps(f, n, stop, v, g)
    <3> HIDE DEF stop, v, g, n
    <3> QED BY <1>1, <1>6, JumpsExist
  <2>2. Are(f)
    BY <2>1 DEF Jumps
  <2> QED BY <2>2
<1>8. Are(F)
  <2> HIDE DEF Are
  <2> QED BY <1>7
<1>9. \A k \in 0 .. n : F[k] = IF M(k) # "none" \/ A(k) = Root
                                THEN Verdict(M(k), A(k)) ELSE F[Len(A(k)) - 1]
  <2> HIDE DEF F
  <2> QED BY <1>8
<1> HIDE DEF F, stop, v, g, Are
<1> DEFINE Bad == {k \in 0 .. n : ~ \E d : Decides(R, path, k, d, F[k])}
<1>10. Bad = {}
  <2> SUFFICES ASSUME Bad # {} PROVE FALSE
    OBVIOUS
  <2>1. Bad \in SUBSET Nat
    BY <1>1
  <2>2. PICK k \in Bad : \A j \in Bad : k <= j
    <3> HIDE DEF Bad
    <3> QED BY <2>1, LeastOf
  <2>3. k \in 0 .. n /\ ~ \E d : Decides(R, path, k, d, F[k])
    OBVIOUS
  <2> DEFINE a == A(k)
  <2>4. /\ a \in DOMAIN R /\ Under(a, path) /\ Len(a) \in 0 .. k
        /\ M(k) = HowOf(R, a, path)
        /\ \A e \in DOMAIN R : Under(e, path) /\ Len(e) <= k => Len(e) <= Len(a)
    BY <1>3, <2>3
  <2>5. k \in Nat /\ Len(a) \in Nat /\ Len(a) <= k
    BY <1>1, <2>3, <2>4
  <2>6. CASE M(k) # "none" \/ a = Root
    <3>1. F[k] = Verdict(HowOf(R, a, path), a)
      BY <1>9, <2>3, <2>4, <2>6
    <3> HIDE DEF a
    <3>2. \A e \in DOMAIN R : Len(e) \in Nat
      BY <1>1 DEF Paths
    <3>3. Decides(R, path, k, a, F[k])
      BY <2>4, <2>5, <2>6, <3>1, <3>2 DEF Decides
    <3> QED BY <2>3, <3>3
  <2>7. CASE M(k) = "none" /\ a # Root
    <3> DEFINE j == Len(a) - 1
    <3>1. F[k] = F[j] /\ k # 0 /\ j \in 0 .. k - 1
      BY <1>4, <1>9, <2>3, <2>7
    <3>2. j \in 0 .. n /\ ~(k <= j)
      BY <1>1, <2>3, <2>5, <3>1
    <3>3. PICK d : Decides(R, path, j, d, F[j])
      <4>1. j \notin Bad
        <5> HIDE DEF Bad, j
        <5> QED BY <2>2, <3>2
      <4> QED BY <3>2, <4>1
    <3>4. ASSUME NEW e \in DOMAIN R, Under(e, path), Len(e) <= k, Len(e) > Len(d)
          PROVE  HowOf(R, e, path) = "none"
      <4>1. Len(e) <= Len(a) /\ Len(e) \in Nat /\ (Len(e) = Len(a) => e = a)
        <5>1. Len(e) <= Len(a)
          BY <2>4, <3>4
        <5> HIDE DEF a
        <5> QED BY <1>1, <2>4, <3>4, <5>1, ChainOfTwo
      <4>2. CASE Len(e) = Len(a)
        BY <2>4, <2>7, <4>1, <4>2
      <4>3. CASE Len(e) # Len(a)
        <5>1. Len(e) <= j
          BY <2>5, <4>1, <4>3
        <5> QED BY <3>3, <3>4, <5>1 DEF Decides
      <4> QED BY <4>2, <4>3
    <3>5. d \in DOMAIN R /\ Under(d, path) /\ Len(d) <= k
      <4>1. d \in Paths /\ Len(d) <= j
        BY <1>1, <3>3 DEF Decides
      <4>2. Len(d) \in Nat
        BY <4>1 DEF Paths
      <4>3. Len(d) <= k
        BY <2>5, <3>1, <4>1, <4>2
      <4> QED BY <3>3, <4>3 DEF Decides
    <3>6. Decides(R, path, k, d, F[k])
      BY <3>1, <3>3, <3>4, <3>5 DEF Decides
    <3> QED BY <2>3, <3>6
  <2> QED BY <2>6, <2>7
<1>11. n \in 0 .. n /\ n \notin Bad
  <2> HIDE DEF Bad
  <2> QED BY <1>1, <1>10
<1> QED BY <1>5, <1>11
-----------------------------------------------------------------------------
(* The reference, in the same words.                                       *)
ClaimsOf(R, path, d, k) == HitsAt(R[d].gitignore, path, Len(R[d].root), k)
IsClaim(R, path, d, k, i) ==
  d \in DOMAIN R /\ Under(d, path) /\ k \in 1 .. Len(path) /\ i \in ClaimsOf(R, path, d, k)

LEMMA ClaimsAre ==
  ASSUME NEW R, NEW org \in Paths, IsRules(R, org), NEW path \in Paths, Under(org, path)
  PROVE  /\ \A c \in Claims(R, path) :
              \E d, k, i : c = <<d, k, i>> /\ IsClaim(R, path, d, k, i)
         /\ \A d, k, i : IsClaim(R, path, d, k, i) => <<d, k, i>> \in Claims(R, path)
<1> DEFINE n == Len(path)
           D == {e \in DOMAIN R : Under(R[e].root, path)}
           Of(d, k) == {<<d, k, i>> : i \in ClaimsOf(R, path, d, k)}
<1>1. Claims(R, path) = UNION {Of(d, k) : d \in D, k \in 1 .. n}
  BY DEF Claims, ClaimsOf, HitsAt
<1>2. \A d \in DOMAIN R : Under(d, path) <=> d \in D
  BY RootIsAbove DEF IsRules
<1> HIDE DEF D
<1>3. ASSUME NEW c \in Claims(R, path)
      PROVE  \E d, k, i : c = <<d, k, i>> /\ IsClaim(R, path, d, k, i)
  <2>1. PICK d \in D, k \in 1 .. n : c \in Of(d, k)
    BY <1>1
  <2>2. PICK i \in ClaimsOf(R, path, d, k) : c = <<d, k, i>>
    BY <2>1
  <2>3. d \in DOMAIN R
    BY DEF D
  <2>4. IsClaim(R, path, d, k, i)
    BY <1>2, <2>3 DEF IsClaim
  <2> QED BY <2>2, <2>4
<1>4. ASSUME NEW d, NEW k, NEW i, IsClaim(R, path, d, k, i) PROVE <<d, k, i>> \in Claims(R, path)
  <2>1. d \in D /\ k \in 1 .. n /\ i \in ClaimsOf(R, path, d, k)
    BY <1>2, <1>4 DEF IsClaim
  <2>2. <<d, k, i>> \in Of(d, k)
    BY <2>1
  <2> HIDE DEF Of
  <2> QED BY <1>1, <2>1, <2>2
<1> QED BY <1>3, <1>4

LEMMA HowIs ==
  ASSUME NEW R, NEW org \in Paths, IsRules(R, org), NEW path \in Paths, Under(org, path),
         NEW d \in DOMAIN R, Under(d, path)
  PROVE  Answers(R[d].gitignore, path, Len(R[d].root), HowOf(R, d, path))
<1>1. Len(R[d].root) \in 0 .. Len(path) /\ R[d].gitignore \in LineLists
  BY NodeMatches
<1> QED BY <1>1, LinesAnswer DEF HowOf

LEMMA IgnoredIs ==
  ASSUME NEW R, NEW org \in Paths, IsRules(R, org), NEW path \in Paths, Under(org, path),
         ~Astray(R, path)
  PROVE  (Ignored(R, path) <=> IgnoredBy(R, path)) /\ ~Panics(R, path)
<1> DEFINE n == Len(path)
           v == MatchPath(R, path)
           L(d) == R[d].gitignore
           r(d) == Len(R[d].root)
<1>1. PICK d : Decides(R, path, n, d, v)
  BY MatchDecides
<1>2. /\ d \in DOMAIN R /\ Under(d, path) /\ v = Verdict(HowOf(R, d, path), d)
      /\ \A e \in DOMAIN R : Under(e, path) /\ Len(e) > Len(d) => HowOf(R, e, path) = "none"
      /\ HowOf(R, d, path) # "none" \/ d = Root
  <2>1. \A e \in DOMAIN R : Under(e, path) => Len(e) <= n
    BY ChainOfTwo, RootIsAbove DEF IsRules
  <2> QED BY <1>1, <2>1 DEF Decides
<1>3. n \in Nat /\ DOMAIN R \subseteq Paths /\ \A e \in DOMAIN R : Len(e) \in Nat
  BY DEF Paths, IsRules
<1>4. v.how = HowOf(R, d, path) /\ v.from = d
  BY <1>2 DEF Verdict
<1>5. ~Panics(R, path)
  <2>1. HowOf(R, d, path) \in Hows
    BY <1>2, NodeMatches
  <2> QED BY <1>4, <2>1 DEF Panics, Hows
<1>6. Ignored(R, path) <=> HowOf(R, d, path) = "ignore"
  BY <1>2, <1>4 DEF Ignored
<1>7. ASSUME NEW e \in DOMAIN R, Under(e, path)
      PROVE  Answers(L(e), path, r(e), HowOf(R, e, path))
  BY <1>7, HowIs
<1>8. ASSUME HowOf(R, d, path) = "ignore" PROVE IgnoredBy(R, path)
  <2>1. Answers(L(d), path, r(d), HowOf(R, d, path))
    BY <1>2, <1>7
  <2>2. PICK k, i : TopLine(L(d), path, r(d), k, i) /\ ~L(d)[i].allow
    BY <1>8, <2>1 DEF Answers
  <2>3. IsClaim(R, path, d, k, i)
    BY <1>2, <2>2 DEF IsClaim, ClaimsOf, TopLine
  <2>4. <<d, k, i>> \in Claims(R, path)
    BY <2>3, ClaimsAre
  <2>5. ASSUME NEW c \in Claims(R, path) PROVE Outweighs(<<d, k, i>>, c)
    <3>1. PICK e, m, j : c = <<e, m, j>> /\ IsClaim(R, path, e, m, j)
      BY ClaimsAre
    <3>2. e \in DOMAIN R /\ Under(e, path) /\ m \in 1 .. n /\ j \in HitsAt(L(e), path, r(e), m)
      BY <3>1 DEF IsClaim, ClaimsOf
    <3>3. HowOf(R, e, path) # "none"
      <4>1. Answers(L(e), path, r(e), HowOf(R, e, path))
        BY <1>7, <3>2
      <4> QED BY <3>2, <4>1 DEF Answers
    <3>4. ~(Len(e) > Len(d))
      BY <1>2, <3>2, <3>3
    <3>5. CASE Len(e) = Len(d)
      <4>1. e = d
        BY <1>2, <1>3, <3>2, <3>5, ChainOfTwo
      <4>2. ~(m > k) /\ (m = k => j <= i)
        BY <2>2, <3>2, <4>1 DEF TopLine
      <4>3. k \in Nat /\ m \in Nat
        BY <2>2, <3>2 DEF TopLine
      <4>4. k > m \/ k = m
        BY <4>2, <4>3
      <4>5. k = m => i >= j
        BY <4>2
      <4> QED BY <3>1, <4>1, <4>4, <4>5 DEF Outweighs
    <3>6. CASE Len(e) # Len(d)
      <4>1. Len(d) > Len(e)
        BY <1>2, <1>3, <3>2, <3>4, <3>6
      <4> QED BY <3>1, <4>1 DEF Outweighs
    <3> QED BY <3>5, <3>6
  <2> QED BY <2>2, <2>4, <2>5 DEF IgnoredBy
<1>9. ASSUME IgnoredBy(R, path) PROVE HowOf(R, d, path) = "ignore"
  <2>1. PICK c \in Claims(R, path) :
          /\ \A x \in Claims(R, path) : Outweighs(c, x)
          /\ ~R[c[1]].gitignore[c[3]].allow
    BY <1>9 DEF IgnoredBy
  <2>2. PICK e, m, j : c = <<e, m, j>> /\ IsClaim(R, path, e, m, j)
    BY ClaimsAre
  <2>3. e \in DOMAIN R /\ Under(e, path) /\ m \in 1 .. n /\ j \in HitsAt(L(e), path, r(e), m)
        /\ ~L(e)[j].allow
    BY <2>1, <2>2 DEF IsClaim, ClaimsOf
  <2>4. Answers(L(e), path, r(e), HowOf(R, e, path)) /\ HowOf(R, e, path) # "none"
    <3>1. Answers(L(e), path, r(e), HowOf(R, e, path))
      BY <1>7, <2>3
    <3> QED BY <2>3, <3>1 DEF Answers
  <2>5. PICK k, i : /\ TopLine(L(e), path, r(e), k, i)
                    /\ HowOf(R, e, path) = IF L(e)[i].allow THEN "allow" ELSE "ignore"
    BY <2>4 DEF Answers
  <2>6. <<e, k, i>> \in Claims(R, path)
    <3>1. IsClaim(R, path, e, k, i)
      BY <2>3, <2>5 DEF IsClaim, ClaimsOf, TopLine
    <3> QED BY <3>1, ClaimsAre
  <2>7. k = m /\ i = j
    <3>1. Outweighs(<<e, m, j>>, <<e, k, i>>)
      BY <2>1, <2>2, <2>6
    <3>2. Len(e) \in Nat /\ k \in Nat /\ m \in Nat /\ i \in Nat /\ j \in Nat
      <4>1. L(e) \in LineLists
        BY <2>3, NodeMatches
      <4>2. i \in DOMAIN L(e) /\ j \in DOMAIN L(e)
        BY <2>3, <2>5 DEF TopLine, HitsAt, Hits
      <4>3. DOMAIN L(e) \subseteq Nat
        BY <4>1 DEF LineLists
      <4> QED BY <1>3, <2>3, <2>5, <4>2, <4>3 DEF TopLine
    <3>3. m > k \/ (m = k /\ j >= i)
      BY <3>1, <3>2 DEF Outweighs
    <3>4. ~(m > k)
      BY <2>3, <2>5 DEF TopLine
    <3>5. m = k /\ j >= i
      BY <3>3, <3>4
    <3>6. j <= i
      BY <2>3, <2>5, <3>5 DEF TopLine
    <3> QED BY <3>2, <3>5, <3>6
  <2>8. HowOf(R, e, path) = "ignore"
    BY <2>3, <2>5, <2>7
  <2>9. Len(e) >= Len(d)
    <3>1. CASE HowOf(R, d, path) = "none"
      BY <1>2, <1>3, <2>3, <3>1, RootIsAbove
    <3>2. CASE HowOf(R, d, path) # "none"
      <4>1. Answers(L(d), path, r(d), HowOf(R, d, path))
        BY <1>2, <1>7
      <4>2. PICK k2, i2 : TopLine(L(d), path, r(d), k2, i2)
        BY <3>2, <4>1 DEF Answers
      <4>3. IsClaim(R, path, d, k2, i2)
        BY <1>2, <4>2 DEF IsClaim, ClaimsOf, TopLine
      <4>4. Outweighs(<<e, m, j>>, <<d, k2, i2>>)
        BY <2>1, <2>2, <4>3, ClaimsAre
      <4> QED BY <1>2, <1>3, <2>3, <4>4 DEF Outweighs
    <3> QED BY <3>1, <3>2
  <2>10. ~(Len(e) > Len(d))
    BY <1>2, <2>3, <2>8
  <2>11. e = d
    BY <1>2, <1>3, <2>3, <2>9, <2>10, ChainOfTwo
  <2> QED BY <2>8, <2>11
<1> QED BY <1>5, <1>6, <1>8, <1>9

(* Only what is said in directories properly above a path is about it.     *)
AgreeAbove(R, S, path) ==
  \A d \in Paths :
    Under(d, path) /\ d # path =>
      (d \in DOMAIN R <=> d \in DOMAIN S) /\ (d \in DOMAIN R => R[d] = S[d])

LEMMA ClaimIsAbove ==
  ASSUME NEW R, NEW org \in Paths, IsRules(R, org), NEW path \in Paths, Under(org, path),
         NEW d, NEW k, NEW i, IsClaim(R, path, d, k, i)
  PROVE  d \in Paths /\ d # path
<1>1. d \in DOMAIN R /\ d \in Paths /\ k \in 1 .. Len(path) /\ i \in ClaimsOf(R, path, d, k)
  BY DEF IsClaim, IsRules
<1>2. d # Root => R[d].root # path
  <2> SUFFICES ASSUME R[d].root = path PROVE FALSE
    OBVIOUS
  <2>1. Len(path) \in 0 .. Len(path) /\ k \in 0 .. Len(path)
    BY <1>1 DEF Paths
  <2>2. SubSeq(path, Len(path) + 1, k) = <<>>
    BY <2>1, PartOfRest DEF Paths
  <2> QED BY <1>1, <2>2 DEF ClaimsOf, HitsAt, Hits
<1>3. path # Root
  BY <1>1, RootIsAbove
<1> QED BY <1>1, <1>2, <1>3 DEF IsRules

LEMMA ClaimsAgree ==
  ASSUME NEW R, NEW S, NEW org \in Paths, IsRules(R, org), IsRules(S, org), NEW path \in Paths,
         Under(org, path), AgreeAbove(R, S, path), NEW c \in Claims(R, path)
  PROVE  c \in Claims(S, path) /\ R[c[1]] = S[c[1]]
<1>1. PICK d, k, i : c = <<d, k, i>> /\ IsClaim(R, path, d, k, i)
  BY ClaimsAre
<1>2. d \in Paths /\ d # path
  BY <1>1, ClaimIsAbove
<1>3. d \in DOMAIN S /\ R[d] = S[d]
  BY <1>1, <1>2 DEF IsClaim, AgreeAbove
<1>4. IsClaim(S, path, d, k, i)
  BY <1>1, <1>3 DEF IsClaim, ClaimsOf
<1> QED BY <1>1, <1>3, <1>4, ClaimsAre

LEMMA AboveDecides ==
  ASSUME NEW R, NEW S, NEW org \in Paths, IsRules(R, org), IsRules(S, org), NEW path \in Paths,
         Under(org, path), AgreeAbove(R, S, path)
  PROVE  IgnoredBy(R, path) <=> IgnoredBy(S, path)
<1>1. AgreeAbove(S, R, path)
  BY DEF AgreeAbove
<1>2. \A c \in Claims(R, path) : c \in Claims(S, path) /\ R[c[1]] = S[c[1]]
  BY ClaimsAgree
<1>3. \A c \in Claims(S, path) : c \in Claims(R, path) /\ S[c[1]] = R[c[1]]
  BY <1>1, ClaimsAgree
<1>4. ASSUME IgnoredBy(R, path) PROVE IgnoredBy(S, path)
  BY <1>2, <1>3, <1>4 DEF IgnoredBy
<1>5. ASSUME IgnoredBy(S, path) PROVE IgnoredBy(R, path)
  BY <1>2, <1>3, <1>5 DEF IgnoredBy
<1> QED BY <1>4, <1>5
-----------------------------------------------------------------------------
(* Steps from 0 to n.                                                      *)
LEMMA StepByStep ==
  ASSUME NEW n \in Nat, NEW P \in SUBSET (0 .. n), 0 \in P, \A k \in 1 .. n : k - 1 \in P => k \in P
  PROVE  P = 0 .. n
<1> SUFFICES ASSUME (0 .. n) \ P # {} PROVE FALSE
  OBVIOUS
<1> DEFINE Q == (0 .. n) \ P
<1>1. PICK m \in Q : \A k \in Q : m <= k
  <2>1. Q \in SUBSET Nat
    OBVIOUS
  <2> HIDE DEF Q
  <2> QED BY <2>1, LeastOf DEF Q
<1>2. m \in 1 .. n /\ ~(m <= m - 1) /\ m - 1 \in 0 .. n
  OBVIOUS
<1>3. m - 1 \in P
  BY <1>1, <1>2
<1> QED BY <1>2, <1>3

LEMMA OnlyIs ==
  ASSUME NEW S, NEW s \in Seq(S), NEW W
  PROVE  Only(s, W) \in Seq(S) /\ (DOMAIN s \subseteq W => Only(s, W) = s)
<1> DEFINE V == Seq(S)
           n == Len(s)
           Step(v, k) == IF k \in W THEN Append(v, s[k]) ELSE v
           H == [p \in (1 .. n) \X V |-> Step(p[2], p[1])]
           Are(f) == f = [k \in 0 .. n |-> IF k = 0 THEN <<>>
                                          ELSE IF k \in W THEN Append(f[k - 1], s[k]) ELSE f[k - 1]]
           F == CHOOSE f : Are(f)
<1>1. n \in Nat /\ <<>> \in V /\ \A k \in 1 .. n : s[k] \in S
  OBVIOUS
<1>2. \A k \in 1 .. n, v \in V : Step(v, k) \in V
  BY <1>1
<1>3. Only(s, W) = F[n]
  BY DEF Only
<1>4. \E f : Are(f)
  <2>1. \A k \in 1 .. n, v \in V : H[<<k, v>>] = Step(v, k)
    OBVIOUS
  <2> HIDE DEF H, V, n, Step
  <2>2. PICK f \in [0 .. n -> V] : Recurs(f, n, <<>>, H)
    <3>1. \A k \in 1 .. n, v \in V : H[<<k, v>>] \in V
      BY <1>2, <2>1
    <3> QED BY <1>1, <3>1, RecursionExists
  <2>3. ASSUME NEW k \in 0 .. n PROVE f[k] = IF k = 0 THEN <<>> ELSE Step(f[k - 1], k)
    <3>1. CASE k = 0
      BY <2>2, <3>1 DEF Recurs
    <3>2. CASE k # 0
      <4>1. k \in 1 .. n /\ k - 1 \in 0 .. n
        BY <1>1, <3>2
      <4>2. f[k] = H[<<k, f[k - 1]>>] /\ f[k - 1] \in V
        BY <2>2, <3>2, <4>1 DEF Recurs
      <4> QED BY <2>1, <3>2, <4>1, <4>2
    <3> QED BY <3>1, <3>2
  <2>4. Are(f)
    BY <2>2, <2>3 DEF Step
  <2> QED BY <2>4
<1>5. Are(F)
  <2> HIDE DEF Are
  <2> QED BY <1>4
<1>6. F[0] = <<>> /\ \A k \in 1 .. n : F[k] = Step(F[k - 1], k)
  <2> HIDE DEF F
  <2>1. F[0] = <<>>
    BY <1>1, <1>5
  <2>2. ASSUME NEW k \in 1 .. n PROVE F[k] = Step(F[k - 1], k)
    <3>1. k \in 0 .. n /\ k # 0
      BY <1>1
    <3> QED BY <1>5, <3>1
  <2> QED BY <2>1, <2>2
<1> HIDE DEF F, Are
<1> DEFINE P == {k \in 0 .. n : F[k] \in V}
<1>7. P = 0 .. n
  <2>1. 0 \in P
    <3>1. 0 \in 0 .. n /\ F[0] \in V
      BY <1>1, <1>6
    <3> HIDE DEF V
    <3> QED BY <3>1
  <2>2. ASSUME NEW k \in 1 .. n, k - 1 \in P PROVE k \in P
    <3> HIDE DEF V, Step
    <3> QED BY <1>1, <1>2, <1>6, <2>2
  <2>3. P \in SUBSET (0 .. n)
    OBVIOUS
  <2> HIDE DEF P
  <2> QED BY <1>1, <2>1, <2>2, <2>3, StepByStep
<1>8. F[n] \in V
  BY <1>1, <1>7
<1>9. ASSUME DOMAIN s \subseteq W PROVE F[n] = s
  <2> DEFINE Q == {k \in 0 .. n : F[k] = SubSeq(s, 1, k)}
  <2>1. 0 \in Q
    <3>1. 0 \in 0 .. n /\ SubSeq(s, 1, 0) = <<>>
      BY <1>1
    <3> QED BY <1>6, <3>1
  <2>2. ASSUME NEW k \in 1 .. n, k - 1 \in Q PROVE k \in Q
    <3>1. F[k - 1] = SubSeq(s, 1, k - 1) /\ k \in W /\ F[k] = Append(F[k - 1], s[k])
      <4>1. k \in DOMAIN s
        OBVIOUS
      <4> QED BY <1>6, <1>9, <2>2, <4>1
    <3> DEFINE a == SubSeq(s, 1, k - 1)
               b == SubSeq(s, 1, k)
    <3>2. k \in 0 .. Len(s) /\ k - 1 \in 0 .. Len(s) /\ k \in Nat /\ s[k] \in S
      BY <1>1
    <3>3. a \in Seq(S) /\ Len(a) = k - 1 /\ \A i \in 1 .. k - 1 : a[i] = s[i]
      BY <3>2, PartOf
    <3>4. b \in Seq(S) /\ Len(b) = k /\ \A i \in 1 .. k : b[i] = s[i]
      BY <3>2, PartOf
    <3> HIDE DEF a, b
    <3>5. Append(a, s[k]) \in Seq(S) /\ Len(Append(a, s[k])) = k
          /\ \A i \in 1 .. k : Append(a, s[k])[i] = s[i]
      BY <3>2, <3>3
    <3>6. Append(a, s[k]) = b
      BY <3>4, <3>5, SeqEqual
    <3> QED BY <3>1, <3>2, <3>6 DEF a, b
  <2>3. Q \in SUBSET (0 .. n)
    OBVIOUS
  <2>4. Q = 0 .. n
    <3> HIDE DEF Q
    <3> QED BY <1>1, <2>1, <2>2, <2>3, StepByStep
  <2>5. F[n] = SubSeq(s, 1, n)
    BY <1>1, <2>4
  <2> QED BY <2>5
<1> QED BY <1>3, <1>8, <1>9
-----------------------------------------------------------------------------
(* Rules stay rules.                                                       *)
Places == Paths \cup {"none"}
IgnoreFiles == [lines: LineLists, in: Places, to: {"none", "git", "hg", "bzr"}, readable: BOOLEAN]

LEMMA AppliesInPaths ==
  ASSUME NEW file \in IgnoreFiles
  PROVE  AppliesIn(file) \in Paths /\ file.lines \in LineLists
BY DEF AppliesIn, IgnoreFiles, Places, Root, Paths

LEMMA GoodPartIs ==
  ASSUME NEW lines \in LineLists
  PROVE  GoodPart(lines) \in LineLists
<1> DEFINE bad == {i \in DOMAIN lines : lines[i].bad}
<1>1. CASE bad = {}
  BY <1>1 DEF GoodPart
<1>2. CASE bad # {}
  <2>1. bad \in SUBSET Nat /\ bad \subseteq 1 .. Len(lines) /\ Len(lines) \in Nat
    BY DEF LineLists
  <2>2. Min(bad) \in bad
    <3> HIDE DEF bad
    <3>1. \E n \in bad : \A k \in bad : n <= k
      BY <1>2, <2>1, LeastOf
    <3> QED BY <3>1 DEF Min
  <2>3. Min(bad) - 1 \in 0 .. Len(lines)
    <3> DEFINE m == Min(bad)
               n == Len(lines)
    <3>1. m \in 1 .. n /\ n \in Nat
      BY <2>1, <2>2
    <3> HIDE DEF m, n
    <3>2. m - 1 \in 0 .. n
      BY <3>1
    <3> QED BY <3>2 DEF m, n
  <2>4. SubSeq(lines, 1, Min(bad) - 1) \in LineLists
    <3> HIDE DEF bad
    <3> QED BY <2>3, PartOf DEF LineLists
  <2> QED BY <1>2, <2>4 DEF GoodPart
<1> QED BY <1>1, <1>2

Extends(S, R, d) ==
  DOMAIN S = DOMAIN R \cup {d} /\ \A e \in DOMAIN R \ {d} : S[e] = R[e]

LEMMA WithIs ==
  ASSUME NEW R, NEW org, IsRules(R, org), NEW d \in Paths
  PROVE  IsRules(With(R, d), org) /\ Extends(With(R, d), R, d)
<1>1. Node(d) \in Nodes /\ Node(d).root = d
  BY DEF Node, Nodes, LineLists
<1>2. With(R, d) = [e \in DOMAIN R \cup {d} |-> IF e \in DOMAIN R THEN R[e] ELSE Node(e)]
  BY DEF With
<1>3. \A e \in DOMAIN R \cup {d} : With(R, d)[e] \in Nodes
  BY <1>1, <1>2 DEF IsRules
<1>4. DOMAIN With(R, d) = DOMAIN R \cup {d}
  BY <1>2
<1>5. \A e \in DOMAIN R \cup {d} : With(R, d)[e].root = IF e = Root THEN org ELSE e
  BY <1>1, <1>2 DEF IsRules
<1> QED BY <1>2, <1>3, <1>4, <1>5 DEF IsRules, Extends

LEMMA AddLinesIs ==
  ASSUME NEW R, NEW org, IsRules(R, org), NEW d \in Paths, NEW lines \in LineLists
  PROVE  IsRules(AddLines(R, d, lines), org) /\ Extends(AddLines(R, d, lines), R, d)
<1> DEFINE W == With(R, d)
           node == W[d]
           read == [node EXCEPT !.builder = @ \o GoodPart(lines)]
           node2 == IF Parses(lines) THEN [read EXCEPT !.gitignore = read.builder] ELSE read
<1>1. IsRules(W, org) /\ Extends(W, R, d)
  BY WithIs
<1>2. AddLines(R, d, lines) = [W EXCEPT ![d] = node2]
  BY DEF AddLines
<1> HIDE DEF W
<1>3. d \in DOMAIN W /\ node \in Nodes
  BY <1>1 DEF IsRules, Extends
<1>4. read \in Nodes /\ read.root = node.root
  <2> HIDE DEF node
  <2>1. node.builder \in LineLists /\ GoodPart(lines) \in LineLists
    BY <1>3, GoodPartIs DEF Nodes
  <2> DEFINE Lines == [name: Names, allow: BOOLEAN, anchored: BOOLEAN, bad: BOOLEAN]
             all == node.builder \o GoodPart(lines)
  <2>2. all \in LineLists
    <3>1. LineLists = Seq(Lines)
      BY DEF LineLists
    <3> HIDE DEF Lines
    <3> QED BY <2>1, <3>1
  <2> HIDE DEF all
  <2>3. read = [node EXCEPT !.builder = all]
    BY DEF all
  <2> QED BY <1>3, <2>2, <2>3 DEF Nodes
<1>5. node2 \in Nodes /\ node2.root = node.root
  <2> HIDE DEF read
  <2> QED BY <1>4 DEF Nodes
<1> HIDE DEF node2, read
<1>6. IsRules([W EXCEPT ![d] = node2], org)
  BY <1>1, <1>3, <1>5 DEF IsRules
<1>7. Extends([W EXCEPT ![d] = node2], R, d)
  BY <1>1, <1>3 DEF Extends
<1> QED BY <1>2, <1>6, <1>7

LEMMA AddFileIs ==
  ASSUME NEW R, NEW org, IsRules(R, org), NEW file \in IgnoreFiles
  PROVE  IsRules(AddFile(R, file), org) /\ Extends(AddFile(R, file), R, AppliesIn(file))
BY AppliesInPaths, AddLinesIs, WithIs DEF AddFile

LEMMA EmptyIs ==
  ASSUME NEW org \in Paths
  PROVE  IsRules(Empty(org), org) /\ DOMAIN Empty(org) = {Root}
<1>1. Node(org) \in Nodes /\ Node(org).root = org /\ Root \in Paths
  BY DEF Node, Nodes, LineLists, Root, Paths
<1> QED BY <1>1 DEF Empty, IsRules

LEMMA LoadedIs ==
  ASSUME NEW org \in Paths, NEW files \in Seq(IgnoreFiles), NEW order \in Orders(files),
         NEW K \in SUBSET Paths, Root \in K, \A i \in DOMAIN files : AppliesIn(files[i]) \in K
  PROVE  IsRules(Loaded(org, files, order), org) /\ DOMAIN Loaded(org, files, order) \subseteq K
<1> DEFINE n == Len(order)
           V == {R \in UNION {[D -> Nodes] : D \in SUBSET Paths} :
                   IsRules(R, org) /\ DOMAIN R \subseteq K}
           Step(R, k) == AddFile(R, files[order[k]])
           H == [p \in (1 .. n) \X V |-> Step(p[2], p[1])]
           Are(f) == f = [k \in 0 .. n |-> IF k = 0 THEN Empty(org)
                                          ELSE AddFile(f[k - 1], files[order[k]])]
           F == CHOOSE f : Are(f)
<1>1. n \in Nat /\ \A k \in 1 .. n : order[k] \in DOMAIN files /\ files[order[k]] \in IgnoreFiles
  BY DEF Orders
<1>2. ASSUME NEW R, IsRules(R, org), DOMAIN R \subseteq K PROVE R \in V
  <2>1. R \in [DOMAIN R -> Nodes] /\ DOMAIN R \in SUBSET Paths
    BY <1>2 DEF IsRules
  <2> QED BY <1>2, <2>1
<1>3. \A R \in V : IsRules(R, org) /\ DOMAIN R \subseteq K
  OBVIOUS
<1> HIDE DEF V
<1>4. Empty(org) \in V
  BY <1>2, EmptyIs
<1>5. ASSUME NEW k \in 1 .. n, NEW R \in V PROVE Step(R, k) \in V
  <2> DEFINE file == files[order[k]]
  <2>1. file \in IgnoreFiles /\ AppliesIn(file) \in K
    BY <1>1
  <2> HIDE DEF file
  <2>2. IsRules(AddFile(R, file), org) /\ Extends(AddFile(R, file), R, AppliesIn(file))
    BY <1>3, <2>1, AddFileIs
  <2>3. DOMAIN AddFile(R, file) \subseteq K
    BY <1>3, <2>1, <2>2 DEF Extends
  <2>4. AddFile(R, file) \in V
    BY <1>2, <2>2, <2>3
  <2> QED BY <2>4 DEF file
<1>6. Loaded(org, files, order) = F[n]
  BY DEF Loaded
<1>7. \E f : Are(f)
  <2>1. \A k \in 1 .. n, R \in V : H[<<k, R>>] = Step(R, k)
    OBVIOUS
  <2> HIDE DEF H, n, Step
  <2>2. PICK f \in [0 .. n -> V] : Recurs(f, n, Empty(org), H)
    <3>1. \A k \in 1 .. n, R \in V : H[<<k, R>>] \in V
      BY <1>5, <2>1
    <3> QED BY <1>1, <1>4, <3>1, RecursionExists
  <2>3. ASSUME NEW k \in 0 .. n PROVE f[k] = IF k = 0 THEN Empty(org) ELSE Step(f[k - 1], k)
    <3>1. CASE k = 0
      BY <2>2, <3>1 DEF Recurs
    <3>2. CASE k # 0
      <4>1. k \in 1 .. n /\ k - 1 \in 0 .. n
        BY <1>1, <3>2
      <4>2. f[k] = H[<<k, f[k - 1]>>] /\ f[k - 1] \in V
        BY <2>2, <3>2, <4>1 DEF Recurs
      <4> QED BY <2>1, <3>2, <4>1, <4>2
    <3> QED BY <3>1, <3>2
  <2>4. Are(f)
    BY <2>2, <2>3 DEF Step
  <2> QED BY <2>4
<1>8. Are(F)
  <2> HIDE DEF Are
  <2> QED BY <1>7
<1>9. F[0] = Empty(org) /\ \A k \in 1 .. n : F[k] = Step(F[k - 1], k)
  <2> HIDE DEF F
  <2>1. F[0] = Empty(org)
    BY <1>1, <1>8
  <2>2. ASSUME NEW k \in 1 .. n PROVE F[k] = Step(F[k - 1], k)
    <3>1. k \in 0 .. n /\ k # 0
      BY <1>1
    <3> QED BY <1>8, <3>1
  <2> QED BY <2>1, <2>2
<1> HIDE DEF F, Are
<1> DEFINE P == {k \in 0 .. n : F[k] \in V}
<1>10. P = 0 .. n
  <2>1. 0 \in P
    <3>1. 0 \in 0 .. n /\ F[0] \in V
      BY <1>1, <1>4, <1>9
    <3> QED BY <3>1
  <2>2. ASSUME NEW k \in 1 .. n, k - 1 \in P PROVE k \in P
    <3> HIDE DEF Step
    <3> QED BY <1>1, <1>5, <1>9, <2>2
  <2>3. P \in SUBSET (0 .. n)
    OBVIOUS
  <2> HIDE DEF P
  <2> QED BY <1>1, <2>1, <2>2, <2>3, StepByStep
<1>11. F[n] \in V
  BY <1>1, <1>10
<1> QED BY <1>3, <1>6, <1>11

-----------------------------------------------------------------------------
(* Directories above one another.                                          *)
LEMMA UnderIs ==
  ASSUME NEW p \in Paths, NEW q \in Paths, NEW r \in Paths
  PROVE  /\ Under(p, p)
         /\ Under(p, q) /\ Under(q, r) => Under(p, r)
         /\ Under(p, r) /\ Under(q, r) => Under(p, q) \/ Under(q, p)
         /\ Under(p, q) /\ Under(q, p) => p = q
<1>1. Len(p) \in Nat /\ Len(q) \in Nat
  BY DEF Paths
<1>2. /\ Under(p, p)
      /\ Under(p, q) /\ Under(q, r) => Under(p, r)
      /\ Under(p, r) /\ Under(q, r) => Under(p, q) \/ Under(q, p)
  BY <1>1, PrefixOrder DEF Paths, Under
<1>3. ASSUME Under(p, q), Under(q, p) PROVE p = q
  <2>1. Len(p) <= Len(q) /\ Len(q) <= Len(p)
    BY <1>3, PrefixAt DEF Paths, Under
  <2> QED BY <1>1, <1>3, <2>1, PrefixOrder DEF Paths, Under
<1> QED BY <1>2, <1>3

Below(q, c) == Under(q, c) /\ Len(c) = Len(q) + 1

LEMMA BelowIs ==
  ASSUME NEW q \in Paths, NEW c \in Paths, Below(q, c)
  PROVE  /\ Parent(c) = q /\ q # c /\ ~Under(c, q)
         /\ \A r \in Paths : Under(r, c) => r = c \/ Under(r, q)
<1>1. Len(q) \in Nat /\ Len(c) \in Nat /\ Len(c) = Len(q) + 1 /\ IsPrefix(q, c)
  BY DEF Paths, Below, Under
<1>2. Parent(c) = q
  <2>1. q = SubSeq(c, 1, Len(q))
    BY <1>1, AboveIsPart DEF Paths
  <2>2. Len(c) - 1 = Len(q)
    BY <1>1
  <2> QED BY <2>1, <2>2 DEF Parent, Front
<1>3. q # c /\ ~Under(c, q)
  <2>1. q # c
    BY <1>1
  <2> QED BY <2>1, UnderIs DEF Below
<1>4. ASSUME NEW r \in Paths, Under(r, c), r # c PROVE Under(r, q)
  <2>1. Len(r) < Len(c) /\ Len(r) \in Nat
    BY <1>4, Strictly DEF Paths, Under
  <2>2. Len(r) <= Len(q)
    BY <1>1, <2>1
  <2> QED BY <1>1, <1>4, <2>2, PrefixOrder DEF Paths, Under
<1> QED BY <1>2, <1>3, <1>4

LEMMA NextBelow ==
  ASSUME NEW q \in Paths, NEW d \in Paths, Under(q, d), q # d
  PROVE  \E c \in Paths : Below(q, c) /\ Under(c, d)
<1>1. Len(q) \in Nat /\ Len(d) \in Nat /\ Len(q) < Len(d)
  BY Strictly DEF Paths, Under
<1> DEFINE k == Len(q) + 1
           c == SubSeq(d, 1, k)
<1>2. k \in 0 .. Len(d)
  BY <1>1
<1>3. c \in Paths /\ Len(c) = k /\ IsPrefix(c, d)
  BY <1>2, PartOf DEF Paths
<1>4. Under(q, c)
  <2> HIDE DEF c
  <2>1. Len(q) <= Len(c)
    BY <1>1, <1>3
  <2> QED BY <1>3, <2>1, PrefixOrder DEF Paths, Under
<1> QED BY <1>3, <1>4 DEF Below, Under

LEMMA AboveIs ==
  ASSUME origin \in Paths, NEW d \in Paths, Under(origin, d), NEW e
  PROVE  e \in Above(d) <=> e \in Paths /\ Under(origin, e) /\ Under(e, d)
<1>1. Len(origin) \in Nat /\ Len(d) \in Nat /\ Len(origin) <= Len(d)
  BY PrefixAt DEF Paths, Under
<1>2. ASSUME NEW k \in Len(origin) .. Len(d), e = SubSeq(d, 1, k)
      PROVE  e \in Paths /\ Under(origin, e) /\ Under(e, d)
  <2>1. k \in 0 .. Len(d)
    BY <1>1
  <2>2. e \in Paths /\ Len(e) = k /\ IsPrefix(e, d)
    BY <1>2, <2>1, PartOf DEF Paths
  <2>3. Len(origin) <= Len(e)
    BY <2>2
  <2> QED BY <2>2, <2>3, PrefixOrder DEF Paths, Under
<1>3. ASSUME e \in Paths, Under(origin, e), Under(e, d)
      PROVE  Len(e) \in Len(origin) .. Len(d) /\ e = SubSeq(d, 1, Len(e))
  <2>1. Len(e) \in 0 .. Len(d) /\ e = SubSeq(d, 1, Len(e))
    BY <1>3, AboveIsPart DEF Paths, Under
  <2>2. Len(origin) <= Len(e)
    BY <1>3, PrefixAt DEF Paths, Under
  <2> QED BY <1>1, <2>1, <2>2
<1> QED BY <1>2, <1>3 DEF Above

(* The directories of the project, of which each has those above it.       *)
Of(d) == d \in tree.dirs \cup {origin} /\ Under(origin, d)

LEMMA OfClosed ==
  ASSUME tree \in Trees, origin \in Paths, NEW d, Of(d), NEW e \in Paths,
         Under(origin, e), Under(e, d)
  PROVE  d \in Paths /\ Of(e)
<1>1. tree.dirs \subseteq Paths /\ \A x \in tree.dirs : Len(x) > 1 => Parent(x) \in tree.dirs
  BY IgnoresAssumption DEF IgnoresAssumption
<1>2. d \in Paths
  BY <1>1 DEF Of
<1>3. CASE d = origin
  BY <1>2, <1>3, UnderIs DEF Of
<1>4. CASE d # origin /\ Len(e) = 0
  <2>1. Len(origin) <= Len(e) /\ Len(origin) \in Nat
    BY PrefixAt DEF Paths, Under
  <2>2. Len(origin) = Len(e)
    BY <1>4, <2>1
  <2>3. e = origin
    BY <2>2, PrefixOrder DEF Paths, Under
  <2> QED BY <1>2, <2>3 DEF Of
<1>5. CASE d # origin /\ Len(e) # 0
  <2> DEFINE n == Len(d)
             m == n - 1
             Part(j) == SubSeq(d, 1, n - j)
             P == {j \in 0 .. m : Part(j) \in tree.dirs}
  <2>1. Len(e) \in 0 .. n /\ e = SubSeq(d, 1, Len(e)) /\ n \in Nat /\ Len(e) \in Nat
    BY <1>2, AboveIsPart DEF Paths, Under
  <2>2. n >= 1 /\ m \in Nat
    BY <1>5, <2>1
  <2>3. 0 \in P
    <3>1. Part(0) = d
      <4>1. n - 0 = n /\ SubSeq(d, 1, n) = d
        BY <1>2, <2>1 DEF Paths
      <4> QED BY <4>1
    <3>2. Part(0) \in tree.dirs /\ 0 \in 0 .. m
      <4> HIDE DEF m, Part
      <4> QED BY <1>5, <2>2, <3>1 DEF Of
    <3> QED BY <3>2
  <2>4. ASSUME NEW j \in 1 .. m, j - 1 \in P PROVE j \in P
    <3>1. j \in 0 .. m /\ n - (j - 1) \in 0 .. n /\ n - (j - 1) > 1 /\ n - j \in 0 .. n
          /\ n - (j - 1) - 1 = n - j
      BY <2>1, <2>2
    <3> DEFINE x == Part(j - 1)
    <3>2. x \in tree.dirs /\ x \in Paths /\ Len(x) = n - (j - 1)
          /\ \A i \in 1 .. n - (j - 1) : x[i] = d[i]
      <4>1. x \in tree.dirs
        BY <2>4
      <4> QED BY <1>2, <3>1, <4>1, PartOf DEF Paths
    <3>3. Part(j) \in Paths /\ Len(Part(j)) = n - j /\ \A i \in 1 .. n - j : Part(j)[i] = d[i]
      BY <1>2, <3>1, PartOf DEF Paths
    <3>4. Parent(x) = SubSeq(x, 1, n - j)
      <4> HIDE DEF x, n
      <4> QED BY <3>1, <3>2 DEF Parent, Front
    <3>5. SubSeq(x, 1, n - j) = Part(j)
      <4> DEFINE y == SubSeq(x, 1, n - j)
                 z == Part(j)
      <4>1. n - j \in 0 .. Len(x)
        BY <2>1, <3>1, <3>2
      <4>2. y \in Paths /\ Len(y) = n - j /\ \A i \in 1 .. n - j : y[i] = x[i]
        <5> HIDE DEF x, n
        <5> QED BY <3>2, <4>1, PartOf DEF Paths
      <4>3. \A i \in 1 .. n - j : i \in 1 .. n - (j - 1)
        BY <2>1
      <4> HIDE DEF y, z, x, n
      <4>4. z \in Paths /\ Len(z) = n - j /\ \A i \in 1 .. n - j : z[i] = y[i]
        BY <3>2, <3>3, <4>2, <4>3 DEF z
      <4>5. y = z
        BY <4>2, <4>4, SeqEqual DEF Paths
      <4> QED BY <4>5 DEF y, z
    <3>6. Part(j) \in tree.dirs
      <4> HIDE DEF x, Part, n
      <4>1. Len(x) > 1 /\ x \in tree.dirs
        BY <3>1, <3>2
      <4> QED BY <1>1, <3>4, <3>5, <4>1
    <3> QED BY <3>1, <3>6
  <2>5. P = 0 .. m
    <3>1. P \in SUBSET (0 .. m)
      OBVIOUS
    <3> HIDE DEF P, m
    <3> QED BY <2>2, <2>3, <2>4, <3>1, StepByStep
  <2>6. n - Len(e) \in 0 .. m /\ n - (n - Len(e)) = Len(e)
    BY <1>5, <2>1, <2>2
  <2>7. Part(n - Len(e)) \in tree.dirs
    <3> HIDE DEF m, n, Part
    <3> QED BY <2>5, <2>6
  <2>8. e \in tree.dirs
    BY <2>1, <2>6, <2>7
  <2> QED BY <1>2, <2>8 DEF Of
<1> QED BY <1>2, <1>3, <1>4, <1>5

(* The stack, as a set.                                                    *)
Pend(s) == {s[i] : i \in DOMAIN s}
Loose(s) == \A i, j \in DOMAIN s : i # j => ~Under(s[i], s[j])

LEMMA StackTop ==
  ASSUME NEW s \in Seq(Paths), s # <<>>, Loose(s)
  PROVE  /\ Last(s) \in Paths /\ Front(s) \in Seq(Paths) /\ Loose(Front(s))
         /\ Pend(s) = Pend(Front(s)) \cup {Last(s)}
         /\ \A x \in Pend(Front(s)) : ~Under(x, Last(s)) /\ ~Under(Last(s), x)
<1> DEFINE n == Len(s)
           f == Front(s)
<1>1. n \in Nat /\ n >= 1 /\ n - 1 \in 0 .. n /\ DOMAIN s = 1 .. n /\ n \in 1 .. n
  <2>1. n \in Nat /\ n # 0 /\ DOMAIN s = 1 .. n
    OBVIOUS
  <2> HIDE DEF n
  <2> QED BY <2>1
<1>2. f \in Seq(Paths) /\ Len(f) = n - 1 /\ \A i \in 1 .. n - 1 : f[i] = s[i]
  <2>1. f = SubSeq(s, 1, n - 1)
    BY DEF Front
  <2> HIDE DEF n, f
  <2> QED BY <1>1, <2>1, PartOf DEF n
<1>3. Last(s) = s[n] /\ s[n] \in Paths
  BY <1>1 DEF Last
<1> HIDE DEF n, f
<1>4. DOMAIN f = 1 .. n - 1
  BY <1>1, <1>2
<1>5. Loose(f)
  BY <1>1, <1>2, <1>4 DEF Loose
<1>6. Pend(s) = Pend(f) \cup {Last(s)}
  <2>1. ASSUME NEW i \in 1 .. n PROVE s[i] \in Pend(f) \cup {Last(s)}
    <3>1. CASE i = n
      BY <1>3, <3>1
    <3>2. CASE i # n
      <4>1. i \in 1 .. n - 1
        BY <1>1, <3>2
      <4> QED BY <1>2, <1>4, <4>1 DEF Pend
    <3> QED BY <3>1, <3>2
  <2>2. ASSUME NEW i \in 1 .. n - 1 PROVE f[i] \in Pend(s)
    <3>1. i \in 1 .. n
      BY <1>1
    <3> QED BY <1>1, <1>2, <3>1 DEF Pend
  <2> QED BY <1>1, <1>3, <1>4, <2>1, <2>2 DEF Pend
<1>7. ASSUME NEW i \in 1 .. n - 1 PROVE ~Under(f[i], Last(s)) /\ ~Under(Last(s), f[i])
  <2>1. i \in 1 .. n /\ i # n
    BY <1>1
  <2> QED BY <1>1, <1>2, <1>3, <2>1 DEF Loose
<1> QED BY <1>2, <1>3, <1>4, <1>5, <1>6, <1>7 DEF f, Pend

LEMMA StackGrows ==
  ASSUME NEW s \in Seq(Paths), NEW t \in Seq(Paths), Loose(s), Loose(t),
         \A x \in Pend(s), y \in Pend(t) : ~Under(x, y) /\ ~Under(y, x)
  PROVE  s \o t \in Seq(Paths) /\ Loose(s \o t) /\ Pend(s \o t) = Pend(s) \cup Pend(t)
<1> DEFINE u == s \o t
           m == Len(s)
           n == Len(t)
<1>1. /\ m \in Nat /\ n \in Nat /\ u \in Seq(Paths) /\ Len(u) = m + n
      /\ DOMAIN s = 1 .. m /\ DOMAIN t = 1 .. n /\ DOMAIN u = 1 .. m + n
      /\ \A i \in 1 .. m + n : u[i] = IF i <= m THEN s[i] ELSE t[i - m]
  OBVIOUS
<1> HIDE DEF u, m, n
<1>2. \A i \in 1 .. m + n : (i <= m => i \in 1 .. m) /\ (~(i <= m) => i - m \in 1 .. n)
  BY <1>1
<1>3. Loose(u)
  <2> SUFFICES ASSUME NEW i \in 1 .. m + n, NEW j \in 1 .. m + n, i # j PROVE ~Under(u[i], u[j])
    BY <1>1 DEF Loose
  <2>1. CASE i <= m /\ j <= m
    BY <1>1, <1>2, <2>1 DEF Loose
  <2>2. CASE ~(i <= m) /\ ~(j <= m)
    <3>1. i - m # j - m
      BY <1>1
    <3> QED BY <1>1, <1>2, <2>2, <3>1 DEF Loose
  <2>3. CASE i <= m /\ ~(j <= m)
    <3>1. u[i] \in Pend(s) /\ u[j] \in Pend(t)
      BY <1>1, <1>2, <2>3 DEF Pend
    <3> QED BY <3>1
  <2>4. CASE ~(i <= m) /\ j <= m
    <3>1. u[i] \in Pend(t) /\ u[j] \in Pend(s)
      BY <1>1, <1>2, <2>4 DEF Pend
    <3> QED BY <3>1
  <2> QED BY <2>1, <2>2, <2>3, <2>4
<1>4. Pend(u) = Pend(s) \cup Pend(t)
  <2>1. ASSUME NEW i \in 1 .. m + n PROVE u[i] \in Pend(s) \cup Pend(t)
    BY <1>1, <1>2 DEF Pend
  <2>2. ASSUME NEW i \in 1 .. m PROVE s[i] \in Pend(u)
    <3>1. i \in 1 .. m + n /\ i <= m
      BY <1>1
    <3> QED BY <1>1, <3>1 DEF Pend
  <2>3. ASSUME NEW i \in 1 .. n PROVE t[i] \in Pend(u)
    <3> DEFINE k == i + m
    <3>1. k \in 1 .. m + n /\ ~(k <= m) /\ k - m = i
      BY <1>1
    <3> HIDE DEF k
    <3>2. u[k] = t[i]
      BY <1>1, <3>1
    <3> QED BY <1>1, <3>1, <3>2 DEF Pend
  <2> QED BY <1>1, <2>1, <2>2, <2>3 DEF Pend
<1> QED BY <1>1, <1>3, <1>4 DEF u

(* A way to number n things with 1 to n numbers none twice.                *)
LEMMA OrderIs ==
  ASSUME NEW K \in SUBSET Paths, IsFiniteSet(K), NEW s \in AnyOrder(K)
  PROVE  /\ s \in Seq(Paths) /\ Pend(s) = K
         /\ \A i, j \in DOMAIN s : i # j => s[i] # s[j]
<1> DEFINE n == Cardinality(K)
<1>1. n \in Nat
  BY FS_CardinalityType
<1>2. s \in [1 .. n -> K] /\ ToSet(s) = K
  BY DEF AnyOrder
<1>3. Pend(s) = K /\ DOMAIN s = 1 .. n
  BY <1>2 DEF Pend, ToSet
<1>4. s \in Seq(Paths)
  BY <1>1, <1>2
<1>5. ASSUME NEW i \in 1 .. n, NEW j \in 1 .. n, i # j, s[i] = s[j] PROVE FALSE
  <2> DEFINE I == (1 .. n) \ {j}
             t == [x \in I |-> s[x]]
  <2>1. IsFiniteSet(I) /\ Cardinality(I) = n - 1
    <3>1. IsFiniteSet(1 .. n) /\ Cardinality(1 .. n) = n
      BY <1>1, FS_Interval
    <3> QED BY <3>1, FS_RemoveElement
  <2>2. t \in Surjection(I, K)
    <3>1. ASSUME NEW x \in K PROVE \E k \in I : t[k] = x
      <4>1. PICK k \in 1 .. n : s[k] = x
        BY <1>3 DEF Pend
      <4>2. CASE k = j
        BY <1>5, <4>1, <4>2
      <4>3. CASE k # j
        BY <4>1, <4>3
      <4> QED BY <4>2, <4>3
    <3>2. t \in [I -> K]
      BY <1>2
    <3> QED BY <3>1, <3>2 DEF Surjection
  <2>3. n <= n - 1
    <3> HIDE DEF n, t, I
    <3> QED BY <2>1, <2>2, FS_Surjection DEF n
  <2> QED BY <1>1, <2>3
<1> QED BY <1>3, <1>4, <1>5

(* What is assumed of the disk, the options and the events.                *)
LEMMA TreeIs ==
  ASSUME NEW t \in Trees
  PROVE  /\ t.dirs \subseteq Paths /\ IsFiniteSet(t.dirs) /\ t.workdir \in Paths
         /\ t.workdir # "none" /\ \A d \in t.dirs : d # "none"
         /\ \A at \in DOMAIN t.files : t.files[at] \in LineLists
         /\ t.excludes \in LineLists /\ t.info \in LineLists /\ t.bzrignore \in LineLists
         /\ t.vcsDirs \in LineLists /\ t.env.config \in LineLists
         /\ t.env.git \in Seq(LineLists) /\ t.env.bzr \in Seq(LineLists)
         /\ t.env.app \in Seq(LineLists)
BY IgnoresAssumption DEF IgnoresAssumption

LEMMA OptionsAre ==
  ASSUME NEW c \in CliOptions
  PROVE  c.override \in Paths \cup {"none"} /\ c.ignoreFiles \in Seq(LineLists)
BY IgnoresAssumption DEF IgnoresAssumption

LEMMA EventsAre ==
  ASSUME NEW e \in FsEvents
  PROVE  e.paths \in Seq([path: Paths, dir: BOOLEAN])
BY IgnoresAssumption DEF IgnoresAssumption

LEMMA FileIs ==
  ASSUME NEW lines \in LineLists, NEW in \in Places, NEW to \in {"none", "git", "hg", "bzr"}
  PROVE  /\ File(lines, in, to) \in IgnoreFiles
         /\ Discover(lines, in, to) \in Seq(IgnoreFiles)
         /\ lines # <<>> => Discover(lines, in, to) = <<File(lines, in, to)>>
<1>1. File(lines, in, to) \in IgnoreFiles
  BY DEF File, IgnoreFiles
<1> DEFINE f == File(lines, in, to)
<1> HIDE DEF f
<1>2. f \in IgnoreFiles /\ Discover(lines, in, to) = IF lines = <<>> THEN <<>> ELSE <<f>>
  BY <1>1 DEF f, Discover
<1> HIDE DEF IgnoreFiles
<1>3. <<f>> \in Seq(IgnoreFiles) /\ <<>> \in Seq(IgnoreFiles)
  BY <1>2
<1> QED BY <1>1, <1>2, <1>3 DEF f

LEMMA FirstOfIs ==
  ASSUME NEW tries \in Seq(LineLists), NEW to \in {"none", "git", "hg", "bzr"}
  PROVE  FirstOf(tries, to) \in Seq(IgnoreFiles)
<1> DEFINE there == {i \in DOMAIN tries : tries[i] # <<>>}
           m == Min(there)
           f == File(tries[m], "none", to)
<1>1. FirstOf(tries, to) = IF there = {} THEN <<>> ELSE <<f>>
  BY DEF FirstOf
<1>2. CASE there = {}
  BY <1>1, <1>2
<1>3. CASE there # {}
  <2>1. there \in SUBSET Nat /\ there \subseteq DOMAIN tries
    OBVIOUS
  <2>2. m \in there
    <3> HIDE DEF there
    <3>1. \E n \in there : \A k \in there : n <= k
      BY <1>3, <2>1, LeastOf
    <3> QED BY <3>1 DEF Min
  <2>3. tries[m] \in LineLists
    <3> HIDE DEF m
    <3> QED BY <2>2
  <2>4. f \in IgnoreFiles
    <3> HIDE DEF m
    <3> QED BY <2>3, FileIs DEF Places
  <2> HIDE DEF f, IgnoreFiles, there
  <2> QED BY <1>1, <1>3, <2>4
<1> QED BY <1>2, <1>3

LEMMA ExplicitIs ==
  ASSUME opts \in CliOptions, NEW in \in Places
  PROVE  Explicit(in) \in Seq(IgnoreFiles)
<1> DEFINE s == opts.ignoreFiles
<1>1. s \in Seq(LineLists)
  BY OptionsAre
<1> HIDE DEF s
<1>2. \A i \in 1 .. Len(s) : File(s[i], in, "none") \in IgnoreFiles
  BY <1>1, FileIs
<1> HIDE DEF IgnoreFiles
<1>3. [i \in 1 .. Len(s) |-> File(s[i], in, "none")] \in Seq(IgnoreFiles)
  BY <1>1, <1>2
<1> QED BY <1>1, <1>3 DEF s, Explicit

LEMMA EffectiveIs ==
  ASSUME tree \in Trees, opts \in CliOptions, found \in Seq(IgnoreFiles)
  PROVE  Effective \in Seq(IgnoreFiles)
<1> DEFINE git == Discover(tree.env.config, "none", "git")
           env == FromEnvironment
<1>1. env \in Seq(IgnoreFiles)
  <2>1. /\ git \in Seq(IgnoreFiles) /\ FirstOf(tree.env.git, "git") \in Seq(IgnoreFiles)
        /\ FirstOf(tree.env.bzr, "bzr") \in Seq(IgnoreFiles)
        /\ FirstOf(tree.env.app, "none") \in Seq(IgnoreFiles)
    BY TreeIs, FileIs, FirstOfIs DEF Places
  <2> HIDE DEF git
  <2> HIDE DEF IgnoreFiles
  <2> QED BY <2>1 DEF FromEnvironment, git
<1>2. Explicit("none") \in Seq(IgnoreFiles)
  BY ExplicitIs DEF Places
<1> HIDE DEF env, IgnoreFiles
<1> DEFINE project == IF opts.noProject THEN <<>>
                      ELSE IF VcsTypes = {} THEN found
                      ELSE Only(found, {i \in DOMAIN found : OfVcs(found[i])})
           overrides == VcsTypes # {} /\ \E i \in DOMAIN project : GitGlobal(project[i])
           mine == {i \in DOMAIN env : OfVcs(env[i]) /\ ~(overrides /\ GitGlobal(env[i]))}
           global == IF opts.noGlobal THEN <<>> ELSE Only(env, mine)
           all == project \o global \o Explicit("none")
           Left(f) == /\ opts.noProject => f.in = "none" \/ ~Under(origin, f.in)
                      /\ opts.noGlobal => f.in # "none"
                      /\ opts.noVcs => f.to = "none"
<1>3. project \in Seq(IgnoreFiles)
  BY OnlyIs
<1>4. global \in Seq(IgnoreFiles)
  <2> HIDE DEF mine
  <2> QED BY <1>1, OnlyIs
<1>5. Effective = Only(all, {i \in DOMAIN all : Left(all[i])})
  BY DEF Effective, env
<1> HIDE DEF project, global
<1>6. all \in Seq(IgnoreFiles)
  BY <1>2, <1>3, <1>4
<1> HIDE DEF all, Left
<1> DEFINE left == {i \in DOMAIN all : Left(all[i])}
<1> HIDE DEF left
<1>7. Only(all, left) \in Seq(IgnoreFiles)
  BY <1>6, OnlyIs
<1> QED BY <1>5, <1>7 DEF left

LEMMA FileAtIs ==
  ASSUME tree \in Trees, NEW d, NEW x
  PROVE  FileAt(d, x) \in LineLists
<1>1. <<>> \in LineLists
  BY DEF LineLists
<1> QED BY <1>1, TreeIs DEF FileAt

LEMMA OriginIs ==
  ASSUME tree \in Trees, opts \in CliOptions
  PROVE  ProjectOrigin({}) \in Paths /\ ProjectOrigin({}) # "none"
<1> DEFINE w == tree.workdir
<1>1. w \in Paths /\ w # "none" /\ opts.override \in Paths \cup {"none"}
  BY TreeIs, OptionsAre
<1>2. CommonPrefix({w}) = w
  <2>1. (CHOOSE p \in {w} : TRUE) = w
    OBVIOUS
  <2> HIDE DEF w
  <2> DEFINE n == Len(w)
             shared == {k \in 0 .. n : Under(SubSeq(w, 1, k), w)}
  <2>2. n \in Nat /\ n \in 0 .. n /\ SubSeq(w, 1, n) = w
    <3>1. n \in Nat /\ SubSeq(w, 1, n) = w
      BY <1>1 DEF Paths
    <3> HIDE DEF n
    <3> QED BY <3>1
  <2>3. CommonPrefix({w}) = SubSeq(w, 1, Max(shared))
    <3>1. {k \in 0 .. n : \A p \in {w} : Under(SubSeq(w, 1, k), p)} = shared
      OBVIOUS
    <3> QED BY <2>1, <3>1 DEF CommonPrefix
  <2>4. Max(shared) = n
    <3> HIDE DEF n
    <3>1. n \in shared /\ shared \in SUBSET (0 .. n)
      BY <1>1, <2>2, UnderIs
    <3> HIDE DEF shared
    <3>2. Max(shared) \in 0 .. n /\ n <= Max(shared)
      BY <2>2, <3>1, GreatestOf
    <3> QED BY <2>2, <3>2
  <2> QED BY <2>2, <2>3, <2>4
<1>3. ProjectOrigin({}) = IF opts.override # "none" THEN opts.override ELSE CommonPrefix({w})
  <2>1. UNION {Origins(p) : p \in {}} = {}
    OBVIOUS
  <2> QED BY <2>1 DEF ProjectOrigin
<1> HIDE DEF w
<1> QED BY <1>1, <1>2, <1>3

(* What is so whether or not anything failed.                              *)
Settled ==
  /\ tree \in Trees /\ opts \in CliOptions /\ ignoreErrors \in Nat
  /\ found \in Seq(IgnoreFiles) /\ origin \in Paths
  /\ ignoreStep # "start" => origin # "none"
  /\ ignoreStep \in {"start", "tour"} => toSkip = {}
  /\ ignoreStep \in {"visit", "look", "check", "done"} => IsRules(rules, origin)
  /\ ignoreStep \in {"visit", "look"} => toVisit \in Seq(Paths)
  /\ ignoreStep = "look" => looking \in [dir: Paths, kind: 1 .. 3]
Answered ==
  ignoreStep = "done" =>
    /\ checked.event \in FsEvents
    /\ checked.pass = Passes(Globs, origin, rules, checked.event, checked.program)

LEMMA SettledAtFirst ==
  ASSUME IgnoresInit
  PROVE  Settled /\ Answered
<1>1. /\ tree \in Trees /\ opts \in CliOptions /\ origin = Root /\ toSkip = {} /\ found = <<>>
      /\ ignoreErrors = 0 /\ ignoreStep = "start"
  BY DEF IgnoresInit, IgnoresIdle
<1>2. Root \in Paths
  BY DEF Root, Paths
<1> HIDE DEF Paths, IgnoreFiles
<1>3. found \in Seq(IgnoreFiles)
  BY <1>1
<1> QED BY <1>1, <1>2, <1>3 DEF Settled, Answered

TourFiles == {f \in IgnoreFiles : f.in \in {"none", origin}}

(* The tour begins with rules of the origin and of the root only.          *)
LEMMA TourBegins ==
  ASSUME Settled, BeginTour, ~NewFails(found') /\ ignoreErrors' = ignoreErrors
  PROVE  /\ found' \in Seq(IgnoreFiles) /\ IsRules(rules', origin)
         /\ DOMAIN rules' \subseteq {Root, origin}
         /\ begun' = [files |-> Len(found'), rules |-> rules']
         /\ toVisit' = <<origin>> /\ ignoreStep' = "visit" /\ UNCHANGED <<given, toSkip>>
<1>1. /\ tree \in Trees /\ opts \in CliOptions /\ origin \in Paths /\ origin # "none"
      /\ ignoreErrors \in Nat /\ ignoreErrors # ignoreErrors + 1
  BY DEF Settled, BeginTour
<1>2. /\ found' = Explicit(origin) \o Discover(tree.excludes, "none", "git")
                   \o Discover(tree.bzrignore, origin, "bzr") \o Discover(tree.info, origin, "git")
      /\ begun' = [files |-> Len(found'), rules |-> rules']
      /\ toVisit' = <<origin>> /\ ignoreStep' = "visit" /\ UNCHANGED <<given, toSkip>>
      /\ \E order \in Orders(found') :
           rules' = AddLines(Loaded(origin, found', order), origin, tree.vcsDirs)
  BY <1>1 DEF BeginTour, given
<1>3. found' \in Seq(TourFiles)
  <2>1. \A lines \in LineLists, in \in {"none", origin}, to \in {"none", "git", "hg", "bzr"} :
          File(lines, in, to) \in TourFiles
    <3> SUFFICES ASSUME NEW lines \in LineLists, NEW in \in {"none", origin},
                        NEW to \in {"none", "git", "hg", "bzr"}
                 PROVE  File(lines, in, to) \in TourFiles
      OBVIOUS
    <3>1. in \in Places
      BY <1>1 DEF Places
    <3>2. File(lines, in, to).in = in
      BY DEF File
    <3> QED BY <3>1, <3>2, FileIs DEF TourFiles
  <2>2. \A lines \in LineLists, in \in {"none", origin}, to \in {"none", "git", "hg", "bzr"} :
          Discover(lines, in, to) \in Seq(TourFiles)
    <3> SUFFICES ASSUME NEW lines \in LineLists, NEW in \in {"none", origin},
                        NEW to \in {"none", "git", "hg", "bzr"}
                 PROVE  Discover(lines, in, to) \in Seq(TourFiles)
      OBVIOUS
    <3> DEFINE f == File(lines, in, to)
    <3>1. Discover(lines, in, to) = IF lines = <<>> THEN <<>> ELSE <<f>>
      BY DEF Discover
    <3>2. f \in TourFiles
      BY <2>1
    <3> HIDE DEF f
    <3> QED BY <3>1, <3>2
  <2>3. Explicit(origin) \in Seq(TourFiles)
    <3> DEFINE s == opts.ignoreFiles
    <3>1. s \in Seq(LineLists)
      BY <1>1, OptionsAre
    <3> HIDE DEF s
    <3>2. \A i \in 1 .. Len(s) : File(s[i], origin, "none") \in TourFiles
      BY <2>1, <3>1
    <3>3. [i \in 1 .. Len(s) |-> File(s[i], origin, "none")] \in Seq(TourFiles)
      BY <3>1, <3>2
    <3> QED BY <3>1, <3>3 DEF s, Explicit
  <2>4. /\ Discover(tree.excludes, "none", "git") \in Seq(TourFiles)
        /\ Discover(tree.bzrignore, origin, "bzr") \in Seq(TourFiles)
        /\ Discover(tree.info, origin, "git") \in Seq(TourFiles)
    BY <1>1, <2>2, TreeIs
  <2> QED BY <1>2, <2>3, <2>4
<1>4. found' \in Seq(IgnoreFiles) /\ \A i \in DOMAIN found' : AppliesIn(found'[i]) \in {Root, origin}
  <2>1. TourFiles \subseteq IgnoreFiles
    BY DEF TourFiles
  <2> HIDE DEF IgnoreFiles
  <2>2. found' \in Seq(IgnoreFiles) /\ \A i \in DOMAIN found' : found'[i] \in TourFiles
    BY <1>3, <2>1
  <2> QED BY <2>2 DEF TourFiles, AppliesIn
<1>5. PICK order \in Orders(found') :
        rules' = AddLines(Loaded(origin, found', order), origin, tree.vcsDirs)
  BY <1>2
<1> DEFINE R == Loaded(origin, found', order)
           K == {Root, origin}
<1>6. IsRules(R, origin) /\ DOMAIN R \subseteq K
  <2>1. K \in SUBSET Paths /\ Root \in K
    BY <1>1 DEF Root, Paths
  <2> HIDE DEF K
  <2> QED BY <1>1, <1>4, <2>1, LoadedIs DEF K
<1>7. IsRules(rules', origin) /\ Extends(rules', R, origin)
  <2> HIDE DEF R
  <2>1. tree.vcsDirs \in LineLists
    BY <1>1, TreeIs
  <2> QED BY <1>1, <1>5, <1>6, <2>1, AddLinesIs DEF R
<1>8. DOMAIN rules' \subseteq {Root, origin}
  BY <1>6, <1>7 DEF Extends
<1> QED BY <1>2, <1>4, <1>7, <1>8

(* The files that the tour begins with are files, also when it fails.      *)
LEMMA TourFound ==
  ASSUME Settled, BeginTour
  PROVE  found' \in Seq(IgnoreFiles)
<1>1. /\ tree \in Trees /\ opts \in CliOptions /\ origin \in Places
      /\ found' = Explicit(origin) \o Discover(tree.excludes, "none", "git")
                   \o Discover(tree.bzrignore, origin, "bzr") \o Discover(tree.info, origin, "git")
  BY DEF Settled, BeginTour, Places
<1>2. /\ Discover(tree.excludes, "none", "git") \in Seq(IgnoreFiles)
      /\ Discover(tree.bzrignore, origin, "bzr") \in Seq(IgnoreFiles)
      /\ Discover(tree.info, origin, "git") \in Seq(IgnoreFiles)
      /\ Explicit(origin) \in Seq(IgnoreFiles)
  BY <1>1, TreeIs, FileIs, ExplicitIs DEF Places
<1> HIDE DEF IgnoreFiles
<1> QED BY <1>1, <1>2

LEMMA SettledByBeginTour ==
  ASSUME Settled, Answered, BeginTour
  PROVE  Settled' /\ Answered'
<1>1. CASE ~NewFails(found') /\ ignoreErrors' = ignoreErrors
  <2>1. <<origin>> \in Seq(Paths)
    <3> HIDE DEF Paths
    <3> QED BY DEF Settled
  <2> HIDE DEF IgnoreFiles, Paths
  <2> QED BY <1>1, <2>1, TourBegins DEF Settled, Answered, given, BeginTour
<1>2. CASE ~(~NewFails(found') /\ ignoreErrors' = ignoreErrors)
  <2>1. ignoreErrors' = ignoreErrors + 1 /\ ignoreStep' = "select" /\ UNCHANGED given
        /\ ignoreStep = "tour"
    BY <1>2 DEF BeginTour
  <2> QED BY <2>1, TourFound DEF Settled, Answered, given
<1> QED BY <1>1, <1>2

LEMMA OnlyPaths ==
  ASSUME NEW s \in Seq(Paths), NEW W
  PROVE  Only(s, W) \in Seq(Paths)
BY OnlyIs DEF Paths

LEMMA SettledByVisit ==
  ASSUME Settled, Answered, Visit
  PROVE  Settled' /\ Answered'
<1> DEFINE path == Last(toVisit)
           rest == Front(toVisit)
           children == {c \in Children(path) : ~MustSkip(c)}
           kept == {c \in children : CheckDir(rules, c)}
<1>1. ignoreStep = "visit" /\ toVisit \in Seq(Paths) /\ toVisit # <<>> /\ tree \in Trees
  BY DEF Settled, Visit, Visiting
<1>2. path \in Paths /\ rest \in Seq(Paths)
  <2> DEFINE n == Len(toVisit)
  <2>1. n \in Nat /\ n # 0
    BY <1>1
  <2> HIDE DEF n
  <2>2. n - 1 \in 0 .. n /\ n \in 1 .. n
    BY <2>1
  <2>3. path = toVisit[n] /\ rest = SubSeq(toVisit, 1, n - 1)
    BY DEF Last, Front, n
  <2> QED BY <1>1, <2>2, <2>3, PartOf DEF n
<1>3. UNCHANGED <<given, found, rules, begun, checked>>
  BY DEF Visit, Visiting
<1>4. \A K \in SUBSET children : \A order \in AnyOrder(K) : rest \o order \in Seq(Paths)
  <2> SUFFICES ASSUME NEW K \in SUBSET children, NEW order \in AnyOrder(K)
               PROVE  rest \o order \in Seq(Paths)
    OBVIOUS
  <2>1. K \subseteq tree.dirs /\ tree.dirs \subseteq Paths /\ IsFiniteSet(tree.dirs)
    BY <1>1, TreeIs DEF Children
  <2>2. K \in SUBSET Paths /\ IsFiniteSet(K)
    BY <2>1, FS_Subset
  <2>3. order \in Seq(Paths)
    BY <2>2, OrderIs
  <2> HIDE DEF rest, Paths
  <2> QED BY <1>2, <2>3
<1>5. \/ Pass(rest) /\ UNCHANGED ignoreErrors
      \/ ignoreStep' = "panic" /\ UNCHANGED ignoreErrors
      \/ ReadDir(path, rest)
      \/ Skip(path, rest) /\ UNCHANGED ignoreErrors
  BY DEF Visit, Visiting
<1> HIDE DEF path, rest
<1>6. /\ ignoreErrors' \in Nat
      /\ \/ ignoreStep' = "panic"
         \/ ignoreStep' = "visit" /\ toVisit' \in Seq(Paths)
         \/ /\ ignoreStep' = "look" /\ toVisit' \in Seq(Paths)
            /\ looking' \in [dir: Paths, kind: 1 .. 3]
  <2>1. CASE Pass(rest) /\ UNCHANGED ignoreErrors
    BY <1>2, <2>1 DEF Pass, Settled
  <2>2. CASE ignoreStep' = "panic" /\ UNCHANGED ignoreErrors
    BY <2>2 DEF Settled
  <2>3. CASE Skip(path, rest) /\ UNCHANGED ignoreErrors
    BY <1>2, <2>3, OnlyPaths DEF Skip, Settled
  <2>4. CASE ReadDir(path, rest)
    <3>1. CASE /\ \E order \in AnyOrder(kept) : toVisit' = rest \o order
               /\ looking' = [dir |-> path, kind |-> 1] /\ ignoreStep' = "look"
               /\ UNCHANGED ignoreErrors
      <4>1. toVisit' \in Seq(Paths)
        <5>1. kept \in SUBSET children
          OBVIOUS
        <5> HIDE DEF kept, children
        <5> QED BY <1>4, <3>1, <5>1
      <4> QED BY <1>2, <3>1, <4>1 DEF Settled
    <3>2. CASE /\ ignoreErrors' = ignoreErrors + 1 /\ ignoreStep' = "visit"
               /\ \E part \in SUBSET children : \E order \in AnyOrder(part \cap kept) :
                    toVisit' = rest \o order
      <4>1. toVisit' \in Seq(Paths)
        <5>1. \A part \in SUBSET children : part \cap kept \in SUBSET children
          OBVIOUS
        <5> HIDE DEF kept, children
        <5> QED BY <1>4, <3>2, <5>1
      <4> QED BY <3>2, <4>1 DEF Settled
    <3> QED BY <2>4, <3>1, <3>2 DEF ReadDir
  <2> QED BY <1>5, <2>1, <2>2, <2>3, <2>4
<1> HIDE DEF Paths, IgnoreFiles
<1> QED BY <1>1, <1>3, <1>6 DEF Settled, Answered, given

(* What is found in a directory on the way, and the rules with it.         *)
LEMMA LookIs ==
  ASSUME Settled, Look
  PROVE  /\ found' \in Seq(IgnoreFiles) /\ IsRules(rules', origin) /\ ignoreErrors' \in Nat
         /\ rules' = rules \/ \E d \in {looking.dir, Root} : Extends(rules', rules, d)
<1> DEFINE q == looking.dir
           name == Kinds[looking.kind]
           lines == FileAt(q, name)
           file == Discover(lines, q, To(name))
           one == File(lines, q, To(name))
<1>1. /\ tree \in Trees /\ q \in Paths /\ IsRules(rules, origin) /\ found \in Seq(IgnoreFiles)
      /\ ignoreErrors \in Nat /\ looking.kind \in 1 .. 3
  BY DEF Settled, Look
<1>2. To(name) \in {"none", "git", "hg", "bzr"} /\ q \in Places /\ lines \in LineLists
  BY <1>1, FileAtIs DEF To, Places
<1>3. one \in IgnoreFiles /\ file \in Seq(IgnoreFiles) /\ file = IF lines = <<>> THEN <<>> ELSE <<one>>
  <2> HIDE DEF lines, name, q
  <2> QED BY <1>2, FileIs DEF Discover
<1>4. AppliesIn(one) \in {q, Root}
  BY DEF AppliesIn, File
<1>5. /\ ignoreErrors' \in {ignoreErrors, ignoreErrors + 1}
      /\ \/ found' = found \o file /\ rules' = IF file = <<>> THEN rules ELSE AddFile(rules, file[1])
         \/ found' = found /\ rules' = rules
         \/ found' = found \o file /\ rules' = With(rules, q)
  <2> DEFINE bad == file # <<>> /\ AddFails(file[1])
  <2>1. \/ /\ found' = found \o file
           /\ rules' = IF file = <<>> THEN rules ELSE AddFile(rules, file[1])
           /\ ignoreErrors' = ignoreErrors + (IF bad THEN 1 ELSE 0)
        \/ /\ ignoreErrors' = ignoreErrors + 1
           /\ \/ found' = found /\ rules' = rules
              \/ found' = found \o file /\ rules' = With(rules, q)
    BY DEF Look
  <2>2. ignoreErrors + (IF bad THEN 1 ELSE 0) \in {ignoreErrors, ignoreErrors + 1}
    BY <1>1
  <2> HIDE DEF bad, file, q
  <2> QED BY <2>1, <2>2
<1> HIDE DEF one, lines, q
<1>6. file # <<>> => file[1] = one
  BY <1>3
<1>7. IsRules(AddFile(rules, one), origin) /\ Extends(AddFile(rules, one), rules, AppliesIn(one))
  BY <1>1, <1>3, AddFileIs
<1>8. IsRules(With(rules, q), origin) /\ Extends(With(rules, q), rules, q)
  BY <1>1, WithIs
<1> HIDE DEF file, IgnoreFiles
<1>9. found \o file \in Seq(IgnoreFiles)
  BY <1>1, <1>3
<1>10. found' \in Seq(IgnoreFiles) /\ ignoreErrors' \in Nat
  <2>1. ignoreErrors' \in Nat
    BY <1>1, <1>5
  <2>2. found' = found \o file \/ found' = found
    BY <1>5
  <2> QED BY <1>1, <1>9, <2>1, <2>2
<1>11. \/ rules' = rules
       \/ rules' = AddFile(rules, one)
       \/ rules' = With(rules, q)
  BY <1>5, <1>6
<1> QED BY <1>1, <1>4, <1>7, <1>8, <1>10, <1>11 DEF q

LEMMA SettledByLook ==
  ASSUME Settled, Answered, Look
  PROVE  Settled' /\ Answered'
<1>1. /\ found' \in Seq(IgnoreFiles) /\ IsRules(rules', origin) /\ ignoreErrors' \in Nat
  BY LookIs
<1>2. /\ UNCHANGED <<given, toVisit, toSkip, begun, checked>> /\ ignoreStep = "look"
      /\ looking \in [dir: Paths, kind: 1 .. 3] /\ toVisit \in Seq(Paths)
  BY DEF Look, Settled
<1>3. \/ ignoreStep' = "visit"
      \/ ignoreStep' = "look" /\ looking' \in [dir: Paths, kind: 1 .. 3]
  <2>1. CASE looking.kind = Len(Kinds)
    BY <2>1 DEF Look
  <2>2. CASE looking.kind # Len(Kinds)
    <3>1. Len(Kinds) = 3
      BY DEF Kinds
    <3>2. looking.kind + 1 \in 1 .. 3
      BY <1>2, <2>2, <3>1
    <3>3. looking' = [looking EXCEPT !.kind = @ + 1] /\ UNCHANGED ignoreStep
      BY <2>2 DEF Look
    <3>4. looking' \in [dir: Paths, kind: 1 .. 3]
      BY <1>2, <3>2, <3>3
    <3> QED BY <1>2, <3>3, <3>4
  <2> QED BY <2>1, <2>2
<1> HIDE DEF Paths, IgnoreFiles
<1> QED BY <1>1, <1>2, <1>3 DEF Settled, Answered, given

LEMMA SettledByRest ==
  ASSUME Settled, Answered, Normalise \/ EndTour \/ Select
  PROVE  Settled' /\ Answered'
<1>1. CASE Normalise
  <2>1. origin' \in Paths /\ origin' # "none"
    BY <1>1, OriginIs DEF Normalise, Settled
  <2>2. ignoreStep' \in {"build", "select", "tour"}
    BY <1>1 DEF Normalise
  <2> HIDE DEF Paths, IgnoreFiles
  <2> QED BY <1>1, <2>1, <2>2 DEF Normalise, Settled, Answered, walk
<1>2. CASE EndTour
  BY <1>2 DEF EndTour, Settled, Answered, walk, given
<1>3. CASE Select
  BY <1>3, EffectiveIs DEF Select, Settled, Answered, walk, given
<1> QED BY <1>1, <1>2, <1>3

LEMMA SettledByBuild ==
  ASSUME Settled, Answered, Build
  PROVE  Settled' /\ Answered'
<1>1. /\ UNCHANGED <<given, walk, found, begun, checked>> /\ origin \in Paths
      /\ found \in Seq(IgnoreFiles) /\ ignoreErrors \in Nat /\ ignoreStep = "build"
  BY DEF Build, Settled
<1>2. CASE ignoreStep' = "check" /\ (\E order \in Orders(found) : rules' = Loaded(origin, found, order))
           /\ UNCHANGED ignoreErrors
  <2>1. \A i \in DOMAIN found : AppliesIn(found[i]) \in Paths
    BY <1>1, AppliesInPaths
  <2>2. IsRules(rules', origin)
    <3>1. Root \in Paths /\ Paths \in SUBSET Paths
      BY DEF Root, Paths
    <3> QED BY <1>1, <1>2, <2>1, <3>1, LoadedIs
  <2> HIDE DEF Paths, IgnoreFiles
  <2> QED BY <1>1, <1>2, <2>2 DEF Settled, Answered, walk, given
<1>3. CASE ignoreErrors' = ignoreErrors + 1 /\ ignoreStep' = "fail"
  BY <1>1, <1>3 DEF Settled, Answered, walk, given
<1> QED BY <1>2, <1>3 DEF Build

LEMMA SettledByCheck ==
  ASSUME Settled, Answered, Check
  PROVE  Settled' /\ Answered'
<1>1. UNCHANGED <<given, walk, found, rules, begun, ignoreErrors>> /\ ignoreStep = "check"
      /\ ignoreStep' \in {"panic", "done"}
  BY DEF Check
<1>2. PICK event \in FsEvents, program \in BOOLEAN :
        checked' = [event |-> event, program |-> program,
                    pass |-> Passes(Globs, origin, rules, event, program)]
  BY DEF Check
<1>3. checked'.event \in FsEvents
      /\ checked'.pass = Passes(Globs, origin, rules, checked'.event, checked'.program)
  BY <1>2
<1>4. Globs' = Globs
  BY <1>1 DEF Globs, given
<1> QED BY <1>1, <1>3, <1>4 DEF Settled, Answered, walk, given

LEMMA SettledAlways ==
  ASSUME Settled, Answered, [IgnoresNext]_ignoreVars
  PROVE  Settled' /\ Answered'
<1>1. CASE UNCHANGED ignoreVars
  BY <1>1 DEF ignoreVars, Settled, Answered, Globs
<1> QED
  BY <1>1, SettledByBeginTour, SettledByVisit, SettledByLook, SettledByRest, SettledByBuild,
     SettledByCheck DEF IgnoresNext

(* The event, when it has one path that no other filter is about.          *)
LEMMA EventDecided ==
  ASSUME Settled, Answered
  PROVE  EventIsRight
<1> DEFINE event == checked.event
           ps == event.paths
           path == ps[1].path
<1> SUFFICES ASSUME ignoreStep = "done", Len(ps) = 1, Under(origin, path), ~Mistaken(path),
                    opts.filters = <<>>, opts.ignores = <<>>, opts.extensions = {},
                    path \notin opts.paths, checked.program,
                    checked.event.kind \in opts.kinds \cup {"none"}
             PROVE  checked.pass <=> ~IgnoredBy(rules, path)
  BY DEF EventIsRight
<1>1. /\ event \in FsEvents /\ checked.pass = Passes(Globs, origin, rules, event, checked.program)
      /\ IsRules(rules, origin) /\ origin \in Paths
  BY DEF Settled, Answered
<1>2. ps \in Seq([path: Paths, dir: BOOLEAN])
  BY <1>1, EventsAre
<1>3. DOMAIN ps = {1} /\ path \in Paths
  <2> HIDE DEF Paths, ps
  <2> DEFINE Those == [path: Paths, dir: BOOLEAN]
  <2>1. ps[1] \in Those /\ DOMAIN ps = {1}
    <3> HIDE DEF Those
    <3>1. ps \in Seq(Those) /\ Len(ps) = 1
      BY <1>2 DEF Those, ps
    <3>2. DOMAIN ps = 1 .. 1
      BY <3>1
    <3>3. 1 .. 1 = {1}
      OBVIOUS
    <3>4. 1 \in 1 .. Len(ps)
      BY <3>1
    <3>5. ps[1] \in Those
      BY <3>1, <3>4, ElementOfSeq
    <3> QED BY <3>2, <3>3, <3>5
  <2> QED BY <2>1
<1>4. Ignored(rules, path) <=> IgnoredBy(rules, path)
  <2>1. ~Astray(rules, path)
    BY DEF Mistaken, Astray
  <2> HIDE DEF path
  <2> QED BY <1>1, <1>3, <2>1, IgnoredIs
<1>5. IgnorePasses(rules, event) <=> ~Ignored(rules, path)
  <2>1. \A i \in DOMAIN event.paths : i = 1
    BY <1>3
  <2>2. 1 \in DOMAIN event.paths
    BY <1>3
  <2>3. 1 + 1 .. Len(event.paths) = {}
    OBVIOUS
  <2> QED BY <2>1, <2>2, <2>3 DEF IgnorePasses
<1>6. PathPasses(Globs, origin, ps[1])
  <2>1. Globs.ignores = <<>> /\ Globs.filters = <<>> /\ Globs.extensions = {}
    BY DEF Globs
  <2>2. \A rel : Matched(<<>>, rel) = "none"
    BY DEF Matched, Hits
  <2>3. ~HasFilters(<<>>)
    BY DEF HasFilters
  <2> QED BY <2>1, <2>2, <2>3 DEF PathPasses, Globbed
<1>7. GlobsetPasses(Globs, origin, rules, event) <=> IgnorePasses(rules, event)
  <2>1. \A i \in DOMAIN event.paths : event.paths[i].path \notin Globs.whitelist
    BY <1>3 DEF Globs
  <2>2. \E i \in DOMAIN event.paths : PathPasses(Globs, origin, event.paths[i])
    BY <1>3, <1>6
  <2> QED BY <2>1, <2>2 DEF GlobsetPasses
<1>8. Passes(Globs, origin, rules, event, checked.program) <=> IgnorePasses(rules, event)
  <2>1. event.kind \in Globs.kinds \cup {"none"}
    BY DEF Globs
  <2> QED BY <1>7, <2>1 DEF Passes
<1> QED BY <1>1, <1>4, <1>5, <1>8

(* The walk, as long as nothing failed.  A directory is entered when       *)
(* neither it nor one above it is on the stack or was skipped.             *)
Walking ==
  /\ ignoreErrors = 0
  /\ ignoreStep \in {"visit", "look"} \/ (ignoreStep = "select" /\ ~opts.noProject)
Entered(d) ==
  /\ Of(d)
  /\ \A x \in Pend(toVisit) : ~Under(x, d)
  /\ \A e \in toSkip : ~Under(e, d)
Clear(d) == \A e \in Above(d) : ~Mistaken(e)
Taking(d, i) == File(FileAt(d, Kinds[i]), d, To(Kinds[i]))
Searched(d) == IF ignoreStep = "look" /\ d = looking.dir THEN looking.kind - 1 ELSE 3

Rulings ==
  /\ IsRules(rules, origin) /\ IsRules(begun.rules, origin) /\ toVisit \in Seq(Paths)
  /\ DOMAIN begun.rules \subseteq {Root, origin}
  /\ begun.files \in Nat /\ begun.files <= Len(found)
Apart ==
  /\ Loose(toVisit)
  /\ \A x \in Pend(toVisit) : Of(x) /\ \A e \in toSkip : ~Under(x, e) /\ ~Under(e, x)
  /\ \A e \in toSkip : Of(e)
  /\ origin \in Pend(toVisit) => rules = begun.rules
Took ==
  /\ \A d : Entered(d) =>
       \A i \in 1 .. Searched(d) : FileAt(d, Kinds[i]) # <<>> => Taking(d, i) \in Taken
  /\ \A f \in Taken : Entered(f.in)
  /\ \A d \in DOMAIN rules : d \in {Root, origin} \/ Entered(d)
EnteredRight == \A d : Entered(d) /\ Clear(d) => ~Shut(d) /\ Watched(d)
SkippedRight == \A e \in toSkip : Clear(e) => Shut(e) \/ ~Watched(e)
PendingRight ==
  \A x \in Pend(toVisit) : x # origin /\ Clear(x) => ~IgnoredBy(EarlierRules(x), x)
LookRight ==
  ignoreStep = "look" =>
    LET q == looking.dir
    IN /\ Entered(q) /\ looking.kind \in 1 .. 3
       /\ \A d : Entered(d) /\ Under(q, d) => d = q
       /\ \A x \in Pend(toVisit) : Under(q, x) => Parent(x) = q
       /\ \A e \in toSkip : Under(q, e) =>
            Parent(e) = q /\ (Clear(e) => IgnoredBy(EarlierRules(e), e))
EndRight == ignoreStep = "select" => toVisit = <<>>
Walk ==
  /\ Rulings /\ Apart /\ Took
  /\ EnteredRight /\ SkippedRight /\ PendingRight /\ LookRight /\ EndRight

LEMMA OfIsPath ==
  ASSUME tree \in Trees, origin \in Paths, NEW d, Of(d)
  PROVE  d \in Paths /\ Under(origin, d)
BY TreeIs DEF Of

LEMMA EnteredAbove ==
  ASSUME tree \in Trees, origin \in Paths, toVisit \in Seq(Paths), \A e \in toSkip : Of(e),
         NEW d, Entered(d), NEW e \in Paths, Under(e, d), Under(origin, e)
  PROVE  Entered(e)
<1>1. Of(d) /\ d \in Paths
  BY OfIsPath DEF Entered
<1>2. Of(e)
  BY <1>1, OfClosed
<1>3. Pend(toVisit) \subseteq Paths /\ toSkip \subseteq Paths
  BY OfIsPath DEF Pend
<1>4. \A x \in Paths : Under(x, e) => Under(x, d)
  BY <1>1, UnderIs
<1> QED BY <1>2, <1>3, <1>4 DEF Entered

LEMMA ClearDecides ==
  ASSUME tree \in Trees, origin \in Paths, IsRules(rules, origin), NEW d, Of(d), Clear(d)
  PROVE  Ignored(rules, d) <=> IgnoredBy(rules, d)
<1>1. d \in Paths /\ Under(origin, d)
  BY OfIsPath
<1>2. d \in Above(d)
  BY <1>1, AboveIs, UnderIs
<1>3. ~Astray(rules, d)
  BY <1>2 DEF Clear, Mistaken, Astray
<1> QED BY <1>1, <1>3, IgnoredIs

(* The rules without those of one directory.                               *)
Minus(R, d) == [e \in DOMAIN R \ {d} |-> R[e]]

LEMMA MinusIs ==
  ASSUME NEW R, NEW org \in Paths, IsRules(R, org), NEW d, d # Root
  PROVE  IsRules(Minus(R, d), org)
<1>1. DOMAIN Minus(R, d) = DOMAIN R \ {d} /\ \A e \in DOMAIN R \ {d} : Minus(R, d)[e] = R[e]
  BY DEF Minus
<1>2. Minus(R, d) \in [DOMAIN R \ {d} -> Nodes]
  BY DEF Minus, IsRules
<1> QED BY <1>1, <1>2 DEF IsRules

LEMMA MinusSame ==
  ASSUME NEW R, NEW S, NEW q, Extends(S, R, q)
  PROVE  Minus(S, q) = Minus(R, q)
<1>1. DOMAIN S \ {q} = DOMAIN R \ {q} /\ \A e \in DOMAIN R \ {q} : S[e] = R[e]
  BY DEF Extends
<1> QED BY <1>1 DEF Minus

LEMMA Untouched ==
  ASSUME NEW R, NEW S, NEW org \in Paths, IsRules(R, org), IsRules(S, org), NEW q \in Paths,
         Extends(S, R, q), NEW p \in Paths, Under(org, p), ~(Under(q, p) /\ q # p)
  PROVE  /\ IgnoredBy(R, p) <=> IgnoredBy(S, p)
         /\ \A d : d # Root => (IgnoredBy(Minus(R, d), p) <=> IgnoredBy(Minus(S, d), p))
<1>1. AgreeAbove(R, S, p)
  BY DEF AgreeAbove, Extends
<1>2. ASSUME NEW d, d # Root PROVE IgnoredBy(Minus(R, d), p) <=> IgnoredBy(Minus(S, d), p)
  <2>1. DOMAIN Minus(R, d) = DOMAIN R \ {d} /\ \A e \in DOMAIN R \ {d} : Minus(R, d)[e] = R[e]
    BY DEF Minus
  <2>2. DOMAIN Minus(S, d) = DOMAIN S \ {d} /\ \A e \in DOMAIN S \ {d} : Minus(S, d)[e] = S[e]
    BY DEF Minus
  <2>3. AgreeAbove(Minus(R, d), Minus(S, d), p)
    BY <1>1, <2>1, <2>2 DEF AgreeAbove
  <2>4. IsRules(Minus(R, d), org) /\ IsRules(Minus(S, d), org)
    BY <1>2, MinusIs
  <2> QED BY <2>3, <2>4, AboveDecides
<1> QED BY <1>1, <1>2, AboveDecides

LEMMA ParentOf ==
  ASSUME origin \in Paths, NEW d \in Paths, Under(origin, d), d # origin
  PROVE  Parent(d) \in Paths /\ Under(origin, Parent(d)) /\ Below(Parent(d), d) /\ d # Root
         /\ (Parent(d) # origin => Parent(d) # Root)
<1> DEFINE n == Len(d)
<1>1. Len(origin) \in Nat /\ n \in Nat /\ Len(origin) < n
  BY Strictly DEF Paths, Under
<1>2. n - 1 \in 0 .. n /\ Parent(d) = SubSeq(d, 1, n - 1)
  BY <1>1 DEF Parent, Front
<1> HIDE DEF n
<1>3. Parent(d) \in Paths /\ Len(Parent(d)) = n - 1 /\ IsPrefix(Parent(d), d)
  BY <1>2, PartOf DEF Paths, n
<1>4. Below(Parent(d), d)
  BY <1>1, <1>3 DEF Below, Under, n
<1>5. Under(origin, Parent(d))
  BY <1>3, <1>4, BelowIs
<1>6. Root \in Paths /\ Len(Root) = 0 /\ Under(Root, origin)
  BY RootIsAbove
<1>7. d # Root
  BY <1>1, <1>6 DEF n
<1>8. ASSUME Parent(d) = Root PROVE Parent(d) = origin
  BY <1>5, <1>6, <1>8, UnderIs
<1> QED BY <1>3, <1>4, <1>5, <1>7, <1>8

LEMMA MustSkipIs ==
  ASSUME NEW d \in Paths, MustSkip(d)
  PROVE  \E e \in toSkip : Under(e, d)
<1>1. PICK k \in 0 .. Len(d) : SubSeq(d, 1, k) \in toSkip
  BY DEF MustSkip
<1>2. IsPrefix(SubSeq(d, 1, k), d)
  BY PartOf DEF Paths
<1> QED BY <1>1, <1>2 DEF Under

LEMMA ChildrenAre ==
  ASSUME tree \in Trees, origin \in Paths, NEW q, Of(q), NEW c
  PROVE  c \in Children(q) <=> Of(c) /\ Below(q, c)
<1>1. q \in Paths /\ Under(origin, q) /\ tree.dirs \subseteq Paths
  BY OfIsPath, TreeIs
<1>2. ASSUME c \in Children(q) PROVE Of(c) /\ Below(q, c)
  <2>1. c \in tree.dirs /\ c \in Paths /\ Below(q, c) /\ Under(q, c)
    BY <1>1, <1>2 DEF Children, Below
  <2>2. Under(origin, c)
    BY <1>1, <2>1, UnderIs
  <2> QED BY <2>1, <2>2 DEF Of
<1>3. ASSUME Of(c), Below(q, c) PROVE c \in Children(q)
  <2>1. c \in Paths
    BY <1>3, OfIsPath
  <2>2. c # origin
    BY <1>1, <1>3, <2>1, BelowIs
  <2> QED BY <1>3, <2>2 DEF Of, Children, Below
<1> QED BY <1>2, <1>3

(* Where the walk goes on from the top of the stack.                       *)
Top(q, rest) ==
  /\ q \in Paths /\ Of(q) /\ rest \in Seq(Paths) /\ Loose(rest)
  /\ Pend(toVisit) = Pend(rest) \cup {q}
  /\ \A x \in Pend(rest) : ~Under(x, q) /\ ~Under(q, x)
Enters(q, rest) ==
  /\ ~Ignored(rules, q) /\ Watched(q)
  /\ toVisit' \in Seq(Paths) /\ Loose(toVisit')
  /\ Pend(toVisit') = Pend(rest) \cup {c \in Children(q) : ~Ignored(rules, c)}
  /\ toSkip' = toSkip \cup {c \in Children(q) : Ignored(rules, c)}
  /\ ignoreStep' = "look" /\ looking'.dir = q /\ looking'.kind = 1
Skips(q, rest) ==
  /\ Ignored(rules, q) \/ ~Watched(q)
  /\ toVisit' = rest /\ toSkip' = toSkip \cup {q} /\ ignoreStep' = "visit"

LEMMA TopIs ==
  ASSUME Settled, Apart, toVisit \in Seq(Paths), toVisit # <<>>
  PROVE  Top(Last(toVisit), Front(toVisit))
<1>1. Last(toVisit) \in Pend(toVisit)
  BY StackTop DEF Apart
<1> QED BY <1>1, StackTop DEF Apart, Top

LEMMA SkipsAllUnder ==
  ASSUME NEW q, NEW rest, Top(q, rest)
  PROVE  Only(rest, {i \in DOMAIN rest : ~Under(q, rest[i])}) = rest
<1> DEFINE W == {i \in DOMAIN rest : ~Under(q, rest[i])}
<1>1. DOMAIN rest \subseteq W
  BY DEF Top, Pend
<1> HIDE DEF W
<1>2. rest \in Seq(Paths)
  BY DEF Top
<1> HIDE DEF Paths
<1>3. Only(rest, W) = rest
  BY <1>1, <1>2, OnlyIs
<1> QED BY <1>3 DEF W

LEMMA VisitIs ==
  ASSUME Settled, Walking, Walk, Visit, Walking'
  PROVE  /\ UNCHANGED <<given, found, rules, begun>> /\ ignoreStep = "visit"
         /\ \E q, rest : Top(q, rest) /\ (Enters(q, rest) \/ Skips(q, rest))
<1> DEFINE q == Last(toVisit)
           rest == Front(toVisit)
           children == {c \in Children(q) : ~MustSkip(c)}
           kept == {c \in children : CheckDir(rules, c)}
           enter == CheckDir(rules, q) /\ Watched(q)
<1>1. /\ tree \in Trees /\ origin \in Paths /\ toVisit # <<>> /\ ignoreErrors = 0
      /\ ignoreErrors' = 0 /\ ignoreStep' # "panic" /\ Apart
      /\ UNCHANGED <<given, found, rules, begun>> /\ ignoreStep = "visit"
      /\ toVisit \in Seq(Paths)
      /\ \A e \in toSkip : Of(e)
  BY DEF Settled, Walking, Walk, Rulings, Apart, Visit, Visiting
<1>2. Top(q, rest)
  BY <1>1, TopIs
<1>3. \/ MustSkip(q)
      \/ enter /\ ReadDir(q, rest)
      \/ ~enter /\ Skip(q, rest)
  BY <1>1 DEF Visit, Visiting
<1> HIDE DEF q, rest
<1>4. q \in Paths /\ Of(q) /\ q \in Pend(toVisit) /\ Pend(rest) \subseteq Pend(toVisit)
  BY <1>2 DEF Top
<1>5. toSkip \subseteq Paths
  BY <1>1, OfIsPath
<1>6. ~MustSkip(q)
  BY <1>1, <1>4, MustSkipIs DEF Apart
<1>7. children = Children(q)
  <2> SUFFICES ASSUME NEW c \in Children(q), MustSkip(c) PROVE FALSE
    OBVIOUS
  <2>1. Of(c) /\ Below(q, c) /\ c \in Paths
    BY <1>1, <1>4, ChildrenAre, OfIsPath
  <2>2. PICK e \in toSkip : Under(e, c)
    BY <2>1, MustSkipIs
  <2>3. e = c \/ Under(e, q)
    BY <1>4, <1>5, <2>1, <2>2, BelowIs
  <2>4. ~Under(q, e) /\ ~Under(e, q)
    BY <1>1, <1>4 DEF Apart
  <2> QED BY <2>1, <2>3, <2>4 DEF Below
<1>8. CASE ~enter /\ Skip(q, rest)
  <2>1. toVisit' = rest
    BY <1>2, <1>8, SkipsAllUnder DEF Skip
  <2> QED BY <1>1, <1>2, <1>8, <2>1 DEF Skip, Skips, CheckDir
<1>9. CASE enter /\ ReadDir(q, rest)
  <2>1. PICK order \in AnyOrder(kept) :
          /\ toVisit' = rest \o order
          /\ toSkip' = toSkip \cup (children \ kept)
          /\ looking' = [dir |-> q, kind |-> 1] /\ ignoreStep' = "look"
    <3>1. \/ /\ \E order \in AnyOrder(kept) : toVisit' = rest \o order
             /\ toSkip' = toSkip \cup (children \ kept)
             /\ looking' = [dir |-> q, kind |-> 1] /\ ignoreStep' = "look"
          \/ ignoreErrors' = ignoreErrors + 1
      BY <1>9 DEF ReadDir
    <3> HIDE DEF kept, children
    <3> QED BY <1>1, <3>1
  <2>2. kept \in SUBSET Paths /\ IsFiniteSet(kept)
    <3>1. kept \subseteq tree.dirs /\ tree.dirs \subseteq Paths /\ IsFiniteSet(tree.dirs)
      BY <1>1, TreeIs DEF Children
    <3> QED BY <3>1, FS_Subset
  <2>3. order \in Seq(Paths) /\ Pend(order) = kept
        /\ \A i, j \in DOMAIN order : i # j => order[i] # order[j]
    <3> HIDE DEF kept, Paths
    <3> QED BY <2>1, <2>2, OrderIs
  <2>4. \A c \in kept : c \in Paths /\ Below(q, c)
    BY <1>1, <1>4, ChildrenAre, OfIsPath
  <2>5. \A c, e \in kept : Under(c, e) => c = e
    <3> SUFFICES ASSUME NEW c \in kept, NEW e \in kept, Under(c, e), c # e PROVE FALSE
      OBVIOUS
    <3>1. Under(c, q)
      BY <1>4, <2>4, BelowIs
    <3> QED BY <1>4, <2>4, <3>1, BelowIs
  <2>6. Loose(order)
    <3> HIDE DEF kept
    <3>1. \A i \in DOMAIN order : order[i] \in kept
      BY <2>3 DEF Pend
    <3> QED BY <2>3, <2>5, <3>1 DEF Loose
  <2>7. \A x \in Pend(rest), y \in Pend(order) : ~Under(x, y) /\ ~Under(y, x)
    <3> SUFFICES ASSUME NEW x \in Pend(rest), NEW y \in kept PROVE ~Under(x, y) /\ ~Under(y, x)
      BY <2>3
    <3>1. x \in Paths /\ ~Under(x, q) /\ ~Under(q, x)
      BY <1>1, <1>2, <1>4, OfIsPath DEF Top, Apart
    <3>2. y \in Paths /\ Below(q, y) /\ Under(q, y)
      BY <2>4 DEF Below
    <3>3. ~Under(y, x)
      BY <1>4, <3>1, <3>2, UnderIs
    <3>4. ~Under(x, y)
      BY <1>4, <3>1, <3>2, BelowIs
    <3> QED BY <3>3, <3>4
  <2>8. toVisit' \in Seq(Paths) /\ Loose(toVisit') /\ Pend(toVisit') = Pend(rest) \cup kept
    <3> HIDE DEF Paths, kept
    <3> QED BY <1>2, <2>1, <2>3, <2>6, <2>7, StackGrows DEF Top
  <2>9. kept = {c \in Children(q) : ~Ignored(rules, c)}
        /\ children \ kept = {c \in Children(q) : Ignored(rules, c)}
    BY <1>7 DEF CheckDir
  <2>10. Enters(q, rest)
    <3> HIDE DEF kept, children, Paths
    <3> QED BY <1>9, <2>1, <2>8, <2>9 DEF Enters, CheckDir
  <2> QED BY <1>1, <1>2, <2>10
<1> QED BY <1>3, <1>6, <1>8, <1>9

LEMMA BelowApart ==
  ASSUME NEW q \in Paths, NEW c \in Paths, Below(q, c), NEW x \in Paths, ~Under(x, q), ~Under(q, x)
  PROVE  ~Under(x, c) /\ ~Under(c, x)
<1>1. Under(q, c)
  BY DEF Below
<1>2. ~Under(c, x)
  BY <1>1, UnderIs
<1>3. ~Under(x, c)
  BY <1>1, BelowIs
<1> QED BY <1>2, <1>3

LEMMA SameRules ==
  ASSUME UNCHANGED <<given, found, rules, begun>>
  PROVE  /\ \A d : (Of(d)' <=> Of(d)) /\ (Clear(d)' <=> Clear(d)) /\ (Shut(d)' <=> Shut(d))
         /\ \A d : (Watched(d)' <=> Watched(d)) /\ EarlierRules(d)' = EarlierRules(d)
         /\ \A d, x : FileAt(d, x)' = FileAt(d, x)
         /\ \A d, i : Taking(d, i)' = Taking(d, i)
         /\ Taken' = Taken
<1>1. tree' = tree /\ opts' = opts /\ origin' = origin /\ found' = found /\ rules' = rules
      /\ begun' = begun
  BY DEF given
<1>2. \A d : EarlierRules(d)' = EarlierRules(d)
  BY <1>1 DEF EarlierRules
<1>3. \A d : Above(d)' = Above(d) /\ (Mistaken(d)' <=> Mistaken(d))
  BY <1>1 DEF Above, Mistaken
<1>4. \A d : Clear(d)' <=> Clear(d)
  BY <1>3 DEF Clear
<1>5. \A d : Shut(d)' <=> Shut(d)
  BY <1>1, <1>2 DEF Shut
<1>6. \A d, x : FileAt(d, x)' = FileAt(d, x)
  BY <1>1 DEF FileAt
<1>7. \A d, i : Taking(d, i)' = Taking(d, i)
  BY <1>6 DEF Taking
<1>8. \A d : (Watched(d)' <=> Watched(d)) /\ (Of(d)' <=> Of(d))
  BY <1>1 DEF Watched, Watches, Of
<1>9. Taken' = Taken
  BY <1>1 DEF Taken
<1> QED BY <1>2, <1>4, <1>5, <1>6, <1>7, <1>8, <1>9

LEMMA WalkBySkip ==
  ASSUME Settled, Walk, ignoreStep = "visit", UNCHANGED <<given, found, rules, begun>>,
         NEW q, NEW rest, Top(q, rest), Skips(q, rest)
  PROVE  Walk'
<1>1. /\ toVisit' = rest /\ toSkip' = toSkip \cup {q} /\ ignoreStep' = "visit"
      /\ Ignored(rules, q) \/ ~Watched(q)
      /\ tree \in Trees /\ origin \in Paths /\ IsRules(rules, origin)
      /\ origin' = origin /\ rules' = rules /\ begun' = begun /\ found' = found
  BY DEF Skips, Settled, given
<1>2. /\ q \in Paths /\ Of(q) /\ q \in Pend(toVisit) /\ Pend(rest) \subseteq Pend(toVisit)
      /\ \A x \in Pend(rest) : ~Under(x, q) /\ ~Under(q, x)
  BY DEF Top
<1>3. \A d : Entered(d)' <=> Entered(d)
  <2>1. \A d : Entered(d) <=>
          /\ Of(d)
          /\ \A x \in Pend(rest) \cup {q} : ~Under(x, d)
          /\ \A e \in toSkip : ~Under(e, d)
    BY DEF Entered, Top
  <2>2. \A d : Entered(d)' <=>
          /\ Of(d)
          /\ \A x \in Pend(rest) : ~Under(x, d)
          /\ \A e \in toSkip \cup {q} : ~Under(e, d)
    BY <1>1, SameRules DEF Entered
  <2> QED BY <2>1, <2>2
<1>4. \A d : Searched(d)' = Searched(d)
  BY <1>1 DEF Searched
<1>5. Rulings'
  BY <1>1 DEF Walk, Rulings, Top
<1>6. Apart'
  BY <1>1, <1>2, SameRules DEF Walk, Apart, Top
<1>7. Took'
  BY <1>1, <1>3, <1>4, SameRules DEF Walk, Took
<1>8. EnteredRight'
  BY <1>3, SameRules DEF Walk, EnteredRight
<1>9. SkippedRight'
  <2>1. Clear(q) => Shut(q) \/ ~Watched(q)
    BY <1>1, <1>2, ClearDecides DEF Shut
  <2> QED BY <1>1, <2>1, SameRules DEF Walk, SkippedRight
<1>10. PendingRight'
  BY <1>1, <1>2, SameRules DEF Walk, PendingRight
<1> QED BY <1>1, <1>5, <1>6, <1>7, <1>8, <1>9, <1>10 DEF Walk, LookRight, EndRight

(* While a directory is entered, the rules have nothing of its files.      *)
LEMMA EarlierIsNow ==
  ASSUME Settled, Walk, NEW q \in Pend(toVisit), NEW c, Parent(c) = q
  PROVE  EarlierRules(c) = rules
<1>1. tree \in Trees /\ origin \in Paths /\ IsRules(rules, origin) /\ Of(q)
  BY DEF Settled, Walk, Rulings, Apart
<1>2. CASE q = origin
  BY <1>2 DEF Walk, Apart, EarlierRules
<1>3. CASE q # origin
  <2>1. q \in Paths /\ q # Root
    BY <1>1, <1>3, OfIsPath, ParentOf
  <2>2. ~Entered(q)
    BY <2>1, UnderIs DEF Entered
  <2>3. q \notin DOMAIN rules
    BY <1>3, <2>1, <2>2 DEF Walk, Took
  <2>4. Minus(rules, q) = rules
    <3>1. DOMAIN rules \ {q} = DOMAIN rules
      BY <2>3
    <3> QED BY <1>1, <3>1 DEF Minus, IsRules
  <2> QED BY <1>3, <2>4 DEF EarlierRules, Minus
<1> QED BY <1>2, <1>3

LEMMA WalkByEnter ==
  ASSUME Settled, Walk, ignoreStep = "visit", UNCHANGED <<given, found, rules, begun>>,
         NEW q, NEW rest, Top(q, rest), Enters(q, rest)
  PROVE  Walk'
<1> DEFINE in == {c \in Children(q) : ~Ignored(rules, c)}
           out == {c \in Children(q) : Ignored(rules, c)}
<1>1. /\ toVisit' \in Seq(Paths) /\ Loose(toVisit')
      /\ Pend(toVisit') = Pend(rest) \cup in /\ toSkip' = toSkip \cup out
      /\ ignoreStep' = "look" /\ looking'.dir = q /\ looking'.kind = 1
      /\ ~Ignored(rules, q) /\ Watched(q)
      /\ tree \in Trees /\ origin \in Paths /\ IsRules(rules, origin)
      /\ origin' = origin /\ rules' = rules /\ begun' = begun /\ found' = found
  BY DEF Enters, Settled, given
<1>2. /\ q \in Paths /\ Of(q) /\ q \in Pend(toVisit) /\ Pend(toVisit) = Pend(rest) \cup {q}
      /\ \A x \in Pend(rest) : ~Under(x, q) /\ ~Under(q, x)
      /\ \A e \in toSkip : ~Under(q, e) /\ ~Under(e, q)
      /\ Under(origin, q) /\ Under(q, q)
  <2>1. q \in Paths /\ Of(q) /\ q \in Pend(toVisit) /\ Pend(toVisit) = Pend(rest) \cup {q}
        /\ \A x \in Pend(rest) : ~Under(x, q) /\ ~Under(q, x)
    BY DEF Top
  <2>2. \A e \in toSkip : ~Under(q, e) /\ ~Under(e, q)
    BY <2>1 DEF Walk, Apart
  <2> QED BY <2>1, <2>2, UnderIs DEF Of
<1>3. \A x \in Pend(toVisit) \cup toSkip : x \in Paths /\ Of(x)
  BY <1>1, OfIsPath DEF Walk, Apart
<1>4. \A c \in Children(q) :
        c \in Paths /\ Of(c) /\ Below(q, c) /\ Under(q, c) /\ Parent(c) = q /\ ~Under(c, q) /\ c # q
  BY <1>1, <1>2, ChildrenAre, OfIsPath, BelowIs DEF Below
<1>5. \A c \in Children(q) : \A x \in Pend(rest) \cup toSkip : ~Under(x, c) /\ ~Under(c, x)
  BY <1>2, <1>3, <1>4, BelowApart
<1> HIDE DEF in, out
<1>6. in \cup out = Children(q) /\ in \cap out = {}
  BY DEF in, out
<1>7. \A d : Entered(d) => ~Under(q, d)
  BY <1>2 DEF Entered
<1>8. \A d : Entered(d)' <=>
        /\ Of(d)
        /\ \A x \in Pend(rest) \cup in : ~Under(x, d)
        /\ \A e \in toSkip \cup out : ~Under(e, d)
  BY <1>1, SameRules DEF Entered
<1>9. \A d : Entered(d)' <=> Entered(d) \/ d = q
  <2>1. Entered(q)'
    BY <1>2, <1>4, <1>6, <1>8
  <2>2. ASSUME NEW d, Entered(d) PROVE Entered(d)'
    <3>1. Of(d) /\ d \in Paths
      BY <1>1, <2>2, OfIsPath DEF Entered
    <3>2. \A c \in Children(q) : ~Under(c, d)
      BY <1>2, <1>4, <1>7, <2>2, <3>1, UnderIs
    <3> QED BY <1>2, <1>6, <1>8, <2>2, <3>1, <3>2 DEF Entered
  <2>3. ASSUME NEW d, Entered(d)', d # q PROVE Entered(d)
    <3>1. Of(d) /\ d \in Paths
      BY <1>1, <1>8, <2>3, OfIsPath
    <3>2. ~Under(q, d)
      <4> SUFFICES ASSUME Under(q, d) PROVE FALSE
        OBVIOUS
      <4>1. PICK c \in Paths : Below(q, c) /\ Under(c, d)
        BY <1>2, <2>3, <3>1, NextBelow
      <4>2. Under(origin, c)
        BY <1>1, <1>2, <4>1, UnderIs DEF Below
      <4>3. Of(c)
        BY <1>1, <3>1, <4>1, <4>2, OfClosed
      <4>4. c \in Children(q)
        BY <1>1, <1>2, <4>1, <4>3, ChildrenAre
      <4> QED BY <1>6, <1>8, <2>3, <4>1, <4>4
    <3> QED BY <1>2, <1>8, <2>3, <3>1, <3>2 DEF Entered
  <2> QED BY <2>1, <2>2, <2>3
<1>10. \A c \in Children(q) : EarlierRules(c) = rules
  BY <1>2, <1>4, EarlierIsNow
<1>11. \A c \in Children(q) : Clear(c) => (Ignored(rules, c) <=> IgnoredBy(rules, c))
  BY <1>1, <1>4, ClearDecides
<1>12. Rulings'
  BY <1>1 DEF Walk, Rulings
<1>13. Apart'
  <2>1. \A x \in Pend(toVisit') : Of(x)' /\ \A e \in toSkip' : ~Under(x, e) /\ ~Under(e, x)
    <3>1. ASSUME NEW x \in Pend(rest), NEW e \in toSkip PROVE ~Under(x, e) /\ ~Under(e, x)
      BY <1>2 DEF Walk, Apart
    <3>2. ASSUME NEW x \in in, NEW e \in out PROVE ~Under(x, e) /\ ~Under(e, x)
      <4>1. x # e /\ x \in Children(q) /\ e \in Children(q)
        BY <1>6
      <4>2. x \in Paths /\ e \in Paths /\ Below(q, x) /\ Below(q, e) /\ ~Under(x, q) /\ ~Under(e, q)
        BY <1>4, <4>1
      <4> QED BY <1>2, <4>1, <4>2, BelowIs
    <3>3. ASSUME NEW x \in in, NEW e \in toSkip PROVE ~Under(x, e) /\ ~Under(e, x)
      BY <1>5, <1>6
    <3>4. ASSUME NEW x \in Pend(rest), NEW e \in out PROVE ~Under(x, e) /\ ~Under(e, x)
      BY <1>5, <1>6
    <3>5. \A x \in Pend(rest) \cup in : Of(x)'
      BY <1>2, <1>3, <1>4, <1>6, SameRules
    <3> QED BY <1>1, <3>1, <3>2, <3>3, <3>4, <3>5
  <2>2. \A e \in toSkip' : Of(e)'
    BY <1>1, <1>3, <1>4, <1>6, SameRules
  <2>3. origin' \notin Pend(toVisit')
    BY <1>1, <1>2, <1>4, <1>6
  <2> QED BY <1>1, <2>1, <2>2, <2>3 DEF Apart
<1>14. Took'
  <2>1. ASSUME NEW d, Entered(d)', NEW i \in 1 .. Searched(d)', FileAt(d, Kinds[i])' # <<>>
        PROVE  Taking(d, i)' \in Taken'
    <3>1. CASE d = q
      BY <1>1, <2>1, <3>1 DEF Searched
    <3>2. CASE d # q
      <4>1. Entered(d) /\ Searched(d)' = 3 /\ Searched(d) = 3
        BY <1>1, <1>9, <2>1, <3>2 DEF Searched
      <4> QED BY <2>1, <4>1, SameRules DEF Walk, Took
    <3> QED BY <3>1, <3>2
  <2>2. \A f \in Taken' : Entered(f.in)'
    BY <1>9, SameRules DEF Walk, Took
  <2>3. \A d \in DOMAIN rules' : d \in {Root, origin'} \/ Entered(d)'
    BY <1>1, <1>9 DEF Walk, Took
  <2> QED BY <2>1, <2>2, <2>3 DEF Took
<1>15. EnteredRight'
  <2>1. Clear(q) => ~Shut(q)
    <3>1. Clear(q) => ~IgnoredBy(rules, q)
      BY <1>1, <1>2, ClearDecides
    <3>2. Clear(q) /\ q # origin => ~IgnoredBy(EarlierRules(q), q)
      BY <1>2 DEF Walk, PendingRight
    <3> QED BY <3>1, <3>2 DEF Shut
  <2> QED BY <1>1, <1>9, <2>1, SameRules DEF Walk, EnteredRight
<1>16. SkippedRight'
  <2>1. \A c \in out : Clear(c) => Shut(c)
    BY <1>11 DEF Shut, out
  <2> QED BY <1>1, <2>1, SameRules DEF Walk, SkippedRight
<1>17. PendingRight'
  <2>1. \A c \in in : Clear(c) => ~IgnoredBy(EarlierRules(c), c)
    BY <1>10, <1>11 DEF in
  <2> QED BY <1>1, <1>2, <2>1, SameRules DEF Walk, PendingRight
<1>18. LookRight'
  <2>1. Entered(q)' /\ looking'.kind \in 1 .. 3
    BY <1>1, <1>9
  <2>2. \A d : Entered(d)' /\ Under(q, d) => d = q
    BY <1>7, <1>9
  <2>3. \A x \in Pend(toVisit') : Under(q, x) => Parent(x) = q
    BY <1>1, <1>2, <1>4, <1>6
  <2>4. \A e \in toSkip' : Under(q, e) =>
          Parent(e) = q /\ (Clear(e)' => IgnoredBy(EarlierRules(e)', e))
    <3>1. \A e \in out : Parent(e) = q /\ (Clear(e) => IgnoredBy(EarlierRules(e), e))
      BY <1>4, <1>6, <1>10, <1>11 DEF out
    <3> QED BY <1>1, <1>2, <3>1, SameRules
  <2> QED BY <1>1, <2>1, <2>2, <2>3, <2>4 DEF LookRight
<1> QED BY <1>1, <1>12, <1>13, <1>14, <1>15, <1>16, <1>17, <1>18 DEF Walk, EndRight

LEMMA TakenGrows ==
  ASSUME NEW s \in Seq(IgnoreFiles), NEW t \in Seq(IgnoreFiles), NEW b \in Nat, b <= Len(s)
  PROVE  {(s \o t)[i] : i \in b + 1 .. Len(s \o t)} = {s[i] : i \in b + 1 .. Len(s)} \cup Pend(t)
<1> DEFINE u == s \o t
           m == Len(s)
           n == Len(t)
<1> HIDE DEF IgnoreFiles
<1>1. /\ m \in Nat /\ n \in Nat /\ Len(u) = m + n /\ DOMAIN t = 1 .. n
      /\ \A i \in 1 .. m + n : u[i] = IF i <= m THEN s[i] ELSE t[i - m]
  OBVIOUS
<1> HIDE DEF u, m, n
<1> DEFINE A == {u[i] : i \in b + 1 .. m + n}
           B == {s[i] : i \in b + 1 .. m}
<1>2. ASSUME NEW i \in b + 1 .. m + n PROVE u[i] \in B \cup Pend(t)
  <2>1. CASE i <= m
    <3>1. i \in b + 1 .. m /\ i \in 1 .. m + n
      BY <1>1, <2>1
    <3> QED BY <1>1, <2>1, <3>1
  <2>2. CASE ~(i <= m)
    <3> DEFINE j == i - m
    <3>1. j \in 1 .. n /\ i \in 1 .. m + n
      BY <1>1, <2>2
    <3>2. u[i] = t[j]
      BY <1>1, <2>2, <3>1
    <3> HIDE DEF j
    <3> QED BY <1>1, <3>1, <3>2 DEF Pend
  <2> QED BY <2>1, <2>2
<1>3. ASSUME NEW i \in b + 1 .. m PROVE s[i] \in A
  <2>1. i \in b + 1 .. m + n /\ i \in 1 .. m + n /\ i <= m
    BY <1>1
  <2>2. u[i] = s[i]
    BY <1>1, <2>1
  <2> QED BY <2>1, <2>2
<1>4. ASSUME NEW j \in 1 .. n PROVE t[j] \in A
  <2> DEFINE i == j + m
  <2>1. i \in b + 1 .. m + n /\ i \in 1 .. m + n /\ ~(i <= m) /\ i - m = j
    BY <1>1 DEF m
  <2> HIDE DEF i
  <2>2. u[i] = t[j]
    BY <1>1, <2>1
  <2> QED BY <2>1, <2>2
<1>5. A = B \cup Pend(t)
  BY <1>1, <1>2, <1>3, <1>4 DEF Pend
<1> QED BY <1>1, <1>5 DEF u, m

(* What a look at one file of the directory changes.                       *)
Looks(q, one) ==
  LET lines == FileAt(q, Kinds[looking.kind])
  IN /\ one = Taking(q, looking.kind) /\ IsRules(rules', origin)
     /\ Taken' = Taken \cup (IF lines = <<>> THEN {} ELSE {one})
     /\ rules' = rules \/ Extends(rules', rules, q)
     /\ begun.files <= Len(found')
     /\ UNCHANGED <<given, toVisit, toSkip, begun>>
     /\ \/ looking.kind = 3 /\ ignoreStep' = "visit"
        \/ /\ looking.kind # 3 /\ ignoreStep' = "look"
           /\ looking'.dir = q /\ looking'.kind = looking.kind + 1

LEMMA LooksAtOne ==
  ASSUME Settled, Walk, Walking, Look, Walking'
  PROVE  Looks(looking.dir, Taking(looking.dir, looking.kind))
<1> DEFINE q == looking.dir
           k == looking.kind
           lines == FileAt(q, Kinds[k])
           file == Discover(lines, q, To(Kinds[k]))
           one == Taking(q, k)
<1>1. /\ tree \in Trees /\ origin \in Paths /\ origin # "none" /\ ignoreStep = "look"
      /\ ignoreErrors = 0 /\ ignoreErrors' = 0 /\ Of(q) /\ k \in 1 .. 3
      /\ found \in Seq(IgnoreFiles) /\ IsRules(rules, origin)
      /\ begun.files \in Nat /\ begun.files <= Len(found)
  BY DEF Settled, Walking, Look, Walk, LookRight, Entered, Rulings
<1>2. q \in Paths /\ q # "none" /\ q \in Places
  BY <1>1, TreeIs, OfIsPath DEF Of, Places
<1>3. lines \in LineLists /\ To(Kinds[k]) \in {"none", "git", "hg", "bzr"}
  BY <1>1, FileAtIs DEF To
<1>4. one \in IgnoreFiles /\ file = (IF lines = <<>> THEN <<>> ELSE <<one>>)
      /\ AppliesIn(one) = q
  <2>1. one = File(lines, q, To(Kinds[k]))
    BY DEF Taking
  <2>2. AppliesIn(one) = q
    BY <1>2, <2>1 DEF AppliesIn, File
  <2> HIDE DEF lines, q, one
  <2>3. one \in IgnoreFiles
    BY <1>2, <1>3, <2>1, FileIs
  <2> QED BY <2>1, <2>2, <2>3 DEF Discover
<1>5. /\ found' = found \o file /\ rules' = IF file = <<>> THEN rules ELSE AddFile(rules, file[1])
      /\ UNCHANGED <<given, toVisit, toSkip, begun>>
      /\ \/ k = 3 /\ ignoreStep' = "visit"
         \/ /\ k # 3 /\ ignoreStep' = "look" /\ looking' = [looking EXCEPT !.kind = @ + 1]
  <2>1. \/ /\ found' = found \o file
           /\ rules' = IF file = <<>> THEN rules ELSE AddFile(rules, file[1])
        \/ ignoreErrors' = ignoreErrors + 1
    BY DEF Look
  <2>2. UNCHANGED <<given, toVisit, toSkip, begun>>
    BY DEF Look
  <2>3. Len(Kinds) = 3
    BY DEF Kinds
  <2>4. \/ k = 3 /\ ignoreStep' = "visit"
        \/ /\ k # 3 /\ ignoreStep' = "look" /\ looking' = [looking EXCEPT !.kind = @ + 1]
    BY <1>1, <2>3 DEF Look
  <2> HIDE DEF file, k
  <2> QED BY <1>1, <2>1, <2>2, <2>4
<1>6. IsRules(rules', origin) /\ (rules' = rules \/ Extends(rules', rules, q))
  <2> HIDE DEF one, lines, q
  <2>1. IsRules(AddFile(rules, one), origin) /\ Extends(AddFile(rules, one), rules, q)
    BY <1>1, <1>4, AddFileIs
  <2>2. rules' = rules \/ rules' = AddFile(rules, one)
    BY <1>4, <1>5
  <2> QED BY <1>1, <2>1, <2>2
<1>7. file \in Seq(IgnoreFiles) /\ Pend(file) = IF lines = <<>> THEN {} ELSE {one}
  <2> HIDE DEF one, lines, file, IgnoreFiles
  <2> QED BY <1>4 DEF Pend
<1>8. Taken' = Taken \cup (IF lines = <<>> THEN {} ELSE {one})
  <2> HIDE DEF file, lines, one, IgnoreFiles
  <2>1. begun' = begun
    BY <1>5
  <2>2. Taken' = {(found \o file)[i] : i \in begun.files + 1 .. Len(found \o file)}
    BY <1>5, <2>1 DEF Taken
  <2>3. {(found \o file)[i] : i \in begun.files + 1 .. Len(found \o file)} = Taken \cup Pend(file)
    BY <1>1, <1>7, TakenGrows DEF Taken
  <2> QED BY <1>7, <2>2, <2>3
<1>9. begun.files <= Len(found')
  <2> HIDE DEF file, IgnoreFiles
  <2>1. Len(found') = Len(found) + Len(file) /\ Len(file) \in Nat /\ Len(found) \in Nat
    BY <1>1, <1>5, <1>7
  <2> QED BY <1>1, <2>1
<1>10. \/ k = 3 /\ ignoreStep' = "visit"
       \/ k # 3 /\ ignoreStep' = "look" /\ looking'.dir = q /\ looking'.kind = k + 1
  <2>1. looking \in [dir: Paths, kind: 1 .. 3]
    BY DEF Settled, Look
  <2> QED BY <1>5, <2>1
<1> QED BY <1>5, <1>6, <1>8, <1>9, <1>10 DEF Looks

LEMMA WalkByLook ==
  ASSUME Settled, Walk, Walking, ignoreStep = "look",
         NEW one, Looks(looking.dir, one)
  PROVE  Walk'
<1> DEFINE q == looking.dir
           k == looking.kind
<1>1. /\ tree \in Trees /\ origin \in Paths /\ IsRules(rules, origin) /\ IsRules(rules', origin)
      /\ rules' = rules \/ Extends(rules', rules, q)
      /\ tree' = tree /\ opts' = opts /\ origin' = origin /\ begun' = begun
      /\ toVisit' = toVisit /\ toSkip' = toSkip
      /\ Entered(q) /\ k \in 1 .. 3 /\ toVisit \in Seq(Paths)
      /\ \A e \in toSkip : Of(e)
  BY DEF Settled, Walk, Rulings, Apart, LookRight, Looks, given
<1>2. q \in Paths /\ Of(q) /\ Under(origin, q)
  BY <1>1, OfIsPath DEF Entered
<1> HIDE DEF q, k
<1>3. \A p \in Paths : Under(origin, p) /\ ~(Under(q, p) /\ q # p) =>
        /\ IgnoredBy(rules, p) <=> IgnoredBy(rules', p)
        /\ \A d : d # Root => (IgnoredBy(Minus(rules, d), p) <=> IgnoredBy(Minus(rules', d), p))
  <2>1. CASE rules' = rules
    BY <2>1
  <2>2. CASE Extends(rules', rules, q)
    BY <1>1, <1>2, <2>2, Untouched
  <2> QED BY <1>1, <2>1, <2>2
<1>4. Minus(rules', q) = Minus(rules, q) /\ DOMAIN rules \subseteq DOMAIN rules'
      /\ DOMAIN rules' \subseteq DOMAIN rules \cup {q}
  BY <1>1, MinusSame DEF Extends
<1>5. /\ \A d : EarlierRules(d) = IF Parent(d) = origin THEN begun.rules ELSE Minus(rules, Parent(d))
      /\ \A d : EarlierRules(d)' = IF Parent(d) = origin THEN begun.rules ELSE Minus(rules', Parent(d))
  BY <1>1 DEF EarlierRules, Minus
<1>6. \A d : (Of(d)' <=> Of(d)) /\ (Watched(d)' <=> Watched(d)) /\ (Clear(d)' => Clear(d))
  <2>1. \A d : Mistaken(d) => Mistaken(d)'
    BY <1>4 DEF Mistaken
  <2>2. \A d : Above(d)' = Above(d)
    BY <1>1 DEF Above
  <2> QED BY <1>1, <2>1, <2>2 DEF Of, Watched, Watches, Clear
<1>7. /\ \A d : Entered(d)' <=> Entered(d)
      /\ \A d, x : FileAt(d, x)' = FileAt(d, x)
      /\ \A d, i : Taking(d, i)' = Taking(d, i)
  BY <1>1, <1>6 DEF Entered, FileAt, Taking
<1>8. \A p : Of(p) /\ p # origin /\ ~(Under(q, p) /\ q # p) =>
        (IgnoredBy(EarlierRules(p), p) <=> IgnoredBy(EarlierRules(p)', p))
  <2> SUFFICES ASSUME NEW p, Of(p), p # origin, ~(Under(q, p) /\ q # p)
               PROVE  IgnoredBy(EarlierRules(p), p) <=> IgnoredBy(EarlierRules(p)', p)
    OBVIOUS
  <2>1. p \in Paths /\ Under(origin, p)
    BY <1>1, OfIsPath
  <2>2. Parent(p) # origin => Parent(p) # Root
    BY <1>1, <2>1, ParentOf
  <2>3. CASE Parent(p) = origin
    BY <1>5, <2>3
  <2>4. CASE Parent(p) # origin
    <3>1. EarlierRules(p) = Minus(rules, Parent(p)) /\ EarlierRules(p)' = Minus(rules', Parent(p))
      BY <1>5, <2>4
    <3> QED BY <1>3, <2>1, <2>2, <2>4, <3>1
  <2> QED BY <2>3, <2>4
<1>9. \A p : Parent(p) = q => EarlierRules(p)' = EarlierRules(p)
  BY <1>4, <1>5
<1>10. \A p : Of(p) /\ ~(Under(q, p) /\ q # p) => (Shut(p)' <=> Shut(p))
  <2> SUFFICES ASSUME NEW p, Of(p), ~(Under(q, p) /\ q # p) PROVE Shut(p)' <=> Shut(p)
    OBVIOUS
  <2>1. p \in Paths /\ Under(origin, p)
    BY <1>1, OfIsPath
  <2>2. Shut(p)' <=> IgnoredBy(rules', p) \/ (p # origin /\ IgnoredBy(EarlierRules(p)', p))
    BY <1>1 DEF Shut
  <2>3. Shut(p) <=> IgnoredBy(rules, p) \/ (p # origin /\ IgnoredBy(EarlierRules(p), p))
    BY DEF Shut
  <2> QED BY <1>3, <1>8, <2>1, <2>2, <2>3
<1>11. /\ Taken' = Taken \cup (IF FileAt(q, Kinds[k]) = <<>> THEN {} ELSE {one})
       /\ one = Taking(q, k) /\ one.in = q /\ begun.files <= Len(found')
       /\ \/ k = 3 /\ ignoreStep' = "visit"
          \/ k # 3 /\ ignoreStep' = "look" /\ looking'.dir = q /\ looking'.kind = k + 1
  BY DEF Looks, q, k, Taking, File
<1>12. /\ \A d : Entered(d) /\ Under(q, d) => d = q
       /\ \A x \in Pend(toVisit) : Under(q, x) => Parent(x) = q
       /\ \A e \in toSkip : Under(q, e) => Parent(e) = q /\ (Clear(e) => IgnoredBy(EarlierRules(e), e))
       /\ \A x \in Pend(toVisit) \cup toSkip : Of(x) /\ ~Under(x, q) /\ x # origin
  <2>1. \A x \in Pend(toVisit) \cup toSkip : Of(x) /\ ~Under(x, q)
    BY <1>1 DEF Entered, Walk, Apart
  <2> QED BY <1>2, <2>1 DEF Walk, LookRight, q
<1>13. Rulings'
  BY <1>1, <1>11 DEF Walk, Rulings
<1>14. Apart'
  BY <1>1, <1>6, <1>12 DEF Walk, Apart
<1>15. Took'
  <2>1. ASSUME NEW d, Entered(d)', NEW i \in 1 .. Searched(d)', FileAt(d, Kinds[i])' # <<>>
        PROVE  Taking(d, i)' \in Taken'
    <3>1. CASE d = q
      <4>1. Searched(d)' = k /\ Searched(d) = k - 1
        BY <1>1, <1>11, <3>1 DEF Searched, q, k
      <4>2. CASE i = k
        BY <1>7, <1>11, <2>1, <3>1, <4>2
      <4>3. CASE i # k
        <5>1. i \in 1 .. Searched(d)
          BY <1>1, <4>1, <4>3
        <5> QED BY <1>7, <1>11, <2>1, <5>1 DEF Walk, Took
      <4> QED BY <4>2, <4>3
    <3>2. CASE d # q
      <4>1. Searched(d)' = 3 /\ Searched(d) = 3
        BY <1>11, <3>2 DEF Searched, q
      <4> QED BY <1>7, <1>11, <2>1, <4>1 DEF Walk, Took
    <3> QED BY <3>1, <3>2
  <2>2. \A f \in Taken' : Entered(f.in)'
    BY <1>1, <1>7, <1>11 DEF Walk, Took
  <2>3. \A d \in DOMAIN rules' : d \in {Root, origin'} \/ Entered(d)'
    BY <1>1, <1>4, <1>7 DEF Walk, Took
  <2> QED BY <2>1, <2>2, <2>3 DEF Took
<1>16. EnteredRight'
  <2> SUFFICES ASSUME NEW d, Entered(d), Clear(d)' PROVE ~Shut(d)' /\ Watched(d)'
    BY <1>7 DEF EnteredRight
  <2>1. Of(d) /\ ~(Under(q, d) /\ q # d) /\ Clear(d)
    BY <1>6, <1>12 DEF Entered
  <2> QED BY <1>6, <1>10, <2>1 DEF Walk, EnteredRight
<1>17. SkippedRight'
  <2> SUFFICES ASSUME NEW e \in toSkip, Clear(e)' PROVE Shut(e)' \/ ~Watched(e)'
    BY <1>1 DEF SkippedRight
  <2>1. Of(e) /\ Clear(e) /\ (Shut(e) \/ ~Watched(e)) /\ e # origin
    BY <1>6, <1>12 DEF Walk, SkippedRight
  <2>2. CASE Under(q, e)
    <3>1. IgnoredBy(EarlierRules(e)', e)
      BY <1>9, <1>12, <2>1, <2>2
    <3> QED BY <1>1, <2>1, <3>1 DEF Shut
  <2>3. CASE ~Under(q, e)
    BY <1>6, <1>10, <2>1, <2>3
  <2> QED BY <2>2, <2>3
<1>18. PendingRight'
  <2> SUFFICES ASSUME NEW x \in Pend(toVisit), Clear(x)', IgnoredBy(EarlierRules(x)', x) PROVE FALSE
    BY <1>1 DEF PendingRight
  <2>1. Of(x) /\ Clear(x) /\ x # origin /\ ~IgnoredBy(EarlierRules(x), x)
    BY <1>6, <1>12 DEF Walk, PendingRight
  <2>2. CASE Under(q, x)
    BY <1>9, <1>12, <2>1, <2>2
  <2>3. CASE ~Under(q, x)
    BY <1>8, <2>1, <2>3
  <2> QED BY <2>2, <2>3
<1>19. LookRight'
  <2> SUFFICES ASSUME ignoreStep' = "look" PROVE LookRight'
    BY DEF LookRight
  <2>1. looking'.dir = q /\ looking'.kind \in 1 .. 3
    BY <1>1, <1>11
  <2>2. \A e \in toSkip : Under(q, e) =>
          Parent(e) = q /\ (Clear(e)' => IgnoredBy(EarlierRules(e)', e))
    BY <1>6, <1>9, <1>12
  <2> QED BY <1>1, <1>7, <1>12, <2>1, <2>2 DEF LookRight
<1>20. EndRight'
  BY <1>11 DEF EndRight
<1> QED BY <1>13, <1>14, <1>15, <1>16, <1>17, <1>18, <1>19, <1>20 DEF Walk

LEMMA WalkByEnd ==
  ASSUME Settled, Walk, EndTour
  PROVE  Walk'
<1>1. /\ UNCHANGED <<given, found, rules, begun>> /\ toVisit' = toVisit /\ toSkip' = toSkip
      /\ ignoreStep = "visit" /\ ignoreStep' = "select" /\ toVisit = <<>>
      /\ found' = found /\ rules' = rules /\ begun' = begun /\ origin' = origin
  BY DEF EndTour, walk, given
<1>2. \A d : (Entered(d)' <=> Entered(d)) /\ Searched(d)' = Searched(d)
  BY <1>1, SameRules DEF Entered, Searched
<1>3. Rulings' /\ Apart' /\ LookRight' /\ EndRight'
  BY <1>1, SameRules DEF Walk, Rulings, Apart, LookRight, EndRight
<1>4. Took'
  BY <1>1, <1>2, SameRules DEF Walk, Took
<1>5. EnteredRight' /\ SkippedRight' /\ PendingRight'
  BY <1>1, <1>2, SameRules DEF Walk, EnteredRight, SkippedRight, PendingRight
<1> QED BY <1>3, <1>4, <1>5 DEF Walk

LEMMA WalkBegins ==
  ASSUME Settled, BeginTour, ~NewFails(found') /\ ignoreErrors' = ignoreErrors
  PROVE  Walk'
<1>1. /\ found' \in Seq(IgnoreFiles) /\ IsRules(rules', origin)
      /\ DOMAIN rules' \subseteq {Root, origin}
      /\ begun'.files = Len(found') /\ begun'.rules = rules'
      /\ toVisit' = <<origin>> /\ ignoreStep' = "visit" /\ UNCHANGED <<given, toSkip>>
  BY TourBegins
<1>2. toSkip' = {} /\ origin' = origin /\ origin \in Paths
  BY <1>1 DEF Settled, BeginTour, given
<1>3. Pend(toVisit') = {origin} /\ toVisit' \in Seq(Paths) /\ Loose(toVisit')
  <2> HIDE DEF Paths
  <2> QED BY <1>1, <1>2 DEF Pend, Loose
<1>4. Len(found') \in Nat
  <2> HIDE DEF IgnoreFiles
  <2> QED BY <1>1
<1>5. Taken' = {}
  <2>1. Len(found') + 1 .. Len(found') = {}
    BY <1>4
  <2> QED BY <1>1, <2>1 DEF Taken
<1>6. \A d : ~Entered(d)'
  BY <1>2, <1>3 DEF Entered, Of
<1>7. Of(origin)'
  BY <1>2, UnderIs DEF Of
<1>8. Rulings' /\ Apart'
  BY <1>1, <1>2, <1>3, <1>4, <1>7 DEF Rulings, Apart
<1>9. Took' /\ EnteredRight' /\ SkippedRight' /\ PendingRight' /\ LookRight' /\ EndRight'
  BY <1>1, <1>2, <1>3, <1>5, <1>6
     DEF Took, EnteredRight, SkippedRight, PendingRight, LookRight, EndRight
<1> QED BY <1>8, <1>9 DEF Walk

LEMMA WalkAlways ==
  ASSUME Settled, Walking => Walk, [IgnoresNext]_ignoreVars, Walking'
  PROVE  Walk'
<1>1. ignoreErrors \in Nat /\ ignoreErrors' = 0
  BY DEF Settled, Walking
<1>2. CASE UNCHANGED ignoreVars
  <2>1. Walking
    BY <1>2 DEF Walking, ignoreVars
  <2>2. UNCHANGED <<tree, opts, origin, found, rules, begun, toVisit, toSkip, looking, ignoreStep>>
    BY <1>2 DEF ignoreVars
  <2>3. UNCHANGED <<given, found, rules, begun>>
    BY <2>2 DEF given
  <2>4. \A d : (Entered(d)' <=> Entered(d)) /\ Searched(d)' = Searched(d)
    BY <2>2, <2>3, SameRules DEF Entered, Searched
  <2>5. Rulings' /\ Apart' /\ LookRight' /\ EndRight'
    BY <2>1, <2>2, <2>3, <2>4, SameRules DEF Walk, Rulings, Apart, LookRight, EndRight
  <2>6. Took' /\ EnteredRight' /\ SkippedRight' /\ PendingRight'
    BY <2>1, <2>2, <2>3, <2>4, SameRules DEF Walk, Took, EnteredRight, SkippedRight, PendingRight
  <2> QED BY <2>5, <2>6 DEF Walk
<1>3. CASE BeginTour
  <2>1. ~NewFails(found') /\ ignoreErrors' = ignoreErrors
    BY <1>1, <1>3 DEF BeginTour
  <2> QED BY <1>3, <2>1, WalkBegins
<1>4. CASE Visit
  <2>1. ignoreErrors = 0
    <3>1. ignoreErrors' = ignoreErrors \/ ignoreErrors' = ignoreErrors + 1
      BY <1>4 DEF Visit, Visiting, ReadDir
    <3> QED BY <1>1, <3>1
  <2>2. Walking
    BY <1>4, <2>1 DEF Walking, Visit, Visiting
  <2> QED BY <1>4, <2>2, VisitIs, WalkBySkip, WalkByEnter
<1>5. CASE Look
  <2>1. ignoreErrors = 0
    <3>1. \E n \in {0, 1} : ignoreErrors' = ignoreErrors + n
      <4> DEFINE bad == LET file == Discover(FileAt(looking.dir, Kinds[looking.kind]), looking.dir,
                                             To(Kinds[looking.kind]))
                        IN file # <<>> /\ AddFails(file[1])
      <4>1. \/ ignoreErrors' = ignoreErrors + (IF bad THEN 1 ELSE 0)
            \/ ignoreErrors' = ignoreErrors + 1
        BY <1>5 DEF Look
      <4> HIDE DEF bad
      <4> QED BY <4>1
    <3> QED BY <1>1, <3>1
  <2>2. Walking /\ ignoreStep = "look"
    BY <1>5, <2>1 DEF Walking, Look
  <2>3. Looks(looking.dir, Taking(looking.dir, looking.kind))
    BY <1>5, <2>2, LooksAtOne
  <2> QED BY <2>2, <2>3, WalkByLook
<1>6. CASE EndTour
  <2>1. Walking
    BY <1>1, <1>6 DEF EndTour, Walking
  <2> QED BY <1>6, <2>1, WalkByEnd
<1>7. CASE Normalise \/ Select \/ Build \/ Check
  BY <1>7 DEF Normalise, Select, Build, Check, Walking
<1> QED BY <1>2, <1>3, <1>4, <1>5, <1>6, <1>7 DEF IgnoresNext

LEMMA WalkDecided ==
  ASSUME Settled, Walking => Walk
  PROVE  WalkIsRight
<1> SUFFICES ASSUME ignoreStep = "select", ~opts.noProject, ignoreErrors = 0,
                    NEW d \in Ways, NEW i \in DOMAIN Kinds, FileAt(d, Kinds[i]) # <<>>
             PROVE  Open(d) <=> Taking(d, i) \in Taken
  BY DEF WalkIsRight, Taking
<1>1. Walk /\ tree \in Trees /\ origin \in Paths /\ toVisit \in Seq(Paths) /\ toVisit = <<>>
      /\ (\A e \in toSkip : Of(e)) /\ i \in 1 .. 3
  BY DEF Settled, Walking, Walk, EndRight, Rulings, Apart, Kinds
<1>2. Of(d) /\ Clear(d) /\ d \in Paths /\ Under(origin, d)
  BY <1>1, OfIsPath DEF Ways, Of, Clear
<1>3. \A e : e \in Above(d) => e \in Paths /\ Of(e) /\ Under(e, d) /\ Under(origin, e) /\ Clear(e)
  <2> SUFFICES ASSUME NEW e \in Above(d) PROVE e \in Paths /\ Of(e) /\ Under(e, d)
                                                /\ Under(origin, e) /\ Clear(e)
    OBVIOUS
  <2>1. e \in Paths /\ Under(e, d) /\ Under(origin, e)
    BY <1>1, <1>2, AboveIs
  <2>2. Of(e)
    BY <1>1, <1>2, <2>1, OfClosed
  <2>3. \A x : x \in Above(e) => x \in Above(d)
    BY <1>1, <1>2, <2>1, AboveIs, UnderIs
  <2> QED BY <1>2, <2>1, <2>2, <2>3 DEF Clear
<1>4. ASSUME Taking(d, i) \in Taken PROVE Open(d)
  <2>1. Entered(d)
    BY <1>1, <1>4 DEF Walk, Took, Taking, File
  <2>2. \A e \in Above(d) : Entered(e)
    BY <1>1, <1>3, <2>1, EnteredAbove
  <2> QED BY <1>1, <1>3, <2>2 DEF Open, Walk, EnteredRight
<1>5. ASSUME Open(d) PROVE Taking(d, i) \in Taken
  <2>1. \A e \in toSkip : ~Under(e, d)
    <3> SUFFICES ASSUME NEW e \in toSkip, Under(e, d) PROVE FALSE
      OBVIOUS
    <3>1. e \in Paths /\ Under(origin, e)
      BY <1>1, OfIsPath
    <3>2. e \in Above(d)
      BY <1>1, <1>2, <3>1, AboveIs
    <3> QED BY <1>1, <1>3, <1>5, <3>2 DEF Open, Walk, SkippedRight
  <2>2. Entered(d)
    BY <1>1, <1>2, <2>1 DEF Entered, Pend
  <2>3. Searched(d) = 3
    BY DEF Searched
  <2> QED BY <1>1, <2>2, <2>3 DEF Walk, Took
<1> QED BY <1>4, <1>5

(* Whatever is on the disk and however it is listed: a walk without errors *)
(* (discover.rs:499-661) takes the ignore files of the directories that no *)
(* rule ignores in the end, and an event is dropped exactly when the rules *)
(* that were loaded ignore its path (filter.rs:339-416, the filterers'     *)
(* check_event).                                                           *)
THEOREM IgnoresApplyTheorem == IgnoresSpec => []IgnoresApply
<1> DEFINE Inv == Settled /\ Answered /\ (Walking => Walk)
<1>1. IgnoresInit => Inv
  BY SettledAtFirst DEF IgnoresInit, Walking
<1>2. Inv /\ [IgnoresNext]_ignoreVars => Inv'
  BY SettledAlways, WalkAlways
<1>3. Inv => IgnoresApply
  BY EventDecided, WalkDecided DEF IgnoresApply
<1> HIDE DEF Inv
<1> QED BY <1>1, <1>2, <1>3, PTL DEF IgnoresSpec
=============================================================================
