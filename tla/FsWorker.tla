------------------------------ MODULE FsWorker ------------------------------
(***************************************************************************)
(* The filesystem worker of watchexec: it follows two settings other tasks *)
(* may change at any time, the set of paths to watch and the kind of       *)
(* watcher, and keeps an OS watcher in step with them.  A change is a      *)
(* notification without memory: it reaches the worker only while it waits. *)
(***************************************************************************)
EXTENDS Naturals, FiniteSets

CONSTANTS
  Pathsets,    \* the path sets the configuration may hold
  WatcherKinds, \* the kinds of watcher it may ask for
  MaxChanges   \* bound: changes of the configuration in one behaviour

WatchedPath == UNION Pathsets   \* records [path, recursive]

VARIABLES
  paths, kind,     \* config.pathset, config.file_watcher
  changes,         \* number of changes so far
  fsPc,              \* where the worker is in its loop
  first,           \* ConfigWatched::first_run
  notified,        \* the Notified the worker awaits has been notified
  watcher,         \* kind of the live OS watcher, "none" without one
  watched,         \* what the OS watcher watches, one entry per path
  tracked,         \* the worker's pathset
  toDrop, toWatch, \* the differences being applied
  applied,         \* history: the path set last read for a difference
  failed,          \* history: paths whose watch or unwatch failed since
  ready,           \* history: number of the change the last fs_ready covers
  swapped,         \* history: the watcher was replaced while paths were tracked
  doubled          \* history: paths that were watched in one mode while tracked in the other

config == <<paths, kind, changes>>
work == <<toDrop, toWatch, applied, failed>>
fsVars == <<paths, kind, changes, fsPc, first, notified, watcher, watched, tracked,
          toDrop, toWatch, applied, failed, ready, swapped, doubled>>

FsInit ==
  /\ paths = {} /\ kind \in WatcherKinds /\ changes = 0
  /\ fsPc = "next" /\ first = TRUE /\ notified = FALSE
  /\ watcher = "none" /\ watched = {} /\ tracked = {}
  /\ toDrop = {} /\ toWatch = {} /\ applied = {} /\ failed = {} /\ ready = 0
  /\ swapped = FALSE /\ doubled = {}

-----------------------------------------------------------------------------
(* Config: replace a value, then notify_waiters().                         *)

Notify == notified' = (notified \/ fsPc = "wait")

ChangePaths ==
  /\ changes < MaxChanges
  /\ paths' \in Pathsets /\ changes' = changes + 1
  /\ Notify
  /\ UNCHANGED <<kind, fsPc, first, watcher, watched, tracked, work, ready, swapped, doubled>>

ChangeKind ==
  /\ changes < MaxChanges
  /\ kind' \in WatcherKinds \ {kind} /\ changes' = changes + 1
  /\ Notify
  /\ UNCHANGED <<paths, fsPc, first, watcher, watched, tracked, work, ready, swapped, doubled>>

-----------------------------------------------------------------------------
(* ConfigWatched::next: the first call returns at once.                    *)
NextChange ==
  /\ fsPc = "next"
  /\ fsPc' = IF first THEN "read" ELSE "wait"
  /\ first' = FALSE
  /\ UNCHANGED <<config, notified, watcher, watched, tracked, work, ready, swapped, doubled>>

Notified ==
  /\ fsPc = "wait" /\ notified
  /\ notified' = FALSE
  /\ fsPc' = "read"
  /\ UNCHANGED <<config, first, watcher, watched, tracked, work, ready, swapped, doubled>>

(* An empty path set drops the watcher, and that is said too.              *)
AnyReadPaths(covered) ==
  /\ fsPc = "read"
  /\ \/ /\ paths = {}
        /\ watcher' = "none" /\ watched' = {} /\ tracked' = {}
        /\ applied' = {} /\ failed' = {} /\ ready' = covered
        /\ swapped' = FALSE /\ doubled' = {}
        /\ fsPc' = "next"
     \/ /\ paths # {}
        /\ fsPc' = "create"
        /\ UNCHANGED <<watcher, watched, tracked, applied, failed, ready, swapped, doubled>>
  /\ UNCHANGED <<config, first, notified, toDrop, toWatch>>
ReadPathsSilently == AnyReadPaths(ready)
ReadPaths == AnyReadPaths(changes)

(* A new watcher starts empty; the tracked paths are left as they are.     *)
CreateWatcher ==
  /\ fsPc = "create"
  /\ \/ watcher = kind /\ fsPc' = "diff" /\ UNCHANGED <<watcher, watched, swapped>>
     \/ /\ watcher # kind
        /\ watched' = {} /\ swapped' = (swapped \/ tracked # {})
        /\ \/ fsPc' = "diff" /\ watcher' = kind
           \/ fsPc' = "dead" /\ watcher' = "none"
  /\ UNCHANGED <<config, first, notified, tracked, work, ready, doubled>>

Difference ==
  /\ fsPc = "diff"
  /\ toDrop' = tracked \ paths /\ toWatch' = paths \ tracked
  /\ applied' = paths /\ failed' = {}
  /\ fsPc' = "drop"
  /\ UNCHANGED <<config, first, notified, watcher, watched, tracked, ready, swapped, doubled>>

(* Unwatching is by the path alone: it ends the watch in either mode.  It  *)
(* fails for a path that is not watched, and may fail for one that is;     *)
(* then that stays tracked, as remains says, to be tried again.            *)
AnyDropPath(w, remains) ==
  /\ fsPc = "drop" /\ w \in toDrop
  /\ toDrop' = toDrop \ {w}
  /\ \/ /\ \E v \in watched : v.path = w.path
        /\ watched' = {v \in watched : v.path # w.path}
        /\ tracked' = tracked \ {w}
        /\ doubled' = {p \in doubled : \E v \in tracked' : v.path = p}
        /\ UNCHANGED failed
     \/ failed' = failed \cup {w} /\ tracked' = remains /\ UNCHANGED <<watched, doubled>>
  /\ UNCHANGED <<config, fsPc, first, notified, watcher, toWatch, applied, ready, swapped>>
DropPathForgets(w) == AnyDropPath(w, tracked \ {w})
DropPath(w) == AnyDropPath(w, tracked)

(* Watching a path replaces the mode it was watched with; onFailure is     *)
(* what is tracked when it fails.                                          *)
AnyWatchPath(w, onFailure) ==
  /\ fsPc = "watch" /\ w \in toWatch
  /\ toWatch' = toWatch \ {w}
  /\ \/ /\ watched' = {v \in watched : v.path # w.path} \cup {w}
        /\ tracked' = tracked \cup {w}
        /\ doubled' = doubled \cup {v.path : v \in {t \in tracked : t.path = w.path /\ t # w}}
        /\ UNCHANGED failed
     \/ failed' = failed \cup {w} /\ tracked' = onFailure /\ UNCHANGED <<watched, doubled>>
  /\ UNCHANGED <<config, fsPc, first, notified, watcher, toDrop, applied, ready, swapped>>
WatchPathAnyway(w) == AnyWatchPath(w, tracked \cup {w})
WatchPath(w) == AnyWatchPath(w, tracked)

AllDropped ==
  /\ fsPc = "drop" /\ toDrop = {}
  /\ fsPc' = "watch"
  /\ UNCHANGED <<config, first, notified, watcher, watched, tracked, work, ready, swapped, doubled>>

(* config.fs_ready.send(()), then back to the top of the loop.             *)
Ready ==
  /\ fsPc = "watch" /\ toWatch = {}
  /\ ready' = changes
  /\ fsPc' = "next"
  /\ UNCHANGED <<config, first, notified, watcher, watched, tracked, work, swapped, doubled>>

(* Every failure is sent to the error channel; when nobody receives there  *)
(* any more the worker ends, and its watcher with it.                      *)
ErrorsClosed ==
  /\ fsPc \in {"drop", "watch"} /\ failed # {}
  /\ fsPc' = "dead" /\ watcher' = "none" /\ watched' = {}
  /\ UNCHANGED <<config, first, notified, tracked, work, ready, swapped, doubled>>

Apply ==
  \/ NextChange \/ Notified \/ ReadPaths \/ CreateWatcher \/ Difference \/ AllDropped \/ Ready
  \/ \E w \in WatchedPath : DropPath(w) \/ WatchPath(w)

FsNext == ChangePaths \/ ChangeKind \/ Apply \/ ErrorsClosed

FsSpec == FsInit /\ [][FsNext]_fsVars

(* The runtime runs the worker; nobody owes a change.                      *)
FsFairSpec == FsSpec /\ WF_fsVars(Apply)

-----------------------------------------------------------------------------
FsIdle == fsPc = "wait" /\ ~notified /\ applied = paths

(* When the worker rests and no change slipped by it, what the watcher     *)
(* watches and what is configured (sources/fs.rs:157-220) differ by paths  *)
(* it reported as failed only: what failed to be unwatched earlier is      *)
(* tried again by every later pass.  Known exceptions, where a configured  *)
(* path may be missing: the kind of watcher was changed over tracked paths;*)
(* or the path is doubled, watched in one mode while tracked in the other, *)
(* because it is configured in both or its unwatch failed as its mode      *)
(* changed: the later watch replaces the first, and an unwatch ends both.  *)
WatchedIsConfigured ==
  FsIdle => /\ watched \subseteq paths \cup failed
            /\ ~swapped => \A w \in paths : w \in watched \cup failed \/ w.path \in doubled

(* config.rs:111, with a non-empty path set the source is "configured to   *)
(* provide events for these paths", whatever changes came before.          *)
AlwaysWatchesPathset == FsIdle => paths \subseteq watched \cup failed

(* A change made while the worker waits is applied or superseded by a      *)
(* later one, whatever fails on the way (fs_ready, config.rs:205-211).     *)
CaughtChangeIsApplied ==
  \A n \in 1 .. MaxChanges : (changes = n /\ notified) ~> (ready >= n \/ fsPc = "dead")
=============================================================================
