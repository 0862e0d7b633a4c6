# Formal models of linux-on-windows

The repository is a set of Unix tools written in Rust for Windows: some forty
small programs, one crate each (`src/<tool>/src/main.rs`), and a vendored and
trimmed `watchexec` (`src/watchexec/crates/*`), which runs a command again when
files change. This directory holds TLA+ models of the parts whose correctness
depends on the order in which things happen, the TLC configurations that check
them on small instances, and proofs that TLAPS checks.

`PROJECT.json` is the index: components, runs, mutants (for every checked
property, a plausible bug of the code that it catches), the map from
definitions to source lines, findings, hazards and theorems.

## 1. Inventory

### watchexec

One process, many tokio tasks. The main task spawns five workers (action,
error hook, filesystem, signal, keyboard) and joins them. Event sources put
events on a bounded priority channel; the action worker batches them and calls
the program's handler; the handler controls jobs; every job is a task of its
own with a child process.

| component | state | operations | hard because of | correct when |
|---|---|---|---|---|
| supervisor `job/task.rs`, `priority.rs`, `job.rs`, `state.rs` | command state, stop timer, waiting done flags, three queues | eleven controls, the child's end, the timer, the end of the task | client calls, timer and child race; every syscall may fail | one process at a time, every ticket answered, in order, and truthfully |
| supervisor `flag.rs`, `messages.rs` | an atomic flag and one waker slot per flag | poll, raise | poll and raise interleave instruction by instruction | no lost wake-up |
| lib `action/worker.rs`, `handler.rs`, `late_join_set.rs` | event channel, batch, jobs by Id, job tasks | collect, filter, call the handler, adopt, forget, quit | throttle, priorities, a channel closed midway, jobs that die any time | trailing-edge debounce, no job out of reach, quitting leaves nothing behind |
| lib `sources/fs.rs`, `config.rs`, `watched_path.rs` | configured paths and kind, OS watcher, tracked paths | reconfigure; read, create, unwatch, watch, report | configuration changes during a pass; notifications without memory; partial failures | what is configured is what is watched |
| lib `watchexec.rs`, `error/*` | error channel, five worker tasks | join, error hook, critical exit, shutdown of the runtime | order of the ends of the workers, reports into a full or closed channel | an asked-for exit happens and is not an error |
| lib `sources/signal.rs`, `keyboard.rs` | terminal mode, sessions, reader threads, pipes | start, stop, read, give back the terminal | a blocking read that must be cancelled, sessions that overlap | raw mode is undone, a closed session's thread ends, no signal is lost |
| cli `config.rs` | `queued`, `paused`, `should_quit`, one watcher task per run | the action handler, `setup_process`, `end_of_process` | four kinds of task send controls to one job | every change and every failure has its effect |
| ignore-files, filterer/*, project-origins; cli `filterer.rs`, `dirs.rs`, `args/filtering.rs`; lib `paths.rs` | directories to visit and to skip, rules by directory | find the origin, walk, load, match, check an event | rules found late, reads that finish in any order, files that cannot be read | the rules in force decide what is walked and what is dropped |
| cli `args*`, `socket/*` | none after start-up | parse | - | - |
| events, signals | none | conversions | - | conversions invert each other |
| bosion | none | build-time code generation | - | - |

### The tools

| group | tools | state and operations | hard because of | correct when |
|---|---|---|---|---|
| editor | `nano` | a text buffer, cursor, undo and redo lists, cut buffer, file; some forty keys | long sequences of keys; rows and columns at the edges; a write that fails halfway | the cursor is in the buffer, no text is lost |
| monitors | `htop`, `top`, `iotop`, `iptop` | a table refreshed on a timer, filter, scroll, sort, a prompt | the table shrinks under the scroll position, pids are used again, readings fail, the terminal is resized under a prompt | the screen shows the last reading, a figure is one interval's |
| follower | `tail` | offset into a growing file | truncation and replacement between two looks | all that is appended is printed once |
| file replacement | `gzip`, `bzip2`, `zip`, `unzip`, `cp`, `mv`, `rm` | source and target files | failure or interruption between write and remove | contents are whole somewhere at every moment, the exit code tells the truth |
| search | `sfind`, `locate` | an expression, directories to walk, an index file | files that come and go, a writer of the index that is killed, the order of `-delete` | what is acted upon is what was asked for |
| handles, sockets, packets | `lsof`, `ss`, `tcpdump` | a name thread with a time limit, socket tables, a flow table and a capture file | late answers into a slot used again, tables that grow between two calls, numbers that wrap, a broken write | a row is true |
| network, processes | `dig`, `kill`, `pgrep`, `ps`, `watch` | none that lasts | pointer loops in compressed names (`dig`) | - |
| text | `base64`, `cat`, `cut`, `diff`, `echo`, `grep`, `head`, `sort`, `tac`, `tr`, `uniq`, `wc` | none: functions of their input | boundaries | - |
| information | `file`, `free`, `icat`, `ls`, `neofetch`, `stat`, `touch` | none | - | - |

## 2. What is modelled

    watchexec                                        tools
      MainTask --extends--> Keyboard                   FileTools = Gzip, Move, Copy, Zip over Disk
        joins                                          Nano
      ActionWorker <--events-- FsWorker, ...           Monitors = htop, top, iotop, iptop over Monitor
        calls                                          Tail   Lsof   Sockets   Capture
      OnBusy --controls, from outside--> a job         Find over Globs
      JobContract <=refines= SupervisorJob
                               |  tickets
                             TicketFlag
      Ignores over IgnoreRules

Where several parts share a run (`MCTickets`, `MCWorkers`, `MCTools`), each has
variables of its own and a variable `part` says which of them a behaviour
explores; the others rest. They share nothing, so the states add up and do not
multiply, and every part is checked as if alone. The MC modules extend the parts
whose properties are also proved, so that run and theorem speak of the same
definition, and take the others with `INSTANCE`.

### watchexec

**SupervisorJob** is `start_job` and `PriorityReceiver::recv`. A ticket is the
number of the control it was returned for; a process is the number of the spawn
that made it. The program counter has the places where the task really
suspends or is seen by others: the top of the loop (where `running_flag` is
stored), the ordered first look at the queues (`poll`), the unordered wait
(`select`), a control being handled, the respawn after a child's end, and the
end of the task. Each control is one action with its error paths (a kill, a
wait, a signal, a spawn that fails) as disjuncts. Clients send the controls of
one method one after the other, so that others may come between. Hooks,
functions and error handlers are one action, `Func`: they run inside the task
and change none of its state. `PrioritySender` is unbounded, so is the queue.

**JobContract** is what a job promises from outside: a serial server that
answers normal controls one at a time and oldest first, waiters only when the
process they could have waited for is over, with at most one live process.
**SupervisorRefinement** gives the mapping; `ImplementsContract` is checked as
a property and proved.

**TicketFlag** is `Ticket::poll` and `Flag::{poll, raise}`, instruction by
instruction, over an `AtomicWaker` that keeps one waker. A ticket is ready when
either its own flag or the job's `gone` flag is raised.

**FsWorker** is the loop of `sources/fs.rs`, one action per suspension or call
to the OS watcher, with `Config`'s notifications: `notify_waiters` reaches the
worker only while it waits.

**ActionWorker** is `worker` and `throttle_collect`. The throttle is not a
number: `elapsed` says whether the time since `last` has passed. The handler's
operations are actions that may happen while it runs; a job is a number that
ends some time after its deletion was asked for.

**MainTask** is the join loop of `watchexec.rs`, the error hook with the user's
handler, which may turn an error into a critical one, the signal source, and
what the action and filesystem workers send and how they end. Both channels are
bounded; a report that finds the error channel full waits, and fails the worker
once the hook has gone. **Keyboard** is the keyboard source below it: the
worker that follows the setting, and per session the task, the blocking thread,
the pipe between them, the flag that tells the thread to leave, and the guard
that holds the terminal in raw mode. `Polls` says whether a read of stdin gives
up by itself after a while, as on Unix, or not, as on Windows.

**OnBusy** is the handler the command installs (`cli/src/config.rs`). It runs
against a job seen from outside: a normal queue served in order, shut during a
grace period, with kills that work (SupervisorJob has the ones that fail).
Four kinds of task send: the handler, a function that runs inside the job, the
queued restart, and the watchers; each sends one control at a time (`todo`), so
that any two interleave. The settings are a variable chosen once. `NoChangeForgotten`
says of every state what `ChangesAnswered` says of the end: a change that is not
settled has its question, a start or a queued restart on the way to the job.

**IgnoreRules** has what an ignore file says and how rules are looked up along
a path (`filter.rs`): the file of the innermost directory that says something
decides, and a line that allows a path undoes one that ignores it. **Ignores**
is everything around it: `origins` and `project_origin`, the normalising of the
options, the walk of the `DirTourist` with its two lists, which obeys the rules
it has met so far, the files the options leave, the building of the filter from
reads that complete in any order, and the answer to an event. Every read may
fail.

### The tools

**Nano** is the editor: buffer, cursor, undo, redo, cut buffer, the prompts
that change the buffer, the replace loop one match at a time, reading and
writing files with a write that stops halfway. A key is one action. `Panic`
stands for a key that reads a row or a column that is not there.

**Disk**, **Gzip**, **Move**, **Copy**, **Zip** and **FileTools** are the tools
that rewrite files: `gzip` and `bzip2`, `mv`, `cp`, `zip` and `unzip`. Disk holds
the files, the command line and the program's place in it; each tool's module
has one action per call that creates, fills, closes or removes a file, any of
which may fail. A file is a sequence of contents and whether it is whole; a
`BufWriter` is whole only once it was dropped, which may fail in silence. The
user may give the command once more, wherever it was stopped. FileTools picks
the command and states what all tools owe.

**Monitor** is what the four monitors share: the processes outside, which work,
end and begin under free pids; the reading; the picture; the keys. **Monitors**
has what each program does differently: what it reads, how it orders and draws,
which keys it has. The invariant compares the picture with the last reading.

**Tail** numbers the bytes of the followed file in the order they were ever
written, so that "printed once, in order, and all" can be said; the two ways to
find the last lines, from the front and from the end, are both there.

**Lsof** has the handles one by one: duplicated into a slot of the program's own
table, asked for their type and, in a thread, for their name, closed after the
time limit, so that a late thread may ask about the handle that has the slot
now. The code waits on a channel of the current question, which is why the late
answer goes nowhere.

**Sockets** is `ss` and `lsof -i`: two calls per table with the world changing
between any two, the filters, the counts and the names. **Capture** is
`tcpdump`: parsing, the choice of the adapter, capturing, filtering, sequence
numbers relative to the first of a flow, the buffered file and the reading of
it, with numbers modulo a small power of two. **Globs** holds the two matchers
as one recursive function; **Find** is the parsing of `sfind`'s expression, the
walk, `-print` and `-delete`, and the index `updatedb` writes and both search.

## 3. Runs

Deadlock is not checked: each of these systems really stops (a deleted job, a
worker that quit, an editor that was left) or has nothing to do when the bounded
number of calls is used up.

| run | instance | shows |
|---|---|---|
| SupervisorGraceful | Unix build, 2 clients, 4 controls from eight methods (start, run, signal, plain and graceful stop and restart, `to_wait`, `delete_now`), handles may be dropped; 1.06 million states | no ticket lost, no two processes, an answer means the process ended, grace respected; the contract, and with it the order of answers, is implemented |
| TicketsAnswered | 2 tasks, 2 tickets and the `gone` flag; and a job with 1 client and 3 controls of every method but `delete_now` | no lost wake-up of a flag that one task awaits; every ticket but `to_wait`'s resolves, and `to_wait` once its process ended |
| Workers | action worker: 2 Ids, 2 jobs, 2 events, a channel of one; filesystem: 2 paths, one of them in either mode or in both, 2 kinds of watcher, 4 changes; OnBusy: the four modes, some with timeout, keys and failing commands; Ignores: a project of seven directories with rules in up to five places, five option sets, one failed read | trailing edge, no job lost, quitting reaps all, events that found room are handled; at rest the configured paths are watched; no change is forgotten, and each is answered as the mode says; nothing runs beyond its timeout; the walk and the filter obey the rules |
| LibMain | 2 sessions, 2 toggles, a pipe of one, 2 signals, both channels of one, one error | terminal restored, an asked-for exit happens and is clean, signals arrive, a closed session's thread ends |
| NanoEdit | a file of one line of two letters and a blank, terms of one and of two characters, two edits, an undo list of one | the cursor stays in the buffer but for named keys, an exit keeps the text, text that a key replaces stays among the snapshots, Replace All ends and is complete |
| Tools | the file tools: two files, some 50 command lines over 5 disks, each given up to twice; monitors: 2 pids, heights 1 and 9, 4 steps; tail: 5 bytes, 3 looks, a threshold of 3; lsof: 3 handles, 2 slots; sockets: 5 sockets, 2 changes; capture: 3 packets, numbers modulo 8; find: trees of up to six paths, an index that looks two directories deep, one name with a bracket, limits of none, 0 and 1, 2 changes by others; 1.25 million states | whatever fails and whoever else acts, contents stay whole and exit codes true; the screen is current; what is appended is printed; rows, sequence numbers, read-back captures and search results are true |
| SupervisorSecondRestart | 1 client, 2 controls | **finding**: a graceful restart that ran into its timer restarts once more |
| TicketFlagGone | as in TicketsAnswered | **finding**: of two tasks that await tickets of one job, only one learns that the job is gone |
| FsWorkerKind | 1 path, 2 changes | **finding**: after a change of kind nothing is watched |
| LibHang | as LibMain, with reads that do not give up | **finding**: after the main task ended the process waits for a thread nobody can reach until a key is pressed |
| OnBusyExit | queue mode with `--exit-on-error` | **finding**: the failure of a run is not seen when the queued restart comes first |
| IgnoreNothing | the trees and options of Workers | **finding**: with `--ignore-nothing` an explicit `--ignore-file` is not read either |

*Exceptions.* A property that the code keeps but for a known case names the case
in its own definition, so that everything around it is still checked:
`KnownLoss` in FileTools, the overlap of two sessions in `TerminalRestored`, the
late report and a filesystem or signal worker that failed by itself in
`ExitIsClean`, a path that is `doubled` in `WatchedIsConfigured`, the unnoticed
emptying and the bytes stdout did not take in `FollowIsComplete`, the resize under a prompt in `ListIsCurrent`, `Mistaken` names and rules that come
too late in `IgnoresApply`, and the keys `strayed`
records in `CursorKept` (inserting an empty file on the last row, a command
without output, justifying blank lines, replacing left of the cursor), and in
`ReplaceAllIsComplete` what is `Remade`: replacing `a` and a blank by a blank in
`aa` and a blank makes an instance behind which the loop goes on. `FindIsTrue` says
nothing of what a walk leaves out when its tests look at other files than the one
at hand (`-empty`, `-newer`), and lets `-delete` leave directories that were not
empty when they were met; a pattern of letters with a bracket need not find more
than what it is the same as (`Bracketed`), a limit of 0 may give one, and a `-not`
before a test that cannot be negated may be refused (`MayNotNegate`).
`SocketsAreTrue` measures the options by the help and the comments of `ss` and
`lsof`, and names what is listed all the same (`ListedAnyway`) and what never is
(`NeverListed`). Each is written at its hazard in `PROJECT.json`, and the
disagreements with the tools' own help are collected in section 5.

*Why these bounds.* Four controls let a graceful restart, a stop, a waiter and
an urgent deletion meet around one process; two processes suffice for "the
wrong process", since the last one is the only one the task can name. Two tasks
and two controls are all that compete for a waker slot. Four configuration
changes reach a change during each stage of a pass, and one after. Two events
are one that opens a window and one that joins it, and fill a channel of one.
Three changes in queue mode are one that runs, one that is queued and one that
finds it queued. Two sessions are the least that can overlap; the keyboard's
threads and the channels' reports interleave too freely to run together at full
length, so a behaviour of LibMain has either many settings, or many signals and
errors, or a few of each, and the signal worker fails to register its listeners
only where there are no settings (`MCLibMain`). Two edits in Nano are an edit and an
undone one; the undo list of one is full after the first. A term of two
characters is the shortest of which a replacement can make an instance with the
text beside it. Two files are the
least for a directory that is copied or removed only in part, for two sources
with one target, and for an archive that a second run makes anew. Five bytes and
a threshold of three put a file on either side of the threshold, grow it, empty
it and grow it past the old offset. A terminal of one row is below what every
monitor needs for its frame, one of nine rows leaves some room. Three packets are
two of a flow and an answer, or one with a new connection between. The command
lines of the file tools have a file and a directory, a target that is there
already, a move onto itself, two sources of one target and an archive with two
members of one name, since each of these is where a file was found to be lost. The
trees `sfind` walks have a path three names below the root, just out of reach of an
index that looks into two directories, and two changes by others can take a
file away and bring it back.

*Fairness.* Tokio polls a task that was woken: weak fairness of the task's
steps. `select!` picks among ready branches at random, so a branch that is
ready again and again is taken: strong fairness of the branches of
SupervisorJob, and of the signal source of MainTask, which waits for room in a
channel others fill too. Time passes: weak fairness of timers, throttle and
timeouts, and of a read of stdin where it gives up. Nothing is assumed of
clients, of changes, of users, of signals, or of commands, which may run for
ever, except where a property says so itself (`ChangesAnswered` is,
in queue mode, about commands that keep ending). The handler of ActionWorker is assumed to return.
In Nano only the replace loop is fair, as long as it does not ask. In MCWorkers
a fair action is written `Of(part, Step)`: who is at rest has no step to take.
The tools have safety properties only.

## 4. Proofs

`TLAPS` proves, for every value of the constants:

* **SupervisorJobProofs**: `TypeCorrect`, `NoLostTicketTheorem`,
  `NoOverlapTheorem`, `GraceRespectedTheorem`. The inductive invariant is
  `TypeOK /\ WellFormed /\ NoLostTicket /\ NoOverlap`; `WellFormed` ties the
  control being handled to the queues and the timer, without which a timer's
  control could carry a flag nobody sent. From `ConstantsAssumption` only.
  For `ResolvedMeansEndedTheorem` it is joined by three more: a
  ticket is in one place only (`ServedOnce`), the control in hand is the one
  that was sent or the timer's own (`InHand`), and the process a ticket is
  about was spawned before (`TargetsExist`). Without the first, a ticket could be
  answered once more after a new process began.
  `ImplementsContractTheorem` is the refinement of JobContract
  in full: initial states map to initial states, every step to a step or a
  stutter. It adds that the normal queue is ascending and that all that has left
  it is older (`InOrder`), that only waiters have high priority (`Waiters`), and
  that an ended task has nothing in hand (`GoneIsDead`). Since the contract
  answers the oldest, this is also the proof that answers come in order.
  On tickets and flags: `NoLostWakeupTheorem`. The invariant `Watched` follows a
  task from its first look to its second: once it has passed the first it is
  either registered or about to look again. It assumes that no control is named as
  the job's flag is.
* **WorkerProofs**, on the action worker: `NoLostJobTheorem`,
  `QuitReapsAllTheorem`, `TrailingEdgeTheorem`. The invariant adds to the types:
  every job belongs to the worker or to the handler's new ones (`Owned`), can be
  found by its Id (`Reachable`), under one Id (`FreshIds`), what each phase of
  quitting has achieved (`QuitPhase`), and that a batch is ripe when its window
  has run out (`RipeInTime`). They assume `~SameIdTwice`: a handler that asks
  twice in one action for an Id without a job starts two jobs, of which only the
  second can be found; the comment at `handler.rs:81` names that. On the
  filesystem source: `WatchedIsConfiguredTheorem`. The invariant says, place by
  place, what a pass has still to do (`Passing`), and that what is watched is
  tracked (`TrackedIsWatched`), but for paths that are `doubled`: a path set may
  hold one path in both modes, and a mode may change while the unwatch of the other
  fails; then the tracked set has two entries for what the system watches once. The
  theorem is about any path sets, and the history is needed only for such paths. On
  the ignore files: `IgnoresApplyTheorem`, for any trees, options and events
  (`IgnoresAssumption`: they are of their types, and the directory above a
  directory is one). Its first half is about the rules alone. What the recursive
  definitions compute is proved by building the function they choose
  (`RecursionExists`) and by least counterexamples: the text of a path, the
  deepest directory with rules, the search upwards from there (`JumpsExist`).
  From these follow `IgnoredIs`, that the search of the code answers as the
  weightiest of the lines about a path does, and `AboveDecides`, that only lines in
  directories properly above a path count for it: so rules that are found later
  change nothing for what was decided before, but for those of a directory's own
  parent. The second half is the invariant `Walk`: what is on the stack and what
  was skipped lie apart (`Apart`), every directory below neither was entered and
  its files taken (`Took`), each was decided as the rules of now would decide it
  (`EnteredRight`, `SkippedRight`), or, while it waits, as those without its parent's
  did (`PendingRight`, `LookRight`). The proof corrected the property: rules that
  are loaded before the walk, those of `--ignore-file` among them, are in force for
  the children of the origin together with what the origin's own files allow
  later, which the history `begun` now names.
* **MainTaskProofs**: `TerminalRestoredTheorem` and `ExitIsCleanTheorem`. The first
  rests on `ModeInv`: without an overlap at most one session has saved a mode, it
  saved the original, and the terminal is raw only while there is one. The
  second rests on `ExitInv`: which workers may have failed, before and after the
  hook was asked to exit.
* **OnBusyProofs**: `NoChangeForgottenTheorem`, for any settings and batches. What a
  sender is about to send, behind the queue, is one path to the job: sending moves
  nothing on the sender's own path and puts one control between on the others.
  `WayInv` says of a change that is not settled that its question is on the handler's
  path, or a start that will find the command stopped (`Comes`), because it is, a
  grace period is ending it, or a stop comes before it; or that a queued restart
  waits or its start is on its path. `FlagInv` is why a change that finds a restart
  queued may leave it at that: the flag is set as long as the restart has something
  to do, and there is one setup of it at a time that ends that. `BusyAssumption`
  gives the bound on batches for every mode.
* **NanoProofs**: four theorems. For `QuitKeepsTextTheorem`, `SaveInv` says that a
  buffer not marked as modified has the text of its file, unless a write of an unmodified buffer failed, and that an editor quits
  with a modified one only to discard it; every key has to keep that, also those
  that rewrite the buffer. `TextRecoverableTheorem` is an
  action property over `Snapshots`, the shape of the undo list; its length is
  assumed positive (`UndoAssumption`), as `nano`'s constant is. For
  `CursorKeptTheorem`, `CursorInv` says of every snapshot in either list, and of one
  taken now, that its cursor is in its lines unless one of the steps `strayed`
  records was taken, and that buffer, cut buffer and files are text; every key
  has to keep that, justifying too. What justifying makes is three folds over lines
  and characters: `FoldExists` builds the function by which the library defines a
  fold, `FoldStays` takes a least prefix at which it leaves a set, and so neither
  needs an induction theorem. For `ReplaceAllIsCompleteTheorem`, `LoopInv` says that
  what the loop has passed in its row has no instance left but skipped or remade
  ones; that it finds the first instance behind that (`FoundIsFirst`) and that a
  replacement leaves what is before it alone (`MatchBefore`) keeps that up.
  `TextAssumption` says that files, outputs, terms and replacements are text and
  that no term is empty: `do_search` and `do_replace` return on an empty one.
* **ToolProofs**, one argument per tool.
  - `RowsAreTrueTheorem` (lsof). Every question is numbered by how many
    handles were left when it was asked; the channel that is waited on is the
    current question's alone, and while it is, the slot holds the current handle.
  - `FollowIsCompleteTheorem` (tail). Bytes in the file and bytes printed ascend,
    and the offset lies where what was printed ends (`Ahead`, `Beyond`), unless an
    emptying went unnoticed. The search for the last lines from the end is a
    recursion over the file: what it returns is proved by a least counterexample
    (`LeastOf`), which needs no induction theorem.
  - `SocketsAreTrueTheorem` (ss, lsof -i). What was read of the tables and of the
    names is compared with two histories, of what was ever open and of what
    always was. `TurnedDownIs` is about the filter alone: a row it turns down is
    one the options exclude, as the help describes them, or one that is never
    listed, and a row it lets pass is not excluded or known to be listed. It
    assumes `SocketAssumption`: a socket is of one of four tables.
  - `ListIsCurrentTheorem` (the monitors). The rows read last have different pids
    and numbers to sort by (`AppShape`), and what is on the screen is what the state
    of the application would be drawn as (`Drawn`), for the terminal there is unless
    a prompt swallowed its resize. The sort counts, for each row, those before it,
    of which a picture takes a stretch. It assumes `MonitorAssumption`: pids and
    heights are natural numbers, and there are finitely many processes.
  - `NoSpikeTheorem` (the monitors). A row of the last reading whose process could
    be opened counts at least what the process that has its pid now began with
    (`OldRows`).
  - `SequenceAgreesTheorem` (tcpdump). Every row of a flow is relative to the number
    the flow is relative to now, unless a new connection began after it (`Based`);
    differences of such numbers agree modulo the width by `RelativeApart`, which
    is proved from the division's definition.
  - `ReadBackIsWholeTheorem` (tcpdump). The map of flows is a function of the rows
    printed so far (`Traced`), so that each row is a function of its packet and
    those before it (`Made`); file and buffer hold the records of the rows in order
    (`OnItsWay`, then `Filed`); and a reader of the same options is, after each
    record, where the capture was (`ReadSoFar`). Both assume `TrafficAssumption`:
    packets are of their types, the width is positive, and files of the link
    type tcpdump writes have no link header; the second also
    that an option's number is a number (`IsCommandLine`), from which `LineParses`
    shows that every command line is parsed to numbers and switches; the parser is
    a fold, about which `FoldExists` and `FoldStays` say as much as in NanoProofs.
* **FileToolsProofs**: `FileTypesTheorem`, `NothingLostTheorem` and
  `SuccessMeansDoneTheorem`, for gzip, bzip2, mv, cp, zip and unzip at once. The
  invariant `FilesInv` is `FileTypes /\ Arguments /\ Safe /\ Places`: contents that
  were whole at the start are whole at their source or at their target, or lost in
  a way `KnownLoss` names (`Safe`), and for each place of each tool what has been
  created, filled or checked there (`Places`). Without `Places`, the removal of a
  source could not be known to come after its copy was whole. `DoneInv` adds for
  the exit code: sources still to be done are as they were (`SourcesStay`), every
  argument left behind without an error is done (`ByArgument`), and an archive has
  one member for each file read (`InArchive`, `OutOfArchive`). What is found below
  a directory is a recursive function; its facts are proved by a least
  counterexample.
  The assumptions (`CommandAssumption`, `DisksAssumption`, `ApartAssumption`,
  `FileAssumption`, `UnitsAssumption`, `MembersAssumption`) say which command
  lines are considered: no target is the source of another argument, though a file
  may be copied or moved onto itself; gzip is given single files; and `unzip` takes
  every member of the archive it is given. TLC evaluates them for the run's
  command lines.
* **FindProofs**: `FindIsTrueTheorem`, for every tree, expression, pattern and
  command line, and any number of changes by others. First the algorithms.
  `GlobDecides` says that the matcher, which works through the parts of a pattern from
  the last, takes a text exactly when it can be cut into one piece for each part;
  `ExpressionReads` that the parser makes of the words up to any place the
  alternatives between the bars before it, and so `EvalIsAsked` that what was parsed
  holds of a file exactly when the words ask for it; `SortedIs` that a listing has
  each entry once. `TokenRefused` and `RefusalIsRight` say that a command line is
  refused only for a `-not` without a test it can negate, and `LettersMatch` that
  a pattern of letters, given to the matcher, takes only the same text. Each is an induction over a sequence, done by a least
  counterexample over a function that is built first (`RecursionExists`,
  `StepByStep`). Then the invariant `FindInv`, of four parts. `FindTypes`: what is
  there has a directory above it (`Tree`), and the options are those the words mean.
  `WalkIsRight`: what is to be walked is below a root and not too deep; while nobody
  else acts, no two such paths lie below one another and none lies above what was
  acted upon (`Apart`), and all that can be reached waits to be walked or is settled.
  Without `Apart`, a path could be acted upon twice, or walked when what is below it
  was already dealt with. `ScanIsRight`: what there is to list is in the list or can be seen
  from a directory still to be read, with nothing to skip in between.
  `SearchIsRight`: what should be found was given or is still to be read, and no
  more was given than the limit allows.
  `FindAssumption` says that a path is a nonempty sequence of names, with the path
  above it among the paths; that the two orders tell paths apart; that the disk at the
  start is a tree; and that the roots of a command are single names, all
  different. The last is needed: one root below another, or given twice, is
  walked twice by the code.

The library states induction with an operator as a parameter, which the provers
cannot take; the proofs about recursive functions and folds above do without it.

Only model-checked are: every liveness property (the prover has no fairness),
among them all else of OnBusy. Every safety property of a passing run is stated by a
theorem.

## 5. Abstractions

Names, paths, texts of messages and colours are left out. Numbers are unbounded
where the code's are 64 bits wide and count events; sequence numbers wrap. In
Nano a character is one column and one byte wide; words are separated by blanks.
In OnBusy a process ends and the job notices in one step, since until
it notices nobody can tell; a `to_wait` is asked and served in one step, for the
same reason; `--delay-run` only keeps the job busy and is left out, as are
`--once`, which runs inside a single call of the handler, and
`--only-emit-events`. In the file tools other programs leave the files alone, a
compressed file is not compressed again, names inside an archive and file times
are left out.

In MainTask the end of the runtime is one step that drops every task; blocking
threads go on, as they do. Which key a byte stands for is left out, but for end
of input. In IgnoreRules a pattern is the name of a file or directory, with
negation, anchoring and a line that does not parse; the syntax of globs belongs to
the `ignore` library. In Ignores the table of files that mark a project is one
mark, whitelists of single files and the jq filter programs are left out. In
Monitor a row has a pid, a rate and a count, the interval is the same for all
rows of a reading and left out, and the machine has two processors. In Tail,
standard input, `-c` and several files are left out. In Lsof the device names of
the drives are a constant. In Capture a packet is as long as its parts; how a row
is worded is left out. In Find links are not followed, paths are sequences of names, a root is one
name, the orders in which names and lines are sorted are constants, and of `sfind`'s
actions there are `-print` and `-delete`. The look at a path, its test, its action
and its listing (`sfind:560-594`) are one step, so nobody replaces a file between
its test and its deletion. The pattern of a search of the index has letters, a
bracket being one of them, stars and single wildcards; classes belong to `-name`
and `-path`. In Nano a character is a byte, so that a search in a row of wider
characters (`nano:297-298` takes the character's column for a byte's) is out of
sight. When a write to stdout fails in Tail, any prefix of it may have been taken.

*Where a path has two modes.* `-w` and `-W` put paths into one set, whose order
includes the mode (`filtering.rs:337-361`, `watched_path.rs:6-10`), so one path may
be in it twice. The system watches it in the mode that was added last; the
worker tracks both, and dropping either ends the watch, so that the other is
tracked but not watched. The same comes of a mode that changes while the unwatch of
the old one fails.

*Where the tools' help says otherwise.* These disagreements are part of the models,
and the properties name them as exceptions:

* `ss -u` and `-ua` list TCP too (help, 442 and 459: "UDP sockets", "All UDP"), and `-t -a`
  lists UDP; TCP is always read (`ss:534-548`). Of `-t` the property follows the option's
  own line ("TCP sockets", 441), not the example's "Established TCP connections" (457).
* A state `parse_state` does not know filters nothing, and none filters UDP
  (`ss:431`, `ss:569-572`); the help's own example `state listen` (`ss:460`) lists
  nothing without `-a` or `-l`.
* A port without a colon filters nothing, against the comment at `ss:408`; one with
  a colon may be that of either end, whether `sport` or `dport` was asked for
  (`ss:573-576`).
* `lsof -c` with a name no program has filters nothing, and `lsof -i` reads no
  table of IPv6.
* `sfind` refuses to negate `-path`, `-size`, `-mtime` and `-newer` (`sfind:361`),
  though its help says "Negate next test" (388) and shows it for `-path` (407).
* `locate` and `sfind --locate` give a pattern with a bracket to a matcher that
  knows no brackets and compares the whole (`locate:284`, `sfind:714`), where the
  help says "Plain string  substring match on full path" (`locate:61`).
* `locate -l 0` gives one line (`locate:321`), where the help says "limit output to N
  results" (56).

## 6. Not modelled, and why

Pure formatting of one system call or one listing: `file`, `free`, `icat`, `kill`,
`ls`, `neofetch`, `pgrep`, `ps`, `stat`, `touch`, `watch`. Parsing and I/O that
happens once at start-up: the command line of watchexec and its sockets. Code
that a model would only copy: the supervisor's conversion of commands, ids, event
and signal types, bosion. The text tools are functions of their input without
state; a boundary error in one of them is a matter for a unit test, and they come
last. Every component has its reason in `PROJECT.json`.

One hazard has no property of a run. `job.rs:40-43` says that dropping the last
handle of a job stops its task gracefully, and the command with it; in the code,
and in the model (`QueueClosed`), the task whose queue is closed goes on waiting
for its child (`task.rs:378`), for ever if the command does not end.

## 7. Plan

In this order, the most important first:

1. **A dropped job**: a run that shows the wait of section 6, and that the task
   does end once the child has.
2. **Proofs**: for OnBusy that a watcher awaits an end only while there is one to
   come.
3. **Composition** of OnBusy with SupervisorJob in place of the job seen from
   outside, in the mode that queues.
4. **`rm`**: the guard of the protected directories and the recursion, over Disk.
5. **`dig`**: the reading of compressed names, which must end for any packet.
6. **Algorithms**: the globs of `unzip` and `grep` against Globs; `uniq`, `cut`
   ranges, `tr` sets, `sort`'s comparator (a total order), `diff` (patching gives
   the other file), `base64` (inverse). One instance, a variable choosing the input.
