-------------------------------- MODULE Disk --------------------------------
(* What the tools that rewrite files share: files, the command line being  *)
(* carried out, and where the program is in it.  A file's contents are     *)
(* tokens; of what a tool still holds in a buffer, or did not get to       *)
(* write, the model keeps that the file is not whole.                      *)
EXTENDS Integers, Sequences, SequencesExt

CONSTANTS Path, Token,
          Command,  \* the command lines to try: see Commands
          Disks,    \* the disks to start from
          Volume,   \* the drive of each path
          MaxRuns   \* how often the command is given

Tool == {"gzip", "gunzip", "bzip2", "bunzip2", "mv", "cp", "zip", "unzip"}

(* A unit is one argument: a file, or the files below a directory, each    *)
(* with the path it goes to.                                               *)
Pair == [src: Path, dst: Path]
Commands == [tool: Tool, units: Seq(Seq(Pair)), force: BOOLEAN, ask: BOOLEAN,
             noClobber: BOOLEAN, keep: BOOLEAN, big: BOOLEAN]
ASSUME CommandAssumption ==
  \A c \in Command : c \in Commands /\ \A i \in DOMAIN c.units : c.units[i] # <<>>

NoFile == [form |-> "none", parts |-> <<>>, whole |-> FALSE]
File == {NoFile} \cup [form: {"raw", "gz", "zip"}, parts: Seq(Token), whole: BOOLEAN]
Whole(form, parts) == [form |-> form, parts |-> parts, whole |-> TRUE]
Broken(form, parts) == [form |-> form, parts |-> parts, whole |-> FALSE]
ASSUME DisksAssumption == Disks \subseteq [Path -> File]

VARIABLES
  disk,     \* contents of every path
  command,  \* the command line
  start,    \* history: the disk when the program started
  pc,       \* where the program is
  units,    \* arguments that are left, the current one first
  left,     \* files of the current argument that are left
  status,   \* TRUE as long as the exit code is 0
  runs,     \* how often the command was given
  refused,  \* history: pairs a test left alone
  agreed,   \* history: paths the user agreed to overwrite
  tailLost  \* history: targets whose buffer could not be written when it was dropped

diskVars == <<disk, command, start, pc, units, left, status, runs, refused, agreed, tailLost>>

DiskInit ==
  /\ command \in Command /\ disk \in Disks /\ start = disk
  /\ pc = "next" /\ units = command.units /\ left = <<>>
  /\ status = TRUE /\ runs = 1 /\ refused = {} /\ agreed = {} /\ tailLost = {}

Exists(p) == disk[p].form # "none"
Unit == Head(units)
This == Head(left)

(* The files of an argument that are there: what a walk of it finds.       *)
FoundTo[n \in 0 .. Len(Unit)] ==
  IF n = 0 THEN <<>>
  ELSE IF Exists(Unit[n].src) THEN Append(FoundTo[n - 1], Unit[n]) ELSE FoundTo[n - 1]
Found == FoundTo[Len(Unit)]
Begin(place) == pc' = place /\ left' = Found /\ units' = <<Found>> \o Tail(units)

-----------------------------------------------------------------------------
(* What the programs have in common: a command at a place, the ways out of *)
(* a step, and the calls that create, write and remove files.              *)

At(tool, place) == command.tool = tool /\ pc = place
AtUnit(tool) == At(tool, "next") /\ units # <<>>

NextUnit == pc' = "next" /\ units' = Tail(units) /\ left' = <<>>
NextFile(place) ==
  IF Len(left) = 1 THEN NextUnit
  ELSE pc' = place /\ left' = Tail(left) /\ UNCHANGED units
Goto(place) == pc' = place /\ UNCHANGED <<units, left>>

(* An error is told and changes the exit code.                             *)
Told == status' = FALSE
Fine == UNCHANGED status
Refuse(pairs) == refused' = refused \cup pairs /\ UNCHANGED agreed
NothingAsked == UNCHANGED <<refused, agreed>>
Unwritten == UNCHANGED <<disk, tailLost>>

Write(p, f) == disk' = [disk EXCEPT ![p] = f]
WriteNow(p, f) == Write(p, f) /\ UNCHANGED tailLost

(* A BufWriter that is dropped writes its rest and ignores what comes of   *)
(* that.                                                                   *)
DropBuffer(p) ==
  \/ WriteNow(p, [disk[p] EXCEPT !.whole = TRUE])
  \/ tailLost' = tailLost \cup {p} /\ UNCHANGED disk

Given == UNCHANGED <<command, start, runs>>

AllDone ==
  /\ pc = "next" /\ units = <<>> /\ Goto("exit")
  /\ Given /\ Fine /\ NothingAsked /\ Unwritten

(* Wherever the program was stopped, and also when it came to its end, the *)
(* same command may be given once more.                                    *)
Again ==
  /\ runs < MaxRuns /\ runs' = runs + 1
  /\ pc' = "next" /\ units' = command.units /\ left' = <<>>
  /\ status' = TRUE /\ refused' = {}
  /\ UNCHANGED <<disk, command, start, agreed, tailLost>>
=============================================================================
