------------------------------ MODULE FileTools -----------------------------
(* One command of one of the tools that rewrite files, over a disk where   *)
(* any call may fail, and what all of them owe the user: contents are not  *)
(* lost, and an exit code of 0 says that the work is done.                 *)
EXTENDS Gzip, Move, Copy, Zip

(* The command lines it is asked of: no argument is written where another  *)
(* one is read, save by mv and cp onto itself, and none is moved to two    *)
(* targets; gzip and bzip2 take files; what is moved onto itself is all of *)
(* an argument; an archive is one file, made of all arguments together,    *)
(* and is unzipped by its own list of members.                             *)
PairsOf(c) == UNION {ToSet(u) : u \in ToSet(c.units)}
ASSUME ApartAssumption ==
  \A c \in Command : \A p, q \in PairsOf(c) :
    /\ p.src = q.dst => p = q /\ c.tool \in {"mv", "cp"}
    /\ p.src = q.src => p = q \/ c.tool \in {"cp", "unzip"}
ASSUME FileAssumption ==
  \A c \in Command : c.tool \in GzTool \cup BzTool => \A i \in DOMAIN c.units : Len(c.units[i]) = 1
ASSUME UnitsAssumption ==
  \A c \in Command :
    /\ c.tool \in {"zip", "unzip"} => Len(c.units) <= 1
    /\ \A i \in DOMAIN c.units : \A p, q \in ToSet(c.units[i]) :
         /\ c.tool = "mv" /\ p.src = p.dst => q.src = q.dst
         /\ c.tool = "zip" => p.dst = q.dst
         /\ c.tool = "unzip" => p.src = q.src
ASSUME MembersAssumption ==
  \A c \in Command, d \in Disks : c.tool = "unzip" /\ c.units # <<>> =>
    LET archive == d[c.units[1][1].src]
    IN  archive.form = "zip" /\ archive.whole => Len(archive.parts) = Len(c.units[1])

Init == DiskInit
Next == AllDone \/ Again \/ GzStep \/ BzStep \/ MvStep \/ CpStep \/ ZipStep
Spec == Init /\ [][Next]_diskVars

Tokens(f) == IF f.whole THEN ToSet(f.parts) ELSE {}
Pairs == PairsOf(command)
AllSources == {pair.src : pair \in Pairs}
AllTargets == {pair.dst : pair \in Pairs}

(* Removing its sources is what a tool is for, or what it was told.        *)
Moves == command.tool = "mv" \/ (command.tool \in GzTool \cup BzTool \cup {"zip"} /\ ~command.keep)

(* Contents the command line, or an answer to a question, gave up: those   *)
(* of a target that may be overwritten.  A zip archive always may.         *)
Agreed(p) == ~command.noClobber /\ (command.ask /\ ~command.force => p \in agreed)
MayOverwrite(p) ==
  CASE command.tool \in GzTool \cup BzTool -> command.force
    [] command.tool \in {"mv", "cp"} -> Agreed(p)
    [] command.tool = "unzip" -> ~command.noClobber
    [] command.tool = "zip" -> TRUE
GivenUp == UNION {ToSet(start[p].parts) : p \in {q \in AllTargets \ AllSources : MayOverwrite(q)}}

(* The ways known to lose contents: members of a stream after the first,   *)
(* a big file that is copied onto itself, sources of one command that go   *)
(* to the same target, members of an archive that have the same name, a    *)
(* second zip -m over the archive that the first one moved files into, and *)
(* the rest of a buffer.                                                   *)
LaterMember(p, t) == command.tool \in {"gunzip", "bunzip2"} /\ t \in ToSet(Tail(start[p].parts))
OntoItself(pair) == command.tool = "cp" /\ command.big /\ pair.src = pair.dst
Overtaken(pair) ==
  \/ command.tool # "zip" /\ \E other \in Pairs \ {pair} : other.dst = pair.dst
  \/ command.tool = "unzip" /\ \E i, j \in DOMAIN command.units[1] :
       i # j /\ command.units[1][i] = pair /\ command.units[1][j] = pair
Rewritten == command.tool = "zip" /\ ~command.keep /\ runs > 1
KnownLoss(pair, t) ==
  \/ LaterMember(pair.src, t) \/ OntoItself(pair) \/ Overtaken(pair) \/ Rewritten
  \/ pair.dst \in tailLost

(* Whatever fails, and wherever the program is stopped: contents that were *)
(* whole on the disk are whole somewhere, unless they were given up or     *)
(* lost in a known way.                                                    *)
NothingLost ==
  \A t \in UNION {Tokens(start[p]) : p \in Path} :
    \/ \E p \in Path : t \in Tokens(disk[p])
    \/ t \in GivenUp
    \/ \E pair \in Pairs : t \in Tokens(start[pair.src]) /\ KnownLoss(pair, t)

(* What a pair of a command is to bring to its target.                     *)
Payload(pair) ==
  IF command.tool = "unzip"
  THEN {start[pair.src].parts[i] : i \in {j \in DOMAIN command.units[1] :
                                            command.units[1][j] = pair}}
  ELSE Tokens(start[pair.src])

(* An exit code of 0: every file that was not refused is at its target, is *)
(* whole there, and is gone from its source just when it was to be moved   *)
(* (zip does not say when it could not remove one).                        *)
SuccessMeansDone ==
  pc = "exit" /\ status => \A pair \in Pairs \ refused :
    /\ \A t \in Payload(pair) : t \in Tokens(disk[pair.dst]) \/ KnownLoss(pair, t)
    /\ Moves => command.tool = "zip" \/ ~Exists(pair.src) \/ pair.src \in AllTargets
    /\ ~Moves => Exists(pair.src) \/ start[pair.src].form = "none"
=============================================================================
