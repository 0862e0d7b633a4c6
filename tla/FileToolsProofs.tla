--------------------------- MODULE FileToolsProofs --------------------------
(***************************************************************************)
(* No command of the tools that rewrite files loses contents, other than   *)
(* those it was told to give up and those it is known to lose, and what it *)
(* says with an exit code of 0 is true: for any files, drives and command  *)
(* lines, whichever call fails, and wherever the program is stopped and    *)
(* its command given again.                                                *)
(***************************************************************************)
EXTENDS FileTools, ToolProofs

-----------------------------------------------------------------------------
(* What a walk of an argument finds, step by step.                         *)
Grown(found, n) ==
  IF n = 0 THEN <<>>
  ELSE IF Exists(Unit[n].src) THEN Append(found[n - 1], Unit[n]) ELSE found[n - 1]

LEMMA WalkExists ==
  \A k \in Nat : \E f : f = [n \in 0 .. k |-> Grown(f, n)]
<1> DEFINE Stuck == {k \in Nat : ~ \E f : f = [n \in 0 .. k |-> Grown(f, n)]}
<1>1. SUFFICES ASSUME Stuck # {} PROVE FALSE
  OBVIOUS
<1>2. PICK m \in Stuck : \A k \in Stuck : m <= k
  BY <1>1, LeastOf
<1>3. CASE m = 0
  <2>1. [n \in 0 .. 0 |-> <<>>] = [n \in 0 .. 0 |-> Grown([i \in 0 .. 0 |-> <<>>], n)]
    BY DEF Grown
  <2> QED BY <1>2, <1>3, <2>1
<1>4. CASE m # 0
  <2>1. m \in Nat /\ m - 1 \in Nat /\ m - 1 \notin Stuck
    BY <1>2, <1>4
  <2>2. PICK f : f = [n \in 0 .. m - 1 |-> Grown(f, n)]
    BY <2>1
  <2> DEFINE g == [n \in 0 .. m |-> IF n = m THEN Grown(f, m) ELSE f[n]]
  <2>3. ASSUME NEW n \in 0 .. m PROVE g[n] = Grown(g, n)
    <3>1. n # 0 => g[n - 1] = f[n - 1]
      BY <2>1
    <3>2. Grown(g, n) = Grown(f, n)
      BY <3>1 DEF Grown
    <3>3. n # m => f[n] = Grown(f, n)
      BY <2>1, <2>2
    <3> QED BY <3>2, <3>3
  <2>4. g = [n \in 0 .. m |-> Grown(g, n)]
    <3>1. g = [n \in 0 .. m |-> g[n]]
      OBVIOUS
    <3> HIDE DEF g
    <3> QED BY <2>3, <3>1
  <2> QED BY <1>2, <2>4
<1> QED BY <1>3, <1>4

LEMMA WalkGrows ==
  ASSUME Len(Unit) \in Nat
  PROVE  \A n \in 0 .. Len(Unit) : FoundTo[n] = Grown(FoundTo, n)
<1>1. \E f : f = [n \in 0 .. Len(Unit) |-> Grown(f, n)]
  BY WalkExists
<1>2. FoundTo = CHOOSE f : f = [n \in 0 .. Len(Unit) |-> Grown(f, n)]
  BY DEF FoundTo, Grown
<1>3. FoundTo = [n \in 0 .. Len(Unit) |-> Grown(FoundTo, n)]
  BY <1>1, <1>2
<1> QED BY <1>3

LEMMA AppendedSet ==
  ASSUME NEW S, NEW s \in Seq(S), NEW x \in S
  PROVE  ToSet(Append(s, x)) = ToSet(s) \cup {x}
<1>1. Len(s) \in Nat /\ DOMAIN s = 1 .. Len(s) /\ DOMAIN Append(s, x) = 1 .. Len(s) + 1
  OBVIOUS
<1>2. Append(s, x)[Len(s) + 1] = x /\ \A i \in 1 .. Len(s) : Append(s, x)[i] = s[i]
  BY <1>1
<1>3. 1 .. Len(s) + 1 = (1 .. Len(s)) \cup {Len(s) + 1}
  BY <1>1
<1> QED BY <1>1, <1>2, <1>3, Zenon DEF ToSet

(* It finds the files of the argument that are there, and no others.       *)
LEMMA FoundIsThere ==
  ASSUME NEW S, Unit \in Seq(S)
  PROVE  /\ Found \in Seq(S)
         /\ ToSet(Found) = {pair \in ToSet(Unit) : Exists(pair.src)}
<1> DEFINE There(n) == {Unit[i] : i \in {j \in 1 .. n : Exists(Unit[j].src)}}
<1> DEFINE Right(n) == FoundTo[n] \in Seq(S) /\ ToSet(FoundTo[n]) = There(n)
<1> DEFINE Wrong == {n \in 0 .. Len(Unit) : ~Right(n)}
<1>0. Len(Unit) \in Nat /\ DOMAIN Unit = 1 .. Len(Unit)
  OBVIOUS
<1>1. Wrong = {}
  <2>1. SUFFICES ASSUME Wrong # {} PROVE FALSE
    OBVIOUS
  <2>2. Wrong \in SUBSET Nat
    BY <1>0
  <2>3. PICK m \in Wrong : \A k \in Wrong : m <= k
    BY <2>1, <2>2, LeastOf
  <2> HIDE DEF Right
  <2>4. m \in 0 .. Len(Unit) /\ ~Right(m) /\ (m # 0 => m - 1 \in 0 .. Len(Unit) /\ Right(m - 1))
    BY <1>0, <2>3
  <2>5. FoundTo[m] = Grown(FoundTo, m)
    BY <1>0, <2>4, WalkGrows
  <2> USE DEF Right
  <2>6. CASE m = 0
    BY <2>4, <2>5, <2>6 DEF Grown, ToSet
  <2>7. CASE m # 0
    <3> HIDE DEF Wrong
    <3>1. FoundTo[m - 1] \in Seq(S) /\ ToSet(FoundTo[m - 1]) = There(m - 1) /\ m \in 1 .. Len(Unit)
      BY <1>0, <2>4, <2>7
    <3>2. Unit[m] \in S
      BY <3>1, <1>0
    <3>3. There(m) = There(m - 1) \cup (IF Exists(Unit[m].src) THEN {Unit[m]} ELSE {})
      BY <1>0, <3>1
    <3>4. ToSet(Append(FoundTo[m - 1], Unit[m])) = ToSet(FoundTo[m - 1]) \cup {Unit[m]}
      BY <3>1, <3>2, AppendedSet
    <3>5. Append(FoundTo[m - 1], Unit[m]) \in Seq(S)
      BY <3>1, <3>2
    <3> HIDE DEF There
    <3> QED BY <2>4, <2>5, <2>7, <3>1, <3>3, <3>4, <3>5 DEF Grown
  <2> QED BY <2>6, <2>7
<1>2. Right(Len(Unit))
  <2> HIDE DEF Right
  <2> QED BY <1>0, <1>1
<1> QED BY <1>0, <1>2 DEF Found, ToSet

-----------------------------------------------------------------------------
(* The invariant.  Its first parts are what the variables hold: arguments  *)
(* that are left are arguments of the command line, or what a walk found   *)
(* of one.                                                                 *)
Content ==
  {f \in [form: {"none", "raw", "gz", "zip"}, parts: Seq(Token), whole: BOOLEAN] :
     f.form = "none" => f.parts = <<>>}
Argument == Seq(Pairs) \ {<<>>}

FileTypes ==
  /\ command \in Command /\ start \in Disks /\ disk \in [Path -> Content]
  /\ units \in Seq(Argument) /\ left \in Seq(Pairs)
  /\ runs \in Nat \ {0}

Arguments ==
  \A i \in DOMAIN units :
    \E j \in DOMAIN command.units : ToSet(units[i]) \subseteq ToSet(command.units[j])

(* The contents of the disk: nobody writes to a path that the command does *)
(* not name; a target is as it was or may be overwritten; a source is as   *)
(* it was or has gone where it was to go.                                  *)
Intact(p) == disk[p] = start[p]
Writable(p) == MayOverwrite(p) \/ start[p] = NoFile
Moved(s) ==
  \A t \in Tokens(start[s]) :
    \E pair \in Pairs : pair.src = s /\ (t \in Tokens(disk[pair.dst]) \/ KnownLoss(pair, t))

Untouched == \A p \in Path \ (AllSources \cup AllTargets) : Intact(p)
TargetsSafe == \A p \in AllTargets \ AllSources : Intact(p) \/ Writable(p)
SourcesSafe ==
  \A s \in AllSources \ AllTargets : Intact(s) \/ (Moves /\ disk[s] = NoFile /\ Moved(s))
SelvesSafe ==
  \A p \in AllSources \cap AllTargets : Intact(p) \/ (command.tool = "cp" /\ command.big)
Safe == Untouched /\ TargetsSafe /\ SourcesSafe /\ SelvesSafe

(* Where the program is.  Carried: the target holds what its source held,  *)
(* and may not be whole yet; arrived: it is.                               *)
Carried(pair) ==
  \A t \in Tokens(start[pair.src]) :
    t \in ToSet(disk[pair.dst].parts) \/ KnownLoss(pair, t)
Arrived(pair) ==
  \A t \in Tokens(start[pair.src]) : t \in Tokens(disk[pair.dst]) \/ KnownLoss(pair, t)

Busy == left # <<>> /\ units # <<>> /\ ToSet(left) \subseteq ToSet(Unit)

GzPlaces ==
  command.tool \in GzTool \cup BzTool =>
    /\ pc \in {"next", "create", "copy", "close", "remove", "exit"}
    /\ pc \in {"create", "copy", "close", "remove"} =>
         Busy /\ Intact(This.src) /\ Writable(This.dst)
    /\ pc = "close" => Carried(This)
    /\ pc = "remove" => Arrived(This) /\ ~command.keep

MvPlaces ==
  command.tool = "mv" =>
    /\ pc \in {"next", "create", "copy", "remove", "exit"}
    /\ pc \in {"create", "copy", "remove"} =>
         Busy /\ \A pair \in ToSet(Unit) : pair.src # pair.dst
    /\ pc \in {"create", "copy"} =>
         \A pair \in ToSet(Unit) :
           Intact(pair.src) /\ Writable(pair.dst) /\ (pair \in ToSet(left) \/ Arrived(pair))
    /\ pc = "remove" => \A pair \in ToSet(Unit) : Arrived(pair)

CpPlaces ==
  command.tool = "cp" =>
    /\ pc \in {"next", "open", "copy", "exit"}
    /\ pc \in {"open", "copy"} => Busy
    /\ pc = "copy" => command.big /\ (This.src # This.dst => Writable(This.dst))

(* A zip whose inputs were not moved by a run before this one.             *)
Fresh == command.tool = "zip" /\ ~Rewritten
ZipPlaces ==
  command.tool = "zip" =>
    /\ pc \in {"next", "create", "copy", "close", "remove", "exit"}
    /\ pc \in {"create", "copy", "close", "remove"} => Busy
    /\ pc = "remove" => ~command.keep
    /\ Fresh =>
         /\ pc \in {"next", "create", "copy", "close"} => \A s \in AllSources : Intact(s)
         /\ pc = "create" => ToSet(Unit) \subseteq ToSet(left)
         /\ pc = "copy" => \A pair \in ToSet(Unit) : pair \in ToSet(left) \/ Carried(pair)
         /\ pc = "close" => \A pair \in ToSet(Unit) : Carried(pair)
         /\ pc = "remove" => \A pair \in ToSet(Unit) : Arrived(pair)

UnzipPlaces ==
  command.tool = "unzip" =>
    /\ pc \in {"next", "open", "copy", "close", "exit"} /\ units = command.units
    /\ pc \in {"open", "copy", "close"} =>
         Busy /\ Len(left) <= Len(Unit) /\ Archive.form = "zip" /\ Archive.whole
    /\ pc \in {"copy", "close"} => Writable(This.dst)

Places == GzPlaces /\ MvPlaces /\ CpPlaces /\ ZipPlaces /\ UnzipPlaces

FilesInv == FileTypes /\ Arguments /\ Safe /\ Places

-----------------------------------------------------------------------------

LEMMA CommandShape ==
  ASSUME command \in Command
  PROVE  /\ command.units \in Seq(Argument) /\ Pairs \subseteq Pair
         /\ command.tool \in Tool /\ command.keep \in BOOLEAN /\ command.big \in BOOLEAN
         /\ \A pair \in Pairs : pair.src \in AllSources /\ pair.dst \in AllTargets
         /\ AllSources \subseteq Path /\ AllTargets \subseteq Path
<1>1. command \in Commands /\ \A i \in DOMAIN command.units : command.units[i] # <<>>
  BY CommandAssumption
<1>2. command.units \in Seq(Seq(Pair))
  BY <1>1 DEF Commands
<1>3. \A i \in DOMAIN command.units :
        command.units[i] \in Seq(Pair) /\ ToSet(command.units[i]) \subseteq Pairs
  BY <1>2 DEF Pairs, PairsOf, ToSet
<1>4. \A i \in DOMAIN command.units : command.units[i] \in Argument
  <2> SUFFICES ASSUME NEW i \in DOMAIN command.units
               PROVE  command.units[i] \in Seq(Pairs)
    BY <1>1 DEF Argument
  <2>1. \A k \in DOMAIN command.units[i] : command.units[i][k] \in Pairs
    BY <1>3 DEF ToSet
  <2> QED BY <1>3, <2>1
<1>5. command.units \in Seq(Argument)
  BY <1>2, <1>4
<1>6. Pairs \subseteq Pair
  <2> SUFFICES ASSUME NEW pair \in Pairs PROVE pair \in Pair
    OBVIOUS
  <2>1. PICK i \in DOMAIN command.units : pair \in ToSet(command.units[i])
    BY DEF Pairs, PairsOf, ToSet
  <2>2. PICK k \in DOMAIN command.units[i] : pair = command.units[i][k]
    BY <2>1 DEF ToSet
  <2> QED BY <1>3, <2>2
<1>7. command.tool \in Tool /\ command.keep \in BOOLEAN /\ command.big \in BOOLEAN
  BY <1>1 DEF Commands
<1>8. AllSources \subseteq Path /\ AllTargets \subseteq Path
  BY <1>6 DEF AllSources, AllTargets, Pair
<1> QED BY <1>5, <1>6, <1>7, <1>8 DEF AllSources, AllTargets

(* What the invariant is for.                                              *)
LEMMA SafeLosesNothing ==
  ASSUME FileTypes, Safe
  PROVE  NothingLost
<1> SUFFICES ASSUME NEW p \in Path, NEW t \in Tokens(start[p])
             PROVE  \/ \E q \in Path : t \in Tokens(disk[q])
                    \/ t \in GivenUp
                    \/ \E pair \in Pairs : t \in Tokens(start[pair.src]) /\ KnownLoss(pair, t)
  BY DEF NothingLost
<1>1. CASE Intact(p)
  BY <1>1 DEF Intact
<1>2. CASE p \in AllTargets \ AllSources /\ Writable(p)
  <2>1. t \in ToSet(start[p].parts) /\ start[p] # NoFile
    BY DEF Tokens, NoFile, ToSet
  <2> QED BY <1>2, <2>1 DEF Writable, GivenUp
<1>3. CASE p \in AllSources \ AllTargets /\ Moved(p)
  <2>1. PICK pair \in Pairs :
          pair.src = p /\ (t \in Tokens(disk[pair.dst]) \/ KnownLoss(pair, t))
    BY <1>3 DEF Moved
  <2>2. pair.dst \in Path
    BY CommandShape DEF FileTypes
  <2> QED BY <2>1, <2>2
<1>4. CASE p \in AllSources \cap AllTargets /\ command.tool = "cp" /\ command.big
  <2>1. PICK a \in Pairs, b \in Pairs : a.src = p /\ b.dst = p
    BY <1>4 DEF AllSources, AllTargets
  <2>2. a = b
    BY <2>1, ApartAssumption DEF FileTypes, Pairs
  <2> QED BY <1>4, <2>1, <2>2 DEF KnownLoss, OntoItself
<1> QED BY <1>1, <1>2, <1>3, <1>4
     DEF Safe, Untouched, TargetsSafe, SourcesSafe, SelvesSafe

-----------------------------------------------------------------------------
(* A step leaves the command and the start alone, and what was known to be *)
(* lost, or agreed to, stays so.                                           *)
Goes ==
  /\ UNCHANGED <<command, start>> /\ runs' \in Nat \ {0} /\ runs' >= runs
  /\ agreed \subseteq agreed' /\ tailLost \subseteq tailLost'

LEMMA GoesOn ==
  ASSUME FileTypes, Goes
  PROVE  /\ Pairs' = Pairs /\ AllSources' = AllSources /\ AllTargets' = AllTargets
         /\ Moves' = Moves /\ command' = command /\ start' = start
         /\ \A pair, t : KnownLoss(pair, t) => KnownLoss(pair, t)'
         /\ \A p : Writable(p) => Writable(p)'
<1>1. command' = command /\ start' = start
  BY DEF Goes
<1>2. Pairs' = Pairs /\ AllSources' = AllSources /\ AllTargets' = AllTargets /\ Moves' = Moves
  BY <1>1 DEF Pairs, AllSources, AllTargets, Moves
<1>3. ASSUME NEW pair, NEW t, KnownLoss(pair, t) PROVE KnownLoss(pair, t)'
  <2>1. CASE LaterMember(pair.src, t)
    BY <1>1, <2>1 DEF LaterMember, KnownLoss
  <2>2. CASE OntoItself(pair)
    BY <1>1, <2>2 DEF OntoItself, KnownLoss
  <2>3. CASE Overtaken(pair)
    BY <1>1, <1>2, <2>3 DEF Overtaken, KnownLoss
  <2>4. CASE Rewritten
    BY <1>1, <2>4 DEF Rewritten, KnownLoss, Goes, FileTypes
  <2>5. CASE pair.dst \in tailLost
    BY <2>5 DEF KnownLoss, Goes
  <2> QED BY <1>3, <2>1, <2>2, <2>3, <2>4, <2>5 DEF KnownLoss
<1>4. ASSUME NEW p, Writable(p) PROVE Writable(p)'
  <2>1. Agreed(p) => Agreed(p)'
    BY <1>1 DEF Agreed, Goes
  <2>2. command.tool \in Tool
    BY CommandShape DEF FileTypes
  <2> QED BY <1>1, <1>4, <2>1, <2>2 DEF Writable, MayOverwrite, Tool, GzTool, BzTool
<1> QED BY <1>1, <1>2, <1>3, <1>4

LEMMA IdleIsSafe ==
  ASSUME FileTypes, Safe, Goes, disk' = disk
  PROVE  Safe'
<1>1. \A p : Intact(p)' = Intact(p)
  BY DEF Intact, Goes
<1>2. \A f : Tokens(f)' = Tokens(f)
  BY DEF Tokens
<1>3. \A s : Moved(s) => Moved(s)'
  BY GoesOn DEF Moved
<1> QED BY <1>1, <1>3, GoesOn DEF Safe, Untouched, TargetsSafe, SourcesSafe, SelvesSafe

(* What may be written to: a target that was, or is, nobody's, and whoever *)
(* goes there is still at its source or is known to be lost.               *)
Gone(pair) == \A t \in Tokens(start[pair.src]) : KnownLoss(pair, t)
Unheld(d) ==
  /\ d \in AllTargets /\ (d \in AllSources => command.tool = "cp" /\ command.big)
  /\ \A pair \in Pairs :
       pair.dst = d /\ pair.src \notin AllTargets => Intact(pair.src) \/ Gone(pair)
MayWrite(d) == Unheld(d) /\ (d \notin AllSources => Writable(d))

LEMMA AgreedWriting ==
  ASSUME FileTypes, Safe, Goes, NEW d, NEW f, Unheld(d), d \notin AllSources => Writable(d)',
         Write(d, f)
  PROVE  Safe'
<1>1. \A p \in Path : p # d => disk'[p] = disk[p] /\ Intact(p)' = Intact(p)
  BY DEF Write, FileTypes, Intact, Goes
<1>2. Untouched'
  BY <1>1, GoesOn DEF Safe, Untouched, Unheld
<1>3. TargetsSafe'
  <2> SUFFICES ASSUME NEW p \in AllTargets \ AllSources PROVE Intact(p)' \/ Writable(p)'
    BY GoesOn DEF TargetsSafe
  <2>1. p \in Path
    BY CommandShape DEF FileTypes
  <2>2. CASE p = d
    BY <2>2, GoesOn
  <2> QED BY <1>1, <2>1, <2>2, GoesOn DEF Safe, TargetsSafe
<1>4. SelvesSafe'
  <2> SUFFICES ASSUME NEW p \in AllSources \cap AllTargets
               PROVE  Intact(p)' \/ (command.tool = "cp" /\ command.big)
    BY GoesOn DEF SelvesSafe
  <2>1. p \in Path
    BY CommandShape DEF FileTypes
  <2>2. CASE p = d
    BY <2>2 DEF Unheld
  <2> QED BY <1>1, <2>1, <2>2 DEF Safe, SelvesSafe
<1>5. SourcesSafe'
  <2> SUFFICES ASSUME NEW s \in AllSources \ AllTargets
               PROVE  Intact(s)' \/ (Moves /\ disk'[s] = NoFile /\ Moved(s)')
    BY GoesOn DEF SourcesSafe
  <2>1. s \in Path /\ s # d
    BY CommandShape DEF FileTypes, Unheld
  <2>2. CASE Intact(s)
    BY <1>1, <2>1, <2>2
  <2>3. CASE ~Intact(s) /\ Moves /\ disk[s] = NoFile /\ Moved(s)
    <3>1. disk'[s] = NoFile
      BY <1>1, <2>1, <2>3
    <3>2. Moved(s)'
      <4> SUFFICES ASSUME NEW t \in Tokens(start[s])
                   PROVE  \E pair \in Pairs : pair.src = s
                            /\ (t \in Tokens(disk'[pair.dst]) \/ KnownLoss(pair, t)')
        BY GoesOn DEF Moved, Tokens
      <4>1. PICK pair \in Pairs :
              pair.src = s /\ (t \in Tokens(disk[pair.dst]) \/ KnownLoss(pair, t))
        BY <2>3 DEF Moved
      <4>2. CASE pair.dst = d
        BY <2>3, <4>1, <4>2, GoesOn DEF Unheld, Gone
      <4>3. CASE pair.dst # d
        <5>1. pair.dst \in Path
          BY CommandShape DEF FileTypes
        <5> QED BY <1>1, <4>1, <4>3, <5>1, GoesOn
      <4> QED BY <4>2, <4>3
    <3> QED BY <2>3, <3>1, <3>2
  <2> QED BY <2>2, <2>3 DEF Safe, SourcesSafe
<1> QED BY <1>2, <1>3, <1>4, <1>5 DEF Safe

LEMMA WritingIsSafe ==
  ASSUME FileTypes, Safe, Goes, NEW d, NEW f, MayWrite(d), Write(d, f)
  PROVE  Safe'
BY AgreedWriting, GoesOn DEF MayWrite

(* What may be removed: a source that has arrived.                         *)
LEMMA RemovingIsSafe ==
  ASSUME FileTypes, Safe, Goes, NEW q \in Pairs, q.src \notin AllTargets, Moves, Arrived(q),
         Write(q.src, NoFile)
  PROVE  Safe'
<1>1. \A p \in Path : p # q.src => disk'[p] = disk[p] /\ Intact(p)' = Intact(p)
  BY DEF Write, FileTypes, Intact, Goes
<1>2. q.src \in AllSources /\ AllSources \subseteq Path /\ AllTargets \subseteq Path
      /\ disk'[q.src] = NoFile
  BY CommandShape DEF FileTypes, Write
<1>3. \A pair \in Pairs : pair.dst \in AllTargets /\ disk'[pair.dst] = disk[pair.dst]
  BY <1>1, <1>2, CommandShape DEF FileTypes
<1>4. Untouched' /\ TargetsSafe' /\ SelvesSafe'
  BY <1>1, <1>2, GoesOn DEF Safe, Untouched, TargetsSafe, SelvesSafe
<1>5. \A s : Moved(s) => Moved(s)'
  BY <1>3, GoesOn DEF Moved, Tokens
<1>6. Moved(q.src)
  BY DEF Moved, Arrived
<1>7. SourcesSafe'
  BY <1>1, <1>2, <1>5, <1>6, GoesOn DEF Safe, SourcesSafe
<1> QED BY <1>4, <1>7 DEF Safe

-----------------------------------------------------------------------------
(* Sequences, and where a program goes in its arguments.                   *)
LEMMA HeadAndTail ==
  ASSUME NEW S, NEW s \in Seq(S), s # <<>>
  PROVE  /\ Head(s) \in S /\ Tail(s) \in Seq(S) /\ Head(s) = s[1]
         /\ ToSet(s) = {Head(s)} \cup ToSet(Tail(s))
         /\ Len(s) \in Nat \ {0} /\ Len(Tail(s)) = Len(s) - 1
         /\ (Len(s) = 1 <=> Tail(s) = <<>>)
<1>1. Len(s) \in Nat \ {0} /\ DOMAIN s = 1 .. Len(s) /\ Head(s) = s[1] /\ Head(s) \in S
  OBVIOUS
<1>2. Tail(s) \in Seq(S) /\ Len(Tail(s)) = Len(s) - 1 /\ DOMAIN Tail(s) = 1 .. Len(s) - 1
  BY <1>1
<1>3. \A i \in 1 .. Len(s) - 1 : Tail(s)[i] = s[i + 1]
  BY <1>1
<1>4. ToSet(s) \subseteq {Head(s)} \cup ToSet(Tail(s))
  <2> SUFFICES ASSUME NEW i \in 1 .. Len(s) PROVE s[i] \in {Head(s)} \cup ToSet(Tail(s))
    BY <1>1 DEF ToSet
  <2>1. CASE i # 1
    <3>1. i - 1 \in 1 .. Len(s) - 1 /\ s[i] = Tail(s)[i - 1]
      BY <1>1, <1>3, <2>1
    <3> QED BY <1>2, <3>1 DEF ToSet
  <2> QED BY <1>1, <2>1
<1>5. {Head(s)} \cup ToSet(Tail(s)) \subseteq ToSet(s)
  <2>1. ASSUME NEW i \in 1 .. Len(s) - 1 PROVE Tail(s)[i] \in ToSet(s)
    <3>1. i + 1 \in 1 .. Len(s)
      BY <1>1
    <3> QED BY <1>1, <1>3, <3>1 DEF ToSet
  <2> QED BY <1>1, <1>2, <2>1 DEF ToSet
<1>6. Len(s) = 1 <=> Tail(s) = <<>>
  <2>1. Tail(s) = <<>> <=> Len(Tail(s)) = 0
    BY <1>2, EmptySeq
  <2> QED BY <1>1, <1>2, <2>1
<1> QED BY <1>1, <1>2, <1>4, <1>5, <1>6

LEMMA OneBefore ==
  ASSUME NEW S, NEW s \in Seq(S), NEW x \in S
  PROVE  /\ <<x>> \o s \in Seq(S) /\ <<x>> \o s # <<>> /\ Head(<<x>> \o s) = x
         /\ \A i \in DOMAIN (<<x>> \o s) :
              (<<x>> \o s)[i] = x \/ \E j \in DOMAIN s : (<<x>> \o s)[i] = s[j]
<1>1. <<x>> \in Seq(S) /\ Len(<<x>>) = 1 /\ Len(s) \in Nat
  OBVIOUS
<1>2. <<x>> \o s \in Seq(S) /\ Len(<<x>> \o s) = 1 + Len(s)
  BY <1>1
<1>3. (<<x>> \o s)[1] = x
  BY <1>1
<1>4. ASSUME NEW i \in 2 .. 1 + Len(s) PROVE i - 1 \in DOMAIN s /\ (<<x>> \o s)[i] = s[i - 1]
  BY <1>1
<1>5. DOMAIN (<<x>> \o s) = {1} \cup 2 .. 1 + Len(s)
  BY <1>1, <1>2
<1> QED BY <1>1, <1>2, <1>3, <1>4, <1>5

LEMMA UnitShape ==
  ASSUME FileTypes, Arguments, units # <<>>
  PROVE  /\ Unit \in Argument /\ Unit \in Seq(Pairs) /\ Unit # <<>> /\ ToSet(Unit) \subseteq Pairs
         /\ Tail(units) \in Seq(Argument)
         /\ \E j \in DOMAIN command.units : ToSet(Unit) \subseteq ToSet(command.units[j])
<1>1. Unit \in Argument /\ Tail(units) \in Seq(Argument) /\ Unit = units[1] /\ 1 \in DOMAIN units
  BY HeadAndTail DEF FileTypes, Unit
<1>2. Unit \in Seq(Pairs) /\ Unit # <<>>
  BY <1>1 DEF Argument
<1>3. ToSet(Unit) \subseteq Pairs
  BY <1>2 DEF ToSet
<1>4. \E j \in DOMAIN command.units : ToSet(Unit) \subseteq ToSet(command.units[j])
  BY <1>1 DEF Arguments
<1> QED BY <1>1, <1>2, <1>3, <1>4

LEMMA ThisIsOfUnit ==
  ASSUME FileTypes, Arguments, Busy
  PROVE  /\ This \in ToSet(Unit) /\ This \in Pairs /\ This \in ToSet(left)
         /\ Tail(left) \in Seq(Pairs) /\ ToSet(left) = {This} \cup ToSet(Tail(left))
         /\ (Len(left) = 1 <=> Tail(left) = <<>>)
<1>1. /\ This \in Pairs /\ Tail(left) \in Seq(Pairs) /\ ToSet(left) = {This} \cup ToSet(Tail(left))
      /\ (Len(left) = 1 <=> Tail(left) = <<>>)
  BY HeadAndTail DEF FileTypes, Busy, This
<1> QED BY <1>1 DEF Busy

(* What a step says of the arguments that are left.                        *)
Going == units' \in Seq(Argument) /\ left' \in Seq(Pairs) /\ Arguments'

LEMMA StayingGoes ==
  ASSUME FileTypes, Arguments, Goes, UNCHANGED units, left' \in Seq(Pairs)
  PROVE  Going /\ Unit' = Unit
BY DEF Going, FileTypes, Arguments, Goes, Unit

LEMMA NextUnitGoes ==
  ASSUME FileTypes, Arguments, Goes, units # <<>>, NextUnit
  PROVE  Going /\ pc' = "next"
<1>1. Tail(units) \in Seq(Argument)
  BY UnitShape
<1>2. \A i \in DOMAIN Tail(units) : i + 1 \in DOMAIN units /\ Tail(units)[i] = units[i + 1]
  BY DEF FileTypes
<1>3. Arguments'
  BY <1>2 DEF Arguments, Goes, NextUnit
<1> QED BY <1>1, <1>3 DEF Going, NextUnit

LEMMA NextFileGoes ==
  ASSUME FileTypes, Arguments, Goes, Busy, NEW at, NextFile(at)
  PROVE  /\ Going
         /\ \/ pc' = "next"
            \/ pc' = at /\ left' = Tail(left) /\ UNCHANGED units /\ Busy'
<1>1. CASE Len(left) = 1
  BY <1>1, NextUnitGoes DEF NextFile, Busy
<1>2. CASE Len(left) # 1
  <2>1. pc' = at /\ left' = Tail(left) /\ UNCHANGED units
    BY <1>2 DEF NextFile
  <2>2. left' \in Seq(Pairs) /\ left' # <<>> /\ ToSet(left') \subseteq ToSet(left)
    BY <1>2, <2>1, ThisIsOfUnit
  <2>3. Going /\ Unit' = Unit
    BY <2>1, <2>2, StayingGoes
  <2>4. ToSet(left)' = ToSet(left')
    BY DEF ToSet
  <2>5. Busy'
    <3>1. ToSet(Unit)' = ToSet(Unit)
      BY <2>3 DEF ToSet
    <3> QED BY <2>1, <2>2, <2>4, <3>1 DEF Busy
  <2> QED BY <2>1, <2>3, <2>5
<1> QED BY <1>1, <1>2

LEMMA BeginGoes ==
  ASSUME FileTypes, Arguments, Goes, units # <<>>, Found # <<>>, NEW at, Begin(at)
  PROVE  /\ Going /\ pc' = at /\ Unit' = Found /\ left' = Found /\ Busy'
         /\ ToSet(Found) \subseteq ToSet(Unit) /\ \A pair \in ToSet(Found) : Exists(pair.src)
<1>1. Unit \in Seq(Pairs) /\ Tail(units) \in Seq(Argument)
      /\ \E j \in DOMAIN command.units : ToSet(Unit) \subseteq ToSet(command.units[j])
  BY UnitShape
<1>2. Found \in Seq(Pairs) /\ ToSet(Found) = {pair \in ToSet(Unit) : Exists(pair.src)}
  BY <1>1, FoundIsThere
<1>3. Found \in Argument
  BY <1>2 DEF Argument
<1>4. /\ units' \in Seq(Argument) /\ units' # <<>> /\ Head(units') = Found
      /\ \A i \in DOMAIN units' :
           units'[i] = Found \/ \E j \in DOMAIN Tail(units) : units'[i] = Tail(units)[j]
  <2>1. units' = <<Found>> \o Tail(units)
    BY DEF Begin
  <2> QED BY <1>1, <1>3, <2>1, OneBefore
<1>5. \A j \in DOMAIN Tail(units) : j + 1 \in DOMAIN units /\ Tail(units)[j] = units[j + 1]
  BY DEF FileTypes
<1>6. Arguments'
  <2> SUFFICES ASSUME NEW i \in DOMAIN units'
               PROVE  \E j \in DOMAIN command.units :
                        ToSet(units'[i]) \subseteq ToSet(command.units[j])
    <3>1. command' = command
      BY DEF Goes
    <3> QED BY <3>1 DEF Arguments
  <2>1. CASE units'[i] = Found
    BY <1>1, <1>2, <2>1
  <2>2. CASE \E j \in DOMAIN Tail(units) : units'[i] = Tail(units)[j]
    BY <1>5, <2>2 DEF Arguments
  <2> QED BY <1>4, <2>1, <2>2
<1>7. left' = Found /\ pc' = at /\ Unit' = Found
  BY <1>4 DEF Begin, Unit
<1>8. Busy'
  <2>1. ToSet(left)' = ToSet(Found) /\ ToSet(Unit)' = ToSet(Found)
    BY <1>7 DEF ToSet
  <2> QED BY <1>4, <1>7, <2>1 DEF Busy
<1> QED BY <1>2, <1>4, <1>6, <1>7, <1>8 DEF Going

-----------------------------------------------------------------------------
(* What the tests of the programs and the command lines give.              *)
LEMMA Apart ==
  ASSUME FileTypes, NEW p \in Pairs, NEW q \in Pairs, p.src = q.dst
  PROVE  p = q /\ command.tool \in {"mv", "cp"}
BY ApartAssumption DEF FileTypes, Pairs

LEMMA NotBoth ==
  ASSUME FileTypes, NEW q \in Pairs, q.src # q.dst
  PROVE  /\ q.src \in AllSources \ AllTargets /\ q.dst \in AllTargets \ AllSources
         /\ q.src \in Path /\ q.dst \in Path
<1>1. q.src \in AllSources /\ q.dst \in AllTargets /\ q.src \in Path /\ q.dst \in Path
  BY CommandShape DEF FileTypes
<1>2. q.src \notin AllTargets
  BY Apart DEF AllTargets
<1>3. q.dst \notin AllSources
  BY Apart DEF AllSources
<1> QED BY <1>1, <1>2, <1>3

LEMMA StandingIsIntact ==
  ASSUME FileTypes, Safe, NEW s \in AllSources \ AllTargets, Exists(s) \/ ~Moves
  PROVE  Intact(s)
BY DEF Safe, SourcesSafe, Exists, NoFile

LEMMA VacantIsWritable ==
  ASSUME FileTypes, Safe, NEW d \in AllTargets \ AllSources, Exists(d) => MayOverwrite(d)
  PROVE  Writable(d)
<1>1. CASE Intact(d) /\ ~Exists(d)
  <2>1. d \in Path
    BY CommandShape DEF FileTypes
  <2>2. start[d] \in File
    BY <2>1, DisksAssumption DEF FileTypes
  <2> QED BY <1>1, <2>2 DEF Intact, Exists, File, Writable
<1> QED BY <1>1 DEF Safe, TargetsSafe, Writable

LEMMA MayWriteThere ==
  ASSUME FileTypes, NEW q \in Pairs, command.tool # "zip", Intact(q.src), Writable(q.dst),
         q.src # q.dst
  PROVE  MayWrite(q.dst)
<1>1. q.dst \in AllTargets \ AllSources
  BY NotBoth
<1>2. ASSUME NEW pair \in Pairs, pair.dst = q.dst, pair # q PROVE Gone(pair)
  BY <1>2 DEF Gone, KnownLoss, Overtaken
<1> QED BY <1>1, <1>2 DEF MayWrite, Unheld

LEMMA WrittenTypes ==
  ASSUME FileTypes, NEW d \in Path, NEW f \in Content, Write(d, f)
  PROVE  /\ disk' \in [Path -> Content] /\ disk'[d] = f
         /\ \A p \in Path : p # d => disk'[p] = disk[p]
BY DEF FileTypes, Write

LEMMA Contents ==
  ASSUME FileTypes
  PROVE  /\ \A p \in Path : disk[p] \in Content /\ start[p] \in Content
         /\ NoFile \in Content
         /\ \A form \in {"raw", "gz", "zip"}, parts \in Seq(Token) : Broken(form, parts) \in Content
         /\ Broken("raw", <<>>) \in Content /\ Broken("zip", <<>>) \in Content
         /\ \A t \in Token :
              Broken("raw", <<t>>) \in Content /\ t \in ToSet(Broken("raw", <<t>>).parts)
         /\ \A f \in Content, w \in BOOLEAN : [f EXCEPT !.whole = w] \in Content
         /\ \A f \in Content : f.parts \in Seq(Token) /\ ToSet(f.parts) \subseteq Token
<1>1. NoFile \in Content
  <2>1. <<>> \in Seq(Token)
    OBVIOUS
  <2> QED BY <2>1 DEF NoFile, Content
<1>2. \A p \in Path : start[p] \in Content
  <2> SUFFICES ASSUME NEW p \in Path PROVE start[p] \in Content
    OBVIOUS
  <2>1. start[p] \in File
    BY DisksAssumption DEF FileTypes
  <2> QED BY <1>1, <2>1 DEF File, Content
<1>3. \A form \in {"raw", "gz", "zip"}, parts \in Seq(Token) : Broken(form, parts) \in Content
  BY DEF Broken, Content
<1>4. \A f \in Content, w \in BOOLEAN : [f EXCEPT !.whole = w] \in Content
  BY DEF Content
<1>5. \A f \in Content : f.parts \in Seq(Token) /\ ToSet(f.parts) \subseteq Token
  <2>1. \A s \in Seq(Token) : ToSet(s) \subseteq Token
    BY DEF ToSet
  <2> QED BY <2>1 DEF Content
<1>6. Broken("raw", <<>>) \in Content /\ Broken("zip", <<>>) \in Content
  <2>1. <<>> \in Seq(Token)
    OBVIOUS
  <2> QED BY <1>3, <2>1
<1>7. ASSUME NEW t \in Token
      PROVE  Broken("raw", <<t>>) \in Content /\ t \in ToSet(Broken("raw", <<t>>).parts)
  <2>1. <<t>> \in Seq(Token) /\ t \in ToSet(<<t>>)
    BY DEF ToSet
  <2>2. Broken("raw", <<t>>).parts = <<t>>
    BY DEF Broken
  <2> QED BY <1>3, <2>1, <2>2
<1> QED BY <1>1, <1>2, <1>3, <1>4, <1>5, <1>6, <1>7 DEF FileTypes

(* What a step has to show.                                                *)
LEMMA StepKeeps ==
  ASSUME FileTypes, Goes, disk' \in [Path -> Content], Going, Safe', Places'
  PROVE  FilesInv'
<1>1. Argument' = Argument
  BY GoesOn DEF Argument
<1>2. FileTypes'
  BY <1>1, GoesOn DEF FileTypes, Going, Goes
<1> QED BY <1>2 DEF FilesInv, Going

LEMMA OneTool ==
  ASSUME Goes
  PROVE  /\ command.tool \in GzTool \cup BzTool /\ GzPlaces' => Places'
         /\ command.tool = "mv" /\ MvPlaces' => Places'
         /\ command.tool = "cp" /\ CpPlaces' => Places'
         /\ command.tool = "zip" /\ ZipPlaces' => Places'
         /\ command.tool = "unzip" /\ UnzipPlaces' => Places'
BY DEF Goes, Places, GzPlaces, MvPlaces, CpPlaces, ZipPlaces, UnzipPlaces, GzTool, BzTool

-----------------------------------------------------------------------------
(* gzip and bzip2.                                                         *)
LEMMA GzApart ==
  ASSUME FileTypes, command.tool \notin {"mv", "cp"}, NEW q \in Pairs
  PROVE  q.src # q.dst
BY Apart

LEMMA GzNextKeeps ==
  ASSUME FilesInv, NEW tool \in GzTool \cup BzTool, GzNext(tool)
  PROVE  FilesInv'
<1> USE DEF FilesInv
<1>1. /\ pc = "next" /\ units # <<>> /\ Unit \in Seq(Pairs) /\ Unit # <<>>
      /\ command.tool = tool /\ disk' = disk
  BY UnitShape DEF GzNext, AtUnit, At, Unwritten
<1>2. Goes
  BY DEF GzNext, Given, Unwritten, Refuse, NothingAsked, Goes, FileTypes
<1>3. Safe'
  BY <1>1, <1>2, IdleIsSafe
<1>4. CASE NextUnit
  <2>1. Going /\ pc' = "next"
    BY <1>1, <1>2, <1>4, NextUnitGoes
  <2>2. GzPlaces'
    BY <2>1 DEF GzPlaces
  <2> QED BY <1>1, <1>2, <1>3, <2>1, <2>2, OneTool, StepKeeps DEF FileTypes
<1>5. CASE /\ Exists(GzPair.dst) => command.force
           /\ Exists(GzPair.src) /\ pc' = "create" /\ left' = Unit /\ UNCHANGED units
  <2>1. Going /\ Unit' = Unit
    BY <1>1, <1>2, <1>5, StayingGoes
  <2>2. Unit[1] \in Pairs /\ GzPair = Unit[1] /\ Head(Unit) = Unit[1]
    BY <1>1, HeadAndTail DEF GzPair
  <2>3. This' = GzPair
    BY <1>5, <2>2 DEF This
  <2>4. GzPair.src # GzPair.dst
    BY <1>1, <2>2, GzApart DEF GzTool, BzTool
  <2>5. /\ GzPair.src \in AllSources \ AllTargets /\ GzPair.dst \in AllTargets \ AllSources
    BY <2>2, <2>4, NotBoth
  <2>6. Intact(GzPair.src)
    BY <1>5, <2>5, StandingIsIntact
  <2>7. Writable(GzPair.dst)
    <3>1. Exists(GzPair.dst) => MayOverwrite(GzPair.dst)
      BY <1>1, <1>5 DEF MayOverwrite, GzTool, BzTool
    <3> QED BY <2>5, <3>1, VacantIsWritable
  <2>8. Busy'
    <3>1. ToSet(left)' = ToSet(Unit) /\ ToSet(Unit)' = ToSet(Unit)
      BY <1>5, <2>1 DEF ToSet
    <3> QED BY <1>1, <1>5, <3>1 DEF Busy
  <2>9. Intact(This.src)' /\ Writable(This.dst)'
    <3>1. \A p : Intact(p)' = Intact(p)
      BY <1>1, <1>2 DEF Intact, Goes
    <3>2. \A p : Writable(p) => Writable(p)'
      BY <1>2, GoesOn
    <3> QED BY <2>3, <2>6, <2>7, <3>1, <3>2
  <2>10. GzPlaces'
    BY <1>5, <2>8, <2>9 DEF GzPlaces
  <2> QED BY <1>1, <1>2, <1>3, <2>1, <2>10, OneTool, StepKeeps DEF FileTypes
<1> QED BY <1>4, <1>5 DEF GzNext

(* The pair it is at.                                                      *)
LEMMA GzHere ==
  ASSUME FilesInv, command.tool \in GzTool \cup BzTool,
         pc \in {"create", "copy", "close", "remove"}
  PROVE  /\ Busy /\ This \in Pairs /\ This.src # This.dst
         /\ This.src \in Path /\ This.dst \in Path /\ This.src \notin AllTargets
         /\ Intact(This.src) /\ Writable(This.dst) /\ MayWrite(This.dst)
<1>1. Busy /\ Intact(This.src) /\ Writable(This.dst)
  BY DEF FilesInv, Places, GzPlaces
<1>2. This \in Pairs
  BY <1>1, ThisIsOfUnit DEF FilesInv
<1>3. This.src # This.dst
  BY <1>2, GzApart DEF FilesInv, GzTool, BzTool
<1>4. MayWrite(This.dst)
  BY <1>1, <1>2, <1>3, MayWriteThere DEF FilesInv, GzTool, BzTool
<1> QED BY <1>1, <1>2, <1>3, <1>4, NotBoth DEF FilesInv

LEMMA SamePlace ==
  ASSUME FileTypes, Arguments, Goes, Busy, UNCHANGED <<units, left>>
  PROVE  Going /\ Busy' /\ This' = This /\ Unit' = Unit
<1>1. ToSet(left)' = ToSet(left) /\ ToSet(Unit)' = ToSet(Unit)
  BY DEF ToSet, Unit
<1>2. left \in Seq(Pairs)
  BY DEF FileTypes
<1> QED BY <1>1, <1>2, StayingGoes DEF Busy, This

(* A step to the next argument.                                            *)
LEMMA GzStops ==
  ASSUME FilesInv, command.tool \in GzTool \cup BzTool, Goes, Busy, NextUnit,
         disk' \in [Path -> Content], Safe'
  PROVE  FilesInv'
<1>1. Going /\ pc' = "next"
  BY NextUnitGoes DEF FilesInv, Busy
<1>2. GzPlaces'
  BY <1>1 DEF GzPlaces
<1> QED BY <1>1, <1>2, OneTool, StepKeeps DEF FilesInv

(* A step that writes to the target, or not at all, and stays with it.     *)
LEMMA GzStays ==
  ASSUME FilesInv, command.tool \in GzTool \cup BzTool, Goes,
         pc \in {"create", "copy", "close", "remove"}, UNCHANGED <<units, left>>,
         disk' \in [Path -> Content], Safe',
         \A p \in Path : p # This.dst => disk'[p] = disk[p],
         pc' \in {"copy", "close", "remove"},
         pc' = "close" => Carried(This)', pc' = "remove" => Arrived(This)' /\ ~command.keep
  PROVE  FilesInv'
<1>1. /\ Busy /\ This \in Pairs /\ This.src # This.dst /\ This.src \in Path
      /\ Intact(This.src) /\ Writable(This.dst)
  BY GzHere
<1>2. Going /\ Busy' /\ This' = This
  BY <1>1, SamePlace DEF FilesInv
<1>3. Intact(This.src)'
  BY <1>1, <1>2 DEF Intact, Goes
<1>4. Writable(This.dst)'
  BY <1>1, <1>2, GoesOn DEF FilesInv
<1>5. GzPlaces'
  BY <1>2, <1>3, <1>4, GoesOn DEF GzPlaces, FilesInv
<1> QED BY <1>2, <1>5, OneTool, StepKeeps DEF FilesInv

LEMMA GzCreateKeeps ==
  ASSUME FilesInv, NEW tool \in GzTool \cup BzTool, GzCreate(tool)
  PROVE  FilesInv'
<1>1. pc = "create" /\ command.tool = tool
  BY DEF GzCreate, At
<1>2. Goes
  BY DEF GzCreate, Given, WriteNow, Unwritten, NothingAsked, Goes, FilesInv, FileTypes
<1>3. /\ Busy /\ This.dst \in Path /\ MayWrite(This.dst)
  BY <1>1, GzHere
<1>4. CASE Write(This.dst, Broken("raw", <<>>)) /\ Goto("copy")
  <2>1. Broken("raw", <<>>) \in Content
    BY Contents DEF FilesInv
  <2>2. disk' \in [Path -> Content] /\ \A p \in Path : p # This.dst => disk'[p] = disk[p]
    BY <1>3, <1>4, <2>1, WrittenTypes DEF FilesInv
  <2>3. Safe'
    BY <1>2, <1>3, <1>4, WritingIsSafe DEF FilesInv
  <2> QED BY <1>1, <1>2, <1>4, <2>2, <2>3, GzStays DEF Goto
<1>5. CASE Unwritten /\ NextUnit
  <2>1. disk' = disk
    BY <1>5 DEF Unwritten
  <2> QED BY <1>1, <1>2, <1>3, <1>5, <2>1, IdleIsSafe, GzStops DEF FilesInv, FileTypes
<1> QED BY <1>4, <1>5 DEF GzCreate, WriteNow

(* All but the later members of a stream get to the target.                *)
LEMMA GzCopyKeeps ==
  ASSUME FilesInv, NEW tool \in GzTool \cup BzTool, GzCopy(tool)
  PROVE  FilesInv'
<1> DEFINE f == IF Compresses(tool) THEN Broken("gz", disk[This.src].parts)
                ELSE Broken("raw", Decoded(disk[This.src]))
<1>1. pc = "copy" /\ command.tool = tool
  BY DEF GzCopy, At
<1>2. Goes
  BY DEF GzCopy, Given, WriteNow, Unwritten, NothingAsked, Goes, FilesInv, FileTypes
<1>3. /\ Busy /\ This \in Pairs /\ This.src \in Path /\ This.dst \in Path /\ MayWrite(This.dst)
      /\ This.src # This.dst /\ Intact(This.src)
  BY <1>1, GzHere
<1>4. CASE (Compresses(tool) \/ Decodes(disk[This.src])) /\ Write(This.dst, f) /\ Goto("close")
  <2>1. start[This.src].parts \in Seq(Token) /\ disk[This.src] = start[This.src]
    BY <1>3, Contents DEF FilesInv, Intact
  <2>2. /\ f \in Content
        /\ \A t \in ToSet(start[This.src].parts) : t \in ToSet(f.parts) \/ LaterMember(This.src, t)
    <3>1. CASE Compresses(tool)
      <4>1. f = Broken("gz", start[This.src].parts)
        BY <2>1, <3>1
      <4> QED BY <2>1, <4>1, Contents DEF Broken, FilesInv
    <3>2. CASE ~Compresses(tool)
      <4>1. start[This.src].parts # <<>> /\ f = Broken("raw", <<Head(start[This.src].parts)>>)
        BY <1>4, <2>1, <3>2 DEF Decodes, Decoded
      <4>2. /\ Head(start[This.src].parts) \in Token
            /\ ToSet(start[This.src].parts)
                 = {Head(start[This.src].parts)} \cup ToSet(Tail(start[This.src].parts))
        BY <2>1, <4>1, HeadAndTail
      <4>3. f \in Content /\ Head(start[This.src].parts) \in ToSet(f.parts)
        BY <4>1, <4>2, Contents DEF FilesInv
      <4>4. command.tool \in {"gunzip", "bunzip2"}
        BY <1>1, <3>2 DEF Compresses, GzTool, BzTool
      <4> QED BY <4>2, <4>3, <4>4 DEF LaterMember
    <3> QED BY <3>1, <3>2
  <2> HIDE DEF f
  <2>3. /\ disk' \in [Path -> Content] /\ disk'[This.dst] = f
        /\ \A p \in Path : p # This.dst => disk'[p] = disk[p]
    BY <1>3, <1>4, <2>2, WrittenTypes DEF FilesInv
  <2>4. Safe'
    BY <1>2, <1>3, <1>4, WritingIsSafe DEF FilesInv
  <2>5. Carried(This)'
    <3>1. This' = This
      BY <1>4 DEF Goto, This
    <3>2. ASSUME NEW t \in Tokens(start[This.src])
          PROVE  t \in ToSet(disk'[This.dst].parts) \/ KnownLoss(This, t)'
      <4>1. t \in ToSet(start[This.src].parts)
        BY DEF Tokens
      <4>2. KnownLoss(This, t) => KnownLoss(This, t)'
        BY <1>2, GoesOn, <3>1 DEF FilesInv
      <4> QED BY <2>2, <2>3, <4>1, <4>2 DEF KnownLoss
    <3> QED BY <1>2, <3>1, <3>2 DEF Carried, Goes, Tokens, ToSet
  <2> QED BY <1>1, <1>2, <1>4, <2>3, <2>4, <2>5, GzStays DEF Goto
<1>5. CASE Unwritten /\ NextUnit
  <2>1. disk' = disk
    BY <1>5 DEF Unwritten
  <2> QED BY <1>1, <1>2, <1>3, <1>5, <2>1, IdleIsSafe, GzStops DEF FilesInv, FileTypes
<1> QED BY <1>4, <1>5 DEF GzCopy, WriteNow

(* What a buffer that is dropped does to a file that was carried.          *)
LEMMA DroppedBuffer ==
  ASSUME FilesInv, Goes, NEW d \in Path, MayWrite(d), DropBuffer(d)
  PROVE  /\ disk' \in [Path -> Content] /\ Safe'
         /\ \A p \in Path : p # d => disk'[p] = disk[p]
         /\ \A pair \in Pairs : pair.dst = d /\ Carried(pair) =>
              \A t \in Tokens(start[pair.src]) : t \in Tokens(disk'[d]) \/ KnownLoss(pair, t)'
<1>1. CASE Write(d, [disk[d] EXCEPT !.whole = TRUE])
  <2>1. disk[d] \in Content /\ [disk[d] EXCEPT !.whole = TRUE] \in Content
    BY Contents DEF FilesInv
  <2>2. /\ disk' \in [Path -> Content] /\ disk'[d] = [disk[d] EXCEPT !.whole = TRUE]
        /\ \A p \in Path : p # d => disk'[p] = disk[p]
    BY <1>1, <2>1, WrittenTypes DEF FilesInv
  <2>3. Safe'
    BY <1>1, WritingIsSafe DEF FilesInv
  <2>4. Tokens(disk'[d]) = ToSet(disk[d].parts)
    BY <2>1, <2>2 DEF Tokens, Content
  <2> QED BY <2>2, <2>3, <2>4, GoesOn DEF Carried, FilesInv
<1>2. CASE tailLost' = tailLost \cup {d} /\ UNCHANGED disk
  <2>1. Safe'
    BY <1>2, IdleIsSafe DEF FilesInv
  <2> QED BY <1>2, <2>1 DEF FilesInv, FileTypes, KnownLoss
<1> QED BY <1>1, <1>2 DEF DropBuffer, WriteNow

LEMMA GzCloseKeeps ==
  ASSUME FilesInv, NEW tool \in GzTool \cup BzTool, GzClose(tool)
  PROVE  FilesInv'
<1>1. pc = "close" /\ command.tool = tool /\ DropBuffer(This.dst)
  BY DEF GzClose, At
<1>2. Goes
  BY DEF GzClose, Given, DropBuffer, WriteNow, NothingAsked, Goes, FilesInv, FileTypes
<1>3. Busy /\ This \in Pairs /\ This.dst \in Path /\ MayWrite(This.dst) /\ Carried(This)
  BY <1>1, GzHere DEF FilesInv, Places, GzPlaces
<1>4. /\ disk' \in [Path -> Content] /\ Safe'
      /\ \A p \in Path : p # This.dst => disk'[p] = disk[p]
      /\ \A q \in Pairs : q = This =>
           \A t \in Tokens(start[q.src]) : t \in Tokens(disk'[q.dst]) \/ KnownLoss(q, t)'
  BY <1>1, <1>2, <1>3, DroppedBuffer
<1>5. CASE NextUnit
  BY <1>1, <1>2, <1>3, <1>4, <1>5, GzStops
<1>6. CASE ~command.keep /\ Goto("remove")
  <2>1. This' = This
    BY <1>6 DEF Goto, This
  <2>2. Arrived(This)'
    BY <1>2, <1>3, <1>4, <2>1 DEF Arrived, Goes, Tokens
  <2> QED BY <1>1, <1>2, <1>4, <1>6, <2>2, GzStays DEF Goto
<1> QED BY <1>5, <1>6 DEF GzClose

LEMMA GzRemoveKeeps ==
  ASSUME FilesInv, NEW tool \in GzTool \cup BzTool, GzRemove(tool)
  PROVE  FilesInv'
<1>1. pc = "remove" /\ command.tool = tool /\ NextUnit
  BY DEF GzRemove, At
<1>2. Goes
  BY DEF GzRemove, Given, WriteNow, Unwritten, NothingAsked, Goes, FilesInv, FileTypes
<1>3. /\ Busy /\ This \in Pairs /\ This.src \in Path /\ This.src \notin AllTargets
      /\ Arrived(This) /\ ~command.keep
  BY <1>1, GzHere DEF FilesInv, Places, GzPlaces
<1>4. CASE Write(This.src, NoFile)
  <2>1. disk' \in [Path -> Content]
    BY <1>3, <1>4, Contents, WrittenTypes DEF FilesInv
  <2>2. Moves
    BY <1>1, <1>3 DEF Moves
  <2>3. Safe'
    BY <1>2, <1>3, <1>4, <2>2, RemovingIsSafe DEF FilesInv
  <2> QED BY <1>1, <1>2, <1>3, <2>1, <2>3, GzStops
<1>5. CASE Unwritten
  <2>1. disk' = disk
    BY <1>5 DEF Unwritten
  <2> QED BY <1>1, <1>2, <1>3, <2>1, IdleIsSafe, GzStops DEF FilesInv, FileTypes
<1> QED BY <1>4, <1>5 DEF GzRemove, WriteNow

LEMMA GzKeeps ==
  ASSUME FilesInv, GzStep \/ BzStep
  PROVE  FilesInv'
<1>1. PICK tool \in GzTool \cup BzTool : Compressor(tool)
  BY DEF GzStep, BzStep
<1> QED BY <1>1, GzNextKeeps, GzCreateKeeps, GzCopyKeeps, GzCloseKeeps, GzRemoveKeeps
     DEF Compressor

-----------------------------------------------------------------------------
(* mv.  What it goes on with may be overwritten.                           *)
LEMMA MvUnit ==
  ASSUME FilesInv, command.tool = "mv", units # <<>>
  PROVE  /\ Unit \in Seq(Pairs) /\ Unit # <<>> /\ ToSet(Unit) \subseteq Pairs
         /\ \A p, q \in ToSet(Unit) : p.src = p.dst => q.src = q.dst
<1>1. PICK j \in DOMAIN command.units : ToSet(Unit) \subseteq ToSet(command.units[j])
  BY UnitShape DEF FilesInv
<1>2. \A p, q \in ToSet(command.units[j]) : p.src = p.dst => q.src = q.dst
  BY UnitsAssumption DEF FilesInv, FileTypes
<1> QED BY <1>1, <1>2, UnitShape DEF FilesInv

LEMMA MvAgreed ==
  ASSUME FilesInv, command.tool = "mv", units # <<>>, MvGoesOn, Goes,
         NEW pair \in ToSet(Unit), pair.src # pair.dst
  PROVE  Writable(pair.dst)'
<1>1. pair \in Pairs /\ pair.dst \in Targets
  <2>1. PICK i \in DOMAIN Unit : pair = Unit[i]
    BY DEF ToSet
  <2> QED BY <2>1, MvUnit DEF Targets
<1>2. CASE Exists(pair.dst)
  <2>1. Taken /\ ~command.noClobber
    BY <1>1, <1>2 DEF Taken, MvGoesOn
  <2>2. Asks => pair.dst \in agreed'
    BY <1>1, <2>1 DEF MvGoesOn
  <2>3. Agreed(pair.dst)'
    BY <2>1, <2>2 DEF Agreed, Asks, Goes
  <2> QED BY <2>3 DEF Writable, MayOverwrite, Goes, GzTool, BzTool
<1>3. CASE ~Exists(pair.dst)
  <2>1. Writable(pair.dst)
    BY <1>1, <1>3, NotBoth, VacantIsWritable DEF FilesInv
  <2> QED BY <2>1, GoesOn DEF FilesInv
<1> QED BY <1>2, <1>3

LEMMA MvStops ==
  ASSUME FilesInv, command.tool = "mv", Goes, units # <<>>, NextUnit,
         disk' \in [Path -> Content], Safe'
  PROVE  FilesInv'
<1>1. Going /\ pc' = "next"
  BY NextUnitGoes DEF FilesInv
<1>2. MvPlaces'
  BY <1>1 DEF MvPlaces
<1> QED BY <1>1, <1>2, OneTool, StepKeeps DEF FilesInv

LEMMA MvIdleStops ==
  ASSUME FilesInv, command.tool = "mv", Goes, units # <<>>, NextUnit, Unwritten
  PROVE  FilesInv'
<1>1. disk' = disk
  BY DEF Unwritten
<1> QED BY <1>1, IdleIsSafe, MvStops DEF FilesInv, FileTypes

(* A rename overwrites targets with what was at their sources; of two      *)
(* sources with one target, one is overtaken.                              *)
LEMMA RenamedPath ==
  ASSUME FilesInv, units # <<>>, command.tool = "mv", disk' = AsRenamed, NEW p \in Path
  PROVE  /\ p \in Targets =>
              \E q \in ToSet(Unit) : q \in Pairs /\ q.dst = p /\ disk'[p] = disk[q.src]
         /\ p \notin Targets /\ p \in Sources => disk'[p] = NoFile
         /\ p \notin Targets /\ p \notin Sources => disk'[p] = disk[p]
<1>1. disk'[p] = IF p \in Targets THEN disk[Unit[CHOOSE i \in DOMAIN Unit : Unit[i].dst = p].src]
                 ELSE IF p \in Sources THEN NoFile ELSE disk[p]
  BY DEF AsRenamed
<1>2. ASSUME p \in Targets
      PROVE  \E q \in ToSet(Unit) : q \in Pairs /\ q.dst = p /\ disk'[p] = disk[q.src]
  <2> DEFINE c == CHOOSE i \in DOMAIN Unit : Unit[i].dst = p
  <2>1. c \in DOMAIN Unit /\ Unit[c].dst = p
    BY <1>2 DEF Targets
  <2>2. Unit[c] \in ToSet(Unit) /\ Unit[c] \in Pairs
    BY <2>1, MvUnit DEF ToSet
  <2> QED BY <1>1, <1>2, <2>1, <2>2
<1> QED BY <1>1, <1>2

LEMMA UnitEnds ==
  ASSUME FilesInv, command.tool = "mv", units # <<>>
  PROVE  /\ Sources = {q.src : q \in ToSet(Unit)} /\ Targets = {q.dst : q \in ToSet(Unit)}
         /\ Sources \subseteq AllSources /\ Targets \subseteq AllTargets
<1>1. Sources = {q.src : q \in ToSet(Unit)} /\ Targets = {q.dst : q \in ToSet(Unit)}
  BY DEF Sources, Targets, ToSet
<1> QED BY <1>1, MvUnit, CommandShape DEF FilesInv, FileTypes

LEMMA RenamingTypes ==
  ASSUME FilesInv, units # <<>>, command.tool = "mv", disk' = AsRenamed
  PROVE  disk' \in [Path -> Content]
<1>1. \A p \in Path : disk'[p] \in Content
  <2> SUFFICES ASSUME NEW p \in Path PROVE disk'[p] \in Content
    OBVIOUS
  <2>1. \A q \in Pairs : disk[q.src] \in Content
    BY CommandShape, Contents DEF FilesInv, FileTypes
  <2> QED BY <2>1, RenamedPath, Contents DEF FilesInv
<1> QED BY <1>1 DEF AsRenamed

LEMMA RenamingSelf ==
  ASSUME FilesInv, units # <<>>, command.tool = "mv", disk' = AsRenamed,
         NEW self \in ToSet(Unit), self.src = self.dst
  PROVE  disk' = disk
<1>1. \A q \in ToSet(Unit) : q.src = q.dst
  BY MvUnit
<1>2. ASSUME NEW p \in Path PROVE disk'[p] = disk[p]
  BY <1>1, RenamedPath, UnitEnds
<1> QED BY <1>2 DEF AsRenamed, FilesInv, FileTypes

LEMMA RenamingIsSafe ==
  ASSUME FilesInv, units # <<>>, command.tool = "mv", disk' = AsRenamed, MvGoesOn, Goes,
         Found # <<>>, ~(IsDirectory /\ Taken), \A q \in ToSet(Unit) : q.src # q.dst
  PROVE  Safe'
<1>1. \A q \in ToSet(Unit) :
        /\ q \in Pairs /\ q.src \in AllSources \ AllTargets /\ q.dst \in AllTargets \ AllSources
        /\ q.src \in Path /\ q.dst \in Path
  BY MvUnit, NotBoth DEF FilesInv
<1>2. Sources \cap AllTargets = {} /\ Targets \cap AllSources = {}
  BY <1>1, UnitEnds
<1>3. \A p \in Path : p \notin Targets /\ p \notin Sources =>
        disk'[p] = disk[p] /\ Intact(p)' = Intact(p)
  BY RenamedPath DEF Intact, Goes
<1>4. AllSources \subseteq Path /\ AllTargets \subseteq Path
  BY CommandShape DEF FilesInv, FileTypes
<1>5. Untouched' /\ SelvesSafe'
  BY <1>2, <1>3, <1>4, UnitEnds, GoesOn DEF FilesInv, Safe, Untouched, SelvesSafe
<1>6. TargetsSafe'
  <2> SUFFICES ASSUME NEW p \in AllTargets \ AllSources PROVE Intact(p)' \/ Writable(p)'
    BY GoesOn DEF TargetsSafe, FilesInv
  <2>1. CASE p \in Targets
    <3>1. PICK q \in ToSet(Unit) : q.dst = p
      BY <2>1, UnitEnds
    <3> QED BY <3>1, MvAgreed
  <2>2. CASE p \notin Targets
    BY <1>3, <1>4, <2>2, UnitEnds, GoesOn DEF FilesInv, Safe, TargetsSafe
  <2> QED BY <2>1, <2>2
<1>7. SourcesSafe'
  <2> SUFFICES ASSUME NEW s \in AllSources \ AllTargets
               PROVE  Intact(s)' \/ (Moves /\ disk'[s] = NoFile /\ Moved(s)')
    BY GoesOn DEF SourcesSafe, FilesInv
  <2> DEFINE Safely(t) ==
        \E w \in Pairs : w.src = s /\ (t \in Tokens(disk'[w.dst]) \/ KnownLoss(w, t)')
  <2>1. Moves /\ s \in Path /\ s \notin Targets
    BY <1>2, <1>4 DEF Moves
  <2>2. ASSUME NEW w \in Pairs, NEW q \in Pairs, w.src = s, q.dst = w.dst, q # w, NEW t
        PROVE  Safely(t)
    <3>1. KnownLoss(w, t)
      BY <2>2 DEF KnownLoss, Overtaken
    <3> QED BY <2>2, <3>1, GoesOn DEF FilesInv
  <2>3. (\A t \in Tokens(start[s]) : Safely(t)) => Moved(s)'
    BY GoesOn DEF Moved, FilesInv, Tokens
  <2>4. CASE Intact(s) /\ s \in Sources
    <3>1. PICK w \in ToSet(Unit) : w \in Pairs /\ w.src = s /\ w.dst \in Targets /\ w.dst \in Path
      BY <1>1, <2>4, UnitEnds
    <3>2. PICK q \in ToSet(Unit) : q \in Pairs /\ q.dst = w.dst /\ disk'[w.dst] = disk[q.src]
      BY <3>1, RenamedPath
    <3>3. CASE q = w
      BY <2>1, <2>3, <2>4, <3>1, <3>2, <3>3, RenamedPath DEF Intact
    <3>4. CASE q # w
      BY <2>1, <2>2, <2>3, <2>4, <3>1, <3>2, <3>4, RenamedPath
    <3> QED BY <3>3, <3>4
  <2>5. CASE ~Intact(s)
    <3>1. disk[s] = NoFile /\ Moved(s)
      BY <2>5 DEF FilesInv, Safe, SourcesSafe
    <3>2. disk'[s] = NoFile
      BY <2>1, <3>1, RenamedPath
    <3>3. ASSUME NEW t \in Tokens(start[s]) PROVE Safely(t)
      <4>1. PICK w \in Pairs : w.src = s /\ (t \in Tokens(disk[w.dst]) \/ KnownLoss(w, t))
        BY <3>1 DEF Moved
      <4>2. CASE KnownLoss(w, t)
        BY <4>1, <4>2, GoesOn DEF FilesInv
      <4>3. CASE t \in Tokens(disk[w.dst])
        <5>1. w.dst \in Path /\ w.dst \notin Sources
          BY <1>2, CommandShape DEF FilesInv, FileTypes
        <5>2. CASE w.dst \notin Targets
          BY <1>3, <4>1, <4>3, <5>1, <5>2
        <5>3. CASE w.dst \in Targets
          <6>1. PICK q \in ToSet(Unit) : q \in Pairs /\ q.dst = w.dst
            BY <5>1, <5>3, RenamedPath
          <6>2. q # w
            <7>1. SUFFICES ASSUME q = w PROVE FALSE
              OBVIOUS
            <7>2. Exists(w.dst)
              <8>1. disk[w.dst] \in Content
                BY <5>1, Contents DEF FilesInv
              <8> QED BY <4>3, <8>1 DEF Tokens, Content, Exists, ToSet
            <7>3. Len(Unit) = 1
              <8>1. Len(Unit) \in Nat \ {0}
                BY MvUnit, HeadAndTail
              <8>2. ~IsDirectory
                BY <5>3, <7>2 DEF Taken
              <8>3. ~(Len(Unit) > 1)
                BY <8>2, Zenon DEF IsDirectory
              <8>4. \A n \in Nat \ {0} : ~(n > 1) => n = 1
                OBVIOUS
              <8> QED BY <8>1, <8>3, <8>4, Zenon
            <7>4. ToSet(Unit) = {q}
              <8>1. ToSet(Unit) = {Unit[1]}
                BY <7>3, MvUnit DEF ToSet
              <8> QED BY <8>1
            <7>5. \E r \in ToSet(Unit) : Exists(r.src)
              <8>1. Found \in Seq(Pairs) /\ ToSet(Found) = {pair \in ToSet(Unit) : Exists(pair.src)}
                BY MvUnit, FoundIsThere
              <8>2. Head(Found) \in ToSet(Found)
                BY <8>1, HeadAndTail
              <8> QED BY <8>1, <8>2
            <7> QED BY <3>1, <4>1, <7>1, <7>4, <7>5 DEF Exists, NoFile
          <6> QED BY <2>2, <4>1, <6>1, <6>2
        <5> QED BY <5>2, <5>3
      <4> QED BY <4>1, <4>2, <4>3
    <3> QED BY <2>1, <2>3, <3>2, <3>3
  <2>6. CASE Intact(s) /\ s \notin Sources
    BY <1>3, <2>1, <2>6
  <2> QED BY <2>4, <2>5, <2>6
<1> QED BY <1>5, <1>6, <1>7 DEF Safe

LEMMA MvRenameKeeps ==
  ASSUME FilesInv, MvRename
  PROVE  FilesInv'
<1>1. command.tool = "mv" /\ units # <<>> /\ Found # <<>> /\ MvGoesOn /\ NextUnit
  BY DEF MvRename, MvGoesOn, AtUnit, At
<1>2. Goes
  BY DEF MvRename, MvGoesOn, Given, Unwritten, Goes, FilesInv, FileTypes
<1>3. CASE ~(IsDirectory /\ Taken) /\ disk' = AsRenamed
  <2>1. disk' \in [Path -> Content]
    BY <1>1, <1>3, RenamingTypes
  <2>2. Safe'
    <3>1. CASE \E self \in ToSet(Unit) : self.src = self.dst
      BY <1>1, <1>2, <1>3, <3>1, RenamingSelf, IdleIsSafe DEF FilesInv
    <3>2. CASE \A q \in ToSet(Unit) : q.src # q.dst
      BY <1>1, <1>2, <1>3, <3>2, RenamingIsSafe
    <3> QED BY <3>1, <3>2
  <2> QED BY <1>1, <1>2, <2>1, <2>2, MvStops
<1>4. CASE Unwritten
  BY <1>1, <1>2, <1>4, MvIdleStops
<1> QED BY <1>3, <1>4 DEF MvRename

LEMMA MvAcrossKeeps ==
  ASSUME FilesInv, MvAcross
  PROVE  FilesInv'
<1>1. /\ command.tool = "mv" /\ units # <<>> /\ Found # <<>> /\ MvGoesOn /\ Begin("create")
      /\ CrossDevice /\ disk' = disk
  BY DEF MvAcross, MvGoesOn, AtUnit, At, Unwritten
<1>2. Goes
  BY DEF MvAcross, MvGoesOn, Given, Unwritten, Goes, FilesInv, FileTypes
<1>3. /\ Going /\ pc' = "create" /\ Unit' = Found /\ left' = Found /\ Busy'
      /\ ToSet(Found) \subseteq ToSet(Unit) /\ \A pair \in ToSet(Found) : Exists(pair.src)
  BY <1>1, <1>2, BeginGoes DEF FilesInv
<1>4. \A pair \in ToSet(Unit) : pair \in Pairs /\ pair.src # pair.dst
  <2>1. PICK i \in DOMAIN Unit : Volume[Unit[i].src] # Volume[Unit[i].dst]
    BY <1>1 DEF CrossDevice
  <2>2. Unit[i] \in ToSet(Unit) /\ Unit[i].src # Unit[i].dst
    BY <2>1 DEF ToSet
  <2>3. ASSUME NEW pair \in ToSet(Unit) PROVE pair \in Pairs /\ pair.src # pair.dst
    BY <1>1, <2>2, MvUnit
  <2> QED BY <2>3
<1>5. Safe'
  BY <1>1, <1>2, IdleIsSafe DEF FilesInv
<1>6. ASSUME NEW pair \in ToSet(Found)
      PROVE  pair.src # pair.dst /\ Intact(pair.src)' /\ Writable(pair.dst)'
  <2>1. pair \in ToSet(Unit) /\ pair \in Pairs /\ pair.src # pair.dst
    BY <1>3, <1>4
  <2>2. Intact(pair.src)
    BY <1>3, <2>1, NotBoth, StandingIsIntact DEF FilesInv
  <2>3. Writable(pair.dst)'
    BY <1>1, <1>2, <2>1, MvAgreed
  <2> QED BY <1>1, <1>2, <2>1, <2>2, <2>3 DEF Intact, Goes
<1>7. MvPlaces'
  <2>1. ToSet(Unit)' = ToSet(Found) /\ ToSet(left)' = ToSet(Found)
    BY <1>3 DEF ToSet
  <2> QED BY <1>3, <1>6, <2>1 DEF MvPlaces
<1> QED BY <1>1, <1>2, <1>3, <1>5, <1>7, OneTool, StepKeeps DEF FilesInv, FileTypes

LEMMA MvHere ==
  ASSUME FilesInv, command.tool = "mv", pc \in {"create", "copy", "remove"}
  PROVE  /\ Busy /\ This \in Pairs /\ This \in ToSet(Unit)
         /\ This.src \in AllSources \ AllTargets /\ This.src \in Path /\ This.dst \in Path
         /\ \A pair \in ToSet(Unit) :
              pair \in Pairs /\ pair.src # pair.dst /\ pair.src \notin AllTargets
                /\ pair.src \in Path /\ pair.dst \in Path
         /\ pc # "remove" => MayWrite(This.dst)
<1>1. Busy /\ \A pair \in ToSet(Unit) : pair.src # pair.dst
  BY DEF FilesInv, Places, MvPlaces
<1>2. This \in Pairs /\ This \in ToSet(Unit) /\ ToSet(Unit) \subseteq Pairs
  BY <1>1, ThisIsOfUnit, MvUnit DEF FilesInv, Busy
<1>3. pc # "remove" => Intact(This.src) /\ Writable(This.dst)
  BY <1>2 DEF FilesInv, Places, MvPlaces
<1>4. pc # "remove" => MayWrite(This.dst)
  BY <1>1, <1>2, <1>3, MayWriteThere DEF FilesInv
<1> QED BY <1>1, <1>2, <1>4, NotBoth DEF FilesInv

(* A write to the target leaves whoever else has arrived, or overtakes it. *)
LEMMA MvWrites ==
  ASSUME FilesInv, command.tool = "mv", Goes, pc \in {"create", "copy"},
         NEW f \in Content, Write(This.dst, f)
  PROVE  /\ disk' \in [Path -> Content] /\ disk'[This.dst] = f /\ Safe'
         /\ \A pair \in ToSet(Unit) : Intact(pair.src)' /\ Writable(pair.dst)'
         /\ \A pair \in ToSet(Unit) : Arrived(pair) /\ pair # This => Arrived(pair)'
<1>1. /\ Busy /\ This \in Pairs /\ This \in ToSet(Unit) /\ This.dst \in Path /\ MayWrite(This.dst)
      /\ \A pair \in ToSet(Unit) : pair \in Pairs /\ pair.src # pair.dst
           /\ pair.src \notin AllTargets /\ pair.src \in Path /\ pair.dst \in Path
  BY MvHere
<1>2. /\ disk' \in [Path -> Content] /\ disk'[This.dst] = f
      /\ \A p \in Path : p # This.dst => disk'[p] = disk[p]
  BY <1>1, WrittenTypes DEF FilesInv
<1>3. Safe'
  BY <1>1, WritingIsSafe DEF FilesInv
<1>4. \A pair \in ToSet(Unit) : Intact(pair.src) /\ Writable(pair.dst)
  BY DEF FilesInv, Places, MvPlaces
<1>5. This.dst \in AllTargets
  BY <1>1, CommandShape DEF FilesInv, FileTypes
<1>6. ASSUME NEW pair \in ToSet(Unit) PROVE Intact(pair.src)' /\ Writable(pair.dst)'
  <2>1. pair.src # This.dst /\ pair.src \in Path
    BY <1>1, <1>5
  <2> QED BY <1>2, <1>4, <2>1, GoesOn DEF Intact, Goes, FilesInv
<1>7. ASSUME NEW pair \in ToSet(Unit), Arrived(pair), pair # This PROVE Arrived(pair)'
  <2>1. CASE pair.dst = This.dst
    <3>1. Overtaken(pair)
      BY <1>1, <1>7, <2>1 DEF Overtaken
    <3>2. \A t : KnownLoss(pair, t)'
      BY <3>1, GoesOn DEF KnownLoss, FilesInv
    <3> QED BY <3>2 DEF Arrived
  <2>2. CASE pair.dst # This.dst
    <3>1. disk'[pair.dst] = disk[pair.dst]
      BY <1>1, <1>2, <2>2
    <3> QED BY <1>7, <3>1, GoesOn DEF Arrived, Tokens, FilesInv
  <2> QED BY <2>1, <2>2
<1> QED BY <1>2, <1>3, <1>6, <1>7

LEMMA MvCreateKeeps ==
  ASSUME FilesInv, MvCreate
  PROVE  FilesInv'
<1>1. pc = "create" /\ command.tool = "mv"
  BY DEF MvCreate, At
<1>2. Goes
  BY DEF MvCreate, Given, WriteNow, Unwritten, NothingAsked, Goes, FilesInv, FileTypes
<1>3. Busy /\ This \in ToSet(left)
  BY <1>1, MvHere, ThisIsOfUnit DEF FilesInv
<1>4. CASE Write(This.dst, Broken("raw", <<>>)) /\ Goto("copy")
  <2>1. Broken("raw", <<>>) \in Content
    BY Contents DEF FilesInv
  <2>2. /\ disk' \in [Path -> Content] /\ Safe'
        /\ \A pair \in ToSet(Unit) : Intact(pair.src)' /\ Writable(pair.dst)'
        /\ \A pair \in ToSet(Unit) : Arrived(pair) /\ pair # This => Arrived(pair)'
    BY <1>1, <1>2, <1>4, <2>1, MvWrites
  <2>3. Going /\ Busy' /\ Unit' = Unit /\ left' = left /\ pc' = "copy"
    BY <1>2, <1>3, <1>4, SamePlace DEF Goto, FilesInv
  <2>4. ToSet(Unit)' = ToSet(Unit) /\ ToSet(left)' = ToSet(left)
    BY <2>3 DEF ToSet
  <2>5. \A pair \in ToSet(Unit) : pair.src # pair.dst /\ (pair \in ToSet(left) \/ Arrived(pair)')
    BY <1>1, <1>3, <2>2 DEF FilesInv, Places, MvPlaces
  <2>6. MvPlaces'
    BY <2>2, <2>3, <2>4, <2>5 DEF MvPlaces
  <2> QED BY <1>1, <1>2, <2>2, <2>3, <2>6, OneTool, StepKeeps DEF FilesInv
<1>5. CASE Unwritten /\ NextUnit
  BY <1>1, <1>2, <1>3, <1>5, MvIdleStops DEF Busy
<1> QED BY <1>4, <1>5 DEF MvCreate, WriteNow

LEMMA MvCopyKeeps ==
  ASSUME FilesInv, MvCopy
  PROVE  FilesInv'
<1>1. pc = "copy" /\ command.tool = "mv"
  BY DEF MvCopy, AnyMvCopy, At
<1>2. Goes
  BY DEF MvCopy, AnyMvCopy, Given, WriteNow, Unwritten, NothingAsked, Goes, FilesInv, FileTypes
<1>3. /\ Busy /\ This \in ToSet(left) /\ This \in ToSet(Unit) /\ This \in Pairs
      /\ This.src \in Path /\ This.dst \in Path
      /\ Tail(left) \in Seq(Pairs) /\ ToSet(left) = {This} \cup ToSet(Tail(left))
      /\ (Len(left) = 1 <=> Tail(left) = <<>>)
      /\ Unit \in Seq(Pairs) /\ Unit # <<>>
  BY <1>1, MvHere, ThisIsOfUnit, MvUnit DEF FilesInv, Busy
<1>4. CASE /\ Write(This.dst, disk[This.src]) /\ UNCHANGED units
           /\ IF Len(left) = 1 THEN pc' = "remove" /\ left' = Unit
              ELSE pc' = "create" /\ left' = Tail(left)
  <2>1. disk[This.src] \in Content /\ disk[This.src] = start[This.src]
    BY <1>1, <1>3, Contents DEF FilesInv, Places, MvPlaces, Intact
  <2>2. /\ disk' \in [Path -> Content] /\ disk'[This.dst] = disk[This.src] /\ Safe'
        /\ \A pair \in ToSet(Unit) : Intact(pair.src)' /\ Writable(pair.dst)'
        /\ \A pair \in ToSet(Unit) : Arrived(pair) /\ pair # This => Arrived(pair)'
    BY <1>1, <1>2, <1>4, <2>1, MvWrites
  <2>3. ASSUME NEW pair \in ToSet(Unit), pair = This PROVE Arrived(pair)'
    BY <1>2, <2>1, <2>2, <2>3 DEF Arrived, Goes, Tokens
  <2>4. \A pair \in ToSet(Unit) : Arrived(pair)' \/ pair \in ToSet(Tail(left))
    BY <1>1, <1>3, <2>2, <2>3 DEF FilesInv, Places, MvPlaces
  <2>5. \A pair \in ToSet(Unit) : pair.src # pair.dst
    BY <1>1 DEF FilesInv, Places, MvPlaces
  <2>6. CASE Len(left) = 1
    <3>1. pc' = "remove" /\ left' = Unit
      BY <1>4, <2>6
    <3>2. Going /\ Unit' = Unit
      BY <1>2, <1>3, <1>4, <3>1, StayingGoes DEF FilesInv
    <3>3. ToSet(Unit)' = ToSet(Unit) /\ ToSet(left)' = ToSet(Unit)
      BY <3>1, <3>2 DEF ToSet
    <3>4. Busy'
      BY <1>3, <1>4, <3>1, <3>3 DEF Busy
    <3>5. ToSet(Tail(left)) = {}
      BY <1>3, <2>6 DEF ToSet
    <3>6. MvPlaces'
      BY <2>4, <2>5, <3>1, <3>3, <3>4, <3>5 DEF MvPlaces
    <3> QED BY <1>1, <1>2, <2>2, <3>2, <3>6, OneTool, StepKeeps DEF FilesInv
  <2>7. CASE Len(left) # 1
    <3>1. pc' = "create" /\ left' = Tail(left)
      BY <1>4, <2>7
    <3>2. Going /\ Unit' = Unit
      BY <1>2, <1>3, <1>4, <3>1, StayingGoes DEF FilesInv
    <3>3. ToSet(Unit)' = ToSet(Unit) /\ ToSet(left)' = ToSet(Tail(left))
      BY <3>1, <3>2 DEF ToSet
    <3>4. Busy'
      BY <1>3, <1>4, <2>7, <3>1, <3>3 DEF Busy
    <3>5. MvPlaces'
      BY <2>2, <2>4, <2>5, <3>1, <3>3, <3>4 DEF MvPlaces
    <3> QED BY <1>1, <1>2, <2>2, <3>2, <3>5, OneTool, StepKeeps DEF FilesInv
  <2> QED BY <2>6, <2>7
<1>5. CASE Unwritten /\ NextUnit
  BY <1>1, <1>2, <1>3, <1>5, MvIdleStops DEF Busy
<1> QED BY <1>4, <1>5 DEF MvCopy, AnyMvCopy, WriteNow

LEMMA MvRemoveKeeps ==
  ASSUME FilesInv, MvRemove
  PROVE  FilesInv'
<1>1. pc = "remove" /\ command.tool = "mv"
  BY DEF MvRemove, At
<1>2. Goes
  BY DEF MvRemove, Given, WriteNow, Unwritten, NothingAsked, Goes, FilesInv, FileTypes
<1>3. /\ Busy /\ This \in ToSet(Unit) /\ This \in Pairs /\ This.src \in Path
      /\ This.src \notin AllTargets
      /\ \A pair \in ToSet(Unit) : Arrived(pair) /\ pair.src # pair.dst
  BY <1>1, MvHere DEF FilesInv, Places, MvPlaces
<1>4. CASE Write(This.src, NoFile) /\ NextFile("remove")
  <2>1. /\ disk' \in [Path -> Content]
        /\ \A p \in Path : p # This.src => disk'[p] = disk[p]
    BY <1>3, <1>4, Contents, WrittenTypes DEF FilesInv
  <2>2. Moves
    BY <1>1 DEF Moves
  <2>3. Safe'
    BY <1>2, <1>3, <1>4, <2>2, RemovingIsSafe DEF FilesInv
  <2>4. ASSUME NEW pair \in ToSet(Unit) PROVE Arrived(pair)'
    <3>1. pair.dst \in Path /\ pair.dst \in AllTargets
      BY <1>1, MvHere, CommandShape DEF FilesInv, FileTypes
    <3>2. disk'[pair.dst] = disk[pair.dst]
      BY <1>3, <2>1, <3>1
    <3> QED BY <1>2, <1>3, <3>2, GoesOn DEF Arrived, Tokens, FilesInv
  <2>5. /\ Going
        /\ pc' = "next" \/ (pc' = "remove" /\ UNCHANGED units /\ Busy')
    BY <1>2, <1>3, <1>4, NextFileGoes DEF FilesInv
  <2>6. CASE pc' = "next"
    <3>1. MvPlaces'
      BY <2>6 DEF MvPlaces
    <3> QED BY <1>1, <1>2, <2>1, <2>3, <2>5, <3>1, OneTool, StepKeeps DEF FilesInv
  <2>7. CASE pc' = "remove" /\ UNCHANGED units /\ Busy'
    <3>1. ToSet(Unit)' = ToSet(Unit)
      BY <2>7 DEF ToSet, Unit
    <3>2. MvPlaces'
      BY <1>3, <2>4, <2>7, <3>1 DEF MvPlaces
    <3> QED BY <1>1, <1>2, <2>1, <2>3, <2>5, <3>2, OneTool, StepKeeps DEF FilesInv
  <2> QED BY <2>5, <2>6, <2>7
<1>5. CASE Unwritten /\ NextUnit
  BY <1>1, <1>2, <1>3, <1>5, MvIdleStops DEF Busy
<1> QED BY <1>4, <1>5 DEF MvRemove, WriteNow

LEMMA MvKeeps ==
  ASSUME FilesInv, MvStep
  PROVE  FilesInv'
<1>1. CASE MvAbsent \/ MvRefused
  <2>1. command.tool = "mv" /\ units # <<>> /\ NextUnit /\ Unwritten
    BY <1>1 DEF MvAbsent, MvRefused, AtUnit, At
  <2>2. Goes
    BY <1>1 DEF MvAbsent, MvRefused, Given, Unwritten, Refuse, NothingAsked, Goes, FilesInv,
                FileTypes
  <2> QED BY <2>1, <2>2, MvIdleStops
<1> QED BY <1>1, MvRenameKeeps, MvAcrossKeeps, MvCreateKeeps, MvCopyKeeps, MvRemoveKeeps DEF MvStep

-----------------------------------------------------------------------------
(* cp.  Its sources stay.                                                  *)
LEMMA CpStops ==
  ASSUME FilesInv, command.tool = "cp", Goes, units # <<>>, NextUnit,
         disk' \in [Path -> Content], Safe'
  PROVE  FilesInv'
<1>1. Going /\ pc' = "next"
  BY NextUnitGoes DEF FilesInv
<1>2. CpPlaces'
  BY <1>1 DEF CpPlaces
<1> QED BY <1>1, <1>2, OneTool, StepKeeps DEF FilesInv

LEMMA CpNextFile ==
  ASSUME FilesInv, command.tool = "cp", Goes, Busy, NextFile("open"),
         disk' \in [Path -> Content], Safe'
  PROVE  FilesInv'
<1>1. /\ Going
      /\ pc' = "next" \/ (pc' = "open" /\ Busy')
  BY NextFileGoes DEF FilesInv
<1>2. CpPlaces'
  BY <1>1 DEF CpPlaces
<1> QED BY <1>1, <1>2, OneTool, StepKeeps DEF FilesInv

LEMMA CpHere ==
  ASSUME FilesInv, command.tool = "cp", pc \in {"open", "copy"}
  PROVE  /\ Busy /\ This \in Pairs /\ This.src \in Path /\ This.dst \in Path
         /\ This.src # This.dst => This.dst \in AllTargets \ AllSources
         /\ This.src # This.dst \/ command.big => Unheld(This.dst)
         /\ pc = "copy" => MayWrite(This.dst)
<1>1. Busy /\ This \in Pairs
  BY ThisIsOfUnit DEF FilesInv, Places, CpPlaces
<1>2. /\ This.src \in Path /\ This.dst \in Path /\ This.dst \in AllTargets
      /\ \A pair \in Pairs : pair.src \in AllSources
  BY <1>1, CommandShape DEF FilesInv, FileTypes
<1>3. This.src # This.dst => This.dst \in AllTargets \ AllSources
  BY <1>1, NotBoth DEF FilesInv
<1>4. ASSUME This.src # This.dst \/ command.big PROVE Unheld(This.dst)
  <2>1. \A pair \in Pairs : pair.src \notin AllTargets => Intact(pair.src)
    BY <1>2, StandingIsIntact DEF Moves, FilesInv, GzTool, BzTool
  <2> QED BY <1>2, <1>3, <1>4, <2>1 DEF Unheld
<1>5. ASSUME pc = "copy" PROVE MayWrite(This.dst)
  <2>1. CASE This.src = This.dst
    <3>1. This.dst \in AllSources
      BY <1>1, <1>2, <2>1
    <3> QED BY <1>4, <1>5, <3>1 DEF MayWrite, FilesInv, Places, CpPlaces
  <2> QED BY <1>3, <1>4, <1>5, <2>1 DEF MayWrite, FilesInv, Places, CpPlaces
<1> QED BY <1>1, <1>2, <1>3, <1>4, <1>5

LEMMA CpAgreed ==
  ASSUME FilesInv, command.tool = "cp", pc = "open", CpGoesOn, Goes
  PROVE  \A q \in Pairs : q = This /\ q.src # q.dst => Writable(q.dst)'
<1> SUFFICES ASSUME NEW q \in Pairs, q = This, q.src # q.dst PROVE Writable(q.dst)'
  OBVIOUS
<1>1. CASE Exists(q.dst)
  <2>1. ~command.noClobber /\ (CpAsks => q.dst \in agreed')
    BY <1>1 DEF CpGoesOn
  <2>2. Agreed(q.dst)'
    BY <2>1 DEF Agreed, CpAsks, Goes
  <2> QED BY <2>2 DEF Writable, MayOverwrite, Goes, GzTool, BzTool
<1>2. CASE ~Exists(q.dst)
  <2>1. Writable(q.dst)
    BY <1>2, NotBoth, VacantIsWritable DEF FilesInv
  <2> QED BY <2>1, GoesOn DEF FilesInv
<1> QED BY <1>1, <1>2

LEMMA CpNextKeeps ==
  ASSUME FilesInv, CpNext
  PROVE  FilesInv'
<1>1. command.tool = "cp" /\ units # <<>> /\ disk' = disk
  BY DEF CpNext, AtUnit, At, Unwritten
<1>2. Goes
  BY DEF CpNext, Given, Unwritten, NothingAsked, Goes, FilesInv, FileTypes
<1>3. Safe'
  BY <1>1, <1>2, IdleIsSafe DEF FilesInv
<1>4. CASE Found # <<>> /\ Begin("open")
  <2>1. Going /\ pc' = "open" /\ Busy'
    BY <1>1, <1>2, <1>4, BeginGoes DEF FilesInv
  <2>2. CpPlaces'
    BY <2>1 DEF CpPlaces
  <2> QED BY <1>1, <1>2, <1>3, <2>1, <2>2, OneTool, StepKeeps DEF FilesInv, FileTypes
<1>5. CASE NextUnit
  BY <1>1, <1>2, <1>3, <1>5, CpStops DEF FilesInv, FileTypes
<1> QED BY <1>4, <1>5 DEF CpNext

LEMMA CpRefusedKeeps ==
  ASSUME FilesInv, CpRefused
  PROVE  FilesInv'
<1>1. command.tool = "cp" /\ pc = "open" /\ NextFile("open") /\ disk' = disk
  BY DEF CpRefused, At, Unwritten
<1>2. Goes
  BY DEF CpRefused, Given, Unwritten, Refuse, Goes, FilesInv, FileTypes
<1> QED BY <1>1, <1>2, CpHere, IdleIsSafe, CpNextFile DEF FilesInv, FileTypes

(* A file that is overwritten after it was asked for.                      *)
LEMMA CpOverwrites ==
  ASSUME FilesInv, command.tool = "cp", pc = "open", CpGoesOn, Goes,
         This.src # This.dst \/ command.big, NEW f \in Content, Write(This.dst, f)
  PROVE  disk' \in [Path -> Content] /\ Safe'
<1>1. This \in Pairs /\ This.dst \in Path /\ Unheld(This.dst)
      /\ \A pair \in Pairs : pair.src \in AllSources
  BY CpHere, CommandShape DEF FilesInv, FileTypes
<1>2. disk' \in [Path -> Content]
  BY <1>1, WrittenTypes DEF FilesInv
<1>3. PICK q \in Pairs : q = This
  BY <1>1
<1>4. q.dst \notin AllSources => Writable(q.dst)'
  BY <1>1, <1>3, CpAgreed
<1>5. Unheld(q.dst) /\ Write(q.dst, f)
  BY <1>1, <1>3
<1>6. Safe'
  BY <1>4, <1>5, AgreedWriting DEF FilesInv
<1> QED BY <1>2, <1>6

LEMMA CpSmallKeeps ==
  ASSUME FilesInv, CpSmall
  PROVE  FilesInv'
<1>1. command.tool = "cp" /\ pc = "open" /\ CpGoesOn
  BY DEF CpSmall, CpGoesOn, At
<1>2. Goes
  BY DEF CpSmall, CpGoesOn, Given, WriteNow, Unwritten, Goes, FilesInv, FileTypes
<1>3. Busy /\ units # <<>> /\ This.src \in Path
  BY <1>1, CpHere DEF Busy
<1>4. CASE This.src # This.dst /\ Write(This.dst, disk[This.src]) /\ NextFile("open")
  <2>1. disk[This.src] \in Content
    BY <1>3, Contents DEF FilesInv
  <2> QED BY <1>1, <1>2, <1>3, <1>4, <2>1, CpOverwrites, CpNextFile
<1>5. CASE Unwritten /\ NextUnit
  <2>1. disk' = disk
    BY <1>5 DEF Unwritten
  <2> QED BY <1>1, <1>2, <1>3, <1>5, <2>1, IdleIsSafe, CpStops DEF FilesInv, FileTypes
<1>6. CASE This.src # This.dst /\ Write(This.dst, Broken("raw", <<>>)) /\ NextUnit
  <2>1. Broken("raw", <<>>) \in Content
    BY Contents DEF FilesInv
  <2> QED BY <1>1, <1>2, <1>3, <1>6, <2>1, CpOverwrites, CpStops
<1> QED BY <1>4, <1>5, <1>6 DEF CpSmall, WriteNow

LEMMA CpCreateKeeps ==
  ASSUME FilesInv, CpCreate
  PROVE  FilesInv'
<1>1. command.tool = "cp" /\ pc = "open" /\ CpGoesOn /\ command.big
  BY DEF CpCreate, CpGoesOn, At
<1>2. Goes
  BY DEF CpCreate, CpGoesOn, Given, WriteNow, Unwritten, Goes, FilesInv, FileTypes
<1>3. Busy /\ units # <<>> /\ This \in Pairs
  BY <1>1, CpHere DEF Busy
<1>4. CASE Write(This.dst, Broken("raw", <<>>)) /\ Goto("copy")
  <2>1. Broken("raw", <<>>) \in Content
    BY Contents DEF FilesInv
  <2>2. disk' \in [Path -> Content] /\ Safe'
    BY <1>1, <1>2, <1>4, <2>1, CpOverwrites
  <2>3. Going /\ Busy' /\ This' = This /\ pc' = "copy"
    BY <1>2, <1>3, <1>4, SamePlace DEF Goto, FilesInv
  <2>4. This.src # This.dst => Writable(This.dst)'
    BY <1>1, <1>2, <1>3, <2>3, CpAgreed
  <2>5. CpPlaces'
    BY <1>1, <1>2, <2>3, <2>4 DEF CpPlaces, Goes
  <2> QED BY <1>1, <1>2, <2>2, <2>3, <2>5, OneTool, StepKeeps DEF FilesInv
<1>5. CASE Unwritten /\ NextUnit
  <2>1. disk' = disk
    BY <1>5 DEF Unwritten
  <2> QED BY <1>1, <1>2, <1>3, <1>5, <2>1, IdleIsSafe, CpStops DEF FilesInv, FileTypes
<1> QED BY <1>4, <1>5 DEF CpCreate, WriteNow

LEMMA CpCopyKeeps ==
  ASSUME FilesInv, CpCopy
  PROVE  FilesInv'
<1>1. command.tool = "cp" /\ pc = "copy"
  BY DEF CpCopy, AnyCpCopy, At
<1>2. Goes
  BY DEF CpCopy, AnyCpCopy, Given, WriteNow, Unwritten, NothingAsked, Goes, FilesInv, FileTypes
<1>3. Busy /\ units # <<>> /\ This.src \in Path /\ This.dst \in Path /\ MayWrite(This.dst)
  BY <1>1, CpHere DEF Busy
<1>4. CASE Write(This.dst, [disk[This.src] EXCEPT !.whole = TRUE]) /\ NextFile("open")
  <2>1. disk[This.src] \in Content /\ [disk[This.src] EXCEPT !.whole = TRUE] \in Content
    BY <1>3, Contents DEF FilesInv
  <2> QED BY <1>1, <1>2, <1>3, <1>4, <2>1, WrittenTypes, WritingIsSafe, CpNextFile DEF FilesInv
<1>5. CASE Unwritten /\ NextUnit
  <2>1. disk' = disk
    BY <1>5 DEF Unwritten
  <2> QED BY <1>1, <1>2, <1>3, <1>5, <2>1, IdleIsSafe, CpStops DEF FilesInv, FileTypes
<1> QED BY <1>4, <1>5 DEF CpCopy, AnyCpCopy, WriteNow

LEMMA CpKeeps ==
  ASSUME FilesInv, CpStep
  PROVE  FilesInv'
BY CpNextKeeps, CpRefusedKeeps, CpSmallKeeps, CpCreateKeeps, CpCopyKeeps DEF CpStep

-----------------------------------------------------------------------------
(* zip.  Its sources stay until the archive holds all of them.             *)
LEMMA QuitGoes ==
  ASSUME FileTypes, Arguments, Goes, Quit
  PROVE  Going /\ pc' = "exit" /\ UNCHANGED <<units, left>>
<1>1. left \in Seq(Pairs)
  BY DEF FileTypes
<1> QED BY <1>1, StayingGoes DEF Quit

LEMMA ZipQuits ==
  ASSUME FilesInv, command.tool = "zip", Goes, Quit, disk' \in [Path -> Content], Safe'
  PROVE  FilesInv'
<1>1. Going /\ pc' = "exit"
  BY QuitGoes DEF FilesInv
<1>2. ZipPlaces'
  BY <1>1 DEF ZipPlaces
<1> QED BY <1>1, <1>2, OneTool, StepKeeps DEF FilesInv

LEMMA ZipIdleQuits ==
  ASSUME FilesInv, command.tool = "zip", Goes, Quit, Unwritten
  PROVE  FilesInv'
<1>1. disk' = disk
  BY DEF Unwritten
<1> QED BY <1>1, IdleIsSafe, ZipQuits DEF FilesInv, FileTypes

LEMMA ZipHere ==
  ASSUME FilesInv, command.tool = "zip", pc \in {"create", "copy", "close", "remove"}
  PROVE  /\ Busy /\ This \in Pairs /\ This \in ToSet(Unit) /\ This \in ToSet(left)
         /\ ToSet(Unit) \subseteq Pairs /\ Unit \in Seq(Pairs) /\ Unit # <<>>
         /\ This.src \in Path /\ This.dst \in Path
         /\ \A pair \in ToSet(Unit) : pair.dst = This.dst
         /\ \A s \in AllSources : s \in Path /\ s \notin AllTargets
         /\ pc # "remove" => MayWrite(This.dst)
<1>1. Busy
  BY DEF FilesInv, Places, ZipPlaces
<1>2. This \in Pairs /\ This \in ToSet(Unit) /\ This \in ToSet(left)
      /\ ToSet(Unit) \subseteq Pairs /\ Unit \in Seq(Pairs) /\ Unit # <<>>
  BY <1>1, ThisIsOfUnit, UnitShape DEF FilesInv, Busy
<1>3. \A pair \in ToSet(Unit) : pair.dst = This.dst
  <2>1. PICK j \in DOMAIN command.units : ToSet(Unit) \subseteq ToSet(command.units[j])
    BY <1>1, UnitShape DEF FilesInv, Busy
  <2>2. \A p, q \in ToSet(command.units[j]) : p.dst = q.dst
    BY UnitsAssumption DEF FilesInv, FileTypes
  <2> QED BY <1>2, <2>1, <2>2
<1>4. /\ \A q \in Pairs : q.src \in Path /\ q.dst \in Path /\ q.src \notin AllTargets
      /\ \A q \in Pairs : q.src \in AllSources
  BY GzApart, NotBoth, CommandShape DEF FilesInv, FileTypes
<1>5. \A s \in AllSources : s \in Path /\ s \notin AllTargets
  BY <1>4 DEF AllSources
<1>6. ASSUME pc # "remove" PROVE MayWrite(This.dst)
  <2>1. \A pair \in Pairs : Intact(pair.src) \/ Gone(pair)
    <3>1. CASE Fresh
      BY <1>4, <1>6, <3>1 DEF FilesInv, Places, ZipPlaces
    <3>2. CASE command.keep
      BY <1>4, <3>2, StandingIsIntact DEF Moves, FilesInv, GzTool, BzTool
    <3>3. CASE ~command.keep /\ runs # 1
      <4>1. Rewritten
        BY <3>3 DEF Rewritten, FilesInv, FileTypes
      <4> QED BY <4>1 DEF Gone, KnownLoss
    <3>4. command.keep \in BOOLEAN
      BY CommandShape DEF FilesInv, FileTypes
    <3> QED BY <3>1, <3>2, <3>3, <3>4 DEF Fresh, Rewritten
  <2>2. This.dst \in AllTargets /\ This.dst \notin AllSources
    BY <1>2, <1>5, CommandShape DEF FilesInv, FileTypes
  <2>3. Writable(This.dst)
    BY DEF Writable, MayOverwrite, GzTool, BzTool
  <2> QED BY <2>1, <2>2, <2>3 DEF MayWrite, Unheld
<1> QED BY <1>1, <1>2, <1>3, <1>4, <1>5, <1>6

(* A write to the archive.                                                 *)
LEMMA ZipWrites ==
  ASSUME FilesInv, command.tool = "zip", pc \in {"create", "copy", "close"}, Goes,
         NEW f \in Content, Write(This.dst, f)
  PROVE  /\ disk' \in [Path -> Content] /\ disk'[This.dst] = f /\ Safe'
         /\ \A s \in AllSources : Intact(s)' = Intact(s)
<1>1. /\ This.dst \in Path /\ MayWrite(This.dst)
      /\ \A s \in AllSources : s \in Path /\ s \notin AllTargets
  BY ZipHere
<1>2. /\ disk' \in [Path -> Content] /\ disk'[This.dst] = f
      /\ \A p \in Path : p # This.dst => disk'[p] = disk[p]
  BY <1>1, WrittenTypes DEF FilesInv
<1>3. Safe'
  BY <1>1, WritingIsSafe DEF FilesInv
<1>4. This.dst \in AllTargets
  BY <1>1 DEF MayWrite, Unheld
<1>5. \A s \in AllSources : disk'[s] = disk[s]
  BY <1>1, <1>2, <1>4
<1> QED BY <1>2, <1>3, <1>5 DEF Intact, Goes

LEMMA ZipCollectKeeps ==
  ASSUME FilesInv, ZipCollect
  PROVE  FilesInv'
<1>1. command.tool = "zip" /\ pc = "next" /\ units # <<>> /\ disk' = disk /\ runs' = runs
  BY DEF ZipCollect, AtUnit, At, Unwritten, Given
<1>2. Goes
  BY DEF ZipCollect, Given, Unwritten, Refuse, Goes, FilesInv, FileTypes
<1>3. Safe'
  BY <1>1, <1>2, IdleIsSafe DEF FilesInv
<1>4. CASE Quit
  BY <1>1, <1>2, <1>3, <1>4, ZipQuits DEF FilesInv, FileTypes
<1>5. CASE Found # <<>> /\ Begin("create")
  <2>1. Going /\ pc' = "create" /\ Unit' = Found /\ left' = Found /\ Busy'
    BY <1>1, <1>2, <1>5, BeginGoes DEF FilesInv
  <2>2. ToSet(Unit)' = ToSet(Found) /\ ToSet(left)' = ToSet(Found)
    BY <2>1 DEF ToSet
  <2>3. Fresh' => \A s \in AllSources : Intact(s)'
    BY <1>1, <1>2 DEF Fresh, Rewritten, Goes, FilesInv, Places, ZipPlaces, Intact
  <2>4. ZipPlaces'
    BY <1>2, <2>1, <2>2, <2>3, GoesOn DEF ZipPlaces, FilesInv
  <2> QED BY <1>1, <1>2, <1>3, <2>1, <2>4, OneTool, StepKeeps DEF FilesInv, FileTypes
<1> QED BY <1>4, <1>5 DEF ZipCollect

LEMMA ZipCreateKeeps ==
  ASSUME FilesInv, ZipCreate
  PROVE  FilesInv'
<1>1. command.tool = "zip" /\ pc = "create" /\ runs' = runs
  BY DEF ZipCreate, At, Given
<1>2. Goes
  BY DEF ZipCreate, Given, WriteNow, Unwritten, NothingAsked, Goes, FilesInv, FileTypes
<1>3. CASE Write(This.dst, Broken("zip", <<>>)) /\ Goto("copy")
  <2>1. Broken("zip", <<>>) \in Content
    BY Contents DEF FilesInv
  <2>2. /\ disk' \in [Path -> Content] /\ Safe'
        /\ \A s \in AllSources : Intact(s)' = Intact(s)
    BY <1>1, <1>2, <1>3, <2>1, ZipWrites
  <2>3. Going /\ Busy' /\ Unit' = Unit /\ left' = left /\ pc' = "copy"
    BY <1>1, <1>2, <1>3, ZipHere, SamePlace DEF Goto, FilesInv
  <2>4. ToSet(Unit)' = ToSet(Unit) /\ ToSet(left)' = ToSet(left)
    BY <2>3 DEF ToSet
  <2>5. Fresh' => /\ \A s \in AllSources : Intact(s)'
                  /\ ToSet(Unit) \subseteq ToSet(left)
    BY <1>1, <1>2, <2>2 DEF Fresh, Rewritten, Goes, FilesInv, Places, ZipPlaces
  <2>6. ZipPlaces'
    BY <1>2, <2>3, <2>4, <2>5, GoesOn DEF ZipPlaces, FilesInv
  <2> QED BY <1>1, <1>2, <2>2, <2>3, <2>6, OneTool, StepKeeps DEF FilesInv
<1>4. CASE Unwritten /\ Quit
  BY <1>1, <1>2, <1>4, ZipIdleQuits
<1> QED BY <1>3, <1>4 DEF ZipCreate, WriteNow

LEMMA JoinedSet ==
  ASSUME NEW S, NEW a \in Seq(S), NEW b \in Seq(S)
  PROVE  a \o b \in Seq(S) /\ ToSet(a) \subseteq ToSet(a \o b) /\ ToSet(b) \subseteq ToSet(a \o b)
<1>1. /\ a \o b \in Seq(S) /\ Len(a) \in Nat /\ Len(b) \in Nat
      /\ DOMAIN (a \o b) = 1 .. Len(a) + Len(b) /\ DOMAIN a = 1 .. Len(a) /\ DOMAIN b = 1 .. Len(b)
  OBVIOUS
<1>2. ASSUME NEW i \in 1 .. Len(a) PROVE a[i] \in ToSet(a \o b)
  <2>1. i \in 1 .. Len(a) + Len(b) /\ (a \o b)[i] = a[i]
    BY <1>1
  <2> QED BY <1>1, <2>1 DEF ToSet
<1>3. ASSUME NEW i \in 1 .. Len(b) PROVE b[i] \in ToSet(a \o b)
  <2>1. Len(a) + i \in 1 .. Len(a) + Len(b) /\ (a \o b)[Len(a) + i] = b[i]
    BY <1>1
  <2> QED BY <1>1, <2>1 DEF ToSet
<1> QED BY <1>1, <1>2, <1>3 DEF ToSet

LEMMA ZipAddKeeps ==
  ASSUME FilesInv, ZipAdd
  PROVE  FilesInv'
<1> DEFINE old == disk[This.dst].parts
<1> DEFINE more == disk[This.src].parts
<1>1. command.tool = "zip" /\ pc = "copy" /\ runs' = runs
  BY DEF ZipAdd, At, Given
<1>2. Goes
  <2>1. Given /\ NothingAsked /\ tailLost' = tailLost
    BY DEF ZipAdd, WriteNow
  <2> QED BY <2>1 DEF Given, NothingAsked, Goes, FilesInv, FileTypes
<1>3. /\ Busy /\ This \in ToSet(Unit) /\ This \in Pairs /\ ToSet(Unit) \subseteq Pairs
      /\ This.src \in Path /\ This.dst \in Path
      /\ \A pair \in ToSet(Unit) : pair.dst = This.dst
      /\ Tail(left) \in Seq(Pairs) /\ ToSet(left) = {This} \cup ToSet(Tail(left))
      /\ (Len(left) = 1 <=> Tail(left) = <<>>) /\ This.src \in AllSources
  BY <1>1, ZipHere, ThisIsOfUnit, CommandShape DEF FilesInv, FileTypes
<1>4. CASE /\ Write(This.dst, Broken("zip", old \o more))
           /\ IF Len(left) = 1 THEN Goto("close") ELSE left' = Tail(left) /\ UNCHANGED <<pc, units>>
  <2>1. old \in Seq(Token) /\ more \in Seq(Token)
    BY <1>3, Contents DEF FilesInv
  <2> HIDE DEF old, more
  <2>2. /\ old \o more \in Seq(Token)
        /\ ToSet(old) \subseteq ToSet(old \o more) /\ ToSet(more) \subseteq ToSet(old \o more)
    BY <2>1, JoinedSet
  <2> DEFINE all == old \o more
  <2>3. Broken("zip", all) \in Content /\ Broken("zip", all).parts = all
    BY <2>2, Contents DEF FilesInv, Broken
  <2> HIDE DEF all
  <2>4. Write(This.dst, Broken("zip", all))
    BY <1>4 DEF all
  <2>5. /\ disk' \in [Path -> Content] /\ disk'[This.dst].parts = all /\ Safe'
        /\ \A s \in AllSources : Intact(s)' = Intact(s)
    BY <1>1, <1>2, <2>3, <2>4, ZipWrites
  <2>6. ToSet(old) \subseteq ToSet(all) /\ ToSet(more) \subseteq ToSet(all)
    BY <2>2 DEF all
  <2>7. ASSUME NEW pair \in ToSet(Unit), Fresh
        PROVE  Carried(pair)' \/ pair \in ToSet(Tail(left))
    <3>1. pair.dst = This.dst
      BY <1>3
    <3>2. CASE Carried(pair)
      <4>1. \A t \in Tokens(start[pair.src]) : t \in ToSet(all) \/ KnownLoss(pair, t)
        BY <2>6, <3>1, <3>2 DEF Carried, old
      <4> QED BY <1>2, <2>5, <3>1, <4>1, GoesOn DEF Carried, Goes, Tokens, ToSet, FilesInv
    <3>3. CASE pair = This
      <4>1. Intact(This.src)
        BY <1>1, <1>3, <2>7 DEF FilesInv, Places, ZipPlaces
      <4>2. \A t \in Tokens(start[pair.src]) : t \in ToSet(all)
        BY <2>6, <3>3, <4>1 DEF Tokens, Intact, more
      <4>3. disk'[pair.dst].parts = all /\ start' = start
        BY <1>2, <2>5, <3>1 DEF Goes
      <4> QED BY <4>2, <4>3 DEF Carried
    <3>4. pair \in ToSet(left) \/ Carried(pair)
      BY <1>1, <2>7 DEF FilesInv, Places, ZipPlaces
    <3> QED BY <1>3, <3>2, <3>3, <3>4
  <2>8. Fresh' => Fresh /\ \A s \in AllSources : Intact(s)'
    BY <1>1, <1>2, <2>5 DEF Fresh, Rewritten, Goes, FilesInv, Places, ZipPlaces
  <2>9. CASE Len(left) = 1
    <3>1. Going /\ Busy' /\ Unit' = Unit /\ pc' = "close"
      BY <1>2, <1>3, <1>4, <2>9, SamePlace DEF Goto, FilesInv
    <3>2. ToSet(Unit)' = ToSet(Unit) /\ ToSet(Tail(left)) = {}
      BY <1>3, <2>9, <3>1 DEF ToSet
    <3>3. ZipPlaces'
      BY <1>2, <2>7, <2>8, <3>1, <3>2, GoesOn DEF ZipPlaces, FilesInv
    <3> QED BY <1>1, <1>2, <2>5, <3>1, <3>3, OneTool, StepKeeps DEF FilesInv
  <2>10. CASE Len(left) # 1
    <3>1. left' = Tail(left) /\ pc' = "copy" /\ UNCHANGED units
      BY <1>1, <1>4, <2>10
    <3>2. Going /\ Unit' = Unit
      BY <1>2, <1>3, <3>1, StayingGoes DEF FilesInv
    <3>3. ToSet(Unit)' = ToSet(Unit) /\ ToSet(left)' = ToSet(Tail(left))
      BY <3>1, <3>2 DEF ToSet
    <3>4. Busy'
      BY <1>3, <2>10, <3>1, <3>3 DEF Busy
    <3>5. ZipPlaces'
      BY <1>2, <2>7, <2>8, <3>1, <3>3, <3>4, GoesOn DEF ZipPlaces, FilesInv
    <3> QED BY <1>1, <1>2, <2>5, <3>2, <3>5, OneTool, StepKeeps DEF FilesInv
  <2> QED BY <2>9, <2>10
<1>5. CASE Quit /\ \E ended \in BOOLEAN : Write(This.dst, [disk[This.dst] EXCEPT !.whole = ended])
  <2>1. PICK ended \in BOOLEAN : Write(This.dst, [disk[This.dst] EXCEPT !.whole = ended])
    BY <1>5
  <2>2. disk[This.dst] \in Content /\ [disk[This.dst] EXCEPT !.whole = ended] \in Content
    BY <1>3, Contents DEF FilesInv
  <2> QED BY <1>1, <1>2, <1>5, <2>1, <2>2, ZipWrites, ZipQuits
<1> QED BY <1>4, <1>5 DEF ZipAdd, WriteNow

LEMMA ZipCloseKeeps ==
  ASSUME FilesInv, ZipClose
  PROVE  FilesInv'
<1>1. command.tool = "zip" /\ pc = "close" /\ runs' = runs
  BY DEF ZipClose, At, Given
<1>2. Goes
  <2>1. Given /\ NothingAsked /\ tailLost \subseteq tailLost'
    BY DEF ZipClose, DropBuffer, WriteNow, Unwritten
  <2> QED BY <2>1 DEF Given, NothingAsked, Goes, FilesInv, FileTypes
<1>3. /\ Busy /\ This.dst \in Path /\ MayWrite(This.dst) /\ Unit \in Seq(Pairs) /\ Unit # <<>>
      /\ ToSet(Unit) \subseteq Pairs /\ \A pair \in ToSet(Unit) : pair.dst = This.dst
  BY <1>1, ZipHere
<1>4. CASE DropBuffer(This.dst)
  <2>1. /\ disk' \in [Path -> Content] /\ Safe'
        /\ \A pair \in Pairs : pair.dst = This.dst /\ Carried(pair) =>
             \A t \in Tokens(start[pair.src]) : t \in Tokens(disk'[pair.dst]) \/ KnownLoss(pair, t)'
    BY <1>2, <1>3, <1>4, DroppedBuffer
  <2>2. CASE Quit
    BY <1>1, <1>2, <2>1, <2>2, ZipQuits
  <2>3. CASE ~command.keep /\ pc' = "remove" /\ left' = Unit /\ UNCHANGED units
    <3>1. Going /\ Unit' = Unit
      BY <1>2, <1>3, <2>3, StayingGoes DEF FilesInv
    <3>2. ToSet(Unit)' = ToSet(Unit) /\ ToSet(left)' = ToSet(Unit)
      BY <2>3, <3>1 DEF ToSet
    <3>3. Busy'
      BY <1>3, <2>3, <3>2 DEF Busy
    <3>4. ASSUME Fresh', NEW pair \in ToSet(Unit) PROVE Arrived(pair)'
      <4>1. Carried(pair)
        BY <1>1, <1>2, <3>4 DEF Fresh, Rewritten, Goes, FilesInv, Places, ZipPlaces
      <4>2. pair \in Pairs /\ pair.dst = This.dst
        BY <1>3
      <4>3. \A t \in Tokens(start[pair.src]) : t \in Tokens(disk'[pair.dst]) \/ KnownLoss(pair, t)'
        BY <2>1, <4>1, <4>2
      <4> QED BY <1>2, <4>3 DEF Arrived, Goes, Tokens
    <3>5. ZipPlaces'
      BY <1>2, <2>3, <3>2, <3>3, <3>4 DEF ZipPlaces, Goes
    <3> QED BY <1>1, <1>2, <2>1, <3>1, <3>5, OneTool, StepKeeps DEF FilesInv
  <2> QED BY <1>4, <2>2, <2>3 DEF ZipClose, Quit, Unwritten
<1>5. CASE Unwritten /\ Quit
  BY <1>1, <1>2, <1>5, ZipIdleQuits
<1> QED BY <1>4, <1>5 DEF ZipClose

LEMMA ZipRemoveKeeps ==
  ASSUME FilesInv, ZipRemove
  PROVE  FilesInv'
<1>1. command.tool = "zip" /\ pc = "remove" /\ runs' = runs /\ ~command.keep
  BY DEF ZipRemove, At, Given, FilesInv, Places, ZipPlaces
<1>2. Goes
  BY DEF ZipRemove, Given, WriteNow, Unwritten, NothingAsked, Goes, FilesInv, FileTypes
<1>3. /\ Busy /\ This \in Pairs /\ This \in ToSet(Unit) /\ This.src \in Path
      /\ This.src \in AllSources /\ \A s \in AllSources : s \notin AllTargets
      /\ ToSet(Unit) \subseteq Pairs
      /\ Tail(left) \in Seq(Pairs) /\ ToSet(left) = {This} \cup ToSet(Tail(left))
      /\ (Len(left) = 1 <=> Tail(left) = <<>>)
  BY <1>1, ZipHere, ThisIsOfUnit, CommandShape DEF FilesInv, FileTypes
<1>4. /\ disk' \in [Path -> Content] /\ Safe'
      /\ \A p \in Path : p # This.src => disk'[p] = disk[p]
  <2>1. CASE Write(This.src, NoFile)
    <3>1. Arrived(This)
      <4>1. CASE runs = 1
        BY <1>1, <1>3, <4>1 DEF FilesInv, Places, ZipPlaces, Fresh, Rewritten
      <4>2. CASE runs # 1
        <5>1. Rewritten
          BY <1>1, <4>2 DEF Rewritten, FilesInv, FileTypes
        <5> QED BY <5>1 DEF Arrived, KnownLoss
      <4> QED BY <4>1, <4>2
    <3>2. Moves
      BY <1>1 DEF Moves
    <3> QED BY <1>2, <1>3, <2>1, <3>1, <3>2, RemovingIsSafe, Contents, WrittenTypes DEF FilesInv
  <2>2. CASE Unwritten
    <3>1. disk' = disk
      BY <2>2 DEF Unwritten
    <3> QED BY <1>2, <3>1, IdleIsSafe DEF FilesInv, FileTypes
  <2> QED BY <2>1, <2>2 DEF ZipRemove, WriteNow
<1>5. CASE Quit
  BY <1>1, <1>2, <1>4, <1>5, ZipQuits
<1>6. CASE Len(left) # 1 /\ left' = Tail(left) /\ UNCHANGED <<pc, units>>
  <2>1. Going /\ Unit' = Unit
    BY <1>2, <1>3, <1>6, StayingGoes DEF FilesInv
  <2>2. ToSet(Unit)' = ToSet(Unit) /\ ToSet(left)' = ToSet(Tail(left))
    BY <1>6, <2>1 DEF ToSet
  <2>3. Busy'
    BY <1>3, <1>6, <2>2 DEF Busy
  <2>4. ASSUME Fresh', NEW pair \in ToSet(Unit) PROVE Arrived(pair)'
    <3>1. Arrived(pair)
      BY <1>1, <1>2, <2>4 DEF Fresh, Rewritten, Goes, FilesInv, Places, ZipPlaces
    <3>2. pair.dst \in Path /\ pair.dst \in AllTargets
      BY <1>3, CommandShape DEF FilesInv, FileTypes
    <3>3. disk'[pair.dst] = disk[pair.dst]
      BY <1>3, <1>4, <3>2
    <3> QED BY <1>2, <3>1, <3>3, GoesOn DEF Arrived, Tokens, FilesInv
  <2>5. ZipPlaces'
    BY <1>1, <1>2, <1>6, <2>2, <2>3, <2>4 DEF ZipPlaces, Goes
  <2> QED BY <1>1, <1>2, <1>4, <2>1, <2>5, OneTool, StepKeeps DEF FilesInv
<1> QED BY <1>5, <1>6 DEF ZipRemove

-----------------------------------------------------------------------------
(* unzip.  Its archive stays.                                              *)
LEMMA UnzipHere ==
  ASSUME FilesInv, command.tool = "unzip", pc \in {"open", "copy", "close"}
  PROVE  /\ Busy /\ This \in Pairs /\ This \in ToSet(Unit) /\ ToSet(Unit) \subseteq Pairs
         /\ This.src \in Path /\ This.dst \in Path /\ This.src \notin AllTargets
         /\ This.dst \in AllTargets \ AllSources /\ Unheld(This.dst)
         /\ \A pair \in ToSet(Unit) : pair.src = This.src
         /\ Unit = command.units[1] /\ Unit[1] \in ToSet(Unit) /\ command.units # <<>>
         /\ Intact(This.src)
<1>1. Busy /\ units = command.units
  BY DEF FilesInv, Places, UnzipPlaces
<1>2. /\ This \in Pairs /\ This \in ToSet(Unit) /\ ToSet(Unit) \subseteq Pairs
      /\ Unit \in Seq(Pairs) /\ Unit # <<>>
  BY <1>1, ThisIsOfUnit, UnitShape DEF FilesInv, Busy
<1>3. Unit = command.units[1] /\ 1 \in DOMAIN command.units /\ command.units # <<>>
  BY <1>1, HeadAndTail DEF FilesInv, FileTypes, Unit, Busy
<1>4. \A pair \in ToSet(Unit) : pair.src = This.src
  <2>1. \A p, q \in ToSet(command.units[1]) : p.src = q.src
    BY <1>3, UnitsAssumption DEF FilesInv, FileTypes
  <2> QED BY <1>2, <1>3, <2>1
<1>5. Unit[1] \in ToSet(Unit)
  BY <1>2, HeadAndTail
<1>6. /\ This.src \in Path /\ This.dst \in Path /\ This.src \in AllSources \ AllTargets
      /\ This.dst \in AllTargets \ AllSources
  BY <1>2, GzApart, NotBoth DEF FilesInv
<1>7. \A pair \in Pairs : pair.src \notin AllTargets => Intact(pair.src)
  BY StandingIsIntact, CommandShape DEF Moves, FilesInv, FileTypes, GzTool, BzTool
<1> QED BY <1>1, <1>2, <1>3, <1>4, <1>5, <1>6, <1>7 DEF Unheld

LEMMA UnzipQuits ==
  ASSUME FilesInv, command.tool = "unzip", Goes, Quit, disk' \in [Path -> Content], Safe'
  PROVE  FilesInv'
<1>1. Going /\ pc' = "exit" /\ units' = units
  BY QuitGoes DEF FilesInv
<1>2. UnzipPlaces'
  BY <1>1 DEF UnzipPlaces, Goes, FilesInv, Places
<1> QED BY <1>1, <1>2, OneTool, StepKeeps DEF FilesInv

LEMMA UnzipIdleQuits ==
  ASSUME FilesInv, command.tool = "unzip", Goes, Quit, Unwritten
  PROVE  FilesInv'
<1>1. disk' = disk
  BY DEF Unwritten
<1> QED BY <1>1, IdleIsSafe, UnzipQuits DEF FilesInv, FileTypes

(* A step that writes to the target, or not at all, and stays with it.     *)
LEMMA UnzipStays ==
  ASSUME FilesInv, command.tool = "unzip", Goes, pc \in {"open", "copy", "close"},
         UNCHANGED <<units, left>>, disk' \in [Path -> Content], Safe',
         \A p \in Path : p # This.dst => disk'[p] = disk[p],
         pc' \in {"copy", "close"}, Writable(This.dst)
  PROVE  FilesInv'
<1>1. /\ Busy /\ This \in Pairs /\ This.src \in Path /\ This.src # This.dst
  BY UnzipHere
<1>2. Going /\ Busy' /\ This' = This /\ Unit' = Unit
  BY <1>1, SamePlace DEF FilesInv
<1>3. Archive' = Archive
  BY <1>1, <1>2 DEF Archive
<1>4. Writable(This.dst)'
  BY <1>2, GoesOn DEF FilesInv
<1>5. UnzipPlaces'
  BY <1>2, <1>3, <1>4 DEF UnzipPlaces, Goes, FilesInv, Places
<1> QED BY <1>2, <1>5, OneTool, StepKeeps DEF FilesInv

(* A step to the next member of the archive.                               *)
LEMMA UnzipNextMember ==
  ASSUME FilesInv, command.tool = "unzip", Goes, pc \in {"open", "copy", "close"}, NextMember,
         disk' \in [Path -> Content], Safe', \A p \in Path : p # This.dst => disk'[p] = disk[p]
  PROVE  FilesInv'
<1>1. CASE Quit
  BY <1>1, UnzipQuits
<1>2. CASE Len(left) # 1 /\ pc' = "open" /\ left' = Tail(left) /\ UNCHANGED units
  <2>1. /\ Busy /\ This \in Pairs /\ This.src \in Path /\ This.src # This.dst
        /\ \A pair \in ToSet(Unit) : pair.src = This.src
    BY UnzipHere
  <2>2. /\ Tail(left) \in Seq(Pairs) /\ ToSet(left) = {This} \cup ToSet(Tail(left))
        /\ Tail(left) # <<>>
    BY <1>2, <2>1, ThisIsOfUnit DEF FilesInv
  <2>3. Going /\ Unit' = Unit
    BY <1>2, <2>2, StayingGoes DEF FilesInv
  <2>4. ToSet(Unit)' = ToSet(Unit) /\ ToSet(left)' = ToSet(Tail(left))
    BY <1>2, <2>3 DEF ToSet
  <2>5. Busy'
    BY <1>2, <2>1, <2>2, <2>4 DEF Busy
  <2>6. This' \in ToSet(Unit)
    <3>1. Head(Tail(left)) \in ToSet(Tail(left))
      BY <2>2, HeadAndTail
    <3> QED BY <1>2, <2>1, <2>2, <3>1 DEF This, Busy
  <2>7. Archive' = Archive
    BY <2>1, <2>6 DEF Archive
  <2>8. Len(left') <= Len(Unit')
    <3>1. Len(left') = Len(left) - 1 /\ Len(left) \in Nat
      BY <1>2, <2>1, HeadAndTail DEF Busy, FilesInv, FileTypes
    <3>2. Len(Unit) \in Nat
      BY <2>1, UnitShape, HeadAndTail DEF FilesInv, Busy
    <3>3. Len(left) <= Len(Unit)
      BY DEF FilesInv, Places, UnzipPlaces
    <3>4. Unit' = Unit
      BY <2>3
    <3> QED BY <3>1, <3>2, <3>3, <3>4
  <2>9. UnzipPlaces'
    BY <1>2, <2>5, <2>7, <2>8 DEF UnzipPlaces, Goes, FilesInv, Places
  <2> QED BY <2>3, <2>9, OneTool, StepKeeps DEF FilesInv
<1> QED BY <1>1, <1>2 DEF NextMember

LEMMA UnzOpenKeeps ==
  ASSUME FilesInv, UnzOpen
  PROVE  FilesInv'
<1>1. command.tool = "unzip" /\ pc = "next" /\ units # <<>> /\ disk' = disk
  BY DEF UnzOpen, AtUnit, At, Unwritten
<1>2. Goes
  BY DEF UnzOpen, Given, Unwritten, NothingAsked, Goes, FilesInv, FileTypes
<1>3. Safe'
  BY <1>1, <1>2, IdleIsSafe DEF FilesInv
<1>4. CASE Quit
  BY <1>1, <1>2, <1>3, <1>4, UnzipQuits DEF FilesInv, FileTypes
<1>5. CASE /\ disk[Unit[1].src].form = "zip" /\ disk[Unit[1].src].whole
           /\ pc' = "open" /\ left' = Unit /\ UNCHANGED units
  <2>1. Unit \in Seq(Pairs) /\ Unit # <<>>
    BY <1>1, UnitShape DEF FilesInv
  <2>2. Going /\ Unit' = Unit
    BY <1>2, <1>5, <2>1, StayingGoes DEF FilesInv
  <2>3. ToSet(Unit)' = ToSet(Unit) /\ ToSet(left)' = ToSet(Unit)
    BY <1>5, <2>2 DEF ToSet
  <2>4. Busy'
    BY <1>1, <1>5, <2>1, <2>3 DEF Busy
  <2>5. Archive' = disk[Unit[1].src]
    <3>1. This' = Unit[1]
      BY <1>5, <2>1, HeadAndTail DEF This
    <3> QED BY <1>1, <3>1 DEF Archive
  <2>6. Len(left') <= Len(Unit')
    <3>1. Len(Unit) \in Nat
      BY <2>1, HeadAndTail
    <3>2. left' = Unit /\ Unit' = Unit
      BY <1>5, <2>2
    <3> QED BY <3>1, <3>2
  <2>7. UnzipPlaces'
    <3>1. units' = command'.units /\ pc' = "open"
      BY <1>1, <1>2, <1>5 DEF UnzipPlaces, Goes, FilesInv, Places
    <3>2. Archive'.form = "zip" /\ Archive'.whole
      BY <1>5, <2>5
    <3> QED BY <2>4, <2>6, <3>1, <3>2 DEF UnzipPlaces
  <2> QED BY <1>1, <1>2, <1>3, <2>2, <2>7, OneTool, StepKeeps DEF FilesInv, FileTypes
<1> QED BY <1>4, <1>5 DEF UnzOpen

LEMMA UnzSkipKeeps ==
  ASSUME FilesInv, UnzSkip
  PROVE  FilesInv'
<1>1. command.tool = "unzip" /\ pc = "open" /\ NextMember /\ disk' = disk
  BY DEF UnzSkip, At, Unwritten
<1>2. Goes
  BY DEF UnzSkip, Given, Unwritten, Refuse, Goes, FilesInv, FileTypes
<1> QED BY <1>1, <1>2, IdleIsSafe, UnzipNextMember DEF FilesInv, FileTypes

LEMMA UnzCreateKeeps ==
  ASSUME FilesInv, UnzCreate
  PROVE  FilesInv'
<1>1. command.tool = "unzip" /\ pc = "open" /\ (Exists(This.dst) => ~command.noClobber)
  BY DEF UnzCreate, At
<1>2. Goes
  BY DEF UnzCreate, Given, WriteNow, Unwritten, NothingAsked, Goes, FilesInv, FileTypes
<1>3. This.dst \in Path /\ This.dst \in AllTargets \ AllSources /\ Unheld(This.dst)
  BY <1>1, UnzipHere
<1>4. Writable(This.dst)
  <2>1. Exists(This.dst) => MayOverwrite(This.dst)
    BY <1>1 DEF MayOverwrite, GzTool, BzTool
  <2> QED BY <1>3, <2>1, VacantIsWritable DEF FilesInv
<1>5. CASE Write(This.dst, Broken("raw", <<>>)) /\ Goto("copy")
  <2>1. Broken("raw", <<>>) \in Content
    BY Contents DEF FilesInv
  <2>2. disk' \in [Path -> Content] /\ \A p \in Path : p # This.dst => disk'[p] = disk[p]
    BY <1>3, <1>5, <2>1, WrittenTypes DEF FilesInv
  <2>3. Safe'
    BY <1>2, <1>3, <1>4, <1>5, WritingIsSafe DEF FilesInv, MayWrite
  <2> QED BY <1>1, <1>2, <1>4, <1>5, <2>2, <2>3, UnzipStays DEF Goto
<1>6. CASE Unwritten /\ Quit
  BY <1>1, <1>2, <1>6, UnzipIdleQuits
<1> QED BY <1>5, <1>6 DEF UnzCreate, WriteNow

LEMMA UnzCopyKeeps ==
  ASSUME FilesInv, UnzCopy
  PROVE  FilesInv'
<1>1. command.tool = "unzip" /\ pc = "copy"
  BY DEF UnzCopy, At
<1>2. Goes
  BY DEF UnzCopy, Given, WriteNow, Unwritten, NothingAsked, Goes, FilesInv, FileTypes
<1>3. /\ Busy /\ This.src \in Path /\ This.dst \in Path /\ Intact(This.src) /\ Unheld(This.dst)
      /\ Unit = command.units[1] /\ Unit[1].src = This.src /\ command.units # <<>>
  BY <1>1, UnzipHere
<1>4. Writable(This.dst) /\ Archive.form = "zip" /\ Archive.whole /\ Len(left) <= Len(Unit)
  BY <1>1 DEF FilesInv, Places, UnzipPlaces
<1>5. Archive.parts[Member] \in Token
  <2>1. Archive = start[This.src] /\ Archive.parts \in Seq(Token)
    BY <1>3, Contents DEF Archive, Intact, FilesInv
  <2>2. Len(Archive.parts) = Len(Unit)
    BY <1>1, <1>3, <1>4, <2>1, MembersAssumption DEF FilesInv, FileTypes
  <2>3. Len(left) \in Nat \ {0} /\ Len(Unit) \in Nat
    BY <1>3, UnitShape, HeadAndTail DEF Busy, FilesInv, FileTypes
  <2>4. Member \in 1 .. Len(Archive.parts)
    BY <1>4, <2>2, <2>3 DEF Member
  <2> QED BY <2>1, <2>4
<1>6. CASE Write(This.dst, Broken("raw", <<Archive.parts[Member]>>)) /\ Goto("close")
  <2>1. Broken("raw", <<Archive.parts[Member]>>) \in Content
    BY <1>5, Contents DEF FilesInv
  <2>2. disk' \in [Path -> Content] /\ \A p \in Path : p # This.dst => disk'[p] = disk[p]
    BY <1>3, <1>6, <2>1, WrittenTypes DEF FilesInv
  <2>3. Safe'
    BY <1>2, <1>3, <1>4, <1>6, WritingIsSafe DEF FilesInv, MayWrite
  <2> QED BY <1>1, <1>2, <1>4, <1>6, <2>2, <2>3, UnzipStays DEF Goto
<1>7. CASE Unwritten /\ Quit
  BY <1>1, <1>2, <1>7, UnzipIdleQuits
<1> QED BY <1>6, <1>7 DEF UnzCopy, WriteNow

LEMMA UnzCloseKeeps ==
  ASSUME FilesInv, UnzClose
  PROVE  FilesInv'
<1>1. command.tool = "unzip" /\ pc = "close" /\ NextMember /\ DropBuffer(This.dst)
  BY DEF UnzClose, At
<1>2. Goes
  <2>1. Given /\ NothingAsked /\ tailLost \subseteq tailLost'
    BY DEF UnzClose, DropBuffer, WriteNow
  <2> QED BY <2>1 DEF Given, NothingAsked, Goes, FilesInv, FileTypes
<1>3. This.dst \in Path /\ MayWrite(This.dst)
  BY <1>1, UnzipHere DEF MayWrite, FilesInv, Places, UnzipPlaces
<1>4. /\ disk' \in [Path -> Content] /\ Safe'
      /\ \A p \in Path : p # This.dst => disk'[p] = disk[p]
  BY <1>1, <1>2, <1>3, DroppedBuffer
<1> QED BY <1>1, <1>2, <1>4, UnzipNextMember

LEMMA ZipKeeps ==
  ASSUME FilesInv, ZipStep
  PROVE  FilesInv'
BY ZipCollectKeeps, ZipCreateKeeps, ZipAddKeeps, ZipCloseKeeps, ZipRemoveKeeps, UnzOpenKeeps,
   UnzSkipKeeps, UnzCreateKeeps, UnzCopyKeeps, UnzCloseKeeps DEF ZipStep

-----------------------------------------------------------------------------
(* The command is given, comes to its end, and is given again.             *)
LEMMA FilesStart ==
  Init => FilesInv
<1> SUFFICES ASSUME Init PROVE FilesInv
  OBVIOUS
<1>1. /\ command \in Command /\ disk \in Disks /\ start = disk /\ pc = "next"
      /\ units = command.units /\ left = <<>> /\ runs = 1
  BY DEF Init, DiskInit
<1>2. disk \in [Path -> Content]
  <2>1. disk \in [Path -> File] /\ File \subseteq Content
    <3>1. NoFile \in Content
      <4>1. <<>> \in Seq(Token)
        OBVIOUS
      <4> QED BY <4>1 DEF NoFile, Content
    <3> QED BY <1>1, <3>1, DisksAssumption DEF File, Content
  <2> QED BY <2>1
<1>3. left \in Seq(Pairs)
  BY <1>1
<1>4. FileTypes
  BY <1>1, <1>2, <1>3, CommandShape DEF FileTypes
<1>5. Arguments
  BY <1>1 DEF Arguments
<1>6. \A p : Intact(p)
  BY <1>1 DEF Intact
<1>7. Safe
  BY <1>6 DEF Safe, Untouched, TargetsSafe, SourcesSafe, SelvesSafe
<1>8. Places
  BY <1>1, <1>6 DEF Places, GzPlaces, MvPlaces, CpPlaces, ZipPlaces, UnzipPlaces
<1> QED BY <1>4, <1>5, <1>7, <1>8 DEF FilesInv

LEMMA AgainKeeps ==
  ASSUME FilesInv, AllDone \/ Again
  PROVE  FilesInv'
<1>1. disk' = disk
  BY DEF AllDone, Again, Unwritten
<1>2. Goes
  BY DEF AllDone, Again, Given, Unwritten, NothingAsked, Goes, FilesInv, FileTypes
<1>3. Safe'
  BY <1>1, <1>2, IdleIsSafe DEF FilesInv
<1>4. CASE AllDone
  <2>1. Going /\ pc' = "exit" /\ units' = units
    <3>1. left \in Seq(Pairs)
      BY DEF FilesInv, FileTypes
    <3> QED BY <1>2, <1>4, <3>1, StayingGoes DEF AllDone, Goto, FilesInv
  <2>2. Places'
    BY <1>2, <2>1 DEF Places, GzPlaces, MvPlaces, CpPlaces, ZipPlaces, UnzipPlaces, Goes, FilesInv
  <2> QED BY <1>1, <1>2, <1>3, <2>1, <2>2, StepKeeps DEF FilesInv, FileTypes
<1>5. CASE Again
  <2>1. pc' = "next" /\ units' = command.units /\ left' = <<>> /\ runs' = runs + 1
    BY <1>5 DEF Again
  <2>2. Going
    <3>1. units' \in Seq(Argument) /\ left' \in Seq(Pairs)
      BY <2>1, CommandShape DEF FilesInv, FileTypes
    <3>2. Arguments'
      BY <1>2, <2>1 DEF Arguments, Goes
    <3> QED BY <3>1, <3>2 DEF Going
  <2>3. Fresh' => \A s \in AllSources : Intact(s)'
    <3>1. SUFFICES ASSUME Fresh', NEW s \in AllSources PROVE Intact(s)'
      OBVIOUS
    <3>2. command.tool = "zip" /\ ~Moves
      BY <1>2, <2>1, <3>1 DEF Fresh, Rewritten, Goes, Moves, FilesInv, FileTypes, GzTool, BzTool
    <3>3. s \notin AllTargets
      BY <3>1, <3>2, GzApart, NotBoth DEF FilesInv, AllSources
    <3> QED BY <1>1, <1>2, <3>2, <3>3, StandingIsIntact DEF FilesInv, Intact, Goes
  <2>4. Places'
    BY <1>2, <2>1, <2>3, GoesOn DEF Places, GzPlaces, MvPlaces, CpPlaces, ZipPlaces, UnzipPlaces,
                                    Goes, FilesInv
  <2> QED BY <1>1, <1>2, <1>3, <2>2, <2>4, StepKeeps DEF FilesInv, FileTypes
<1> QED BY <1>4, <1>5

LEMMA FilesKeep ==
  FilesInv /\ [Next]_diskVars => FilesInv'
<1> SUFFICES ASSUME FilesInv, [Next]_diskVars PROVE FilesInv'
  OBVIOUS
<1>1. CASE UNCHANGED diskVars
  <2>1. Goes /\ disk' = disk
    BY <1>1 DEF diskVars, Goes, FilesInv, FileTypes
  <2>2. Safe'
    BY <2>1, IdleIsSafe DEF FilesInv
  <2>3. FileTypes' /\ Arguments'
    <3>1. Argument' = Argument /\ Pairs' = Pairs
      BY <2>1, GoesOn DEF FilesInv, Argument
    <3> QED BY <1>1, <3>1 DEF diskVars, FilesInv, FileTypes, Arguments
  <2>4. Places'
    <3>1. /\ This' = This /\ Unit' = Unit /\ Moves' = Moves /\ AllSources' = AllSources
          /\ Archive' = Archive /\ Busy' = Busy /\ Fresh' = Fresh
      BY <1>1 DEF diskVars, This, Unit, Moves, AllSources, Pairs, Archive, Busy, Fresh, Rewritten
    <3>2. /\ \A p : Intact(p)' = Intact(p) /\ (Writable(p) => Writable(p)')
          /\ \A q : Carried(q) => Carried(q)'
          /\ \A q : Arrived(q) => Arrived(q)'
      BY <1>1, <2>1, GoesOn DEF FilesInv, Intact, Carried, Arrived, Tokens, diskVars
    <3>3. /\ ToSet(Unit)' = ToSet(Unit) /\ ToSet(left)' = ToSet(left) /\ Len(left)' = Len(left)
          /\ Len(Unit)' = Len(Unit)
      BY <1>1, <3>1 DEF diskVars, ToSet
    <3>4. GzPlaces'
      BY <1>1, <3>1, <3>2 DEF diskVars, FilesInv, Places, GzPlaces
    <3>5. MvPlaces'
      BY <1>1, <3>1, <3>2, <3>3 DEF diskVars, FilesInv, Places, MvPlaces
    <3>6. CpPlaces'
      BY <1>1, <3>1, <3>2, <3>3 DEF diskVars, FilesInv, Places, CpPlaces
    <3>7. ZipPlaces'
      BY <1>1, <3>1, <3>2, <3>3 DEF diskVars, FilesInv, Places, ZipPlaces
    <3>8. UnzipPlaces'
      BY <1>1, <3>1, <3>2, <3>3 DEF diskVars, FilesInv, Places, UnzipPlaces
    <3> QED BY <3>4, <3>5, <3>6, <3>7, <3>8 DEF Places
  <2> QED BY <2>2, <2>3, <2>4 DEF FilesInv
<1> QED BY <1>1, AgainKeeps, GzKeeps, MvKeeps, CpKeeps, ZipKeeps DEF Next

(* The disk, the command and the task stay of their types: FileTypes, of   *)
(* every command line and of any run of the program after another.         *)
THEOREM FileTypesTheorem == Spec => []FileTypes
<1>1. FilesInv => FileTypes
  BY DEF FilesInv
<1> QED BY <1>1, FilesStart, FilesKeep, PTL DEF Spec

(* Contents that were whole when the program started are whole somewhere,  *)
(* unless they were given up or lost in a known way, whichever call fails  *)
(* and wherever the program is stopped: what compress_file, move_path,     *)
(* copy_file and do_create owe the user.                                   *)
THEOREM NothingLostTheorem == Spec => []NothingLost
<1>1. FilesInv => NothingLost
  BY SafeLosesNothing DEF FilesInv
<1> QED BY <1>1, FilesStart, FilesKeep, PTL DEF Spec

-----------------------------------------------------------------------------
(* What an exit code of 0 says.  Of the tools that go from argument to     *)
(* argument: a pair is refused, done, or still to be done, unless an error *)
(* was told.                                                               *)
Waits(args, pair) == \E i \in DOMAIN args : pair \in ToSet(args[i])
Now(pair) ==
  IF pc = "next" \/ (command.tool = "mv" /\ pc \in {"create", "copy"})
  THEN pair \in ToSet(Unit) ELSE pair \in ToSet(left)
Pending(pair) == units # <<>> /\ (Now(pair) \/ Waits(Tail(units), pair))
Done(pair) ==
  IF Moves THEN ~Exists(pair.src) \/ pair.src \in AllTargets ELSE Arrived(pair)

OneByOne == command.tool \in GzTool \cup BzTool \cup {"mv", "cp"}
ByArgument ==
  OneByOne =>
    /\ pc = "exit" => units = <<>>
    /\ status => \A pair \in Pairs \ refused : Done(pair) \/ Pending(pair)

(* zip: what is not in the unit was not there.                             *)
InArchive ==
  command.tool = "zip" =>
    /\ pc = "next" => units = command.units
    /\ pc \in {"create", "copy", "close", "remove"} => Pairs \ refused \subseteq ToSet(Unit)
    /\ pc = "exit" /\ status => \A pair \in Pairs \ refused : Arrived(pair)

(* unzip: the members before the present one.                              *)
Extracted(i) ==
  \/ start[Unit[i].src].parts[i] \in Tokens(disk[Unit[i].dst])
  \/ KnownLoss(Unit[i], start[Unit[i].src].parts[i])
Handled(n) == status => \A i \in 1 .. n : Unit[i] \in refused \/ Extracted(i)
OutOfArchive ==
  command.tool = "unzip" =>
    /\ pc \in {"open", "copy", "close"} =>
         /\ \A i \in DOMAIN left : left[i] = Unit[Len(Unit) - Len(left) + i]
         /\ Handled(Member - 1)
    /\ pc = "close" => Archive.parts[Member] \in ToSet(disk[This.dst].parts)
    /\ pc = "exit" /\ units # <<>> => Handled(Len(Unit))

(* Who does not move leaves its sources, also what it copies onto itself.  *)
SourcesStay == ~Moves => \A s \in AllSources : Exists(s) \/ start[s].form = "none"

DoneInv == FilesInv /\ SourcesStay /\ ByArgument /\ InArchive /\ OutOfArchive

-----------------------------------------------------------------------------
LEMMA StepOfTool ==
  ASSUME Next
  PROVE  \/ AllDone \/ Again
         \/ (GzStep \/ BzStep) /\ command.tool \in GzTool \cup BzTool
         \/ MvStep /\ command.tool = "mv"
         \/ CpStep /\ command.tool = "cp"
         \/ (ZipCollect \/ ZipCreate \/ ZipAdd \/ ZipClose \/ ZipRemove) /\ command.tool = "zip"
         \/ (UnzOpen \/ UnzSkip \/ UnzCreate \/ UnzCopy \/ UnzClose) /\ command.tool = "unzip"
<1>1. ASSUME GzStep \/ BzStep PROVE command.tool \in GzTool \cup BzTool
  BY <1>1 DEF GzStep, BzStep, Compressor, GzNext, GzCreate, GzCopy, GzClose, GzRemove, AtUnit, At
<1>2. ASSUME MvStep PROVE command.tool = "mv"
  BY <1>2 DEF MvStep, MvAbsent, MvRefused, MvRename, MvAcross, MvGoesOn, MvCreate, MvCopy,
              AnyMvCopy, MvRemove, AtUnit, At
<1>3. ASSUME CpStep PROVE command.tool = "cp"
  BY <1>3 DEF CpStep, CpNext, CpRefused, CpSmall, CpCreate, CpGoesOn, CpCopy, AnyCpCopy, AtUnit, At
<1>4. ASSUME ZipCollect \/ ZipCreate \/ ZipAdd \/ ZipClose \/ ZipRemove PROVE command.tool = "zip"
  BY <1>4 DEF ZipCollect, ZipCreate, ZipAdd, ZipClose, ZipRemove, AtUnit, At
<1>5. ASSUME UnzOpen \/ UnzSkip \/ UnzCreate \/ UnzCopy \/ UnzClose PROVE command.tool = "unzip"
  BY <1>5 DEF UnzOpen, UnzSkip, UnzCreate, UnzCopy, UnzClose, AtUnit, At
<1> QED BY <1>1, <1>2, <1>3, <1>4, <1>5 DEF Next, ZipStep

LEMMA StepGoes ==
  ASSUME FilesInv, [Next]_diskVars
  PROVE  Goes
<1>1. CASE UNCHANGED diskVars
  BY <1>1 DEF diskVars, Goes, FilesInv, FileTypes
<1>2. CASE AllDone \/ Again
  BY <1>2 DEF AllDone, Again, Given, Unwritten, NothingAsked, Goes, FilesInv, FileTypes
<1>3. CASE GzStep \/ BzStep
  <2>1. Given /\ tailLost \subseteq tailLost' /\ agreed' = agreed
    BY <1>3 DEF GzStep, BzStep, Compressor, GzNext, GzCreate, GzCopy, GzClose, GzRemove,
                Unwritten, DropBuffer, WriteNow, NothingAsked, Refuse
  <2> QED BY <2>1 DEF Given, Goes, FilesInv, FileTypes
<1>4. CASE MvStep
  <2>1. Given /\ tailLost' = tailLost /\ agreed \subseteq agreed'
    BY <1>4 DEF MvStep, MvAbsent, MvRefused, MvRename, MvAcross, MvGoesOn, MvCreate, MvCopy,
                AnyMvCopy, MvRemove, Unwritten, WriteNow, NothingAsked, Refuse
  <2> QED BY <2>1 DEF Given, Goes, FilesInv, FileTypes
<1>5. CASE CpStep
  <2>1. Given /\ tailLost' = tailLost /\ agreed \subseteq agreed'
    BY <1>5 DEF CpStep, CpNext, CpRefused, CpSmall, CpCreate, CpGoesOn, CpCopy, AnyCpCopy,
                Unwritten, WriteNow, NothingAsked, Refuse
  <2> QED BY <2>1 DEF Given, Goes, FilesInv, FileTypes
<1>6. CASE ZipStep
  <2>1. Given /\ tailLost \subseteq tailLost' /\ agreed' = agreed
    BY <1>6 DEF ZipStep, ZipCollect, ZipCreate, ZipAdd, ZipClose, ZipRemove, UnzOpen, UnzSkip,
                UnzCreate, UnzCopy, UnzClose, DropBuffer, Unwritten, WriteNow, NothingAsked, Refuse
  <2> QED BY <2>1 DEF Given, Goes, FilesInv, FileTypes
<1> QED BY <1>1, <1>2, <1>3, <1>4, <1>5, <1>6 DEF Next

LEMMA SourcesStayKeep ==
  ASSUME FilesInv, FilesInv', SourcesStay, [Next]_diskVars
  PROVE  SourcesStay'
<1>1. Goes
  BY StepGoes
<1>2. SUFFICES ASSUME ~Moves, NEW s \in AllSources
               PROVE  disk'[s].form # "none" \/ start[s].form = "none"
  BY <1>1, GoesOn DEF SourcesStay, Exists, FilesInv
<1>3. CASE s \notin AllTargets
  <2>1. Intact(s)'
    BY <1>1, <1>2, <1>3, GoesOn DEF FilesInv, Safe, SourcesSafe
  <2> QED BY <1>1, <2>1 DEF Intact, Goes
<1>4. CASE s \in AllTargets
  <2>1. PICK self \in Pairs : self.src = s
    BY DEF AllSources
  <2>2. \A b \in Pairs : b.dst = s => b = self /\ command.tool \in {"mv", "cp"}
    BY <2>1, Apart DEF FilesInv
  <2>3. self.dst = s /\ command.tool = "cp" /\ s \in Path
    BY <1>2, <1>4, <2>1, <2>2, CommandShape DEF AllTargets, Moves, FilesInv, FileTypes
  <2>4. disk[s].form # "none" \/ start[s].form = "none"
    BY <1>2 DEF SourcesStay, Exists
  <2>5. disk[s] \in Content
    BY <2>3, Contents DEF FilesInv
  <2>6. CASE UNCHANGED disk
    BY <2>4, <2>6
  <2>7. CASE CpStep /\ ~UNCHANGED disk
    <3>1. pc \in {"open", "copy"}
      BY <2>7 DEF CpStep, CpNext, CpRefused, CpSmall, CpCreate, CpGoesOn, CpCopy, AnyCpCopy, At,
                  Unwritten
    <3>2. This \in Pairs
      BY <2>3, <3>1, CpHere
    <3>3. PICK q : q = This
      OBVIOUS
    <3>4. CASE q.dst # s
      <4>1. disk'[s] = disk[s]
        BY <2>3, <2>7, <3>3, <3>4 DEF CpStep, CpNext, CpRefused, CpSmall, CpCreate, CpCopy,
             AnyCpCopy, Unwritten, WriteNow, Write, FilesInv, FileTypes
      <4> QED BY <2>4, <4>1
    <3>5. CASE q.dst = s
      <4>1. q = self
        BY <2>2, <3>2, <3>3, <3>5
      <4>2. \/ Write(q.dst, Broken("raw", <<>>))
            \/ Write(q.dst, [disk[q.src] EXCEPT !.whole = TRUE])
        BY <2>1, <2>3, <2>7, <3>3, <4>1 DEF CpStep, CpNext, CpRefused, CpSmall, CpCreate, CpCopy,
             AnyCpCopy, Unwritten, WriteNow
      <4>3. \/ disk'[s] = Broken("raw", <<>>)
            \/ disk'[s] = [disk[s] EXCEPT !.whole = TRUE]
        BY <2>1, <2>3, <4>1, <4>2 DEF Write, FilesInv, FileTypes
      <4> QED BY <2>4, <2>5, <4>3 DEF Broken, Content
    <3> QED BY <3>4, <3>5
  <2>8. UNCHANGED disk \/ CpStep
    <3>1. AllDone \/ Again => UNCHANGED disk
      BY DEF AllDone, Again, Unwritten
    <3> QED BY <2>3, <3>1, StepOfTool DEF diskVars, GzTool, BzTool
  <2> QED BY <2>6, <2>7, <2>8
<1> QED BY <1>3, <1>4

-----------------------------------------------------------------------------
(* What is done stays done, or is being done again.                        *)
LEMMA GoneIsDone ==
  ASSUME FilesInv, SourcesStay, NEW pair \in Pairs, ~Exists(pair.src)
  PROVE  Done(pair)
<1>1. CASE ~Moves
  <2>1. pair.src \in AllSources /\ pair.src \in Path
    BY CommandShape DEF FilesInv, FileTypes
  <2>2. start[pair.src].form = "none"
    BY <1>1, <2>1 DEF SourcesStay
  <2>3. Tokens(start[pair.src]) = {}
    BY <2>1, <2>2, Contents DEF FilesInv, Content, Tokens, ToSet
  <2> QED BY <1>1, <2>3 DEF Done, Arrived
<1> QED BY <1>1 DEF Done

LEMMA IdleDone ==
  ASSUME FilesInv, Goes, UNCHANGED disk, NEW pair \in Pairs, Done(pair)
  PROVE  Done(pair)'
<1>1. Arrived(pair) => Arrived(pair)'
  BY GoesOn DEF Arrived, Tokens, FilesInv
<1> QED BY <1>1, GoesOn DEF Done, Exists, FilesInv

LEMMA WritingDone ==
  ASSUME FilesInv, Goes, command.tool # "zip", NEW q \in Pairs,
         \A p \in Path : p # q.dst => disk'[p] = disk[p],
         NEW pair \in Pairs, pair # q \/ Moves, Done(pair)
  PROVE  Done(pair)'
<1>1. /\ pair.src \in Path /\ pair.dst \in Path /\ q.dst \in AllTargets
  BY CommandShape DEF FilesInv, FileTypes
<1>2. CASE Moves
  <2>1. pair.src \in AllTargets \/ disk'[pair.src] = disk[pair.src]
    BY <1>1
  <2> QED BY <1>2, <2>1, GoesOn DEF Done, Exists, FilesInv
<1>3. CASE ~Moves
  <2>1. Arrived(pair) /\ pair # q
    BY <1>3 DEF Done
  <2>2. CASE pair.dst = q.dst
    <3>1. \A t : KnownLoss(pair, t)'
      BY <2>1, <2>2, GoesOn DEF KnownLoss, Overtaken, FilesInv
    <3>2. Arrived(pair)'
      BY <3>1 DEF Arrived
    <3> QED BY <1>3, <3>2, GoesOn DEF Done, FilesInv
  <2>3. CASE pair.dst # q.dst
    <3>1. disk'[pair.dst] = disk[pair.dst]
      BY <1>1, <2>3
    <3>2. Arrived(pair)'
      BY <2>1, <3>1, GoesOn DEF Arrived, Tokens, FilesInv
    <3> QED BY <1>3, <3>2, GoesOn DEF Done, FilesInv
  <2> QED BY <2>2, <2>3
<1> QED BY <1>2, <1>3

LEMMA RemovingDone ==
  ASSUME FilesInv, Goes, Moves, NEW p \in Path, Write(p, NoFile), NEW pair \in Pairs,
         Done(pair) \/ pair.src = p
  PROVE  Done(pair)'
<1>1. pair.src \in Path
  BY CommandShape DEF FilesInv, FileTypes
<1>2. disk'[pair.src] = IF pair.src = p THEN NoFile ELSE disk[pair.src]
  BY <1>1 DEF Write, FilesInv, FileTypes
<1> QED BY <1>2, GoesOn DEF Done, Exists, NoFile, FilesInv

LEMMA FirstWaits ==
  ASSUME NEW S, NEW args \in Seq(S), NEW pair, Waits(args, pair)
  PROVE  args # <<>> /\ (pair \in ToSet(Head(args)) \/ Waits(Tail(args), pair))
<1>1. PICK i \in DOMAIN args : pair \in ToSet(args[i])
  BY DEF Waits
<1>2. args # <<>>
  BY <1>1
<1>3. CASE i = 1
  BY <1>1, <1>2, <1>3
<1>4. CASE i # 1
  <2>1. i - 1 \in DOMAIN Tail(args) /\ Tail(args)[i - 1] = args[i]
    BY <1>1, <1>4
  <2> QED BY <1>1, <1>2, <2>1 DEF Waits
<1> QED BY <1>3, <1>4

LEMMA NextPends ==
  ASSUME FilesInv', NEW pair, Waits(units', pair), pc' = "next"
  PROVE  Pending(pair)'
<1>1. units' \in Seq(Argument')
  BY DEF FilesInv, FileTypes
<1>2. units' # <<>> /\ (pair \in ToSet(Head(units')) \/ Waits(Tail(units'), pair))
  BY <1>1, FirstWaits
<1> QED BY <1>2 DEF Pending, Now, Waits, Unit, ToSet

(* A step that ends an argument, and one that stays with it.               *)
LEMMA ArgumentEnds ==
  ASSUME FilesInv, FilesInv', ByArgument, OneByOne, Goes, units # <<>>, NextUnit,
         refused \subseteq refused',
         status' => status /\ \A pair \in Pairs \ refused' : Done(pair) \/ Now(pair) => Done(pair)'
  PROVE  ByArgument'
<1>1. units' = Tail(units) /\ pc' = "next"
  BY DEF NextUnit
<1>2. ASSUME status', NEW pair \in Pairs \ refused' PROVE Done(pair)' \/ Pending(pair)'
  <2>1. Done(pair) \/ Now(pair) \/ Waits(Tail(units), pair)
    BY <1>2 DEF ByArgument, Pending
  <2>2. CASE Waits(Tail(units), pair)
    BY <1>1, <2>2, NextPends
  <2> QED BY <1>2, <2>1, <2>2
<1> QED BY <1>1, <1>2, GoesOn DEF ByArgument, FilesInv

LEMMA ArgumentStays ==
  ASSUME FilesInv, FilesInv', ByArgument, OneByOne, Goes, units' # <<>>,
         Tail(units') = Tail(units), pc' # "exit", refused \subseteq refused',
         status' => status /\ \A pair \in Pairs \ refused' :
                                Done(pair) \/ Now(pair) => Done(pair)' \/ Now(pair)'
  PROVE  ByArgument'
<1>1. ASSUME status', NEW pair \in Pairs \ refused' PROVE Done(pair)' \/ Pending(pair)'
  <2>1. Done(pair) \/ Now(pair) \/ Waits(Tail(units), pair)
    BY <1>1 DEF ByArgument, Pending
  <2>2. CASE Waits(Tail(units), pair)
    BY <2>2 DEF Pending, Waits, ToSet
  <2> QED BY <1>1, <2>1, <2>2 DEF Pending
<1> QED BY <1>1, GoesOn DEF ByArgument, FilesInv

(* A step after an error is told of nothing.                               *)
LEMMA ToldEnds ==
  ASSUME FilesInv, FilesInv', ByArgument, OneByOne, Goes, units # <<>>, NextUnit, Told
  PROVE  ByArgument'
BY DEF ByArgument, NextUnit, Told

-----------------------------------------------------------------------------
(* gzip and bzip2.                                                         *)
LEMMA OneFileEach ==
  ASSUME NEW c \in Command, c.tool \in GzTool \cup BzTool, NEW i \in DOMAIN c.units,
         NEW p \in ToSet(c.units[i]), NEW q \in ToSet(c.units[i])
  PROVE  p = q
<1>1. c.units[i] \in Seq(Pair)
  BY CommandAssumption DEF Commands
<1>2. Len(c.units[i]) = 1
  BY FileAssumption
<1>3. DOMAIN c.units[i] = {1}
  BY <1>1, <1>2
<1> QED BY <1>3 DEF ToSet

LEMMA GzUnit ==
  ASSUME FilesInv, command.tool \in GzTool \cup BzTool, units # <<>>
  PROVE  /\ \A p, q \in ToSet(Unit) : p = q
         /\ GzPair \in ToSet(Unit)
<1>1. PICK j \in DOMAIN command.units : ToSet(Unit) \subseteq ToSet(command.units[j])
  BY UnitShape DEF FilesInv
<1>2. \A p, q \in ToSet(command.units[j]) : p = q
  <2>1. command \in Command
    BY DEF FilesInv, FileTypes
  <2> QED BY <2>1, OneFileEach
<1>3. GzPair \in ToSet(Unit)
  <2>1. Unit \in Seq(Pairs) /\ Unit # <<>>
    BY UnitShape DEF FilesInv
  <2> QED BY <2>1, HeadAndTail DEF GzPair
<1> QED BY <1>1, <1>2, <1>3

LEMMA GzNextDone ==
  ASSUME DoneInv, FilesInv', Goes, NEW tool \in GzTool \cup BzTool, GzNext(tool)
  PROVE  ByArgument'
<1> USE DEF DoneInv
<1>1. /\ pc = "next" /\ units # <<>> /\ command.tool = tool /\ UNCHANGED disk /\ OneByOne
  BY DEF GzNext, AtUnit, At, Unwritten, OneByOne
<1>2. CASE NextUnit /\ Fine /\ Refuse({GzPair})
  <2>1. ASSUME NEW pair \in Pairs \ refused', Done(pair) \/ Now(pair) PROVE Done(pair)'
    <3>1. CASE Done(pair)
      BY <1>1, <3>1, IdleDone
    <3>2. CASE Now(pair)
      BY <1>1, <1>2, <2>1, <3>2, GzUnit DEF Now, Refuse
    <3> QED BY <2>1, <3>1, <3>2
  <2> QED BY <1>1, <1>2, <2>1, ArgumentEnds DEF Fine, Refuse
<1>3. CASE NextUnit /\ Told
  BY <1>1, <1>3, ToldEnds
<1>4. CASE pc' = "create" /\ left' = Unit /\ UNCHANGED units /\ Fine /\ NothingAsked
  <2>1. ToSet(left)' = ToSet(Unit) /\ command' = command
    BY <1>4 DEF ToSet, Goes
  <2>2. ASSUME NEW pair \in Pairs \ refused', Done(pair) \/ Now(pair)
        PROVE  Done(pair)' \/ Now(pair)'
    <3>1. CASE Done(pair)
      BY <1>1, <3>1, IdleDone
    <3>2. CASE Now(pair)
      BY <1>1, <1>4, <2>1, <3>2 DEF Now, GzTool, BzTool
    <3> QED BY <2>2, <3>1, <3>2
  <2> QED BY <1>1, <1>4, <2>2, ArgumentStays DEF Fine, NothingAsked
<1> QED BY <1>2, <1>3, <1>4 DEF GzNext

(* A step that writes to the target, or not at all, and stays with it.     *)
LEMMA GzStaysDone ==
  ASSUME DoneInv, FilesInv', Goes, command.tool \in GzTool \cup BzTool,
         pc \in {"create", "copy", "close", "remove"}, UNCHANGED <<units, left, refused, status>>,
         pc' \in {"copy", "close", "remove"},
         \A p \in Path : p # This.dst => disk'[p] = disk[p]
  PROVE  ByArgument'
<1> USE DEF DoneInv
<1>1. Busy /\ This \in Pairs /\ This \in ToSet(left)
  BY GzHere, ThisIsOfUnit DEF FilesInv
<1>2. PICK q \in Pairs : q = This
  BY <1>1
<1>3. ToSet(left)' = ToSet(left) /\ command' = command /\ command.tool \notin {"mv", "zip"}
  BY DEF ToSet, Goes, GzTool, BzTool
<1>4. ASSUME NEW pair \in Pairs \ refused', Done(pair) \/ Now(pair)
      PROVE  Done(pair)' \/ Now(pair)'
  <2>1. CASE Now(pair) \/ pair = q
    BY <1>1, <1>2, <1>3, <2>1 DEF Now
  <2>2. CASE Done(pair) /\ pair # q
    BY <1>2, <1>3, <2>2, WritingDone
  <2> QED BY <1>4, <2>1, <2>2
<1> QED BY <1>1, <1>4, ArgumentStays DEF Busy, OneByOne

(* A step that ends with the target.                                       *)
LEMMA GzEndsDone ==
  ASSUME DoneInv, FilesInv', Goes, command.tool \in GzTool \cup BzTool,
         pc \in {"create", "copy", "close", "remove"}, NextUnit, UNCHANGED <<refused, status>>,
         \A pair \in Pairs : Done(pair) \/ pair = This => Done(pair)'
  PROVE  ByArgument'
<1> USE DEF DoneInv
<1>1. Busy /\ This \in ToSet(Unit) /\ units # <<>> /\ command.tool # "mv" /\ OneByOne
  <2>1. FilesInv /\ Busy
    BY GzHere
  <2> QED BY <2>1, ThisIsOfUnit DEF FilesInv, Busy, OneByOne, GzTool, BzTool
<1>2. \A pair : Now(pair) => pair = This
  BY <1>1, GzUnit DEF Now, Busy
<1> QED BY <1>1, <1>2, ArgumentEnds

LEMMA GzCreateDone ==
  ASSUME DoneInv, FilesInv', Goes, NEW tool \in GzTool \cup BzTool, GzCreate(tool)
  PROVE  ByArgument'
<1>1. pc = "create" /\ command.tool = tool /\ OneByOne /\ NothingAsked
  BY DEF GzCreate, At, OneByOne
<1>2. This.dst \in Path /\ units # <<>>
  BY <1>1, GzHere DEF DoneInv, Busy
<1>3. CASE Write(This.dst, Broken("raw", <<>>)) /\ Goto("copy") /\ Fine
  <2>1. \A p \in Path : p # This.dst => disk'[p] = disk[p]
    BY <1>3 DEF Write, DoneInv, FilesInv, FileTypes
  <2> QED BY <1>1, <1>3, <2>1, GzStaysDone DEF Goto, Fine, NothingAsked
<1>4. CASE NextUnit /\ Told
  BY <1>1, <1>2, <1>4, ToldEnds DEF DoneInv
<1> QED BY <1>3, <1>4 DEF GzCreate, WriteNow

LEMMA GzCopyDone ==
  ASSUME DoneInv, FilesInv', Goes, NEW tool \in GzTool \cup BzTool, GzCopy(tool)
  PROVE  ByArgument'
<1>1. pc = "copy" /\ command.tool = tool /\ OneByOne /\ NothingAsked
  BY DEF GzCopy, At, OneByOne
<1>2. This.dst \in Path /\ units # <<>>
  BY <1>1, GzHere DEF DoneInv, Busy
<1>3. CASE (\E f : Write(This.dst, f)) /\ Goto("close") /\ Fine
  <2>1. \A p \in Path : p # This.dst => disk'[p] = disk[p]
    BY <1>3 DEF Write, DoneInv, FilesInv, FileTypes
  <2> QED BY <1>1, <1>3, <2>1, GzStaysDone DEF Goto, Fine, NothingAsked
<1>4. CASE NextUnit /\ Told
  BY <1>1, <1>2, <1>4, ToldEnds DEF DoneInv
<1> QED BY <1>3, <1>4 DEF GzCopy, WriteNow

(* Without a removal the target is whole, or its end is known to be lost.  *)
LEMMA GzCloseDone ==
  ASSUME DoneInv, FilesInv', Goes, NEW tool \in GzTool \cup BzTool, GzClose(tool)
  PROVE  ByArgument'
<1>1. pc = "close" /\ command.tool = tool /\ OneByOne /\ NothingAsked /\ DropBuffer(This.dst)
      /\ command.tool # "zip"
  BY DEF GzClose, At, OneByOne, GzTool, BzTool
<1>2. /\ Busy /\ units # <<>> /\ This \in Pairs /\ This.dst \in Path /\ MayWrite(This.dst)
      /\ Carried(This)
  BY <1>1, GzHere DEF DoneInv, FilesInv, Places, GzPlaces, Busy
<1>3. /\ \A p \in Path : p # This.dst => disk'[p] = disk[p]
      /\ \A q \in Pairs : q = This =>
           \A t \in Tokens(start[q.src]) : t \in Tokens(disk'[q.dst]) \/ KnownLoss(q, t)'
  BY <1>1, <1>2, DroppedBuffer DEF DoneInv
<1>4. CASE command.keep /\ NextUnit /\ Fine
  <2>1. ~Moves
    BY <1>1, <1>4 DEF Moves, GzTool, BzTool
  <2>2. PICK q \in Pairs : q = This
    BY <1>2
  <2>3. Arrived(q)'
    BY <1>3, <2>2 DEF Arrived, Goes, Tokens
  <2>4. Done(q)'
    BY <2>1, <2>3, GoesOn DEF Done, DoneInv, FilesInv
  <2>5. \A pair \in Pairs : pair # q /\ Done(pair) => Done(pair)'
    BY <1>1, <1>3, <2>2, WritingDone DEF DoneInv
  <2> QED BY <1>1, <1>4, <2>2, <2>4, <2>5, GzEndsDone DEF Fine, NothingAsked
<1>5. CASE Goto("remove") /\ Fine
  BY <1>1, <1>3, <1>5, GzStaysDone DEF Goto, Fine, NothingAsked
<1>6. CASE NextUnit /\ Told
  BY <1>1, <1>2, <1>6, ToldEnds DEF DoneInv
<1> QED BY <1>4, <1>5, <1>6 DEF GzClose

LEMMA GzRemoveDone ==
  ASSUME DoneInv, FilesInv', Goes, NEW tool \in GzTool \cup BzTool, GzRemove(tool)
  PROVE  ByArgument'
<1>1. pc = "remove" /\ command.tool = tool /\ OneByOne /\ NothingAsked /\ NextUnit
  BY DEF GzRemove, At, OneByOne
<1>2. Busy /\ units # <<>> /\ This \in Pairs /\ This.src \in Path /\ Moves
  BY <1>1, GzHere DEF DoneInv, FilesInv, Places, GzPlaces, Busy, Moves
<1>3. CASE Write(This.src, NoFile) /\ Fine
  <2>1. \A pair \in Pairs : Done(pair) \/ pair = This => Done(pair)'
    BY <1>2, <1>3, RemovingDone DEF DoneInv
  <2> QED BY <1>1, <1>3, <2>1, GzEndsDone DEF Fine, NothingAsked
<1>4. CASE Told
  BY <1>1, <1>2, <1>4, ToldEnds DEF DoneInv
<1> QED BY <1>3, <1>4 DEF GzRemove, WriteNow

LEMMA GzDone ==
  ASSUME DoneInv, FilesInv', Goes, GzStep \/ BzStep
  PROVE  ByArgument'
<1>1. PICK tool \in GzTool \cup BzTool : Compressor(tool)
  BY DEF GzStep, BzStep
<1> QED BY <1>1, GzNextDone, GzCreateDone, GzCopyDone, GzCloseDone, GzRemoveDone DEF Compressor

-----------------------------------------------------------------------------
(* A step to the next file of the argument.                                *)
LEMMA NextFileDone ==
  ASSUME DoneInv, FilesInv', OneByOne, Goes, Busy, \A pair : Now(pair) => pair \in ToSet(left),
         NEW at \in {"open", "remove"}, NextFile(at), Fine, refused \subseteq refused',
         \A pair \in Pairs \ refused' : Done(pair) \/ pair = This => Done(pair)'
  PROVE  ByArgument'
<1>1. /\ FilesInv /\ ByArgument /\ units # <<>> /\ ToSet(left) = {This} \cup ToSet(Tail(left))
      /\ (Len(left) = 1 <=> Tail(left) = <<>>)
  BY ThisIsOfUnit DEF DoneInv, FilesInv, Busy
<1>2. CASE Len(left) = 1
  <2>1. ToSet(left) = {This}
    BY <1>1, <1>2 DEF ToSet
  <2>2. NextUnit
    BY <1>2 DEF NextFile
  <2> QED BY <1>1, <2>1, <2>2, ArgumentEnds DEF Fine
<1>3. CASE Len(left) # 1
  <2>1. pc' = at /\ left' = Tail(left) /\ UNCHANGED units
    BY <1>3 DEF NextFile
  <2>2. ToSet(left)' = ToSet(Tail(left))
    BY <2>1 DEF ToSet
  <2>3. \A pair : pair \in ToSet(Tail(left)) => Now(pair)'
    BY <2>1, <2>2 DEF Now
  <2>4. \A pair : Now(pair) => pair = This \/ Now(pair)'
    BY <1>1, <2>3
  <2> HIDE DEF Now, Done
  <2>5. Tail(units') = Tail(units) /\ units' # <<>> /\ pc' # "exit"
    BY <1>1, <2>1
  <2>6. status' => status /\ \A pair \in Pairs \ refused' :
                              Done(pair) \/ Now(pair) => Done(pair)' \/ Now(pair)'
    BY <2>4 DEF Fine
  <2> QED BY <1>1, <2>5, <2>6, ArgumentStays
<1> QED BY <1>2, <1>3

(* A walk begins: of the argument, what is not there is done.              *)
LEMMA TailOfJoined ==
  ASSUME NEW S, NEW s \in Seq(S), NEW x \in S
  PROVE  Tail(<<x>> \o s) = s
<1>1. <<x>> \o s \in Seq(S) /\ Len(<<x>> \o s) = 1 + Len(s) /\ Len(s) \in Nat
  OBVIOUS
<1>2. Tail(<<x>> \o s) \in Seq(S) /\ Len(Tail(<<x>> \o s)) = Len(s)
  BY <1>1
<1>3. \A i \in 1 .. Len(s) : Tail(<<x>> \o s)[i] = s[i]
  BY <1>1
<1> QED BY <1>1, <1>2, <1>3, SeqEqual

LEMMA BeginDone ==
  ASSUME DoneInv, FilesInv', OneByOne, Goes, pc = "next", units # <<>>, Found # <<>>,
         NEW at, at = IF command.tool = "mv" THEN "create" ELSE "open", Begin(at),
         Fine, UNCHANGED <<disk, refused>>
  PROVE  ByArgument'
<1>1. FilesInv /\ ByArgument /\ SourcesStay
  BY DEF DoneInv
<1>2. /\ Unit \in Seq(Pairs) /\ Tail(units) \in Seq(Argument)
      /\ Found \in Seq(Pairs) /\ ToSet(Found) = {pair \in ToSet(Unit) : Exists(pair.src)}
  <2>1. Unit \in Seq(Pairs) /\ Tail(units) \in Seq(Argument)
    BY <1>1, UnitShape DEF FilesInv
  <2> QED BY <2>1, FoundIsThere
<1>3. units' = <<Found>> \o Tail(units) /\ left' = Found /\ pc' = at
  BY DEF Begin
<1>4. Tail(units') = Tail(units)
  <2>1. Found \in Argument
    BY <1>2 DEF Argument
  <2> QED BY <1>2, <1>3, <2>1, TailOfJoined
<1>5. Unit' = Found /\ units' # <<>>
  BY <1>1, <1>2, BeginGoes DEF FilesInv, Busy
<1>6. ToSet(Unit)' = ToSet(Found) /\ ToSet(left)' = ToSet(Found) /\ command' = command
  BY <1>3, <1>5 DEF ToSet, Goes
<1>7. \A pair : pair \in ToSet(Found) => Now(pair)'
  BY <1>3, <1>6 DEF Now
<1>8. \A pair : Now(pair) => pair \in ToSet(Unit)
  BY DEF Now
<1>9. ASSUME NEW pair \in Pairs \ refused', Done(pair) \/ Now(pair)
      PROVE  Done(pair)' \/ Now(pair)'
  <2>1. CASE Done(pair) \/ ~Exists(pair.src)
    BY <1>1, <2>1, GoneIsDone, IdleDone
  <2>2. CASE Now(pair) /\ Exists(pair.src)
    BY <1>2, <1>7, <1>8, <2>2
  <2> QED BY <1>9, <2>1, <2>2
<1>10. status' => status
  BY DEF Fine
<1> QED BY <1>1, <1>3, <1>4, <1>5, <1>9, <1>10, ArgumentStays

-----------------------------------------------------------------------------
(* mv.                                                                     *)
LEMMA MvEarlyDone ==
  ASSUME DoneInv, FilesInv', Goes, MvAbsent \/ MvRefused \/ MvAcross
  PROVE  ByArgument'
<1>1. /\ FilesInv /\ ByArgument /\ OneByOne /\ pc = "next" /\ units # <<>> /\ UNCHANGED disk
      /\ command.tool = "mv"
  BY DEF DoneInv, OneByOne, MvAbsent, MvRefused, MvAcross, MvGoesOn, AtUnit, At, Unwritten
<1>2. CASE MvAbsent
  BY <1>1, <1>2, ToldEnds DEF MvAbsent
<1>3. CASE MvRefused
  <2>1. NextUnit /\ status' = status /\ refused' = refused \cup ToSet(Unit)
    BY <1>3 DEF MvRefused, Fine, Refuse
  <2>2. ASSUME NEW pair \in Pairs \ refused', Done(pair) \/ Now(pair) PROVE Done(pair)'
    <3>1. Done(pair)
      BY <1>1, <2>1, <2>2 DEF Now
    <3> QED BY <1>1, <3>1, IdleDone
  <2> QED BY <1>1, <2>1, <2>2, ArgumentEnds
<1>4. CASE MvAcross
  BY <1>1, <1>4, BeginDone DEF MvAcross, MvGoesOn
<1> QED BY <1>2, <1>3, <1>4

LEMMA MvRenameDone ==
  ASSUME DoneInv, FilesInv', Goes, MvRename
  PROVE  ByArgument'
<1>1. /\ FilesInv /\ ByArgument /\ OneByOne /\ pc = "next" /\ units # <<>> /\ NextUnit
      /\ command.tool = "mv" /\ Moves /\ refused' = refused
  BY DEF DoneInv, OneByOne, Moves, MvRename, MvGoesOn, AtUnit, At
<1>2. CASE Told
  BY <1>1, <1>2, ToldEnds
<1>3. CASE disk' = AsRenamed /\ Fine
  <2>1. ASSUME NEW pair \in Pairs \ refused', Done(pair) \/ Now(pair) PROVE Done(pair)'
    <3>1. pair.src \in Path
      BY <1>1, CommandShape DEF FilesInv, FileTypes
    <3>2. Now(pair) => pair.src \in Sources
      BY <1>1, UnitEnds DEF Now
    <3>3. pair.src \notin AllTargets => pair.src \notin Targets
      BY <1>1, UnitEnds
    <3>4. pair.src \notin AllTargets => disk'[pair.src] \in {NoFile, disk[pair.src]}
            /\ (pair.src \in Sources => disk'[pair.src] = NoFile)
      BY <1>1, <1>3, <3>1, <3>3, RenamedPath
    <3>5. pair.src \notin AllTargets => disk'[pair.src].form = "none"
      BY <1>1, <2>1, <3>2, <3>4 DEF Done, Exists, NoFile
    <3> QED BY <1>1, <3>5, GoesOn DEF Done, Exists, FilesInv
  <2> QED BY <1>1, <1>3, <2>1, ArgumentEnds DEF Fine
<1> QED BY <1>2, <1>3 DEF MvRename

(* A step of the copying that stays with the argument.                     *)
LEMMA MvStaysDone ==
  ASSUME DoneInv, FilesInv', Goes, command.tool = "mv", pc \in {"create", "copy"},
         UNCHANGED units, Fine, NothingAsked,
         pc' \in {"create", "copy"} \/ (pc' = "remove" /\ left' = Unit),
         \A p \in Path : p # This.dst => disk'[p] = disk[p]
  PROVE  ByArgument'
<1>1. /\ FilesInv /\ ByArgument /\ OneByOne /\ Moves /\ refused' = refused /\ status' = status
  BY DEF DoneInv, OneByOne, Moves, NothingAsked, Fine
<1>2. Busy /\ This \in Pairs
  BY <1>1, MvHere
<1>3. PICK q \in Pairs : q = This
  BY <1>2
<1>4. /\ Unit' = Unit /\ ToSet(Unit)' = ToSet(Unit) /\ command' = command
      /\ (left' = Unit => ToSet(left)' = ToSet(Unit))
  BY DEF ToSet, Goes, Unit
<1>5. \A pair : Now(pair) => Now(pair)'
  BY <1>4 DEF Now
<1>6. ASSUME NEW pair \in Pairs, Done(pair) PROVE Done(pair)'
  BY <1>1, <1>3, <1>6, WritingDone
<1>7. units' # <<>> /\ Tail(units') = Tail(units) /\ pc' # "exit"
  BY <1>2 DEF Busy
<1> QED BY <1>1, <1>5, <1>6, <1>7, ArgumentStays

LEMMA MvCopyingDone ==
  ASSUME DoneInv, FilesInv', Goes, MvCreate \/ MvCopy
  PROVE  ByArgument'
<1>1. /\ FilesInv /\ ByArgument /\ OneByOne /\ command.tool = "mv" /\ pc \in {"create", "copy"}
      /\ NothingAsked
  BY DEF DoneInv, OneByOne, MvCreate, MvCopy, AnyMvCopy, At
<1>2. Busy /\ This.dst \in Path
  BY <1>1, MvHere
<1>3. CASE NextUnit /\ Told
  BY <1>1, <1>2, <1>3, ToldEnds DEF Busy
<1>4. CASE ~(NextUnit /\ Told)
  <2>1. /\ UNCHANGED units /\ Fine
        /\ pc' \in {"create", "copy"} \/ (pc' = "remove" /\ left' = Unit)
    BY <1>4 DEF MvCreate, MvCopy, AnyMvCopy, Goto
  <2>2. \E f : Write(This.dst, f)
    BY <1>4 DEF MvCreate, MvCopy, AnyMvCopy, WriteNow
  <2>3. \A p \in Path : p # This.dst => disk'[p] = disk[p]
    BY <1>1, <2>2 DEF Write, FilesInv, FileTypes
  <2> QED BY <1>1, <2>1, <2>3, MvStaysDone
<1> QED BY <1>3, <1>4

LEMMA MvRemoveDone ==
  ASSUME DoneInv, FilesInv', Goes, MvRemove
  PROVE  ByArgument'
<1>1. /\ FilesInv /\ ByArgument /\ OneByOne /\ command.tool = "mv" /\ pc = "remove" /\ Moves
      /\ refused' = refused
  BY DEF DoneInv, OneByOne, MvRemove, At, Moves, NothingAsked
<1>2. Busy /\ This.src \in Path
  BY <1>1, MvHere
<1>3. CASE NextUnit /\ Told
  BY <1>1, <1>2, <1>3, ToldEnds DEF Busy
<1>4. CASE Write(This.src, NoFile) /\ NextFile("remove") /\ Fine
  <2>1. PICK p \in Path : p = This.src
    BY <1>2
  <2>2. \A pair \in Pairs : Done(pair) \/ pair = This => Done(pair)'
    BY <1>1, <1>4, <2>1, RemovingDone
  <2>3. \A pair : Now(pair) => pair \in ToSet(left)
    BY <1>1 DEF Now
  <2> QED BY <1>1, <1>2, <1>4, <2>2, <2>3, NextFileDone
<1> QED BY <1>3, <1>4 DEF MvRemove, WriteNow

LEMMA MvDone ==
  ASSUME DoneInv, FilesInv', Goes, MvStep
  PROVE  ByArgument'
BY MvEarlyDone, MvRenameDone, MvCopyingDone, MvRemoveDone DEF MvStep

-----------------------------------------------------------------------------
(* cp.                                                                     *)
LEMMA CpAtFile ==
  ASSUME DoneInv, command.tool = "cp", pc \in {"open", "copy"}
  PROVE  /\ FilesInv /\ ByArgument /\ OneByOne /\ Busy /\ units # <<>> /\ ~Moves
         /\ This \in Pairs /\ This.dst \in Path
         /\ \A pair : Now(pair) <=> pair \in ToSet(left)
<1>1. FilesInv /\ ByArgument /\ OneByOne /\ ~Moves
  BY DEF DoneInv, OneByOne, Moves, GzTool, BzTool
<1>2. Busy /\ units # <<>> /\ This \in Pairs /\ This.dst \in Path
  BY <1>1, CpHere DEF Busy
<1> QED BY <1>1, <1>2 DEF Now

(* What is copied, and is not onto itself, arrives.                        *)
LEMMA CopiedArrives ==
  ASSUME FilesInv, command.tool = "cp", Goes, NEW q \in Pairs, NEW f, Write(q.dst, f),
         f \in {disk[q.src], [disk[q.src] EXCEPT !.whole = TRUE]},
         q.src # q.dst \/ command.big
  PROVE  Arrived(q)'
<1>1. command' = command /\ start' = start
  BY DEF Goes
<1>2. CASE q.src = q.dst
  BY <1>1, <1>2 DEF Arrived, KnownLoss, OntoItself
<1>3. CASE q.src # q.dst
  <2>1. q.src \in AllSources \ AllTargets /\ q.src \in Path /\ q.dst \in Path
    BY <1>3, NotBoth DEF FilesInv
  <2>2. Intact(q.src)
    BY <2>1, StandingIsIntact DEF FilesInv, Moves, GzTool, BzTool
  <2>3. disk'[q.dst] = f /\ disk[q.src] = start[q.src] /\ disk[q.src] \in Content
    BY <2>1, <2>2, Contents DEF Write, FilesInv, FileTypes, Intact
  <2>4. Tokens(start[q.src]) \subseteq Tokens(disk'[q.dst])
    BY <2>3 DEF Tokens, Content
  <2> QED BY <1>1, <2>4 DEF Arrived, Tokens
<1> QED BY <1>2, <1>3

LEMMA CpCopiedDone ==
  ASSUME DoneInv, FilesInv', command.tool = "cp", Goes, pc \in {"open", "copy"}, NEW f,
         Write(This.dst, f), f \in {disk[This.src], [disk[This.src] EXCEPT !.whole = TRUE]},
         This.src # This.dst \/ command.big, NextFile("open"), Fine, UNCHANGED refused
  PROVE  ByArgument'
<1>1. /\ FilesInv /\ ByArgument /\ OneByOne /\ Busy /\ This \in Pairs /\ This.dst \in Path /\ ~Moves
      /\ \A pair : Now(pair) <=> pair \in ToSet(left)
  BY CpAtFile
<1>2. PICK q \in Pairs : q = This
  BY <1>1
<1>3. Done(q)'
  BY <1>1, <1>2, CopiedArrives, GoesOn DEF Done, FilesInv
<1>4. \A p \in Path : p # q.dst => disk'[p] = disk[p]
  BY <1>2, <1>1 DEF Write, FilesInv, FileTypes
<1>5. \A pair \in Pairs : pair # q /\ Done(pair) => Done(pair)'
  BY <1>1, <1>4, WritingDone
<1>6. \A pair \in Pairs : Done(pair) \/ pair = This => Done(pair)'
  BY <1>2, <1>3, <1>5
<1> QED BY <1>1, <1>6, NextFileDone

LEMMA CpEarlyDone ==
  ASSUME DoneInv, FilesInv', Goes, CpNext \/ CpRefused
  PROVE  ByArgument'
<1>1. CASE CpNext
  <2>1. /\ FilesInv /\ ByArgument /\ OneByOne /\ pc = "next" /\ units # <<>> /\ UNCHANGED disk
        /\ command.tool = "cp" /\ refused' = refused
    BY <1>1 DEF DoneInv, OneByOne, CpNext, AtUnit, At, Unwritten, NothingAsked
  <2>2. CASE Found # <<>> /\ Begin("open") /\ Fine
    BY <2>1, <2>2, BeginDone
  <2>3. CASE NextUnit /\ Told
    BY <2>1, <2>3, ToldEnds
  <2> QED BY <1>1, <2>2, <2>3 DEF CpNext
<1>2. CASE CpRefused
  <2>1. /\ command.tool = "cp" /\ pc = "open" /\ NextFile("open") /\ Fine /\ UNCHANGED disk
        /\ refused' = refused \cup {This}
    BY <1>2 DEF CpRefused, At, Refuse, Unwritten
  <2>2. /\ FilesInv /\ ByArgument /\ OneByOne /\ Busy /\ \A pair : Now(pair) => pair \in ToSet(left)
    BY <2>1, CpAtFile
  <2>3. \A pair \in Pairs \ refused' : Done(pair) \/ pair = This => Done(pair)'
    BY <2>1, <2>2, IdleDone
  <2> QED BY <2>1, <2>2, <2>3, NextFileDone
<1> QED BY <1>1, <1>2

LEMMA CpCreateDone ==
  ASSUME DoneInv, FilesInv', Goes, CpCreate
  PROVE  ByArgument'
<1>1. command.tool = "cp" /\ pc = "open" /\ refused' = refused
  BY DEF CpCreate, CpGoesOn, At
<1>2. /\ FilesInv /\ ByArgument /\ OneByOne /\ units # <<>> /\ This \in Pairs
      /\ \A pair : Now(pair) => pair \in ToSet(left)
  BY <1>1, CpAtFile
<1>3. CASE Write(This.dst, Broken("raw", <<>>)) /\ Goto("copy") /\ Fine
  <2>1. PICK q \in Pairs : q = This
    BY <1>2
  <2>2. \A p \in Path : p # q.dst => disk'[p] = disk[p]
    BY <1>2, <1>3, <2>1 DEF Write, FilesInv, FileTypes
  <2>3. command' = command /\ ToSet(left)' = ToSet(left) /\ pc' = "copy" /\ units' = units
    BY <1>3 DEF Goes, Goto, ToSet
  <2>4. \A pair : pair \in ToSet(left) => Now(pair)'
    BY <1>1, <2>3 DEF Now
  <2>5. q \in ToSet(left)
    BY <1>1, <1>2, <2>1, CpHere, ThisIsOfUnit DEF FilesInv
  <2>6. ASSUME NEW pair \in Pairs, Done(pair) \/ Now(pair) PROVE Done(pair)' \/ Now(pair)'
    <3>1. CASE Now(pair) \/ pair = q
      BY <1>2, <2>4, <2>5, <3>1
    <3>2. CASE Done(pair) /\ pair # q
      BY <1>1, <1>2, <2>2, <3>2, WritingDone
    <3> QED BY <2>6, <3>1, <3>2
  <2> QED BY <1>1, <1>2, <1>3, <2>3, <2>6, ArgumentStays DEF Fine
<1>4. CASE NextUnit /\ Told
  BY <1>2, <1>4, ToldEnds
<1> QED BY <1>3, <1>4 DEF CpCreate, WriteNow

LEMMA CpCopyingDone ==
  ASSUME DoneInv, FilesInv', Goes, CpSmall \/ CpCopy
  PROVE  ByArgument'
<1>1. command.tool = "cp" /\ pc \in {"open", "copy"} /\ refused' = refused
  BY DEF CpSmall, CpGoesOn, CpCopy, AnyCpCopy, At, NothingAsked
<1>2. FilesInv /\ ByArgument /\ OneByOne /\ units # <<>>
  BY <1>1, CpAtFile
<1>3. CASE NextUnit /\ Told
  BY <1>2, <1>3, ToldEnds
<1>4. CASE CpSmall /\ ~(NextUnit /\ Told)
  BY <1>1, <1>4, CpCopiedDone DEF CpSmall, WriteNow
<1>5. CASE CpCopy /\ ~(NextUnit /\ Told)
  <2>1. pc = "copy" /\ Write(This.dst, [disk[This.src] EXCEPT !.whole = TRUE])
        /\ NextFile("open") /\ Fine
    BY <1>5 DEF CpCopy, AnyCpCopy, WriteNow, At
  <2>2. command.big
    BY <1>1, <1>2, <2>1 DEF FilesInv, Places, CpPlaces
  <2> QED BY <1>1, <2>1, <2>2, CpCopiedDone
<1> QED BY <1>3, <1>4, <1>5

LEMMA CpDone ==
  ASSUME DoneInv, FilesInv', Goes, CpStep
  PROVE  ByArgument'
BY CpEarlyDone, CpCreateDone, CpCopyingDone DEF CpStep

-----------------------------------------------------------------------------
(* zip.                                                                    *)
LEMMA OneUnit ==
  ASSUME FilesInv, command.tool \in {"zip", "unzip"}, command.units # <<>>
  PROVE  Pairs = ToSet(command.units[1]) /\ Head(command.units) = command.units[1]
<1>1. command \in Command /\ command.units \in Seq(Argument)
  BY CommandShape DEF FilesInv, FileTypes
<1>2. Len(command.units) <= 1
  BY <1>1, UnitsAssumption
<1>3. Len(command.units) \in Nat \ {0} /\ Head(command.units) = command.units[1]
  BY <1>1, HeadAndTail
<1>4. Len(command.units) = 1
  <2>1. \A n \in Nat \ {0} : n <= 1 => n = 1
    OBVIOUS
  <2> QED BY <1>2, <1>3, <2>1, Zenon
<1>5. DOMAIN command.units = {1}
  BY <1>1, <1>4
<1> QED BY <1>3, <1>5 DEF Pairs, PairsOf, ToSet

LEMMA NoUnit ==
  ASSUME FilesInv, command.units = <<>>
  PROVE  Pairs = {}
BY DEF Pairs, PairsOf, ToSet

LEMMA ZipCollectDone ==
  ASSUME DoneInv, FilesInv', Goes, ZipCollect
  PROVE  InArchive'
<1>1. /\ FilesInv /\ command.tool = "zip" /\ pc = "next" /\ units # <<>> /\ units = command.units
      /\ refused' = refused \cup {pair \in ToSet(Unit) : ~Exists(pair.src)}
  BY DEF DoneInv, InArchive, ZipCollect, AtUnit, At, Refuse
<1>2. CASE Quit /\ Told
  BY <1>2 DEF Quit, Told, InArchive
<1>3. CASE Found # <<>> /\ Begin("create")
  <2>1. Pairs = ToSet(Unit)
    BY <1>1, OneUnit DEF Unit
  <2>2. Unit \in Seq(Pairs)
    BY <1>1, UnitShape DEF FilesInv
  <2>3. ToSet(Found) = {pair \in ToSet(Unit) : Exists(pair.src)}
    BY <2>2, FoundIsThere
  <2>4. Unit' = Found /\ pc' = "create"
    BY <1>1, <1>3, BeginGoes DEF FilesInv
  <2>5. Pairs' = Pairs
    BY <1>1, GoesOn DEF FilesInv
  <2>6. ToSet(Unit)' = ToSet(Found)
    BY <2>4 DEF ToSet
  <2> QED BY <1>1, <2>1, <2>3, <2>4, <2>5, <2>6 DEF InArchive
<1> QED BY <1>2, <1>3 DEF ZipCollect

(* A step that stays with the archive.                                     *)
LEMMA ZipStaysDone ==
  ASSUME DoneInv, Goes, command.tool = "zip", pc \in {"create", "copy", "close", "remove"},
         pc' \in {"create", "copy", "close", "remove"}, UNCHANGED <<units, refused>>
  PROVE  InArchive'
<1>1. Pairs \ refused \subseteq ToSet(Unit) /\ command' = command /\ Pairs' = Pairs
  BY GoesOn DEF DoneInv, InArchive, Goes, FilesInv
<1>2. ToSet(Unit)' = ToSet(Unit)
  BY DEF Unit, ToSet
<1> QED BY <1>1, <1>2 DEF InArchive

(* A step that comes to the end.                                           *)
LEMMA ZipEndsDone ==
  ASSUME DoneInv, Goes, command.tool = "zip", pc \in {"close", "remove"}, Quit, UNCHANGED refused,
         \A pair \in ToSet(Unit) : Arrived(pair)'
  PROVE  InArchive'
<1>1. Pairs \ refused \subseteq ToSet(Unit) /\ Pairs' = Pairs /\ pc' = "exit"
  BY GoesOn DEF DoneInv, InArchive, FilesInv, Quit
<1> QED BY <1>1 DEF InArchive

LEMMA ZipWritingDone ==
  ASSUME DoneInv, Goes, ZipCreate \/ ZipAdd
  PROVE  InArchive'
<1>1. command.tool = "zip" /\ pc \in {"create", "copy"} /\ refused' = refused
  BY DEF ZipCreate, ZipAdd, At, NothingAsked
<1>2. CASE Quit /\ Told
  BY <1>2 DEF Quit, Told, InArchive
<1>3. CASE ~(Quit /\ Told)
  <2>1. pc' \in {"copy", "close"} /\ units' = units
    BY <1>1, <1>3 DEF ZipCreate, ZipAdd, Goto, At
  <2> QED BY <1>1, <2>1, ZipStaysDone
<1> QED BY <1>2, <1>3

LEMMA ZipCloseDone ==
  ASSUME DoneInv, Goes, ZipClose
  PROVE  InArchive'
<1>1. FilesInv /\ command.tool = "zip" /\ pc = "close" /\ refused' = refused
  BY DEF DoneInv, ZipClose, At, NothingAsked
<1>2. CASE Quit /\ Told
  BY <1>2 DEF Quit, Told, InArchive
<1>3. CASE pc' = "remove" /\ UNCHANGED units
  BY <1>1, <1>3, ZipStaysDone
<1>4. CASE DropBuffer(This.dst) /\ command.keep /\ Quit
  <2>1. /\ This.dst \in Path /\ MayWrite(This.dst)
        /\ \A pair \in ToSet(Unit) : pair.dst = This.dst /\ pair \in Pairs
    BY <1>1, ZipHere
  <2>2. \A pair \in ToSet(Unit) : Carried(pair)
    BY <1>1, <1>4 DEF FilesInv, Places, ZipPlaces, Fresh, Rewritten
  <2>3. PICK d \in Path : d = This.dst
    BY <2>1
  <2>4. \A pair \in Pairs : pair.dst = d /\ Carried(pair) =>
          \A t \in Tokens(start[pair.src]) : t \in Tokens(disk'[d]) \/ KnownLoss(pair, t)'
    BY <1>1, <1>4, <2>1, <2>3, DroppedBuffer
  <2>5. \A pair \in ToSet(Unit) : Arrived(pair)'
    BY <2>1, <2>2, <2>3, <2>4 DEF Arrived, Tokens, Goes
  <2> QED BY <1>1, <1>4, <2>5, ZipEndsDone
<1> QED BY <1>2, <1>3, <1>4 DEF ZipClose

LEMMA ZipRemoveDone ==
  ASSUME DoneInv, Goes, ZipRemove
  PROVE  InArchive'
<1>1. FilesInv /\ command.tool = "zip" /\ pc = "remove" /\ refused' = refused
  BY DEF DoneInv, ZipRemove, At, NothingAsked
<1>2. CASE pc' = "remove" /\ UNCHANGED units
  BY <1>1, <1>2, ZipStaysDone
<1>3. CASE Quit
  <2>1. /\ This \in Pairs /\ ToSet(Unit) \subseteq Pairs
        /\ \A s \in AllSources : s \notin AllTargets
    BY <1>1, ZipHere
  <2>2. This.src \in AllSources
    BY <1>1, <2>1, CommandShape DEF FilesInv, FileTypes
  <2>3. ASSUME NEW pair \in ToSet(Unit) PROVE Arrived(pair)'
    <3>1. Arrived(pair)
      BY <1>1, <2>1 DEF FilesInv, Places, ZipPlaces, Fresh, Arrived, KnownLoss
    <3>2. pair.dst \in Path /\ pair.dst # This.src
      BY <1>1, <2>1, <2>2, CommandShape DEF FilesInv, FileTypes
    <3>3. Write(This.src, NoFile) \/ UNCHANGED disk
      BY DEF ZipRemove, WriteNow, Unwritten
    <3>4. disk'[pair.dst] = disk[pair.dst]
      BY <1>1, <3>2, <3>3 DEF Write, FilesInv, FileTypes
    <3> QED BY <1>1, <3>1, <3>4, GoesOn DEF Arrived, Tokens, FilesInv
  <2> QED BY <1>1, <1>3, <2>3, ZipEndsDone
<1> QED BY <1>1, <1>2, <1>3 DEF ZipRemove

-----------------------------------------------------------------------------
(* unzip.                                                                  *)
LEMMA UnzAtMember ==
  ASSUME DoneInv, command.tool = "unzip", pc \in {"open", "copy", "close"}
  PROVE  /\ FilesInv /\ Busy /\ Unit \in Seq(Pairs) /\ left \in Seq(Pairs)
         /\ Len(left) \in Nat \ {0} /\ Len(Unit) \in Nat
         /\ Member \in 1 .. Len(Unit) /\ This = Unit[Member] /\ Unit = command.units[1]
<1>1. FilesInv /\ Busy /\ Unit = command.units[1]
  BY UnzipHere DEF DoneInv
<1>2. Unit \in Seq(Pairs) /\ left \in Seq(Pairs) /\ left # <<>>
  BY <1>1, UnitShape DEF FilesInv, FileTypes, Busy
<1>3. Len(left) \in Nat \ {0} /\ Len(Unit) \in Nat /\ DOMAIN left = 1 .. Len(left) /\ This = left[1]
  BY <1>2, HeadAndTail DEF This
<1>4. Len(left) <= Len(Unit)
  BY <1>1 DEF FilesInv, Places, UnzipPlaces
<1>5. Member \in 1 .. Len(Unit)
  BY <1>3, <1>4 DEF Member
<1>6. This = Unit[Member]
  <2>1. 1 \in DOMAIN left
    BY <1>3
  <2>2. left[1] = Unit[Len(Unit) - Len(left) + 1]
    BY <2>1 DEF DoneInv, OutOfArchive
  <2> QED BY <1>3, <2>2 DEF Member
<1> QED BY <1>1, <1>2, <1>3, <1>5, <1>6

(* Writing a member leaves those before it, or has overtaken them.         *)
LEMMA MembersBefore ==
  ASSUME DoneInv, command.tool = "unzip", pc \in {"open", "copy", "close"}, Goes, Unit' = Unit,
         \A p \in Path : p # This.dst => disk'[p] = disk[p],
         NEW i \in 1 .. Member - 1, Extracted(i)
  PROVE  Extracted(i)'
<1>1. /\ FilesInv /\ Unit \in Seq(Pairs) /\ Len(Unit) \in Nat
      /\ Member \in 1 .. Len(Unit) /\ This = Unit[Member] /\ Unit = command.units[1]
  BY UnzAtMember
<1>2. i \in DOMAIN Unit /\ Member \in DOMAIN Unit /\ i # Member /\ DOMAIN Unit = 1 .. Len(Unit)
  BY <1>1
<1>3. Unit[i] \in Pairs /\ Unit[Member] \in Pairs
  BY <1>1, <1>2
<1>4. Unit[i].dst \in Path
  BY <1>1, <1>3, CommandShape DEF FilesInv, FileTypes
<1>5. CASE Unit[i].dst # This.dst
  <2>1. disk'[Unit[i].dst] = disk[Unit[i].dst]
    BY <1>4, <1>5
  <2>2. Unit'[i] = Unit[i] /\ start' = start
    BY DEF Goes
  <2>3. \A t : KnownLoss(Unit[i], t) => KnownLoss(Unit[i], t)'
    BY <1>1, GoesOn DEF FilesInv
  <2> QED BY <2>1, <2>2, <2>3 DEF Extracted, Tokens
<1>6. CASE Unit[i].dst = This.dst
  <2>1. Overtaken(Unit[i])
    <3>1. CASE Unit[i] # This
      BY <1>1, <1>3, <1>6, <3>1 DEF Overtaken
    <3>2. CASE Unit[i] = This
      BY <1>1, <1>2, <3>2 DEF Overtaken
    <3> QED BY <3>1, <3>2
  <2>2. \A t : KnownLoss(Unit[i], t)
    BY <2>1 DEF KnownLoss
  <2>3. \A t : KnownLoss(Unit[i], t)'
    BY <1>1, <2>2, GoesOn DEF FilesInv
  <2> QED BY <2>3 DEF Extracted
<1> QED BY <1>5, <1>6

(* A step that stays with the member.                                      *)
LEMMA UnzStaysDone ==
  ASSUME DoneInv, command.tool = "unzip", pc \in {"open", "copy"}, Goes,
         UNCHANGED <<units, left, refused, status>>, pc' \in {"copy", "close"},
         \A p \in Path : p # This.dst => disk'[p] = disk[p],
         pc' = "close" => (Archive.parts[Member] \in ToSet(disk[This.dst].parts))'
  PROVE  OutOfArchive'
<1>1. Unit' = Unit /\ Member' = Member /\ command' = command
  BY DEF Unit, Member, Goes
<1>2. /\ \A i \in DOMAIN left : left[i] = Unit[Len(Unit) - Len(left) + i]
      /\ Handled(Member - 1)
  BY DEF DoneInv, OutOfArchive
<1>3. ASSUME status', NEW i \in 1 .. Member - 1 PROVE Unit[i] \in refused \/ Extracted(i)'
  <2>1. Unit[i] \in refused \/ Extracted(i)
    BY <1>2, <1>3 DEF Handled
  <2> QED BY <1>1, <2>1, MembersBefore
<1>4. Handled(Member - 1)'
  BY <1>1, <1>3 DEF Handled
<1>5. (\A i \in DOMAIN left : left[i] = Unit[Len(Unit) - Len(left) + i])'
  BY <1>1, <1>2
<1> QED BY <1>4, <1>5 DEF OutOfArchive

(* A step to the next member, or to the end.                               *)
LEMMA UnzNextDone ==
  ASSUME DoneInv, command.tool = "unzip", pc \in {"open", "close"}, Goes, NextMember, Fine,
         refused \subseteq refused', \A p \in Path : p # This.dst => disk'[p] = disk[p],
         NEW m, m = Member, Unit[m] \in refused' \/ Extracted(m)'
  PROVE  OutOfArchive'
<1>1. /\ left \in Seq(Pairs) /\ Len(left) \in Nat \ {0} /\ Len(Unit) \in Nat
      /\ Member \in 1 .. Len(Unit)
  BY UnzAtMember
<1>2. units' = units /\ Unit' = Unit /\ status' = status
  BY DEF NextMember, Quit, Unit, Fine
<1>3. /\ \A i \in DOMAIN left : left[i] = Unit[Len(Unit) - Len(left) + i]
      /\ Handled(Member - 1)
  BY DEF DoneInv, OutOfArchive
<1>4. ASSUME status', NEW i \in 1 .. m PROVE Unit[i] \in refused' \/ Extracted(i)'
  <2>1. CASE i = m
    BY <2>1
  <2>2. CASE i # m
    <3>1. i \in 1 .. Member - 1
      BY <1>1, <2>2
    <3>2. Unit[i] \in refused \/ Extracted(i)
      BY <1>2, <1>3, <1>4, <3>1 DEF Handled
    <3> QED BY <1>2, <3>1, <3>2, MembersBefore
  <2> QED BY <2>1, <2>2
<1>5. CASE Len(left) = 1
  <2>1. pc' = "exit" /\ m = Len(Unit)
    BY <1>1, <1>5 DEF NextMember, Quit, Member
  <2>2. Handled(Len(Unit))'
    BY <1>2, <1>4, <2>1 DEF Handled
  <2> QED BY <2>1, <2>2 DEF OutOfArchive
<1>6. CASE Len(left) # 1
  <2>1. pc' = "open" /\ left' = Tail(left)
    BY <1>6 DEF NextMember
  <2>2. Len(left') = Len(left) - 1 /\ Tail(left) \in Seq(Pairs)
    BY <1>1, <2>1
  <2>3. Member' - 1 = m
    BY <1>1, <1>2, <2>2 DEF Member
  <2>4. Handled(Member - 1)'
    BY <1>2, <1>4, <2>3 DEF Handled
  <2>5. ASSUME NEW i \in DOMAIN left' PROVE left'[i] = Unit[Len(Unit) - Len(left') + i]
    <3>1. i \in 1 .. Len(left) - 1 /\ left'[i] = left[i + 1] /\ i + 1 \in DOMAIN left
      BY <1>1, <2>1, <2>2, <2>5
    <3>2. left[i + 1] = Unit[Len(Unit) - Len(left) + (i + 1)]
      BY <1>3, <3>1
    <3>3. Len(Unit) - Len(left) + (i + 1) = Len(Unit) - Len(left') + i
      BY <1>1, <2>2, <3>1
    <3> QED BY <3>1, <3>2, <3>3
  <2>6. (\A i \in DOMAIN left : left[i] = Unit[Len(Unit) - Len(left) + i])'
    BY <1>2, <2>5
  <2> QED BY <2>1, <2>4, <2>6 DEF OutOfArchive
<1> QED BY <1>5, <1>6

LEMMA UnzOpenDone ==
  ASSUME DoneInv, Goes, UnzOpen
  PROVE  OutOfArchive'
<1>1. command.tool = "unzip" /\ pc = "next" /\ units # <<>> /\ FilesInv
  BY DEF UnzOpen, AtUnit, At, DoneInv
<1>2. CASE Quit /\ Told
  BY <1>2 DEF Quit, Told, OutOfArchive, Handled
<1>3. CASE pc' = "open" /\ left' = Unit /\ UNCHANGED units
  <2>1. Unit \in Seq(Pairs) /\ Unit' = Unit
    BY <1>1, <1>3, UnitShape DEF FilesInv, Unit
  <2>2. Len(Unit) \in Nat /\ DOMAIN Unit = 1 .. Len(Unit)
    BY <2>1
  <2>3. Member' - 1 = 0
    BY <1>3, <2>1, <2>2 DEF Member
  <2>4. Handled(Member - 1)'
    BY <2>3 DEF Handled
  <2>5. \A i \in DOMAIN Unit : Unit[i] = Unit[Len(Unit) - Len(Unit) + i]
    BY <2>2
  <2>6. (\A i \in DOMAIN left : left[i] = Unit[Len(Unit) - Len(left) + i])'
    BY <1>3, <2>1, <2>5
  <2> QED BY <1>3, <2>4, <2>6 DEF OutOfArchive
<1> QED BY <1>2, <1>3 DEF UnzOpen

LEMMA UnzSkipDone ==
  ASSUME DoneInv, Goes, UnzSkip
  PROVE  OutOfArchive'
<1>1. /\ command.tool = "unzip" /\ pc = "open" /\ NextMember /\ Fine /\ disk' = disk
      /\ refused' = refused \cup {This}
  BY DEF UnzSkip, At, Refuse, Unwritten
<1>2. This = Unit[Member]
  BY <1>1, UnzAtMember
<1>3. PICK m : m = Member
  OBVIOUS
<1> QED BY <1>1, <1>2, <1>3, UnzNextDone

LEMMA UnzCreateDone ==
  ASSUME DoneInv, Goes, UnzCreate
  PROVE  OutOfArchive'
<1>1. command.tool = "unzip" /\ pc = "open" /\ refused' = refused /\ FilesInv
  BY DEF UnzCreate, At, NothingAsked, DoneInv
<1>2. CASE Quit /\ Told
  BY <1>2 DEF Quit, Told, OutOfArchive, Handled
<1>3. CASE Write(This.dst, Broken("raw", <<>>)) /\ Goto("copy") /\ Fine
  <2>1. \A p \in Path : p # This.dst => disk'[p] = disk[p]
    BY <1>1, <1>3 DEF Write, FilesInv, FileTypes
  <2> QED BY <1>1, <1>3, <2>1, UnzStaysDone DEF Goto, Fine
<1> QED BY <1>2, <1>3 DEF UnzCreate, WriteNow

LEMMA UnzCopyDone ==
  ASSUME DoneInv, Goes, UnzCopy
  PROVE  OutOfArchive'
<1>1. command.tool = "unzip" /\ pc = "copy" /\ refused' = refused /\ FilesInv
  BY DEF UnzCopy, At, NothingAsked, DoneInv
<1>2. CASE Quit /\ Told
  BY <1>2 DEF Quit, Told, OutOfArchive, Handled
<1>3. CASE /\ Write(This.dst, Broken("raw", <<Archive.parts[Member]>>)) /\ Goto("close")
           /\ status' = status
  <2>1. This.dst \in Path /\ This.src \in Path /\ This.src # This.dst
    BY <1>1, UnzipHere, GzApart DEF FilesInv
  <2>2. \A p \in Path : p # This.dst => disk'[p] = disk[p]
    BY <1>1, <1>3 DEF Write, FilesInv, FileTypes
  <2>3. /\ disk'[This.dst] = Broken("raw", <<Archive.parts[Member]>>)
        /\ disk'[This.src] = disk[This.src]
    BY <1>1, <1>3, <2>1 DEF Write, FilesInv, FileTypes
  <2>4. This' = This /\ Member' = Member /\ pc' = "close" /\ UNCHANGED <<units, left>>
    BY <1>3 DEF Goto, This, Member, Unit
  <2>5. Archive' = Archive
    BY <2>3, <2>4 DEF Archive
  <2>6. PICK token : token = Archive.parts[Member]
    OBVIOUS
  <2>7. disk'[This.dst].parts = <<token>>
    BY <2>3, <2>6 DEF Broken
  <2>8. token \in ToSet(<<token>>)
    BY DEF ToSet
  <2>9. (Archive.parts[Member])' = token
    BY <2>4, <2>5, <2>6
  <2>10. (Archive.parts[Member] \in ToSet(disk[This.dst].parts))'
    BY <2>4, <2>7, <2>8, <2>9 DEF ToSet
  <2> QED BY <1>1, <1>3, <2>2, <2>4, <2>10, UnzStaysDone
<1> QED BY <1>2, <1>3 DEF UnzCopy, WriteNow, Fine

LEMMA UnzCloseDone ==
  ASSUME DoneInv, Goes, UnzClose
  PROVE  OutOfArchive'
<1>1. /\ command.tool = "unzip" /\ pc = "close" /\ NextMember /\ Fine /\ refused' = refused
      /\ DropBuffer(This.dst) /\ FilesInv
  BY DEF UnzClose, At, NothingAsked, DoneInv
<1>2. This.dst \in Path /\ Intact(This.src) /\ This = Unit[Member]
  BY <1>1, UnzipHere, UnzAtMember
<1>3. \A p \in Path : p # This.dst => disk'[p] = disk[p]
  BY <1>1, <1>2 DEF DropBuffer, WriteNow, Write, FilesInv, FileTypes
<1>4. PICK m : m = Member
  OBVIOUS
<1>5. start[This.src].parts[m] \in ToSet(disk[This.dst].parts)
  BY <1>1, <1>2, <1>4 DEF DoneInv, OutOfArchive, Archive, Intact
<1>6. Unit' = Unit /\ start' = start
  BY <1>1 DEF NextMember, Quit, Unit, Goes
<1>7. Extracted(m)'
  <2>1. CASE This.dst \in tailLost'
    BY <1>2, <1>4, <1>6, <2>1 DEF Extracted, KnownLoss
  <2>2. CASE Write(This.dst, [disk[This.dst] EXCEPT !.whole = TRUE])
    <3>1. disk[This.dst] \in Content /\ disk'[This.dst] = [disk[This.dst] EXCEPT !.whole = TRUE]
      BY <1>1, <1>2, <2>2, Contents DEF Write, FilesInv, FileTypes
    <3>2. disk'[This.dst].whole /\ disk'[This.dst].parts = disk[This.dst].parts
      BY <3>1 DEF Content
    <3>3. start[This.src].parts[m] \in Tokens(disk'[This.dst])
      BY <1>5, <3>2 DEF Tokens
    <3> QED BY <1>2, <1>4, <1>6, <3>3 DEF Extracted, Tokens
  <2> QED BY <1>1, <2>1, <2>2 DEF DropBuffer, WriteNow
<1> QED BY <1>1, <1>3, <1>4, <1>7, UnzNextDone

-----------------------------------------------------------------------------
(* The command is given, comes to its end, and is given again.             *)
LEMMA AllWait ==
  ASSUME FilesInv, NEW pair \in Pairs
  PROVE  Waits(command.units, pair) /\ command.units # <<>>
<1>1. PICK i \in DOMAIN command.units : pair \in ToSet(command.units[i])
  BY DEF Pairs, PairsOf, ToSet
<1> QED BY <1>1 DEF Waits

LEMMA DoneStart ==
  Init => DoneInv
<1> SUFFICES ASSUME Init PROVE DoneInv
  OBVIOUS
<1>1. FilesInv
  BY FilesStart
<1>2. /\ start = disk /\ pc = "next" /\ units = command.units /\ command.units \in Seq(Argument)
  BY <1>1, CommandShape DEF Init, DiskInit, FilesInv, FileTypes
<1>3. SourcesStay
  BY <1>2 DEF SourcesStay, Exists
<1>4. ASSUME NEW pair \in Pairs PROVE Pending(pair)
  <2>1. Waits(units, pair)
    BY <1>1, <1>2, <1>4, AllWait
  <2>2. units # <<>> /\ (pair \in ToSet(Head(units)) \/ Waits(Tail(units), pair))
    BY <1>2, <2>1, FirstWaits
  <2> QED BY <1>2, <2>2 DEF Pending, Now, Unit
<1>5. ByArgument
  BY <1>2, <1>4 DEF ByArgument
<1>6. InArchive /\ OutOfArchive
  BY <1>2 DEF InArchive, OutOfArchive
<1> QED BY <1>1, <1>3, <1>5, <1>6 DEF DoneInv

LEMMA AgainDone ==
  ASSUME DoneInv, FilesInv', Goes, AllDone \/ Again
  PROVE  ByArgument' /\ InArchive' /\ OutOfArchive'
<1>1. FilesInv /\ Pairs' = Pairs /\ command' = command
  BY GoesOn DEF DoneInv, FilesInv, Goes
<1>2. CASE AllDone
  <2>1. /\ pc = "next" /\ units = <<>> /\ pc' = "exit" /\ units' = <<>> /\ UNCHANGED disk
        /\ status' = status /\ refused' = refused
    BY <1>2 DEF AllDone, Goto, Fine, NothingAsked, Unwritten
  <2>2. ByArgument'
    <3>1. ASSUME OneByOne, status, NEW pair \in Pairs \ refused PROVE Done(pair)'
      <4>1. Done(pair)
        BY <2>1, <3>1 DEF DoneInv, ByArgument, Pending
      <4> QED BY <1>1, <2>1, <4>1, IdleDone
    <3> QED BY <1>1, <2>1, <3>1 DEF ByArgument, OneByOne
  <2>3. InArchive'
    <3>1. command.tool = "zip" => Pairs = {}
      BY <1>1, <2>1, NoUnit DEF DoneInv, InArchive
    <3> QED BY <1>1, <2>1, <3>1 DEF InArchive
  <2>4. OutOfArchive'
    BY <2>1 DEF OutOfArchive
  <2> QED BY <2>2, <2>3, <2>4
<1>3. CASE Again
  <2>1. pc' = "next" /\ units' = command.units
    BY <1>3 DEF Again
  <2>2. ASSUME NEW pair \in Pairs PROVE Pending(pair)'
    BY <1>1, <2>1, <2>2, AllWait, NextPends
  <2> QED BY <1>1, <2>1, <2>2 DEF ByArgument, InArchive, OutOfArchive
<1> QED BY <1>2, <1>3

LEMMA IdleStaysDone ==
  ASSUME DoneInv, Goes, UNCHANGED diskVars
  PROVE  ByArgument' /\ InArchive' /\ OutOfArchive'
<1>1. FilesInv /\ Pairs' = Pairs /\ UNCHANGED <<disk, command, start, pc, units, left, status>>
      /\ UNCHANGED <<refused, tailLost>>
  BY GoesOn DEF DoneInv, FilesInv, diskVars
<1>2. /\ Unit' = Unit /\ This' = This /\ ToSet(Unit)' = ToSet(Unit) /\ ToSet(left)' = ToSet(left)
      /\ Member' = Member /\ Archive' = Archive
      /\ ToSet(disk[This.dst].parts)' = ToSet(disk[This.dst].parts)
  BY <1>1 DEF Unit, This, ToSet, Member, Archive
<1>3. \A pair : Pending(pair) => Pending(pair)'
  BY <1>1, <1>2 DEF Pending, Now, Waits, ToSet
<1>4. \A pair \in Pairs : Done(pair) => Done(pair)'
  BY <1>1, IdleDone
<1>5. \A pair : Arrived(pair) => Arrived(pair)'
  BY <1>1, GoesOn DEF Arrived, Tokens, FilesInv
<1>6. \A n : Handled(n) => Handled(n)'
  <2>1. \A i : Extracted(i) => Extracted(i)'
    BY <1>1, <1>2, GoesOn DEF Extracted, Tokens, FilesInv
  <2> QED BY <1>1, <1>2, <2>1 DEF Handled
<1>7. ByArgument'
  BY <1>1, <1>3, <1>4 DEF DoneInv, ByArgument, OneByOne
<1>8. InArchive'
  BY <1>1, <1>2, <1>5 DEF DoneInv, InArchive
<1>9. OutOfArchive'
  BY <1>1, <1>2, <1>6 DEF DoneInv, OutOfArchive
<1> QED BY <1>7, <1>8, <1>9

LEMMA DoneKeep ==
  DoneInv /\ [Next]_diskVars => DoneInv'
<1> SUFFICES ASSUME DoneInv, [Next]_diskVars PROVE DoneInv'
  OBVIOUS
<1>1. FilesInv /\ FilesInv'
  BY FilesKeep DEF DoneInv
<1>2. Goes /\ SourcesStay' /\ command' = command
  BY <1>1, StepGoes, SourcesStayKeep DEF DoneInv, Goes
<1>3. CASE UNCHANGED diskVars
  BY <1>1, <1>2, <1>3, IdleStaysDone DEF DoneInv
<1>4. CASE AllDone \/ Again
  BY <1>1, <1>2, <1>4, AgainDone DEF DoneInv
<1>5. CASE (GzStep \/ BzStep) /\ command.tool \in GzTool \cup BzTool
  <2>1. ByArgument'
    BY <1>1, <1>2, <1>5, GzDone
  <2> QED BY <1>1, <1>2, <1>5, <2>1 DEF DoneInv, InArchive, OutOfArchive, GzTool, BzTool
<1>6. CASE MvStep /\ command.tool = "mv"
  <2>1. ByArgument'
    BY <1>1, <1>2, <1>6, MvDone
  <2> QED BY <1>1, <1>2, <1>6, <2>1 DEF DoneInv, InArchive, OutOfArchive
<1>7. CASE CpStep /\ command.tool = "cp"
  <2>1. ByArgument'
    BY <1>1, <1>2, <1>7, CpDone
  <2> QED BY <1>1, <1>2, <1>7, <2>1 DEF DoneInv, InArchive, OutOfArchive
<1>8. CASE /\ ZipCollect \/ ZipCreate \/ ZipAdd \/ ZipClose \/ ZipRemove
           /\ command.tool = "zip"
  <2>1. InArchive'
    BY <1>1, <1>2, <1>8, ZipCollectDone, ZipWritingDone, ZipCloseDone, ZipRemoveDone
  <2> QED BY <1>1, <1>2, <1>8, <2>1 DEF DoneInv, ByArgument, OneByOne, OutOfArchive, GzTool, BzTool
<1>9. CASE /\ UnzOpen \/ UnzSkip \/ UnzCreate \/ UnzCopy \/ UnzClose
           /\ command.tool = "unzip"
  <2>1. OutOfArchive'
    BY <1>1, <1>2, <1>9, UnzOpenDone, UnzSkipDone, UnzCreateDone, UnzCopyDone, UnzCloseDone
  <2> QED BY <1>1, <1>2, <1>9, <2>1 DEF DoneInv, ByArgument, OneByOne, InArchive, GzTool, BzTool
<1> QED BY <1>3, <1>4, <1>5, <1>6, <1>7, <1>8, <1>9, StepOfTool

-----------------------------------------------------------------------------
(* What is done when the program ends.                                     *)
LEMMA MovedArrives ==
  ASSUME FilesInv, Moves, NEW pair \in Pairs, ~Exists(pair.src) \/ pair.src \in AllTargets
  PROVE  Arrived(pair)
<1>1. pair.src \in Path /\ pair.dst \in Path /\ pair.src \in AllSources
  BY CommandShape DEF FilesInv, FileTypes
<1>2. command.tool \notin {"cp", "unzip"} /\ command \in Command
  BY DEF Moves, GzTool, BzTool, FilesInv, FileTypes
<1>3. CASE pair.src \notin AllTargets
  <2>1. CASE Intact(pair.src)
    <3>1. Tokens(start[pair.src]) = {}
      BY <1>1, <1>3, <2>1, Contents DEF Intact, Exists, Content, Tokens, ToSet, FilesInv
    <3> QED BY <3>1 DEF Arrived
  <2>2. CASE Moved(pair.src)
    <3>1. \A other \in Pairs : other.src = pair.src => other = pair
      BY <1>2, ApartAssumption DEF Pairs
    <3> QED BY <2>2, <3>1 DEF Moved, Arrived
  <2> QED BY <1>1, <1>3, <2>1, <2>2 DEF FilesInv, Safe, SourcesSafe
<1>4. CASE pair.src \in AllTargets
  <2>1. PICK other \in Pairs : other.dst = pair.src
    BY <1>4 DEF AllTargets
  <2>2. pair.src = pair.dst
    BY <2>1, Apart DEF FilesInv
  <2>3. Intact(pair.src)
    BY <1>1, <1>2, <1>4 DEF FilesInv, Safe, SelvesSafe
  <2> QED BY <2>2, <2>3 DEF Intact, Arrived
<1> QED BY <1>3, <1>4

LEMMA ExtractedArrives ==
  ASSUME DoneInv, command.tool = "unzip", pc = "exit", status, NEW pair \in Pairs \ refused,
         NEW t \in Payload(pair)
  PROVE  t \in Tokens(disk[pair.dst]) \/ KnownLoss(pair, t)
<1>1. FilesInv /\ units = command.units /\ units # <<>>
  BY AllWait DEF DoneInv, FilesInv, Places, UnzipPlaces
<1>2. Unit = command.units[1] /\ Unit \in Seq(Pairs)
  BY <1>1, OneUnit, UnitShape DEF Unit, FilesInv
<1>3. PICK i \in DOMAIN Unit : Unit[i] = pair /\ t = start[pair.src].parts[i]
  BY <1>2 DEF Payload
<1>4. i \in 1 .. Len(Unit)
  BY <1>2, <1>3
<1>5. Extracted(i)
  BY <1>1, <1>3, <1>4 DEF DoneInv, OutOfArchive, Handled
<1> QED BY <1>3, <1>5 DEF Extracted

LEMMA DoneIsSuccess ==
  DoneInv => SuccessMeansDone
<1> SUFFICES ASSUME DoneInv, pc = "exit", status, NEW pair \in Pairs \ refused
             PROVE  /\ \A t \in Payload(pair) : t \in Tokens(disk[pair.dst]) \/ KnownLoss(pair, t)
                    /\ Moves => command.tool = "zip" \/ ~Exists(pair.src) \/ pair.src \in AllTargets
                    /\ ~Moves => Exists(pair.src) \/ start[pair.src].form = "none"
  BY DEF SuccessMeansDone
<1>1. FilesInv /\ pair.src \in AllSources /\ command.tool \in Tool
  BY CommandShape DEF DoneInv, FilesInv, FileTypes
<1>2. ~Moves => Exists(pair.src) \/ start[pair.src].form = "none"
  BY <1>1 DEF DoneInv, SourcesStay
<1>3. CASE OneByOne
  <2>1. Done(pair)
    BY <1>3 DEF DoneInv, ByArgument, Pending
  <2>2. Moves => ~Exists(pair.src) \/ pair.src \in AllTargets
    BY <2>1 DEF Done
  <2>3. Arrived(pair)
    BY <1>1, <2>1, MovedArrives DEF Done
  <2>4. Payload(pair) = Tokens(start[pair.src])
    BY <1>3 DEF Payload, OneByOne, GzTool, BzTool
  <2> QED BY <1>2, <2>2, <2>3, <2>4 DEF Arrived
<1>4. CASE command.tool = "zip"
  BY <1>2, <1>4 DEF DoneInv, InArchive, Arrived, Payload
<1>5. CASE command.tool = "unzip"
  BY <1>2, <1>5, ExtractedArrives DEF Moves, GzTool, BzTool
<1> QED BY <1>1, <1>3, <1>4, <1>5 DEF Tool, OneByOne, GzTool, BzTool

(* An exit code of 0 says that every file that was not refused is at its   *)
(* target, is whole there or lost in a known way, and is gone from its     *)
(* source just when it was to be moved: what the main functions of gzip,   *)
(* bzip2, mv, cp, zip and unzip say with their exit codes.                 *)
THEOREM SuccessMeansDoneTheorem == Spec => []SuccessMeansDone
<1> QED BY DoneStart, DoneKeep, DoneIsSuccess, PTL DEF Spec
=============================================================================
