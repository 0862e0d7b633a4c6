-------------------------------- MODULE Find --------------------------------
(***************************************************************************)
(* sfind, which walks directories and acts on what an expression matches,  *)
(* and the index that locate and sfind share: one of them writes it from   *)
(* what it finds, both search it.  Another program makes and removes files *)
(* between any two steps, and a writer may be killed.                      *)
(*                                                                         *)
(* A path is the sequence of its names, a name that of its letters; what   *)
(* is given as a root is one name.  Links are not followed.                *)
(***************************************************************************)
EXTENDS Globs, FiniteSets, SequencesExt, FiniteSetsExt

CONSTANTS
  Places,      \* the paths there may be
  ByName, ByText, \* their orders: by their last names, and by all of their text
  Metas,       \* what there may be: [kind: {"f", "d", "l"}, size: Nat, age: Nat]
  DepthLimit,  \* the depth of the directories an index still looks into
  FindLands,   \* disks at the start
  FindJobs,    \* command lines, the first ones
  LaterJobs,   \* and those after an index was made
  MaxEvents    \* bound: what others do

VARIABLES
  land,        \* the disk: path -> what is there
  job,         \* the command line
  pred,        \* Opts, or what of them is needed: expression, action, depths
  todo,        \* paths to be walked, with the time they were listed
  acts,        \* what was done, in order: [path, meta]
  index,       \* the file of the index: its lines, and whether they are all there
  inHand,      \* the lines in hand: paths scanned, or read from the index
  findStep,    \* "parse", "refused", "walk", "scan", "write", "search", "read",
               \* "done", "error" or "off"
  events, quiet   \* history: what others did; nothing since the start

findVars == <<land, job, pred, todo, acts, index, inHand, findStep, events, quiet>>

Gone == [kind |-> "none", size |-> 0, age |-> 0]

(* A pattern has parts, an expression words; a root is one name, and no    *)
(* two are the same.  A place has one above it, where a directory is.  The *)
(* pattern of a search has no classes, only letters, of which "[" is one.  *)
MayNegate == {"name", "type", "empty", "true", "false"}
MayNotNegate == {"path", "size", "mtime", "newer"}
Operators == {"not", "and", "or", "maxdepth", "mindepth", "print", "delete"}
IsPattern(pat) ==
  pat \in Seq(ToSet(pat)) /\ \A i \in DOMAIN pat : pat[i].wild \in {"star", "one", "in"}
IsWord(t) ==
  /\ t.tok \in MayNegate \cup MayNotNegate \cup Operators
  /\ t.tok \in {"name", "path"} => IsPattern(t.pat)
  /\ t.tok \in {"maxdepth", "mindepth"} => t.n \in Nat
IsCommand(c) ==
  /\ c.tool \in {"sfind", "locate"} /\ c.mode \in {"walk", "scan", "search"}
  /\ c.mode = "walk" => c.tool = "sfind"
  /\ c.tokens \in Seq(ToSet(c.tokens)) /\ \A i \in DOMAIN c.tokens : IsWord(c.tokens[i])
  /\ c.roots \in Seq(Places) /\ IsInjective(c.roots)
  /\ \A i \in DOMAIN c.roots : Len(c.roots[i]) = 1
  /\ IsPattern(c.pat)
  /\ \A i \in DOMAIN c.pat : c.pat[i].wild = "in" => \E l \in c.pat[i].letters : c.pat[i] = In({l})
  /\ c.limit \subseteq Nat /\ (c.tool = "sfind" => c.limit = {})
FindAssumption ==
  /\ IsFiniteSet(Places) /\ DepthLimit \in Nat
  /\ \A p \in Places : /\ p \in Seq(ToSet(p)) /\ Len(p) > 0
                       /\ Len(p) > 1 => Front(p) \in Places
                       /\ \A i \in DOMAIN p : p[i] \in Seq(ToSet(p[i]))
  /\ \A order \in {ByName, ByText} : order \in [Places -> Nat] /\ IsInjective(order)
  /\ \A meta \in Metas : meta.kind \in {"f", "d", "l"}
  /\ \A l \in FindLands :
       /\ l \in [Places -> {l[p] : p \in Places}]
       /\ \A p \in Places : l[p] = Gone \/ l[p].kind \in {"f", "d", "l"}
       /\ \A p \in Places : l[p] # Gone /\ Len(p) > 1 => l[Front(p)].kind = "d"
  /\ \A c \in FindJobs \cup LaterJobs : IsCommand(c)
ASSUME FindAssumption

There(p) == land[p] # Gone
FileName(p) == Last(p)
Text(p) == FlattenSeq([i \in DOMAIN p |-> IF i = 1 THEN p[i] ELSE <<"/">> \o p[i]])
Under(p, q) == Len(p) = Len(q) + 1 /\ IsPrefix(q, p)
Children(q) == {p \in Places : There(p) /\ Under(p, q)}
SortedBy(paths, order) ==
  [n \in 1 .. Cardinality(paths) |->
     CHOOSE p \in paths : Cardinality({q \in paths : order[q] <= order[p]}) = n]

-----------------------------------------------------------------------------
(* parse_args: tests are collected until an "or"; the last action counts,  *)
(* wherever it stands.  Only some tests can be negated.                    *)
Fresh == [any |-> <<>>, all |-> <<>>, negate |-> FALSE, action |-> "print",
          min |-> {}, max |-> {}, error |-> FALSE]
KeepAlternative(s) == [s EXCEPT !.any = Append(@, s.all)]
EndAlternative(s) == [s EXCEPT !.any = Append(@, s.all), !.all = <<>>]

ReadToken(s, t) ==
  IF s.error THEN s
  ELSE IF s.negate
  THEN IF t.tok \in MayNegate
       THEN [s EXCEPT !.all = Append(@, [test |-> t, holds |-> FALSE]), !.negate = FALSE]
       ELSE [s EXCEPT !.error = TRUE]
  ELSE CASE t.tok = "not" -> [s EXCEPT !.negate = TRUE]
         [] t.tok = "and" -> s
         [] t.tok = "or" -> EndAlternative(s)
         [] t.tok = "maxdepth" -> [s EXCEPT !.max = {t.n}]
         [] t.tok = "mindepth" -> [s EXCEPT !.min = {t.n}]
         [] t.tok \in {"print", "delete"} -> [s EXCEPT !.action = t.tok]
         [] OTHER -> [s EXCEPT !.all = Append(@, [test |-> t, holds |-> TRUE])]

Expression(tokens) ==
  LET read[n \in 0 .. Len(tokens)] ==
        IF n = 0 THEN Fresh ELSE ReadToken(read[n - 1], tokens[n])
      end == read[Len(tokens)]
  IN [EndAlternative(end) EXCEPT !.error = @ \/ end.negate]

-----------------------------------------------------------------------------
(* eval.  An empty list of tests holds, an empty list of alternatives is   *)
(* never made.                                                             *)
Compared(cmp, m, n) == CASE cmp = "+" -> m > n [] cmp = "-" -> m < n [] OTHER -> m = n
Holds(t, p, meta) ==
  CASE t.tok = "name"  -> GlobMatch(t.pat, FileName(p), FALSE)
    [] t.tok = "path"  -> GlobMatch(t.pat, Text(p), TRUE)
    [] t.tok = "type"  -> meta.kind = t.kind
    [] t.tok = "size"  -> Compared(t.cmp, meta.size, t.n)
    [] t.tok = "mtime" -> Compared(t.cmp, meta.age, t.n)
    [] t.tok = "newer" -> There(t.than) /\ meta.age < land[t.than].age
    [] t.tok = "empty" -> \/ meta.kind = "f" /\ meta.size = 0
                          \/ meta.kind = "d" /\ There(p) /\ land[p].kind = "d" /\ Children(p) = {}
    [] OTHER -> t.tok # "false"
Eval(p, meta) ==
  \E i \in DOMAIN pred.any : \A j \in DOMAIN pred.any[i] :
    LET c == pred.any[i][j] IN Holds(c.test, p, meta) = c.holds

(* do_action.  A directory that is not empty stays.                        *)
Deletable(p) == There(p) /\ (land[p].kind = "d" => Children(p) = {})
Act(p, meta) ==
  /\ acts' = Append(acts, [path |-> p, meta |-> meta])
  /\ IF pred.action = "delete" /\ Deletable(p) THEN land' = [land EXCEPT ![p] = Gone]
     ELSE UNCHANGED land
Pass == UNCHANGED <<acts, land>>

-----------------------------------------------------------------------------
ReadCommand ==
  /\ findStep = "parse"
  /\ pred' = IF job.tool = "sfind" THEN Expression(job.tokens) ELSE Fresh
  /\ findStep' = IF pred'.error THEN "refused" ELSE job.mode
  /\ todo' = IF job.mode \in {"walk", "scan"} THEN job.roots ELSE <<>>
  /\ inHand' = <<>>
  /\ UNCHANGED <<land, job, acts, index, events, quiet>>

(* walk: what is there now is tested and acted upon, and then listed if it *)
(* was a directory; what has gone meanwhile has no entries.                *)
Depth(p) == Len(p) - 1
Walk ==
  /\ findStep = "walk" /\ todo # <<>>
  /\ LET p == Head(todo)
         meta == land[p]
         apply == \A n \in pred.min : Depth(p) >= n
         below == meta.kind = "d" /\ \A n \in pred.max : Depth(p) < n
     IN /\ IF There(p) /\ apply /\ Eval(p, meta) THEN Act(p, meta) ELSE Pass
        /\ \E read \in BOOLEAN :     \* read_dir may be refused
             /\ read \/ meta.kind = "d"
             /\ todo' = (IF read /\ below /\ land'[p].kind = "d"
                         THEN SortedBy(Children(p), ByName) ELSE <<>>) \o Tail(todo)
             /\ quiet' = (quiet /\ read)
  /\ UNCHANGED <<job, pred, index, inHand, findStep, events>>

(* scan_dir and index_scan: the entries of a directory go into the list,   *)
(* and some directories are not looked into.                               *)
Scan ==
  /\ findStep = "scan" /\ todo # <<>>
  /\ \E read \in BOOLEAN :
       LET q == Head(todo)
           below == land[q].kind = "d" /\ Depth(q) <= DepthLimit
           entries == IF read /\ below THEN Children(q) ELSE {}
           dirs == {p \in entries : land[p].kind = "d" /\ FileName(p) \notin job.skip}
       IN /\ read \/ below
          /\ inHand' = inHand \o SortedBy(entries, ByName)
          /\ todo' = SortedBy(dirs, ByName) \o Tail(todo)
          /\ quiet' = (quiet /\ read)
  /\ UNCHANGED <<land, job, pred, acts, index, findStep, events>>

(* create empties the file, unless it fails; the lines go into it by their *)
(* text, and it is whole when the compressor was finished.                 *)
Create ==
  /\ findStep = "scan" /\ todo = <<>>
  /\ \/ findStep' = "write" /\ index' = [lines |-> <<>>, whole |-> FALSE]
        /\ inHand' = SortedBy(ToSet(inHand), ByText)
     \/ findStep' = "error" /\ UNCHANGED <<index, inHand>>
  /\ UNCHANGED <<land, job, pred, todo, acts, events, quiet>>
WriteIndex ==
  /\ findStep = "write"
  /\ index' = [lines |-> inHand, whole |-> TRUE]
  /\ findStep' = "done"
  /\ UNCHANGED <<land, job, pred, todo, acts, inHand, events, quiet>>
CutShort ==
  /\ findStep = "write"
  /\ \E n \in 0 .. Len(inHand) : index' = [lines |-> SubSeq(inHand, 1, n), whole |-> FALSE]
  /\ findStep' = "error"
  /\ UNCHANGED <<land, job, pred, todo, acts, inHand, events, quiet>>

-----------------------------------------------------------------------------
(* A search reads line after line.  locate takes the whole path or, with   *)
(* -b, its name, as sfind does; it may ask for those that still exist, and *)
(* stop after some, which it counts after a line that matched.  sfind asks *)
(* for all of the expression.  A pattern with a bracket goes to a matcher  *)
(* that knows none.                                                        *)
Subject(p) == IF job.basename THEN FileName(p) ELSE Text(p)
Spelled == [i \in DOMAIN job.pat |-> CHOOSE l \in job.pat[i].letters : TRUE]
UseGlob == \E i \in DOMAIN job.pat : job.pat[i].wild # "in" \/ job.pat[i] = In({"["})
Hit(p) ==
  IF UseGlob THEN GlobBytes(job.pat, Subject(p)) ELSE HasPart(Subject(p), Spelled)
OpenIndex ==
  /\ findStep = "search" /\ todo = <<>> /\ inHand = <<>>
  /\ inHand' = index.lines
  /\ findStep' = "read"
  /\ UNCHANGED <<land, job, pred, todo, acts, index, events, quiet>>
Full == acts # <<>> /\ \E n \in job.limit : Len(acts) >= n
Read ==
  /\ findStep = "read" /\ inHand # <<>> /\ ~Full
  /\ LET p == Head(inHand)
         meta == land[p]
         existing == job.tool = "sfind" \/ job.existing => There(p)
     IN IF Hit(p) /\ existing /\ (job.tool = "sfind" => Eval(p, meta)) THEN Act(p, meta) ELSE Pass
  /\ inHand' = Tail(inHand)
  /\ UNCHANGED <<job, pred, todo, index, findStep, events, quiet>>

(* The end of the index, or of one that was cut off; a reader of that may  *)
(* be told of the error again and again.                                   *)
End ==
  /\ \/ findStep = "walk" /\ todo = <<>>
     \/ findStep = "read" /\ (inHand = <<>> \/ Full)
  /\ findStep' = "done"
  /\ UNCHANGED <<land, job, pred, todo, acts, index, inHand, events, quiet>>

-----------------------------------------------------------------------------
(* Others, at any time: a directory goes when it is empty, and nothing is  *)
(* made below what is not there.                                           *)
Others ==
  /\ findStep \in {"walk", "scan", "read"} /\ events < MaxEvents
  /\ events' = events + 1 /\ quiet' = FALSE
  /\ \E p \in Places :
       \/ Len(p) > 1 /\ Deletable(p) /\ land' = [land EXCEPT ![p] = Gone]
       \/ /\ ~There(p) /\ Len(p) > 1 /\ land[Front(p)].kind = "d"
          /\ \E meta \in Metas : land' = [land EXCEPT ![p] = meta]
  /\ UNCHANGED <<job, pred, todo, acts, index, inHand, findStep>>

(* Another command, once an index is there or has failed.                  *)
NextCommand ==
  /\ findStep \in {"done", "error"} /\ job.mode = "scan" /\ job' \in LaterJobs
  /\ findStep' = "parse" /\ quiet' = TRUE /\ acts' = <<>> /\ inHand' = <<>> /\ todo' = <<>>
  /\ UNCHANGED <<land, pred, index, events>>

FindIdle ==
  /\ pred = Fresh /\ todo = <<>> /\ acts = <<>> /\ inHand = <<>> /\ events = 0 /\ quiet = TRUE
  /\ index = [lines |-> <<>>, whole |-> FALSE]
FindInit == land \in FindLands /\ job \in FindJobs /\ FindIdle /\ findStep = "parse"
FindNext ==
  \/ ReadCommand \/ Walk \/ Scan \/ Create \/ WriteIndex \/ CutShort
  \/ OpenIndex \/ Read \/ End \/ Others \/ NextCommand
FindSpec == FindInit /\ [][FindNext]_findVars

-----------------------------------------------------------------------------
(* Reference: the tokens between two "or"s are one alternative; each of    *)
(* its tests must hold, or not hold when "not" stands before it.           *)
Words == job.tokens
IsTest(i) == Words[i].tok \notin Operators
Wants(i, p, meta) ==
  LET holds == IF Words[i].tok = "name" THEN IsGlobOf(Words[i].pat, FileName(p), FALSE)
               ELSE IF Words[i].tok = "path" THEN IsGlobOf(Words[i].pat, Text(p), TRUE)
               ELSE Holds(Words[i], p, meta)
  IN holds = ~(i > 1 /\ Words[i - 1].tok = "not")
Bars == {0, Len(Words) + 1} \cup {i \in DOMAIN Words : Words[i].tok = "or"}
Asked(p, meta) ==
  \E i, j \in Bars : /\ i < j /\ \A k \in i + 1 .. j - 1 : k \notin Bars
                     /\ \A k \in i + 1 .. j - 1 : IsTest(k) => Wants(k, p, meta)
Reached(p) ==
  /\ \E i \in DOMAIN job.roots : IsPrefix(job.roots[i], p)
  /\ \A n \in pred.min : Depth(p) >= n
  /\ \A n \in pred.max : Depth(p) <= n
Acted == {acts[i].path : i \in DOMAIN acts}
Stable == \A i \in DOMAIN Words : Words[i].tok \notin {"empty", "newer"}

(* A command line that is refused has a "not" with no test behind it, or   *)
(* with one of those that cannot be negated although the help says of all  *)
(* tests that they can, and in an example of -path that it is; nothing is  *)
(* done for it.                                                            *)
RefusedForCause ==
  findStep = "refused" =>
    /\ acts = <<>> /\ job.tool = "sfind"
    /\ \E i \in DOMAIN Words :
         /\ Words[i].tok = "not"
         /\ \/ i = Len(Words) \/ ~IsTest(i + 1)
            \/ Words[i + 1].tok \in MayNotNegate

(* sfind acts on nothing that the expression does not ask for, in what the *)
(* file was when it was tested, on nothing twice, and leaves out nothing   *)
(* that it can reach: what is still there at the end of a walk that others *)
(* and errors left alone, and is asked for, was acted upon.  (A test of    *)
(* other files than the one at hand may change in between.)  When it       *)
(* deletes, what is left of that are directories that were not empty when  *)
(* they were met, before what is in them.                                  *)
FindIsExact ==
  findStep \in {"walk", "done"} /\ job.mode = "walk" =>
    /\ \A i, j \in DOMAIN acts : acts[i].path = acts[j].path /\ quiet => i = j
    /\ \A i \in DOMAIN acts :
         Reached(acts[i].path) /\ (Stable => Asked(acts[i].path, acts[i].meta))
    /\ findStep = "done" /\ quiet /\ Stable =>
         \A p \in {q \in Places : There(q)} :
           /\ Reached(p) /\ Asked(p, land[p]) => p \in Acted
           /\ pred.action = "delete" /\ p \in Acted => land[p].kind = "d"

(* A search of a whole index, in peace, gives what is in it and matches,   *)
(* up to the limit, and with -e (and in sfind) what is there.  A pattern   *)
(* with stars or single wildcards matches the whole, one of letters any    *)
(* part.  An index that was cut off gives a part of that, and nothing else.*)
(* Known not to be so: letters with a bracket among them find only what is *)
(* the same as a whole, and a limit of 0 gives one.                        *)
Listed == ToSet(index.lines)
Starred == \E i \in DOMAIN job.pat : job.pat[i].wild # "in"
Wanted(p) ==
  /\ IF Starred THEN IsGlobOf(job.pat, Subject(p), TRUE) ELSE HasPart(Subject(p), Spelled)
  /\ job.tool = "sfind" => Asked(p, land[p])
  /\ job.tool = "sfind" \/ job.existing => There(p)
Bracketed(p) == ~Starred /\ "[" \in ToSet(Spelled) /\ Subject(p) # Spelled
SearchIsTrue ==
  findStep = "done" /\ job.mode = "search" =>
    /\ Acted \subseteq Listed
    /\ \A i \in DOMAIN acts : (job.tool = "sfind" \/ job.existing) => acts[i].meta # Gone
    /\ \A n \in job.limit : Len(acts) <= IF n = 0 THEN 1 ELSE n
    /\ quiet /\ pred.action # "delete" =>
         /\ \A p \in Acted : Wanted(p)
         /\ \A p \in Listed :
              Wanted(p) => p \in Acted \/ Bracketed(p) \/ \E n \in job.limit : Len(acts) >= n

(* An index that was written to its end while nobody else did anything has *)
(* all there is below the roots, down to where it still looks, but for what*)
(* is in a directory to skip.                                              *)
Scanned(p) ==
  \E i \in DOMAIN job.roots :
    LET q == job.roots[i]
    IN /\ Len(p) > Len(q) /\ IsPrefix(q, p) /\ Depth(p) - 1 <= DepthLimit
       /\ \A k \in Len(q) + 1 .. Len(p) - 1 : p[k] \notin job.skip
IndexIsWhole ==
  findStep = "done" /\ job.mode = "scan" /\ quiet =>
    index.whole /\ Listed = {p \in Places : There(p) /\ Scanned(p)}

FindIsTrue == RefusedForCause /\ FindIsExact /\ SearchIsTrue /\ IndexIsWhole
=============================================================================
