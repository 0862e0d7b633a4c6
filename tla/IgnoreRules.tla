----------------------------- MODULE IgnoreRules ----------------------------
(***************************************************************************)
(* The rules of ignore files and how a path is matched with them: the      *)
(* IgnoreFilter of the ignore-files crate, the two filterers around it and *)
(* the filter of the program.  A path is the sequence of its names, and a  *)
(* name that of its letters, for the filter finds the rules of a path by   *)
(* text.  A pattern is one name, at the root of its file or anywhere below.*)
(***************************************************************************)
EXTENDS Integers, Sequences, FiniteSets, SequencesExt, FiniteSetsExt

CONSTANT Unix     \* paths are stripped byte by byte, as Unix does

(* A letter is a string; a name has no separator in it.                    *)
Names == Seq(STRING)
Paths == Seq(Names)
Root == <<>>
Text(path) == FlattenSeq([i \in DOMAIN path |-> <<"/">> \o path[i]])
Under(q, path) == IsPrefix(q, path)
Parent(path) == Front(path)
Rest(q, path) == SubSeq(path, Len(q) + 1, Len(path))

(* A line of an ignore file; one that does not parse stops the reading.    *)
Line(name) == [name |-> name, allow |-> FALSE, anchored |-> FALSE, bad |-> FALSE]
Allow(name) == [Line(name) EXCEPT !.allow = TRUE]
AtRoot(name) == [Line(name) EXCEPT !.anchored = TRUE]
LineLists == Seq([name: Names, allow: BOOLEAN, anchored: BOOLEAN, bad: BOOLEAN])
Unparsed == [Line(<<"?">>) EXCEPT !.bad = TRUE]
GoodPart(lines) ==
  LET bad == {i \in DOMAIN lines : lines[i].bad}
  IN IF bad = {} THEN lines ELSE SubSeq(lines, 1, Min(bad) - 1)
Parses(lines) == GoodPart(lines) = lines

-----------------------------------------------------------------------------
(* Gitignore of the ignore crate: the last line that matches counts.       *)
Hits(lines, rel) ==
  {i \in DOMAIN lines :
     rel # <<>> /\ Last(rel) = lines[i].name /\ (lines[i].anchored => Len(rel) = 1)}
Matched(lines, rel) ==
  LET hits == Hits(lines, rel)
  IN IF hits = {} THEN "none" ELSE IF lines[Max(hits)].allow THEN "allow" ELSE "ignore"

MatchedPathOrParents(lines, rel) ==
  LET found == {k \in 1 .. Len(rel) : Matched(lines, SubSeq(rel, 1, k)) # "none"}
  IN IF found = {} THEN "none" ELSE Matched(lines, SubSeq(rel, 1, Max(found)))

(* strip: what is left of the path behind the root.  By its bytes the text *)
(* of a/b is also in front of a/bc, of which c is left; any other path     *)
(* stays as it is, which is asserted not to happen where parents count.    *)
Strips(root, path) == Under(root, path) \/ (Unix /\ IsPrefix(Text(root), Text(path)))
Strip(root, path) ==
  LET k == Len(root)
  IN IF Under(root, path) THEN Rest(root, path)
     ELSE IF Strips(root, path)
          THEN <<Rest(root[k], path[k])>> \o SubSeq(path, k + 1, Len(path))
          ELSE path
Match(node, path, inside) ==
  IF node.gitignore = <<>> THEN "none"
  ELSE IF ~inside THEN Matched(node.gitignore, Strip(node.root, path))
  ELSE IF ~Strips(node.root, path) THEN "panic"
  ELSE MatchedPathOrParents(node.gitignore, Strip(node.root, path))

-----------------------------------------------------------------------------
(* The filter: the rules of each directory that has any, in a trie of the  *)
(* texts of those directories.  What was read but not compiled counts only *)
(* when another file of the directory compiles it.                         *)
Node(root) == [root |-> root, builder |-> <<>>, gitignore |-> <<>>]
Empty(origin) == [d \in {Root} |-> Node(origin)]
With(ignores, d) ==
  [e \in DOMAIN ignores \cup {d} |-> IF e \in DOMAIN ignores THEN ignores[e] ELSE Node(e)]

(* IgnoreFile: lines, the directory they apply in or none, the kind of     *)
(* project they are for or none, and whether it can be read.               *)
AppliesIn(file) == IF file.in = "none" THEN Root ELSE file.in

AddLines(ignores, d, lines) ==
  LET node == With(ignores, d)[d]
      read == [node EXCEPT !.builder = @ \o GoodPart(lines)]
  IN [With(ignores, d) EXCEPT ![d] =
        IF Parses(lines) THEN [read EXCEPT !.gitignore = read.builder] ELSE read]
AddFile(ignores, file) ==
  IF file.readable THEN AddLines(ignores, AppliesIn(file), file.lines)
  ELSE With(ignores, AppliesIn(file))
AddFails(file) == ~file.readable \/ ~Parses(file.lines)

(* new: all files are read at once and taken in the order in which that    *)
(* ends; any that fails fails it all.                                      *)
Orders(files) ==
  {s \in [DOMAIN files -> DOMAIN files] : ToSet(s) = DOMAIN files}
Loaded(origin, files, order) ==
  LET loaded[n \in 0 .. Len(order)] ==
        IF n = 0 THEN Empty(origin) ELSE AddFile(loaded[n - 1], files[order[n]])
  IN loaded[Len(order)]
NewFails(files) == \E i \in DOMAIN files : AddFails(files[i])

(* get_ancestor: the longest key whose text begins the text.               *)
Ancestor(ignores, path) ==
  CHOOSE d \in DOMAIN ignores :
    /\ IsPrefix(Text(d), Text(path))
    /\ \A e \in DOMAIN ignores : IsPrefix(Text(e), Text(path)) => Len(Text(e)) <= Len(Text(d))

(* match_path, from the path's own directory up to the root.  The parents  *)
(* of a path count in the project, of which the node of the root keeps the *)
(* origin.                                                                 *)
Verdict(how, from) == [how |-> how, from |-> from]
MatchPath(ignores, path) ==
  LET inside == Under(ignores[Root].root, path)
      match[k \in 0 .. Len(path)] ==
        LET d == Ancestor(ignores, SubSeq(path, 1, k))
            how == Match(ignores[d], path, inside)
        IN IF how # "none" \/ d = Root THEN Verdict(how, d) ELSE match[Len(d) - 1]
  IN match[Len(path)]

(* check_dir, and the same test of scope for events.                       *)
Ignored(ignores, path) ==
  LET match == MatchPath(ignores, path)
  IN match.how = "ignore" /\ Under(match.from, path)
Panics(ignores, path) == MatchPath(ignores, path).how = "panic"
CheckDir(ignores, path) == ~Ignored(ignores, path)

-----------------------------------------------------------------------------
(* IgnoreFilterer: a path that is allowed forgives those before it.        *)
Allowed(ignores, path) == MatchPath(ignores, path).how = "allow"
IgnorePasses(ignores, event) ==
  \A i \in DOMAIN event.paths :
    Ignored(ignores, event.paths[i].path) =>
      \E j \in i + 1 .. Len(event.paths) : Allowed(ignores, event.paths[j].path)

(* GlobsetFilterer.  Its own patterns are rooted at the origin and matched *)
(* with the path alone, not with its parents.                              *)
Extension(name) ==
  LET dots == {i \in 2 .. Len(name) : name[i] = "."}
  IN IF dots = {} THEN "none" ELSE SubSeq(name, Max(dots) + 1, Len(name))

Globbed(lines, origin, p) ==
  Matched(lines, IF Under(origin, p.path) THEN Rest(origin, p.path) ELSE p.path) = "ignore"
HasFilters(filters) == \E i \in DOMAIN filters : ~filters[i].allow

PathPasses(globs, origin, p) ==
  /\ ~Globbed(globs.ignores, origin, p)
  /\ \/ ~HasFilters(globs.filters) /\ globs.extensions = {}
     \/ HasFilters(globs.filters) /\ Globbed(globs.filters, origin, p)
     \/ ~p.dir /\ Extension(Last(p.path)) \in globs.extensions

GlobsetPasses(globs, origin, ignores, event) ==
  \/ \E i \in DOMAIN event.paths : event.paths[i].path \in globs.whitelist
  \/ /\ IgnorePasses(ignores, event)
     /\ event.paths # <<>> =>
          \E i \in DOMAIN event.paths : PathPasses(globs, origin, event.paths[i])

(* WatchexecFilterer: the kind of the event first.  Filter programs stand  *)
(* for any answer.                                                         *)
Passes(globs, origin, ignores, event, program) ==
  /\ event.kind \in globs.kinds \cup {"none"}
  /\ GlobsetPasses(globs, origin, ignores, event)
  /\ program

-----------------------------------------------------------------------------
(* Reference: of the lines for the path or a directory above it, in files  *)
(* of directories above that, the one of the deepest file counts, there    *)
(* the one for the longest path, and then the last.                        *)
Claims(rules, path) ==
  UNION {{<<d, k, i>> : i \in Hits(rules[d].gitignore, SubSeq(path, Len(rules[d].root) + 1, k))} :
           d \in {e \in DOMAIN rules : Under(rules[e].root, path)}, k \in 1 .. Len(path)}
Outweighs(c, e) ==
  \/ Len(c[1]) > Len(e[1])
  \/ c[1] = e[1] /\ (c[2] > e[2] \/ (c[2] = e[2] /\ c[3] >= e[3]))
IgnoredBy(rules, path) ==
  \E c \in Claims(rules, path) :
    /\ \A e \in Claims(rules, path) : Outweighs(c, e)
    /\ ~rules[c[1]].gitignore[c[3]].allow
=============================================================================
