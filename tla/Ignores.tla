------------------------------- MODULE Ignores ------------------------------
(***************************************************************************)
(* How watchexec comes to ignore a path: the origin of the project is      *)
(* settled, its directories are walked for ignore files by the DirTourist, *)
(* which already obeys those that it has found, the files that the options *)
(* leave are loaded, and events are checked with them.  Every await may    *)
(* end in an error.                                                        *)
(***************************************************************************)
EXTENDS IgnoreRules

CONSTANTS
  Trees,      \* what there may be on the disk and in the environment
  CliOptions, \* what may be given as options
  FsEvents,   \* what may happen
  MaxErrors   \* bound: files and directories that cannot be read

VARIABLES
  tree,       \* what is on the disk and in the environment
  opts,       \* FilteringArgs, as given
  origin,     \* project_origin
  toVisit, toSkip,
  looking,    \* the directory that is searched, and for which of its files
  found,      \* ignore_files
  rules,      \* the filter of the DirTourist, then that of the filterer
  begun,      \* history: what the tour began with, [files: how many were found, rules]
  ignoreErrors,
  checked,    \* the event and the answer to it
  ignoreStep  \* "start", "tour", "visit", "look", "select", "build", "check",
              \* "done", "fail", "panic" or "off"

ignoreVars == <<tree, opts, origin, toVisit, toSkip, looking, found, rules, begun,
                ignoreErrors, checked, ignoreStep>>
walk == <<toVisit, toSkip, looking>>
given == <<tree, opts, origin>>

(* The directory above a directory is one, up to the first below the root. *)
IgnoresAssumption ==
  /\ \A t \in Trees :
       /\ t.dirs \subseteq Paths /\ IsFiniteSet(t.dirs) /\ t.workdir \in Paths
       /\ \A d \in t.dirs : Len(d) > 1 => Parent(d) \in t.dirs
       /\ \A d \in t.dirs \cup {t.workdir} : d # "none"
       /\ \A at \in DOMAIN t.files : t.files[at] \in LineLists
       /\ {t.excludes, t.info, t.bzrignore, t.vcsDirs, t.env.config} \subseteq LineLists
       /\ {t.env.git, t.env.bzr, t.env.app} \subseteq Seq(LineLists)
  /\ \A c \in CliOptions : /\ c.override \in Paths \cup {"none"}
                        /\ c.ignoreFiles \in Seq(LineLists)
  /\ \A e \in FsEvents : e.paths \in Seq([path: Paths, dir: BOOLEAN])
ASSUME IgnoresAssumption

Nowhere == [dir |-> Root, kind |-> 0]
Kinds == <<"ignore", "gitignore", "hgignore">>
To(kind) == CASE kind = "ignore" -> "none" [] kind = "gitignore" -> "git" [] OTHER -> "hg"
File(lines, in, to) == [lines |-> lines, in |-> in, to |-> to, readable |-> TRUE]
(* retain: what is at these places, in its order.                          *)
Only(s, places) ==
  LET kept[n \in 0 .. Len(s)] ==
        IF n = 0 THEN <<>>
        ELSE IF n \in places THEN Append(kept[n - 1], s[n]) ELSE kept[n - 1]
  IN kept[Len(s)]
(* discover_file: a file that is missing, or empty, is none.               *)
Discover(lines, in, to) == IF lines = <<>> THEN <<>> ELSE <<File(lines, in, to)>>
FirstOf(tries, to) ==
  LET there == {i \in DOMAIN tries : tries[i] # <<>>}
  IN IF there = {} THEN <<>> ELSE <<File(tries[Min(there)], "none", to)>>

-----------------------------------------------------------------------------
(* The origin.  paths is filled only after this has been asked for, so the *)
(* search that goes up from the paths to directories with the marks of a   *)
(* project is given none.                                                  *)
Origins(path) == {d \in tree.marked : Under(d, path)}
CommonPrefix(ps) ==
  LET one == CHOOSE p \in ps : TRUE
      shared == {k \in 0 .. Len(one) : \A p \in ps : Under(SubSeq(one, 1, k), p)}
  IN SubSeq(one, 1, Max(shared))
ProjectOrigin(paths) ==
  LET all == UNION {Origins(p) : p \in paths}
      origins == IF tree.home \in paths THEN all ELSE all \ {tree.home}
  IN IF opts.override # "none" THEN opts.override
     ELSE CommonPrefix(IF origins = {} THEN {tree.workdir} ELSE origins)

Watches == IF opts.paths = {} THEN {tree.workdir} ELSE opts.paths
Normalise ==
  /\ ignoreStep = "start"
  /\ origin' = ProjectOrigin({})
  /\ ignoreStep' = IF opts.noDiscover THEN "build" ELSE IF opts.noProject THEN "select" ELSE "tour"
  /\ UNCHANGED <<tree, opts, walk, found, rules, begun, ignoreErrors, checked>>

(* types(), as far as it is about version control.                         *)
FileAt(dir, kind) == IF <<dir, kind>> \in DOMAIN tree.files THEN tree.files[<<dir, kind>>] ELSE <<>>
VcsTypes ==
  tree.vcs \cup (IF <<origin, "hgignore">> \in DOMAIN tree.files THEN {"hg"} ELSE {})

-----------------------------------------------------------------------------
(* from_origin, up to DirTourist::new.                                     *)
Explicit(in) == [i \in DOMAIN opts.ignoreFiles |-> File(opts.ignoreFiles[i], in, "none")]
BeginTour ==
  /\ ignoreStep = "tour"
  /\ found' = Explicit(origin) \o Discover(tree.excludes, "none", "git")
                \o Discover(tree.bzrignore, origin, "bzr") \o Discover(tree.info, origin, "git")
  /\ \/ /\ ~NewFails(found')
        /\ \E order \in Orders(found') :
             rules' = AddLines(Loaded(origin, found', order), origin, tree.vcsDirs)
        /\ begun' = [files |-> Len(found'), rules |-> rules']
        /\ toVisit' = <<origin>> /\ ignoreStep' = "visit" /\ UNCHANGED ignoreErrors
     \/ /\ NewFails(found') \/ ignoreErrors < MaxErrors
        /\ ignoreErrors' = ignoreErrors + 1
        /\ ignoreStep' = "select" /\ UNCHANGED <<rules, begun, toVisit>>
  /\ UNCHANGED <<given, toSkip, looking, checked>>

MustSkip(path) ==
  \E k \in 0 .. Len(path) : SubSeq(path, 1, k) \in toSkip /\ (k = Len(path) \/ k # Len(origin))
Watched(path) == \E w \in Watches : Under(w, path) \/ Under(path, w)
Children(path) == {d \in tree.dirs : Len(d) = Len(path) + 1 /\ Under(path, d)}
AnyOrder(dirs) == {s \in [1 .. Cardinality(dirs) -> dirs] : ToSet(s) = dirs}

Pass(rest) == toVisit' = rest /\ ignoreStep' = "visit" /\ UNCHANGED <<toSkip, looking>>
Skip(path, rest) ==
  /\ toVisit' = Only(rest, {i \in DOMAIN rest : ~Under(path, rest[i])})
  /\ toSkip' = toSkip \cup {path}
  /\ ignoreStep' = "visit" /\ UNCHANGED looking

(* The directories in this one, in the order in which the disk has them,   *)
(* are put on the stack, before its own ignore files are looked for.  The  *)
(* listing may break off.                                                  *)
ReadDir(path, rest) ==
  LET children == {c \in Children(path) : ~MustSkip(c)}
      kept == {c \in children : CheckDir(rules, c)}
  IN \/ /\ \E order \in AnyOrder(kept) : toVisit' = rest \o order
        /\ toSkip' = toSkip \cup (children \ kept)
        /\ looking' = [dir |-> path, kind |-> 1] /\ ignoreStep' = "look"
        /\ UNCHANGED ignoreErrors
     \/ /\ ignoreErrors < MaxErrors /\ ignoreErrors' = ignoreErrors + 1
        /\ \E part \in SUBSET children : \E order \in AnyOrder(part \cap kept) :
             toVisit' = rest \o order /\ toSkip' = toSkip \cup (part \ kept)
        /\ ignoreStep' = "visit" /\ UNCHANGED looking

(* visit_path: also a directory that was put on the stack is checked again,*)
(* for its parents' files are known by now.                                *)
Visiting(check(_)) ==
  /\ ignoreStep = "visit" /\ toVisit # <<>>
  /\ LET path == Last(toVisit)
         rest == Front(toVisit)
         unread == UNCHANGED ignoreErrors
         enter == check(path) /\ Watched(path)
         tested == {path} \cup {c \in Children(path) : enter /\ ~MustSkip(c)}
     IN \/ MustSkip(path) /\ Pass(rest) /\ unread
        \/ /\ ~MustSkip(path) /\ \E d \in tested : Panics(rules, d)
           /\ ignoreStep' = "panic" /\ UNCHANGED walk /\ unread
        \/ /\ ~MustSkip(path) /\ \A d \in tested : ~Panics(rules, d)
           /\ IF enter THEN ReadDir(path, rest)
              ELSE Skip(path, rest) /\ unread
  /\ UNCHANGED <<given, found, rules, begun, checked>>
VisitUnchecked == Visiting(LAMBDA d : TRUE)
Visit == Visiting(LAMBDA d : CheckDir(rules, d))

(* One of the three files of a directory; it is obeyed from here on.       *)
Look ==
  /\ ignoreStep = "look"
  /\ LET kind == Kinds[looking.kind]
         file == Discover(FileAt(looking.dir, kind), looking.dir, To(kind))
         bad == file # <<>> /\ AddFails(file[1])
     IN \/ /\ found' = found \o file
           /\ rules' = IF file = <<>> THEN rules ELSE AddFile(rules, file[1])
           /\ ignoreErrors' = ignoreErrors + (IF bad THEN 1 ELSE 0)
        \/ /\ ignoreErrors < MaxErrors /\ file # <<>> /\ ignoreErrors' = ignoreErrors + 1
           /\ \/ UNCHANGED <<found, rules>>
              \/ found' = found \o file /\ rules' = With(rules, looking.dir)
  /\ IF looking.kind = Len(Kinds)
     THEN looking' = Nowhere /\ ignoreStep' = "visit"
     ELSE looking' = [looking EXCEPT !.kind = @ + 1] /\ UNCHANGED ignoreStep
  /\ UNCHANGED <<given, toVisit, toSkip, begun, checked>>

EndTour ==
  /\ ignoreStep = "visit" /\ toVisit = <<>>
  /\ ignoreStep' = "select"
  /\ UNCHANGED <<given, walk, found, rules, begun, ignoreErrors, checked>>

-----------------------------------------------------------------------------
(* from_environment.                                                       *)
FromEnvironment ==
  LET git == Discover(tree.env.config, "none", "git")
  IN (IF git # <<>> THEN git ELSE FirstOf(tree.env.git, "git"))
       \o FirstOf(tree.env.bzr, "bzr") \o FirstOf(tree.env.app, "none")

(* ignores(): what the options leave.  A file given as an option counts in *)
(* the origin with the files of the project, and everywhere with the rest. *)
OfVcs(file) == file.to = "none" \/ file.to \in VcsTypes
GitGlobal(file) == file.to = "git" /\ file.in = "none"
Effective ==
  LET project == IF opts.noProject THEN <<>>
                 ELSE IF VcsTypes = {} THEN found
                 ELSE Only(found, {i \in DOMAIN found : OfVcs(found[i])})
      overrides == VcsTypes # {} /\ \E i \in DOMAIN project : GitGlobal(project[i])
      env == FromEnvironment
      global == IF opts.noGlobal THEN <<>>
                ELSE Only(env, {i \in DOMAIN env :
                                  OfVcs(env[i]) /\ ~(overrides /\ GitGlobal(env[i]))})
      all == project \o global \o Explicit("none")
      Left(f) == /\ opts.noProject => f.in = "none" \/ ~Under(origin, f.in)
                 /\ opts.noGlobal => f.in # "none"
                 /\ opts.noVcs => f.to = "none"
  IN Only(all, {i \in DOMAIN all : Left(all[i])})
Select ==
  /\ ignoreStep = "select"
  /\ found' = Effective /\ ignoreStep' = "build"
  /\ UNCHANGED <<given, walk, rules, begun, ignoreErrors, checked>>

(* The filterer reads the files once more.                                 *)
Build ==
  /\ ignoreStep = "build"
  /\ \/ /\ ~NewFails(found) /\ ignoreStep' = "check"
        /\ \E order \in Orders(found) : rules' = Loaded(origin, found, order)
        /\ UNCHANGED ignoreErrors
     \/ /\ NewFails(found) \/ (found # <<>> /\ ignoreErrors < MaxErrors)
        /\ ignoreErrors' = ignoreErrors + 1 /\ ignoreStep' = "fail" /\ UNCHANGED rules
  /\ UNCHANGED <<given, walk, found, begun, checked>>

Globs == [filters |-> opts.filters, ignores |-> opts.ignores, extensions |-> opts.extensions,
          whitelist |-> opts.paths \ tree.dirs, kinds |-> opts.kinds]
Check ==
  /\ ignoreStep = "check"
  /\ \E event \in FsEvents : \E program \in BOOLEAN :
       /\ checked' = [event |-> event, program |-> program,
                      pass |-> Passes(Globs, origin, rules, event, program)]
       /\ ignoreStep' = IF \E i \in DOMAIN event.paths : Panics(rules, event.paths[i].path)
                        THEN "panic" ELSE "done"
  /\ UNCHANGED <<given, walk, found, rules, begun, ignoreErrors>>

NoEvent == [event |-> [paths |-> <<>>, kind |-> "none"], program |-> TRUE, pass |-> TRUE]
IgnoresIdle ==
  /\ origin = Root /\ toVisit = <<>> /\ toSkip = {} /\ looking = Nowhere /\ found = <<>>
  /\ rules = Empty(Root) /\ begun = [files |-> 0, rules |-> rules]
  /\ ignoreErrors = 0 /\ checked = NoEvent
IgnoresInit ==
  tree \in Trees /\ opts \in CliOptions /\ IgnoresIdle /\ ignoreStep = "start"
IgnoresNext ==
  Normalise \/ BeginTour \/ Visit \/ Look \/ EndTour \/ Select \/ Build \/ Check
IgnoresSpec == IgnoresInit /\ [][IgnoresNext]_ignoreVars

-----------------------------------------------------------------------------
(* What the walk decides early stays right.  When it is over, and nothing  *)
(* failed, the directories whose ignore files it took are those that no    *)
(* rule ignores, by all rules that were found in the end, for themselves   *)
(* or a directory above, and that lead to a watched path or lie below one. *)
(* Only the rules found in its own parent come too late to allow a         *)
(* directory that those from before ignore.  Directories are set aside     *)
(* whose name begins with that of another one with rules.  Then an event   *)
(* about one path that no other filter is about is dropped exactly when    *)
(* the rules that were loaded ignore its path.                             *)
Mistaken(path) == \E d \in DOMAIN rules : IsPrefix(Text(d), Text(path)) /\ ~Under(d, path)
Above(path) == {SubSeq(path, 1, k) : k \in Len(origin) .. Len(path)}
Ways == {d \in tree.dirs : Under(origin, d) /\ \A e \in Above(d) : ~Mistaken(e)}
EarlierRules(dir) ==
  IF Parent(dir) = origin THEN begun.rules
  ELSE [d \in DOMAIN rules \ {Parent(dir)} |-> rules[d]]
Shut(dir) == IgnoredBy(rules, dir) \/ (dir # origin /\ IgnoredBy(EarlierRules(dir), dir))
Open(dir) == \A e \in Above(dir) : ~Shut(e) /\ Watched(e)
Taken == {found[i] : i \in begun.files + 1 .. Len(found)}

WalkIsRight ==
  ignoreStep = "select" /\ ~opts.noProject /\ ignoreErrors = 0 =>
    \A d \in Ways : \A i \in DOMAIN Kinds :
      FileAt(d, Kinds[i]) # <<>> =>
        (Open(d) <=> File(FileAt(d, Kinds[i]), d, To(Kinds[i])) \in Taken)

EventIsRight ==
  LET paths == checked.event.paths
      path == paths[1].path
      plain == /\ opts.filters = <<>> /\ opts.ignores = <<>> /\ opts.extensions = {}
               /\ path \notin opts.paths /\ checked.program
               /\ checked.event.kind \in opts.kinds \cup {"none"}
  IN ignoreStep = "done" /\ Len(paths) = 1 /\ Under(origin, path) /\ ~Mistaken(path) /\ plain =>
       (checked.pass <=> ~IgnoredBy(rules, path))

IgnoresApply == WalkIsRight /\ EventIsRight

(* "ignores explicitly loaded via other command line options, such as      *)
(* '--ignore' or '--ignore-file', will still be used": an event about a    *)
(* path that such a file ignores is dropped, unless a rule allows the path *)
(* or it was itself given to be watched.                                   *)
ExplicitIgnoresApply ==
  ignoreStep = "done" =>
    \A p \in ToSet(checked.event.paths) :
      /\ p.path \notin opts.paths
      /\ \E i \in DOMAIN opts.ignoreFiles : \E j \in DOMAIN opts.ignoreFiles[i] :
           opts.ignoreFiles[i][j] = Line(Last(p.path))
      /\ Cardinality(DOMAIN checked.event.paths) = 1
      /\ \A d \in DOMAIN rules : \A j \in DOMAIN rules[d].gitignore : ~rules[d].gitignore[j].allow
      => ~checked.pass
=============================================================================
