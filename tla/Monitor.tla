------------------------------ MODULE Monitor -------------------------------
(***************************************************************************)
(* What htop, top, iotop and iptop share: a table of processes, read anew  *)
(* every two seconds, and keys that sort, filter, scroll and kill.  The    *)
(* system is outside: its processes work, end and begin under a pid that   *)
(* was free, and the terminal is resized, while the program looks away.    *)
(*                                                                         *)
(* A figure (cpu time, bytes) is what was counted since the last reading;  *)
(* all rows of a table share the interval, so it is left out.  For iptop a *)
(* pid stands for an interface and the connection over it.  Colours,       *)
(* columns, bars, the memory and the cores are left out.                   *)
(***************************************************************************)
EXTENDS Integers, FiniteSets, Sequences, SequencesExt

CONSTANTS
  Pids,
  Texts,       \* Texts[p]: the texts over Letters of p's row a filter is looked for in
  Letters,     \* what may be typed into a filter
  Heights,     \* rows the terminal may have, at least one
  MaxSteps     \* bound: keys, resizes, readings and events of the system

ASSUME MonitorAssumption == Pids \subseteq Nat /\ IsFiniteSet(Pids) /\ Heights \subseteq Nat

VARIABLES
  prog,     \* which program
  world,    \* the processes: not there, there, or there and open to be read
  height,   \* rows of the terminal
  app,      \* struct App
  prev,     \* the rows of the reading before
  screen,   \* what was drawn last
  place,    \* "loop", "prompt", "exit" or "panic"
  spent,    \* how many of them there were
  since,    \* history: what each process had counted when it was last read
  missed    \* history: the prompt swallowed the last resize

monitorVars == <<prog, world, height, app, prev, screen, place, spent, since, missed>>
outside == <<prog, world, height, since>>

Absent == [life |-> "none", count |-> 0]
Alive(p) == world[p].life # "none"

(* min and saturating_sub.                                                 *)
Least(m, n) == IF m < n THEN m ELSE n
Sub(m, n) == IF m < n THEN 0 ELSE m - n

-----------------------------------------------------------------------------
(* Reading: every process of the snapshot, with 0 for what may not be read *)
(* of it.  The table comes out of a hash map, in any order.                *)
Row(p, rate) ==
  [pid |-> p, rate |-> rate, open |-> world[p].life = "open",
   count |-> IF world[p].life = "open" THEN world[p].count ELSE 0]
Orders(rows) == {s \in [1 .. Cardinality(rows) -> rows] : ToSet(s) = rows}

(* The figure of a row that the last reading had as well, among old.       *)
Rate(p, old) ==
  LET now == Row(p, 0).count
      same == {r \in old : r.pid = p}
  IN IF same = {} THEN 0 ELSE Sub(now, (CHOOSE r \in same : TRUE).count)
Rated(ids, old) == {Row(p, Rate(p, old)) : p \in ids}

(* filter(), then sort_by(), which is stable.  key says for the places of  *)
(* the table that pass by what they are sorted, a pair for a comparison    *)
(* with a then(): a row comes after those with a lesser key, and after     *)
(* those with the same key that were before it.                            *)
Occurs(f, t) == \E i \in 0 .. Len(t) - Len(f) : SubSeq(t, i + 1, i + Len(f)) = f
Matches(a, r) == a.filter = <<>> \/ \E t \in Texts[r.pid] : Occurs(a.filter, t)
Passing(a) == {i \in DOMAIN a.procs : Matches(a, a.procs[i])}
Lesser(k, l) == k[1] < l[1] \/ (k[1] = l[1] /\ k[2] < l[2])
UpTo(key, i) == {j \in DOMAIN key : Lesser(key[j], key[i]) \/ (key[j] = key[i] /\ j <= i)}
Sorted(rows, key) ==
  [n \in 1 .. Cardinality(DOMAIN key) |->
     rows[CHOOSE i \in DOMAIN key : Cardinality(UpTo(key, i)) = n]]

(* The rows that are drawn: from the scroll position, or from the last row *)
(* when that is behind the end.                                            *)
Window(list, from, room) == SubSeq(list, from + 1, Least(from + room, Len(list)))
Pages(scroll, n) == Least(scroll, Sub(n, 1))
PictureUnclamped(a, list, room) ==
  [height |-> a.rows, bar |-> a.filtering, list |-> Window(list, a.scroll, room)]
Picture(a, list, room) ==
  [height |-> a.rows, bar |-> a.filtering, list |-> Window(list, Pages(a.scroll, Len(list)), room)]

-----------------------------------------------------------------------------
(* The system.                                                             *)
Spend == spent < MaxSteps /\ spent' = spent + 1
Inside == <<prog, height, app, prev, screen, place, missed>>

Works(p) ==
  /\ Alive(p) /\ Spend
  /\ world' = [world EXCEPT ![p].count = @ + 1]
  /\ UNCHANGED <<Inside, since>>
Ends(p) ==
  /\ Alive(p) /\ Spend
  /\ world' = [world EXCEPT ![p] = Absent]
  /\ UNCHANGED <<Inside, since>>
Begins(p) ==
  /\ ~Alive(p) /\ Spend
  /\ \E life \in {"shut", "open"} : world' = [world EXCEPT ![p] = [life |-> life, count |-> 0]]
  /\ since' = [since EXCEPT ![p] = 0]
  /\ UNCHANGED Inside
Opens(p) ==
  /\ world[p].life = "shut" /\ Spend
  /\ world' = [world EXCEPT ![p].life = "open"]
  /\ UNCHANGED <<Inside, since>>
World == place \in {"loop", "prompt"} /\ \E p \in Pids : Works(p) \/ Ends(p) \/ Begins(p) \/ Opens(p)

-----------------------------------------------------------------------------
(* Keys.  A handler changes app and draws it.                              *)
Key == place = "loop" /\ Spend
Pressed == Key /\ ~app.filtering

(* A key of the filter line: done, erased, or a letter.                    *)
FilterKey(a) ==
  {[a EXCEPT !.filtering = FALSE], [a EXCEPT !.filter = SubSeq(@, 1, Sub(Len(@), 1))]}
  \cup {[a EXCEPT !.filter = Append(@, l)] : l \in Letters}
Search(a) == {[a EXCEPT !.filtering = TRUE, !.filter = <<>>]}
Sorts(a, keys) == {[a EXCEPT !.sort = k, !.scroll = 0] : k \in keys}
TurnOrder(a) == {[a EXCEPT !.rev = ~@]}
Scrolls(a) ==
  {[a EXCEPT !.scroll = s] : s \in {Sub(a.scroll, 1), a.scroll + 1, 0,
                                    Sub(a.scroll, a.rows \div 2), a.scroll + a.rows \div 2}}

(* TerminateProcess of the pid that was typed: whichever process has it by *)
(* now.                                                                    *)
Kill(p) == Alive(p) /\ world' = [world EXCEPT ![p] = Absent]

(* The prompt reads events itself, and drops all but keys.                 *)
OpenPrompt == Pressed /\ place' = "prompt" /\ UNCHANGED <<outside, app, prev, screen, missed>>
Resizes == Spend /\ \E h \in Heights \ {height} : height' = h
PromptResize ==
  /\ place = "prompt" /\ Resizes /\ missed' = TRUE
  /\ UNCHANGED <<prog, world, app, prev, screen, place, since>>

(* break, or an error of the terminal on the way: main puts it in order.   *)
Leave ==
  /\ \/ Pressed
     \/ place \in {"loop", "prompt"} /\ UNCHANGED spent
  /\ place' = "exit" /\ UNCHANGED <<outside, app, prev, screen, missed>>
=============================================================================
