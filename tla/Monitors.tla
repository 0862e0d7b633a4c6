------------------------------ MODULE Monitors ------------------------------
(* The four programs: what each reads, how it orders and draws it, and     *)
(* which keys it has.  The terminal is taken to belong to a machine with   *)
(* two processors (the bars of htop take one row).                         *)
EXTENDS Monitor

Risky == prog \in {"top", "iotop"}   \* rows - 2 may overflow: where it is checked, a panic

KeyOf(a, r) == CASE a.sort = "pid" -> r.pid [] a.sort = "time" -> r.count [] OTHER -> r.rate
InOrder(a) ==
  Sorted(a.procs, [i \in Passing(a) |->
    LET k == KeyOf(a, a.procs[i]) IN <<IF a.rev THEN k ELSE -k, 0>>])
(* After a reading the scroll position is put back into the list.          *)
Clamped(a) == [a EXCEPT !.scroll = Pages(@, Cardinality(Passing(a)))]

(* htop: the footer says what F9 does; its k does the same and is silent.  *)
HtopListed(a) == InOrder(a)
HtopRoom(a) == Sub(a.rows, 8)
HtopDraw(a) == Picture(a, HtopListed(a), HtopRoom(a))
HtopKey(a) ==
  IF a.filtering THEN FilterKey(a)
  ELSE Search(a) \cup Sorts(a, {"rate", "pid", "time"}) \cup TurnOrder(a) \cup Scrolls(a)
HtopSnapshot == {p \in Pids : Alive(p)}
HtopRates == Rated(HtopSnapshot, prev)
HtopRefresh(a, rows) == Clamped([a EXCEPT !.procs = rows])
HtopStart(h) ==
  [rows |-> h, procs |-> <<>>, links |-> {}, ports |-> {}, udp |-> FALSE, sort |-> "rate",
   rev |-> FALSE, scroll |-> 0, filter |-> <<>>, filtering |-> FALSE]

(* top: as htop, with a header of six rows and a footer of two.            *)
TopListed(a) == InOrder(a)
TopRoom(a) == Sub(a.rows, 8)
TopDraw(a) == Picture(a, TopListed(a), TopRoom(a))
TopKey(a) ==
  IF a.filtering THEN FilterKey(a)
  ELSE Search(a) \cup Sorts(a, {"rate", "pid", "time"}) \cup TurnOrder(a) \cup Scrolls(a)
TopSnapshot == {p \in Pids : Alive(p)}
TopRates == Rated(TopSnapshot, prev)
TopRefresh(a, rows) == Clamped([a EXCEPT !.procs = rows])

(* iotop: bytes instead of cpu time, and nothing is killed.                *)
IotopListed(a) == InOrder(a)
IotopRoom(a) == Sub(a.rows, 5)
IotopDraw(a) == Picture(a, IotopListed(a), IotopRoom(a))
IotopKey(a) ==
  IF a.filtering THEN FilterKey(a)
  ELSE Search(a) \cup Sorts(a, {"rate", "pid"}) \cup TurnOrder(a) \cup Scrolls(a)
IotopSnapshot == {p \in Pids : Alive(p)}
IotopRates == Rated(IotopSnapshot, prev)
IotopRefresh(a, rows) == Clamped([a EXCEPT !.procs = rows])

(* iptop: interfaces that are up, with their rates, over the connections,  *)
(* established ones first.  The scroll position is not put back.           *)
IptopListed(a) ==
  Sorted(a.procs, [i \in Passing(a) |-> <<IF a.procs[i].open THEN 0 ELSE 1, a.procs[i].pid>>])
IptopRoom(a) == LET n == Least(Cardinality(a.links), 6) IN Sub(a.rows, 7 + (IF n = 0 THEN 1 ELSE n))
IptopDraw(a) == Picture(a, IptopListed(a), IptopRoom(a))
Toggle(a) == {[a EXCEPT !.udp = ~@, !.scroll = 0]}
IptopKey(a) == IF a.filtering THEN FilterKey(a) ELSE Search(a) \cup Toggle(a) \cup Scrolls(a)
IptopInterfaces == Rated({p \in Pids : world[p].life = "open"}, prev)
IptopConnections == {Row(p, 0) : p \in {q \in Pids : Alive(q)}}
IptopRefresh(a, rows) ==
  [a EXCEPT !.procs = rows, !.links = IptopInterfaces,
            !.ports = IF a.udp THEN {p \in Pids : Alive(p)} ELSE {}]

-----------------------------------------------------------------------------
Room(a) ==
  CASE prog = "htop" -> HtopRoom(a) [] prog = "top" -> TopRoom(a)
    [] prog = "iotop" -> IotopRoom(a) [] prog = "iptop" -> IptopRoom(a)
Draw(a) ==
  CASE prog = "htop" -> HtopDraw(a) [] prog = "top" -> TopDraw(a)
    [] prog = "iotop" -> IotopDraw(a) [] prog = "iptop" -> IptopDraw(a)
Keys(a) ==
  CASE prog = "htop" -> HtopKey(a) [] prog = "top" -> TopKey(a)
    [] prog = "iotop" -> IotopKey(a) [] prog = "iptop" -> IptopKey(a)
Listing ==
  CASE prog = "htop" -> HtopRates [] prog = "top" -> TopRates
    [] prog = "iotop" -> IotopRates [] prog = "iptop" -> IptopConnections
Refresh(a, rows) ==
  CASE prog = "htop" -> HtopRefresh(a, rows) [] prog = "top" -> TopRefresh(a, rows)
    [] prog = "iotop" -> IotopRefresh(a, rows) [] prog = "iptop" -> IptopRefresh(a, rows)

Show(a) ==
  /\ app' = a
  /\ \/ screen' = Draw(a) /\ place' = "loop"
     \/ Risky /\ a.rows < 2 /\ place' = "panic" /\ UNCHANGED screen

KeyStep == Key /\ (\E a \in Keys(app) : Show(a)) /\ UNCHANGED <<outside, prev, missed>>

ResizeStep ==
  /\ place = "loop" /\ Resizes /\ missed' = FALSE
  /\ Show([app EXCEPT !.rows = height'])
  /\ UNCHANGED <<prog, world, prev, since>>

(* The prompt of htop and top: a pid and Enter, or Esc.                    *)
PromptStep ==
  \/ prog \in {"htop", "top"} /\ OpenPrompt
  \/ PromptResize
  \/ /\ place = "prompt"
     /\ (UNCHANGED world \/ \E p \in Pids : Kill(p))
     /\ Show(app)
     /\ UNCHANGED <<prog, height, prev, spent, since, missed>>

(* What the next reading is compared with.                                 *)
FirstReading == prev
ThisReading == IF prog = "iptop" THEN app'.links ELSE Listing

(* Two seconds are over.                                                   *)
ReadStep ==
  /\ place = "loop" /\ Spend
  /\ \E rows \in Orders(Listing) : Show(Refresh(app, rows))
  /\ prev' = ThisReading
  /\ since' = [p \in Pids |-> world[p].count]
  /\ UNCHANGED <<prog, world, height, missed>>

MonitorInit ==
  /\ prog \in {"htop", "top", "iotop", "iptop"}
  /\ world \in [Pids -> {Absent, [life |-> "shut", count |-> 1], [life |-> "open", count |-> 1]}]
  /\ height \in Heights
  /\ prev = IF prog = "iptop" THEN {} ELSE {Row(p, 0) : p \in {q \in Pids : Alive(q)}}
  /\ \E rows \in Orders(prev) : app = [HtopStart(height) EXCEPT !.procs = rows]
  /\ screen = Draw(app) /\ place = "loop"
  /\ spent = 0
  /\ since = [p \in Pids |-> world[p].count] /\ missed = FALSE

MonitorNext == World \/ KeyStep \/ ResizeStep \/ PromptStep \/ ReadStep \/ Leave

-----------------------------------------------------------------------------
Before(q, r) ==
  IF prog = "iptop" THEN q.open /\ ~r.open
  ELSE IF app.rev THEN KeyOf(app, q) < KeyOf(app, r) ELSE KeyOf(app, q) > KeyOf(app, r)

(* Whatever was typed, whatever ended and however often the terminal was   *)
(* resized: the rows on the screen are rows of the last reading the filter *)
(* lets through, in order and without a gap, some when there are any, all  *)
(* that fit when nothing was scrolled; and they are drawn for the terminal *)
(* there is, unless the prompt swallowed its resize (htop:590, top:485).   *)
ListIsCurrent ==
  place = "loop" =>
    LET shown == screen.list
        wanted == {r \in ToSet(app.procs) : Matches(app, r)}
    IN /\ missed \/ screen.height = height
       /\ screen.bar = app.filtering
       /\ ToSet(shown) \subseteq wanted /\ IsInjective(shown)
       /\ \A i, j \in DOMAIN shown : i < j => ~Before(shown[j], shown[i])
       /\ \A r \in wanted \ ToSet(shown) : \A i, j \in DOMAIN shown :
            ~(Before(shown[i], r) /\ Before(r, shown[j]))
       /\ wanted # {} /\ Room(app) > 0 => shown # <<>>
       /\ app.scroll = 0 => Len(shown) = Least(Room(app), Cardinality(wanted))

(* No row shows more than its process counted since the last reading,      *)
(* though pids are used again and readings fail: save a process that could *)
(* not be read then and can be now, of which all it ever counted is shown. *)
NoSpike ==
  [][ReadStep =>
       \A r \in ToSet(app'.procs) \cup app'.links :
         \/ r.rate <= world[r.pid].count - since[r.pid]
         \/ \E old \in prev : old.pid = r.pid /\ ~old.open]_monitorVars
=============================================================================
