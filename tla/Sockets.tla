------------------------------- MODULE Sockets ------------------------------
(***************************************************************************)
(* ss, and the network part of lsof: the kernel's socket tables are read   *)
(* one by one, each with two calls, for its size and for its rows, while   *)
(* other programs open and close sockets and pids are used again.          *)
(***************************************************************************)
EXTENDS Integers, FiniteSets, Sequences, SequencesExt

CONSTANTS
  SomeSockets,   \* sockets that may be open
  Programs,      \* names of programs
  MaxChanges     \* bound: what other programs do

ASSUME SocketAssumption ==
  \A s \in SomeSockets : s.proto \in {"tcp", "udp"} /\ s.ip \in {4, 6}

VARIABLES
  open,          \* sockets that are open now
  running,       \* running[pid]: the program with that pid
  query,         \* the command line; its port is that of sport or of dport, named: it has -c
  tables,        \* tables that are yet to be read
  room,          \* size of the first one, or -1 before it was asked for
  sockRows,      \* rows that were read, and then those that are shown
  counted,       \* rows the summary counts
  procs,         \* the program's map of pids to names
  sockStep,      \* "begin", "names", "read", "filter", "count", "done" or "off"
  ever, stayed,  \* history: sockets open at some time, and all the time
  outgrown,      \* history: tables that grew between the two calls
  renamed,       \* history: pids that went to another program
  changes

sockVars == <<open, running, query, tables, room, sockRows, counted, procs, sockStep,
              ever, stayed, outgrown, renamed, changes>>
sockWorld == <<open, running, ever, stayed, renamed, changes>>

LISTEN == 2
NotShown == {1, LISTEN, 12}     \* CLOSED, LISTEN, DELETE_TCB
Table(s) == <<s.proto, s.ip>>
Rows(t) == {s \in open : Table(s) = t}
Flag(f) == f \in query.flags

(* parse_state knows neither "closed" nor "delete-tcb", and a port is what *)
(* follows a colon in one argument; anything else is no filter at all.     *)
FilterState == IF query.state \in 2 .. 11 THEN query.state ELSE 0
FilterPort == IF query.colon THEN query.port ELSE 0

(* TCP is always shown, whatever is asked for.                             *)
Tables(udp) ==
  LET of(proto) == (IF Flag("6") THEN <<>> ELSE <<<<proto, 4>>>>)
                     \o (IF Flag("4") THEN <<>> ELSE <<<<proto, 6>>>>)
  IN of("tcp") \o (IF udp THEN of("udp") ELSE <<>>)
EveryTable == <<<<"tcp", 4>>, <<"tcp", 6>>, <<"udp", 4>>, <<"udp", 6>>>>
LsofTables == <<<<"tcp", 4>>, <<"udp", 4>>>>

-----------------------------------------------------------------------------
(* Other programs.                                                         *)
Open ==
  /\ sockStep \notin {"done", "off"} /\ changes < MaxChanges
  /\ \E s \in SomeSockets \ open : open' = open \cup {s} /\ ever' = ever \cup {s}
  /\ changes' = changes + 1
  /\ UNCHANGED <<running, query, tables, room, sockRows, counted, procs, sockStep, stayed,
                 outgrown, renamed>>

CloseSocket ==
  /\ sockStep \notin {"done", "off"} /\ changes < MaxChanges
  /\ \E s \in open : open' = open \ {s} /\ stayed' = stayed \ {s}
  /\ changes' = changes + 1
  /\ UNCHANGED <<running, query, tables, room, sockRows, counted, procs, sockStep, ever,
                 outgrown, renamed>>

(* A process without sockets ends, and its pid is used again.              *)
Reuse ==
  /\ sockStep \notin {"done", "off"} /\ changes < MaxChanges
  /\ \E p \in DOMAIN running, n \in Programs :
       /\ \A s \in open : s.pid # p
       /\ running' = [running EXCEPT ![p] = n] /\ renamed' = renamed \cup {p}
  /\ changes' = changes + 1
  /\ UNCHANGED <<open, query, tables, room, sockRows, counted, procs, sockStep, ever, stayed,
                 outgrown>>

-----------------------------------------------------------------------------
(* lsof knows the processes before it reads the tables, ss only after.     *)
BeginSockets ==
  /\ sockStep = "begin"
  /\ IF query.tool = "lsof"
     THEN tables' = LsofTables /\ procs' = running
     ELSE tables' = Tables(Flag("u") \/ Flag("a")) /\ UNCHANGED procs
  /\ sockStep' = "read"
  /\ UNCHANGED <<sockWorld, query, room, sockRows, counted, outgrown>>

AskSize ==
  /\ sockStep \in {"read", "count"} /\ tables # <<>> /\ room = -1
  /\ room' = Cardinality(Rows(Head(tables)))
  /\ UNCHANGED <<sockWorld, query, tables, sockRows, counted, procs, sockStep, outgrown>>

(* Any error of the second call, and there is one when the table has grown *)
(* since the first, is an empty table.                                     *)
Fetch ==
  /\ sockStep \in {"read", "count"} /\ tables # <<>> /\ room >= 0
  /\ LET t == Head(tables)
         fits == Cardinality(Rows(t)) <= room
         got == IF fits THEN Rows(t) ELSE {}
     IN /\ outgrown' = IF fits \/ sockStep = "count" THEN outgrown ELSE outgrown \cup {t}
        /\ IF sockStep = "read"
           THEN sockRows' = sockRows \cup got /\ UNCHANGED counted
           ELSE counted' = counted \cup got /\ UNCHANGED sockRows
  /\ tables' = Tail(tables) /\ room' = -1
  /\ UNCHANGED <<sockWorld, query, procs, sockStep>>

(* The summary reads all the tables once more, and with no other option it *)
(* is all there is.                                                        *)
Summarise ==
  /\ sockStep = "read" /\ tables = <<>> /\ query.tool = "ss" /\ Flag("s")
  /\ tables' = EveryTable /\ sockStep' = "count"
  /\ UNCHANGED <<sockWorld, query, room, sockRows, counted, procs, outgrown>>

Counted ==
  /\ sockStep = "count" /\ tables = <<>>
  /\ IF query.flags \cap {"t", "u", "a", "l"} = {}
     THEN sockRows' = {} /\ sockStep' = "done"
     ELSE sockStep' = "filter" /\ UNCHANGED sockRows
  /\ UNCHANGED <<sockWorld, query, tables, room, counted, procs, outgrown>>

(* retain(): by -l or its absence, by state, by port.                      *)
AnyMode(s, listening) ==
  s.proto = "tcp" => IF listening THEN s.state = LISTEN ELSE Flag("a") \/ s.state \notin NotShown
PassesModeListening(s) == AnyMode(s, Flag("l"))
PassesMode(s) == AnyMode(s, Flag("l") /\ ~Flag("a"))
PassesState(s) == FilterState # 0 /\ s.proto = "tcp" => s.state = FilterState
PassesPort(s) == FilterPort # 0 => FilterPort \in {s.local, s.remote}

Filter ==
  /\ \/ sockStep = "filter"
     \/ sockStep = "read" /\ tables = <<>> /\ (query.tool = "ss" => ~Flag("s"))
  /\ IF query.tool = "lsof"
     THEN sockRows' = {s \in sockRows : query.pids # {} => s.pid \in query.pids}
     ELSE sockRows' = {s \in sockRows : PassesMode(s) /\ PassesState(s) /\ PassesPort(s)}
  /\ sockStep' = "names"
  /\ UNCHANGED <<sockWorld, query, tables, room, counted, procs, outgrown>>

(* -p: names of the processes there are now.                               *)
Name ==
  /\ sockStep = "names" /\ sockStep' = "done"
  /\ procs' = IF query.tool = "ss" /\ Flag("p") THEN running ELSE procs
  /\ UNCHANGED <<sockWorld, query, tables, room, sockRows, counted, outgrown>>

SockIdle ==
  /\ tables = <<>> /\ room = -1 /\ sockRows = {} /\ counted = {} /\ procs = [p \in {} |-> ""]
  /\ ever = open /\ stayed = open /\ outgrown = {} /\ renamed = {} /\ changes = 0

SockNext ==
  Open \/ CloseSocket \/ Reuse \/ BeginSockets \/ AskSize \/ Fetch \/ Summarise \/ Counted \/ Filter \/ Name

-----------------------------------------------------------------------------
(* What keeps a socket out of the list, as the help and the comments of ss *)
(* say it: -4 and -6 the other family; -t "TCP sockets", -u "UDP sockets", *)
(* -a all, and without any TCP; a state those in another; -l what does not *)
(* listen, and without -l, -a and a state what is no connection; and sport *)
(* and dport another port at that end.  lsof -i: -p and -c other processes.*)
OtherFamily(s) == Flag(IF s.ip = 4 THEN "6" ELSE "4")
OtherProtocol(s) ==
  IF s.proto = "udp" THEN ~Flag("u") /\ (Flag("t") \/ ~Flag("a")) ELSE Flag("u") /\ ~Flag("t")
OtherState(s) == query.state # 0 /\ s.state # query.state
NotInMode(s) ==
  /\ s.proto = "tcp" /\ ~Flag("a")
  /\ IF Flag("l") THEN s.state # LISTEN ELSE query.state = 0 /\ s.state \in NotShown
OtherPort(s) == query.port # 0 /\ query.port # IF query.source THEN s.local ELSE s.remote
OtherProcess(s) == (query.named \/ query.pids # {}) /\ s.pid \notin query.pids
Excluded(s) ==
  IF query.tool = "lsof" THEN OtherProcess(s)
  ELSE OtherFamily(s) \/ OtherProtocol(s) \/ OtherState(s) \/ NotInMode(s) \/ OtherPort(s)

(* Known: what is listed all the same.  TCP is always read, and with -a UDP*)
(* too, -t or not; a state that parse_state does not know filters nothing, *)
(* and none filters UDP; nor does a port without a colon, and one with it  *)
(* may be that of the other end.  A -c that no program matches filters     *)
(* nothing.                                                                *)
ListedAnyway(s) ==
  IF query.tool = "lsof" THEN query.pids = {}
  ELSE /\ ~OtherFamily(s) /\ ~NotInMode(s)
       /\ OtherProtocol(s) => s.proto = "tcp" \/ Flag("a")
       /\ OtherState(s) => s.proto = "udp" \/ query.state \notin 2 .. 11
       /\ OtherPort(s) => ~query.colon \/ query.port \in {s.local, s.remote}

(* Known: what is not listed though nothing excludes it.  lsof reads no    *)
(* table of IPv6; and who asks for the sockets that listen by "state", as  *)
(* the help's own example does, needs -a or -l to see them.                *)
NeverListed(s) ==
  IF query.tool = "lsof" THEN s.ip = 6
  ELSE s.proto = "tcp" /\ query.state = s.state /\ s.state \in NotShown /\ ~Flag("a") /\ ~Flag("l")

(* The list of ss and of lsof -i, however sockets come and go meanwhile:   *)
(* each row was open at some time, and is none that the options exclude but*)
(* for the ones known to be listed anyway; a socket that was open all the  *)
(* time is listed, unless it is excluded, or known never to be listed, or  *)
(* its table grew between the two calls, which loses the whole table; and  *)
(* a row has its program's name, unless the pid went to another program.   *)
SocketsAreTrue ==
  sockStep = "done" /\ (query.tool = "lsof" \/ ~Flag("s") \/ query.flags \cap {"t", "u", "a", "l"} # {}) =>
    /\ sockRows \subseteq ever
    /\ \A s \in sockRows : Excluded(s) => ListedAnyway(s)
    /\ \A s \in stayed :
         s \in sockRows \/ Excluded(s) \/ NeverListed(s) \/ Table(s) \in outgrown
    /\ \A s \in sockRows : s.pid \in DOMAIN procs /\ s.pid \notin renamed => procs[s.pid] = running[s.pid]
=============================================================================
