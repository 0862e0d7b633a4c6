-------------------------------- MODULE Lsof --------------------------------
(***************************************************************************)
(* lsof: every open handle of the system is duplicated into the program's  *)
(* own handle table, asked for its type and, in a thread of its own, for   *)
(* its name.  The question may never be answered, so after 80 ms the       *)
(* handle is closed and its number is free for the next one, while the     *)
(* thread may still be about to ask.                                       *)
(***************************************************************************)
EXTENDS Integers, FiniteSets, Sequences, SequencesExt, FiniteSetsExt

CONSTANTS
  Owners,     \* pids of processes with handles
  Slots,      \* numbers of the program's own handle table
  Names,      \* paths in the form the kernel gives them
  Devices     \* Devices[d]: the paths that begin with the device of drive d

VARIABLES
  listed,     \* the handles of the system, as they were enumerated
  handles,    \* those yet to be looked at
  wanted,     \* pids given with -p, and those whose name matched -c
  byName,     \* the command line has -c
  table,      \* own handle table: the handles that are open in it
  asking,     \* question threads: which slot, and what they found there
  waiting,    \* the thread that is waited for
  rows,       \* result
  step        \* "next", "query", "close", "done" or "off"

lsofVars == <<listed, handles, wanted, byName, table, asking, waiting, rows, step>>

Handle == [pid: Owners, file: BOOLEAN, name: Names]
Free == [pid |-> 0, file |-> FALSE, name |-> "none"]   \* pid 0 is never looked at
(* pid_opt: a list without any pid is no filter, also when it is empty     *)
(* because no process has the name that was given.                         *)
Filtered == wanted # {}
Chosen(pids, named) == pids \cup named

(* The drive of a path, by whichever of the devices that begin it is met   *)
(* first in the map; a path of no drive stays as it is.                    *)
NtToDos(n) ==
  LET of == {d \in DOMAIN Devices : n \in Devices[d]}
  IN IF of = {} THEN {[drive |-> "none", name |-> n]} ELSE {[drive |-> d, name |-> n] : d \in of}

Current == Head(handles)
Skip == handles' = Tail(handles) /\ step' = "next" /\ UNCHANGED <<table, asking, waiting, rows>>

(* A handle of an unwanted process, or one that cannot be opened.          *)
SkipHandle ==
  /\ step = "next" /\ handles # <<>>
  /\ Skip /\ UNCHANGED <<wanted, byName, listed>>

Duplicate ==
  /\ step = "next" /\ handles # <<>>
  /\ Filtered => Current.pid \in wanted
  /\ \E s \in {t \in Slots : table[t] = Free} :
       /\ table' = [table EXCEPT ![s] = Current]
       /\ IF Current.file
          THEN /\ asking' = asking \cup {[slot |-> s, id |-> Len(handles), found |-> "nothing"]}
               /\ waiting' = Len(handles) /\ step' = "query"
          ELSE waiting' = 0 /\ step' = "close" /\ UNCHANGED asking
  /\ UNCHANGED <<wanted, byName, listed, handles, rows>>

(* A thread reads the name of whatever is in its slot by now, or nothing   *)
(* when the slot is free or the call fails.                                *)
Ask(q) ==
  /\ q \in asking /\ q.found = "nothing"
  /\ \E answer \in {"none"} \cup (IF table[q.slot] = Free THEN {} ELSE {table[q.slot].name}) :
       asking' = (asking \ {q}) \cup {[q EXCEPT !.found = answer]}
  /\ UNCHANGED <<wanted, byName, listed, handles, table, waiting, rows, step>>

(* The channel belongs to one question: only its own thread answers.       *)
AnyAnswer(answers) ==
  /\ step = "query" /\ step' = "close"
  /\ \E q \in answers :
       /\ q.found # "nothing"
       /\ asking' = asking \ {q}
       /\ IF q.found = "none" THEN UNCHANGED rows
          ELSE \E path \in NtToDos(q.found) : rows' = rows \cup {[pid |-> Current.pid, path |-> path]}
  /\ UNCHANGED <<wanted, byName, listed, handles, table, waiting>>
AnswerFromAnyone == AnyAnswer(asking)
Answer == AnyAnswer({q \in asking : q.id = waiting})

(* recv_timeout: the thread goes on, and sends to nobody.                  *)
Timeout ==
  /\ step = "query" /\ step' = "close"
  /\ UNCHANGED <<wanted, byName, listed, handles, table, asking, waiting, rows>>

Close ==
  /\ step = "close"
  /\ \E s \in Slots : table[s] = Current /\ table' = [table EXCEPT ![s] = Free]
  /\ handles' = Tail(handles) /\ step' = "next"
  /\ UNCHANGED <<wanted, byName, listed, asking, waiting, rows>>

Finish ==
  /\ step = "next" /\ handles = <<>> /\ step' = "done"
  /\ UNCHANGED <<wanted, byName, listed, handles, table, asking, waiting, rows>>
LsofInit(lists) ==
  /\ listed \in lists /\ handles = listed
  /\ byName \in BOOLEAN
  /\ \E pids, named \in SUBSET Owners : (named # {} => byName) /\ wanted = Chosen(pids, named)
  /\ table = [s \in Slots |-> Free] /\ asking = {} /\ waiting = 0 /\ rows = {} /\ step = "next"

LsofNext == SkipHandle \/ Duplicate \/ (\E q \in asking : Ask(q)) \/ Answer \/ Timeout \/ Close \/ Finish

-----------------------------------------------------------------------------
(* Every row is true, however late the questions of earlier handles are    *)
(* asked and answered: its process has that file open, on that drive       *)
(* (unless the devices of two drives begin the name), and it is one of the *)
(* processes that were asked for, unless none was found.                   *)
RowsAreTrue ==
  \A r \in rows :
    /\ wanted # {} => r.pid \in wanted
    /\ \E i \in DOMAIN listed :
         /\ listed[i].file /\ listed[i].pid = r.pid /\ listed[i].name = r.path.name
         /\ \A d \in DOMAIN Devices :
              r.path.name \in Devices[d] =>
                d = r.path.drive \/ r.path.name \in Devices[r.path.drive]
=============================================================================
